------------------------------ MODULE CoroCreate ------------------------------
(***************************************************************************)
(* libcoro/coro.c: coro_create(), as coroutine_base_t::coro_context()      *)
(* calls it on the first resume of a coroutine.  It gives its arguments to *)
(* the new stack in static variables, switches to it, where coro_init()    *)
(* picks them up, and switches back.  The statics belong to the process,   *)
(* while each cothread creates the contexts of its own coroutines.         *)
(*                                                                         *)
(* Each thread creates one context here.                                   *)
(***************************************************************************)
CONSTANTS
  Thread,  \* the cothreads
  NoStack,
  Locked   \* TRUE if the program puts a mutex around coro_create()

VARIABLES
  coro_init_arg, new_coro, create_coro,  \* the statics
  pc,      \* where in coro_create() each thread is
  stack,   \* the stack each thread is on
  arg      \* what coro_init() read on the stack of each coroutine

statics    == <<coro_init_arg, new_coro, create_coro>>
createVars == <<statics, pc, stack, arg>>

\* The stack a thread started on, and that of the coroutine it creates, which
\* also names the coroutine.
Own(t)  == <<"own", t>>
Coro(t) == <<"coro", t>>
Coros   == {Coro(t) : t \in Thread}

\* The mutex is free, or there is none.
MayEnter == Locked => \A t \in Thread : pc[t] \in {"start", "done"}

Goto(t, from, to) == pc[t] = from /\ pc' = [pc EXCEPT ![t] = to]

SetArg(t) ==
  /\ Goto(t, "start", "new") /\ MayEnter
  /\ coro_init_arg' = Coro(t)
  /\ UNCHANGED <<new_coro, create_coro, stack, arg>>

SetNew(t) ==
  /\ Goto(t, "new", "create")
  /\ new_coro' = Coro(t)
  /\ UNCHANGED <<coro_init_arg, create_coro, stack, arg>>

SetCreate(t) ==
  /\ Goto(t, "create", "transfer")
  /\ create_coro' = Own(t)
  /\ UNCHANGED <<coro_init_arg, new_coro, stack, arg>>

\* coro_transfer (create_coro, new_coro)
TransferIn(t) ==
  /\ Goto(t, "transfer", "init")
  /\ stack' = [stack EXCEPT ![t] = new_coro]
  /\ UNCHANGED <<statics, arg>>

\* coro_init() reads the argument.
InitArg(t) ==
  /\ Goto(t, "init", "back")
  /\ arg' = [arg EXCEPT ![stack[t]] = coro_init_arg]
  /\ UNCHANGED <<statics, stack>>

\* coro_transfer (new_coro, create_coro)
TransferBack(t) ==
  /\ Goto(t, "back", "done")
  /\ stack' = [stack EXCEPT ![t] = create_coro]
  /\ UNCHANGED <<statics, arg>>

CreateInit ==
  /\ coro_init_arg = NoStack /\ new_coro = NoStack /\ create_coro = NoStack
  /\ pc = [t \in Thread |-> "start"]
  /\ stack = [t \in Thread |-> Own(t)]
  /\ arg = [c \in Coros |-> NoStack]

CreateNext ==
  \E t \in Thread :
    SetArg(t) \/ SetNew(t) \/ SetCreate(t) \/ TransferIn(t) \/ InitArg(t) \/ TransferBack(t)

CreateSpec == CreateInit /\ [][CreateNext]_createVars

\* When coro_create() returns, the thread is on its own stack again, and the
\* new context will start with the coroutine it was made for.
Created == \A t \in Thread : pc[t] = "done" => stack[t] = Own(t) /\ arg[Coro(t)] = Coro(t)

=============================================================================
