------------------------------ MODULE Coreactor ------------------------------
(***************************************************************************)
(* The reactor of one thread: coroutine/coreactor.{h,cpp} on top of the    *)
(* events of libev (libev/event.c).                                        *)
(*                                                                         *)
(* A coroutine that waits for a descriptor, a signal or a timeout marks    *)
(* itself with WAIT, arms an event, enters it in the table _triggers and   *)
(* yields; a coroutine in run() lets libev dispatch, whose callback takes  *)
(* WAIT away.  Of the scheduler this module keeps what Coroutine shows of  *)
(* it: one coroutine runs, and one that is switched in has no WAIT bit.    *)
(* Which one is next is left open.  The memory of the events behaves as    *)
(* Allocator says, which LinkedAllocator implements.                       *)
(*                                                                         *)
(* The bits TIME and CANCEL, which tell a coroutine why it was woken, are  *)
(* never read by the library and are left out.                             *)
(*                                                                         *)
(* The parameter coro of the reactor's functions is the calling coroutine, *)
(* as in every call of the library, except in cancel().                    *)
(***************************************************************************)
EXTENDS Integers, FiniteSets

CONSTANTS
  Coro,        \* the coroutines
  Event,       \* the addresses of event_t objects
  Null,        \* the null pointer
  Absent,      \* no entry in _triggers
  Reactor,     \* the coroutine that calls run(), and does not wait otherwise
  Persistent,  \* the coroutines that call set_io with EV_PERSIST, as acceptors do
  OneShot,     \* the coroutines that wait without it, and that can end
  Cancelled    \* the coroutines that cancel() is called for

ASSUME PointerAssumption ==
  Null \notin Event \cup Coro /\ Absent \notin Event /\ Null # Absent
ASSUME CoroAssumption ==
  /\ Reactor \in Coro
  /\ Persistent \cup OneShot \cup Cancelled \subseteq Coro \ {Reactor}

VARIABLES
  running,    \* the coroutine that has the processor; Null: the scheduler has it
  waiting,    \* the coroutines whose _evet has the bit WAIT
  call,       \* the library call each coroutine is in
  _triggers,  \* the table
  held,       \* the events that malloc handed out
  ioArmed,    \* the events whose descriptor or signal libev watches
  timerArmed, \* the events whose timer libev runs
  arg,        \* ev_arg of each event; Null in one that was freed
  sticky,     \* the events that stay armed when they fire (EV_PERSIST)
  spent       \* history: those of them that libev disarmed all the same

libev == <<ioArmed, timerArmed, arg, sticky, spent>>
vars  == <<running, waiting, call, _triggers, held, libev>>

Heap == INSTANCE Allocator WITH Block <- Event

\* A call: its kind, the event it allocated, and whether set_io found the
\* coroutine in the table.
Call(kind, e, found) == [kind |-> kind, event |-> e, found |-> found]
Plain(kind) == Call(kind, Null, FALSE)

Kind(c)   == call[c].kind
InUser(c) == running = c /\ Kind(c) = "user"

\* The calls that give their event back when the coroutine returns.
Returning == {"io", "timer", "signal"}
Waiting   == Returning \cup {"persist"}

-----------------------------------------------------------------------------
(* libev *)

\* event_set and event_add for coroutine c.
EventAdd(e, c, io, timer, persist) ==
  /\ arg' = [arg EXCEPT ![e] = c]
  /\ ioArmed' = IF io THEN ioArmed \cup {e} ELSE ioArmed
  /\ timerArmed' = IF timer THEN timerArmed \cup {e} ELSE timerArmed
  /\ sticky' = IF persist THEN sticky \cup {e} ELSE sticky \ {e}
  /\ UNCHANGED spent

\* event_del
EventDel(e) ==
  /\ ioArmed' = ioArmed \ {e}
  /\ timerArmed' = timerArmed \ {e}

\* What was in a freed event is forgotten.
Free(e) ==
  /\ held' = held \ {e}
  /\ arg' = [arg EXCEPT ![e] = Null]
  /\ sticky' = sticky \ {e}
  /\ spent' = spent \ {e}

-----------------------------------------------------------------------------
(* Waiting *)

\* Leave the processor, in a call that waits.
Park(c, frame) ==
  /\ waiting' = waiting \cup {c}
  /\ call' = [call EXCEPT ![c] = frame]
  /\ running' = Null

\* set_io: a coroutine that is in the table is taken to wait for its persistent
\* event again, and the new event is freed.
SetIo(c, e, persist, timed) ==
  /\ InUser(c)
  /\ Park(c, Call(IF persist THEN "persist" ELSE "io", e, _triggers[c] # Absent))
  /\ IF _triggers[c] # Absent
       THEN e \notin held /\ UNCHANGED <<held, _triggers, libev>>
       ELSE /\ Heap!Malloc(e)
            /\ EventAdd(e, c, TRUE, timed, persist)
            /\ _triggers' = [_triggers EXCEPT ![c] = e]

\* set_timeout and set_signal.  std::map::insert leaves an old entry alone.
SetAlone(c, e, kind) ==
  /\ InUser(c)
  /\ Park(c, Call(kind, e, FALSE))
  /\ Heap!Malloc(e)
  /\ EventAdd(e, c, kind = "signal", kind = "timer", kind = "signal")
  /\ _triggers' = [_triggers EXCEPT ![c] = IF @ = Absent THEN e ELSE @]

\* The scheduler switches to a coroutine that does not wait.
Resume(c) ==
  /\ running = Null
  /\ Kind(c) # "gone" /\ c \notin waiting
  /\ running' = c
  /\ UNCHANGED <<waiting, call, _triggers, held, libev>>

\* The event is given back while libev knows it.
Return_StillArmed(c) ==
  /\ running = c /\ Kind(c) \in Waiting
  /\ call' = [call EXCEPT ![c] = Plain("user")]
  /\ IF Kind(c) = "persist"
       THEN UNCHANGED <<_triggers, held, libev>>
       ELSE /\ _triggers' = [_triggers EXCEPT ![c] = Absent]
            /\ Free(call[c].event)
            /\ UNCHANGED <<ioArmed, timerArmed>>
  /\ UNCHANGED <<running, waiting>>

\* The entry stays in the table.
Return_KeepsEntry(c) ==
  /\ running = c /\ Kind(c) \in Waiting
  /\ call' = [call EXCEPT ![c] = Plain("user")]
  /\ IF Kind(c) = "persist"
       THEN UNCHANGED <<_triggers, held, libev>>
       ELSE /\ EventDel(call[c].event)
            /\ Free(call[c].event)
            /\ UNCHANGED _triggers
  /\ UNCHANGED <<running, waiting>>

\* Behind the yield(): a call that is not persistent takes its event out of the
\* table and out of libev, and gives it back.
Return(c) ==
  /\ running = c /\ Kind(c) \in Waiting
  /\ call' = [call EXCEPT ![c] = Plain("user")]
  /\ IF Kind(c) = "persist"
       THEN UNCHANGED <<_triggers, held, libev>>
       ELSE /\ _triggers' = [_triggers EXCEPT ![c] = Absent]
            /\ EventDel(call[c].event)
            /\ Free(call[c].event)
  /\ UNCHANGED <<running, waiting>>

\* The event is looked up before the entry is erased, as the order of the two
\* statements suggests: it is freed here, and again in Return.
Cancel_FreesEvent(c, t) ==
  /\ InUser(c)
  /\ _triggers[t] \in Event
  /\ waiting' = waiting \ {t}
  /\ EventDel(_triggers[t])
  /\ Free(_triggers[t])
  /\ _triggers' = [_triggers EXCEPT ![t] = Absent]
  /\ UNCHANGED <<running, call>>

\* WAIT stays.
Cancel_KeepsWait(c, t) ==
  /\ InUser(c)
  /\ _triggers[t] \in Event
  /\ EventDel(_triggers[t])
  /\ _triggers' = [_triggers EXCEPT ![t] = Null]
  /\ UNCHANGED <<running, waiting, call, held, arg, sticky, spent>>

\* cancel(t).  The entry is erased and then looked up once more: operator[]
\* enters a null pointer, and that is what is freed.  A second cancel(t) would
\* pass this null pointer to event_del: the program ends there.
Cancel(c, t) ==
  /\ InUser(c)
  /\ _triggers[t] \in Event
  /\ waiting' = waiting \ {t}
  /\ EventDel(_triggers[t])
  /\ _triggers' = [_triggers EXCEPT ![t] = Null]
  /\ UNCHANGED <<running, call, held, arg, sticky, spent>>

-----------------------------------------------------------------------------
(* run() *)

\* run(): let libev dispatch.
Run ==
  /\ InUser(Reactor)
  /\ call' = [call EXCEPT ![Reactor] = Plain("dispatch")]
  /\ UNCHANGED <<running, waiting, _triggers, held, libev>>

Dispatching == running = Reactor /\ Kind(Reactor) = "dispatch"

\* _cb_evt
Wake(e) == waiting' = waiting \ {arg[e]}

\* event_del in a callback of libev, of a persistent event too.
Disarm(e) ==
  /\ EventDel(e)
  /\ spent' = spent \cup ({e} \cap sticky)
  /\ UNCHANGED <<arg, sticky>>

\* Descriptor or signal: ev_x_cb_io or ev_x_cb_sig.
FireIo(e) ==
  /\ Dispatching /\ e \in ioArmed
  /\ Wake(e)
  /\ IF e \in sticky THEN UNCHANGED libev ELSE Disarm(e)
  /\ UNCHANGED <<running, call, _triggers, held>>

\* The same with EV_ERROR: libev gave the descriptor up (fd_kill).
FireError(e) ==
  /\ Dispatching /\ e \in ioArmed
  /\ Wake(e) /\ Disarm(e)
  /\ UNCHANGED <<running, call, _triggers, held>>

\* Timeout: ev_x_cb_to.
FireTimer(e) ==
  /\ Dispatching /\ e \in timerArmed
  /\ Wake(e) /\ Disarm(e)
  /\ UNCHANGED <<running, call, _triggers, held>>

\* The round of libev is over: yield.
LoopYield ==
  /\ Dispatching
  /\ call' = [call EXCEPT ![Reactor] = Plain("loop")]
  /\ running' = Null
  /\ UNCHANGED <<waiting, _triggers, held, libev>>

\* Behind the yield(): once more while the table is not empty.
LoopTest ==
  /\ running = Reactor /\ Kind(Reactor) = "loop"
  /\ call' = [call EXCEPT ![Reactor] =
                Plain(IF \E c \in Coro : _triggers[c] # Absent THEN "dispatch" ELSE "user")]
  /\ UNCHANGED <<running, waiting, _triggers, held, libev>>

-----------------------------------------------------------------------------
(* User code *)

\* It yields without waiting for the reactor.
Yield(c) ==
  /\ InUser(c)
  /\ running' = Null
  /\ UNCHANGED <<waiting, call, _triggers, held, libev>>

\* The coroutine ends and is destroyed.
End(c) ==
  /\ InUser(c) /\ c \in OneShot
  /\ call' = [call EXCEPT ![c] = Plain("gone")]
  /\ running' = Null
  /\ UNCHANGED <<waiting, _triggers, held, libev>>

Waits(c) ==
  \E e \in Event :
    \/ c \in OneShot /\ \E timed \in BOOLEAN : SetIo(c, e, FALSE, timed)
    \/ c \in Persistent /\ \E timed \in BOOLEAN : SetIo(c, e, TRUE, timed)
    \/ c \in OneShot /\ \E kind \in {"timer", "signal"} : SetAlone(c, e, kind)

Next ==
  \/ \E c \in Coro :
       \/ Waits(c) \/ Resume(c) \/ Return(c) \/ Yield(c) \/ End(c)
       \/ \E t \in Cancelled : Cancel(c, t)
  \/ Run \/ LoopYield \/ LoopTest
  \/ \E e \in Event : FireIo(e) \/ FireError(e) \/ FireTimer(e)

Init ==
  /\ running = Null
  /\ waiting = {}
  /\ call = [c \in Coro |-> Plain("user")]
  /\ _triggers = [c \in Coro |-> Absent]
  /\ held = {}
  /\ ioArmed = {} /\ timerArmed = {}
  /\ arg = [e \in Event |-> Null]
  /\ sticky = {} /\ spent = {}

Spec == Init /\ [][Next]_vars

=============================================================================
