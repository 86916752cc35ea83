------------------------------ MODULE Coroutine ------------------------------
(***************************************************************************)
(* The scheduler of one cothread: coroutine/coroutine.{h,cpp}.             *)
(*                                                                         *)
(* All coroutines of a thread, and the thread's main context, share one    *)
(* processor: exactly one context runs, and it runs until it calls into    *)
(* the library.  A context is therefore a C++ call stack.  The frames of   *)
(* user code are not represented: a context whose stack of LIBRARY frames  *)
(* is empty is executing user code and may make any call of the API that   *)
(* the constant Api allows.  The frames of the library are                 *)
(*                                                                         *)
(*   drain          resume(0) of the main context, its while loop          *)
(*   execute        execute() after the coroutine's function returned      *)
(*   resume_childs  the loop of resume_childs over the children of co;     *)
(*                  kid is the child it took off the list, left the        *)
(*                  iterations the loop still has to make                  *)
(*   resume         resume(co), at its entry                               *)
(*   transfer       resume(co), behind the sweep of co's children          *)
(*   coro_transfer  the context is switched out, running co                *)
(*   yield          yield(), in front of transfer_pre()                    *)
(*   mget           the waiting loop of mget()                             *)
(*   await          a reactor call that armed a trigger and yielded        *)
(*                                                                         *)
(* An assert of the code is a guard: a program that fails it stops there.  *)
(* That no guard of this kind is ever what stops the program is a property *)
(* (AssertionsHold).                                                       *)
(*                                                                         *)
(* A definition named X_Slip is X with one mistake a programmer could      *)
(* make; no specification uses it.  PROJECT.json names the property that   *)
(* notices it.                                                             *)
(***************************************************************************)
EXTENDS Integers, Sequences, FiniteSets

CONSTANTS
  Coro,         \* the addresses a coroutine_base_t can have
  Nil,          \* the null pointer, which also stands for the main context
  Message,      \* the messages
  MaxMessages,  \* bound: messages queued at one coroutine
  RawMsg,       \* what _msg can hold when the constructor has run
  Api           \* the library calls that the user code of a run makes

ASSUME NilAssumption == Nil \notin Coro
ASSUME CoroAssumption == IsFiniteSet(Coro)
ASSUME BoundAssumption == MaxMessages \in Nat
\* The constructor does not initialise _msg: any of these values may be there.
ASSUME RawMsgAssumption == RawMsg # {} /\ RawMsg \subseteq SUBSET {"WAIT", "CHLD"}

VARIABLES
  current,   \* _current_coroutine
  stat,      \* _stat
  evet,      \* _evet: which of its bits WAIT and CHLD are set
  msg,       \* _msg: likewise
  pre,       \* _coro_pre
  parent,    \* _coro_parent
  level,     \* history: the nesting depth child() gave to the coroutine
  childs,    \* _coro_childs; at Nil, _main_childs
  messages,  \* _coro_messages
  stack      \* the library frames on the C++ stack of each context

flags == <<evet, msg>>
links == <<pre, parent, level>>
vars  == <<current, stat, flags, links, childs, messages, stack>>

Ctx == Coro \cup {Nil}

\* FREED marks an address that holds no coroutine; the others are the code's.
FREED          == 0
CORO_STAT_INIT == 1
CORO_STAT_WAIT == 2
CORO_STAT_BUSY == 4
CORO_STAT_DONE == 8

Live == {c \in Coro : stat[c] # FREED}

-----------------------------------------------------------------------------
(* Frames *)

Frame(op, co, kid, left) == [op |-> op, co |-> co, kid |-> kid, left |-> left]
Mark(op)     == Frame(op, Nil, Nil, 0)
Call(op, co) == Frame(op, co, Nil, 0)

Top(s)   == s[Len(s)]
Under(s) == SubSeq(s, 1, Len(s) - 1)

\* The running context is in library code, in a frame of this kind.
In(op) == stack[current] # <<>> /\ Top(stack[current]).op = op

\* The running context is in user code.
InUser == stack[current] = <<>>

Become(s) == stack' = [stack EXCEPT ![current] = s]
Push(f)   == Become(Append(stack[current], f))
Pop       == Become(Under(stack[current]))
Replace(f) == Become(Append(Under(stack[current]), f))

-----------------------------------------------------------------------------
(* The wait and child bits *)

\* The chain of _coro_parent pointers above a coroutine.
Ancestors(c) ==
  LET climb[n \in 0..Cardinality(Coro)] ==
        IF n = 0 THEN c
        ELSE IF climb[n-1] = Nil THEN Nil ELSE parent[climb[n-1]]
  IN  {p \in Coro : \E n \in 1..Cardinality(Coro) : climb[n] = p}

Descendants(c) == {d \in Live : c \in Ancestors(d)}

Waits(c)  == "WAIT" \in evet[c] \cup msg[c]
ChildUp(c) == "CHLD" \in evet[c] \cup msg[c]

\* The bit stops at the first parent.
RaiseChld_OneLevel(word, c) ==
  [p \in Coro |-> IF p = parent[c] THEN word[p] \cup {"CHLD"} ELSE word[p]]

\* event_add(CHLD) and msg_add(CHLD) call themselves on the parent: the bit
\* reaches every ancestor.
RaiseChld(word, c) ==
  [p \in Coro |-> IF p \in Ancestors(c) THEN word[p] \cup {"CHLD"} ELSE word[p]]

\* The parent is not told.
DelWait_Silent(word, c) == [word EXCEPT ![c] = @ \ {"WAIT"}]

\* event_del(WAIT) and msg_del(WAIT): the parent hears of it if c was waiting.
DelWait(word, c) ==
  [(IF "WAIT" \in word[c] THEN RaiseChld(word, c) ELSE word)
     EXCEPT ![c] = @ \ {"WAIT"}]

-----------------------------------------------------------------------------
(* Shared steps *)

\* The loop of resume_childs over the children of p, above the frames s.
LoopOver(p, s) == Become(Append(s, Frame("resume_childs", p, Nil, Len(childs[p]))))

\* Entering the loop of resume_childs on the children of p, on top of the
\* frames s of the caller.  The function of this_coroutine that the main
\* context runs leaves the child bits alone; the member function clears them.
Sweep(p, s) ==
  /\ LoopOver(p, s)
  /\ IF current = Nil
       THEN UNCHANGED flags
       ELSE /\ evet' = [evet EXCEPT ![p] = @ \ {"CHLD"}]
            /\ msg'  = [msg  EXCEPT ![p] = @ \ {"CHLD"}]

\* destroy_coroutine: the object goes back to the pool, with its lists.
Destroy(c) ==
  /\ stat'     = [stat EXCEPT ![c] = FREED]
  /\ evet'     = [evet EXCEPT ![c] = {}]
  /\ msg'      = [msg EXCEPT ![c] = {}]
  /\ pre'      = [pre EXCEPT ![c] = Nil]
  /\ parent'   = [parent EXCEPT ![c] = Nil]
  /\ level'    = [level EXCEPT ![c] = 0]
  /\ messages' = [messages EXCEPT ![c] = <<>>]

\* Control goes to the parent instead of the resumer.
TransferPre_ToParent(own) ==
  LET p == parent[current]
      self == [stat EXCEPT ![current] = own]
  IN  /\ current' = p
      /\ IF p = Nil THEN stat' = self
         ELSE /\ self[p] = CORO_STAT_WAIT
              /\ stat' = [self EXCEPT ![p] = 2 * @]

\* transfer_pre, after the caller's _stat became own: back to _coro_pre.
TransferPre(own) ==
  LET p == pre[current]
      self == [stat EXCEPT ![current] = own]
  IN  /\ current' = p
      /\ IF p = Nil THEN stat' = self
         ELSE /\ self[p] = CORO_STAT_WAIT                       \* assert
              /\ stat' = [self EXCEPT ![p] = 2 * @]

-----------------------------------------------------------------------------
(* What the library does with a context that called it *)

\* resume(0) in the main context: once more round, or return.
Drain ==
  /\ In("drain")
  /\ IF childs[Nil] = <<>> THEN Pop /\ UNCHANGED flags
                           ELSE Sweep(Nil, stack[Nil])
  /\ UNCHANGED <<current, stat, links, childs, messages>>

\* The loop does not stop at zero: while(loop--) with a signed test forgotten.
TakeChild_NoCount ==
  /\ In("resume_childs")
  /\ LET f == Top(stack[current])
         c == Head(childs[f.co])
     IN  /\ f.kid = Nil
         /\ childs[f.co] # <<>>
         /\ childs' = [childs EXCEPT ![f.co] = Tail(@)]
         /\ IF stat[c] = CORO_STAT_DONE
              THEN /\ Destroy(c)
                   /\ Replace([f EXCEPT !.left = @ - 1])
              ELSE /\ Become(Append(Append(Under(stack[current]),
                                          [f EXCEPT !.kid = c, !.left = @ - 1]),
                                   Call("resume", c)))
                   /\ UNCHANGED <<stat, flags, links, messages>>
  /\ UNCHANGED current

\* The branch that destroys a finished child continues without counting it.
TakeChild_Uncounted ==
  /\ In("resume_childs")
  /\ LET f == Top(stack[current])
         c == Head(childs[f.co])
     IN  /\ f.kid = Nil /\ f.left > 0
         /\ childs[f.co] # <<>>
         /\ childs' = [childs EXCEPT ![f.co] = Tail(@)]
         /\ IF stat[c] = CORO_STAT_DONE
              THEN Destroy(c) /\ UNCHANGED stack
              ELSE /\ Become(Append(Append(Under(stack[current]),
                                          [f EXCEPT !.kid = c, !.left = @ - 1]),
                                   Call("resume", c)))
                   /\ UNCHANGED <<stat, flags, links, messages>>
  /\ UNCHANGED current

\* resume_childs takes the first child off the list: a finished one is
\* destroyed, any other one is resumed.
TakeChild ==
  /\ In("resume_childs")
  /\ LET f == Top(stack[current])
         c == Head(childs[f.co])
     IN  /\ f.kid = Nil /\ f.left > 0
         /\ childs[f.co] # <<>>
         /\ childs' = [childs EXCEPT ![f.co] = Tail(@)]
         /\ IF stat[c] = CORO_STAT_DONE
              THEN /\ Destroy(c)
                   /\ Replace([f EXCEPT !.left = @ - 1])
              ELSE /\ Become(Append(Append(Under(stack[current]),
                                          [f EXCEPT !.kid = c, !.left = @ - 1]),
                                   Call("resume", c)))
                   /\ UNCHANGED <<stat, flags, links, messages>>
  /\ UNCHANGED current

\* The child goes back to the list before it is found to be done.
PutChildBack_TooEarly ==
  /\ In("resume_childs")
  /\ LET f == Top(stack[current])
     IN  /\ f.kid # Nil
         /\ Replace([f EXCEPT !.kid = Nil])
         /\ childs' = [childs EXCEPT ![f.co] = Append(@, f.kid)]
         /\ IF stat[f.kid] = CORO_STAT_DONE
              THEN Destroy(f.kid)
              ELSE UNCHANGED <<stat, flags, links, messages>>
  /\ UNCHANGED current

\* ... and after resume() returned: destroyed if it is done by now, else it
\* goes to the back of the list.
PutChildBack ==
  /\ In("resume_childs")
  /\ LET f == Top(stack[current])
     IN  /\ f.kid # Nil
         /\ Replace([f EXCEPT !.kid = Nil])
         /\ IF stat[f.kid] = CORO_STAT_DONE
              THEN Destroy(f.kid) /\ UNCHANGED childs
              ELSE /\ childs' = [childs EXCEPT ![f.co] = Append(@, f.kid)]
                   /\ UNCHANGED <<stat, flags, links, messages>>
  /\ UNCHANGED current

\* The loop counter, which is the length of the list at entry, ran out.
EndSweep ==
  /\ In("resume_childs")
  /\ LET f == Top(stack[current]) IN f.kid = Nil /\ f.left = 0
  /\ Pop
  /\ UNCHANGED <<current, stat, flags, links, childs, messages>>

\* _stat is not looked at.
ResumeEntry_AnyStat ==
  /\ In("resume")
  /\ LET c == Top(stack[current]).co
         behind == Append(Under(stack[current]), Call("transfer", c))
     IN  IF ChildUp(c) THEN Sweep(c, behind) ELSE Become(behind) /\ UNCHANGED flags
  /\ UNCHANGED <<current, stat, links, childs, messages>>

\* resume(c): nothing unless c is new or suspended; the children of c first,
\* if c was told that one of them has news.
ResumeEntry ==
  /\ In("resume")
  /\ LET c == Top(stack[current]).co
         behind == Append(Under(stack[current]), Call("transfer", c))
     IN  IF stat[c] \notin {CORO_STAT_INIT, CORO_STAT_WAIT}
           THEN Pop /\ UNCHANGED flags
           ELSE IF ChildUp(c) THEN Sweep(c, behind)
                              ELSE Become(behind) /\ UNCHANGED flags
  /\ UNCHANGED <<current, stat, links, childs, messages>>

\* The resumer's _stat is not shifted.
Transfer_ResumerBusy ==
  /\ In("transfer")
  /\ LET c == Top(stack[current]).co
     IN  IF Waits(c)
           THEN Pop /\ UNCHANGED <<current, stat, pre>>
           ELSE /\ stat[c] \in {CORO_STAT_INIT, CORO_STAT_WAIT}
                /\ stat' = [stat EXCEPT ![c] = CORO_STAT_BUSY]
                /\ current' = c
                /\ pre' = [pre EXCEPT ![c] = current]
                /\ Replace(Call("coro_transfer", c))
  /\ UNCHANGED <<flags, parent, level, childs, messages>>

\* _coro_pre is set on the first resume only.
Transfer_FirstPre ==
  /\ In("transfer")
  /\ LET c == Top(stack[current]).co
     IN  IF Waits(c)
           THEN Pop /\ UNCHANGED <<current, stat, pre>>
           ELSE /\ stat[c] \in {CORO_STAT_INIT, CORO_STAT_WAIT}
                /\ stat' = [[stat EXCEPT ![c] = CORO_STAT_BUSY] EXCEPT
                              ![IF current = Nil THEN c ELSE current] =
                                  IF current = Nil THEN @ ELSE CORO_STAT_WAIT]
                /\ current' = c
                /\ pre' = IF stat[c] = CORO_STAT_INIT THEN [pre EXCEPT ![c] = current]
                                                     ELSE pre
                /\ Replace(Call("coro_transfer", c))
  /\ UNCHANGED <<flags, parent, level, childs, messages>>

\* resume(c), second half: leave a waiting coroutine alone, else transfer(): c
\* becomes BUSY, the resumer WAIT, and c will return to the resumer.
Transfer ==
  /\ In("transfer")
  /\ LET c == Top(stack[current]).co
     IN  IF Waits(c)
           THEN Pop /\ UNCHANGED <<current, stat, pre>>
           ELSE LET woken == [stat EXCEPT ![c] = IF @ = CORO_STAT_INIT THEN 2 * @ ELSE @]
                    busy  == [woken EXCEPT ![c] = 2 * @]
                IN  /\ woken[c] = CORO_STAT_WAIT                \* assert
                    /\ stat' = IF current = Nil THEN busy
                               ELSE [busy EXCEPT ![current] = @ \div 2]
                    /\ current' = c
                    /\ pre' = [pre EXCEPT ![c] = current]
                    /\ Replace(Call("coro_transfer", c))
  /\ UNCHANGED <<flags, parent, level, childs, messages>>

\* The context was switched in again: coro_transfer() returns in it.
Return ==
  /\ In("coro_transfer")
  /\ Pop
  /\ UNCHANGED <<current, stat, flags, links, childs, messages>>

\* yield(), after its sweep: switch to the context that resumed this one.
YieldOut ==
  /\ In("yield")
  /\ Pop
  /\ TransferPre(IF stat[current] = CORO_STAT_BUSY THEN CORO_STAT_WAIT ELSE stat[current])
  /\ UNCHANGED <<flags, links, childs, messages>>

\* mget(): park until there is a message, then take the first one.
MgetLoop ==
  /\ In("mget")
  /\ IF messages[current] = <<>>
       THEN /\ LoopOver(current, Append(stack[current], Mark("yield")))
            /\ msg'  = [msg EXCEPT ![current] = {"WAIT"}]
            /\ evet' = [evet EXCEPT ![current] = @ \ {"CHLD"}]
            /\ UNCHANGED messages
       ELSE /\ Pop
            /\ messages' = [messages EXCEPT ![current] = Tail(@)]
            /\ UNCHANGED flags
  /\ UNCHANGED <<current, stat, links, childs>>

\* The reactor call returns to its caller.
AwaitReturn ==
  /\ In("await")
  /\ Pop
  /\ UNCHANGED <<current, stat, flags, links, childs, messages>>

\* The children are not run to their end.
Execute_LeavesChilds ==
  /\ In("execute")
  /\ Pop /\ TransferPre(CORO_STAT_DONE)
  /\ UNCHANGED <<flags, links, childs, messages>>

\* DONE is not set.
Execute_NotDone ==
  /\ In("execute")
  /\ IF childs[current] # <<>>
       THEN Sweep(current, stack[current]) /\ UNCHANGED <<current, stat>>
       ELSE Pop /\ TransferPre(CORO_STAT_WAIT) /\ UNCHANGED flags
  /\ UNCHANGED <<links, childs, messages>>

\* execute(), behind the coroutine's function: sweep until no child is left,
\* then DONE and back to the resumer, never to run again.
Execute ==
  /\ In("execute")
  /\ IF childs[current] # <<>>
       THEN Sweep(current, stack[current]) /\ UNCHANGED <<current, stat>>
       ELSE Pop /\ TransferPre(CORO_STAT_DONE) /\ UNCHANGED flags
  /\ UNCHANGED <<links, childs, messages>>

Library ==
  \/ Drain \/ TakeChild \/ PutChildBack \/ EndSweep \/ ResumeEntry \/ Transfer
  \/ Return \/ YieldOut \/ MgetLoop \/ AwaitReturn \/ Execute

-----------------------------------------------------------------------------
(* The calls user code makes *)

Calls(f) == InUser /\ f \in Api

\* The coroutines that resume() and resume_childs() are meant for: "resume a
\* nested coro, current should be running".
Nested == IF current = Nil THEN Live ELSE Descendants(current)

\* create_coroutine and this_coroutine::child: a new coroutine that the caller
\* owns.  In the main context it is appended to _main_childs.
Child(c, raw) ==
  /\ Calls("child")
  /\ stat[c] = FREED
  /\ stat'   = [stat EXCEPT ![c] = CORO_STAT_INIT]
  /\ evet'   = [evet EXCEPT ![c] = {}]
  /\ msg'    = [msg EXCEPT ![c] = raw]
  /\ pre'    = [pre EXCEPT ![c] = Nil]
  /\ parent' = [parent EXCEPT ![c] = current]
  /\ level'  = [level EXCEPT ![c] = IF current = Nil THEN 1 ELSE level[current] + 1]
  /\ messages' = [messages EXCEPT ![c] = <<>>]
  /\ childs' = [[childs EXCEPT ![c] = <<>>] EXCEPT ![current] = Append(@, c)]
  /\ UNCHANGED <<current, stack>>

\* this_coroutine::resume(): the main loop of a cothread.
ResumeAll ==
  /\ Calls("drain") /\ current = Nil
  /\ Push(Mark("drain"))
  /\ UNCHANGED <<current, stat, flags, links, childs, messages>>

Resume(c) ==
  /\ Calls("resume")
  /\ c \in Nested
  /\ Push(Call("resume", c))
  /\ UNCHANGED <<current, stat, flags, links, childs, messages>>

\* resume_childs(p).  Asked about itself by name, a coroutine returns at once
\* unless it was told that a child has news.
ResumeChilds(p) ==
  /\ Calls("resume_childs")
  /\ p \in Nested \cup {current}
  /\ Sweep(p, stack[current])
  /\ UNCHANGED <<current, stat, links, childs, messages>>

ResumeOwnChilds ==
  /\ Calls("resume_childs") /\ current # Nil
  /\ ChildUp(current)
  /\ Sweep(current, stack[current])
  /\ UNCHANGED <<current, stat, links, childs, messages>>

Yield ==
  /\ Calls("yield") /\ current # Nil
  /\ Sweep(current, <<Mark("yield")>>)
  /\ UNCHANGED <<current, stat, links, childs, messages>>

\* The message is queued, the receiver is not woken.
Mput_NoWake(c, m) ==
  /\ Calls("mput")
  /\ c \in Live
  /\ Len(messages[c]) < MaxMessages
  /\ messages' = [messages EXCEPT ![c] = Append(@, m)]
  /\ UNCHANGED <<current, stat, flags, links, childs, stack>>

\* mput(): wake the receiver, then queue the message.
Mput(c, m) ==
  /\ Calls("mput")
  /\ c \in Live
  /\ Len(messages[c]) < MaxMessages
  /\ msg' = DelWait(msg, c)
  /\ messages' = [messages EXCEPT ![c] = Append(@, m)]
  /\ UNCHANGED <<current, stat, evet, links, childs, stack>>

\* mbroadcast(): mput to every child on p's list.  The loop rotates the list
\* once round, which leaves it as it was; a child that is being resumed is not
\* on the list and gets nothing.
Mbroadcast(p, m) ==
  LET receivers == {childs[p][i] : i \in DOMAIN childs[p]}
      woken     == {c \in receivers : "WAIT" \in msg[c]}
      told      == UNION {Ancestors(c) : c \in woken}
  IN  /\ Calls("mbroadcast")
      /\ p \in Live
      /\ \A c \in receivers : Len(messages[c]) < MaxMessages
      /\ msg' = [c \in Coro |-> (msg[c] \cup (IF c \in told THEN {"CHLD"} ELSE {}))
                                        \ (IF c \in receivers THEN {"WAIT"} ELSE {})]
      /\ messages' = [c \in Coro |-> IF c \in receivers THEN Append(messages[c], m)
                                                        ELSE messages[c]]
      /\ UNCHANGED <<current, stat, evet, links, childs, stack>>

\* mget(msg, true); the loop is MgetLoop.
Mget ==
  /\ Calls("mget") /\ current # Nil
  /\ Push(Mark("mget"))
  /\ UNCHANGED <<current, stat, flags, links, childs, messages>>

\* mget(msg, false); on an empty queue it returns 0 and changes nothing.
TryMget ==
  /\ Calls("trymget") /\ current # Nil
  /\ messages[current] # <<>>
  /\ messages' = [messages EXCEPT ![current] = Tail(@)]
  /\ UNCHANGED <<current, stat, flags, links, childs, stack>>

\* coreactor_t::set_timeout, set_io or set_signal for the caller: event_set
\* (WAIT), arm a trigger, yield.
Await ==
  /\ Calls("await") /\ current # Nil
  /\ LoopOver(current, <<Mark("await"), Mark("yield")>>)
  /\ evet' = [evet EXCEPT ![current] = {"WAIT"}]
  /\ msg'  = [msg EXCEPT ![current] = @ \ {"CHLD"}]
  /\ UNCHANGED <<current, stat, links, childs, messages>>

Awaits(c) == stack[c] # <<>> /\ stack[c][1].op = "await"

\* The caller is in coreactor_t::run, and the trigger of c fires: _cb_evt
\* deletes WAIT.  On a timeout it also adds TIME, which tells the same
\* ancestors once more.
Fire(c) ==
  /\ Calls("await")
  /\ Awaits(c) /\ "WAIT" \in evet[c]
  /\ evet' = DelWait(evet, c)
  /\ UNCHANGED <<current, stat, msg, links, childs, messages, stack>>

\* event_add or event_set by a user, of a bit other than WAIT and CHLD.
EventAdd(c) ==
  /\ Calls("event_add")
  /\ c \in Live
  /\ evet' = RaiseChld(evet, c)
  /\ UNCHANGED <<current, stat, msg, links, childs, messages, stack>>

\* The coroutine's function returns to execute(), which asserts that it is BUSY.
\* "finish_childless": it first waits until child() says it has no child.
Finish ==
  /\ \/ Calls("finish")
     \/ Calls("finish_childless") /\ childs[current] = <<>>
  /\ current # Nil
  /\ stat[current] = CORO_STAT_BUSY                             \* assert
  /\ Push(Mark("execute"))
  /\ UNCHANGED <<current, stat, flags, links, childs, messages>>

User ==
  \/ \E c \in Coro, raw \in RawMsg : Child(c, raw)
  \/ ResumeAll
  \/ \E c \in Coro : Resume(c)
  \/ \E p \in Ctx : ResumeChilds(p)
  \/ ResumeOwnChilds
  \/ Yield
  \/ \E c \in Coro, m \in Message : Mput(c, m)
  \/ \E p \in Coro, m \in Message : Mbroadcast(p, m)
  \/ Mget
  \/ TryMget
  \/ Await
  \/ \E c \in Coro : Fire(c)
  \/ \E c \in Coro : EventAdd(c)
  \/ Finish

-----------------------------------------------------------------------------
Init ==
  /\ current  = Nil
  /\ stat     = [c \in Coro |-> FREED]
  /\ evet     = [c \in Coro |-> {}]
  /\ msg      = [c \in Coro |-> {}]
  /\ pre      = [c \in Coro |-> Nil]
  /\ parent   = [c \in Coro |-> Nil]
  /\ level    = [c \in Coro |-> 0]
  /\ childs   = [c \in Ctx |-> <<>>]
  /\ messages = [c \in Coro |-> <<>>]
  /\ stack    = [c \in Ctx |-> <<>>]

Next == Library \/ User

Spec == Init /\ [][Next]_vars

=============================================================================
