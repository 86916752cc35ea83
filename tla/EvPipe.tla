-------------------------------- MODULE EvPipe --------------------------------
(***************************************************************************)
(* How other threads and signal handlers wake up a libev loop: ev_async,   *)
(* ev_signal and the pipe between them and the loop (libev/ev.c).          *)
(*                                                                         *)
(* A sender stores its flag, then the flag "anything sent?", then          *)
(* pipe_write_skipped, and writes to the pipe only if the loop asked for   *)
(* it with pipe_write_wanted.  The loop asks, looks whether a write was    *)
(* skipped, and else blocks.  Every access to a shared variable is a step  *)
(* of its own.  A signal handler is a sender that may run in any thread;   *)
(* as a thread of its own it can do all that it can do in one of them.     *)
(*                                                                         *)
(* The other work of the loop (descriptors, timers, other watchers) is a   *)
(* reason to return from the poll, or not to block, at any time.           *)
(***************************************************************************)
EXTENDS Integers, Sequences, FiniteSets, SequencesExt

CONSTANTS
  Async,     \* the ev_async watchers
  Signo,     \* the signal numbers
  Sender,    \* what runs outside the loop: threads and signal handlers
  PipeSize,  \* the bytes that the pipe can hold
  Forks,     \* TRUE if the program forks
  Delayed    \* TRUE: stores of the loop wait for its next full fence, as they may on x86

ASSUME PipeAssumption ==
  /\ Async \cap Signo = {}
  /\ PipeSize \in Nat \ {0}
  /\ Forks \in BOOLEAN /\ Delayed \in BOOLEAN

VARIABLES
  raised,     \* w->sent of each ev_async, signals [].pending of each signal
  flag,       \* async_pending and sig_pending
  pipe_write_skipped,
  pipe_write_wanted,
  pipe,       \* the bytes in the pipe, the counter of the eventfd
  asyncs,     \* the array of started ev_asyncs
  active,     \* ev_active of each ev_async, 0 if stopped
  handled,    \* the signals with a handler, signals [].loop # 0
  postfork,   \* a fork happened: the pipe is shared with the parent
  sender,     \* what each sender is doing
  loop,       \* the point that the loop has reached
  waits,      \* the poll has a waittime
  revents,    \* the events that pipecb is called with
  back,       \* where pipecb returns to: "want" in loop_fork, else "invoke"
  scan,       \* what the loop of pipecb has not looked at yet
  fed,        \* the watchers that ev_feed_event queued
  buffer,     \* the stores of the loop that no other thread sees yet
  owed        \* history: what was sent and has not led to a callback since

shared == <<raised, flag, pipe_write_skipped, pipe_write_wanted, pipe>>
table  == <<asyncs, active, handled, postfork>>
pipecbVars == <<revents, back, scan>>
loopVars   == <<loop, waits, pipecbVars, fed, buffer>>
vars       == <<shared, table, sender, loopVars, owed>>

Source  == Async \cup Signo
Kind(w) == IF w \in Async THEN "async" ELSE "sig"
Idle    == [pc |-> "idle"]
At(t, pc) == sender[t].pc = pc
Goto(t, pc) == sender' = [sender EXCEPT ![t].pc = pc]
Return(t)   == sender' = [sender EXCEPT ![t] = Idle]

Init ==
  /\ raised = [w \in Source |-> FALSE]
  /\ flag = [k \in {"async", "sig"} |-> FALSE]
  /\ pipe_write_skipped = FALSE /\ pipe_write_wanted = FALSE
  /\ pipe = 0
  /\ asyncs = <<>> /\ active = [a \in Async |-> 0] /\ handled = {}
  /\ postfork = FALSE
  /\ sender = [t \in Sender |-> Idle]
  /\ loop = "user" /\ waits = FALSE /\ revents = {} /\ back = "invoke"
  /\ scan = {} /\ fed = {}
  /\ buffer = {} /\ owed = {}

Started == Range(asyncs) \cup handled
-----------------------------------------------------------------------------
(* ev_async_send and evpipe_write, and ev_feed_signal in a handler.        *)

\* w->sent = 1; the call is made for started watchers.
Send(t, a) ==
  /\ At(t, "idle") /\ a \in Range(asyncs)
  /\ raised' = [raised EXCEPT ![a] = TRUE]
  /\ owed' = owed \cup {a}
  /\ sender' = [sender EXCEPT ![t] = [pc |-> "test", of |-> a]]
  /\ UNCHANGED <<flag, pipe_write_skipped, pipe_write_wanted, pipe, table, loopVars>>

\* A signal arrives: the handler finds the loop of the signal and marks the
\* signal as pending.  If ev_signal_stop comes between, it might as well have
\* come behind.
Raise(t, s) ==
  /\ At(t, "idle") /\ s \in handled
  /\ raised' = [raised EXCEPT ![s] = TRUE]
  /\ owed' = owed \cup {s}
  /\ sender' = [sender EXCEPT ![t] = [pc |-> "test", of |-> s]]
  /\ UNCHANGED <<flag, pipe_write_skipped, pipe_write_wanted, pipe, table, loopVars>>

\* if (*flag) return;
TestFlag(t) ==
  /\ At(t, "test")
  /\ IF flag[Kind(sender[t].of)] THEN Return(t) ELSE Goto(t, "set")
  /\ UNCHANGED <<shared, table, loopVars, owed>>

SetFlag(t) ==
  /\ At(t, "set")
  /\ flag' = [flag EXCEPT ![Kind(sender[t].of)] = TRUE]
  /\ Goto(t, "skip")
  /\ UNCHANGED <<raised, pipe_write_skipped, pipe_write_wanted, pipe, table, loopVars, owed>>

SetSkipped(t) ==
  /\ At(t, "skip")
  /\ pipe_write_skipped' = TRUE
  /\ Goto(t, "wanted")
  /\ UNCHANGED <<raised, flag, pipe_write_wanted, pipe, table, loopVars, owed>>

TestWanted(t) ==
  /\ At(t, "wanted")
  /\ IF pipe_write_wanted THEN Goto(t, "clear") ELSE Return(t)
  /\ UNCHANGED <<shared, table, loopVars, owed>>

\* pipe_write_skipped = 0, "just an optimisation": it may come late, and undo
\* what another sender has stored or after the loop has looked.
ClearSkipped(t) ==
  /\ At(t, "clear")
  /\ pipe_write_skipped' = FALSE
  /\ Goto(t, "write")
  /\ UNCHANGED <<raised, flag, pipe_write_wanted, pipe, table, loopVars, owed>>

\* A write to a full pipe fails, and nobody looks.
Write(t) ==
  /\ At(t, "write")
  /\ pipe' = IF pipe < PipeSize THEN pipe + 1 ELSE pipe
  /\ Return(t)
  /\ UNCHANGED <<raised, flag, pipe_write_skipped, pipe_write_wanted, table, loopVars, owed>>
-----------------------------------------------------------------------------
(* Starting and stopping, in the thread of the loop.                       *)

\* ev_async_start: a send from before does not count.
AsyncStart(a) ==
  /\ loop = "user" /\ active[a] = 0
  /\ raised' = [raised EXCEPT ![a] = FALSE]
  /\ asyncs' = Append(asyncs, a)
  /\ active' = [active EXCEPT ![a] = Len(asyncs) + 1]
  /\ UNCHANGED <<flag, pipe_write_skipped, pipe_write_wanted, pipe, handled,
                 postfork, sender, loopVars, owed>>

\* ev_async_stop: the last one takes its place.  clear_pending is in the
\* first line.
AsyncStop(a) ==
  LET last == asyncs[Len(asyncs)]
  IN  /\ loop = "user" /\ active[a] # 0
      /\ asyncs' = Front([asyncs EXCEPT ![active[a]] = last])
      /\ active' = [active EXCEPT ![last] = active[a], ![a] = 0]
      /\ fed' = fed \ {a}
      /\ owed' = owed \ {a}
      /\ UNCHANGED <<shared, handled, postfork, sender, loop, waits,
                     pipecbVars, buffer>>

\* ev_signal_start of the first watcher of a signal, and ev_signal_stop of
\* the last one.
SignalStart(s) ==
  /\ loop = "user" /\ s \notin handled
  /\ handled' = handled \cup {s}
  /\ UNCHANGED <<shared, asyncs, active, postfork, sender, loopVars, owed>>

SignalStop(s) ==
  /\ loop = "user" /\ s \in handled
  /\ handled' = handled \ {s}
  /\ fed' = fed \ {s}
  /\ owed' = owed \ {s}
  /\ UNCHANGED <<shared, asyncs, active, postfork, sender, loop, waits, pipecbVars,
                 buffer>>

\* The process forks, this is the child, and it calls ev_loop_fork: other
\* threads do not exist in it, wherever they were.  The loop takes a new
\* pipe at its next iteration, until then parent and child share one.
Fork ==
  /\ Forks /\ loop = "user" /\ ~postfork
  /\ postfork' = TRUE
  /\ sender' = [t \in Sender |-> Idle]
  /\ owed' = owed \ {sender[t].of : t \in {u \in Sender : ~At(u, "idle")}}
  /\ UNCHANGED <<shared, asyncs, active, handled, loopVars>>

ParentUsesPipe ==
  /\ postfork
  /\ pipe' \in 0..PipeSize
  /\ UNCHANGED <<raised, flag, pipe_write_skipped, pipe_write_wanted, table, sender,
                 loopVars, owed>>
-----------------------------------------------------------------------------
(* The loop: the part of ev_run about the pipe, loop_fork and pipecb.      *)

LoopAt(pc) == loop = pc
Jump(pc)   == loop' = pc

\* What the stores of the loop do: all of them clear something.
Cells == {<<"raised", w>> : w \in Source} \cup {<<"flag", "async">>, <<"flag", "sig">>}
Clear(cell) ==
  IF cell[1] = "flag"
    THEN flag' = [flag EXCEPT ![cell[2]] = FALSE] /\ UNCHANGED raised
    ELSE raised' = [raised EXCEPT ![cell[2]] = FALSE] /\ UNCHANGED flag

\* A store with no full memory fence behind it: the others see it at once, or
\* it waits while the loop goes on loading.
Store(cell) ==
  IF Delayed
    THEN buffer' = buffer \cup {cell} /\ UNCHANGED <<flag, raised>>
    ELSE Clear(cell) /\ UNCHANGED buffer

\* ECB_MEMORY_FENCE
Fence ==
  /\ flag' = [k \in {"async", "sig"} |-> flag[k] /\ <<"flag", k>> \notin buffer]
  /\ raised' = [w \in Source |-> raised[w] /\ <<"raised", w>> \notin buffer]
  /\ buffer' = {}

\* loop_fork: a new pipe, and then "iterate over everything, in case we
\* missed something".  What pipecb queues here waits until the poll is over:
\* ev_run invokes nothing on the way to it.
ForkPipe ==
  /\ LoopAt("user") /\ postfork /\ Fence
  /\ postfork' = FALSE /\ pipe' = 0
  /\ revents' = {"READ"} /\ back' = "want" /\ Jump("read")
  /\ UNCHANGED <<pipe_write_skipped, pipe_write_wanted, asyncs, active, handled, sender,
                 waits, scan, fed, owed>>

\* pipe_write_wanted = 1; ECB_MEMORY_FENCE;
Want ==
  /\ \/ LoopAt("user") /\ ~postfork
     \/ LoopAt("want")
  /\ Fence
  /\ pipe_write_wanted' = TRUE
  /\ Jump("check")
  /\ UNCHANGED <<pipe_write_skipped, pipe, table, sender, waits, pipecbVars,
                 fed, owed>>

\* Mutant: the skipped write is only looked for behind the poll.
Check_NotSkipped ==
  /\ LoopAt("check")
  /\ waits' \in BOOLEAN
  /\ Jump("poll")
  /\ UNCHANGED <<shared, table, sender, pipecbVars, fed, buffer, owed>>

\* EVRUN_NOWAIT, idle watchers and the like also mean not to wait.
Check ==
  /\ LoopAt("check")
  /\ waits' \in {FALSE, ~pipe_write_skipped}
  /\ Jump("poll")
  /\ UNCHANGED <<shared, table, sender, pipecbVars, fed, buffer, owed>>

\* backend_poll returns: with the pipe if it can be read, for another event,
\* or at the latest after MAX_BLOCKTIME.
PollReturn ==
  /\ LoopAt("poll")
  /\ revents' = IF pipe > 0 THEN {"READ"} ELSE {}
  /\ waits' = FALSE
  /\ Jump("unwant")
  /\ UNCHANGED <<shared, table, sender, back, scan, fed, buffer, owed>>

\* pipe_write_wanted = 0, "just an optimisation, no fence needed".
Unwant ==
  /\ LoopAt("unwant")
  /\ pipe_write_wanted' = FALSE
  /\ Jump("skipped")
  /\ UNCHANGED <<raised, flag, pipe_write_skipped, pipe, table, sender, waits, pipecbVars,
                 fed, buffer, owed>>

\* Mutant: only a readable pipe counts.
TestSkipped_PipeOnly ==
  /\ LoopAt("skipped")
  /\ back' = "invoke"
  /\ Jump(IF revents = {} THEN "invoke" ELSE "read")
  /\ UNCHANGED <<shared, table, sender, waits, revents, scan, fed, buffer, owed>>

\* if (pipe_write_skipped) ev_feed_event (&pipe_w, EV_CUSTOM);
TestSkipped ==
  /\ LoopAt("skipped")
  /\ revents' = revents \cup IF pipe_write_skipped THEN {"CUSTOM"} ELSE {}
  /\ back' = "invoke"
  /\ Jump(IF revents' = {} THEN "invoke" ELSE "read")
  /\ UNCHANGED <<shared, table, sender, waits, scan, fed, buffer, owed>>

\* pipecb.  Of a pipe one byte is taken, an eventfd is read to zero.
ReadPipe ==
  /\ LoopAt("read")
  /\ pipe' \in IF "READ" \in revents /\ pipe > 0 THEN {pipe - 1, 0} ELSE {pipe}
  /\ revents' = {}
  /\ Jump("unskip")
  /\ UNCHANGED <<raised, flag, pipe_write_skipped, pipe_write_wanted, table, sender,
                 waits, back, scan, fed, buffer, owed>>

\* pipe_write_skipped = 0; ECB_MEMORY_FENCE;
Unskip ==
  /\ LoopAt("unskip") /\ Fence
  /\ pipe_write_skipped' = FALSE
  /\ Jump("sig")
  /\ UNCHANGED <<pipe_write_wanted, pipe, table, sender, waits, pipecbVars,
                 fed, owed>>

\* pipecb looks at the signals, then at the asyncs, and returns.
After(k) == IF k = "sig" THEN "async" ELSE back

\* if (sig_pending), if (async_pending): reset it and look at every watcher.
\* A sender that comes between the load and the store finds the flag set.
TestKind(k) ==
  /\ LoopAt(k)
  /\ IF flag[k]
       THEN /\ Store(<<"flag", k>>)
            /\ scan' = IF k = "sig" THEN Signo ELSE Range(asyncs)
            /\ Jump(IF scan' # {} THEN "scan" ELSE After(k))
       ELSE /\ Jump(After(k))
            /\ UNCHANGED <<raised, flag, scan, buffer>>
  /\ UNCHANGED <<pipe_write_skipped, pipe_write_wanted, pipe, table, sender, waits,
                 revents, back, fed, owed>>

\* ev_feed_signal_event ignores a signal whose last watcher was stopped.
Scan(w) ==
  /\ LoopAt("scan") /\ w \in scan
  /\ scan' = scan \ {w}
  /\ IF raised[w] /\ w \in Started
       THEN Store(<<"raised", w>>) /\ fed' = fed \cup {w}
       ELSE UNCHANGED <<raised, flag, buffer, fed>>
  /\ Jump(IF scan' # {} THEN "scan" ELSE After(Kind(w)))
  /\ UNCHANGED <<pipe_write_skipped, pipe_write_wanted, pipe, table, sender, waits,
                 revents, back, owed>>

\* ev_invoke_pending: the callbacks.
Invoke ==
  /\ LoopAt("invoke")
  /\ owed' = owed \ fed
  /\ fed' = {}
  /\ Jump("user")
  /\ UNCHANGED <<shared, table, sender, waits, pipecbVars, buffer>>

LoopStep ==
  \/ ForkPipe \/ Want \/ Check \/ PollReturn \/ Unwant \/ TestSkipped \/ ReadPipe
  \/ Unskip \/ Invoke
  \/ \E k \in {"async", "sig"} : TestKind(k)
  \/ \E w \in Source : Scan(w)

\* What a sender does once it has begun.
SenderStep(t) ==
  \/ TestFlag(t) \/ SetFlag(t) \/ SetSkipped(t) \/ TestWanted(t) \/ ClearSkipped(t)
  \/ Write(t)

Next ==
  \/ LoopStep \/ Fork \/ ParentUsesPipe
  \/ \E t \in Sender : SenderStep(t)
  \/ \E t \in Sender, a \in Async : Send(t, a)
  \/ \E t \in Sender, s \in Signo : Raise(t, s)
  \/ \E a \in Async : AsyncStart(a) \/ AsyncStop(a)
  \/ \E s \in Signo : SignalStart(s) \/ SignalStop(s)

Spec == Init /\ [][Next]_vars

\* The loop and the senders run.
FairSpec ==
  /\ Spec
  /\ WF_vars(LoopStep)
  /\ \A t \in Sender : WF_vars(SenderStep(t))
-----------------------------------------------------------------------------
TypeOK ==
  /\ raised \in [Source -> BOOLEAN] /\ flag \in [{"async", "sig"} -> BOOLEAN]
  /\ pipe_write_skipped \in BOOLEAN /\ pipe_write_wanted \in BOOLEAN
  /\ postfork \in BOOLEAN /\ waits \in BOOLEAN
  /\ pipe \in 0..PipeSize
  /\ asyncs \in Seq(Async) /\ active \in [Async -> 0..Cardinality(Async)]
  /\ handled \subseteq Signo /\ owed \subseteq Source /\ fed \subseteq Source
  /\ buffer \subseteq Cells

\* A loop that waits with nothing in the pipe has called back for every
\* finished ev_async_send and every signal.  (ev_run blocks, evpipe_write
\* decides not to write.)  Only what loop_fork found in this iteration is queued
\* and not called back yet.
WakeSeen ==
  /\ LoopAt("poll") /\ waits /\ pipe = 0
  /\ \A t \in Sender : At(t, "idle")
  => owed \subseteq IF back = "want" THEN fed ELSE {}

\* Whatever was sent leads to a callback, or its watcher is stopped.
SendsArrive == \A w \in Source : w \in owed ~> w \notin owed
=============================================================================
