---------------------------- MODULE CoreactorProps ----------------------------
(***************************************************************************)
(* What the reactor has to keep true.                                      *)
(***************************************************************************)
EXTENDS Coreactor

Kinds == {"user", "dispatch", "loop", "gone"} \cup Waiting

\* Every variable has its type, in every reachable state.
TypeOK ==
  /\ running \in Coro \cup {Null}
  /\ waiting \subseteq Coro
  /\ call \in [Coro -> [kind : Kinds, event : Event \cup {Null}, found : BOOLEAN]]
  /\ _triggers \in [Coro -> Event \cup {Null, Absent}]
  /\ held \subseteq Event
  /\ ioArmed \subseteq Event
  /\ timerArmed \subseteq Event
  /\ arg \in [Event -> Coro \cup {Null}]
  /\ sticky \subseteq Event
  /\ spent \subseteq Event

-----------------------------------------------------------------------------
(* Events *)

Armed == ioArmed \cup timerArmed

\* The coroutines that will free e when they return, or that have it in the
\* table for their next call.
Owners(e) ==
  {c \in Coro : _triggers[c] = e \/ (Kind(c) \in Returning /\ call[c].event = e)}

\* An event that malloc handed out has one owner, a free one has none: cancel()
\* and the return of the cancelled call both take the event out of use, and
\* only one of them may free it.
OwnedOnce ==
  \A e \in Event : IF e \in held THEN \E c \in Coro : Owners(e) = {c} ELSE Owners(e) = {}

\* libev has no event that was freed, and will call back for its owner, which
\* has not ended.
ArmedOwned ==
  \A e \in Armed : e \in held /\ Owners(e) = {arg[e]} /\ Kind(arg[e]) # "gone"

\* No wait without an end: whoever is marked as waiting has an armed event,
\* although fired, cancelled and returning events are disarmed at any time.
\* The one exception is that of the code: set_io takes a persistent event it
\* finds in the table for armed, also when an error or its timeout disarmed it.
WaiterArmed ==
  \A c \in waiting :
    \/ \E e \in Armed : arg[e] = c
    \/ Kind(c) = "persist" /\ call[c].found /\ _triggers[c] \in spent

\* run() goes on while somebody waits and does not when only entries nobody
\* will return for are left: an entry is in the table exactly for each waiting
\* coroutine and each persistent event.
TableExact ==
  \A c \in Coro :
    /\ Kind(c) \in Waiting => _triggers[c] # Absent
    /\ _triggers[c] # Absent => Kind(c) \in Returning \/ _triggers[c] \in sticky

\* "set io coro exist, must be persist event": what set_io finds in the table is
\* a persistent event, and the call is for such an event too.
ExistsPersistent ==
  \A c \in Coro :
    call[c].found => Kind(c) = "persist" /\ _triggers[c] \in held \cap sticky

-----------------------------------------------------------------------------
(* Liveness *)

\* run() goes on, but nobody has to call it, or to call it again when it has
\* returned; user code gives the processor back; the scheduler comes back to
\* whoever was woken (WokenRuns of CoroutineProps) and to whoever yielded while
\* no ancestor is parked; and a timer that is on while libev dispatches again
\* and again expires.
Fairness ==
  /\ WF_vars(LoopYield) /\ WF_vars(LoopTest)
  /\ \A c \in Coro : /\ SF_vars(Resume(c))
                     /\ WF_vars(Return(c))
                     /\ WF_vars(Waits(c) \/ Yield(c) \/ End(c))
  /\ \A e \in Event : SF_vars(FireTimer(e))

FairSpec == Spec /\ Fairness

\* run() stays for a call that was given a timeout, and the call returns, whether
\* the descriptor, an error, the timer or cancel() is first.
TimeoutEnds ==
  \A c \in OneShot :
    (Kind(c) \in Returning /\ call[c].event \in timerArmed /\ Kind(Reactor) # "user")
      ~> Kind(c) \notin Returning

=============================================================================
