------------------------------- MODULE EvQueue -------------------------------
(***************************************************************************)
(* The pending events of a libev loop (libev/ev.c).                        *)
(*                                                                         *)
(* q is a record: list, for each priority the array pendings [pri] of      *)
(* [w, events], and pending, the position of each watcher in the array of  *)
(* its priority, 0 if it is not pending.  pri gives each watcher's         *)
(* priority.  NoWatcher is the dummy pending_w.                            *)
(***************************************************************************)
EXTENDS Integers, Sequences, SequencesExt, Loops

CONSTANT NoWatcher

\* The bits of events.
Revents ==
  {"READ", "WRITE", "TIMER", "PERIODIC", "SIGNAL", "CHILD", "IDLE", "PREPARE", "CHECK", "FORK",
   "CLEANUP", "CUSTOM", "ERROR"}

EmptyQueue(P, W) == [list |-> [p \in P |-> <<>>], pending |-> [w \in W |-> 0]]

\* ev_feed_event: an event more, or one more bit of an event.
FeedEvent(q, pri, w, revents) ==
  IF q.pending[w] # 0
    THEN [q EXCEPT !.list[pri[w]][q.pending[w]].events = @ \cup revents]
    ELSE [q EXCEPT !.list[pri[w]] = Append(@, [w |-> w, events |-> revents]),
                   !.pending[w] = Len(q.list[pri[w]]) + 1]

Queues(P, W) ==
  [list    : [P -> Seq([w : W \cup {NoWatcher}, events : SUBSET Revents])],
   pending : [W -> Nat]]

\* A round of queue_events: the next watcher.
FeedRound(P, W, pri, type) ==
  [step \in Queues(P, W) \X W |-> FeedEvent(step[1], pri, step[2], {type})]

queue_events(q, pri, ws, type) ==
  Along(FeedRound(DOMAIN q.list, DOMAIN q.pending, pri, type), q, ws)

\* feed_reverse and feed_reverse_done.
FeedReverse(q, pri, ws, type) == queue_events(q, pri, Reverse(ws), type)

\* Mutant: the entry stays in the queue.
ClearPending_Stays(q, pri, w) == q

\* clear_pending: the entry stays, for the dummy.
ClearPending(q, pri, w) ==
  IF q.pending[w] = 0 THEN q
  ELSE [q EXCEPT !.list[pri[w]][q.pending[w]].w = NoWatcher, !.pending[w] = 0]

\* ev_invoke_pending takes the last entry of a priority.
Taken(q, p) == Last(q.list[p])
Take(q, p)  ==
  [list    |-> [q.list EXCEPT ![p] = Front(@)],
   pending |-> [w \in DOMAIN q.pending |-> IF w = Taken(q, p).w THEN 0 ELSE q.pending[w]]]

Queued(q)  == {w \in DOMAIN q.pending : q.pending[w] # 0}
NoneQueued(q) == \A p \in DOMAIN q.list : q.list[p] = <<>>

\* verify_watcher: "pending watcher not on pending queue", and nobody else is
\* on it.
QueueVerified(q, pri) ==
  /\ \A w \in Queued(q) :
       /\ q.pending[w] \in DOMAIN q.list[pri[w]]
       /\ q.list[pri[w]][q.pending[w]].w = w
  /\ \A p \in DOMAIN q.list : \A i \in DOMAIN q.list[p] :
       LET w == q.list[p][i].w IN w = NoWatcher \/ (q.pending[w] = i /\ pri[w] = p)
=============================================================================
