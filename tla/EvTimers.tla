------------------------------- MODULE EvTimers -------------------------------
(***************************************************************************)
(* ev_timer and ev_periodic watchers of one libev loop and the loop's idea *)
(* of time (libev/ev.c).                                                   *)
(*                                                                         *)
(* Timers go by mn_now, periodics by ev_rt_now, which time_update fetches  *)
(* from two clocks.  The real time may jump; without a monotonic clock     *)
(* both are the real time.  All watchers have the same priority.           *)
(***************************************************************************)
EXTENDS EvHeap, EvQueue, FiniteSets

CONSTANTS
  Timer, Periodic, \* the watchers
  Delays,          \* what timers are set to
  Repeats,         \* repeat of a timer, 0: once
  Intervals,       \* interval of a periodic, 0: once
  Offsets,         \* its offset
  NoTime,
  MaxClock,        \* the clocks are read up to here
  MaxWait,         \* the longest time between two looks at a clock
  JumpBy,          \* the jumps of the real time
  MaxJumps,
  MIN_TIMEJUMP,    \* a difference from here on is a jump
  MAX_BLOCKTIME,   \* the longest wait in backend_poll
  timeout_blocktime, \* ev_set_timeout_collect_interval: no shorter wait
  backend_mintime, \* the resolution of the backend: no shorter wait either
  MaxCalls,        \* bound on the calls of the program
  Arities,         \* DHEAP may be: 2 or 4
  Clocks           \* have_monotonic may be

ByCallback == -1
Forever    == NoTime   \* no bound on the time in backend_poll
Watcher    == Timer \cup Periodic

ASSUME TimerAssumption ==
  /\ Timer \cap Periodic = {} /\ NoTime \notin Int /\ NoWatcher \notin Watcher
  /\ MIN_TIMEJUMP \in Nat \ {0} /\ {MAX_BLOCKTIME, timeout_blocktime, backend_mintime} \subseteq Nat
  /\ Delays \cup Repeats \cup Intervals \cup Offsets \subseteq Nat
  /\ {MaxClock, MaxWait, MaxJumps, MaxCalls} \subseteq Nat /\ JumpBy \subseteq Int
  /\ Clocks \subseteq BOOLEAN /\ Arities \subseteq {2, 4}

VARIABLES
  clock, wall,    \* the monotonic clock and the real time
  jumps,          \* how often the real time jumped
  calls,          \* how often the program called
  have_monotonic,
  mn_now, ev_rt_now, rtmn_diff, now_floor,
  d,              \* DHEAP
  timers, periodics, \* the heaps
  at,             \* ev_at of each watcher
  repeat,         \* of each timer
  interval,       \* of each periodic, or ByCallback: it has a reschedule_cb
  offset,         \* of each periodic
  q,              \* the pending events
  firedAt,        \* history: what ev_at was when a watcher became pending
  phase,          \* poll: in backend_poll; run: among callbacks or outside the loop
  waittime,
  suspended

time   == <<mn_now, ev_rt_now, rtmn_diff, now_floor>>
fixed  == <<have_monotonic, d, repeat, interval, offset>>
world  == <<clock, wall, jumps, calls, fixed>>
heaps  == <<timers, periodics, at, q, firedAt>>
vars   == <<world, time, heaps, phase, waittime, suspended>>

pri    == [w \in Watcher \cup {NoWatcher} |-> 0]
Clear(w) == ClearPending(q, pri, w)

Init ==
  /\ clock = 0 /\ wall = 0 /\ jumps = 0 /\ calls = 0 /\ have_monotonic \in Clocks
  /\ mn_now = 0 /\ ev_rt_now = 0 /\ rtmn_diff = 0 /\ now_floor = 0
  /\ d \in Arities
  /\ timers = EmptyHeap(Timer) /\ periodics = EmptyHeap(Periodic)
  /\ at = [w \in Watcher |-> 0]
  /\ repeat \in [Timer -> Repeats]
  /\ interval \in [Periodic -> Intervals \cup {ByCallback}]
  /\ offset \in [Periodic -> Offsets]
  /\ q = EmptyQueue({0}, Watcher)
  /\ firedAt = [w \in Watcher |-> NoTime]
  /\ phase = "run" /\ waittime = 0 /\ suspended = FALSE
-----------------------------------------------------------------------------
(* The clocks.  They matter when time_update reads them: what time passes   *)
(* between two looks is part of the action that looks.                     *)

\* The clock went on by el, the real time was set forward or back by by: what
\* the clocks read then.  While a loop without monotonic clock is suspended the
\* latter is left out: ev_resume would move the timers twice.
Passes(el, by) ==
  /\ clock + el <= MaxClock
  /\ by # 0 => jumps < MaxJumps /\ (have_monotonic \/ ~suspended)
  /\ jumps' = jumps + IF by = 0 THEN 0 ELSE 1
  /\ clock' = clock + el /\ wall' = wall + el + by
  /\ UNCHANGED <<calls, fixed>>

Reading(el, by) == [mono |-> clock + el, real |-> wall + el + by]
-----------------------------------------------------------------------------
(* time_update and what it does to the watchers.                           *)

\* The first multiple of the interval behind rt, from the offset.
periodic_recalc(w, rt) ==
  offset[w] + interval[w] * ((rt - offset[w]) \div interval[w] + 1)

\* The callback of the program names the next unit of time.
Rescheduled(w, rt, old) ==
  IF interval[w] = ByCallback THEN rt + 1
  ELSE IF interval[w] = 0 THEN old
  ELSE periodic_recalc(w, rt)

\* The watchers' times, and then the caches in the heap.
timers_reschedule(adjust) ==
  [w \in Watcher |-> IF w \in Timer /\ timers.active[w] # 0 THEN at[w] + adjust ELSE at[w]]

periodics_reschedule(times, rt) ==
  [w \in Watcher |->
     IF w \in Periodic /\ periodics.active[w] # 0 THEN Rescheduled(w, rt, times[w]) ELSE times[w]]

\* Mutant: without a monotonic clock any difference counts as a jump.
Jumped_Always(r, max_block) == ~have_monotonic

Jumped(r, max_block) ==
  /\ ~have_monotonic
  /\ \/ mn_now > r.real
     \/ max_block # Forever /\ r.real > mn_now + max_block + MIN_TIMEJUMP

Near(diff) == -MIN_TIMEJUMP < diff /\ diff < MIN_TIMEJUMP

\* Mutant: a jump of the real time goes unnoticed.
time_update_NoJump(r, max_block) ==
  [mn   |-> IF have_monotonic THEN r.mono ELSE r.real, rt |-> r.real, diff |-> r.real - r.mono,
   floor |-> r.mono, shift |-> 0, reschedule |-> FALSE]

\* The new times, by how much timers move, whether periodics are recalculated.
\* Within half of MIN_TIMEJUMP the real time is not fetched but interpolated.
time_update(r, max_block) ==
  IF have_monotonic /\ 2 * (r.mono - now_floor) < MIN_TIMEJUMP
    THEN [mn |-> r.mono, rt |-> rtmn_diff + r.mono, diff |-> rtmn_diff, floor |-> now_floor,
          shift |-> 0, reschedule |-> FALSE]
  ELSE IF have_monotonic
    THEN [mn |-> r.mono, rt |-> r.real, diff |-> r.real - r.mono, floor |-> r.mono, shift |-> 0,
          reschedule |-> ~Near(rtmn_diff - (r.real - r.mono))]
  ELSE [mn |-> r.real, rt |-> r.real, diff |-> rtmn_diff, floor |-> now_floor,
        shift |-> IF Jumped(r, max_block) THEN r.real - mn_now ELSE 0,
        reschedule |-> Jumped(r, max_block)]

SetTime(u) ==
  mn_now' = u.mn /\ ev_rt_now' = u.rt /\ rtmn_diff' = u.diff /\ now_floor' = u.floor

Adjusted(u, resume) ==
  LET by    == u.shift + IF resume THEN u.mn - mn_now ELSE 0
      moved == timers_reschedule(by)
      all   == periodics_reschedule(moved, u.rt)
  IN  IF u.reschedule \/ resume
        THEN [timers |-> Cached(timers, all), at |-> all,
              periodics |-> reheap(d, Cached(periodics, all), Len(periodics.heap))]
        ELSE [timers |-> Cached(timers, moved), at |-> moved, periodics |-> periodics]
-----------------------------------------------------------------------------
(* The loop.                                                               *)

\* What timers_reify and periodics_reify work on: a heap, the watchers' times,
\* the queue, the watchers for feed_reverse, and the history.
Work(W) ==
  [h : Heaps(W), at : [Watcher -> Int], q : Queues({0}, Watcher), fed : Seq(W),
   firedAt : [Watcher -> Int \cup {NoTime}]]

Due(s, now) == s.h.heap # <<>> /\ s.h.heap[1].at < now

\* The first watcher is set for the time next.
Again(s, w, next) ==
  [s EXCEPT !.at[w] = next, !.fed = Append(@, w), !.firedAt[w] = s.at[w],
            !.h = downheap(d, Put(s.h, 1, [w |-> w, at |-> next]), Len(s.h.heap), 1)]

\* It is stopped, and keeps the time left.
Once(s, w, left) ==
  [s EXCEPT !.at[w] = left, !.fed = Append(@, w), !.firedAt[w] = s.at[w],
            !.h = TakeOut(d, s.h, w), !.q = ClearPending(s.q, pri, w)]

TimerRound(now) ==
  [s \in Work(Timer) |->
     LET w    == s.h.heap[1].w
         next == s.at[w] + repeat[w]
     IN  IF ~Due(s, now) THEN s
         ELSE IF repeat[w] # 0 THEN Again(s, w, IF next < now THEN now ELSE next)
         ELSE Once(s, w, s.at[w] - now)]

\* A watcher is due at most once in a loop, so that there are no more rounds
\* than watchers.
timers_reify(s, now) == After(TimerRound(now), s, Len(s.h.heap))

PeriodicRound(rt) ==
  [s \in Work(Periodic) |->
     LET w == s.h.heap[1].w
     IN  IF ~Due(s, rt) THEN s
         ELSE IF interval[w] # 0 THEN Again(s, w, Rescheduled(w, rt, s.at[w]))
         ELSE Once(s, w, s.at[w])]

periodics_reify(s, rt) == After(PeriodicRound(rt), s, Len(s.h.heap))

Least(a, b) == IF a < b THEN a ELSE b
Most(a, b)  == IF a < b THEN b ELSE a

\* Mutant: the wait is calculated from the last timer.
WaitFor_Last(th, ph, mn, rt) ==
  IF th.heap = <<>> THEN MAX_BLOCKTIME
  ELSE Least(MAX_BLOCKTIME, th.heap[Len(th.heap)].at - mn)

\* How long the poll may take: to the first timer and the first periodic, but
\* not less than the two floors.
WaitFor(th, ph, mn, rt) ==
  LET t == IF th.heap = <<>> THEN MAX_BLOCKTIME ELSE Least(MAX_BLOCKTIME, th.heap[1].at - mn)
      p == IF ph.heap = <<>> THEN t ELSE Least(t, ph.heap[1].at - rt)
  IN  Most(Most(p, timeout_blocktime), backend_mintime)

\* An iteration up to backend_poll.  It does not wait if the program says so, or
\* if a watcher of another kind is idle or was woken.
Enter(r) ==
  LET u == time_update(r, Forever)
      a == Adjusted(u, FALSE)
  IN  /\ phase = "run" /\ ~suspended /\ NoneQueued(q)
      /\ SetTime(u)
      /\ timers' = a.timers /\ periodics' = a.periodics /\ at' = a.at
      /\ waittime' \in {0, WaitFor(a.timers, a.periodics, u.mn, u.rt)}
      /\ phase' = "poll"
      /\ firedAt' = [w \in Watcher |-> NoTime]
      /\ UNCHANGED <<q, suspended>>

\* From the return of backend_poll, which other events may cause, on to the
\* callbacks.
Reify(r) ==
  LET u  == time_update(r, waittime)
      a  == Adjusted(u, FALSE)
      ts == timers_reify([h |-> a.timers, at |-> a.at, q |-> q, fed |-> <<>>,
                          firedAt |-> firedAt], u.mn)
      ps == periodics_reify([ts EXCEPT !.h = a.periodics, !.fed = <<>>,
                             !.q = FeedReverse(ts.q, pri, ts.fed, "TIMER")], u.rt)
  IN  /\ phase = "poll"
      /\ SetTime(u)
      /\ timers' = ts.h /\ periodics' = ps.h /\ at' = ps.at
      /\ q' = FeedReverse(ps.q, pri, ps.fed, "PERIODIC")
      /\ firedAt' = ps.firedAt
      /\ phase' = "run" /\ waittime' = 0
      /\ UNCHANGED suspended

\* ev_invoke_pending: the next callback.
Invoke ==
  /\ phase = "run" /\ ~NoneQueued(q)
  /\ q' = Take(q, 0)
  /\ UNCHANGED <<world, time, timers, periodics, at, firedAt, phase, waittime, suspended>>
-----------------------------------------------------------------------------
(* The calls of the program: before the loop runs and in callbacks.        *)

Calls ==
  /\ phase # "poll" /\ ~suspended
  /\ calls < MaxCalls /\ calls' = calls + 1
Keep == UNCHANGED <<clock, wall, jumps, fixed, time, firedAt, phase, waittime, suspended>>

\* ev_timer_set and ev_timer_start; or without it, to go on where it was
\* stopped.
TimerStart(w) ==
  /\ Calls /\ timers.active[w] = 0
  /\ \E after \in Delays \cup {at[w]} :
       /\ at' = [at EXCEPT ![w] = after + mn_now]
       /\ timers' = PutIn(d, timers, w, after + mn_now)
  /\ Keep /\ UNCHANGED <<periodics, q>>

\* ev_timer_stop.
TimerStop(w) ==
  /\ Calls
  /\ q' = Clear(w)
  /\ IF timers.active[w] = 0 THEN UNCHANGED <<timers, at>>
     ELSE timers' = TakeOut(d, timers, w) /\ at' = [at EXCEPT ![w] = @ - mn_now]
  /\ Keep /\ UNCHANGED periodics

\* ev_timer_again.
TimerAgain(w) ==
  LET next == mn_now + repeat[w]
      i    == timers.active[w]
  IN  /\ Calls
      /\ q' = Clear(w)
      /\ IF i # 0 /\ repeat[w] # 0
           THEN /\ at' = [at EXCEPT ![w] = next]
                /\ timers' = adjustheap(d, Put(timers, i, [w |-> w, at |-> next]),
                                        Len(timers.heap), i)
         ELSE IF i # 0
           THEN timers' = TakeOut(d, timers, w) /\ at' = [at EXCEPT ![w] = @ - mn_now]
         ELSE IF repeat[w] # 0
           THEN at' = [at EXCEPT ![w] = next] /\ timers' = PutIn(d, timers, w, next)
         ELSE UNCHANGED <<at, timers>>
      /\ Keep /\ UNCHANGED periodics

\* ev_periodic_start; one that happens once is for the time offset.
PeriodicStart(w) ==
  LET first == Rescheduled(w, ev_rt_now, offset[w])
  IN  /\ Calls /\ periodics.active[w] = 0
      /\ at' = [at EXCEPT ![w] = first]
      /\ periodics' = PutIn(d, periodics, w, first)
      /\ Keep /\ UNCHANGED <<timers, q>>

\* ev_periodic_stop; ev_periodic_again is this and a start.
PeriodicStop(w) ==
  /\ Calls
  /\ q' = Clear(w)
  /\ periodics' = IF periodics.active[w] = 0 THEN periodics ELSE TakeOut(d, periodics, w)
  /\ Keep /\ UNCHANGED <<timers, at>>

PeriodicAgain(w) ==
  LET first == Rescheduled(w, ev_rt_now, offset[w])
      ph    == IF periodics.active[w] = 0 THEN periodics ELSE TakeOut(d, periodics, w)
  IN  /\ Calls
      /\ q' = Clear(w)
      /\ at' = [at EXCEPT ![w] = first]
      /\ periodics' = PutIn(d, ph, w, first)
      /\ Keep /\ UNCHANGED timers

Suspend(r) ==
  LET u == time_update(r, Forever)
      a == Adjusted(u, FALSE)
  IN  /\ phase = "run" /\ ~suspended /\ NoneQueued(q)
      /\ SetTime(u)
      /\ timers' = a.timers /\ periodics' = a.periodics /\ at' = a.at
      /\ suspended' = TRUE
      /\ UNCHANGED <<q, firedAt, phase, waittime>>

Resume(r) ==
  LET u == time_update(r, Forever)
      a == Adjusted(u, TRUE)
  IN  /\ suspended
      /\ SetTime(u)
      /\ timers' = a.timers /\ periodics' = a.periodics /\ at' = a.at
      /\ suspended' = FALSE
      /\ UNCHANGED <<q, firedAt, phase, waittime>>

Next ==
  \/ \E el \in 0..MaxWait, by \in JumpBy \cup {0} :
       /\ Passes(el, by)
       /\ LET r == Reading(el, by) IN Enter(r) \/ Reify(r) \/ Suspend(r) \/ Resume(r)
  \/ Invoke
  \/ \E w \in Timer : TimerStart(w) \/ TimerStop(w) \/ TimerAgain(w)
  \/ \E w \in Periodic : PeriodicStart(w) \/ PeriodicStop(w) \/ PeriodicAgain(w)

Spec == Init /\ [][Next]_vars
-----------------------------------------------------------------------------
\* What ev_verify asserts of timers and periodics: heap order, positions,
\* cached times, and pending watchers are where they say in the queue.
TimersVerified ==
  /\ HeapVerified(d, timers, at) /\ HeapVerified(d, periodics, at)
  /\ QueueVerified(q, pri)

\* The loop never waits past the time of a timer or of a periodic, save for the
\* floors: a wait no longer than they ask for may end behind it.
NoOversleep ==
  phase = "poll" /\ waittime > Most(timeout_blocktime, backend_mintime) =>
    /\ \A t \in Timer : timers.active[t] # 0 => mn_now + waittime <= at[t]
    /\ \A p \in Periodic : periodics.active[p] # 0 => ev_rt_now + waittime <= at[p]

\* After each iteration a periodic is set for a time of its own pattern, not
\* in the past and not further away than its interval, whatever the real time
\* did; only jumps smaller than MIN_TIMEJUMP are left over, and add up.
PeriodicsInTime ==
  phase = "run" /\ ~suspended =>
    \A p \in Periodic : periodics.active[p] # 0 /\ interval[p] \in Nat \ {0} =>
      /\ (at[p] - offset[p]) % interval[p] = 0
      /\ ev_rt_now <= at[p] /\ at[p] <= ev_rt_now + interval[p] + jumps * MIN_TIMEJUMP

\* The heap, the clocks and the queue behave as EvTimerSet says.
TimerSet == INSTANCE EvTimerSet WITH
  now    <- mn_now,
  due    <- [t \in Timer |-> IF timers.active[t] = 0 THEN NoTime ELSE at[t]],
  fired  <- [t \in Timer |-> IF q.pending[t] = 0 THEN NoTime ELSE firedAt[t]],
  steady <- have_monotonic
TimerSetSpec == TimerSet!Spec
=============================================================================
