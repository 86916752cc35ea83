------------------------------ MODULE EvTimerSet ------------------------------
(***************************************************************************)
(* What the timers of a libev loop promise, without heaps and queues: a    *)
(* timer is due at a time; when the loop looks at its clock exactly the    *)
(* timers whose time has passed fire, once each, and their callbacks come  *)
(* in the order of the times.  A suspended loop makes all of them later by *)
(* the time it was suspended, and so does a jump of a clock that jumps.    *)
(***************************************************************************)
EXTENDS Integers

CONSTANTS Timer, NoTime

VARIABLES
  now,        \* the time that the loop goes by
  due,        \* when each timer is due, NoTime if it is stopped
  fired,      \* when each timer with a callback to come was due
  repeat,     \* the time between two expiries, 0 for once
  suspended,
  steady      \* the clock never jumps

Latest(a, b) == IF a > b THEN a ELSE b

Init ==
  /\ due = [t \in Timer |-> NoTime]
  /\ fired = [t \in Timer |-> NoTime]
  /\ ~suspended

Start(t) ==
  /\ due[t] = NoTime
  /\ due' = [due EXCEPT ![t] = due'[t]] /\ due'[t] # NoTime
  /\ UNCHANGED <<now, fired, suspended>>

Stop(t) ==
  /\ due' = [due EXCEPT ![t] = NoTime]
  /\ fired' = [fired EXCEPT ![t] = NoTime]
  /\ UNCHANGED <<now, suspended>>

Again(t) ==
  /\ due' = [due EXCEPT ![t] = IF repeat[t] = 0 THEN NoTime ELSE now + repeat[t]]
  /\ fired' = [fired EXCEPT ![t] = NoTime]
  /\ UNCHANGED <<now, suspended>>

Later(by) == [t \in Timer |-> IF due[t] = NoTime THEN NoTime ELSE due[t] + by]

\* The loop looks at the clock, before it waits.
Look(s) ==
  /\ due' = IF now' # now /\ ~steady /\ due' # due THEN Later(now' - now) ELSE due
  /\ suspended' = s
  /\ UNCHANGED fired

Resume ==
  /\ suspended /\ ~suspended'
  /\ due' = Later(now' - now)
  /\ UNCHANGED fired

\* The loop looks at the clock, and timers fire.
Expire ==
  \E base \in {due} \cup IF steady THEN {} ELSE {Later(now' - now)} :
    LET passed(t) == base[t] # NoTime /\ base[t] < now'
    IN  /\ due' = [t \in Timer |->
                     IF ~passed(t) THEN base[t]
                     ELSE IF repeat[t] = 0 THEN NoTime
                     ELSE Latest(base[t] + repeat[t], now')]
        /\ fired' = [t \in Timer |-> IF passed(t) THEN base[t] ELSE fired[t]]
        /\ UNCHANGED suspended

Callback(t) ==
  /\ fired[t] # NoTime
  /\ \A u \in Timer : fired[u] # NoTime => fired[t] <= fired[u]
  /\ fired' = [fired EXCEPT ![t] = NoTime]
  /\ UNCHANGED <<now, due, suspended>>

vars == <<now, due, fired, repeat, suspended, steady>>

Next ==
  /\ UNCHANGED <<repeat, steady>>
  /\ \/ \E t \in Timer : Start(t) \/ Stop(t) \/ Again(t) \/ Callback(t)
     \/ \E s \in BOOLEAN : Look(s)
     \/ Resume \/ Expire

Spec == Init /\ [][Next]_vars
=============================================================================
