----------------------------- MODULE MCEvTimers ------------------------------
(* EvTimers for model checking: timers are interchangeable.                *)
EXTENDS EvTimers, TLC

Jumps == {-3, 3}
Alike == Permutations(Timer)
=============================================================================
