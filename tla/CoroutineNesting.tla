-------------------------- MODULE CoroutineNesting --------------------------
(***************************************************************************)
(* The scheduler of Coroutine implements Nesting.  The chain is not a      *)
(* variable of the code: it is what _coro_pre, read from the current       *)
(* coroutine on, spells.                                                   *)
(***************************************************************************)
EXTENDS Coroutine

\* The contexts met on the way from cur to the main one by the pointers up,
\* innermost last.
ChainFrom(cur, up) ==
  LET above[n \in 0..Cardinality(Coro)] ==
        IF n = 0 THEN cur
        ELSE IF above[n-1] = Nil THEN Nil ELSE up[above[n-1]]
      length == Cardinality({n \in 0..Cardinality(Coro) : above[n] # Nil}) + 1
  IN  [i \in 1..length |-> above[length - i]]

PreChain == ChainFrom(current, pre)

PhaseOf(c) ==
  IF stat[c] = FREED THEN "none"
  ELSE IF stat[c] = CORO_STAT_DONE THEN "done"
  ELSE IF \E i \in DOMAIN PreChain : PreChain[i] = c THEN "active" ELSE "suspended"

Phase == [c \in Coro |-> PhaseOf(c)]

Asymmetric == INSTANCE Nesting WITH chain <- PreChain, phase <- Phase

\* However resumes, parkings, sweeps over the children of parked coroutines and
\* ends interleave, control moves only along the chain: a coroutine is resumed
\* only while it is suspended, and returns to the context that resumed it
\* (transfer and transfer_pre of coroutine.cpp).
NestingSpec == Asymmetric!Spec
=============================================================================
