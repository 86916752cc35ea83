----------------------------- MODULE MCCoroutine -----------------------------
(***************************************************************************)
(* The instances of Coroutine that TLC checks.                             *)
(***************************************************************************)
EXTENDS CoroutineProps, CoroutineNesting, TLC

\* The constructor happened to find zeroes where _msg is.
CleanMsg == {{}}

Symmetry == Permutations(Coro)
=============================================================================
