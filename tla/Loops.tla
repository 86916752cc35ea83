-------------------------------- MODULE Loops --------------------------------
(***************************************************************************)
(* The loops of a program.  A round of a loop is a function body from      *)
(* states to states, which leaves a state alone in which the loop ends.    *)
(***************************************************************************)
EXTENDS Naturals, Sequences

\* The state after n rounds.
After(body, x, n) ==
  LET state[k \in Nat] == IF k = 0 THEN x ELSE body[state[k - 1]]
  IN  state[n]

\* A loop over the elements of a sequence: body has the element, too.
Along(body, x, seq) ==
  LET state[k \in 0..Len(seq)] == IF k = 0 THEN x ELSE body[<<state[k - 1], seq[k]>>]
  IN  state[Len(seq)]
=============================================================================
