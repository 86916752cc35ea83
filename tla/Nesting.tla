------------------------------- MODULE Nesting -------------------------------
(***************************************************************************)
(* What asymmetric coroutines promise, as Lua has them: the active ones    *)
(* form a chain that starts at the main context.  Resuming puts a          *)
(* suspended coroutine at the end of the chain; the one at the end is the  *)
(* one that runs, and it gives control back to its resumer and to nobody   *)
(* else, by yielding or by finishing.                                      *)
(***************************************************************************)
EXTENDS Integers, Sequences

CONSTANTS Coro,  \* the coroutines
          Nil    \* the main context

VARIABLES chain,  \* the contexts from the main one to the running one
          phase   \* what each coroutine is in the middle of

Phases == {"none", "suspended", "active", "done"}

Running   == chain[Len(chain)]
Shortened == SubSeq(chain, 1, Len(chain) - 1)

Init == chain = <<Nil>> /\ phase = [c \in Coro |-> "none"]

Create(c) ==
  /\ phase[c] = "none"
  /\ phase' = [phase EXCEPT ![c] = "suspended"]
  /\ UNCHANGED chain

Resume(c) ==
  /\ phase[c] = "suspended"
  /\ phase' = [phase EXCEPT ![c] = "active"]
  /\ chain' = Append(chain, c)

\* The running coroutine leaves the chain, suspended or done.
Leave(as) ==
  /\ Len(chain) > 1
  /\ phase' = [phase EXCEPT ![Running] = as]
  /\ chain' = Shortened

Free(c) ==
  /\ phase[c] = "done"
  /\ phase' = [phase EXCEPT ![c] = "none"]
  /\ UNCHANGED chain

Next ==
  \/ \E c \in Coro : Create(c) \/ Resume(c) \/ Free(c)
  \/ \E as \in {"suspended", "done"} : Leave(as)

Spec == Init /\ [][Next]_<<chain, phase>>
=============================================================================
