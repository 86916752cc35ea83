------------------------------ MODULE Allocator ------------------------------
(***************************************************************************)
(* What a user of linked_allocator_t relies on: malloc() hands out a block *)
(* that nobody holds, and a block that is freed can be handed out again.   *)
(***************************************************************************)
CONSTANT Block

VARIABLE held   \* the blocks that users have

Init == held = {}

Malloc(b) == b \notin held /\ held' = held \cup {b}
Free(b)   == b \in held /\ held' = held \ {b}

Next == \E b \in Block : Malloc(b) \/ Free(b)

Spec == Init /\ [][Next]_held
=============================================================================
