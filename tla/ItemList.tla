------------------------------ MODULE ItemList ------------------------------
(***************************************************************************)
(* What list_t promises: a sequence of items that grows at both ends and   *)
(* shrinks at the front.                                                   *)
(***************************************************************************)
EXTENDS Sequences

CONSTANTS
  Item,   \* what is put into lists
  Null    \* what front() returns for an empty list

VARIABLES
  items,  \* the items, the front one first
  seen    \* what the last front() returned

PushFront(x) == items' = <<x>> \o items /\ UNCHANGED seen
PushBack(x)  == items' = Append(items, x) /\ UNCHANGED seen

\* pop_front(), and clear() as often as there are items.
PopFront     == items # <<>> /\ items' = Tail(items) /\ UNCHANGED seen
Front        == seen' = (IF items = <<>> THEN Null ELSE Head(items)) /\ UNCHANGED items

Init == items = <<>> /\ seen = Null
Next == (\E x \in Item : PushFront(x) \/ PushBack(x)) \/ PopFront \/ Front
Spec == Init /\ [][Next]_<<items, seen>>
=============================================================================
