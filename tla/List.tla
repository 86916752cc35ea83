-------------------------------- MODULE List --------------------------------
(***************************************************************************)
(* list_t of util/list.h: a singly linked list with a pointer to its last  *)
(* node and a counter.  Coroutine and Cothread keep children in it and use *)
(* it as the sequence that ItemList describes.                             *)
(*                                                                         *)
(* Nodes come from the object_pool of the list and go back to it: an       *)
(* address may be handed out again, with whatever it held.                 *)
(***************************************************************************)
EXTENDS Integers, Sequences

CONSTANTS
  Node,   \* the addresses of the pool
  Item,   \* what is put into the list
  Null    \* the null pointer

VARIABLES
  _head,
  _tail,
  _size,
  next,      \* the field of each node
  data,      \* the field of each node
  built,     \* the nodes that construct() has handed out
  clearing,  \* the loop of clear() is under way
  seen,      \* what the last front() returned
  nodes      \* history: the nodes in the order of the list

listVars == <<_head, _tail, _size, next, data, built, clearing, seen, nodes>>

empty == _head = Null

push_front(x) ==
  /\ ~clearing
  /\ \E node \in Node \ built :
       /\ built' = built \cup {node}
       /\ data' = [data EXCEPT ![node] = x]
       /\ next' = [next EXCEPT ![node] = IF empty THEN Null ELSE _head]
       /\ _head' = node
       /\ _tail' = IF empty THEN node ELSE _tail
       /\ nodes' = <<node>> \o nodes
  /\ _size' = _size + 1
  /\ UNCHANGED <<clearing, seen>>

push_back(x) ==
  /\ ~clearing
  /\ \E node \in Node \ built :
       /\ built' = built \cup {node}
       /\ data' = [data EXCEPT ![node] = x]
       /\ next' = IF empty THEN [next EXCEPT ![node] = Null]
                           ELSE [next EXCEPT ![node] = Null, ![_tail] = node]
       /\ _head' = IF empty THEN node ELSE _head
       /\ _tail' = node
       /\ nodes' = Append(nodes, node)
  /\ _size' = _size + 1
  /\ UNCHANGED <<clearing, seen>>

pop_front ==
  /\ ~clearing /\ ~empty
  /\ _tail' = IF _head = _tail THEN Null ELSE _tail
  /\ _head' = next[_head]
  /\ built' = built \ {_head}
  /\ _size' = _size - 1
  /\ nodes' = Tail(nodes)
  /\ UNCHANGED <<next, data, clearing, seen>>

front ==
  /\ ~clearing
  /\ seen' = IF empty THEN Null ELSE data[_head]
  /\ UNCHANGED <<_head, _tail, _size, next, data, built, clearing, nodes>>

clear ==
  /\ ~clearing /\ clearing' = TRUE
  /\ UNCHANGED <<_head, _tail, _size, next, data, built, seen, nodes>>

\* The loop of clear(): _tail is stale until it ends.
ClearNode ==
  /\ clearing /\ ~empty
  /\ _head' = next[_head]
  /\ built' = built \ {_head}
  /\ _size' = _size - 1
  /\ nodes' = Tail(nodes)
  /\ UNCHANGED <<_tail, next, data, clearing, seen>>

ClearEnd ==
  /\ clearing /\ empty
  /\ _tail' = _head /\ clearing' = FALSE
  /\ UNCHANGED <<_head, _size, next, data, built, seen, nodes>>

ListInit ==
  /\ _head = Null /\ _tail = Null /\ _size = 0
  /\ next \in [Node -> Node \cup {Null}] /\ data \in [Node -> Item]
  /\ built = {} /\ clearing = FALSE /\ seen = Null /\ nodes = <<>>

ListNext ==
  \/ \E x \in Item : push_front(x) \/ push_back(x)
  \/ pop_front \/ front \/ clear \/ ClearNode \/ ClearEnd

ListSpec == ListInit /\ [][ListNext]_listVars
-----------------------------------------------------------------------------
\* The links spell the history, each node is on the list once, both pointers
\* and the counter agree with it, and the pool has out exactly these nodes:
\* nothing leaks, nothing is destroyed twice, no link leads to a node that was
\* destroyed.
Linked ==
  /\ _head = IF nodes = <<>> THEN Null ELSE nodes[1]
  /\ ~clearing => _tail = IF nodes = <<>> THEN Null ELSE nodes[Len(nodes)]
  /\ \A i \in 1..Len(nodes) :
       next[nodes[i]] = IF i = Len(nodes) THEN Null ELSE nodes[i + 1]
  /\ \A i, j \in 1..Len(nodes) : nodes[i] = nodes[j] => i = j
  /\ built = {nodes[i] : i \in 1..Len(nodes)}
  /\ _size = Len(nodes)

\* The data of the nodes, front to back.
Items == [i \in 1..Len(nodes) |-> data[nodes[i]]]

I == INSTANCE ItemList WITH items <- Items

\* list_t is a sequence, whatever order pushes, pops and clears come in.
SequenceSpec == I!Spec
=============================================================================
