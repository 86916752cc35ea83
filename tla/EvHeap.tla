-------------------------------- MODULE EvHeap --------------------------------
(***************************************************************************)
(* The heaps in which libev keeps timers and periodics (libev/ev.c).       *)
(*                                                                         *)
(* h is a record: heap, a sequence of [w, at] with the cached time at of   *)
(* the watcher w, and active, the position that each watcher believes it   *)
(* has, 0 if it is stopped.  d is the number of children of a node, 2 or   *)
(* 4.  Positions count from 1 instead of HEAP0.                            *)
(***************************************************************************)
EXTENDS Integers, Sequences, Loops

HPARENT(d, i) == (i - 2) \div d + 1
Children(d, n, i) == {c \in (d * (i - 1) + 2)..(d * i + 1) : c <= n}

Entry(W) == [w : W, at : Int]
Heaps(W) == [heap : Seq(Entry(W)), active : [W -> Nat]]

\* heap [k] = he; ev_active (ANHE_w (he)) = k;
Put(h, i, he) ==
  [heap |-> [h.heap EXCEPT ![i] = he], active |-> [h.active EXCEPT ![he.w] = i]]

\* The first of the children with the earliest time.
MinChild(h, kids) ==
  CHOOSE c \in kids : \A o \in kids :
    h.heap[c].at < h.heap[o].at \/ (h.heap[c].at = h.heap[o].at /\ c <= o)

\* The loops of downheap and upheap carry an element he away from its place;
\* at i is a hole that takes its neighbour until he fits in.
At(h, i)     == [h |-> h, i |-> i]
Holes(W)     == [h : Heaps(W), i : Nat]
Moved(s, to) == At(Put(s.h, s.i, s.h.heap[to]), to)

SinkRound(d, n, he, W) ==
  [s \in Holes(W) |->
     LET kids == Children(d, n, s.i)
         c    == MinChild(s.h, kids)
     IN  IF kids = {} \/ he.at <= s.h.heap[c].at THEN s ELSE Moved(s, c)]

downheap(d, h, n, i) ==
  LET hole == After(SinkRound(d, n, h.heap[i], DOMAIN h.active), At(h, i), n)
  IN  Put(hole.h, hole.i, h.heap[i])

RiseRound(d, he, W) ==
  [s \in Holes(W) |->
     LET p == HPARENT(d, s.i)
     IN  IF s.i = 1 \/ s.h.heap[p].at <= he.at THEN s ELSE Moved(s, p)]

upheap(d, h, i) ==
  LET hole == After(RiseRound(d, h.heap[i], DOMAIN h.active), At(h, i), i)
  IN  Put(hole.h, hole.i, h.heap[i])

\* Mutant: an element that took another one's place only sinks.
adjustheap_OnlyDown(d, h, n, i) == downheap(d, h, n, i)

adjustheap(d, h, n, i) ==
  IF i > 1 /\ h.heap[i].at <= h.heap[HPARENT(d, i)].at
    THEN upheap(d, h, i)
    ELSE downheap(d, h, n, i)

\* One element after the other rises.
ReheapRound(d, W) == [s \in Holes(W) |-> At(upheap(d, s.h, s.i), s.i + 1)]
reheap(d, h, n)   == After(ReheapRound(d, DOMAIN h.active), At(h, 1), n).h

EmptyHeap(W) == [heap |-> <<>>, active |-> [w \in W |-> 0]]

\* A watcher that is started goes to the end and rises.
PutIn(d, h, w, at) ==
  LET n == Len(h.heap) + 1
  IN  upheap(d, [heap   |-> Append(h.heap, [w |-> w, at |-> at]),
                 active |-> [h.active EXCEPT ![w] = n]], n)

\* One that is stopped leaves its place to the last one.
TakeOut(d, h, w) ==
  LET n == Len(h.heap) - 1
      i == h.active[w]
      g == IF i <= n THEN adjustheap(d, [h EXCEPT !.heap[i] = h.heap[n + 1]], n, i) ELSE h
  IN  [heap |-> SubSeq(g.heap, 1, n), active |-> [g.active EXCEPT ![w] = 0]]

\* ANHE_at_cache of every element.
Cached(h, at) ==
  [h EXCEPT !.heap = [i \in DOMAIN h.heap |-> [w |-> h.heap[i].w, at |-> at[h.heap[i].w]]]]

\* verify_heap: positions, order and cached times.
HeapVerified(d, h, at) ==
  \A i \in DOMAIN h.heap :
    /\ h.active[h.heap[i].w] = i
    /\ i = 1 \/ h.heap[HPARENT(d, i)].at <= h.heap[i].at
    /\ h.heap[i].at = at[h.heap[i].w]
=============================================================================
