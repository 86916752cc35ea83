---------------------------- MODULE EvTimersProofs ----------------------------
(***************************************************************************)
(* The heaps, the queue and the timers and periodics of a libev loop, for  *)
(* any number of watchers, heaps of two or four children, any times and    *)
(* any jumps of the real time.                                             *)
(*                                                                         *)
(* First EvHeap: each loop moves one element along the tree, and what it   *)
(* leaves is a heap of the same elements.  Then EvQueue, and the loops of  *)
(* timers_reify and periodics_reify, which are alike.  Then EvTimers: the  *)
(* inductive invariant, its steps, and the steps of EvTimerSet.            *)
(***************************************************************************)
EXTENDS EvTimers, LoopsProofs, FiniteSetTheorems

-----------------------------------------------------------------------------
(* Loops that come nearer to their end with each round *)

Nearer(body, J, far) ==
  /\ far \in [J -> Nat]
  /\ \A s \in J : body[s] \in J
  /\ \A s \in J : far[s] = 0 => far[body[s]] = 0
  /\ \A s \in J : far[s] # 0 => far[body[s]] < far[s]

LEMMA NearerEnds ==
  ASSUME NEW body, NEW J, NEW far, Nearer(body, J, far), NEW x \in J, NEW n \in Nat,
         far[x] <= n
  PROVE  After(body, x, n) \in J /\ far[After(body, x, n)] = 0
BY AfterEnds DEF Nearer

-----------------------------------------------------------------------------
(* The tree *)

LEMMA ParentBefore ==
  ASSUME NEW D \in {2, 4}, NEW k \in Nat, k > 1
  PROVE  HPARENT(D, k) \in 1..k - 1
<1>1. CASE D = 2
  BY <1>1 DEF HPARENT
<1>2. CASE D = 4
  BY <1>2 DEF HPARENT
<1> QED BY <1>1, <1>2

LEMMA ChildrenAre ==
  ASSUME NEW D \in {2, 4}, NEW n \in Nat, NEW i \in Nat, i > 0
  PROVE  Children(D, n, i) = {k \in 2..n : HPARENT(D, k) = i}
<1>1. CASE D = 2
  BY <1>1 DEF HPARENT, Children
<1>2. CASE D = 4
  BY <1>2 DEF HPARENT, Children
<1> QED BY <1>1, <1>2

LEMMA EntryType ==
  ASSUME NEW W, NEW h \in Heaps(W)
  PROVE  /\ Len(h.heap) \in Nat /\ h.heap \in Seq(Entry(W)) /\ DOMAIN h.heap = 1..Len(h.heap)
         /\ h.active \in [W -> Nat]
         /\ \A k \in 1..Len(h.heap) :
              h.heap[k] \in Entry(W) /\ h.heap[k].w \in W /\ h.heap[k].at \in Int
<1>1. h.heap \in Seq(Entry(W)) /\ h.active \in [W -> Nat]
  BY DEF Heaps
<1>2. ASSUME NEW k \in 1..Len(h.heap)
      PROVE  h.heap[k] \in Entry(W) /\ h.heap[k].w \in W /\ h.heap[k].at \in Int
  <2>1. h.heap[k] \in Entry(W)
    BY <1>1
  <2> QED BY <2>1 DEF Entry
<1> QED BY <1>1, <1>2

\* Every set of positions has one with the earliest time.
LEMMA MinChildIs ==
  ASSUME NEW W, NEW h \in Heaps(W), NEW kids, kids \subseteq 1..Len(h.heap), kids # {}
  PROVE  /\ MinChild(h, kids) \in kids
         /\ \A o \in kids : h.heap[MinChild(h, kids)].at <= h.heap[o].at
<1> DEFINE n == Len(h.heap)
           Best(c) == \A o \in kids :
             h.heap[c].at < h.heap[o].at \/ (h.heap[c].at = h.heap[o].at /\ c <= o)
<1>1. n \in Nat /\ \A k \in 1..n : h.heap[k].at \in Int
  BY EntryType
<1> DEFINE S == {m \in Nat : \A T \in SUBSET kids :
                    T # {} /\ (\A o \in T : o <= m) =>
                      \E c \in T : \A o \in T :
                        h.heap[c].at < h.heap[o].at \/ (h.heap[c].at = h.heap[o].at /\ c <= o)}
<1>2. 0 \in S
  <2>1. ASSUME NEW T \in SUBSET kids, T # {}, \A o \in T : o <= 0 PROVE FALSE
    <3>1. PICK o \in T : TRUE
      BY <2>1
    <3>2. o \in 1..n /\ o <= 0
      BY <2>1, <3>1
    <3> QED BY <1>1, <3>2
  <2> QED BY <2>1
<1>3. ASSUME NEW m \in Nat, m \in S PROVE m + 1 \in S
  <2> SUFFICES ASSUME NEW T \in SUBSET kids, T # {}, \A o \in T : o <= m + 1
               PROVE  \E c \in T : \A o \in T :
                        h.heap[c].at < h.heap[o].at \/ (h.heap[c].at = h.heap[o].at /\ c <= o)
    OBVIOUS
  <2> DEFINE R == T \ {m + 1}
  <2>1. R \in SUBSET kids /\ \A o \in R : o <= m
    BY <1>1
  <2>2. CASE R = {}
    <3>1. T = {m + 1} /\ m + 1 \in 1..n
      BY <2>2
    <3>2. h.heap[m + 1].at \in Int
      BY <1>1, <3>1
    <3> QED BY <3>1, <3>2
  <2>3. CASE R # {}
    <3>1. PICK c \in R : \A o \in R :
            h.heap[c].at < h.heap[o].at \/ (h.heap[c].at = h.heap[o].at /\ c <= o)
      BY <1>3, <2>1, <2>3
    <3>2. c \in 1..n /\ h.heap[c].at \in Int /\ c <= m
      BY <1>1, <2>1, <3>1
    <3>3. CASE m + 1 \notin T
      BY <3>1, <3>3
    <3>4. CASE m + 1 \in T
      <4>1. PICK e \in T : e = m + 1
        BY <3>4
      <4>2. e \in 1..n /\ h.heap[e].at \in Int /\ \A o \in T : o = e \/ o \in R
        BY <1>1, <4>1
      <4>3. \A o \in R : h.heap[o].at \in Int /\ o \in 1..n
        BY <1>1, <2>1
      <4>4. CASE h.heap[e].at < h.heap[c].at
        <5>1. \A o \in T : h.heap[e].at < h.heap[o].at \/ (h.heap[e].at = h.heap[o].at /\ e <= o)
          <6> TAKE o \in T
          <6>1. CASE o = e
            BY <4>2, <6>1
          <6>2. CASE o \in R
            BY <3>1, <3>2, <4>2, <4>3, <4>4, <6>2
          <6> QED BY <4>2, <6>1, <6>2
        <5> QED BY <5>1
      <4>5. CASE ~(h.heap[e].at < h.heap[c].at)
        <5>1. \A o \in T : h.heap[c].at < h.heap[o].at \/ (h.heap[c].at = h.heap[o].at /\ c <= o)
          <6> TAKE o \in T
          <6>1. CASE o = e
            BY <3>2, <4>1, <4>2, <4>5, <6>1
          <6>2. CASE o \in R
            BY <3>1, <6>2
          <6> QED BY <4>2, <6>1, <6>2
        <5> QED BY <5>1
      <4> QED BY <4>4, <4>5
    <3> QED BY <3>3, <3>4
  <2> QED BY <2>2, <2>3
<1>4. Nat \subseteq S
  <2> HIDE DEF S
  <2> QED BY <1>2, <1>3, NumberInduction
<1>5. \E c \in kids : Best(c)
  <2>1. n \in S
    <3> HIDE DEF S
    <3> QED BY <1>1, <1>4
  <2>2. \A o \in kids : o <= n
    BY <1>1
  <2> QED BY <2>1, <2>2
<1>6. MinChild(h, kids) \in kids /\ Best(MinChild(h, kids))
  BY <1>5 DEF MinChild
<1>7. \A o \in kids : h.heap[o].at \in Int
  BY <1>1
<1> DEFINE c == MinChild(h, kids)
<1>8. c \in kids /\ h.heap[c].at \in Int
  BY <1>6, <1>7
<1>9. \A o \in kids : h.heap[c].at < h.heap[o].at \/ h.heap[c].at = h.heap[o].at
  BY <1>6
<1> HIDE DEF c
<1>10. \A o \in kids : h.heap[c].at <= h.heap[o].at
  BY <1>7, <1>8, <1>9
<1> QED BY <1>8, <1>10 DEF c

-----------------------------------------------------------------------------
(* The hole *)

LEMMA PutIs ==
  ASSUME NEW W, NEW h \in Heaps(W), NEW i \in 1..Len(h.heap), NEW he \in Entry(W)
  PROVE  /\ Put(h, i, he) \in Heaps(W) /\ Len(Put(h, i, he).heap) = Len(h.heap)
         /\ Put(h, i, he).heap[i] = he /\ Put(h, i, he).active[he.w] = i
         /\ \A k \in 1..Len(h.heap) : k # i => Put(h, i, he).heap[k] = h.heap[k]
         /\ \A v \in W : v # he.w => Put(h, i, he).active[v] = h.active[v]
<1>1. h.heap \in Seq(Entry(W)) /\ h.active \in [W -> Nat] /\ he.w \in W /\ i \in Nat
  BY DEF Heaps, Entry
<1>2. [h.heap EXCEPT ![i] = he] \in Seq(Entry(W)) /\ Len([h.heap EXCEPT ![i] = he]) = Len(h.heap)
  BY <1>1
<1> QED BY <1>1, <1>2 DEF Put, Heaps

\* The first n places but the hole are taken by the elements of E, whose
\* watchers know it; the rest is as in h.
Carried(W, n, he, E, h) ==
  {s \in Holes(W) :
     /\ s.i \in 1..n /\ n <= Len(h.heap) /\ Len(s.h.heap) = Len(h.heap)
     /\ \A k \in 1..n : k # s.i =>
          s.h.heap[k] \in E /\ s.h.active[s.h.heap[k].w] = k /\ s.h.heap[k].w # he.w
     /\ \A e \in E : \E k \in 1..n : k # s.i /\ s.h.heap[k] = e
     /\ \A k \in 1..Len(h.heap) : k > n => s.h.heap[k] = h.heap[k]
     /\ \A v \in W : v # he.w /\ (\A e \in E : e.w # v) => s.h.active[v] = h.active[v]}

LEMMA MovedCarried ==
  ASSUME NEW W, NEW n \in Nat, NEW he \in Entry(W), NEW E, NEW h \in Heaps(W),
         NEW s \in Carried(W, n, he, E, h), NEW to \in 1..n, to # s.i
  PROVE  /\ Moved(s, to) \in Carried(W, n, he, E, h) /\ Moved(s, to).i = to
         /\ \A k \in 1..n : k # to =>
              Moved(s, to).h.heap[k] = s.h.heap[IF k = s.i THEN to ELSE k]
<1> DEFINE L == Len(h.heap)
           x == s.h.heap[to]
           g == Put(s.h, s.i, x)
<1>1. /\ s.h \in Heaps(W) /\ s.i \in 1..n /\ n <= L /\ Len(s.h.heap) = L /\ L \in Nat
      /\ s.i \in 1..Len(s.h.heap) /\ to \in 1..L
  BY DEF Carried, Holes, Heaps
<1>2. x \in Entry(W) /\ x.w \in W
  BY <1>1, EntryType
<1>3. /\ g \in Heaps(W) /\ Len(g.heap) = L
      /\ g.heap[s.i] = x /\ g.active[x.w] = s.i
      /\ \A k \in 1..L : k # s.i => g.heap[k] = s.h.heap[k]
      /\ \A v \in W : v # x.w => g.active[v] = s.h.active[v]
  <2> DEFINE hs == s.h
             is == s.i
  <2>1. hs \in Heaps(W) /\ is \in 1..Len(hs.heap) /\ Len(hs.heap) = L
    BY <1>1
  <2> HIDE DEF x, hs, is, L
  <2>2. /\ Put(hs, is, x) \in Heaps(W) /\ Len(Put(hs, is, x).heap) = Len(hs.heap)
        /\ Put(hs, is, x).heap[is] = x /\ Put(hs, is, x).active[x.w] = is
        /\ \A k \in 1..Len(hs.heap) : k # is => Put(hs, is, x).heap[k] = hs.heap[k]
        /\ \A v \in W : v # x.w => Put(hs, is, x).active[v] = hs.active[v]
    BY <1>2, <2>1, PutIs
  <2> QED BY <2>1, <2>2 DEF hs, is
<1>4. /\ x \in E /\ s.h.active[x.w] = to /\ x.w # he.w
      /\ \A k \in 1..n : k # s.i =>
           s.h.heap[k] \in E /\ s.h.active[s.h.heap[k].w] = k /\ s.h.heap[k].w # he.w
  BY DEF Carried
<1>5. Moved(s, to) = At(g, to) /\ At(g, to).h = g /\ At(g, to).i = to
  BY DEF Moved, At
<1>6. At(g, to) \in Holes(W)
  BY <1>1, <1>3 DEF Holes, At
<1>7. \A k \in 1..n : k # to => g.heap[k] = s.h.heap[IF k = s.i THEN to ELSE k]
  BY <1>1, <1>3
<1>8. ASSUME NEW k \in 1..n, k # to
      PROVE  g.heap[k] \in E /\ g.active[g.heap[k].w] = k /\ g.heap[k].w # he.w
  <2>1. CASE k = s.i
    BY <1>3, <1>4, <2>1
  <2>2. CASE k # s.i
    <3>1. g.heap[k] = s.h.heap[k] /\ s.h.heap[k] \in Entry(W) /\ s.h.heap[k].w \in W
      BY <1>1, <1>3, <2>2, EntryType
    <3>2. s.h.heap[k].w # x.w
      BY <1>4, <1>8, <2>2
    <3> QED BY <1>3, <1>4, <2>2, <3>1, <3>2
  <2> QED BY <2>1, <2>2
<1>9. ASSUME NEW e \in E PROVE \E k \in 1..n : k # to /\ g.heap[k] = e
  <2>1. PICK k \in 1..n : k # s.i /\ s.h.heap[k] = e
    BY DEF Carried
  <2>2. CASE k = to
    BY <1>1, <1>3, <2>1, <2>2
  <2>3. CASE k # to
    BY <1>1, <1>3, <2>1, <2>3
  <2> QED BY <2>2, <2>3
<1>10. ASSUME NEW k \in 1..L, k > n PROVE g.heap[k] = h.heap[k]
  <2>1. k # s.i /\ s.h.heap[k] = h.heap[k]
    BY <1>1, <1>10 DEF Carried
  <2> QED BY <1>3, <2>1
<1>11. ASSUME NEW v \in W, v # he.w, \A e \in E : e.w # v PROVE g.active[v] = h.active[v]
  <2>1. s.h.active[v] = h.active[v] /\ v # x.w
    BY <1>4, <1>11 DEF Carried
  <2> QED BY <1>3, <2>1
<1> HIDE DEF g
<1> DEFINE r == At(g, to)
<1> HIDE DEF r
<1>0. r.h = g /\ r.i = to /\ r \in Holes(W)
  BY <1>5, <1>6 DEF r
<1>12. r \in Carried(W, n, he, E, h)
  BY <1>0, <1>1, <1>3, <1>8, <1>9, <1>10, <1>11 DEF Carried
<1> QED BY <1>5, <1>7, <1>12 DEF r

\* Every one of the first n places is taken by an element of E, and its watcher
\* knows it.
Settled(W, n, E, h, g) ==
  /\ g \in Heaps(W) /\ Len(g.heap) = Len(h.heap)
  /\ \A k \in 1..n : g.heap[k] \in E /\ g.active[g.heap[k].w] = k
  /\ \A e \in E : \E k \in 1..n : g.heap[k] = e
  /\ \A k \in 1..Len(h.heap) : k > n => g.heap[k] = h.heap[k]
  /\ \A v \in W : (\A e \in E : e.w # v) => g.active[v] = h.active[v]

LEMMA PutSettles ==
  ASSUME NEW W, NEW n \in Nat, NEW he \in Entry(W), NEW E, NEW h \in Heaps(W),
         NEW s \in Carried(W, n, he, E, h)
  PROVE  Settled(W, n, E \cup {he}, h, Put(s.h, s.i, he))
<1> DEFINE L == Len(h.heap)
           g == Put(s.h, s.i, he)
<1>1. /\ s.h \in Heaps(W) /\ s.i \in 1..n /\ n <= L /\ Len(s.h.heap) = L /\ L \in Nat
      /\ s.i \in 1..Len(s.h.heap)
  BY DEF Carried, Holes, Heaps
<1>2. /\ g \in Heaps(W) /\ Len(g.heap) = L
      /\ g.heap[s.i] = he /\ g.active[he.w] = s.i
      /\ \A k \in 1..L : k # s.i => g.heap[k] = s.h.heap[k]
      /\ \A v \in W : v # he.w => g.active[v] = s.h.active[v]
  BY <1>1, PutIs
<1> HIDE DEF g
<1>3. \A k \in 1..n : g.heap[k] = IF k = s.i THEN he ELSE s.h.heap[k]
  BY <1>1, <1>2
<1>4. ASSUME NEW k \in 1..n PROVE g.heap[k] \in E \cup {he} /\ g.active[g.heap[k].w] = k
  <2>1. CASE k = s.i
    BY <1>2, <1>3, <2>1
  <2>2. CASE k # s.i
    <3>1. /\ s.h.heap[k] \in E /\ s.h.active[s.h.heap[k].w] = k /\ s.h.heap[k].w # he.w
          /\ s.h.heap[k] \in Entry(W) /\ s.h.heap[k].w \in W
      BY <1>1, <2>2, EntryType DEF Carried
    <3> QED BY <1>2, <1>3, <2>2, <3>1
  <2> QED BY <2>1, <2>2
<1>5. ASSUME NEW e \in E \cup {he} PROVE \E k \in 1..n : g.heap[k] = e
  <2>1. CASE e = he
    BY <1>1, <1>2, <2>1
  <2>2. CASE e \in E
    <3>1. PICK k \in 1..n : k # s.i /\ s.h.heap[k] = e
      BY <2>2 DEF Carried
    <3> QED BY <1>3, <3>1
  <2> QED BY <2>1, <2>2
<1>6. ASSUME NEW k \in 1..L, k > n PROVE g.heap[k] = h.heap[k]
  <2>1. k # s.i /\ s.h.heap[k] = h.heap[k]
    BY <1>1, <1>6 DEF Carried
  <2> QED BY <1>2, <2>1
<1>7. ASSUME NEW v \in W, \A e \in E \cup {he} : e.w # v PROVE g.active[v] = h.active[v]
  <2>1. s.h.active[v] = h.active[v] /\ v # he.w
    BY <1>7 DEF Carried
  <2> QED BY <1>2, <2>1
<1>8. Settled(W, n, E \cup {he}, h, g)
  BY <1>2, <1>4, <1>5, <1>6, <1>7 DEF Settled
<1> QED BY <1>8 DEF g

-----------------------------------------------------------------------------
(* The order *)

\* t gives the times of the first n places.
Ascends(D, n, t) == \A k \in 2..n : t[HPARENT(D, k)] <= t[k]

\* It does but for the children of i, which are not before i's parent.
AscendsAbove(D, n, t, i) ==
  \A k \in 2..n : /\ HPARENT(D, k) # i => t[HPARENT(D, k)] <= t[k]
                  /\ HPARENT(D, k) = i /\ i > 1 => t[HPARENT(D, i)] <= t[k]

\* It does but for i and its parent, which is not behind i's children.
AscendsBelow(D, n, t, i) ==
  \A k \in 2..n : /\ k # i => t[HPARENT(D, k)] <= t[k]
                  /\ HPARENT(D, k) = i /\ i > 1 => t[HPARENT(D, i)] <= t[k]

Swapped(t, i, j) == [k \in DOMAIN t |-> IF k = i THEN t[j] ELSE IF k = j THEN t[i] ELSE t[k]]

LEMMA Sinks ==
  ASSUME NEW D \in {2, 4}, NEW n \in Nat, NEW t \in [1..n -> Int], NEW i \in 1..n,
         AscendsAbove(D, n, t, i), NEW c \in 2..n, HPARENT(D, c) = i, t[c] < t[i],
         \A k \in 2..n : HPARENT(D, k) = i => t[c] <= t[k]
  PROVE  AscendsAbove(D, n, Swapped(t, i, c), c)
<1> DEFINE p(k) == HPARENT(D, k)
           u    == Swapped(t, i, c)
<1>1. ASSUME NEW k \in 2..n PROVE p(k) \in 1..n /\ p(k) < k
  <2>1. k \in Nat /\ k > 1
    OBVIOUS
  <2>2. p(k) \in 1..k - 1
    BY <2>1, ParentBefore
  <2> HIDE DEF p
  <2> QED BY <2>2
<1>2. i < c /\ c # i
  BY <1>1
<1>3. u[i] = t[c] /\ u[c] = t[i] /\ \A k \in 1..n : k # i /\ k # c => u[k] = t[k]
  BY <1>2 DEF Swapped
<1>4. /\ \A k \in 2..n : p(k) # i => t[p(k)] <= t[k]
      /\ \A k \in 2..n : p(k) = i /\ i > 1 => t[p(i)] <= t[k]
  BY DEF AscendsAbove
<1> HIDE DEF p, u
<1>5. ASSUME NEW k \in 2..n, p(k) # c PROVE u[p(k)] <= u[k]
  <2>1. CASE k = i
    <3>1. p(i) # i /\ p(i) # c /\ i > 1 /\ t[p(i)] <= t[c] /\ p(i) \in 1..n
      BY <1>1, <1>2, <1>4, <2>1 DEF p
    <3> QED BY <1>3, <2>1, <3>1
  <2>2. CASE k = c
    BY <1>3, <2>2 DEF p
  <2>3. CASE p(k) = i /\ k # c
    <3>1. k # i /\ t[c] <= t[k]
      BY <1>1, <2>3 DEF p
    <3> QED BY <1>3, <2>3, <3>1
  <2>4. CASE p(k) # i /\ k # i /\ k # c
    <3>1. p(k) \in 1..n /\ k \in 1..n /\ p(k) # c
      BY <1>1, <1>5
    <3>2. u[p(k)] = t[p(k)] /\ u[k] = t[k]
      BY <1>3, <2>4, <3>1
    <3>3. t[p(k)] <= t[k]
      BY <1>4, <2>4
    <3> QED BY <3>2, <3>3
  <2> QED BY <2>1, <2>2, <2>3, <2>4
<1>6. ASSUME NEW k \in 2..n, p(k) = c PROVE u[p(c)] <= u[k]
  <2>1. k # c /\ k # i /\ p(k) # i /\ t[c] <= t[k] /\ p(c) = i
    BY <1>1, <1>2, <1>4, <1>6 DEF p
  <2> QED BY <1>3, <2>1
<1> QED BY <1>5, <1>6 DEF AscendsAbove, p, u

LEMMA Rises ==
  ASSUME NEW D \in {2, 4}, NEW n \in Nat, NEW t \in [1..n -> Int], NEW i \in 2..n,
         AscendsBelow(D, n, t, i), t[i] < t[HPARENT(D, i)]
  PROVE  AscendsBelow(D, n, Swapped(t, i, HPARENT(D, i)), HPARENT(D, i))
<1> DEFINE p(k) == HPARENT(D, k)
           c    == HPARENT(D, i)
           u    == Swapped(t, i, c)
<1>1. ASSUME NEW k \in 2..n PROVE p(k) \in 1..n /\ p(k) < k
  <2>1. k \in Nat /\ k > 1
    OBVIOUS
  <2>2. p(k) \in 1..k - 1
    BY <2>1, ParentBefore
  <2> HIDE DEF p
  <2> QED BY <2>2
<1>2. c < i /\ c # i /\ c \in 1..n /\ p(i) = c /\ t[i] < t[c]
  BY <1>1
<1>3. u[i] = t[c] /\ u[c] = t[i] /\ \A k \in 1..n : k # i /\ k # c => u[k] = t[k]
  BY <1>2 DEF Swapped
<1>4. /\ \A k \in 2..n : k # i => t[p(k)] <= t[k]
      /\ \A k \in 2..n : p(k) = i => t[c] <= t[k]
  BY DEF AscendsBelow
<1> HIDE DEF p, u, c
<1>5. ASSUME NEW k \in 2..n, k # c PROVE u[p(k)] <= u[k]
  <2>1. CASE k = i
    BY <1>2, <1>3, <2>1
  <2>2. CASE k # i /\ p(k) = i
    BY <1>3, <1>4, <1>5, <2>2
  <2>3. CASE k # i /\ p(k) = c
    <3>1. t[c] <= t[k] /\ t[i] \in Int /\ t[c] \in Int /\ t[k] \in Int
      BY <1>2, <1>4, <2>3
    <3> QED BY <1>2, <1>3, <1>5, <2>3, <3>1
  <2>4. CASE k # i /\ p(k) # i /\ p(k) # c
    <3>1. p(k) \in 1..n /\ k \in 1..n
      BY <1>1
    <3>2. u[p(k)] = t[p(k)] /\ u[k] = t[k]
      BY <1>3, <1>5, <2>4, <3>1
    <3>3. t[p(k)] <= t[k]
      BY <1>4, <2>4
    <3> QED BY <3>2, <3>3
  <2> QED BY <2>1, <2>2, <2>3, <2>4
<1>6. ASSUME NEW k \in 2..n, p(k) = c, c > 1 PROVE u[p(c)] <= u[k]
  <2>1. /\ p(c) # c /\ p(c) # i /\ p(c) \in 1..n /\ t[p(c)] <= t[c] /\ c \in 2..n
        /\ t[p(c)] \in Int /\ t[c] \in Int
    BY <1>1, <1>2, <1>4, <1>6
  <2>2. k # c
    BY <1>1, <1>6
  <2>3. CASE k = i
    BY <1>3, <2>1, <2>3
  <2>4. CASE k # i
    <3>1. t[c] <= t[k] /\ t[k] \in Int
      BY <1>4, <1>6, <2>4
    <3> QED BY <1>3, <2>1, <2>2, <2>4, <3>1
  <2> QED BY <2>3, <2>4
<1> QED BY <1>5, <1>6 DEF AscendsBelow, p, u, c

-----------------------------------------------------------------------------
(* downheap and upheap *)

\* The times with the element at the hole.
TimesAt(n, he, s) == [k \in 1..n |-> IF k = s.i THEN he.at ELSE s.h.heap[k].at]
Times(n, h)       == [k \in 1..n |-> h.heap[k].at]

LEMMA MovedTimes ==
  ASSUME NEW W, NEW n \in Nat, NEW he \in Entry(W), NEW E, NEW h \in Heaps(W),
         NEW s \in Carried(W, n, he, E, h), NEW to \in 1..n, to # s.i
  PROVE  TimesAt(n, he, Moved(s, to)) = Swapped(TimesAt(n, he, s), s.i, to)
<1> DEFINE m == Moved(s, to)
<1>1. m.i = to /\ \A k \in 1..n : k # to => m.h.heap[k] = s.h.heap[IF k = s.i THEN to ELSE k]
  BY MovedCarried
<1>2. s.i \in 1..n
  BY DEF Carried
<1> HIDE DEF m
<1>3. \A k \in 1..n : (IF k = m.i THEN he.at ELSE m.h.heap[k].at) =
        IF k = s.i THEN TimesAt(n, he, s)[to]
        ELSE IF k = to THEN TimesAt(n, he, s)[s.i] ELSE TimesAt(n, he, s)[k]
  BY <1>1, <1>2 DEF TimesAt
<1> QED BY <1>3 DEF TimesAt, Swapped, m

\* t gives the times of s, which has a hole.
TimesOf(W, n, he, s, t) ==
  /\ t \in [1..n -> Int] /\ t[s.i] = he.at
  /\ \A k \in 1..n : k # s.i => t[k] = s.h.heap[k].at
  /\ s.i \in 1..n /\ s.h \in Heaps(W) /\ n <= Len(s.h.heap) /\ s \in Holes(W)

LEMMA CarriedTimes ==
  ASSUME NEW W, NEW n \in Nat, NEW he \in Entry(W), NEW E, NEW h \in Heaps(W),
         NEW s \in Carried(W, n, he, E, h)
  PROVE  TimesOf(W, n, he, s, TimesAt(n, he, s))
<1>1. /\ s.h \in Heaps(W) /\ s.i \in 1..n /\ n <= Len(s.h.heap) /\ s \in Holes(W)
  BY DEF Carried, Holes
<1>2. \A k \in 1..n : s.h.heap[k].at \in Int
  BY <1>1, EntryType
<1>3. he.at \in Int
  BY DEF Entry
<1> QED BY <1>1, <1>2, <1>3 DEF TimesAt, TimesOf

\* What a hole is filled with.
LEMMA PutTimes ==
  ASSUME NEW W, NEW n \in Nat, NEW he \in Entry(W), NEW E, NEW h \in Heaps(W),
         NEW s \in Carried(W, n, he, E, h)
  PROVE  Times(n, Put(s.h, s.i, he)) = TimesAt(n, he, s)
<1> DEFINE L == Len(s.h.heap)
<1>1. s.h \in Heaps(W) /\ s.i \in 1..L /\ n <= L /\ L \in Nat
  BY DEF Carried, Holes, Heaps
<1> DEFINE g == Put(s.h, s.i, he)
<1>2. /\ g \in Heaps(W) /\ Len(g.heap) = L
      /\ g.heap[s.i] = he /\ g.active[he.w] = s.i
      /\ \A k \in 1..L : k # s.i => g.heap[k] = s.h.heap[k]
      /\ \A v \in W : v # he.w => g.active[v] = s.h.active[v]
  BY <1>1, PutIs
<1> HIDE DEF g
<1>3. \A k \in 1..n : g.heap[k].at = IF k = s.i THEN he.at ELSE s.h.heap[k].at
  BY <1>1, <1>2, EntryType
<1> QED BY <1>3 DEF Times, TimesAt, g

\* Where the loops begin: everybody but the element at i is in place.
PlacedBut(n, i, h) ==
  \A k \in 1..n : k # i => h.active[h.heap[k].w] = k /\ h.heap[k].w # h.heap[i].w

Others(n, i, h)   == {h.heap[k] : k \in (1..n) \ {i}}
Elements(n, h)    == {h.heap[k] : k \in 1..n}

LEMMA BeginsCarried ==
  ASSUME NEW W, NEW h \in Heaps(W), NEW n \in Nat, n <= Len(h.heap), NEW i \in 1..n,
         PlacedBut(n, i, h)
  PROVE  /\ At(h, i) \in Carried(W, n, h.heap[i], Others(n, i, h), h)
         /\ At(h, i).h = h /\ At(h, i).i = i /\ h.heap[i] \in Entry(W)
         /\ TimesAt(n, h.heap[i], At(h, i)) = Times(n, h)
         /\ Others(n, i, h) \cup {h.heap[i]} = Elements(n, h)
<1>1. h.heap[i] \in Entry(W)
  BY EntryType
<1> DEFINE r == At(h, i)
<1>2. r.h = h /\ r.i = i /\ r \in Holes(W)
  BY DEF At, Holes
<1> HIDE DEF r
<1>3. r \in Carried(W, n, h.heap[i], Others(n, i, h), h)
  BY <1>2 DEF Carried, PlacedBut, Others
<1>4. TimesAt(n, h.heap[i], r) = Times(n, h)
  BY <1>2 DEF TimesAt, Times
<1> QED BY <1>1, <1>2, <1>3, <1>4 DEF r, Others, Elements

Sinking(D, W, n, he, E, h) ==
  {s \in Carried(W, n, he, E, h) : AscendsAbove(D, n, TimesAt(n, he, s), s.i)}

FitsAbove(D, n, he, s) == \A k \in 2..n : HPARENT(D, k) = s.i => he.at <= s.h.heap[k].at

LEMMA SinkStep ==
  ASSUME NEW D \in {2, 4}, NEW W, NEW n \in Nat, NEW he \in Entry(W), NEW E, NEW h \in Heaps(W),
         NEW s \in Sinking(D, W, n, he, E, h)
  PROVE  /\ SinkRound(D, n, he, W)[s] \in Sinking(D, W, n, he, E, h)
         /\ FitsAbove(D, n, he, s) => SinkRound(D, n, he, W)[s] = s
         /\ ~FitsAbove(D, n, he, s) => SinkRound(D, n, he, W)[s].i > s.i
<1> DEFINE t    == TimesAt(n, he, s)
           kids == Children(D, n, s.i)
           c    == MinChild(s.h, kids)
           r    == SinkRound(D, n, he, W)[s]
<1>1. s \in Carried(W, n, he, E, h) /\ AscendsAbove(D, n, t, s.i)
  BY DEF Sinking
<1>2. /\ t \in [1..n -> Int] /\ t[s.i] = he.at /\ \A k \in 1..n : k # s.i => t[k] = s.h.heap[k].at
      /\ s.i \in 1..n /\ s.h \in Heaps(W) /\ n <= Len(s.h.heap) /\ s \in Holes(W)
  <2>1. TimesOf(W, n, he, s, t)
    BY <1>1, CarriedTimes
  <2> HIDE DEF t
  <2> QED BY <2>1 DEF TimesOf
<1>3. r = IF kids = {} \/ he.at <= s.h.heap[c].at THEN s ELSE Moved(s, c)
  BY <1>2 DEF SinkRound
<1>4. kids = {k \in 2..n : HPARENT(D, k) = s.i}
  BY <1>2, ChildrenAre
<1>5. \A k \in kids : k \in 2..n /\ k > s.i /\ t[k] = s.h.heap[k].at /\ HPARENT(D, k) = s.i
  <2> TAKE k \in kids
  <2>1. k \in 2..n /\ HPARENT(D, k) = s.i
    BY <1>4
  <2>2. k \in Nat /\ k > 1
    BY <2>1
  <2>3. s.i \in 1..k - 1
    BY <2>1, <2>2, ParentBefore
  <2> QED BY <1>2, <2>1, <2>3
<1>6. FitsAbove(D, n, he, s) <=> \A k \in kids : he.at <= s.h.heap[k].at
  BY <1>4 DEF FitsAbove
<1>7. CASE kids = {}
  BY <1>3, <1>6, <1>7
<1>8. CASE kids # {}
  <2>1. c \in kids /\ \A o \in kids : s.h.heap[c].at <= s.h.heap[o].at
    <3> HIDE DEF kids
    <3>1. kids \subseteq 1..Len(s.h.heap)
      BY <1>2, <1>5, EntryType
    <3> QED BY <1>2, <1>8, <3>1, MinChildIs
  <2>2. he.at \in Int /\ t[c] \in Int /\ t[c] = s.h.heap[c].at
    BY <1>2, <1>5, <2>1
  <2>3. \A o \in kids : t[c] <= t[o] /\ t[o] \in Int /\ t[o] = s.h.heap[o].at
    BY <1>2, <1>5, <2>1, <2>2
  <2>4. FitsAbove(D, n, he, s) <=> he.at <= t[c]
    <3> HIDE DEF kids, c, t
    <3> QED BY <1>6, <2>1, <2>2, <2>3
  <2>5. CASE he.at <= t[c]
    BY <1>3, <2>2, <2>4, <2>5
  <2>6. CASE ~(he.at <= t[c])
    <3>1. r = Moved(s, c)
      BY <1>3, <1>8, <2>2, <2>6
    <3>2. c \in 1..n /\ c \in 2..n /\ c # s.i /\ c > s.i /\ HPARENT(D, c) = s.i
      BY <1>2, <1>5, <2>1
    <3>3. r \in Carried(W, n, he, E, h) /\ r.i = c
      <4> HIDE DEF c
      <4> QED BY <1>1, <3>1, <3>2, MovedCarried
    <3>4. TimesAt(n, he, r) = Swapped(t, s.i, c)
      <4> HIDE DEF c
      <4> QED BY <1>1, <3>1, <3>2, MovedTimes
    <3>5. t[c] < t[s.i] /\ \A k \in 2..n : HPARENT(D, k) = s.i => t[c] <= t[k]
      <4>1. t[c] < t[s.i]
        <5> HIDE DEF c, t
        <5> QED BY <1>2, <2>2, <2>6
      <4>2. ASSUME NEW k \in 2..n, HPARENT(D, k) = s.i PROVE t[c] <= t[k]
        BY <1>4, <2>3, <4>2
      <4> QED BY <4>1, <4>2
    <3>6. AscendsAbove(D, n, Swapped(t, s.i, c), c)
      <4> HIDE DEF c, t
      <4> QED BY <1>1, <1>2, <3>2, <3>5, Sinks
    <3>7. r \in Sinking(D, W, n, he, E, h)
      BY <3>3, <3>4, <3>6 DEF Sinking
    <3> QED BY <2>4, <2>6, <3>2, <3>3, <3>7
  <2> QED BY <2>5, <2>6
<1> QED BY <1>7, <1>8

LEMMA DownheapIs ==
  ASSUME NEW D \in {2, 4}, NEW W, NEW h \in Heaps(W), NEW n \in Nat, n <= Len(h.heap),
         NEW i \in 1..n, PlacedBut(n, i, h), AscendsAbove(D, n, Times(n, h), i)
  PROVE  /\ Settled(W, n, Elements(n, h), h, downheap(D, h, n, i))
         /\ Ascends(D, n, Times(n, downheap(D, h, n, i)))
<1> DEFINE he   == h.heap[i]
           E    == Others(n, i, h)
           x    == At(h, i)
           J    == Sinking(D, W, n, he, E, h)
           far  == [s \in J |-> IF FitsAbove(D, n, he, s) THEN 0 ELSE n - s.i + 1]
           body == SinkRound(D, n, he, W)
           z    == After(body, x, n)
<1>1. /\ x \in Carried(W, n, he, E, h) /\ x.h = h /\ x.i = i /\ he \in Entry(W)
      /\ TimesAt(n, he, x) = Times(n, h) /\ E \cup {he} = Elements(n, h)
  BY BeginsCarried
<1>2. x \in J
  BY <1>1 DEF Sinking
<1>3. \A s \in J : /\ body[s] \in J
                   /\ FitsAbove(D, n, he, s) => body[s] = s
                   /\ ~FitsAbove(D, n, he, s) => body[s].i > s.i
  BY <1>1, SinkStep
<1>4. \A s \in J : s.i \in 1..n
  BY DEF Sinking, Carried
<1> HIDE DEF J, body, x
<1>5. far \in [J -> Nat] /\ far[x] <= n
  BY <1>1, <1>2, <1>4
<1>6. \A s \in J : far[s] = 0 <=> FitsAbove(D, n, he, s)
  BY <1>4
<1>7. \A s \in J : far[s] = 0 => far[body[s]] = 0
  BY <1>3, <1>6
<1>8. ASSUME NEW s \in J, far[s] # 0 PROVE far[body[s]] < far[s]
  <2>1. ~FitsAbove(D, n, he, s) /\ body[s].i > s.i /\ body[s] \in J
    BY <1>3, <1>6, <1>8
  <2>2. far[s] = n - s.i + 1 /\ s.i \in 1..n /\ body[s].i \in 1..n
    BY <1>4, <2>1
  <2>3. far[body[s]] = 0 \/ far[body[s]] = n - body[s].i + 1
    BY <2>1
  <2> QED BY <2>1, <2>2, <2>3
<1>9. z \in J /\ far[z] = 0
  <2> HIDE DEF far
  <2>1. Nearer(body, J, far)
    BY <1>3, <1>5, <1>7, <1>8 DEF Nearer
  <2> QED BY <1>2, <1>5, <2>1, NearerEnds
<1> DEFINE t == TimesAt(n, he, z)
<1>10. z \in Carried(W, n, he, E, h) /\ AscendsAbove(D, n, t, z.i) /\ FitsAbove(D, n, he, z)
  BY <1>6, <1>9 DEF J, Sinking
<1>11. downheap(D, h, n, i) = Put(z.h, z.i, he)
  BY DEF downheap, body, x, Heaps
<1> HIDE DEF z
<1>12. Settled(W, n, E \cup {he}, h, Put(z.h, z.i, he))
  BY <1>1, <1>10, PutSettles
<1>13. Times(n, Put(z.h, z.i, he)) = t
  BY <1>1, <1>10, PutTimes
<1>14. /\ t[z.i] = he.at /\ \A k \in 1..n : k # z.i => t[k] = z.h.heap[k].at
  BY <1>1, <1>10, CarriedTimes DEF TimesOf
<1>15. Ascends(D, n, t)
  <2> SUFFICES ASSUME NEW k \in 2..n PROVE t[HPARENT(D, k)] <= t[k]
    BY DEF Ascends
  <2>1. CASE HPARENT(D, k) # z.i
    BY <1>10, <2>1 DEF AscendsAbove
  <2>2. CASE HPARENT(D, k) = z.i
    <3>1. k # z.i
      <4>1. k \in Nat /\ k > 1
        OBVIOUS
      <4>2. HPARENT(D, k) \in 1..k - 1
        BY <4>1, ParentBefore
      <4>3. ~(k \in 1..k - 1)
        BY <4>1
      <4> QED BY <2>2, <4>2, <4>3
    <3>2. he.at <= z.h.heap[k].at
      BY <1>10, <2>2 DEF FitsAbove
    <3>3. t[HPARENT(D, k)] = he.at
      BY <1>14, <2>2
    <3>4. t[k] = z.h.heap[k].at
      <4>1. k \in 1..n
        BY <1>1
      <4> QED BY <1>14, <3>1, <4>1
    <3> QED BY <3>2, <3>3, <3>4
  <2> QED BY <2>1, <2>2
<1> QED BY <1>1, <1>11, <1>12, <1>13, <1>15

Rising(D, W, n, he, E, h) ==
  {s \in Carried(W, n, he, E, h) : AscendsBelow(D, n, TimesAt(n, he, s), s.i)}

FitsBelow(D, he, s) == s.i = 1 \/ s.h.heap[HPARENT(D, s.i)].at <= he.at

LEMMA RiseStep ==
  ASSUME NEW D \in {2, 4}, NEW W, NEW n \in Nat, NEW he \in Entry(W), NEW E, NEW h \in Heaps(W),
         NEW s \in Rising(D, W, n, he, E, h)
  PROVE  /\ RiseRound(D, he, W)[s] \in Rising(D, W, n, he, E, h)
         /\ FitsBelow(D, he, s) => RiseRound(D, he, W)[s] = s
         /\ ~FitsBelow(D, he, s) => RiseRound(D, he, W)[s].i < s.i
<1> DEFINE t == TimesAt(n, he, s)
           p == HPARENT(D, s.i)
           r == RiseRound(D, he, W)[s]
<1>1. s \in Carried(W, n, he, E, h) /\ AscendsBelow(D, n, t, s.i)
  BY DEF Rising
<1>2. /\ t \in [1..n -> Int] /\ t[s.i] = he.at /\ \A k \in 1..n : k # s.i => t[k] = s.h.heap[k].at
      /\ s.i \in 1..n /\ s.h \in Heaps(W) /\ n <= Len(s.h.heap) /\ s \in Holes(W)
  <2>1. TimesOf(W, n, he, s, t)
    BY <1>1, CarriedTimes
  <2> HIDE DEF t
  <2> QED BY <2>1 DEF TimesOf
<1>3. r = IF s.i = 1 \/ s.h.heap[p].at <= he.at THEN s ELSE Moved(s, p)
  BY <1>2 DEF RiseRound
<1>4. CASE FitsBelow(D, he, s)
  BY <1>3, <1>4 DEF FitsBelow
<1>5. CASE ~FitsBelow(D, he, s)
  <2>1. r = Moved(s, p) /\ s.i # 1
    BY <1>3, <1>5 DEF FitsBelow
  <2>2. s.i \in Nat /\ s.i > 1 /\ s.i \in 2..n
    BY <1>2, <2>1
  <2>3. p \in 1..s.i - 1
    BY <2>2, ParentBefore
  <2> HIDE DEF p
  <2>4. p \in 1..n /\ p # s.i /\ p < s.i
    BY <2>2, <2>3
  <2>5. r \in Carried(W, n, he, E, h) /\ r.i = p
    BY <1>1, <2>1, <2>4, MovedCarried
  <2>6. TimesAt(n, he, r) = Swapped(t, s.i, p)
    BY <1>1, <2>1, <2>4, MovedTimes
  <2>7. t[s.i] < t[p]
    <3>1. ~(s.h.heap[p].at <= he.at)
      BY <1>5 DEF FitsBelow, p
    <3>2. t[p] = s.h.heap[p].at /\ t[p] \in Int /\ he.at \in Int
      BY <1>2, <2>4
    <3> QED BY <1>2, <3>1, <3>2
  <2>8. AscendsBelow(D, n, Swapped(t, s.i, p), p)
    <3> HIDE DEF t
    <3> QED BY <1>1, <1>2, <2>2, <2>7, Rises DEF p
  <2>9. r \in Rising(D, W, n, he, E, h)
    BY <2>5, <2>6, <2>8 DEF Rising
  <2> QED BY <1>5, <2>4, <2>5, <2>9
<1> QED BY <1>4, <1>5

LEMMA UpheapIs ==
  ASSUME NEW D \in {2, 4}, NEW W, NEW h \in Heaps(W), NEW n \in Nat, n <= Len(h.heap),
         NEW i \in 1..n, PlacedBut(n, i, h), AscendsBelow(D, n, Times(n, h), i)
  PROVE  /\ Settled(W, n, Elements(n, h), h, upheap(D, h, i))
         /\ Ascends(D, n, Times(n, upheap(D, h, i)))
<1> DEFINE he   == h.heap[i]
           E    == Others(n, i, h)
           x    == At(h, i)
           J    == Rising(D, W, n, he, E, h)
           far  == [s \in J |-> IF FitsBelow(D, he, s) THEN 0 ELSE s.i]
           body == RiseRound(D, he, W)
           z    == After(body, x, i)
<1>1. /\ x \in Carried(W, n, he, E, h) /\ x.h = h /\ x.i = i /\ he \in Entry(W)
      /\ TimesAt(n, he, x) = Times(n, h) /\ E \cup {he} = Elements(n, h)
  BY BeginsCarried
<1>2. x \in J
  BY <1>1 DEF Rising
<1>3. \A s \in J : /\ body[s] \in J
                   /\ FitsBelow(D, he, s) => body[s] = s
                   /\ ~FitsBelow(D, he, s) => body[s].i < s.i
  BY <1>1, RiseStep
<1>4. \A s \in J : s.i \in 1..n
  BY DEF Rising, Carried
<1> HIDE DEF J, body, x
<1>5. far \in [J -> Nat] /\ far[x] <= i
  BY <1>1, <1>2, <1>4
<1>6. \A s \in J : far[s] = 0 <=> FitsBelow(D, he, s)
  BY <1>4
<1>7. \A s \in J : far[s] = 0 => far[body[s]] = 0
  BY <1>3, <1>6
<1>8. ASSUME NEW s \in J, far[s] # 0 PROVE far[body[s]] < far[s]
  <2>1. ~FitsBelow(D, he, s) /\ body[s].i < s.i /\ body[s] \in J
    BY <1>3, <1>6, <1>8
  <2>2. far[s] = s.i /\ s.i \in 1..n /\ body[s].i \in 1..n
    BY <1>4, <2>1
  <2>3. far[body[s]] = 0 \/ far[body[s]] = body[s].i
    BY <2>1
  <2> QED BY <2>1, <2>2, <2>3
<1>9. z \in J /\ far[z] = 0
  <2> HIDE DEF far
  <2>1. Nearer(body, J, far)
    BY <1>3, <1>5, <1>7, <1>8 DEF Nearer
  <2>2. i \in Nat
    OBVIOUS
  <2> QED BY <1>2, <1>5, <2>1, <2>2, NearerEnds
<1> DEFINE t == TimesAt(n, he, z)
<1>10. z \in Carried(W, n, he, E, h) /\ AscendsBelow(D, n, t, z.i) /\ FitsBelow(D, he, z)
  BY <1>6, <1>9 DEF J, Rising
<1>11. upheap(D, h, i) = Put(z.h, z.i, he)
  BY DEF upheap, body, x, Heaps
<1> HIDE DEF z
<1>12. Settled(W, n, E \cup {he}, h, Put(z.h, z.i, he))
  BY <1>1, <1>10, PutSettles
<1>13. Times(n, Put(z.h, z.i, he)) = t
  BY <1>1, <1>10, PutTimes
<1>14. /\ t[z.i] = he.at /\ z.i \in 1..n /\ \A k \in 1..n : k # z.i => t[k] = z.h.heap[k].at
  BY <1>1, <1>10, CarriedTimes DEF TimesOf
<1>15. Ascends(D, n, t)
  <2> SUFFICES ASSUME NEW k \in 2..n PROVE t[HPARENT(D, k)] <= t[k]
    BY DEF Ascends
  <2>1. CASE k # z.i
    BY <1>10, <2>1 DEF AscendsBelow
  <2>2. CASE k = z.i
    <3>1. k \in Nat /\ k > 1
      OBVIOUS
    <3>2. HPARENT(D, k) \in 1..k - 1
      BY <3>1, ParentBefore
    <3>3. HPARENT(D, k) \in 1..n /\ HPARENT(D, k) # z.i
      BY <2>2, <3>2
    <3>4. z.h.heap[HPARENT(D, k)].at <= he.at
      BY <1>10, <2>2 DEF FitsBelow
    <3> QED BY <1>14, <2>2, <3>3, <3>4
  <2> QED BY <2>1, <2>2
<1> QED BY <1>1, <1>11, <1>12, <1>13, <1>15

\* The times ascend but at i.
AscendsBut(D, n, t, i) ==
  \A k \in 2..n : /\ k # i /\ HPARENT(D, k) # i => t[HPARENT(D, k)] <= t[k]
                  /\ HPARENT(D, k) = i /\ i > 1 => t[HPARENT(D, i)] <= t[k]

LEMMA AdjustheapIs ==
  ASSUME NEW D \in {2, 4}, NEW W, NEW h \in Heaps(W), NEW n \in Nat, n <= Len(h.heap),
         NEW i \in 1..n, PlacedBut(n, i, h), AscendsBut(D, n, Times(n, h), i)
  PROVE  /\ Settled(W, n, Elements(n, h), h, adjustheap(D, h, n, i))
         /\ Ascends(D, n, Times(n, adjustheap(D, h, n, i)))
<1> DEFINE p(k) == HPARENT(D, k)
           t    == Times(n, h)
<1>1. \A k \in 1..n : t[k] = h.heap[k].at /\ t[k] \in Int
  BY EntryType DEF Times
<1>5. \A k \in 2..n : /\ k # i /\ p(k) # i => t[p(k)] <= t[k]
                      /\ p(k) = i /\ i > 1 => t[p(i)] <= t[k]
  BY DEF AscendsBut
<1> HIDE DEF t
<1>2. ASSUME NEW k \in 2..n PROVE p(k) \in 1..n /\ p(k) # k
  <2>1. k \in Nat /\ k > 1
    OBVIOUS
  <2>2. p(k) \in 1..k - 1
    BY <2>1, ParentBefore
  <2> HIDE DEF p
  <2> QED BY <2>2
<1>3. CASE i > 1 /\ h.heap[i].at <= h.heap[p(i)].at
  <2>1. i \in 2..n /\ p(i) \in 1..n
    BY <1>2, <1>3
  <2>2. t[i] <= t[p(i)]
    BY <1>1, <1>3, <2>1
  <2>3. ASSUME NEW k \in 2..n, k # i PROVE t[p(k)] <= t[k]
    <3>1. CASE p(k) = i
      <4>1. t[p(i)] <= t[k] /\ t[k] \in Int /\ t[i] \in Int /\ t[p(i)] \in Int
        BY <1>1, <1>3, <1>5, <2>1, <3>1
      <4> QED BY <2>2, <3>1, <4>1
    <3> QED BY <1>5, <2>3, <3>1
  <2>4. AscendsBelow(D, n, t, i)
    BY <1>5, <2>3 DEF AscendsBelow
  <2> QED BY <1>3, <2>4, UpheapIs DEF adjustheap, t
<1>4. CASE ~(i > 1 /\ h.heap[i].at <= h.heap[p(i)].at)
  <2>1. ASSUME NEW k \in 2..n, p(k) # i PROVE t[p(k)] <= t[k]
    <3>1. CASE k = i
      <4>1. p(i) \in 1..n /\ i > 1
        BY <1>2, <3>1
      <4>2. t[i] \in Int /\ t[p(i)] \in Int /\ ~(t[i] <= t[p(i)])
        BY <1>1, <1>4, <4>1
      <4> QED BY <3>1, <4>2
    <3> QED BY <1>5, <2>1, <3>1
  <2>2. AscendsAbove(D, n, t, i)
    BY <1>5, <2>1 DEF AscendsAbove
  <2> QED BY <1>4, <2>2, DownheapIs DEF adjustheap, t
<1> QED BY <1>3, <1>4

-----------------------------------------------------------------------------
(* reheap *)

LEMMA SettledFurther ==
  ASSUME NEW W, NEW n \in Nat, NEW E, NEW h0, NEW h, NEW g,
         Settled(W, n, E, h0, h), n <= Len(h0.heap), h0 \in Heaps(W),
         NEW i \in 1..n, Settled(W, i, Elements(i, h), h, g)
  PROVE  Settled(W, n, E, h0, g)
<1>1. /\ h \in Heaps(W) /\ Len(h.heap) = Len(h0.heap) /\ g \in Heaps(W) /\ Len(g.heap) = Len(h0.heap)
      /\ Len(h0.heap) \in Nat
  BY EntryType DEF Settled
<1>2. \A k \in 1..n : h.heap[k] \in E /\ h.active[h.heap[k].w] = k /\ h.heap[k].w \in W
  BY <1>1, EntryType DEF Settled
<1>3. \A k \in 1..n : k > i => g.heap[k] = h.heap[k]
  BY <1>1 DEF Settled
<1>4. ASSUME NEW k \in 1..n PROVE g.heap[k] \in E /\ g.active[g.heap[k].w] = k
  <2>1. CASE k <= i
    <3>1. g.heap[k] \in Elements(i, h) /\ g.active[g.heap[k].w] = k
      BY <2>1 DEF Settled
    <3> QED BY <1>2, <3>1 DEF Elements
  <2>2. CASE k > i
    <3>1. \A e \in Elements(i, h) : e.w # h.heap[k].w
      BY <1>2, <2>2 DEF Elements
    <3>2. g.active[h.heap[k].w] = h.active[h.heap[k].w]
      BY <1>2, <3>1 DEF Settled
    <3> QED BY <1>2, <1>3, <2>2, <3>2
  <2> QED BY <2>1, <2>2
<1>5. ASSUME NEW e \in E PROVE \E k \in 1..n : g.heap[k] = e
  <2>1. PICK k \in 1..n : h.heap[k] = e
    BY DEF Settled
  <2>2. CASE k <= i
    <3>1. e \in Elements(i, h)
      BY <2>1, <2>2 DEF Elements
    <3>2. PICK j \in 1..i : g.heap[j] = e
      BY <3>1 DEF Settled
    <3> QED BY <3>2
  <2>3. CASE k > i
    BY <1>3, <2>1, <2>3
  <2> QED BY <2>2, <2>3
<1>6. ASSUME NEW k \in 1..Len(h0.heap), k > n PROVE g.heap[k] = h0.heap[k]
  <2>1. k \in 1..Len(h.heap) /\ k > i
    BY <1>1, <1>6
  <2>2. g.heap[k] = h.heap[k] /\ h.heap[k] = h0.heap[k]
    BY <1>6, <2>1 DEF Settled
  <2> QED BY <2>2
<1>7. ASSUME NEW v \in W, \A e \in E : e.w # v PROVE g.active[v] = h0.active[v]
  <2>1. \A e \in Elements(i, h) : e.w # v
    BY <1>2, <1>7 DEF Elements
  <2> QED BY <1>7, <2>1 DEF Settled
<1> QED BY <1>1, <1>4, <1>5, <1>6, <1>7 DEF Settled

\* Everybody is in place.
Placed(n, h) == \A k \in 1..n : h.active[h.heap[k].w] = k

LEMMA PlacedSettled ==
  ASSUME NEW W, NEW h \in Heaps(W), NEW n \in Nat, Placed(n, h)
  PROVE  Settled(W, n, Elements(n, h), h, h)
BY DEF Settled, Elements, Placed

LEMMA ReheapIs ==
  ASSUME NEW D \in {2, 4}, NEW W, NEW h \in Heaps(W), NEW n \in Nat, n <= Len(h.heap),
         Placed(n, h)
  PROVE  /\ Settled(W, n, Elements(n, h), h, reheap(D, h, n))
         /\ Ascends(D, n, Times(n, reheap(D, h, n)))
<1> DEFINE body == ReheapRound(D, W)
           x    == At(h, 1)
           r(k) == After(body, x, k)
           E    == Elements(n, h)
           S    == {k \in Nat : k <= n => /\ r(k) \in Holes(W) /\ r(k).i = k + 1
                                          /\ Settled(W, n, E, h, r(k).h)
                                          /\ Ascends(D, k, Times(k, r(k).h))}
<1>1. 0 \in S
  <2>1. r(0) = x
    BY AfterRounds
  <2>2. x.h = h /\ x.i = 1 /\ x \in Holes(W)
    BY DEF At, Holes
  <2> HIDE DEF r, x, E
  <2> QED BY <2>1, <2>2, PlacedSettled DEF Ascends, E
<1>2. ASSUME NEW k \in Nat, k \in S PROVE k + 1 \in S
  <2> SUFFICES ASSUME k + 1 <= n
               PROVE  /\ r(k + 1) \in Holes(W) /\ r(k + 1).i = k + 1 + 1
                      /\ Settled(W, n, E, h, r(k + 1).h)
                      /\ Ascends(D, k + 1, Times(k + 1, r(k + 1).h))
    OBVIOUS
  <2> DEFINE s == r(k)
             j == k + 1
             g == upheap(D, s.h, j)
  <2>1. s \in Holes(W) /\ s.i = j /\ Settled(W, n, E, h, s.h) /\ Ascends(D, k, Times(k, s.h))
    BY <1>2
  <2>2. r(j) = body[s]
    BY AfterRounds
  <2>3. j \in 1..n /\ j \in Nat /\ \A m \in 1..j : m # j => m \in 1..k
    OBVIOUS
  <2> HIDE DEF s, r, j
  <2>4. r(j) = At(g, j + 1) /\ At(g, j + 1).h = g /\ At(g, j + 1).i = j + 1
    BY <2>1, <2>2 DEF ReheapRound, At
  <2>5. s.h \in Heaps(W) /\ Len(s.h.heap) = Len(h.heap) /\ j <= Len(s.h.heap)
    BY <2>1, <2>3, EntryType DEF Settled
  <2>6. \A m \in 1..n : s.h.active[s.h.heap[m].w] = m
    BY <2>1 DEF Settled
  <2>7. PlacedBut(j, j, s.h)
    BY <2>3, <2>6 DEF PlacedBut
  <2>8. AscendsBelow(D, j, Times(j, s.h), j)
    <3> SUFFICES ASSUME NEW m \in 2..j
                 PROVE  /\ m # j => Times(j, s.h)[HPARENT(D, m)] <= Times(j, s.h)[m]
                        /\ HPARENT(D, m) # j
      BY DEF AscendsBelow
    <3>1. m \in Nat /\ m > 1 /\ m <= j
      BY <2>3
    <3>2. HPARENT(D, m) \in 1..m - 1
      BY <3>1, ParentBefore
    <3>3. HPARENT(D, m) # j /\ HPARENT(D, m) \in 1..j
      BY <2>3, <3>1, <3>2
    <3>4. ASSUME m # j PROVE Times(j, s.h)[HPARENT(D, m)] <= Times(j, s.h)[m]
      <4>1. m \in 1..k /\ HPARENT(D, m) \in 1..k /\ m \in 2..k
        BY <3>1, <3>2, <3>4 DEF j
      <4>2. Times(k, s.h)[HPARENT(D, m)] <= Times(k, s.h)[m]
        BY <2>1, <4>1 DEF Ascends
      <4> QED BY <3>1, <3>3, <4>1, <4>2 DEF Times
    <3> QED BY <3>3, <3>4
  <2>9. Settled(W, j, Elements(j, s.h), s.h, g) /\ Ascends(D, j, Times(j, g))
    BY <2>3, <2>5, <2>7, <2>8, UpheapIs
  <2>10. Settled(W, n, E, h, g)
    BY <2>1, <2>3, <2>9, SettledFurther
  <2>11. At(g, j + 1) \in Holes(W)
    BY <2>3, <2>10 DEF Settled, Holes, At
  <2> QED BY <2>4, <2>9, <2>10, <2>11 DEF j
<1>3. n \in S
  <2> HIDE DEF S
  <2> QED BY <1>1, <1>2, NumberInduction
<1>4. reheap(D, h, n) = r(n).h
  BY DEF reheap, Heaps
<1> QED BY <1>3, <1>4

-----------------------------------------------------------------------------
(* Heaps between two operations *)

LEMMA RootLeast ==
  ASSUME NEW D \in {2, 4}, NEW n \in Nat, NEW t \in [1..n -> Int], Ascends(D, n, t)
  PROVE  \A k \in 1..n : t[1] <= t[k]
<1> DEFINE T == {k \in 1..n : ~(t[1] <= t[k])}
<1> SUFFICES ASSUME T # {} PROVE FALSE
  OBVIOUS
<1>1. PICK k \in T : \A m \in T : k <= m
  <2>1. T \subseteq Nat
    OBVIOUS
  <2> HIDE DEF T
  <2> QED BY <2>1, LeastNumber
<1>2. k \in 1..n /\ 1 \in 1..n /\ t[k] \in Int /\ t[1] \in Int /\ ~(t[1] <= t[k])
  BY <1>1
<1>3. k \in Nat /\ k > 1 /\ k \in 2..n
  BY <1>2
<1> DEFINE p == HPARENT(D, k)
<1>4. p \in 1..k - 1
  BY <1>3, ParentBefore
<1>5. t[p] <= t[k]
  BY <1>3 DEF Ascends
<1> HIDE DEF p
<1>6. p \in 1..n /\ ~(k <= p)
  BY <1>2, <1>4
<1>7. t[1] <= t[p] /\ t[p] \in Int
  BY <1>1, <1>6
<1> QED BY <1>2, <1>5, <1>7

\* Positions, order, and who is off is not in the heap.
Sound(D, W, h) ==
  /\ h \in Heaps(W) /\ Placed(Len(h.heap), h)
  /\ \A v \in W : h.active[v] # 0 =>
       h.active[v] \in 1..Len(h.heap) /\ h.heap[h.active[v]].w = v
  /\ Ascends(D, Len(h.heap), Times(Len(h.heap), h))

All(h) == Elements(Len(h.heap), h)

LEMMA SettledSound ==
  ASSUME NEW D \in {2, 4}, NEW W, NEW h \in Heaps(W), NEW E, NEW g,
         Settled(W, Len(h.heap), E, h, g), Ascends(D, Len(h.heap), Times(Len(h.heap), g)),
         \A v \in W : (\A e \in E : e.w # v) => h.active[v] = 0
  PROVE  Sound(D, W, g) /\ All(g) = E
<1> DEFINE n == Len(h.heap)
<1>1. n \in Nat /\ Len(g.heap) = n /\ g \in Heaps(W)
  BY EntryType DEF Settled
<1>2. /\ \A k \in 1..n : g.heap[k] \in E /\ g.active[g.heap[k].w] = k
      /\ \A e \in E : \E k \in 1..n : g.heap[k] = e
  BY DEF Settled
<1>3. All(g) = E
  BY <1>1, <1>2 DEF All, Elements
<1>4. ASSUME NEW v \in W, g.active[v] # 0
      PROVE  g.active[v] \in 1..n /\ g.heap[g.active[v]].w = v
  <2>1. PICK e \in E : e.w = v
    BY <1>4 DEF Settled
  <2>2. PICK k \in 1..n : g.heap[k] = e
    BY <1>2
  <2> QED BY <1>2, <2>1, <2>2
<1> QED BY <1>1, <1>2, <1>3, <1>4 DEF Sound, Placed

LEMMA CutSound ==
  ASSUME NEW D \in {2, 4}, NEW W, NEW h \in Heaps(W), NEW n \in Nat, n <= Len(h.heap), NEW E, NEW g,
         Settled(W, n, E, h, g), Ascends(D, n, Times(n, g)), NEW w \in W, \A e \in E : e.w # w,
         \A v \in W : v # w /\ (\A e \in E : e.w # v) => h.active[v] = 0,
         NEW r, r = [heap |-> SubSeq(g.heap, 1, n), active |-> [g.active EXCEPT ![w] = 0]]
  PROVE  Sound(D, W, r) /\ All(r) = E
<1>1. g \in Heaps(W) /\ Len(g.heap) = Len(h.heap) /\ Len(h.heap) \in Nat /\ g.active \in [W -> Nat]
  BY EntryType DEF Settled
<1>2. /\ \A k \in 1..n : g.heap[k] \in E /\ g.active[g.heap[k].w] = k /\ g.heap[k].w \in W
      /\ \A e \in E : \E k \in 1..n : g.heap[k] = e
  BY <1>1, EntryType DEF Settled
<1>3. Len(r.heap) = n /\ r.heap \in Seq(Entry(W)) /\ \A k \in 1..n : r.heap[k] = g.heap[k]
  <2>1. g.heap \in Seq(Entry(W))
    BY <1>1, EntryType
  <2> QED BY <1>1, <2>1
<1>4. r.active[w] = 0 /\ r.active \in [W -> Nat] /\ \A v \in W : v # w => r.active[v] = g.active[v]
  BY <1>1
<1>5. r \in Heaps(W)
  BY <1>3, <1>4 DEF Heaps
<1>6. All(r) = E
  BY <1>2, <1>3 DEF All, Elements
<1>7. \A k \in 1..n : r.active[r.heap[k].w] = k
  BY <1>2, <1>3, <1>4
<1>8. ASSUME NEW v \in W, r.active[v] # 0
      PROVE  r.active[v] \in 1..n /\ r.heap[r.active[v]].w = v
  <2>1. v # w /\ g.active[v] # 0
    BY <1>4, <1>8
  <2>2. PICK e \in E : e.w = v
    BY <2>1 DEF Settled
  <2>3. PICK k \in 1..n : g.heap[k] = e
    BY <1>2
  <2> QED BY <1>2, <1>3, <1>4, <2>1, <2>2, <2>3
<1>9. Ascends(D, n, Times(n, r))
  <2>1. Times(n, r) = Times(n, g)
    BY <1>3 DEF Times
  <2> QED BY <2>1
<1> QED BY <1>3, <1>5, <1>6, <1>7, <1>8, <1>9 DEF Sound, Placed

LEMMA SoundParts ==
  ASSUME NEW D \in {2, 4}, NEW W, NEW h, Sound(D, W, h)
  PROVE  /\ h \in Heaps(W) /\ Len(h.heap) \in Nat
         /\ \A k \in 1..Len(h.heap) : /\ h.active[h.heap[k].w] = k /\ h.heap[k].w \in W
                                      /\ h.heap[k].at \in Int /\ h.heap[k] \in Entry(W)
         /\ \A v \in W : h.active[v] \in Nat
         /\ \A v \in W : h.active[v] # 0 =>
              h.active[v] \in 1..Len(h.heap) /\ h.heap[h.active[v]].w = v
         /\ \A k \in 2..Len(h.heap) :
              HPARENT(D, k) \in 1..k - 1 /\ h.heap[HPARENT(D, k)].at <= h.heap[k].at
         /\ \A v \in W : h.active[v] = 0 <=> \A e \in All(h) : e.w # v
<1>1. h \in Heaps(W) /\ Len(h.heap) \in Nat /\ \A v \in W : h.active[v] \in Nat
  BY EntryType DEF Sound
<1>2. \A k \in 1..Len(h.heap) : /\ h.active[h.heap[k].w] = k /\ h.heap[k].w \in W
                                /\ h.heap[k].at \in Int /\ h.heap[k] \in Entry(W)
  BY <1>1, EntryType DEF Sound, Placed
<1>3. \A v \in W : h.active[v] # 0 =>
        h.active[v] \in 1..Len(h.heap) /\ h.heap[h.active[v]].w = v
  BY DEF Sound
<1>4. ASSUME NEW k \in 2..Len(h.heap)
      PROVE  HPARENT(D, k) \in 1..k - 1 /\ h.heap[HPARENT(D, k)].at <= h.heap[k].at
  <2>1. k \in Nat /\ k > 1
    BY <1>1
  <2>2. HPARENT(D, k) \in 1..k - 1
    BY <2>1, ParentBefore
  <2>3. HPARENT(D, k) \in 1..Len(h.heap) /\ k \in 1..Len(h.heap)
    BY <1>1, <2>1, <2>2
  <2>4. Times(Len(h.heap), h)[HPARENT(D, k)] <= Times(Len(h.heap), h)[k]
    BY DEF Sound, Ascends
  <2> QED BY <2>2, <2>3, <2>4 DEF Times
<1>5. \A v \in W : h.active[v] = 0 <=> \A e \in All(h) : e.w # v
  <2> TAKE v \in W
  <2>1. CASE h.active[v] = 0
    <3>1. \A k \in 1..Len(h.heap) : h.heap[k].w # v
      BY <1>1, <1>2, <2>1
    <3> QED BY <2>1, <3>1 DEF All, Elements
  <2>2. CASE h.active[v] # 0
    BY <1>3, <2>2 DEF All, Elements
  <2> QED BY <2>1, <2>2
<1> QED BY <1>1, <1>2, <1>3, <1>4, <1>5

LEMMA PutInSound ==
  ASSUME NEW D \in {2, 4}, NEW W, NEW h, Sound(D, W, h), NEW w \in W, h.active[w] = 0,
         NEW t \in Int
  PROVE  Sound(D, W, PutIn(D, h, w, t)) /\ All(PutIn(D, h, w, t)) = All(h) \cup {[w |-> w, at |-> t]}
<1> DEFINE n  == Len(h.heap) + 1
           he == [w |-> w, at |-> t]
           h1 == [heap |-> Append(h.heap, he), active |-> [h.active EXCEPT ![w] = n]]
<1>1. /\ h \in Heaps(W) /\ Len(h.heap) \in Nat
      /\ \A k \in 1..Len(h.heap) : /\ h.active[h.heap[k].w] = k /\ h.heap[k].w \in W
                                   /\ h.heap[k].at \in Int /\ h.heap[k] \in Entry(W)
      /\ \A v \in W : h.active[v] = 0 <=> \A e \in All(h) : e.w # v
      /\ \A k \in 2..Len(h.heap) :
           HPARENT(D, k) \in 1..k - 1 /\ h.heap[HPARENT(D, k)].at <= h.heap[k].at
  BY SoundParts
<1>2. h.heap \in Seq(Entry(W)) /\ h.active \in [W -> Nat] /\ he \in Entry(W) /\ n \in Nat
  <2>1. h.heap \in Seq(Entry(W)) /\ h.active \in [W -> Nat]
    BY <1>1, EntryType
  <2>2. he \in Entry(W)
    BY DEF Entry
  <2> QED BY <1>1, <2>1, <2>2
<1>3. /\ h1.heap \in Seq(Entry(W)) /\ Len(h1.heap) = n /\ h1.heap[n] = he
      /\ \A k \in 1..n : k # n => k \in 1..Len(h.heap) /\ h1.heap[k] = h.heap[k]
  BY <1>1, <1>2
<1>4. /\ h1.active \in [W -> Nat] /\ h1.active[w] = n
      /\ \A v \in W : v # w => h1.active[v] = h.active[v]
  BY <1>2
<1> HIDE DEF h1
<1>5. h1 \in Heaps(W)
  <2>1. h1 = [heap |-> h1.heap, active |-> h1.active]
    BY DEF h1
  <2> QED BY <1>3, <1>4, <2>1 DEF Heaps
<1>6. he.w = w /\ he.at = t
  OBVIOUS
<1> HIDE DEF n, he
<1>7. PlacedBut(n, n, h1)
  <2> SUFFICES ASSUME NEW k \in 1..n, k # n
               PROVE  h1.active[h1.heap[k].w] = k /\ h1.heap[k].w # h1.heap[n].w
    BY DEF PlacedBut
  <2>1. k \in 1..Len(h.heap) /\ h1.heap[k] = h.heap[k]
    BY <1>3
  <2>2. h.active[h.heap[k].w] = k /\ k # 0 /\ h.heap[k].w # w
    BY <1>1, <2>1
  <2> QED BY <1>1, <1>3, <1>4, <1>6, <2>1, <2>2
<1>8. AscendsBelow(D, n, Times(n, h1), n)
  <2> SUFFICES ASSUME NEW k \in 2..n
               PROVE  /\ k # n => Times(n, h1)[HPARENT(D, k)] <= Times(n, h1)[k]
                      /\ HPARENT(D, k) # n
    BY DEF AscendsBelow
  <2>1. k \in Nat /\ k > 1 /\ k <= n
    BY <1>2
  <2>2. HPARENT(D, k) \in 1..k - 1
    BY <2>1, ParentBefore
  <2>3. HPARENT(D, k) # n /\ HPARENT(D, k) \in 1..n
    BY <1>2, <2>1, <2>2
  <2>4. ASSUME k # n PROVE Times(n, h1)[HPARENT(D, k)] <= Times(n, h1)[k]
    <3>1. k \in 1..n /\ k \in 2..Len(h.heap)
      BY <1>1, <2>1, <2>4 DEF n
    <3>2. h1.heap[k] = h.heap[k] /\ h1.heap[HPARENT(D, k)] = h.heap[HPARENT(D, k)]
      BY <1>3, <2>3, <2>4, <3>1
    <3> QED BY <1>1, <2>3, <3>1, <3>2 DEF Times
  <2> QED BY <2>3, <2>4
<1>9. n \in 1..n /\ n <= Len(h1.heap)
  BY <1>1, <1>2, <1>3 DEF n
<1>10. /\ Settled(W, n, Elements(n, h1), h1, upheap(D, h1, n))
       /\ Ascends(D, n, Times(n, upheap(D, h1, n)))
  BY <1>2, <1>5, <1>7, <1>8, <1>9, UpheapIs
<1>11. Elements(n, h1) = All(h) \cup {he}
  <2>1. \A k \in 1..Len(h.heap) : k \in 1..n /\ k # n
    BY <1>1 DEF n
  <2>2. ASSUME NEW e \in Elements(n, h1) PROVE e \in All(h) \cup {he}
    <3>1. PICK k \in 1..n : e = h1.heap[k]
      BY DEF Elements
    <3> QED BY <1>3, <3>1 DEF All, Elements
  <2>3. he \in Elements(n, h1)
    BY <1>3, <1>9 DEF Elements
  <2>4. ASSUME NEW e \in All(h) PROVE e \in Elements(n, h1)
    <3>1. PICK k \in 1..Len(h.heap) : e = h.heap[k]
      BY DEF All, Elements
    <3>2. k \in 1..n /\ h1.heap[k] = e
      BY <1>3, <2>1, <3>1
    <3> QED BY <3>2 DEF Elements
  <2> QED BY <2>2, <2>3, <2>4
<1>12. ASSUME NEW v \in W, \A e \in Elements(n, h1) : e.w # v PROVE h1.active[v] = 0
  <2>1. v # w /\ \A e \in All(h) : e.w # v
    BY <1>6, <1>11, <1>12
  <2> QED BY <1>1, <1>4, <2>1
<1>13. Sound(D, W, upheap(D, h1, n)) /\ All(upheap(D, h1, n)) = Elements(n, h1)
  BY <1>3, <1>5, <1>10, <1>12, SettledSound
<1>14. PutIn(D, h, w, t) = upheap(D, h1, n)
  BY DEF PutIn, h1, n, he
<1> QED BY <1>11, <1>13, <1>14 DEF he

LEMMA TakeOutSound ==
  ASSUME NEW D \in {2, 4}, NEW W, NEW h, Sound(D, W, h), NEW w \in W, h.active[w] # 0
  PROVE  /\ Sound(D, W, TakeOut(D, h, w)) /\ All(TakeOut(D, h, w)) = {e \in All(h) : e.w # w}
         /\ Len(TakeOut(D, h, w).heap) = Len(h.heap) - 1
<1> DEFINE N  == Len(h.heap)
           n  == N - 1
           i  == h.active[w]
           E  == {e \in All(h) : e.w # w}
           h1 == [h EXCEPT !.heap[i] = h.heap[n + 1]]
           g  == IF i <= n THEN adjustheap(D, h1, n, i) ELSE h
           r  == [heap |-> SubSeq(g.heap, 1, n), active |-> [g.active EXCEPT ![w] = 0]]
<1>1. /\ h \in Heaps(W) /\ N \in Nat
      /\ \A k \in 1..N : /\ h.active[h.heap[k].w] = k /\ h.heap[k].w \in W
                         /\ h.heap[k].at \in Int /\ h.heap[k] \in Entry(W)
      /\ \A v \in W : h.active[v] = 0 <=> \A e \in All(h) : e.w # v
      /\ \A k \in 2..N :
           HPARENT(D, k) \in 1..k - 1 /\ h.heap[HPARENT(D, k)].at <= h.heap[k].at
      /\ i \in 1..N /\ h.heap[i].w = w
  BY SoundParts
<1>2. n \in Nat /\ N \in 1..N /\ n + 1 = N /\ n <= N /\ i \in Nat /\ i # 0
  BY <1>1
<1>3. TakeOut(D, h, w) = r
  BY DEF TakeOut
<1>4. \A k \in 1..N : h.heap[k].w # w <=> k # i
  BY <1>1
<1>5. E = {h.heap[k] : k \in (1..N) \ {i}}
  BY <1>4 DEF All, Elements
<1>6. \E b \in Heaps(W) : /\ n <= Len(b.heap) /\ Settled(W, n, E, b, g) /\ Ascends(D, n, Times(n, g))
                          /\ \A v \in W : b.active[v] = h.active[v]
  <2>1. CASE ~(i <= n)
    <3>1. i = N /\ (1..N) \ {i} = 1..n
      BY <1>1, <1>2, <2>1
    <3>2. E = Elements(n, h) /\ g = h
      BY <1>5, <2>1, <3>1 DEF Elements
    <3>3. Placed(n, h)
      BY <1>1, <1>2 DEF Placed
    <3>4. Ascends(D, n, Times(n, h))
      <4> SUFFICES ASSUME NEW k \in 2..n PROVE Times(n, h)[HPARENT(D, k)] <= Times(n, h)[k]
        BY DEF Ascends
      <4>1. k \in 2..N /\ k \in 1..n
        BY <1>2
      <4>2. HPARENT(D, k) \in 1..n
        BY <1>1, <1>2, <4>1
      <4> QED BY <1>1, <4>1, <4>2 DEF Times
    <3> HIDE DEF E, g, n
    <3>5. Settled(W, n, E, h, g)
      BY <1>1, <1>2, <3>2, <3>3, PlacedSettled
    <3> QED BY <1>1, <1>2, <3>2, <3>4, <3>5
  <2>2. CASE i <= n
    <3>1. i \in 1..n /\ i \in 1..N /\ h.heap[N] \in Entry(W) /\ i # N
      BY <1>1, <1>2, <2>2
    <3>2. /\ h1 = [heap |-> [h.heap EXCEPT ![i] = h.heap[N]], active |-> h.active]
          /\ h.heap \in Seq(Entry(W)) /\ h.active \in [W -> Nat]
      <4>1. h.heap \in Seq(Entry(W)) /\ h.active \in [W -> Nat] /\ h = [heap |-> h.heap, active |-> h.active]
        BY <1>1, EntryType DEF Heaps
      <4>2. h1 = [h EXCEPT !.heap = [h.heap EXCEPT ![i] = h.heap[N]]]
        BY <1>2
      <4> HIDE DEF h1
      <4> QED BY <4>1, <4>2
    <3>3. h1 \in Heaps(W) /\ Len(h1.heap) = N /\ h1.active = h.active
      <4>1. /\ [h.heap EXCEPT ![i] = h.heap[N]] \in Seq(Entry(W))
            /\ Len([h.heap EXCEPT ![i] = h.heap[N]]) = N
        BY <3>1, <3>2
      <4> HIDE DEF h1, i, N
      <4> QED BY <3>2, <4>1 DEF Heaps
    <3>4. h1.heap[i] = h.heap[N] /\ \A k \in 1..N : k # i => h1.heap[k] = h.heap[k]
      BY <3>1, <3>2
    <3>5. g = adjustheap(D, h1, n, i)
      BY <2>2
    <3> HIDE DEF h1, g
    <3>6. PlacedBut(n, i, h1)
      <4> SUFFICES ASSUME NEW k \in 1..n, k # i
                   PROVE  h1.active[h1.heap[k].w] = k /\ h1.heap[k].w # h1.heap[i].w
        BY DEF PlacedBut
      <4>1. k \in 1..N /\ k # N
        BY <1>2
      <4>2. h1.heap[k] = h.heap[k] /\ h1.heap[i] = h.heap[N]
        BY <3>4, <4>1
      <4>3. h.active[h.heap[k].w] = k /\ h.active[h.heap[N].w] = N
        BY <1>1, <1>2, <4>1
      <4> QED BY <3>3, <4>1, <4>2, <4>3
    <3> DEFINE t == Times(n, h1)
    <3>7. \A k \in 1..n : k # i => t[k] = h.heap[k].at
      BY <1>2, <3>4 DEF Times
    <3>8. ASSUME NEW k \in 2..n
          PROVE  /\ k # i /\ HPARENT(D, k) # i => t[HPARENT(D, k)] <= t[k]
                 /\ HPARENT(D, k) = i /\ i > 1 => t[HPARENT(D, i)] <= t[k]
      <4>1. k \in 2..N /\ k \in 1..n
        BY <1>2
      <4>2. HPARENT(D, k) \in 1..k - 1 /\ h.heap[HPARENT(D, k)].at <= h.heap[k].at
        BY <1>1, <4>1
      <4>3. HPARENT(D, k) \in 1..n
        BY <1>2, <4>2
      <4>4. CASE k # i /\ HPARENT(D, k) # i
        BY <3>7, <4>1, <4>2, <4>3, <4>4
      <4>5. CASE HPARENT(D, k) = i /\ i > 1
        <5>1. i \in 2..N /\ k # i
          BY <3>1, <4>2, <4>5
        <5>2. HPARENT(D, i) \in 1..i - 1 /\ h.heap[HPARENT(D, i)].at <= h.heap[i].at
          BY <1>1, <5>1
        <5>3. HPARENT(D, i) \in 1..n /\ HPARENT(D, i) # i /\ HPARENT(D, i) \in 1..N /\ k \in 1..N
          BY <1>2, <3>1, <4>1, <5>2
        <5>4. h.heap[HPARENT(D, i)].at \in Int /\ h.heap[i].at \in Int /\ h.heap[k].at \in Int
          BY <1>1, <3>1, <5>3
        <5>5. h.heap[HPARENT(D, i)].at <= h.heap[k].at
          <6>1. h.heap[i].at <= h.heap[k].at
            BY <4>2, <4>5
          <6> QED BY <5>2, <5>4, <6>1
        <5>6. t[HPARENT(D, i)] <= t[k]
          <6> HIDE DEF t
          <6> QED BY <3>7, <4>1, <5>1, <5>3, <5>5
        <5> QED BY <4>5, <5>6
      <4> QED BY <4>4, <4>5
    <3>9. Settled(W, n, Elements(n, h1), h1, g) /\ Ascends(D, n, Times(n, g))
      <4>1. AscendsBut(D, n, t, i)
        <5> HIDE DEF t
        <5> QED BY <3>8 DEF AscendsBut
      <4> HIDE DEF n, i
      <4> QED BY <1>2, <3>1, <3>3, <3>5, <3>6, <4>1, AdjustheapIs
    <3>10. Elements(n, h1) = E
      <4>1. \A k \in 1..n : h1.heap[k] = h.heap[IF k = i THEN N ELSE k]
        BY <1>2, <3>4
      <4>2. \A k \in (1..N) \ {i} : \E m \in 1..n : k = IF m = i THEN N ELSE m
        <5> TAKE k \in (1..N) \ {i}
        <5>1. CASE k = N
          BY <3>1, <5>1
        <5>2. CASE k # N
          BY <1>2, <5>2
        <5> QED BY <5>1, <5>2
      <4>3. \A m \in 1..n : (IF m = i THEN N ELSE m) \in (1..N) \ {i}
        BY <1>2, <3>1
      <4>4. ASSUME NEW e \in Elements(n, h1) PROVE e \in E
        <5>1. PICK m \in 1..n : e = h1.heap[m]
          BY DEF Elements
        <5> QED BY <1>5, <4>1, <4>3, <5>1
      <4>5. ASSUME NEW e \in E PROVE e \in Elements(n, h1)
        <5>1. PICK k \in (1..N) \ {i} : e = h.heap[k]
          BY <1>5
        <5>2. PICK m \in 1..n : k = IF m = i THEN N ELSE m
          BY <4>2
        <5>3. h1.heap[m] = e
          BY <4>1, <5>1, <5>2
        <5> QED BY <5>3 DEF Elements
      <4> QED BY <4>4, <4>5
    <3> QED BY <1>2, <3>3, <3>9, <3>10
  <2> QED BY <2>1, <2>2
<1>7. PICK b \in Heaps(W) : /\ n <= Len(b.heap) /\ Settled(W, n, E, b, g) /\ Ascends(D, n, Times(n, g))
                            /\ \A v \in W : b.active[v] = h.active[v]
  BY <1>6
<1>8. \A e \in E : e.w # w
  OBVIOUS
<1>9. ASSUME NEW v \in W, v # w, \A e \in E : e.w # v PROVE b.active[v] = 0
  <2>1. \A e \in All(h) : e.w # v
    BY <1>9
  <2> QED BY <1>1, <1>7, <2>1
<1>10. Len(r.heap) = n
  <2> HIDE DEF g
  <2>1. Len(SubSeq(g.heap, 1, n)) = n
    <3>1. g.heap \in Seq(Entry(W)) /\ Len(g.heap) \in Nat /\ n <= Len(g.heap)
      <4>1. g \in Heaps(W) /\ Len(g.heap) = Len(b.heap)
        BY <1>7 DEF Settled
      <4> QED BY <1>7, <4>1, EntryType
    <3> QED BY <1>2, <3>1
  <2> QED BY <2>1
<1> HIDE DEF g, E, n
<1>11. Sound(D, W, r) /\ All(r) = E
  BY <1>2, <1>7, <1>8, <1>9, CutSound
<1> QED BY <1>3, <1>10, <1>11 DEF E, n

\* Another time for the watcher at i.
LEMMA PutPlaced ==
  ASSUME NEW D \in {2, 4}, NEW W, NEW h, Sound(D, W, h), NEW i \in 1..Len(h.heap),
         NEW e \in Entry(W), e.w = h.heap[i].w
  PROVE  /\ Put(h, i, e) \in Heaps(W) /\ Len(Put(h, i, e).heap) = Len(h.heap)
         /\ Put(h, i, e).heap[i] = e
         /\ \A k \in 1..Len(h.heap) : k # i => Put(h, i, e).heap[k] = h.heap[k]
         /\ PlacedBut(Len(h.heap), i, Put(h, i, e))
         /\ Elements(Len(h.heap), Put(h, i, e)) = {x \in All(h) : x.w # e.w} \cup {e}
         /\ \A v \in W : (\A x \in Elements(Len(h.heap), Put(h, i, e)) : x.w # v) =>
              Put(h, i, e).active[v] = 0
<1> DEFINE g == Put(h, i, e)
           N == Len(h.heap)
           F == {x \in All(h) : x.w # e.w} \cup {e}
<1>1. /\ h \in Heaps(W) /\ N \in Nat
      /\ \A k \in 1..N : h.active[h.heap[k].w] = k /\ h.heap[k].w \in W
      /\ \A v \in W : h.active[v] = 0 <=> \A x \in All(h) : x.w # v
  BY SoundParts
<1>2. /\ g \in Heaps(W) /\ Len(g.heap) = N
      /\ g.heap[i] = e /\ g.active[e.w] = i
      /\ \A k \in 1..N : k # i => g.heap[k] = h.heap[k]
      /\ \A v \in W : v # e.w => g.active[v] = h.active[v]
  BY <1>1, PutIs
<1> HIDE DEF g
<1>3. \A k \in 1..N : k # i <=> h.heap[k].w # e.w
  BY <1>1
<1>4. PlacedBut(N, i, g)
  <2> SUFFICES ASSUME NEW k \in 1..N, k # i
               PROVE  g.active[g.heap[k].w] = k /\ g.heap[k].w # g.heap[i].w
    BY DEF PlacedBut
  <2> QED BY <1>1, <1>2, <1>3
<1>5. Elements(N, g) = F
  <2>1. ASSUME NEW x \in Elements(N, g) PROVE x \in F
    <3>1. PICK k \in 1..N : x = g.heap[k]
      BY DEF Elements
    <3>2. CASE k = i
      BY <1>2, <3>1, <3>2
    <3>3. CASE k # i
      BY <1>2, <1>3, <3>1, <3>3 DEF All, Elements
    <3> QED BY <3>2, <3>3
  <2>2. ASSUME NEW x \in F PROVE x \in Elements(N, g)
    <3>1. CASE x = e
      BY <1>2, <3>1 DEF Elements
    <3>2. CASE x # e
      <4>1. PICK k \in 1..N : x = h.heap[k] /\ h.heap[k].w # e.w
        BY <3>2 DEF All, Elements
      <4>2. x = g.heap[k]
        BY <1>2, <1>3, <4>1
      <4> QED BY <4>2 DEF Elements
    <3> QED BY <3>1, <3>2
  <2> QED BY <2>1, <2>2
<1>6. ASSUME NEW v \in W, \A x \in Elements(N, g) : x.w # v PROVE g.active[v] = 0
  <2>1. v # e.w
    BY <1>5, <1>6
  <2>2. ASSUME NEW x \in All(h) PROVE x.w # v
    <3>1. CASE x.w = e.w
      BY <2>1, <3>1
    <3>2. CASE x.w # e.w
      BY <1>5, <1>6, <3>2
    <3> QED BY <3>1, <3>2
  <2> QED BY <1>1, <1>2, <2>1, <2>2
<1> QED BY <1>2, <1>4, <1>5, <1>6 DEF g

LEMMA ResetSound ==
  ASSUME NEW D \in {2, 4}, NEW W, NEW h, Sound(D, W, h), NEW i \in 1..Len(h.heap),
         NEW e \in Entry(W), e.w = h.heap[i].w, NEW g,
         g = adjustheap(D, Put(h, i, e), Len(h.heap), i)
         \/ (i = 1 /\ g = downheap(D, Put(h, i, e), Len(h.heap), i))
  PROVE  /\ Sound(D, W, g) /\ All(g) = {x \in All(h) : x.w # e.w} \cup {e}
         /\ Len(g.heap) = Len(h.heap)
<1> DEFINE N == Len(h.heap)
           b == Put(h, i, e)
           t == Times(N, b)
           F == {x \in All(h) : x.w # e.w} \cup {e}
<1>1. /\ h \in Heaps(W) /\ N \in Nat /\ \A k \in 1..N : h.heap[k].at \in Int
      /\ \A k \in 2..N :
           HPARENT(D, k) \in 1..k - 1 /\ h.heap[HPARENT(D, k)].at <= h.heap[k].at
  BY SoundParts
<1>2. /\ b \in Heaps(W) /\ Len(b.heap) = N /\ b.heap[i] = e
      /\ \A k \in 1..N : k # i => b.heap[k] = h.heap[k]
      /\ PlacedBut(N, i, b) /\ Elements(N, b) = F
      /\ \A v \in W : (\A x \in Elements(N, b) : x.w # v) => b.active[v] = 0
  BY PutPlaced
<1> HIDE DEF b, F
<1>3. \A k \in 1..N : k # i => t[k] = h.heap[k].at
  BY <1>2 DEF Times
<1>4. ASSUME NEW k \in 2..N
      PROVE  /\ k # i /\ HPARENT(D, k) # i => t[HPARENT(D, k)] <= t[k]
             /\ HPARENT(D, k) = i /\ i > 1 => t[HPARENT(D, i)] <= t[k]
  <2> HIDE DEF t
  <2>1. k \in 1..N
    BY <1>1
  <2>2. HPARENT(D, k) \in 1..k - 1 /\ h.heap[HPARENT(D, k)].at <= h.heap[k].at
    BY <1>1
  <2>3. HPARENT(D, k) \in 1..N
    BY <1>1, <2>2
  <2>4. CASE k # i /\ HPARENT(D, k) # i
    BY <1>3, <2>1, <2>2, <2>3, <2>4
  <2>5. CASE HPARENT(D, k) = i /\ i > 1
    <3>1. i \in 2..N /\ k # i
      BY <1>1, <2>2, <2>5
    <3>2. HPARENT(D, i) \in 1..i - 1 /\ h.heap[HPARENT(D, i)].at <= h.heap[i].at
      BY <1>1, <3>1
    <3>3. HPARENT(D, i) \in 1..N /\ HPARENT(D, i) # i
      BY <1>1, <3>2
    <3>4. h.heap[HPARENT(D, i)].at \in Int /\ h.heap[i].at \in Int /\ h.heap[k].at \in Int
      BY <1>1, <2>1, <3>3
    <3>5. h.heap[i].at <= h.heap[k].at
      BY <2>2, <2>5
    <3>6. h.heap[HPARENT(D, i)].at <= h.heap[k].at
      BY <3>2, <3>4, <3>5
    <3>7. t[HPARENT(D, i)] <= t[k]
      BY <1>3, <2>1, <3>1, <3>3, <3>6
    <3> QED BY <2>5, <3>7
  <2> QED BY <2>4, <2>5
<1>5. Settled(W, N, F, b, g) /\ Ascends(D, N, Times(N, g))
  <2>1. CASE g = adjustheap(D, b, N, i)
    <3>1. AscendsBut(D, N, t, i)
      <4> HIDE DEF t
      <4> QED BY <1>4 DEF AscendsBut
    <3> QED BY <1>1, <1>2, <2>1, <3>1, AdjustheapIs
  <2>2. CASE i = 1 /\ g = downheap(D, b, N, i)
    <3>1. AscendsAbove(D, N, t, i)
      <4> SUFFICES ASSUME NEW k \in 2..N, HPARENT(D, k) # i PROVE t[HPARENT(D, k)] <= t[k]
        BY <2>2 DEF AscendsAbove
      <4> QED BY <1>4, <2>2
    <3> QED BY <1>1, <1>2, <2>2, <3>1, DownheapIs
  <2> QED BY <2>1, <2>2 DEF b
<1>6. Sound(D, W, g) /\ All(g) = F
  <2>1. Settled(W, Len(b.heap), F, b, g) /\ Ascends(D, Len(b.heap), Times(Len(b.heap), g))
    BY <1>2, <1>5
  <2>2. b \in Heaps(W) /\ \A v \in W : (\A x \in F : x.w # v) => b.active[v] = 0
    BY <1>2
  <2> QED BY <2>1, <2>2, SettledSound
<1> QED BY <1>2, <1>5, <1>6 DEF Settled, F

\* New times for everybody.
LEMMA CachedIs ==
  ASSUME NEW D \in {2, 4}, NEW W, NEW h, Sound(D, W, h), NEW times, \A v \in W : times[v] \in Int
  PROVE  /\ Cached(h, times) \in Heaps(W) /\ Len(Cached(h, times).heap) = Len(h.heap)
         /\ Cached(h, times).active = h.active /\ Placed(Len(h.heap), Cached(h, times))
         /\ \A k \in 1..Len(h.heap) :
              Cached(h, times).heap[k].w = h.heap[k].w /\ Cached(h, times).heap[k].at = times[h.heap[k].w]
         /\ All(Cached(h, times)) = {[w |-> x.w, at |-> times[x.w]] : x \in All(h)}
<1> DEFINE N   == Len(h.heap)
           seq == [k \in DOMAIN h.heap |-> [w |-> h.heap[k].w, at |-> times[h.heap[k].w]]]
           g   == Cached(h, times)
<1>1. /\ h \in Heaps(W) /\ N \in Nat
      /\ \A k \in 1..N : h.active[h.heap[k].w] = k /\ h.heap[k].w \in W
  BY SoundParts
<1>2. h.heap \in Seq(Entry(W)) /\ DOMAIN h.heap = 1..N /\ h.active \in [W -> Nat]
  BY <1>1, EntryType
<1>3. g = [heap |-> seq, active |-> h.active]
  <2>1. h = [heap |-> h.heap, active |-> h.active]
    BY <1>1 DEF Heaps
  <2>2. g = [h EXCEPT !.heap = seq]
    BY DEF Cached
  <2> HIDE DEF g, seq
  <2> QED BY <2>1, <2>2
<1>4. \A k \in 1..N : [w |-> h.heap[k].w, at |-> times[h.heap[k].w]] \in Entry(W)
  BY <1>1 DEF Entry
<1>5. seq \in [1..N -> Entry(W)]
  BY <1>2, <1>4
<1>6. seq \in Seq(Entry(W)) /\ Len(seq) = N
  <2> HIDE DEF seq, N
  <2> QED BY <1>1, <1>5
<1>7. \A k \in 1..N : /\ seq[k] = [w |-> h.heap[k].w, at |-> times[h.heap[k].w]]
                      /\ seq[k].w = h.heap[k].w /\ seq[k].at = times[h.heap[k].w]
  BY <1>2
<1> HIDE DEF seq, g
<1>8. /\ g \in Heaps(W) /\ Len(g.heap) = N /\ g.active = h.active
      /\ \A k \in 1..N : /\ g.heap[k] = [w |-> h.heap[k].w, at |-> times[h.heap[k].w]]
                         /\ g.heap[k].w = h.heap[k].w /\ g.heap[k].at = times[h.heap[k].w]
  BY <1>2, <1>3, <1>6, <1>7 DEF Heaps
<1>9. \A k \in 1..N : g.heap[k].w = h.heap[k].w /\ g.heap[k].at = times[h.heap[k].w]
  BY <1>8
<1>10. Placed(N, g)
  BY <1>1, <1>8, <1>9 DEF Placed
<1>11. All(g) = {[w |-> x.w, at |-> times[x.w]] : x \in All(h)}
  <2>1. ASSUME NEW e \in All(g) PROVE \E x \in All(h) : e = [w |-> x.w, at |-> times[x.w]]
    <3>1. PICK k \in 1..N : e = g.heap[k]
      BY <1>8 DEF All, Elements
    <3> QED BY <1>8, <3>1 DEF All, Elements
  <2>2. ASSUME NEW x \in All(h) PROVE [w |-> x.w, at |-> times[x.w]] \in All(g)
    <3>1. PICK k \in 1..N : x = h.heap[k]
      BY DEF All, Elements
    <3>2. g.heap[k] = [w |-> x.w, at |-> times[x.w]]
      BY <1>8, <3>1
    <3> QED BY <1>8, <3>2 DEF All, Elements
  <2> QED BY <2>1, <2>2
<1> QED BY <1>8, <1>9, <1>10, <1>11 DEF g

LEMMA ShiftedSound ==
  ASSUME NEW D \in {2, 4}, NEW W, NEW h, Sound(D, W, h), NEW times, \A v \in W : times[v] \in Int,
         NEW by \in Int, \A x \in All(h) : times[x.w] = x.at + by
  PROVE  Sound(D, W, Cached(h, times))
<1> DEFINE N == Len(h.heap)
           g == Cached(h, times)
<1>1. /\ h \in Heaps(W) /\ N \in Nat
      /\ \A k \in 1..N : h.heap[k].at \in Int
      /\ \A v \in W : h.active[v] # 0 => h.active[v] \in 1..N /\ h.heap[h.active[v]].w = v
      /\ \A k \in 2..N :
           HPARENT(D, k) \in 1..k - 1 /\ h.heap[HPARENT(D, k)].at <= h.heap[k].at
  BY SoundParts
<1>2. /\ g \in Heaps(W) /\ Len(g.heap) = N /\ g.active = h.active /\ Placed(N, g)
      /\ \A k \in 1..N : g.heap[k].w = h.heap[k].w /\ g.heap[k].at = times[h.heap[k].w]
  BY CachedIs
<1> HIDE DEF g
<1>3. \A k \in 1..N : g.heap[k].at = h.heap[k].at + by
  BY <1>2 DEF All, Elements
<1>4. Ascends(D, N, Times(N, g))
  <2> SUFFICES ASSUME NEW k \in 2..N PROVE Times(N, g)[HPARENT(D, k)] <= Times(N, g)[k]
    BY DEF Ascends
  <2>1. HPARENT(D, k) \in 1..k - 1 /\ h.heap[HPARENT(D, k)].at <= h.heap[k].at
    BY <1>1
  <2>2. HPARENT(D, k) \in 1..N /\ k \in 1..N
    BY <1>1, <2>1
  <2>3. g.heap[HPARENT(D, k)].at <= g.heap[k].at
    <3>1. g.heap[HPARENT(D, k)].at = h.heap[HPARENT(D, k)].at + by /\ g.heap[k].at = h.heap[k].at + by
      BY <1>3, <2>2
    <3>2. h.heap[HPARENT(D, k)].at \in Int /\ h.heap[k].at \in Int
      BY <1>1, <2>2
    <3> QED BY <2>1, <3>1, <3>2
  <2> QED BY <2>2, <2>3 DEF Times
<1> QED BY <1>1, <1>2, <1>4 DEF Sound, g

LEMMA ReheapSound ==
  ASSUME NEW D \in {2, 4}, NEW W, NEW h, Sound(D, W, h), NEW times, \A v \in W : times[v] \in Int
  PROVE  /\ Sound(D, W, reheap(D, Cached(h, times), Len(h.heap)))
         /\ All(reheap(D, Cached(h, times), Len(h.heap))) = {[w |-> x.w, at |-> times[x.w]] : x \in All(h)}
         /\ Len(reheap(D, Cached(h, times), Len(h.heap)).heap) = Len(h.heap)
<1> DEFINE N == Len(h.heap)
           b == Cached(h, times)
           g == reheap(D, b, N)
<1>1. /\ h \in Heaps(W) /\ N \in Nat
      /\ \A v \in W : h.active[v] # 0 => h.active[v] \in 1..N /\ h.heap[h.active[v]].w = v
  BY SoundParts
<1>2. /\ b \in Heaps(W) /\ Len(b.heap) = N /\ b.active = h.active /\ Placed(N, b)
      /\ \A k \in 1..N : b.heap[k].w = h.heap[k].w
      /\ All(b) = {[w |-> x.w, at |-> times[x.w]] : x \in All(h)}
  BY CachedIs
<1> HIDE DEF b
<1>0. All(b) = Elements(N, b)
  BY <1>2 DEF All
<1>3. Settled(W, N, All(b), b, g) /\ Ascends(D, N, Times(N, g))
  <2>1. b \in Heaps(W) /\ N \in Nat /\ N <= Len(b.heap) /\ Placed(N, b)
    BY <1>1, <1>2
  <2> HIDE DEF N
  <2>2. Settled(W, N, Elements(N, b), b, reheap(D, b, N)) /\ Ascends(D, N, Times(N, reheap(D, b, N)))
    BY <2>1, ReheapIs
  <2> QED BY <1>0, <2>2
<1>4. ASSUME NEW v \in W, \A e \in All(b) : e.w # v PROVE b.active[v] = 0
  <2>1. \A k \in 1..N : h.heap[k].w # v
    BY <1>2, <1>4 DEF All, Elements
  <2> QED BY <1>1, <1>2, <2>1
<1>5. Sound(D, W, g) /\ All(g) = All(b)
  <2>1. Settled(W, Len(b.heap), All(b), b, g) /\ Ascends(D, Len(b.heap), Times(Len(b.heap), g))
    BY <1>2, <1>3
  <2>2. b \in Heaps(W)
    BY <1>2
  <2> HIDE DEF g
  <2> QED BY <1>4, <2>1, <2>2, SettledSound
<1>6. Len(g.heap) = N
  BY <1>2, <1>3 DEF Settled
<1> QED BY <1>2, <1>5, <1>6 DEF b

-----------------------------------------------------------------------------
(* Heaps that go by the times of their watchers *)

Running(W, h) == {v \in W : h.active[v] # 0}

Kept(D, W, h, times) ==
  /\ Sound(D, W, h)
  /\ \A e \in All(h) : e.at = times[e.w]

LEMMA RunningIs ==
  ASSUME NEW D \in {2, 4}, NEW W, NEW h, Sound(D, W, h)
  PROVE  /\ All(h) \subseteq Entry(W) /\ Running(W, h) = {e.w : e \in All(h)}
         /\ Len(h.heap) = 0 => Running(W, h) = {}
<1>1. /\ h \in Heaps(W) /\ Len(h.heap) \in Nat
      /\ \A k \in 1..Len(h.heap) : h.active[h.heap[k].w] = k /\ h.heap[k] \in Entry(W)
      /\ \A v \in W : h.active[v] = 0 <=> \A e \in All(h) : e.w # v
      /\ \A v \in W : h.active[v] # 0 => h.active[v] \in 1..Len(h.heap)
  BY SoundParts
<1>2. All(h) \subseteq Entry(W)
  BY <1>1 DEF All, Elements
<1>3. \A e \in All(h) : e.w \in W
  BY <1>2 DEF Entry
<1>4. Running(W, h) = {e.w : e \in All(h)}
  BY <1>1, <1>3 DEF Running
<1> QED BY <1>1, <1>2, <1>4 DEF Running

LEMMA KeptParts ==
  ASSUME NEW D \in {2, 4}, NEW W, NEW h, NEW times, Kept(D, W, h, times)
  PROVE  /\ h \in Heaps(W) /\ HeapVerified(D, h, times) /\ Len(h.heap) \in Nat
         /\ \A v \in Running(W, h) :
              h.heap # <<>> /\ h.heap[1].at <= times[v] /\ times[v] \in Int /\ h.heap[1].at \in Int
         /\ h.heap # <<>> => /\ h.heap[1].w \in Running(W, h) /\ h.active[h.heap[1].w] = 1
                             /\ h.heap[1].at = times[h.heap[1].w] /\ h.heap[1] \in Entry(W)
                             /\ Len(h.heap) > 0
<1> DEFINE N == Len(h.heap)
<1>1. /\ h \in Heaps(W) /\ N \in Nat
      /\ \A k \in 1..N : /\ h.active[h.heap[k].w] = k /\ h.heap[k].w \in W
                         /\ h.heap[k].at \in Int /\ h.heap[k] \in Entry(W)
      /\ \A v \in W : h.active[v] # 0 => h.active[v] \in 1..N /\ h.heap[h.active[v]].w = v
      /\ \A k \in 2..N :
           HPARENT(D, k) \in 1..k - 1 /\ h.heap[HPARENT(D, k)].at <= h.heap[k].at
  BY SoundParts DEF Kept
<1>2. \A k \in 1..N : h.heap[k].at = times[h.heap[k].w]
  BY DEF Kept, All, Elements
<1>3. h.heap \in Seq(Entry(W)) /\ DOMAIN h.heap = 1..N
  BY <1>1, EntryType
<1>4. HeapVerified(D, h, times)
  <2> SUFFICES ASSUME NEW k \in 1..N
               PROVE  /\ h.active[h.heap[k].w] = k
                      /\ k = 1 \/ h.heap[HPARENT(D, k)].at <= h.heap[k].at
                      /\ h.heap[k].at = times[h.heap[k].w]
    BY <1>3 DEF HeapVerified
  <2>1. k = 1 \/ k \in 2..N
    BY <1>1
  <2> QED BY <1>1, <1>2, <2>1
<1>5. \A k \in 1..N : h.heap[1].at <= h.heap[k].at
  <2> DEFINE t == Times(N, h)
  <2>1. \A k \in 1..N : t[k] = h.heap[k].at
    BY DEF Times
  <2>2. t \in [1..N -> Int] /\ Ascends(D, N, t)
    BY <1>1 DEF Times, Kept, Sound
  <2> HIDE DEF t, N
  <2>3. \A k \in 1..N : t[1] <= t[k]
    BY <1>1, <2>2, RootLeast
  <2>4. \A k \in 1..N : 1 \in 1..N
    BY <1>1
  <2> QED BY <2>1, <2>3, <2>4
<1>6. ASSUME NEW v \in Running(W, h)
      PROVE  h.heap # <<>> /\ h.heap[1].at <= times[v] /\ times[v] \in Int /\ h.heap[1].at \in Int
  <2>1. v \in W /\ h.active[v] \in 1..N /\ h.heap[h.active[v]].w = v
    BY <1>1 DEF Running
  <2>2. 1 \in 1..N
    BY <1>1, <2>1
  <2>3. h.heap # <<>>
    BY <1>3, <2>2
  <2>4. h.heap[h.active[v]].at = times[v]
    BY <1>2, <2>1
  <2> QED BY <1>1, <1>5, <2>1, <2>2, <2>3, <2>4
<1>7. ASSUME h.heap # <<>>
      PROVE  /\ h.heap[1].w \in Running(W, h) /\ h.active[h.heap[1].w] = 1
             /\ h.heap[1].at = times[h.heap[1].w] /\ h.heap[1] \in Entry(W) /\ N > 0
  <2>1. N # 0
    BY <1>3, <1>7
  <2>2. 1 \in 1..N /\ N > 0
    BY <1>1, <2>1
  <2> QED BY <1>1, <1>2, <2>2 DEF Running
<1> QED BY <1>1, <1>4, <1>6, <1>7

LEMMA EmptyKept ==
  ASSUME NEW D \in {2, 4}, NEW W, NEW times
  PROVE  Kept(D, W, EmptyHeap(W), times) /\ Running(W, EmptyHeap(W)) = {}
<1> DEFINE h == EmptyHeap(W)
<1>1. h.heap = <<>> /\ h.active = [v \in W |-> 0] /\ h = [heap |-> h.heap, active |-> h.active]
  BY DEF EmptyHeap
<1> HIDE DEF h
<1>2. Len(h.heap) = 0 /\ h \in Heaps(W)
  <2>1. h.heap \in Seq(Entry(W)) /\ Len(h.heap) = 0
    BY <1>1
  <2>2. h.active \in [W -> Nat]
    BY <1>1
  <2> QED BY <1>1, <2>1, <2>2 DEF Heaps
<1>3. All(h) = {}
  BY <1>2 DEF All, Elements
<1> QED BY <1>1, <1>2, <1>3 DEF h, Kept, Sound, Placed, Ascends, Running

LEMMA PutInKept ==
  ASSUME NEW D \in {2, 4}, NEW W, NEW h, NEW times, Kept(D, W, h, times),
         NEW w \in W, h.active[w] = 0, NEW t \in Int,
         NEW new, new[w] = t, \A v \in W : v # w => new[v] = times[v]
  PROVE  /\ Kept(D, W, PutIn(D, h, w, t), new)
         /\ Running(W, PutIn(D, h, w, t)) = Running(W, h) \cup {w}
<1> DEFINE g == PutIn(D, h, w, t)
           e == [w |-> w, at |-> t]
<1>1. Sound(D, W, g) /\ All(g) = All(h) \cup {e}
  BY PutInSound DEF Kept
<1>2. e.w = w /\ e.at = t
  OBVIOUS
<1> HIDE DEF g, e
<1>3. All(h) \subseteq Entry(W) /\ Running(W, h) = {x.w : x \in All(h)}
  BY RunningIs DEF Kept
<1>4. Running(W, g) = {x.w : x \in All(g)}
  BY <1>1, RunningIs
<1>5. ASSUME NEW x \in All(h) PROVE x.at = new[x.w]
  <2>1. x.w \in Running(W, h)
    BY <1>3
  <2>2. x.w \in W /\ x.w # w
    BY <2>1 DEF Running
  <2> QED BY <2>2 DEF Kept
<1>6. Kept(D, W, g, new)
  BY <1>1, <1>2, <1>5 DEF Kept
<1>7. Running(W, g) = Running(W, h) \cup {w}
  BY <1>1, <1>2, <1>3, <1>4
<1> QED BY <1>6, <1>7 DEF g

LEMMA TakeOutKept ==
  ASSUME NEW D \in {2, 4}, NEW W, NEW h, NEW times, Kept(D, W, h, times),
         NEW w \in W, h.active[w] # 0,
         NEW new, \A v \in W : v # w => new[v] = times[v]
  PROVE  /\ Kept(D, W, TakeOut(D, h, w), new)
         /\ Running(W, TakeOut(D, h, w)) = Running(W, h) \ {w}
<1> DEFINE g == TakeOut(D, h, w)
<1>1. Sound(D, W, g) /\ All(g) = {x \in All(h) : x.w # w}
  BY TakeOutSound DEF Kept
<1> HIDE DEF g
<1>2. All(h) \subseteq Entry(W) /\ Running(W, h) = {x.w : x \in All(h)}
  BY RunningIs DEF Kept
<1>3. Running(W, g) = {x.w : x \in All(g)}
  BY <1>1, RunningIs
<1>4. ASSUME NEW x \in All(g) PROVE x.at = new[x.w]
  <2>1. x \in All(h) /\ x.w # w
    BY <1>1
  <2>2. x.w \in W
    BY <1>2, <2>1 DEF Entry
  <2> QED BY <2>1, <2>2 DEF Kept
<1>5. Running(W, g) = Running(W, h) \ {w}
  BY <1>1, <1>2, <1>3
<1> QED BY <1>1, <1>4, <1>5 DEF Kept, g

\* w is set for the time t: the only one of new that is not as in times.
Retimed(W, times, w, t, new) == new[w] = t /\ \A v \in W : v # w => new[v] = times[v]

\* The heap after that; the first watcher only sinks if it may.
ResetTo(D, h, w, t, g) ==
  LET i == h.active[w]
      e == [w |-> w, at |-> t]
  IN  \/ g = adjustheap(D, Put(h, i, e), Len(h.heap), i)
      \/ i = 1 /\ g = downheap(D, Put(h, i, e), Len(h.heap), i)

LEMMA ResetKept ==
  ASSUME NEW D \in {2, 4}, NEW W, NEW h, NEW times, Kept(D, W, h, times),
         NEW w \in Running(W, h), NEW t \in Int, NEW g, ResetTo(D, h, w, t, g),
         NEW new, Retimed(W, times, w, t, new)
  PROVE  Kept(D, W, g, new) /\ Running(W, g) = Running(W, h) /\ Len(g.heap) = Len(h.heap)
<1> DEFINE e == [w |-> w, at |-> t]
           i == h.active[w]
<1>1. e.w = w /\ e.at = t /\ w \in W /\ e \in Entry(W)
  BY DEF Running, Entry
<1>8. new[w] = t /\ \A v \in W : v # w => new[v] = times[v]
  BY DEF Retimed
<1>2. i \in 1..Len(h.heap) /\ h.heap[i].w = w
  BY SoundParts DEF Kept, Running
<1>3. /\ Sound(D, W, g) /\ All(g) = {x \in All(h) : x.w # e.w} \cup {e}
      /\ Len(g.heap) = Len(h.heap)
  <2>1. \/ g = adjustheap(D, Put(h, i, e), Len(h.heap), i)
        \/ i = 1 /\ g = downheap(D, Put(h, i, e), Len(h.heap), i)
    BY DEF ResetTo
  <2> HIDE DEF e, i
  <2> QED BY <1>1, <1>2, <2>1, ResetSound DEF Kept
<1> HIDE DEF e
<1>4. All(h) \subseteq Entry(W) /\ Running(W, h) = {x.w : x \in All(h)}
  BY RunningIs DEF Kept
<1>5. Running(W, g) = {x.w : x \in All(g)}
  BY <1>3, RunningIs
<1>6. ASSUME NEW x \in All(g) PROVE x.at = new[x.w]
  <2>1. CASE x = e
    BY <1>1, <1>8, <2>1
  <2>2. CASE x # e
    <3>1. x \in All(h) /\ x.w # w
      BY <1>1, <1>3, <2>2
    <3>2. x.w \in W
      BY <1>4, <3>1 DEF Entry
    <3> QED BY <1>8, <3>1, <3>2 DEF Kept
  <2> QED BY <2>1, <2>2
<1>7. Running(W, g) = Running(W, h)
  <2>1. ASSUME NEW v \in Running(W, g) PROVE v \in Running(W, h)
    BY <1>1, <1>3, <1>4, <1>5
  <2>2. ASSUME NEW v \in Running(W, h) PROVE v \in Running(W, g)
    <3>1. PICK x \in All(h) : v = x.w
      BY <1>4
    <3>2. CASE v = w
      BY <1>1, <1>3, <1>5, <3>2
    <3>3. CASE v # w
      <4>1. x \in All(g)
        BY <1>1, <1>3, <3>1, <3>3
      <4> QED BY <1>5, <3>1, <4>1
    <3> QED BY <3>2, <3>3
  <2> QED BY <2>1, <2>2
<1> QED BY <1>3, <1>6, <1>7 DEF Kept

LEMMA ShiftedKept ==
  ASSUME NEW D \in {2, 4}, NEW W, NEW h, NEW times, Kept(D, W, h, times),
         NEW new, \A v \in W : new[v] \in Int, NEW by \in Int,
         \A v \in Running(W, h) : new[v] = times[v] + by
  PROVE  /\ Kept(D, W, Cached(h, new), new) /\ Running(W, Cached(h, new)) = Running(W, h)
         /\ Len(Cached(h, new).heap) = Len(h.heap)
<1> DEFINE g == Cached(h, new)
<1>1. Running(W, h) = {x.w : x \in All(h)}
  BY RunningIs DEF Kept
<1>2. \A x \in All(h) : new[x.w] = x.at + by
  BY <1>1 DEF Kept
<1>3. Sound(D, W, g)
  BY <1>2, ShiftedSound DEF Kept
<1>4. /\ g.active = h.active /\ All(g) = {[w |-> x.w, at |-> new[x.w]] : x \in All(h)}
      /\ Len(g.heap) = Len(h.heap)
  BY CachedIs DEF Kept
<1> HIDE DEF g
<1>5. \A x \in All(g) : x.at = new[x.w]
  BY <1>4
<1> QED BY <1>3, <1>4, <1>5 DEF Kept, Running, g

LEMMA ReheapKept ==
  ASSUME NEW D \in {2, 4}, NEW W, NEW h, NEW times, Kept(D, W, h, times),
         NEW new, \A v \in W : new[v] \in Int
  PROVE  /\ Kept(D, W, reheap(D, Cached(h, new), Len(h.heap)), new)
         /\ Running(W, reheap(D, Cached(h, new), Len(h.heap))) = Running(W, h)
         /\ Len(reheap(D, Cached(h, new), Len(h.heap)).heap) = Len(h.heap)
<1> DEFINE g == reheap(D, Cached(h, new), Len(h.heap))
<1>1. /\ Sound(D, W, g) /\ All(g) = {[w |-> x.w, at |-> new[x.w]] : x \in All(h)}
      /\ Len(g.heap) = Len(h.heap)
  BY ReheapSound DEF Kept
<1> HIDE DEF g
<1>2. Running(W, h) = {x.w : x \in All(h)}
  BY RunningIs DEF Kept
<1>3. Running(W, g) = {x.w : x \in All(g)}
  BY <1>1, RunningIs
<1>4. \A x \in All(g) : x.at = new[x.w]
  BY <1>1
<1>5. Running(W, g) = Running(W, h)
  <2>1. {e.w : e \in All(g)} = {x.w : x \in All(h)}
    <3>1. ASSUME NEW x \in All(h) PROVE \E e \in All(g) : e.w = x.w
      <4>1. [w |-> x.w, at |-> new[x.w]] \in All(g) /\ [w |-> x.w, at |-> new[x.w]].w = x.w
        BY <1>1
      <4> QED BY <4>1
    <3>2. ASSUME NEW e \in All(g) PROVE \E x \in All(h) : e.w = x.w
      BY <1>1
    <3> QED BY <3>1, <3>2
  <2> QED BY <1>2, <1>3, <2>1
<1> QED BY <1>1, <1>4, <1>5 DEF Kept, g

-----------------------------------------------------------------------------
(* The queue, with one priority *)

LEMMA QueueType ==
  ASSUME NEW W, NEW u \in Queues({0}, W)
  PROVE  /\ Len(u.list[0]) \in Nat /\ DOMAIN u.list[0] = 1..Len(u.list[0])
         /\ u.list[0] \in Seq([w : W \cup {NoWatcher}, events : SUBSET Revents])
         /\ DOMAIN u.list = {0} /\ u.pending \in [W -> Nat] /\ DOMAIN u.pending = W
         /\ \A i \in 1..Len(u.list[0]) : u.list[0][i].w \in W \cup {NoWatcher}
         /\ u = [list |-> u.list, pending |-> u.pending] /\ u.list = [p \in {0} |-> u.list[0]]
<1> DEFINE Events == [w : W \cup {NoWatcher}, events : SUBSET Revents]
<1>1. u.list \in [{0} -> Seq(Events)] /\ u.pending \in [W -> Nat]
      /\ u = [list |-> u.list, pending |-> u.pending]
  BY DEF Queues
<1>2. u.list[0] \in Seq(Events)
  BY <1>1
<1>3. \A i \in 1..Len(u.list[0]) : u.list[0][i] \in Events
  <2> HIDE DEF Events
  <2> QED BY <1>2
<1>4. u.list = [p \in {0} |-> u.list[0]]
  BY <1>1
<1>5. Len(u.list[0]) \in Nat /\ DOMAIN u.list[0] = 1..Len(u.list[0])
  <2> HIDE DEF Events
  <2> QED BY <1>2
<1> QED BY <1>1, <1>2, <1>3, <1>4, <1>5

\* w was fed to u.
FedOne(W, u, w, g) ==
  /\ g \in Queues({0}, W) /\ Len(g.list[0]) = Len(u.list[0]) + 1
  /\ g.list[0][Len(u.list[0]) + 1].w = w
  /\ \A i \in 1..Len(u.list[0]) : g.list[0][i] = u.list[0][i]
  /\ g.pending[w] = Len(u.list[0]) + 1
  /\ \A v \in W : v # w => g.pending[v] = u.pending[v]

LEMMA FeedIs ==
  ASSUME NEW W, NEW u \in Queues({0}, W), NEW prio, NEW w \in W, prio[w] = 0,
         NEW revents \in SUBSET Revents, u.pending[w] = 0
  PROVE  FedOne(W, u, w, FeedEvent(u, prio, w, revents))
<1> DEFINE Events == [w : W \cup {NoWatcher}, events : SUBSET Revents]
           e   == [w |-> w, events |-> revents]
           seq == Append(u.list[0], e)
           L   == Len(u.list[0])
           g   == FeedEvent(u, prio, w, revents)
<1>1. /\ L \in Nat /\ u.list[0] \in Seq(Events) /\ u.pending \in [W -> Nat]
      /\ u = [list |-> u.list, pending |-> u.pending] /\ u.list = [p \in {0} |-> u.list[0]]
  BY QueueType
<1>2. g = [list    |-> [u.list EXCEPT ![0] = Append(@, e)],
           pending |-> [u.pending EXCEPT ![w] = Len(u.list[0]) + 1]]
  <2>1. g = [u EXCEPT !.list[0] = Append(@, e), !.pending[w] = Len(u.list[0]) + 1]
    BY DEF FeedEvent
  <2> HIDE DEF g, e
  <2> QED BY <1>1, <2>1
<1>3. e \in Events /\ e.w = w
  OBVIOUS
<1> HIDE DEF e, Events
<1>4. seq \in Seq(Events) /\ Len(seq) = L + 1 /\ seq[L + 1] = e /\ \A i \in 1..L : seq[i] = u.list[0][i]
  BY <1>1, <1>3
<1> HIDE DEF seq
<1>5. [u.list EXCEPT ![0] = Append(@, e)] = [p \in {0} |-> seq]
  BY <1>1 DEF seq
<1> HIDE DEF g
<1>6. g.list = [p \in {0} |-> seq] /\ g.list[0] = seq /\ g = [list |-> g.list, pending |-> g.pending]
  BY <1>2, <1>5
<1>7. /\ g.pending \in [W -> Nat] /\ g.pending[w] = L + 1
      /\ \A v \in W : v # w => g.pending[v] = u.pending[v]
  BY <1>1, <1>2
<1>8. g \in Queues({0}, W)
  <2>1. g.list \in [{0} -> Seq(Events)]
    BY <1>4, <1>6
  <2> QED BY <1>6, <1>7, <2>1 DEF Queues, Events
<1> QED BY <1>3, <1>4, <1>6, <1>7, <1>8 DEF g, FedOne

\* The first k of ws were fed to u.
Fed(W, u, ws, k, r) ==
  /\ r \in Queues({0}, W) /\ Len(r.list[0]) = Len(u.list[0]) + k
  /\ \A i \in 1..Len(u.list[0]) : r.list[0][i] = u.list[0][i]
  /\ \A j \in 1..k : /\ r.list[0][Len(u.list[0]) + j].w = ws[j]
                     /\ r.pending[ws[j]] = Len(u.list[0]) + j
  /\ \A v \in W : (\A j \in 1..k : ws[j] # v) => r.pending[v] = u.pending[v]

Distinct(ws) == \A i \in 1..Len(ws) : \A j \in 1..Len(ws) : ws[i] = ws[j] => i = j

LEMMA QueuedIs ==
  ASSUME NEW W, NEW u \in Queues({0}, W), NEW prio, \A v \in W : prio[v] = 0,
         NEW ws \in Seq(W), Distinct(ws), \A j \in 1..Len(ws) : u.pending[ws[j]] = 0,
         NEW type \in Revents
  PROVE  Fed(W, u, ws, Len(ws), queue_events(u, prio, ws, type))
<1> DEFINE J    == [k \in Nat |-> {r \in Queues({0}, W) : Fed(W, u, ws, k, r)}]
           body == FeedRound({0}, W, prio, type)
           L    == Len(u.list[0])
<1>1. L \in Nat /\ Len(ws) \in Nat /\ \A j \in 1..Len(ws) : ws[j] \in W
  BY QueueType
<1>2. u \in J[0]
  BY <1>1 DEF Fed
<1>3. ASSUME NEW k \in 1..Len(ws), NEW r \in J[k-1] PROVE body[<<r, ws[k]>>] \in J[k]
  <2> DEFINE w == ws[k]
             g == FeedEvent(r, prio, w, {type})
  <2>1. k - 1 \in Nat /\ k \in Nat /\ w \in W /\ prio[w] = 0
    BY <1>1
  <2>2. /\ r \in Queues({0}, W) /\ Len(r.list[0]) = L + (k - 1)
        /\ \A i \in 1..L : r.list[0][i] = u.list[0][i]
        /\ \A j \in 1..k - 1 : r.list[0][L + j].w = ws[j] /\ r.pending[ws[j]] = L + j
        /\ \A v \in W : (\A j \in 1..k - 1 : ws[j] # v) => r.pending[v] = u.pending[v]
    BY <2>1 DEF Fed
  <2>3. \A j \in 1..k - 1 : ws[j] # w /\ j \in 1..Len(ws)
    BY <1>1 DEF Distinct
  <2>4. r.pending[w] = 0
    BY <2>1, <2>2, <2>3
  <2>5. body[<<r, w>>] = g
    BY <2>1, <2>2 DEF FeedRound
  <2> HIDE DEF g, w, L, body
  <2>6. /\ g \in Queues({0}, W)
        /\ Len(g.list[0]) = Len(r.list[0]) + 1
        /\ g.list[0][Len(r.list[0]) + 1].w = w
        /\ \A i \in 1..Len(r.list[0]) : g.list[0][i] = r.list[0][i]
        /\ g.pending[w] = Len(r.list[0]) + 1
        /\ \A v \in W : v # w => g.pending[v] = r.pending[v]
    <3>1. FedOne(W, r, w, g)
      BY <2>1, <2>2, <2>4, FeedIs DEF g
    <3> QED BY <3>1 DEF FedOne
  <2>7. Len(r.list[0]) + 1 = L + k
    BY <1>1, <2>1, <2>2
  <2>8. \A i \in 1..L : i \in 1..Len(r.list[0])
    BY <1>1, <2>1, <2>2
  <2>9. ASSUME NEW j \in 1..k PROVE g.list[0][L + j].w = ws[j] /\ g.pending[ws[j]] = L + j
    <3>1. CASE j = k
      BY <2>6, <2>7, <3>1 DEF w
    <3>2. CASE j # k
      <4>1. j \in 1..k - 1
        BY <2>1, <3>2
      <4>2. L + j \in 1..Len(r.list[0]) /\ ws[j] \in W /\ ws[j] # w
        BY <1>1, <2>1, <2>2, <2>3, <4>1
      <4> QED BY <2>2, <2>6, <4>1, <4>2
    <3> QED BY <3>1, <3>2
  <2>10. ASSUME NEW v \in W, \A j \in 1..k : ws[j] # v PROVE g.pending[v] = u.pending[v]
    <3>1. k \in 1..k /\ \A j \in 1..k - 1 : j \in 1..k
      BY <2>1
    <3> QED BY <2>2, <2>6, <2>10, <3>1 DEF w
  <2>11. Len(g.list[0]) = L + k /\ \A i \in 1..L : g.list[0][i] = u.list[0][i]
    BY <2>2, <2>6, <2>7, <2>8
  <2>12. Fed(W, u, ws, k, g)
    BY <2>6, <2>9, <2>10, <2>11 DEF Fed, L
  <2> QED BY <2>1, <2>5, <2>6, <2>12 DEF w
<1>4. queue_events(u, prio, ws, type) = Along(body, u, ws)
  BY QueueType DEF queue_events
<1> HIDE DEF J, body
<1>5. Along(body, u, ws) \in J[Len(ws)]
  BY <1>1, <1>2, <1>3, AlongReaches
<1> QED BY <1>1, <1>4, <1>5 DEF J

\* Pending watchers are where they say, and nobody else is in the queue.
Matched(W, u) ==
  /\ u \in Queues({0}, W)
  /\ \A v \in W : u.pending[v] # 0 =>
       u.pending[v] \in 1..Len(u.list[0]) /\ u.list[0][u.pending[v]].w = v
  /\ \A i \in 1..Len(u.list[0]) :
       u.list[0][i].w = NoWatcher \/ (u.list[0][i].w \in W /\ u.pending[u.list[0][i].w] = i)

\* A queue with its entries matched has the type of a queue.
LEMMA MatchedType ==
  ASSUME NEW W, NEW u, Matched(W, u)
  PROVE  /\ Len(u.list[0]) \in Nat /\ DOMAIN u.list[0] = 1..Len(u.list[0])
         /\ u.list[0] \in Seq([w : W \cup {NoWatcher}, events : SUBSET Revents])
         /\ DOMAIN u.list = {0} /\ u.pending \in [W -> Nat] /\ DOMAIN u.pending = W
         /\ \A i \in 1..Len(u.list[0]) : u.list[0][i].w \in W \cup {NoWatcher}
         /\ u = [list |-> u.list, pending |-> u.pending] /\ u.list = [p \in {0} |-> u.list[0]]
<1>1. u \in Queues({0}, W)
  BY DEF Matched
<1> QED BY <1>1, QueueType

LEMMA MatchedVerified ==
  ASSUME NEW W, NEW u, Matched(W, u), NEW prio, prio[NoWatcher] = 0, \A v \in W : prio[v] = 0
  PROVE  QueueVerified(u, prio)
<1>1. /\ DOMAIN u.list[0] = 1..Len(u.list[0]) /\ DOMAIN u.list = {0} /\ DOMAIN u.pending = W
  BY MatchedType
<1>2. ASSUME NEW w \in Queued(u)
      PROVE  /\ u.pending[w] \in DOMAIN u.list[prio[w]]
             /\ u.list[prio[w]][u.pending[w]].w = w
  <2>1. w \in W /\ u.pending[w] # 0 /\ prio[w] = 0
    BY <1>1 DEF Queued
  <2> QED BY <1>1, <2>1 DEF Matched
<1>3. ASSUME NEW p \in DOMAIN u.list, NEW i \in DOMAIN u.list[p]
      PROVE  \/ u.list[p][i].w = NoWatcher
             \/ u.pending[u.list[p][i].w] = i /\ prio[u.list[p][i].w] = p
  <2>1. p = 0 /\ i \in 1..Len(u.list[0])
    BY <1>1
  <2> QED BY <2>1 DEF Matched
<1> QED BY <1>2, <1>3 DEF QueueVerified

LEMMA EmptyMatched ==
  ASSUME NEW W
  PROVE  /\ Matched(W, EmptyQueue({0}, W)) /\ \A v \in W : EmptyQueue({0}, W).pending[v] = 0
         /\ NoneQueued(EmptyQueue({0}, W))
<1> DEFINE u == EmptyQueue({0}, W)
<1>1. /\ u.list = [p \in {0} |-> <<>>] /\ u.pending = [w \in W |-> 0]
      /\ u = [list |-> u.list, pending |-> u.pending]
  BY DEF EmptyQueue
<1> HIDE DEF u
<1>2. u.list[0] = <<>> /\ Len(u.list[0]) = 0
  BY <1>1
<1>3. u.list \in [{0} -> Seq([w : W \cup {NoWatcher}, events : SUBSET Revents])]
      /\ u.pending \in [W -> Nat]
  BY <1>1
<1>4. u \in Queues({0}, W)
  BY <1>1, <1>3 DEF Queues
<1>5. NoneQueued(u)
  BY <1>1 DEF NoneQueued
<1> QED BY <1>1, <1>2, <1>4, <1>5 DEF Matched, u

LEMMA NoneQueuedIs ==
  ASSUME NEW W, NEW u, Matched(W, u)
  PROVE  /\ NoneQueued(u) <=> Len(u.list[0]) = 0
         /\ NoneQueued(u) <=> u.list[0] = <<>>
         /\ NoneQueued(u) => \A v \in W : u.pending[v] = 0
<1> DEFINE Events == [w : W \cup {NoWatcher}, events : SUBSET Revents]
<1>1. DOMAIN u.list = {0} /\ u.list[0] \in Seq(Events) /\ Len(u.list[0]) \in Nat
  BY MatchedType
<1>2. Len(u.list[0]) = 0 <=> u.list[0] = <<>>
  <2> HIDE DEF Events
  <2> QED BY <1>1
<1>3. NoneQueued(u) <=> u.list[0] = <<>>
  BY <1>1 DEF NoneQueued
<1>4. Len(u.list[0]) = 0 => \A v \in W : u.pending[v] = 0
  BY DEF Matched
<1> QED BY <1>2, <1>3, <1>4

LEMMA FedMatched ==
  ASSUME NEW W, NoWatcher \notin W, NEW u, Matched(W, u), NEW ws \in Seq(W), Distinct(ws),
         \A j \in 1..Len(ws) : u.pending[ws[j]] = 0, NEW r, Fed(W, u, ws, Len(ws), r)
  PROVE  Matched(W, r)
<1> DEFINE L == Len(u.list[0])
           n == Len(ws)
<1>1. L \in Nat /\ n \in Nat /\ \A j \in 1..n : ws[j] \in W
  BY MatchedType
<1>2. /\ r \in Queues({0}, W) /\ Len(r.list[0]) = L + n
      /\ \A i \in 1..L : r.list[0][i] = u.list[0][i]
      /\ \A j \in 1..n : r.list[0][L + j].w = ws[j] /\ r.pending[ws[j]] = L + j
      /\ \A v \in W : (\A j \in 1..n : ws[j] # v) => r.pending[v] = u.pending[v]
  BY DEF Fed
<1> HIDE DEF L, n
<1>3. ASSUME NEW v \in W, r.pending[v] # 0
      PROVE  r.pending[v] \in 1..L + n /\ r.list[0][r.pending[v]].w = v
  <2>1. CASE \E j \in 1..n : ws[j] = v
    <3>1. PICK j \in 1..n : ws[j] = v
      BY <2>1
    <3>2. L + j \in 1..L + n
      BY <1>1
    <3> QED BY <1>2, <3>1, <3>2
  <2>2. CASE \A j \in 1..n : ws[j] # v
    <3>1. r.pending[v] = u.pending[v]
      BY <1>2, <2>2
    <3>2. u.pending[v] \in 1..L /\ u.list[0][u.pending[v]].w = v
      BY <1>3, <3>1 DEF Matched, L
    <3>3. u.pending[v] \in 1..L + n
      BY <1>1, <3>2
    <3> QED BY <1>2, <3>1, <3>2, <3>3
  <2> QED BY <2>1, <2>2
<1>4. ASSUME NEW i \in 1..L + n
      PROVE  r.list[0][i].w = NoWatcher \/ (r.list[0][i].w \in W /\ r.pending[r.list[0][i].w] = i)
  <2>1. CASE i <= L
    <3>1. i \in 1..L
      BY <1>1, <2>1
    <3>2. r.list[0][i].w = u.list[0][i].w
      BY <1>2, <3>1
    <3>3. ASSUME u.list[0][i].w # NoWatcher
          PROVE  u.list[0][i].w \in W /\ r.pending[u.list[0][i].w] = i
      <4>1. u.list[0][i].w \in W /\ u.pending[u.list[0][i].w] = i
        BY <3>1, <3>3 DEF Matched, L
      <4>2. \A j \in 1..n : ws[j] # u.list[0][i].w
        BY <3>1, <4>1 DEF n
      <4> QED BY <1>2, <4>1, <4>2
    <3> QED BY <3>2, <3>3
  <2>2. CASE i > L
    <3>1. PICK j \in 1..n : i = L + j
      <4>1. i - L \in 1..n /\ i = L + (i - L)
        BY <1>1, <2>2
      <4> QED BY <4>1
    <3> QED BY <1>1, <1>2, <3>1
  <2> QED BY <1>1, <2>1, <2>2
<1> QED BY <1>2, <1>3, <1>4 DEF Matched

\* The watchers of v are not pending any more, the others as they were.
Without(W, u, w, g) ==
  Matched(W, g) /\ \A v \in W : g.pending[v] = IF v = w THEN 0 ELSE u.pending[v]

LEMMA ClearIs ==
  ASSUME NEW W, NoWatcher \notin W, NEW u, Matched(W, u), NEW prio, NEW w \in W, prio[w] = 0
  PROVE  Without(W, u, w, ClearPending(u, prio, w))
<1> DEFINE g == ClearPending(u, prio, w)
           Events == [w : W \cup {NoWatcher}, events : SUBSET Revents]
           L == Len(u.list[0])
           i == u.pending[w]
           e == [u.list[0][i] EXCEPT !.w = NoWatcher]
           seq == [u.list[0] EXCEPT ![i] = e]
<1>1. CASE i = 0
  BY <1>1 DEF ClearPending, Without
<1>2. CASE i # 0
  <2>1. /\ L \in Nat /\ u.list[0] \in Seq(Events) /\ u.pending \in [W -> Nat]
        /\ u = [list |-> u.list, pending |-> u.pending] /\ u.list = [p \in {0} |-> u.list[0]]
    BY MatchedType
  <2>2. i \in 1..L /\ u.list[0][i].w = w
    BY <1>2 DEF Matched
  <2>3. u.list[0][i] \in Events
    <3> HIDE DEF Events
    <3> QED BY <2>1, <2>2
  <2>4. e \in Events /\ e.w = NoWatcher
    <3>1. u.list[0][i] = [w |-> u.list[0][i].w, events |-> u.list[0][i].events]
          /\ u.list[0][i].events \in SUBSET Revents
      BY <2>3
    <3>2. e = [w |-> NoWatcher, events |-> u.list[0][i].events]
      BY <3>1
    <3> QED BY <3>1, <3>2
  <2> HIDE DEF e, Events
  <2>5. seq \in Seq(Events) /\ Len(seq) = L /\ seq[i] = e /\ \A k \in 1..L : k # i => seq[k] = u.list[0][k]
    BY <2>1, <2>2, <2>4
  <2>6. g = [list    |-> [u.list EXCEPT ![0] = seq],
             pending |-> [u.pending EXCEPT ![w] = 0]]
    <3>1. g = [u EXCEPT !.list[0][i].w = NoWatcher, !.pending[w] = 0]
      BY <1>2 DEF ClearPending
    <3>2. [u EXCEPT !.list[0][i].w = NoWatcher, !.pending[w] = 0]
          = [u EXCEPT !.list = [u.list EXCEPT ![0] = [u.list[0] EXCEPT ![i] =
               [u.list[0][i] EXCEPT !.w = NoWatcher]]],
               !.pending = [u.pending EXCEPT ![w] = 0]]
      BY <2>1
    <3> HIDE DEF g
    <3> QED BY <2>1, <3>1, <3>2 DEF e
  <2> HIDE DEF seq, g
  <2>7. g.list = [p \in {0} |-> seq] /\ g.list[0] = seq /\ g = [list |-> g.list, pending |-> g.pending]
    BY <2>1, <2>6
  <2>8. g.pending \in [W -> Nat] /\ \A v \in W : g.pending[v] = IF v = w THEN 0 ELSE u.pending[v]
    BY <2>1, <2>6
  <2>9. g \in Queues({0}, W)
    <3>1. g.list \in [{0} -> Seq(Events)]
      BY <2>5, <2>7
    <3> QED BY <2>7, <2>8, <3>1 DEF Queues, Events
  <2>10. ASSUME NEW v \in W, g.pending[v] # 0
         PROVE  g.pending[v] \in 1..L /\ seq[g.pending[v]].w = v
    <3>1. v # w /\ g.pending[v] = u.pending[v]
      BY <2>8, <2>10
    <3>2. u.pending[v] \in 1..L /\ u.list[0][u.pending[v]].w = v
      BY <2>10, <3>1 DEF Matched
    <3>3. u.pending[v] # i
      BY <2>2, <3>1, <3>2
    <3> QED BY <2>5, <3>1, <3>2, <3>3
  <2>11. ASSUME NEW k \in 1..L
         PROVE  seq[k].w = NoWatcher \/ (seq[k].w \in W /\ g.pending[seq[k].w] = k)
    <3>1. CASE k = i
      BY <2>4, <2>5, <3>1
    <3>2. CASE k # i
      <4>1. u.list[0][k].w = NoWatcher \/ (u.list[0][k].w \in W /\ u.pending[u.list[0][k].w] = k)
        BY DEF Matched
      <4> QED BY <2>5, <2>8, <3>2, <4>1
    <3> QED BY <3>1, <3>2
  <2> HIDE DEF L
  <2>12. Matched(W, g)
    BY <2>5, <2>7, <2>9, <2>10, <2>11 DEF Matched
  <2> QED BY <2>8, <2>12 DEF Without, g
<1> QED BY <1>1, <1>2

LEMMA TakeIs ==
  ASSUME NEW W, NoWatcher \notin W, NEW u, Matched(W, u), ~NoneQueued(u)
  PROVE  /\ Without(W, u, Taken(u, 0).w, Take(u, 0))
         /\ \/ Taken(u, 0).w = NoWatcher
            \/ /\ Taken(u, 0).w \in W /\ u.pending[Taken(u, 0).w] = Len(u.list[0])
               /\ u.pending[Taken(u, 0).w] # 0
<1> DEFINE g == Take(u, 0)
           Events == [w : W \cup {NoWatcher}, events : SUBSET Revents]
           L == Len(u.list[0])
           x == Taken(u, 0).w
           seq == SubSeq(u.list[0], 1, L - 1)
<1>1. /\ L \in Nat /\ u.list[0] \in Seq(Events) /\ u.pending \in [W -> Nat] /\ DOMAIN u.pending = W
      /\ u = [list |-> u.list, pending |-> u.pending] /\ u.list = [p \in {0} |-> u.list[0]]
  BY MatchedType
<1>2. L # 0
  BY NoneQueuedIs
<1>3. L - 1 \in Nat /\ L \in 1..L
  BY <1>1, <1>2
<1>4. x = u.list[0][L].w
  BY DEF Taken, Last
<1>5. x = NoWatcher \/ (x \in W /\ u.pending[x] = L)
  BY <1>3, <1>4 DEF Matched
<1>6. seq \in Seq(Events) /\ Len(seq) = L - 1 /\ \A k \in 1..L - 1 : seq[k] = u.list[0][k]
  <2> HIDE DEF Events
  <2> QED BY <1>1, <1>3
<1>7. g = [list    |-> [u.list EXCEPT ![0] = seq],
           pending |-> [w \in W |-> IF w = x THEN 0 ELSE u.pending[w]]]
  BY <1>1 DEF Take, Front
<1> HIDE DEF seq, g, x, Events
<1>8. g.list = [p \in {0} |-> seq] /\ g.list[0] = seq /\ g = [list |-> g.list, pending |-> g.pending]
  BY <1>1, <1>7
<1>9. g.pending \in [W -> Nat] /\ \A v \in W : g.pending[v] = IF v = x THEN 0 ELSE u.pending[v]
  BY <1>1, <1>7
<1>10. g \in Queues({0}, W)
  <2>1. g.list \in [{0} -> Seq(Events)]
    BY <1>6, <1>8
  <2> QED BY <1>8, <1>9, <2>1 DEF Queues, Events
<1>11. ASSUME NEW v \in W, g.pending[v] # 0
       PROVE  g.pending[v] \in 1..L - 1 /\ seq[g.pending[v]].w = v
  <2>1. v # x /\ g.pending[v] = u.pending[v]
    BY <1>9, <1>11
  <2>2. u.pending[v] \in 1..L /\ u.list[0][u.pending[v]].w = v
    BY <1>11, <2>1 DEF Matched
  <2>3. u.pending[v] # L
    BY <1>4, <2>1, <2>2
  <2>4. u.pending[v] \in 1..L - 1
    BY <1>1, <2>2, <2>3
  <2> QED BY <1>6, <2>1, <2>2, <2>4
<1>12. ASSUME NEW k \in 1..L - 1
       PROVE  seq[k].w = NoWatcher \/ (seq[k].w \in W /\ g.pending[seq[k].w] = k)
  <2>1. k \in 1..L /\ k # L
    BY <1>1
  <2>2. u.list[0][k].w = NoWatcher \/ (u.list[0][k].w \in W /\ u.pending[u.list[0][k].w] = k)
    BY <2>1 DEF Matched
  <2>3. ASSUME u.list[0][k].w \in W, u.pending[u.list[0][k].w] = k
        PROVE  u.list[0][k].w # x
    BY <1>5, <2>1, <2>3
  <2> QED BY <1>6, <1>9, <2>2, <2>3
<1> HIDE DEF L
<1>13. Matched(W, g)
  BY <1>6, <1>8, <1>10, <1>11, <1>12 DEF Matched
<1> QED BY <1>2, <1>5, <1>9, <1>13 DEF Without, g, x, L

-----------------------------------------------------------------------------
(* timers_reify and periodics_reify: one loop, over the watchers of W.      *)

\* The watchers of again are set for the time next, the others are stopped.
FireRound(W, now, again, next, left) ==
  [s \in Work(W) |->
     LET w == s.h.heap[1].w
     IN  IF ~Due(s, now) THEN s
         ELSE IF w \in again THEN Again(s, w, next[<<w, s.at[w]>>])
         ELSE Once(s, w, left[<<w, s.at[w]>>])]

\* w fired in a round.
FiredOne(W, again, next, s, w, r) ==
  /\ r \in Work(W) /\ Kept(d, W, r.h, r.at) /\ r.q = s.q
  /\ \A v \in Watcher : v # w => r.at[v] = s.at[v] /\ r.firedAt[v] = s.firedAt[v]
  /\ r.firedAt[w] = s.at[w] /\ r.fed = Append(s.fed, w)
  /\ w \in again => Running(W, r.h) = Running(W, s.h) /\ r.at[w] = next[<<w, s.at[w]>>]
  /\ w \notin again => Running(W, r.h) = Running(W, s.h) \ {w}

LEMMA WorkParts ==
  ASSUME NEW W, NEW s \in Work(W)
  PROVE  /\ s.h \in Heaps(W) /\ s.at \in [Watcher -> Int] /\ s.q \in Queues({0}, Watcher)
         /\ s.fed \in Seq(W) /\ s.firedAt \in [Watcher -> Int \cup {NoTime}]
         /\ s = [h |-> s.h, at |-> s.at, q |-> s.q, fed |-> s.fed, firedAt |-> s.firedAt]
         /\ Len(s.fed) \in Nat /\ \A j \in 1..Len(s.fed) : s.fed[j] \in W
<1>1. /\ s.h \in Heaps(W) /\ s.at \in [Watcher -> Int] /\ s.q \in Queues({0}, Watcher)
      /\ s.fed \in Seq(W) /\ s.firedAt \in [Watcher -> Int \cup {NoTime}]
      /\ s = [h |-> s.h, at |-> s.at, q |-> s.q, fed |-> s.fed, firedAt |-> s.firedAt]
  BY DEF Work
<1>2. Len(s.fed) \in Nat /\ \A j \in 1..Len(s.fed) : s.fed[j] \in W
  BY <1>1
<1> QED BY <1>1, <1>2

\* w fired in s, was set to t, and R run then.
Did(W, s, w, t, R, r) ==
  /\ r \in Work(W) /\ Kept(d, W, r.h, r.at) /\ r.q = s.q /\ r.fed = Append(s.fed, w)
  /\ r.at = [s.at EXCEPT ![w] = t] /\ r.firedAt = [s.firedAt EXCEPT ![w] = s.at[w]]
  /\ Running(W, r.h) = R

LEMMA AgainIs ==
  ASSUME d \in {2, 4}, NEW W, W \subseteq Watcher, NEW s \in Work(W), Kept(d, W, s.h, s.at),
         NEW w \in W, s.h.active[w] = 1, NEW t \in Int
  PROVE  Did(W, s, w, t, Running(W, s.h), Again(s, w, t))
<1> DEFINE r == Again(s, w, t)
           g == downheap(d, Put(s.h, 1, [w |-> w, at |-> t]), Len(s.h.heap), 1)
           new == [s.at EXCEPT ![w] = t]
           hist == [s.firedAt EXCEPT ![w] = s.at[w]]
<1>1. /\ s.h \in Heaps(W) /\ s.at \in [Watcher -> Int] /\ s.q \in Queues({0}, Watcher)
      /\ s.fed \in Seq(W) /\ s.firedAt \in [Watcher -> Int \cup {NoTime}]
      /\ s = [h |-> s.h, at |-> s.at, q |-> s.q, fed |-> s.fed, firedAt |-> s.firedAt]
  BY WorkParts
<1>2. w \in Watcher /\ new \in [Watcher -> Int] /\ hist \in [Watcher -> Int \cup {NoTime}]
      /\ Append(s.fed, w) \in Seq(W)
  BY <1>1
<1>3. r = [h |-> g, at |-> new, q |-> s.q, fed |-> Append(s.fed, w), firedAt |-> hist]
  <2>1. r = [s EXCEPT !.at = new, !.fed = Append(s.fed, w), !.firedAt = hist, !.h = g]
    BY DEF Again
  <2> HIDE DEF r, g, new, hist
  <2> QED BY <1>1, <2>1
<1>4. Kept(d, W, g, new) /\ Running(W, g) = Running(W, s.h)
  <2>1. w \in Running(W, s.h)
    BY DEF Running
  <2>2. Retimed(W, s.at, w, t, new)
    BY <1>1, <1>2 DEF Retimed
  <2>3. ResetTo(d, s.h, w, t, g)
    BY DEF ResetTo
  <2> HIDE DEF g, new
  <2> QED BY <2>1, <2>2, <2>3, ResetKept
<1> HIDE DEF r, g, new, hist
<1>5. /\ r.h = g /\ r.at = new /\ r.q = s.q /\ r.fed = Append(s.fed, w) /\ r.firedAt = hist
  BY <1>3
<1>6. g \in Heaps(W)
  BY <1>4, KeptParts
<1>7. r \in Work(W)
  BY <1>1, <1>2, <1>3, <1>6 DEF Work
<1> QED BY <1>4, <1>5, <1>7 DEF Did, r, new, hist

LEMMA OnceIs ==
  ASSUME d \in {2, 4}, NEW W, W \subseteq Watcher, NEW s \in Work(W), Kept(d, W, s.h, s.at),
         NEW w \in W, s.h.active[w] # 0, NEW t \in Int, s.q.pending[w] = 0
  PROVE  Did(W, s, w, t, Running(W, s.h) \ {w}, Once(s, w, t))
<1> DEFINE r == Once(s, w, t)
           g == TakeOut(d, s.h, w)
           new == [s.at EXCEPT ![w] = t]
           hist == [s.firedAt EXCEPT ![w] = s.at[w]]
<1>1. /\ s.h \in Heaps(W) /\ s.at \in [Watcher -> Int] /\ s.q \in Queues({0}, Watcher)
      /\ s.fed \in Seq(W) /\ s.firedAt \in [Watcher -> Int \cup {NoTime}]
      /\ s = [h |-> s.h, at |-> s.at, q |-> s.q, fed |-> s.fed, firedAt |-> s.firedAt]
  BY WorkParts
<1>2. w \in Watcher /\ new \in [Watcher -> Int] /\ hist \in [Watcher -> Int \cup {NoTime}]
      /\ Append(s.fed, w) \in Seq(W)
  BY <1>1
<1>3. r = [h |-> g, at |-> new, q |-> s.q, fed |-> Append(s.fed, w), firedAt |-> hist]
  <2>1. ClearPending(s.q, pri, w) = s.q
    BY DEF ClearPending
  <2>2. r = [s EXCEPT !.at = new, !.fed = Append(s.fed, w), !.firedAt = hist, !.h = g, !.q = s.q]
    BY <2>1 DEF Once
  <2> HIDE DEF r, g, new, hist
  <2> QED BY <1>1, <2>2
<1>4. Kept(d, W, g, new) /\ Running(W, g) = Running(W, s.h) \ {w}
  <2>1. \A v \in W : v # w => new[v] = s.at[v]
    BY <1>1, <1>2
  <2> HIDE DEF new
  <2> QED BY <2>1, TakeOutKept
<1> HIDE DEF r, g, new, hist
<1>5. /\ r.h = g /\ r.at = new /\ r.q = s.q /\ r.fed = Append(s.fed, w) /\ r.firedAt = hist
  BY <1>3
<1>6. g \in Heaps(W)
  BY <1>4, KeptParts
<1>7. r \in Work(W)
  BY <1>1, <1>2, <1>3, <1>6 DEF Work
<1> QED BY <1>4, <1>5, <1>7 DEF Did, r, new, hist

\* What a round makes of s.
Rounded(W, now, again, next, s, r) ==
  /\ ~Due(s, now) => r = s /\ \A v \in Running(W, s.h) : s.at[v] >= now
  /\ Due(s, now) => /\ FiredOne(W, again, next, s, s.h.heap[1].w, r)
                    /\ s.h.heap[1].w \in Running(W, s.h) /\ s.at[s.h.heap[1].w] < now
                    /\ \A v \in Running(W, s.h) : s.at[s.h.heap[1].w] <= s.at[v]

LEMMA FireRoundIs ==
  ASSUME d \in {2, 4}, NEW W, W \subseteq Watcher, NEW s \in Work(W), Kept(d, W, s.h, s.at),
         \A v \in W : s.q.pending[v] = 0, NEW now \in Int, NEW again,
         NEW next \in [W \X Int -> Int], NEW left \in [W \X Int -> Int]
  PROVE  Rounded(W, now, again, next, s, FireRound(W, now, again, next, left)[s])
<1> DEFINE w == s.h.heap[1].w
           r == FireRound(W, now, again, next, left)[s]
<1>1. /\ \A v \in Running(W, s.h) :
           s.h.heap # <<>> /\ s.h.heap[1].at <= s.at[v] /\ s.at[v] \in Int /\ s.h.heap[1].at \in Int
      /\ s.h.heap # <<>> => /\ w \in Running(W, s.h) /\ s.h.active[w] = 1
                            /\ s.h.heap[1].at = s.at[w]
  BY KeptParts
<1>2. r = IF ~Due(s, now) THEN s
          ELSE IF w \in again THEN Again(s, w, next[<<w, s.at[w]>>])
          ELSE Once(s, w, left[<<w, s.at[w]>>])
  BY DEF FireRound
<1> HIDE DEF w, r
<1>3. CASE ~Due(s, now)
  <2>1. \A v \in Running(W, s.h) : s.at[v] >= now
    BY <1>1, <1>3 DEF Due
  <2>2. r = s
    BY <1>2, <1>3
  <2> QED BY <1>3, <2>1, <2>2 DEF Rounded, r
<1>4. CASE Due(s, now)
  <2>1. s.h.heap # <<>> /\ s.h.heap[1].at < now
    BY <1>4 DEF Due
  <2>2. w \in Running(W, s.h) /\ s.h.active[w] = 1 /\ s.at[w] < now /\ w \in W /\ w \in Watcher
        /\ s.at \in [Watcher -> Int] /\ s.firedAt \in [Watcher -> Int \cup {NoTime}]
    BY <1>1, <2>1, WorkParts DEF Running
  <2>3. \A v \in Running(W, s.h) : s.at[w] <= s.at[v]
    BY <1>1, <2>1
  <2>4. next[<<w, s.at[w]>>] \in Int /\ left[<<w, s.at[w]>>] \in Int
    BY <2>2
  <2>5. FiredOne(W, again, next, s, w, r)
    <3>1. CASE w \in again
      <4> DEFINE t == next[<<w, s.at[w]>>]
      <4>1. r = Again(s, w, t)
        BY <1>2, <1>4, <3>1
      <4>2. t \in Int
        BY <2>4
      <4> HIDE DEF t
      <4>3. Did(W, s, w, t, Running(W, s.h), r)
        BY <2>2, <4>1, <4>2, AgainIs
      <4> QED BY <2>2, <3>1, <4>3 DEF Did, FiredOne, t
    <3>2. CASE w \notin again
      <4> DEFINE t == left[<<w, s.at[w]>>]
      <4>1. r = Once(s, w, t)
        BY <1>2, <1>4, <3>2
      <4>2. t \in Int /\ s.h.active[w] # 0 /\ s.q.pending[w] = 0
        BY <2>2, <2>4
      <4> HIDE DEF t
      <4>3. Did(W, s, w, t, Running(W, s.h) \ {w}, r)
        BY <2>2, <4>1, <4>2, OnceIs
      <4> QED BY <2>2, <3>2, <4>3 DEF Did, FiredOne
    <3> QED BY <3>1, <3>2
  <2> QED BY <1>4, <2>2, <2>3, <2>5 DEF w, r, Rounded
<1> QED BY <1>3, <1>4

InFed(s, v) == \E j \in 1..Len(s.fed) : s.fed[j] = v

\* The watchers of s.fed fired since the loop was at b, each once, in the
\* order of their times; the others are as they were.
Fires(W, now, again, next, b, s) ==
  /\ s \in Work(W) /\ Kept(d, W, s.h, s.at) /\ s.q = b.q
  /\ \A v \in Watcher : v \notin W \/ ~InFed(s, v) => s.at[v] = b.at[v] /\ s.firedAt[v] = b.firedAt[v]
  /\ \A v \in W : ~InFed(s, v) => (v \in Running(W, s.h) <=> v \in Running(W, b.h))
  /\ \A j \in 1..Len(s.fed) :
       /\ s.fed[j] \in Running(W, b.h) /\ b.at[s.fed[j]] < now
       /\ s.firedAt[s.fed[j]] = b.at[s.fed[j]]
       /\ s.fed[j] \in again => /\ s.fed[j] \in Running(W, s.h)
                                /\ s.at[s.fed[j]] = next[<<s.fed[j], b.at[s.fed[j]]>>]
       /\ s.fed[j] \notin again => s.fed[j] \notin Running(W, s.h)
  /\ Distinct(s.fed)
  /\ \A j \in 1..Len(s.fed) : \A v \in Running(W, s.h) : b.at[s.fed[j]] <= s.at[v]
  /\ \A i \in 1..Len(s.fed) : \A j \in 1..Len(s.fed) : i < j => b.at[s.fed[i]] <= b.at[s.fed[j]]

\* What the loop starts from.
Starts(W, b) ==
  /\ b \in Work(W) /\ Kept(d, W, b.h, b.at) /\ b.fed = <<>>
  /\ \A v \in W : b.q.pending[v] = 0

LEMMA StartsFires ==
  ASSUME NEW W, NEW b, Starts(W, b), NEW now, NEW again, NEW next
  PROVE  Fires(W, now, again, next, b, b)
<1>1. Len(b.fed) = 0
  BY DEF Starts
<1> QED BY <1>1 DEF Fires, Starts, InFed, Distinct

LEMMA FiresOne ==
  ASSUME d \in {2, 4}, NEW W, W \subseteq Watcher, NEW b, Starts(W, b), NEW now \in Int, NEW again,
         NEW next \in [W \X Int -> Int], \A v \in W : \A t \in Int : now <= next[<<v, t>>],
         NEW s, Fires(W, now, again, next, b, s), NEW w \in Running(W, s.h), s.at[w] < now,
         \A v \in Running(W, s.h) : s.at[w] <= s.at[v], NEW r, FiredOne(W, again, next, s, w, r)
  PROVE  Fires(W, now, again, next, b, r)
<1> DEFINE n == Len(s.fed)
<1>1. /\ s \in Work(W) /\ s.q = b.q
      /\ \A v \in Watcher : v \notin W \/ ~InFed(s, v) => s.at[v] = b.at[v] /\ s.firedAt[v] = b.firedAt[v]
      /\ \A v \in W : ~InFed(s, v) => (v \in Running(W, s.h) <=> v \in Running(W, b.h))
      /\ \A j \in 1..n :
           /\ s.fed[j] \in Running(W, b.h) /\ b.at[s.fed[j]] < now
           /\ s.firedAt[s.fed[j]] = b.at[s.fed[j]]
           /\ s.fed[j] \in again => /\ s.fed[j] \in Running(W, s.h)
                                    /\ s.at[s.fed[j]] = next[<<s.fed[j], b.at[s.fed[j]]>>]
           /\ s.fed[j] \notin again => s.fed[j] \notin Running(W, s.h)
      /\ Distinct(s.fed)
      /\ \A j \in 1..n : \A v \in Running(W, s.h) : b.at[s.fed[j]] <= s.at[v]
      /\ \A i \in 1..n : \A j \in 1..n : i < j => b.at[s.fed[i]] <= b.at[s.fed[j]]
  BY DEF Fires
<1>2. /\ r \in Work(W) /\ Kept(d, W, r.h, r.at) /\ r.q = s.q
      /\ \A v \in Watcher : v # w => r.at[v] = s.at[v] /\ r.firedAt[v] = s.firedAt[v]
      /\ r.firedAt[w] = s.at[w] /\ r.fed = Append(s.fed, w)
      /\ w \in again => Running(W, r.h) = Running(W, s.h) /\ r.at[w] = next[<<w, s.at[w]>>]
      /\ w \notin again => Running(W, r.h) = Running(W, s.h) \ {w}
  BY DEF FiredOne
<1>3. /\ b.at \in [Watcher -> Int] /\ s.at \in [Watcher -> Int] /\ s.fed \in Seq(W) /\ n \in Nat
      /\ \A j \in 1..n : s.fed[j] \in W
  BY <1>1, WorkParts DEF Starts
<1>4. w \in W /\ w \in Watcher /\ Running(W, s.h) \subseteq W
  BY DEF Running
<1>5. ~InFed(s, w)
  <2> SUFFICES ASSUME NEW j \in 1..n, s.fed[j] = w PROVE FALSE
    BY DEF InFed
  <2>1. w \in again /\ s.at[w] = next[<<w, b.at[w]>>]
    BY <1>1
  <2>2. now <= s.at[w] /\ s.at[w] \in Int
    BY <1>3, <1>4, <2>1
  <2> QED BY <2>2
<1>6. s.at[w] = b.at[w] /\ w \in Running(W, b.h)
  BY <1>1, <1>4, <1>5
<1>7. Len(r.fed) = n + 1 /\ r.fed[n + 1] = w /\ \A j \in 1..n : r.fed[j] = s.fed[j]
  BY <1>2, <1>3, <1>4
<1>8. \A j \in 1..n + 1 : (j \in 1..n /\ r.fed[j] = s.fed[j] /\ s.fed[j] # w) \/ (j = n + 1 /\ r.fed[j] = w)
  <2> TAKE j \in 1..n + 1
  <2>1. CASE j = n + 1
    BY <1>7, <2>1
  <2>2. CASE j # n + 1
    <3>1. j \in 1..n
      BY <1>3, <2>2
    <3> QED BY <1>5, <1>7, <3>1 DEF InFed
  <2> QED BY <2>1, <2>2
<1>9. \A v : InFed(r, v) <=> (v = w \/ InFed(s, v))
  <2> TAKE v
  <2>1. ASSUME InFed(r, v) PROVE v = w \/ InFed(s, v)
    BY <1>7, <1>8, <2>1 DEF InFed
  <2>2. ASSUME InFed(s, v) PROVE InFed(r, v)
    <3>1. PICK j \in 1..n : s.fed[j] = v
      BY <2>2 DEF InFed
    <3>2. j \in 1..n + 1 /\ r.fed[j] = v
      BY <1>3, <1>7, <3>1
    <3> QED BY <1>7, <3>2 DEF InFed
  <2>3. InFed(r, w)
    <3>1. n + 1 \in 1..n + 1
      BY <1>3
    <3> QED BY <1>7, <3>1 DEF InFed
  <2> QED BY <2>1, <2>2, <2>3
<1> HIDE DEF n
<1>10. ASSUME NEW v \in Watcher, v \notin W \/ ~InFed(r, v)
       PROVE  r.at[v] = b.at[v] /\ r.firedAt[v] = b.firedAt[v]
  BY <1>1, <1>2, <1>4, <1>9, <1>10
<1>11. ASSUME NEW v \in W, ~InFed(r, v) PROVE v \in Running(W, r.h) <=> v \in Running(W, b.h)
  BY <1>1, <1>2, <1>9, <1>11
<1>12. ASSUME NEW j \in 1..n + 1
       PROVE  /\ r.fed[j] \in Running(W, b.h) /\ b.at[r.fed[j]] < now
              /\ r.firedAt[r.fed[j]] = b.at[r.fed[j]]
              /\ r.fed[j] \in again => /\ r.fed[j] \in Running(W, r.h)
                                       /\ r.at[r.fed[j]] = next[<<r.fed[j], b.at[r.fed[j]]>>]
              /\ r.fed[j] \notin again => r.fed[j] \notin Running(W, r.h)
  <2>1. CASE j = n + 1
    BY <1>2, <1>6, <1>7, <2>1
  <2>2. CASE j \in 1..n /\ r.fed[j] = s.fed[j] /\ s.fed[j] # w
    <3>1. s.fed[j] \in Watcher
      BY <1>3, <2>2
    <3>2. r.at[s.fed[j]] = s.at[s.fed[j]] /\ r.firedAt[s.fed[j]] = s.firedAt[s.fed[j]]
      BY <1>2, <2>2, <3>1
    <3>3. s.fed[j] \in Running(W, r.h) <=> s.fed[j] \in Running(W, s.h)
      BY <1>2, <2>2
    <3> QED BY <1>1, <2>2, <3>2, <3>3
  <2> QED BY <1>8, <2>1, <2>2
<1>13. Distinct(r.fed)
  <2> SUFFICES ASSUME NEW i \in 1..n + 1, NEW j \in 1..n + 1, r.fed[i] = r.fed[j] PROVE i = j
    BY <1>7 DEF Distinct
  <2>1. (i = n + 1 /\ j = n + 1) \/ (i \in 1..n /\ j \in 1..n /\ s.fed[i] = s.fed[j])
    BY <1>8
  <2> QED BY <1>1, <2>1 DEF Distinct, n
<1>14. ASSUME NEW j \in 1..n + 1, NEW v \in Running(W, r.h) PROVE b.at[r.fed[j]] <= r.at[v]
  <2>1. v \in Running(W, s.h) /\ v \in Watcher
    BY <1>2, <1>4
  <2>2. s.at[v] <= r.at[v] /\ s.at[v] \in Int /\ r.at[v] \in Int
    <3>1. CASE v = w
      <4>1. w \in again
        BY <1>2, <1>14, <3>1
      <4>2. r.at[w] = next[<<w, s.at[w]>>] /\ next[<<w, s.at[w]>>] \in Int /\ now <= next[<<w, s.at[w]>>]
            /\ s.at[w] \in Int
        BY <1>2, <1>3, <1>4, <4>1
      <4> QED BY <3>1, <4>2
    <3>2. CASE v # w
      BY <1>2, <1>3, <2>1, <3>2
    <3> QED BY <3>1, <3>2
  <2>3. b.at[r.fed[j]] <= s.at[v] /\ b.at[r.fed[j]] \in Int
    <3>1. CASE j = n + 1
      BY <1>3, <1>4, <1>6, <1>7, <2>1, <3>1
    <3>2. CASE j \in 1..n /\ r.fed[j] = s.fed[j] /\ s.fed[j] # w
      <4>1. s.fed[j] \in Watcher
        BY <1>3, <3>2
      <4> QED BY <1>1, <1>3, <2>1, <3>2, <4>1
    <3> QED BY <1>8, <3>1, <3>2
  <2> QED BY <2>2, <2>3
<1>15. ASSUME NEW i \in 1..n + 1, NEW j \in 1..n + 1, i < j PROVE b.at[r.fed[i]] <= b.at[r.fed[j]]
  <2>0. i # n + 1
    BY <1>3, <1>15
  <2>1. i \in 1..n /\ r.fed[i] = s.fed[i]
    BY <1>8, <2>0
  <2>2. CASE j = n + 1
    BY <1>1, <1>6, <1>7, <2>1, <2>2
  <2>3. CASE j \in 1..n /\ r.fed[j] = s.fed[j]
    BY <1>1, <1>15, <2>1, <2>3
  <2> QED BY <1>8, <2>2, <2>3
<1>16. r \in Work(W) /\ Kept(d, W, r.h, r.at) /\ r.q = b.q
  BY <1>1, <1>2
<1> QED BY <1>7, <1>10, <1>11, <1>12, <1>13, <1>14, <1>15, <1>16 DEF Fires

\* The watchers that are still to fire.
Overdue(W, s, now) == {v \in Running(W, s.h) : s.at[v] < now}

LEMMA RunningFinite ==
  ASSUME NEW D \in {2, 4}, NEW W, NEW h, Sound(D, W, h)
  PROVE  IsFiniteSet(Running(W, h)) /\ Cardinality(Running(W, h)) <= Len(h.heap)
<1> DEFINE N == Len(h.heap)
           f == [k \in 1..N |-> h.heap[k].w]
           R == Running(W, h)
<1>1. /\ N \in Nat
      /\ \A k \in 1..N : h.active[h.heap[k].w] = k /\ h.heap[k].w \in W
      /\ \A v \in W : h.active[v] # 0 => h.active[v] \in 1..N /\ h.heap[h.active[v]].w = v
  BY SoundParts
<1>2. \A k \in 1..N : f[k] \in R
  BY <1>1 DEF Running
<1>3. f \in [1..N -> R]
  BY <1>2
<1>4. ASSUME NEW v \in R PROVE \E k \in 1..N : f[k] = v
  BY <1>1 DEF Running
<1> HIDE DEF f, N, R
<1>5. f \in Surjection(1..N, R)
  BY <1>3, <1>4 DEF Surjection
<1>6. IsFiniteSet(1..N) /\ Cardinality(1..N) = N
  BY <1>1, FS_Interval
<1> QED BY <1>5, <1>6, FS_Surjection DEF R, N

LEMMA OverdueIs ==
  ASSUME NEW D \in {2, 4}, NEW W, NEW s, Sound(D, W, s.h), NEW now
  PROVE  /\ IsFiniteSet(Overdue(W, s, now)) /\ Cardinality(Overdue(W, s, now)) \in Nat
         /\ Cardinality(Overdue(W, s, now)) <= Len(s.h.heap)
         /\ Cardinality(Overdue(W, s, now)) = 0 <=> Overdue(W, s, now) = {}
<1> DEFINE R == Running(W, s.h)
           T == Overdue(W, s, now)
<1>1. IsFiniteSet(R) /\ Cardinality(R) <= Len(s.h.heap) /\ Len(s.h.heap) \in Nat
  BY RunningFinite, SoundParts
<1>2. T \in SUBSET R
  BY DEF Overdue
<1> HIDE DEF T, R
<1>3. IsFiniteSet(T) /\ Cardinality(T) <= Cardinality(R)
  BY <1>1, <1>2, FS_Subset
<1>4. Cardinality(T) \in Nat /\ Cardinality(R) \in Nat
  BY <1>1, <1>3, FS_CardinalityType
<1>5. Cardinality(T) = 0 <=> T = {}
  BY <1>3, FS_EmptySet
<1> QED BY <1>1, <1>3, <1>4, <1>5 DEF T

Looped(W, now, again, next, b, s) ==
  Fires(W, now, again, next, b, s) /\ Overdue(W, s, now) = {}

LEMMA FireLoopIs ==
  ASSUME d \in {2, 4}, NEW W, W \subseteq Watcher, NEW b, Starts(W, b), NEW now \in Int, NEW again,
         NEW next \in [W \X Int -> Int], \A v \in W : \A t \in Int : now <= next[<<v, t>>],
         NEW left \in [W \X Int -> Int]
  PROVE  Looped(W, now, again, next, b,
                After(FireRound(W, now, again, next, left), b, Len(b.h.heap)))
<1> DEFINE body == FireRound(W, now, again, next, left)
           N    == Len(b.h.heap)
           J    == {s \in Work(W) : Fires(W, now, again, next, b, s)}
           far  == [s \in J |-> Cardinality(Overdue(W, s, now))]
           z    == After(body, b, N)
<1>1. b \in J
  BY StartsFires DEF Starts
<1>2. ASSUME NEW s \in J
      PROVE  /\ Sound(d, W, s.h) /\ Kept(d, W, s.h, s.at) /\ \A v \in W : s.q.pending[v] = 0
             /\ IsFiniteSet(Overdue(W, s, now)) /\ Cardinality(Overdue(W, s, now)) \in Nat
             /\ Cardinality(Overdue(W, s, now)) <= Len(s.h.heap)
             /\ Cardinality(Overdue(W, s, now)) = 0 <=> Overdue(W, s, now) = {}
  <2>1. Kept(d, W, s.h, s.at) /\ \A v \in W : s.q.pending[v] = 0
    BY DEF Fires, Starts
  <2>2. Sound(d, W, s.h)
    BY <2>1 DEF Kept
  <2> HIDE DEF J
  <2> QED BY <2>1, <2>2, OverdueIs
<1>3. ASSUME NEW s \in J, ~Due(s, now) PROVE body[s] = s /\ Overdue(W, s, now) = {}
  <2>1. s \in Work(W) /\ Kept(d, W, s.h, s.at) /\ \A v \in W : s.q.pending[v] = 0
    BY <1>2
  <2> DEFINE r == body[s]
  <2> HIDE DEF J
  <2>0. Rounded(W, now, again, next, s, r)
    BY <2>1, FireRoundIs
  <2> HIDE DEF r
  <2>2. r = s /\ \A v \in Running(W, s.h) : s.at[v] >= now
    BY <1>3, <2>0 DEF Rounded
  <2>3. \A v \in Running(W, s.h) : s.at[v] \in Int
    BY <2>1, KeptParts
  <2> QED BY <2>2, <2>3 DEF Overdue, r
<1>4. ASSUME NEW s \in J, Due(s, now)
      PROVE  /\ body[s] \in J /\ Cardinality(Overdue(W, body[s], now)) < Cardinality(Overdue(W, s, now))
  <2> DEFINE r == body[s]
             w == s.h.heap[1].w
  <2>1. s \in Work(W) /\ Kept(d, W, s.h, s.at) /\ Fires(W, now, again, next, b, s)
        /\ \A v \in W : s.q.pending[v] = 0
    BY <1>2
  <2>2. /\ FiredOne(W, again, next, s, w, r) /\ w \in Running(W, s.h) /\ s.at[w] < now
        /\ \A v \in Running(W, s.h) : s.at[w] <= s.at[v]
    <3> HIDE DEF J
    <3>1. Rounded(W, now, again, next, s, r)
      BY <2>1, FireRoundIs
    <3> HIDE DEF r
    <3> QED BY <1>4, <3>1 DEF Rounded
  <2> HIDE DEF r, w
  <2>3. Fires(W, now, again, next, b, r)
    <3> HIDE DEF J
    <3> QED BY <2>1, <2>2, FiresOne
  <2>4. r \in J
    BY <2>2, <2>3 DEF FiredOne
  <2>5. Overdue(W, r, now) = Overdue(W, s, now) \ {w}
    <3>1. w \in W /\ w \in Watcher /\ Running(W, s.h) \subseteq Watcher /\ s.at \in [Watcher -> Int]
      BY <2>1, <2>2, WorkParts DEF Running
    <3>2. /\ \A v \in Watcher : v # w => r.at[v] = s.at[v]
          /\ w \in again => Running(W, r.h) = Running(W, s.h) /\ r.at[w] = next[<<w, s.at[w]>>]
          /\ w \notin again => Running(W, r.h) = Running(W, s.h) \ {w}
      BY <2>2 DEF FiredOne
    <3>3. next[<<w, s.at[w]>>] \in Int /\ now <= next[<<w, s.at[w]>>]
      BY <3>1
    <3>4. ASSUME NEW v \in Overdue(W, r, now) PROVE v \in Overdue(W, s, now) \ {w}
      BY <3>1, <3>2, <3>3 DEF Overdue
    <3>5. ASSUME NEW v \in Overdue(W, s, now) \ {w} PROVE v \in Overdue(W, r, now)
      BY <3>1, <3>2, <3>3 DEF Overdue
    <3> QED BY <3>4, <3>5
  <2>6. w \in Overdue(W, s, now)
    BY <2>2 DEF Overdue
  <2>7. IsFiniteSet(Overdue(W, s, now)) /\ Cardinality(Overdue(W, s, now)) \in Nat
    BY <1>2
  <2>8. Cardinality(Overdue(W, r, now)) = Cardinality(Overdue(W, s, now)) - 1
    <3> HIDE DEF J
    <3> QED BY <2>5, <2>6, <2>7, FS_RemoveElement
  <2> QED BY <2>4, <2>7, <2>8 DEF r
<1> HIDE DEF J, body
<1>5. far \in [J -> Nat] /\ far[b] <= N /\ \A s \in J : far[s] = Cardinality(Overdue(W, s, now))
  BY <1>1, <1>2
<1>6. ASSUME NEW s \in J, far[s] = 0 PROVE far[body[s]] = 0
  <2>1. ~Due(s, now)
    BY <1>2, <1>4, <1>5, <1>6
  <2> QED BY <1>3, <1>6, <2>1
<1>7. ASSUME NEW s \in J, far[s] # 0 PROVE far[body[s]] < far[s]
  <2>1. Due(s, now)
    BY <1>2, <1>3, <1>5, <1>7
  <2> QED BY <1>4, <1>5, <2>1
<1>8. z \in J /\ far[z] = 0
  <2> HIDE DEF far
  <2>1. \A s \in J : body[s] \in J
    BY <1>3, <1>4
  <2>2. Nearer(body, J, far)
    BY <1>5, <1>6, <1>7, <2>1 DEF Nearer
  <2>3. N \in Nat
    BY <1>1, <1>2, SoundParts
  <2> QED BY <1>1, <1>5, <2>2, <2>3, NearerEnds
<1>9. Overdue(W, z, now) = {}
  BY <1>2, <1>5, <1>8
<1> QED BY <1>8, <1>9 DEF J, body, Looped

-----------------------------------------------------------------------------
(* The times.                                                              *)

\* k is a multiple of b.
LEMMA Multiple ==
  ASSUME NEW b \in Nat \ {0}, NEW k \in Int
  PROVE  (b * k) % b = 0
<1>0. ASSUME NEW y \in Int
      PROVE  y = b * (y \div b) + (y % b) /\ y % b \in 0..b - 1 /\ y \div b \in Int
  OBVIOUS
<1>1. b * k = b * ((b * k) \div b) + ((b * k) % b) /\ (b * k) % b \in 0..b - 1 /\ (b * k) \div b \in Int
  <2>1. b * k \in Int
    OBVIOUS
  <2> QED BY <1>0, <2>1
<1> DEFINE m == (b * k) \div b
           e == (b * k) % b
<1>2. e = b * (k - m) /\ e \in 0..b - 1 /\ k - m \in Int
  BY <1>1
<1> HIDE DEF m, e
<1>3. PICK j \in Int : j = k - m
  BY <1>2
<1>4. e = b * j /\ b \in Int
  BY <1>2, <1>3
<1>5. ~(j >= 1)
  <2> SUFFICES ASSUME j >= 1 PROVE FALSE
    OBVIOUS
  <2>1. PICK i \in Nat : j = i + 1
    <3>1. j - 1 \in Nat /\ j = (j - 1) + 1
      OBVIOUS
    <3> QED BY <3>1
  <2>2. b * j = b * i + b /\ b * i >= 0 /\ b * i \in Int
    BY <2>1
  <2> QED BY <1>2, <1>4, <2>2
<1>6. ~(j <= -1)
  <2> SUFFICES ASSUME j <= -1 PROVE FALSE
    OBVIOUS
  <2>1. PICK i \in Nat : j = -i - 1
    <3>1. -j - 1 \in Nat /\ j = -(-j - 1) - 1
      OBVIOUS
    <3> QED BY <3>1
  <2>2. b * j = -(b * i) - b /\ b * i >= 0 /\ b * i \in Int
    BY <2>1
  <2> QED BY <1>2, <1>4, <2>2
<1>7. j = 0
  BY <1>5, <1>6
<1> QED BY <1>4, <1>7 DEF e

LEMMA NextMultiple ==
  ASSUME NEW rt \in Int, NEW o \in Int, NEW b \in Nat \ {0}, NEW x,
         x = o + b * ((rt - o) \div b + 1)
  PROVE  x \in Int /\ (x - o) % b = 0 /\ rt < x /\ x <= rt + b
<1> DEFINE m == (rt - o) \div b
           e == (rt - o) % b
<1>1. rt - o = b * m + e /\ e \in 0..b - 1 /\ m \in Int
  OBVIOUS
<1> HIDE DEF m, e
<1>2. x = o + b * (m + 1) /\ b * (m + 1) = b * m + b /\ b * m \in Int
  BY <1>1 DEF m
<1>3. x \in Int /\ rt < x /\ x <= rt + b /\ x - o = b * (m + 1)
  BY <1>1, <1>2
<1>4. (x - o) % b = 0
  <2>1. m + 1 \in Int
    BY <1>1
  <2>2. (b * (m + 1)) % b = 0
    BY <2>1, Multiple
  <2> QED BY <1>3, <2>2
<1> QED BY <1>3, <1>4

LEMMA ProductsGrow ==
  ASSUME NEW k \in Int, NEW l \in Int, NEW m \in Nat
  PROVE  /\ k * m \in Int /\ l * m \in Int
         /\ k <= l => k * m <= l * m
         /\ k < l => k * m + m <= l * m
         /\ k >= 0 => k * m >= 0
<1>1. k * m \in Int /\ l * m \in Int
  OBVIOUS
<1>2. ASSUME NEW i \in Nat, NEW j \in Int PROVE (j + i) * m = j * m + i * m /\ i * m >= 0
  OBVIOUS
<1>3. k <= l => k * m <= l * m
  <2> SUFFICES ASSUME k <= l PROVE k * m <= l * m
    OBVIOUS
  <2>1. PICK i \in Nat : l = k + i
    <3>1. l - k \in Nat /\ l = k + (l - k)
      OBVIOUS
    <3> QED BY <3>1
  <2> QED BY <1>1, <1>2, <2>1
<1>4. k < l => k * m + m <= l * m
  <2> SUFFICES ASSUME k < l PROVE k * m + m <= l * m
    OBVIOUS
  <2>1. PICK i \in Nat : l = (k + 1) + i
    <3>1. l - k - 1 \in Nat /\ l = (k + 1) + (l - k - 1)
      OBVIOUS
    <3> QED BY <3>1
  <2>2. (k + 1) * m = k * m + m /\ k + 1 \in Int
    OBVIOUS
  <2>3. l * m = (k + 1) * m + i * m /\ i * m >= 0 /\ i * m \in Int
    BY <1>2, <2>1, <2>2
  <2> QED BY <1>1, <2>2, <2>3
<1>5. k >= 0 => k * m >= 0
  OBVIOUS
<1> QED BY <1>1, <1>3, <1>4, <1>5

-----------------------------------------------------------------------------
(* The inductive invariant.                                                *)

TypeOK ==
  /\ clock \in Nat /\ wall \in Int /\ jumps \in Nat /\ have_monotonic \in BOOLEAN
  /\ mn_now \in Int /\ ev_rt_now \in Int /\ rtmn_diff \in Int /\ now_floor \in Int
  /\ d \in {2, 4}
  /\ at \in [Watcher -> Int] /\ firedAt \in [Watcher -> Int \cup {NoTime}]
  /\ repeat \in [Timer -> Nat] /\ offset \in [Periodic -> Nat]
  /\ interval \in [Periodic -> Nat \cup {ByCallback}]
  /\ phase \in {"poll", "run"} /\ waittime \in Int /\ suspended \in BOOLEAN

HeapsKept == Kept(d, Timer, timers, at) /\ Kept(d, Periodic, periodics, at)

\* The queue is empty while the loop waits.
QueueKept ==
  /\ Matched(Watcher, q)
  /\ phase = "poll" \/ suspended => NoneQueued(q)
  /\ suspended => phase = "run"

\* Timers that were due earlier are nearer to the end of the queue.
FiredKept ==
  /\ \A t \in Timer : q.pending[t] # 0 => firedAt[t] \in Int
  /\ \A t, u \in Timer : q.pending[t] # 0 /\ q.pending[t] < q.pending[u] => firedAt[u] <= firedAt[t]

\* What the loop knows of the clocks.  It has missed a jump if the difference
\* is not the one that it believes.
ClocksKept ==
  /\ have_monotonic => /\ mn_now <= clock /\ ev_rt_now = mn_now + rtmn_diff
                       /\ rtmn_diff # wall - clock => jumps # 0
  /\ ~have_monotonic => /\ ev_rt_now = mn_now /\ rtmn_diff = 0
                        /\ suspended => mn_now = wall

\* The jumps that periodics may have missed.
Missed ==
  IF ~have_monotonic THEN 0 ELSE IF rtmn_diff = wall - clock THEN jumps ELSE jumps - 1

InPattern(p, t) == (t - offset[p]) % interval[p] = 0
Fast(p)         == interval[p] \in Nat \ {0}

PeriodsKept ==
  \A p \in Running(Periodic, periodics) : Fast(p) =>
    /\ InPattern(p, at[p]) /\ at[p] <= ev_rt_now + interval[p] + Missed * MIN_TIMEJUMP
    /\ phase = "run" /\ ~suspended => ev_rt_now <= at[p]

TimersInv ==
  TypeOK /\ HeapsKept /\ QueueKept /\ FiredKept /\ ClocksKept /\ PeriodsKept /\ NoOversleep

\* u is what time_update makes of the clocks.
Updated(u, forever) ==
  /\ u.mn \in Int /\ u.rt \in Int /\ u.diff \in Int /\ u.floor \in Int /\ u.shift \in Int
  /\ u.reschedule \in BOOLEAN
  /\ have_monotonic =>
       /\ u.shift = 0 /\ u.mn = clock' /\ u.rt = u.mn + u.diff
       /\ \/ u.diff = rtmn_diff /\ ~u.reschedule
          \/ u.diff = wall' - clock' /\ (u.reschedule \/ Near(rtmn_diff - u.diff))
  /\ ~have_monotonic =>
       /\ u.mn = wall' /\ u.rt = wall' /\ u.diff = rtmn_diff
       /\ \/ ~u.reschedule /\ u.shift = 0 /\ mn_now <= wall'
          \/ u.reschedule /\ u.shift = wall' - mn_now /\ (forever => mn_now > wall')

LEMMA UpdateIs ==
  ASSUME TimerAssumption, TypeOK, NEW el \in Nat, NEW by \in Int, Passes(el, by),
         NEW wait \in Int \cup {NoTime}
  PROVE  Updated(time_update(Reading(el, by), wait), wait = NoTime)
<1> DEFINE u == time_update(Reading(el, by), wait)
<1>1. clock' = clock + el /\ wall' = wall + el + by /\ clock' \in Int /\ wall' \in Int
  BY DEF Passes, TypeOK
<1>2. Reading(el, by) = [mono |-> clock', real |-> wall']
  BY <1>1 DEF Reading
<1>3. MIN_TIMEJUMP \in Nat /\ NoTime \notin Int
  BY DEF TimerAssumption
<1>4. CASE have_monotonic /\ 2 * (clock' - now_floor) < MIN_TIMEJUMP
  <2>1. u = [mn |-> clock', rt |-> rtmn_diff + clock', diff |-> rtmn_diff, floor |-> now_floor,
             shift |-> 0, reschedule |-> FALSE]
    BY <1>2, <1>4 DEF time_update
  <2> HIDE DEF u
  <2>2. /\ u.mn = clock' /\ u.rt = rtmn_diff + clock' /\ u.diff = rtmn_diff /\ u.floor = now_floor
        /\ u.shift = 0 /\ ~u.reschedule /\ u.reschedule \in BOOLEAN
    BY <2>1
  <2>3. Updated(u, wait = NoTime)
    BY <1>1, <1>4, <2>2 DEF Updated, TypeOK
  <2> QED BY <2>3 DEF u
<1>5. CASE have_monotonic /\ ~(2 * (clock' - now_floor) < MIN_TIMEJUMP)
  <2> DEFINE res == ~Near(rtmn_diff - (wall' - clock'))
  <2>1. u = [mn |-> clock', rt |-> wall', diff |-> wall' - clock', floor |-> clock', shift |-> 0,
             reschedule |-> res]
    BY <1>2, <1>5 DEF time_update
  <2>2. res \in BOOLEAN
    OBVIOUS
  <2> HIDE DEF u
  <2>3. /\ u.mn = clock' /\ u.rt = wall' /\ u.diff = wall' - clock' /\ u.floor = clock'
        /\ u.shift = 0 /\ u.reschedule = res
    BY <2>1
  <2>4. u.reschedule \/ Near(rtmn_diff - u.diff)
    BY <2>3
  <2> HIDE DEF res
  <2>5. Updated(u, wait = NoTime)
    BY <1>1, <1>5, <2>2, <2>3, <2>4 DEF Updated, TypeOK
  <2> QED BY <2>5 DEF u
<1>6. CASE ~have_monotonic
  <2> DEFINE res == Jumped(Reading(el, by), wait)
  <2>1. u = [mn |-> wall', rt |-> wall', diff |-> rtmn_diff, floor |-> now_floor,
             shift |-> IF res THEN wall' - mn_now ELSE 0, reschedule |-> res]
    BY <1>2, <1>6 DEF time_update
  <2>2. res \in BOOLEAN /\ (res \/ mn_now <= wall') /\ (res /\ wait = NoTime => mn_now > wall')
    BY <1>1, <1>2, <1>3, <1>6 DEF Jumped, Forever, TypeOK
  <2> HIDE DEF u, res
  <2>3. /\ u.mn = wall' /\ u.rt = wall' /\ u.diff = rtmn_diff /\ u.floor = now_floor
        /\ u.shift = (IF res THEN wall' - mn_now ELSE 0) /\ u.reschedule = res
    BY <2>1
  <2>4. CASE res
    <3>1. u.shift = wall' - mn_now /\ u.reschedule = TRUE
      BY <2>2, <2>3, <2>4
    <3>2. Updated(u, wait = NoTime)
      BY <1>1, <1>6, <2>2, <2>3, <2>4, <3>1 DEF Updated, TypeOK
    <3> QED BY <3>2 DEF u
  <2>5. CASE ~res
    <3>1. u.shift = 0 /\ u.reschedule = FALSE
      BY <2>2, <2>3, <2>5
    <3>2. Updated(u, wait = NoTime)
      BY <1>1, <1>6, <2>2, <2>3, <2>5, <3>1 DEF Updated, TypeOK
    <3> QED BY <3>2 DEF u
  <2> QED BY <2>4, <2>5
<1> QED BY <1>4, <1>5, <1>6 DEF TypeOK

LEMMA RescheduledIs ==
  ASSUME TypeOK, NEW p \in Periodic, NEW rt \in Int, NEW old \in Int
  PROVE  /\ Rescheduled(p, rt, old) \in Int
         /\ interval[p] # 0 => rt < Rescheduled(p, rt, old)
         /\ Fast(p) => /\ InPattern(p, Rescheduled(p, rt, old))
                       /\ Rescheduled(p, rt, old) <= rt + interval[p]
<1> DEFINE x == Rescheduled(p, rt, old)
<1>1. interval[p] \in Nat \cup {ByCallback} /\ offset[p] \in Int /\ ByCallback = -1
  BY DEF TypeOK, ByCallback
<1>2. CASE interval[p] = ByCallback
  <2>1. x = rt + 1
    BY <1>2 DEF Rescheduled
  <2> QED BY <1>1, <1>2, <2>1 DEF Fast
<1>3. CASE interval[p] = 0
  <2>1. x = old
    BY <1>1, <1>3 DEF Rescheduled
  <2> QED BY <1>3, <2>1 DEF Fast
<1>4. CASE interval[p] \in Nat \ {0}
  <2>1. x = offset[p] + interval[p] * ((rt - offset[p]) \div interval[p] + 1)
    BY <1>1, <1>4 DEF Rescheduled, periodic_recalc
  <2> HIDE DEF x
  <2>2. x \in Int /\ (x - offset[p]) % interval[p] = 0 /\ rt < x /\ x <= rt + interval[p]
    BY <1>1, <1>4, <2>1, NextMultiple
  <2> QED BY <2>2 DEF x, InPattern
<1> QED BY <1>1, <1>2, <1>3, <1>4

LEMMA SumsGrow ==
  ASSUME NEW a \in Int, NEW b \in Int, NEW c \in Int, a <= b
  PROVE  a + c <= b + c
OBVIOUS

LEMMA DriftGrows ==
  ASSUME NEW t \in Int, NEW len \in Nat, NEW m \in Int, NEW k \in Int, NEW l \in Int,
         NEW a \in Int, NEW b \in Int, t <= a + len + k,
         \/ k <= l /\ a <= b
         \/ k + m <= l /\ a <= b + m
  PROVE  t <= b + len + l
OBVIOUS

\* Jumps that the loop does not notice move periodics away from the real time.
LEMMA DriftNext ==
  ASSUME TimerAssumption, TypeOK, ClocksKept, NEW el \in Nat, NEW by \in Int, Passes(el, by),
         NEW u, NEW forever, Updated(u, forever), SetTime(u), ~u.reschedule,
         NEW t \in Int, NEW len \in Nat, t <= ev_rt_now + len + Missed * MIN_TIMEJUMP
  PROVE  t <= ev_rt_now' + len + Missed' * MIN_TIMEJUMP
<1>1. /\ clock' = clock + el /\ wall' = wall + el + by /\ have_monotonic' = have_monotonic
      /\ jumps' = jumps + IF by = 0 THEN 0 ELSE 1
  BY DEF Passes, fixed
<1>2. mn_now' = u.mn /\ ev_rt_now' = u.rt /\ rtmn_diff' = u.diff
  BY DEF SetTime
<1>3. /\ clock \in Int /\ wall \in Int /\ clock' \in Int /\ wall' \in Int /\ jumps \in Int /\ jumps' \in Int
      /\ mn_now \in Int /\ ev_rt_now \in Int /\ rtmn_diff \in Int
      /\ u.mn \in Int /\ u.rt \in Int /\ u.diff \in Int /\ MIN_TIMEJUMP \in Nat
      /\ have_monotonic \in BOOLEAN /\ Missed \in Int /\ Missed' \in Int
  BY <1>1 DEF TypeOK, Updated, TimerAssumption, Missed
<1> DEFINE K == Missed
           L == Missed'
           M == MIN_TIMEJUMP
<1>4. /\ K * M \in Int /\ L * M \in Int /\ (K <= L => K * M <= L * M)
      /\ (K < L => K * M + M <= L * M)
  <2>1. K \in Int /\ L \in Int /\ M \in Nat
    BY <1>3
  <2> HIDE DEF K, L, M
  <2> QED BY <2>1, ProductsGrow
<1>5. \/ ev_rt_now <= ev_rt_now' /\ K <= L
      \/ ev_rt_now <= ev_rt_now' + M /\ K < L
  <2>1. CASE ~have_monotonic
    <3>1. K = 0 /\ L = 0
      BY <1>1, <2>1 DEF Missed
    <3>2. ev_rt_now <= ev_rt_now'
      BY <1>1, <1>2, <1>3, <2>1 DEF Updated, ClocksKept
    <3> QED BY <3>1, <3>2
  <2>2. CASE have_monotonic
    <3>1. /\ K = IF rtmn_diff = wall - clock THEN jumps ELSE jumps - 1
          /\ L = IF rtmn_diff' = wall' - clock' THEN jumps' ELSE jumps' - 1
      BY <1>1, <2>2 DEF Missed
    <3>2. /\ u.mn = clock' /\ u.rt = u.mn + u.diff /\ mn_now <= clock
          /\ ev_rt_now = mn_now + rtmn_diff /\ mn_now <= clock'
      BY <1>1, <1>3, <2>2 DEF Updated, ClocksKept
    <3> HIDE DEF K, L
    <3>3. CASE u.diff = rtmn_diff
      <4>1. ev_rt_now <= ev_rt_now'
        <5>1. ev_rt_now' = clock' + rtmn_diff /\ ev_rt_now = mn_now + rtmn_diff
          BY <1>2, <3>2, <3>3
        <5>2. ev_rt_now' \in Int
          BY <1>2, <1>3
        <5>3. mn_now \in Int /\ clock' \in Int /\ rtmn_diff \in Int /\ mn_now <= clock'
          BY <1>3, <3>2
        <5> QED BY <5>1, <5>3, SumsGrow
      <4>2. K <= L
        BY <1>1, <1>2, <1>3, <3>1, <3>3
      <4> QED BY <4>1, <4>2
    <3>4. CASE u.diff # rtmn_diff
      <4>1. u.diff = wall' - clock' /\ Near(rtmn_diff - u.diff)
        BY <2>2, <3>4 DEF Updated
      <4>2. rtmn_diff - u.diff < M
        BY <4>1 DEF Near
      <4>3. ev_rt_now <= ev_rt_now' + M
        BY <1>2, <1>3, <3>2, <4>2
      <4>4. L = jumps'
        BY <1>2, <3>1, <4>1
      <4>5. CASE by = 0
        <5>1. wall - clock = wall' - clock' /\ jumps' = jumps
          BY <1>1, <1>3, <4>5
        <5>2. K = jumps - 1
          BY <3>1, <3>4, <4>1, <5>1
        <5> QED BY <1>3, <4>3, <4>4, <5>1, <5>2
      <4>6. CASE by # 0
        <5>1. jumps' = jumps + 1 /\ K <= jumps
          BY <1>1, <1>3, <3>1, <4>6
        <5>2. K < L
          BY <1>3, <4>4, <5>1 DEF K
        <5> QED BY <4>3, <5>2
      <4> QED BY <4>5, <4>6
    <3> QED BY <3>3, <3>4
  <2> QED BY <1>3, <2>1, <2>2
<1>6. t <= ev_rt_now + len + K * M /\ ev_rt_now' \in Int
  BY <1>2, <1>3
<1> HIDE DEF K, L
<1>7. t <= ev_rt_now' + len + L * M
  <2> DEFINE km == K * M
             lm == L * M
  <2>1. km \in Int /\ lm \in Int /\ (K <= L => km <= lm) /\ (K < L => km + M <= lm)
    BY <1>4
  <2>2. t <= ev_rt_now + len + km
    BY <1>6
  <2> HIDE DEF km, lm
  <2>3. ev_rt_now \in Int /\ ev_rt_now' \in Int /\ M \in Int
    BY <1>3, <1>6
  <2> HIDE DEF M
  <2>4. CASE ev_rt_now <= ev_rt_now' /\ K <= L
    <3>1. km <= lm /\ ev_rt_now <= ev_rt_now'
      BY <2>1, <2>4
    <3>2. t <= ev_rt_now' + len + lm
      BY <2>1, <2>2, <2>3, <3>1, DriftGrows
    <3> QED BY <3>2 DEF lm
  <2>5. CASE ev_rt_now <= ev_rt_now' + M /\ K < L
    <3>1. km + M <= lm /\ ev_rt_now <= ev_rt_now' + M
      BY <2>1, <2>5
    <3>2. t <= ev_rt_now' + len + lm
      BY <2>1, <2>2, <2>3, <3>1, DriftGrows
    <3> QED BY <3>2 DEF lm
  <2> QED BY <1>5, <2>4, <2>5 DEF M
<1> QED BY <1>7 DEF L

LEMMA MissedNatural ==
  ASSUME TypeOK, ClocksKept
  PROVE  Missed \in Nat /\ Missed <= jumps
BY DEF TypeOK, ClocksKept, Missed

\* What the clocks say after a look at them, but for suspension.
LEMMA ClocksNext ==
  ASSUME TimerAssumption, TypeOK, ClocksKept, NEW el \in Nat, NEW by \in Int, Passes(el, by),
         NEW u, NEW forever, Updated(u, forever), SetTime(u)
  PROVE  /\ clock' \in Nat /\ wall' \in Int /\ jumps' \in Nat /\ have_monotonic' = have_monotonic
         /\ mn_now' \in Int /\ ev_rt_now' \in Int /\ rtmn_diff' \in Int /\ now_floor' \in Int
         /\ have_monotonic => /\ mn_now' <= clock' /\ ev_rt_now' = mn_now' + rtmn_diff'
                              /\ rtmn_diff' # wall' - clock' => jumps' # 0
         /\ ~have_monotonic => ev_rt_now' = mn_now' /\ rtmn_diff' = 0 /\ mn_now' = wall'
<1>1. /\ clock' = clock + el /\ wall' = wall + el + by /\ have_monotonic' = have_monotonic
      /\ jumps' = jumps + IF by = 0 THEN 0 ELSE 1
  BY DEF Passes, fixed
<1>2. mn_now' = u.mn /\ ev_rt_now' = u.rt /\ rtmn_diff' = u.diff /\ now_floor' = u.floor
  BY DEF SetTime
<1>3. /\ clock \in Nat /\ wall \in Int /\ clock' \in Nat /\ wall' \in Int /\ jumps \in Nat /\ jumps' \in Nat
      /\ mn_now \in Int /\ ev_rt_now \in Int /\ rtmn_diff \in Int
      /\ u.mn \in Int /\ u.rt \in Int /\ u.diff \in Int /\ u.floor \in Int
  BY <1>1 DEF TypeOK, Updated
<1>4. ASSUME have_monotonic
      PROVE  /\ mn_now' <= clock' /\ ev_rt_now' = mn_now' + rtmn_diff'
             /\ rtmn_diff' # wall' - clock' => jumps' # 0
  <2>1. /\ u.mn = clock' /\ u.rt = u.mn + u.diff
        /\ u.diff = rtmn_diff \/ u.diff = wall' - clock'
    BY <1>4 DEF Updated
  <2>2. rtmn_diff # wall - clock => jumps # 0
    BY <1>4 DEF ClocksKept
  <2>3. ASSUME rtmn_diff' # wall' - clock' PROVE jumps' # 0
    <3>1. CASE by = 0
      BY <1>1, <1>2, <1>3, <2>1, <2>2, <2>3, <3>1
    <3>2. CASE by # 0
      BY <1>1, <1>3, <3>2
    <3> QED BY <3>1, <3>2
  <2> QED BY <1>2, <1>3, <2>1, <2>3
<1>5. ASSUME ~have_monotonic PROVE ev_rt_now' = mn_now' /\ rtmn_diff' = 0 /\ mn_now' = wall'
  BY <1>2, <1>5 DEF Updated, ClocksKept
<1> QED BY <1>1, <1>2, <1>3, <1>4, <1>5

-----------------------------------------------------------------------------
(* What time_update does to the heaps.                                     *)

LEMMA KeptSame ==
  ASSUME NEW D \in {2, 4}, NEW W, NEW h, NEW times, Kept(D, W, h, times), NEW new,
         \A v \in Running(W, h) : new[v] = times[v]
  PROVE  Kept(D, W, h, new)
<1>1. Sound(D, W, h) /\ \A e \in All(h) : e.at = times[e.w]
  BY DEF Kept
<1>2. Running(W, h) = {e.w : e \in All(h)}
  BY <1>1, RunningIs
<1>3. \A e \in All(h) : e.at = new[e.w]
  BY <1>1, <1>2
<1> QED BY <1>1, <1>3 DEF Kept

ByOf(u, resume) == u.shift + IF resume THEN u.mn - mn_now ELSE 0
Shifted(t, by)  == IF t \in Running(Timer, timers) THEN at[t] + by ELSE at[t]

Adjusts(u, resume, a) ==
  /\ a.at \in [Watcher -> Int]
  /\ Kept(d, Timer, a.timers, a.at) /\ Running(Timer, a.timers) = Running(Timer, timers)
  /\ Kept(d, Periodic, a.periodics, a.at) /\ Running(Periodic, a.periodics) = Running(Periodic, periodics)
  /\ \A t \in Timer : a.at[t] = Shifted(t, ByOf(u, resume))
  /\ \A p \in Periodic :
       a.at[p] = IF (u.reschedule \/ resume) /\ p \in Running(Periodic, periodics)
                   THEN Rescheduled(p, u.rt, at[p]) ELSE at[p]

LEMMA AdjustedIs ==
  ASSUME TimerAssumption, TypeOK, HeapsKept, NEW u, NEW forever, Updated(u, forever),
         NEW resume \in BOOLEAN
  PROVE  Adjusts(u, resume, Adjusted(u, resume))
<1> DEFINE by    == ByOf(u, resume)
           moved == timers_reschedule(by)
           all   == periodics_reschedule(moved, u.rt)
           ph    == reheap(d, Cached(periodics, all), Len(periodics.heap))
           a     == Adjusted(u, resume)
<1>1. /\ Timer \cap Periodic = {} /\ Watcher = Timer \cup Periodic /\ d \in {2, 4}
      /\ at \in [Watcher -> Int] /\ by \in Int /\ u.rt \in Int
      /\ Kept(d, Timer, timers, at) /\ Kept(d, Periodic, periodics, at)
  BY DEF TimerAssumption, Watcher, TypeOK, Updated, HeapsKept, ByOf
<1>2. a = IF u.reschedule \/ resume
            THEN [timers |-> Cached(timers, all), at |-> all, periodics |-> ph]
            ELSE [timers |-> Cached(timers, moved), at |-> moved, periodics |-> periodics]
  BY DEF Adjusted, ByOf
<1> HIDE DEF by, a
<1>3. /\ moved \in [Watcher -> Int] /\ \A t \in Timer : moved[t] = Shifted(t, by)
      /\ \A p \in Periodic : moved[p] = at[p]
  BY <1>1 DEF timers_reschedule, Shifted, Running
<1> HIDE DEF moved
<1>4. /\ all \in [Watcher -> Int] /\ \A t \in Timer : all[t] = Shifted(t, by)
      /\ \A p \in Periodic : all[p] = IF p \in Running(Periodic, periodics)
                                        THEN Rescheduled(p, u.rt, at[p]) ELSE at[p]
  <2>1. all = [w \in Watcher |-> IF w \in Running(Periodic, periodics)
                                   THEN Rescheduled(w, u.rt, moved[w]) ELSE moved[w]]
    BY DEF periodics_reschedule, Running
  <2> HIDE DEF all
  <2>2. \A p \in Periodic : Rescheduled(p, u.rt, moved[p]) \in Int /\ moved[p] = at[p]
    BY <1>1, <1>3, RescheduledIs
  <2>3. Running(Periodic, periodics) \subseteq Periodic
    BY DEF Running
  <2> QED BY <1>1, <1>3, <2>1, <2>2, <2>3
<1> HIDE DEF all
<1>5. CASE u.reschedule \/ resume
  <2>1. a.timers = Cached(timers, all) /\ a.at = all /\ a.periodics = ph
    BY <1>2, <1>5
  <2> HIDE DEF ph
  <2>2. /\ Kept(d, Timer, Cached(timers, all), all)
        /\ Running(Timer, Cached(timers, all)) = Running(Timer, timers)
    <3>1. /\ \A v \in Timer : all[v] \in Int
          /\ \A v \in Running(Timer, timers) : all[v] = at[v] + by
      BY <1>1, <1>4 DEF Running, Shifted
    <3> QED BY <1>1, <3>1, ShiftedKept
  <2>3. Kept(d, Periodic, ph, all) /\ Running(Periodic, ph) = Running(Periodic, periodics)
    <3>1. \A v \in Periodic : all[v] \in Int
      BY <1>1, <1>4
    <3> QED BY <1>1, <3>1, ReheapKept DEF ph
  <2> QED BY <1>4, <1>5, <2>1, <2>2, <2>3 DEF Adjusts, by, a
<1>6. CASE ~(u.reschedule \/ resume)
  <2>1. a.timers = Cached(timers, moved) /\ a.at = moved /\ a.periodics = periodics
    BY <1>2, <1>6
  <2>2. /\ Kept(d, Timer, Cached(timers, moved), moved)
        /\ Running(Timer, Cached(timers, moved)) = Running(Timer, timers)
    <3>1. /\ \A v \in Timer : moved[v] \in Int
          /\ \A v \in Running(Timer, timers) : moved[v] = at[v] + by
      BY <1>1, <1>3 DEF Running, Shifted
    <3> QED BY <1>1, <3>1, ShiftedKept
  <2>3. Kept(d, Periodic, periodics, moved)
    <3>1. \A v \in Running(Periodic, periodics) : moved[v] = at[v]
      BY <1>3 DEF Running
    <3> QED BY <1>1, <3>1, KeptSame
  <2> QED BY <1>3, <1>6, <2>1, <2>2, <2>3 DEF Adjusts, by, a
<1> QED BY <1>5, <1>6

\* The pattern of periodics survives a look at the clocks.
LEMMA PatternNext ==
  ASSUME TimerAssumption, TypeOK, ClocksKept, PeriodsKept, NEW el \in Nat, NEW by \in Int,
         Passes(el, by), NEW u, NEW forever, Updated(u, forever), SetTime(u),
         NEW resume \in BOOLEAN, NEW a, Adjusts(u, resume, a),
         NEW p \in Running(Periodic, periodics), Fast(p)
  PROVE  /\ InPattern(p, a.at[p])
         /\ a.at[p] <= ev_rt_now' + interval[p] + Missed' * MIN_TIMEJUMP
         /\ resume => ev_rt_now' < a.at[p]
<1>1. p \in Periodic /\ p \in Watcher /\ at[p] \in Int /\ interval[p] \in Nat /\ u.rt \in Int
      /\ ev_rt_now' = u.rt
  BY DEF Running, Watcher, Fast, Updated, SetTime, TypeOK
<1>2. CASE u.reschedule \/ resume
  <2> DEFINE x == Rescheduled(p, u.rt, at[p])
  <2>1. a.at[p] = x
    BY <1>1, <1>2 DEF Adjusts
  <2>2. x \in Int /\ u.rt < x /\ InPattern(p, x) /\ x <= u.rt + interval[p]
    BY <1>1, RescheduledIs DEF Fast
  <2>3. Missed' * MIN_TIMEJUMP \in Int /\ Missed' * MIN_TIMEJUMP >= 0
    <3>1. /\ jumps' \in Nat /\ have_monotonic' = have_monotonic
          /\ have_monotonic /\ rtmn_diff' # wall' - clock' => jumps' # 0
      BY ClocksNext
    <3>2. Missed' = IF ~have_monotonic' THEN 0
                    ELSE IF rtmn_diff' = wall' - clock' THEN jumps' ELSE jumps' - 1
      BY DEF Missed
    <3>3. Missed' \in Nat
      <4>1. CASE ~have_monotonic'
        BY <3>2, <4>1
      <4>2. CASE have_monotonic' /\ rtmn_diff' = wall' - clock'
        BY <3>1, <3>2, <4>2
      <4>3. CASE have_monotonic' /\ rtmn_diff' # wall' - clock'
        <5>1. Missed' = jumps' - 1 /\ jumps' # 0
          BY <3>1, <3>2, <4>3
        <5> QED BY <3>1, <5>1
      <4> QED BY <4>1, <4>2, <4>3
    <3>4. MIN_TIMEJUMP \in Nat
      BY DEF TimerAssumption
    <3>5. \A k \in Nat, m \in Nat : k * m \in Int /\ k * m >= 0
      OBVIOUS
    <3> QED BY <3>3, <3>4, <3>5
  <2> HIDE DEF x
  <2> QED BY <1>1, <2>1, <2>2, <2>3
<1>3. CASE ~(u.reschedule \/ resume)
  <2>1. a.at[p] = at[p]
    BY <1>1, <1>3 DEF Adjusts
  <2>2. InPattern(p, at[p]) /\ at[p] <= ev_rt_now + interval[p] + Missed * MIN_TIMEJUMP
    BY DEF PeriodsKept
  <2>3. at[p] <= ev_rt_now' + interval[p] + Missed' * MIN_TIMEJUMP
    BY <1>1, <1>3, <2>2, DriftNext
  <2> QED BY <1>3, <2>1, <2>2, <2>3
<1> QED BY <1>2, <1>3

-----------------------------------------------------------------------------
(* timers_reify and periodics_reify.                                       *)

Repeating      == {t \in Timer : repeat[t] # 0}
Recurring      == {p \in Periodic : interval[p] # 0}
TimerNext(now) ==
  [x \in Timer \X Int |-> IF x[2] + repeat[x[1]] < now THEN now ELSE x[2] + repeat[x[1]]]
TimerLeft(now)   == [x \in Timer \X Int |-> x[2] - now]
PeriodicNext(rt) ==
  [x \in Periodic \X Int |-> IF interval[x[1]] = 0 THEN rt ELSE Rescheduled(x[1], rt, x[2])]
PeriodicLeft     == [x \in Periodic \X Int |-> x[2]]

LEMMA FirstIs ==
  ASSUME NEW W, W \subseteq Watcher, NEW s \in Work(W), NEW now, Due(s, now)
  PROVE  s.h.heap[1].w \in W /\ s.at[s.h.heap[1].w] \in Int
<1>1. s.h \in Heaps(W) /\ s.at \in [Watcher -> Int] /\ s.h.heap # <<>>
  BY WorkParts DEF Due
<1>2. Len(s.h.heap) \in Nat /\ s.h.heap \in Seq(Entry(W))
  BY <1>1, EntryType
<1>3. 1 \in 1..Len(s.h.heap)
  BY <1>1, <1>2
<1>4. s.h.heap[1].w \in W
  BY <1>1, <1>3, EntryType
<1> QED BY <1>1, <1>4

LEMMA TimerRoundIs ==
  ASSUME TypeOK, NEW now \in Int
  PROVE  /\ TimerRound(now) = FireRound(Timer, now, Repeating, TimerNext(now), TimerLeft(now))
         /\ TimerNext(now) \in [Timer \X Int -> Int] /\ TimerLeft(now) \in [Timer \X Int -> Int]
         /\ \A v \in Timer : \A t \in Int : now <= TimerNext(now)[<<v, t>>]
<1>1. repeat \in [Timer -> Nat] /\ Timer \subseteq Watcher
  BY DEF TypeOK, Watcher
<1> DEFINE one(s) ==
      LET w    == s.h.heap[1].w
          next == s.at[w] + repeat[w]
      IN  IF ~Due(s, now) THEN s
          ELSE IF repeat[w] # 0 THEN Again(s, w, IF next < now THEN now ELSE next)
          ELSE Once(s, w, s.at[w] - now)
           other(s) ==
      LET w == s.h.heap[1].w
      IN  IF ~Due(s, now) THEN s
          ELSE IF w \in Repeating THEN Again(s, w, TimerNext(now)[<<w, s.at[w]>>])
          ELSE Once(s, w, TimerLeft(now)[<<w, s.at[w]>>])
<1>2. ASSUME NEW s \in Work(Timer) PROVE one(s) = other(s)
  <2>1. CASE Due(s, now)
    <3> DEFINE w == s.h.heap[1].w
    <3>1. w \in Timer /\ s.at[w] \in Int
      BY <1>1, <2>1, FirstIs
    <3> HIDE DEF w
    <3>2. /\ TimerNext(now)[<<w, s.at[w]>>] = IF s.at[w] + repeat[w] < now THEN now ELSE s.at[w] + repeat[w]
          /\ TimerLeft(now)[<<w, s.at[w]>>] = s.at[w] - now
          /\ w \in Repeating <=> repeat[w] # 0
      BY <3>1 DEF TimerNext, TimerLeft, Repeating
    <3> QED BY <2>1, <3>2 DEF w
  <2>2. CASE ~Due(s, now)
    BY <2>2
  <2> QED BY <2>1, <2>2
<1>3. TimerRound(now) = [s \in Work(Timer) |-> one(s)]
  BY DEF TimerRound
<1>4. FireRound(Timer, now, Repeating, TimerNext(now), TimerLeft(now)) = [s \in Work(Timer) |-> other(s)]
  BY DEF FireRound
<1> HIDE DEF one, other
<1>5. TimerRound(now) = FireRound(Timer, now, Repeating, TimerNext(now), TimerLeft(now))
  BY <1>2, <1>3, <1>4
<1>6. TimerNext(now) \in [Timer \X Int -> Int] /\ TimerLeft(now) \in [Timer \X Int -> Int]
  BY <1>1 DEF TimerNext, TimerLeft
<1>7. \A v \in Timer : \A t \in Int : now <= TimerNext(now)[<<v, t>>]
  BY <1>1 DEF TimerNext
<1> QED BY <1>5, <1>6, <1>7

LEMMA PeriodicRoundIs ==
  ASSUME TypeOK, NEW rt \in Int
  PROVE  /\ PeriodicRound(rt) = FireRound(Periodic, rt, Recurring, PeriodicNext(rt), PeriodicLeft)
         /\ PeriodicNext(rt) \in [Periodic \X Int -> Int] /\ PeriodicLeft \in [Periodic \X Int -> Int]
         /\ \A v \in Periodic : \A t \in Int : rt <= PeriodicNext(rt)[<<v, t>>]
<1>1. Periodic \subseteq Watcher
  BY DEF TypeOK, Watcher
<1>0. ASSUME NEW p \in Periodic, NEW t \in Int
      PROVE  /\ PeriodicNext(rt)[<<p, t>>] = IF interval[p] = 0 THEN rt ELSE Rescheduled(p, rt, t)
             /\ PeriodicLeft[<<p, t>>] = t
             /\ PeriodicNext(rt)[<<p, t>>] \in Int /\ rt <= PeriodicNext(rt)[<<p, t>>]
  <2>1. /\ PeriodicNext(rt)[<<p, t>>] = IF interval[p] = 0 THEN rt ELSE Rescheduled(p, rt, t)
        /\ PeriodicLeft[<<p, t>>] = t
    BY DEF PeriodicNext, PeriodicLeft
  <2>2. Rescheduled(p, rt, t) \in Int /\ (interval[p] # 0 => rt < Rescheduled(p, rt, t))
    BY RescheduledIs
  <2> QED BY <2>1, <2>2
<1> DEFINE one(s) ==
      LET w == s.h.heap[1].w
      IN  IF ~Due(s, rt) THEN s
          ELSE IF interval[w] # 0 THEN Again(s, w, Rescheduled(w, rt, s.at[w]))
          ELSE Once(s, w, s.at[w])
           other(s) ==
      LET w == s.h.heap[1].w
      IN  IF ~Due(s, rt) THEN s
          ELSE IF w \in Recurring THEN Again(s, w, PeriodicNext(rt)[<<w, s.at[w]>>])
          ELSE Once(s, w, PeriodicLeft[<<w, s.at[w]>>])
<1>2. ASSUME NEW s \in Work(Periodic) PROVE one(s) = other(s)
  <2>1. CASE Due(s, rt)
    <3> DEFINE w == s.h.heap[1].w
    <3>1. w \in Periodic /\ s.at[w] \in Int
      BY <1>1, <2>1, FirstIs
    <3> HIDE DEF w
    <3>2. /\ PeriodicNext(rt)[<<w, s.at[w]>>] = IF interval[w] = 0 THEN rt ELSE Rescheduled(w, rt, s.at[w])
          /\ PeriodicLeft[<<w, s.at[w]>>] = s.at[w]
      BY <1>0, <3>1
    <3>3. w \in Recurring <=> interval[w] # 0
      BY <3>1 DEF Recurring
    <3> QED BY <2>1, <3>2, <3>3 DEF w
  <2>2. CASE ~Due(s, rt)
    BY <2>2
  <2> QED BY <2>1, <2>2
<1>3. PeriodicRound(rt) = [s \in Work(Periodic) |-> one(s)]
  BY DEF PeriodicRound
<1>4. FireRound(Periodic, rt, Recurring, PeriodicNext(rt), PeriodicLeft) = [s \in Work(Periodic) |-> other(s)]
  BY DEF FireRound
<1> HIDE DEF one, other
<1>5. PeriodicRound(rt) = FireRound(Periodic, rt, Recurring, PeriodicNext(rt), PeriodicLeft)
  BY <1>2, <1>3, <1>4
<1>6. PeriodicNext(rt) \in [Periodic \X Int -> Int] /\ PeriodicLeft \in [Periodic \X Int -> Int]
  <2>1. \A x \in Periodic \X Int : PeriodicNext(rt)[x] \in Int
    BY <1>0
  <2>2. PeriodicNext(rt) = [x \in Periodic \X Int |-> PeriodicNext(rt)[x]]
    BY DEF PeriodicNext
  <2>3. PeriodicLeft \in [Periodic \X Int -> Int]
    BY DEF PeriodicLeft
  <2> QED BY <2>1, <2>2, <2>3
<1> QED BY <1>0, <1>5, <1>6

\* What timers_reify and periodics_reify do.
TimersFired(b, now, s)   == Looped(Timer, now, Repeating, TimerNext(now), b, s)
PeriodicsFired(b, rt, s) == Looped(Periodic, rt, Recurring, PeriodicNext(rt), b, s)

LEMMA TimersReifyIs ==
  ASSUME TypeOK, NEW now \in Int, NEW b, Starts(Timer, b)
  PROVE  TimersFired(b, now, timers_reify(b, now))
<1>1. d \in {2, 4} /\ Timer \subseteq Watcher
  BY DEF TypeOK, Watcher
<1>2. timers_reify(b, now) =
        After(FireRound(Timer, now, Repeating, TimerNext(now), TimerLeft(now)), b, Len(b.h.heap))
  BY TimerRoundIs DEF timers_reify
<1>3. /\ TimerNext(now) \in [Timer \X Int -> Int] /\ TimerLeft(now) \in [Timer \X Int -> Int]
      /\ \A v \in Timer : \A t \in Int : now <= TimerNext(now)[<<v, t>>]
  BY TimerRoundIs
<1>4. Looped(Timer, now, Repeating, TimerNext(now), b,
             After(FireRound(Timer, now, Repeating, TimerNext(now), TimerLeft(now)), b, Len(b.h.heap)))
  BY <1>1, <1>3, FireLoopIs
<1> QED BY <1>2, <1>4 DEF TimersFired

LEMMA PeriodicsReifyIs ==
  ASSUME TypeOK, NEW rt \in Int, NEW b, Starts(Periodic, b)
  PROVE  PeriodicsFired(b, rt, periodics_reify(b, rt))
<1>1. d \in {2, 4} /\ Periodic \subseteq Watcher
  BY DEF TypeOK, Watcher
<1>2. periodics_reify(b, rt) =
        After(FireRound(Periodic, rt, Recurring, PeriodicNext(rt), PeriodicLeft), b, Len(b.h.heap))
  BY PeriodicRoundIs DEF periodics_reify
<1>3. /\ PeriodicNext(rt) \in [Periodic \X Int -> Int] /\ PeriodicLeft \in [Periodic \X Int -> Int]
      /\ \A v \in Periodic : \A t \in Int : rt <= PeriodicNext(rt)[<<v, t>>]
  BY PeriodicRoundIs
<1>4. Looped(Periodic, rt, Recurring, PeriodicNext(rt), b,
             After(FireRound(Periodic, rt, Recurring, PeriodicNext(rt), PeriodicLeft), b, Len(b.h.heap)))
  BY <1>1, <1>3, FireLoopIs
<1> QED BY <1>2, <1>4 DEF PeriodicsFired

\* The watchers of fed are put into the queue, the last one first.
Reversed(u, fed, r) ==
  /\ Matched(Watcher, r)
  /\ \A j \in 1..Len(fed) :
       r.pending[fed[j]] = Len(u.list[0]) + Len(fed) + 1 - j /\ r.pending[fed[j]] # 0
  /\ \A v \in Watcher : (\A j \in 1..Len(fed) : fed[j] # v) => r.pending[v] = u.pending[v]

LEMMA TypesKnown == "TIMER" \in Revents /\ "PERIODIC" \in Revents
BY DEF Revents

LEMMA ReversedIs ==
  ASSUME TimerAssumption, NEW u, Matched(Watcher, u), NEW fed \in Seq(Watcher), Distinct(fed),
         \A j \in 1..Len(fed) : u.pending[fed[j]] = 0, NEW type \in Revents
  PROVE  Reversed(u, fed, FeedReverse(u, pri, fed, type))
<1> DEFINE n  == Len(fed)
           ws == Reverse(fed)
           r  == FeedReverse(u, pri, fed, type)
<1>1. /\ n \in Nat /\ u \in Queues({0}, Watcher) /\ NoWatcher \notin Watcher
      /\ \A v \in Watcher : pri[v] = 0
  BY DEF Matched, TimerAssumption, pri
<1>2. ws = [i \in 1..n |-> fed[(n - i) + 1]]
  BY DEF Reverse
<1>3. \A i \in 1..n : (n - i) + 1 \in 1..n /\ fed[(n - i) + 1] \in Watcher
  BY <1>1
<1>4. /\ ws \in Seq(Watcher) /\ Len(ws) = n
      /\ \A i \in 1..n : ws[i] = fed[(n - i) + 1]
  <2>1. ws \in [1..n -> Watcher] /\ \A i \in 1..n : ws[i] = fed[(n - i) + 1]
    BY <1>2, <1>3
  <2> HIDE DEF ws
  <2>2. ws \in Seq(Watcher)
    BY <1>1, <2>1
  <2>3. Len(ws) = n
    BY <1>1, <2>1, <2>2
  <2> QED BY <2>1, <2>2, <2>3
<1> HIDE DEF ws
<1>5. Distinct(ws)
  <2> SUFFICES ASSUME NEW i \in 1..n, NEW j \in 1..n, ws[i] = ws[j] PROVE i = j
    BY <1>4 DEF Distinct
  <2>1. fed[(n - i) + 1] = fed[(n - j) + 1] /\ (n - i) + 1 \in 1..n /\ (n - j) + 1 \in 1..n
    BY <1>3, <1>4
  <2>2. (n - i) + 1 = (n - j) + 1
    BY <2>1 DEF Distinct
  <2> QED BY <1>1, <2>2
<1>6. \A j \in 1..Len(ws) : u.pending[ws[j]] = 0
  BY <1>3, <1>4
<1>7. Fed(Watcher, u, ws, Len(ws), r)
  <2>1. r = queue_events(u, pri, ws, type)
    BY DEF FeedReverse, ws
  <2> HIDE DEF r, n
  <2> QED BY <1>1, <1>4, <1>5, <1>6, <2>1, QueuedIs
<1> HIDE DEF r
<1>8. Matched(Watcher, r)
  BY <1>1, <1>4, <1>5, <1>6, <1>7, FedMatched
<1>9. Len(u.list[0]) \in Nat
  BY <1>1, QueueType
<1>10. ASSUME NEW j \in 1..n
       PROVE  r.pending[fed[j]] = Len(u.list[0]) + n + 1 - j /\ r.pending[fed[j]] # 0
  <2>1. PICK i \in 1..n : i = (n - j) + 1
    BY <1>3
  <2>2. (n - i) + 1 = j
    BY <1>1, <2>1
  <2>3. ws[i] = fed[j]
    BY <1>4, <2>2
  <2>4. r.pending[fed[j]] = Len(u.list[0]) + i
    BY <1>4, <1>7, <2>3 DEF Fed
  <2> QED BY <1>1, <1>9, <2>1, <2>4
<1>11. ASSUME NEW v \in Watcher, \A j \in 1..n : fed[j] # v PROVE r.pending[v] = u.pending[v]
  <2>1. \A j \in 1..Len(ws) : ws[j] # v
    BY <1>3, <1>4, <1>11
  <2> QED BY <1>7, <2>1 DEF Fed
<1> QED BY <1>8, <1>10, <1>11 DEF Reversed, r

\* What a loop over the watchers of W comes to, with the queue r after it.
Passed(W, now, b, v) == v \in Running(W, b.h) /\ b.at[v] < now

Outcome(W, now, again, next, b, s, r) ==
  /\ \A v \in W : ~Passed(W, now, b, v) =>
       /\ s.at[v] = b.at[v] /\ r.pending[v] = 0
       /\ v \in Running(W, s.h) <=> v \in Running(W, b.h)
  /\ \A v \in W : Passed(W, now, b, v) =>
       /\ r.pending[v] # 0 /\ s.firedAt[v] = b.at[v]
       /\ v \in Running(W, s.h) <=> v \in again
       /\ v \in again => s.at[v] = next[<<v, b.at[v]>>]
  /\ \A v \in Watcher \ W :
       s.at[v] = b.at[v] /\ s.firedAt[v] = b.firedAt[v] /\ r.pending[v] = b.q.pending[v]
  /\ \A v \in W : \A w \in W :
       r.pending[v] # 0 /\ r.pending[v] < r.pending[w] => s.firedAt[w] <= s.firedAt[v]
  /\ \A v \in Running(W, s.h) : now <= s.at[v]

LEMMA OutcomeIs ==
  ASSUME NEW W, W \subseteq Watcher, NEW now \in Int, NEW again, NEW next, NEW b, Starts(W, b),
         NEW s, Looped(W, now, again, next, b, s), NEW r, Reversed(s.q, s.fed, r)
  PROVE  Outcome(W, now, again, next, b, s, r)
<1> DEFINE n == Len(s.fed)
<1>1. /\ s \in Work(W) /\ s.q = b.q
      /\ \A v \in Watcher : v \notin W \/ ~InFed(s, v) => s.at[v] = b.at[v] /\ s.firedAt[v] = b.firedAt[v]
      /\ \A v \in W : ~InFed(s, v) => (v \in Running(W, s.h) <=> v \in Running(W, b.h))
      /\ \A j \in 1..n :
           /\ s.fed[j] \in Running(W, b.h) /\ b.at[s.fed[j]] < now
           /\ s.firedAt[s.fed[j]] = b.at[s.fed[j]]
           /\ s.fed[j] \in again => /\ s.fed[j] \in Running(W, s.h)
                                    /\ s.at[s.fed[j]] = next[<<s.fed[j], b.at[s.fed[j]]>>]
           /\ s.fed[j] \notin again => s.fed[j] \notin Running(W, s.h)
      /\ \A i \in 1..n : \A j \in 1..n : i < j => b.at[s.fed[i]] <= b.at[s.fed[j]]
  BY DEF Looped, Fires
<1>2. /\ b.at \in [Watcher -> Int] /\ s.at \in [Watcher -> Int] /\ n \in Nat
      /\ \A j \in 1..n : s.fed[j] \in W
      /\ \A v \in W : b.q.pending[v] = 0
  BY <1>1, WorkParts DEF Starts
<1>3. /\ Matched(Watcher, r)
      /\ \A j \in 1..n : r.pending[s.fed[j]] = Len(s.q.list[0]) + n + 1 - j /\ r.pending[s.fed[j]] # 0
      /\ \A v \in Watcher : ~InFed(s, v) => r.pending[v] = b.q.pending[v]
  BY <1>1 DEF Reversed, InFed
<1>4. Len(s.q.list[0]) \in Nat /\ \A v \in Watcher : r.pending[v] \in Nat
  <2>1. s.q \in Queues({0}, Watcher) /\ r \in Queues({0}, Watcher)
    BY <1>1, <1>3, WorkParts DEF Matched
  <2>2. r.pending \in [Watcher -> Nat]
    BY <2>1, QueueType
  <2> QED BY <2>1, <2>2, QueueType
<1>5. ASSUME NEW v \in Running(W, s.h) PROVE now <= s.at[v]
  <2>1. v \in Watcher /\ ~(s.at[v] < now)
    BY DEF Running, Looped, Overdue
  <2> QED BY <1>2, <2>1
<1>6. ASSUME NEW v \in W PROVE Passed(W, now, b, v) <=> InFed(s, v)
  <2>1. ASSUME InFed(s, v) PROVE Passed(W, now, b, v)
    BY <1>1, <2>1 DEF InFed, Passed
  <2>2. ASSUME ~InFed(s, v), Passed(W, now, b, v) PROVE FALSE
    <3>1. v \in Watcher /\ v \in Running(W, s.h) /\ s.at[v] = b.at[v] /\ b.at[v] < now
      BY <1>1, <2>2 DEF Passed
    <3>2. now <= s.at[v] /\ s.at[v] \in Int
      BY <1>2, <1>5, <3>1
    <3> QED BY <3>1, <3>2
  <2> QED BY <2>1, <2>2
<1>7. ASSUME NEW v \in W, ~Passed(W, now, b, v)
      PROVE  /\ s.at[v] = b.at[v] /\ r.pending[v] = 0
             /\ v \in Running(W, s.h) <=> v \in Running(W, b.h)
  BY <1>1, <1>2, <1>3, <1>6, <1>7
<1>8. ASSUME NEW v \in W, Passed(W, now, b, v)
      PROVE  /\ r.pending[v] # 0 /\ s.firedAt[v] = b.at[v]
             /\ v \in Running(W, s.h) <=> v \in again
             /\ v \in again => s.at[v] = next[<<v, b.at[v]>>]
  <2>1. PICK j \in 1..n : s.fed[j] = v
    BY <1>6, <1>8 DEF InFed
  <2> QED BY <1>1, <1>3, <2>1
<1>9. ASSUME NEW v \in Watcher \ W
      PROVE  s.at[v] = b.at[v] /\ s.firedAt[v] = b.firedAt[v] /\ r.pending[v] = b.q.pending[v]
  <2>1. ~InFed(s, v)
    BY <1>2 DEF InFed
  <2> QED BY <1>1, <1>3, <2>1
<1>10. ASSUME NEW v \in W, NEW w \in W, r.pending[v] # 0, r.pending[v] < r.pending[w]
       PROVE  s.firedAt[w] <= s.firedAt[v]
  <2>1. r.pending[w] # 0 /\ v \in Watcher /\ w \in Watcher
    BY <1>4, <1>10
  <2>2. InFed(s, v) /\ InFed(s, w)
    BY <1>2, <1>3, <1>10, <2>1
  <2>3. PICK i \in 1..n : s.fed[i] = v
    BY <2>2 DEF InFed
  <2>4. PICK j \in 1..n : s.fed[j] = w
    BY <2>2 DEF InFed
  <2>5. j < i
    <3>1. Len(s.q.list[0]) + n + 1 - i < Len(s.q.list[0]) + n + 1 - j
      BY <1>3, <1>10, <2>3, <2>4
    <3> HIDE DEF n
    <3> QED BY <1>2, <1>4, <3>1
  <2>6. b.at[w] <= b.at[v] /\ s.firedAt[w] = b.at[w] /\ s.firedAt[v] = b.at[v]
    BY <1>1, <2>3, <2>4, <2>5
  <2> QED BY <2>6
<1> HIDE DEF n
<1> QED BY <1>5, <1>7, <1>8, <1>9, <1>10 DEF Outcome

\* What the reification of both does, from the heaps and times a.
TsOf(u, a) ==
  timers_reify([h |-> a.timers, at |-> a.at, q |-> q, fed |-> <<>>, firedAt |-> firedAt], u.mn)
PsOf(u, a) ==
  periodics_reify([TsOf(u, a) EXCEPT !.h = a.periodics, !.fed = <<>>,
                     !.q = FeedReverse(TsOf(u, a).q, pri, TsOf(u, a).fed, "TIMER")], u.rt)
QOf(u, a)  == FeedReverse(PsOf(u, a).q, pri, PsOf(u, a).fed, "PERIODIC")

TimerPassed(u, a, t) == t \in Running(Timer, timers) /\ a.at[t] < u.mn

Reified(u, a, th, ph, at1, q1, fired1) ==
  /\ at1 \in [Watcher -> Int] /\ fired1 \in [Watcher -> Int \cup {NoTime}]
  /\ Kept(d, Timer, th, at1) /\ Kept(d, Periodic, ph, at1) /\ Matched(Watcher, q1)
  /\ \A t \in Timer : ~TimerPassed(u, a, t) =>
       /\ at1[t] = a.at[t] /\ q1.pending[t] = 0
       /\ t \in Running(Timer, th) <=> t \in Running(Timer, timers)
  /\ \A t \in Timer : TimerPassed(u, a, t) =>
       /\ q1.pending[t] # 0 /\ fired1[t] = a.at[t]
       /\ t \in Running(Timer, th) <=> repeat[t] # 0
       /\ repeat[t] # 0 =>
            at1[t] = IF a.at[t] + repeat[t] < u.mn THEN u.mn ELSE a.at[t] + repeat[t]
  /\ \A t \in Timer : \A v \in Timer :
       q1.pending[t] # 0 /\ q1.pending[t] < q1.pending[v] => fired1[v] <= fired1[t]
  /\ \A p \in Running(Periodic, ph) :
       /\ u.rt <= at1[p]
       /\ \/ at1[p] = a.at[p] /\ p \in Running(Periodic, periodics)
          \/ interval[p] # 0 /\ at1[p] = Rescheduled(p, u.rt, a.at[p])

LEMMA ReifyIs ==
  ASSUME TimerAssumption, TypeOK, QueueKept, phase = "poll", NEW u, u.mn \in Int, u.rt \in Int,
         NEW a, Adjusts(u, FALSE, a)
  PROVE  Reified(u, a, TsOf(u, a).h, PsOf(u, a).h, PsOf(u, a).at, QOf(u, a), PsOf(u, a).firedAt)
<1> DEFINE b  == [h |-> a.timers, at |-> a.at, q |-> q, fed |-> <<>>, firedAt |-> firedAt]
           ts == TsOf(u, a)
           q1 == FeedReverse(ts.q, pri, ts.fed, "TIMER")
           c  == [h |-> a.periodics, at |-> ts.at, q |-> q1, fed |-> <<>>, firedAt |-> ts.firedAt]
           ps == PsOf(u, a)
           q2 == QOf(u, a)
<1>1. /\ d \in {2, 4} /\ Timer \subseteq Watcher /\ Periodic \subseteq Watcher
      /\ Timer \cap Periodic = {} /\ Watcher = Timer \cup Periodic
      /\ firedAt \in [Watcher -> Int \cup {NoTime}] /\ a.at \in [Watcher -> Int]
      /\ Kept(d, Timer, a.timers, a.at) /\ Kept(d, Periodic, a.periodics, a.at)
      /\ Running(Timer, a.timers) = Running(Timer, timers)
      /\ Running(Periodic, a.periodics) = Running(Periodic, periodics)
  BY DEF TypeOK, Watcher, TimerAssumption, Adjusts
<1>2. Matched(Watcher, q) /\ \A v \in Watcher : q.pending[v] = 0
  BY NoneQueuedIs DEF QueueKept
<1>3. b \in Work(Timer) /\ Starts(Timer, b)
  <2>1. b.h = a.timers /\ b.at = a.at /\ b.q = q /\ b.fed = <<>> /\ b.firedAt = firedAt
    OBVIOUS
  <2>2. a.timers \in Heaps(Timer) /\ q \in Queues({0}, Watcher) /\ <<>> \in Seq(Timer)
    BY <1>1, <1>2, KeptParts DEF Matched
  <2>3. b \in Work(Timer)
    BY <1>1, <2>2 DEF Work
  <2> HIDE DEF b
  <2> QED BY <1>1, <1>2, <2>1, <2>3 DEF Starts
<1>4. TimersFired(b, u.mn, ts)
  BY <1>3, TimersReifyIs DEF TsOf
<1> HIDE DEF ts
<1>5. /\ ts \in Work(Timer) /\ Kept(d, Timer, ts.h, ts.at) /\ ts.q = q
      /\ Distinct(ts.fed) /\ ts.fed \in Seq(Timer) /\ \A j \in 1..Len(ts.fed) : ts.fed[j] \in Timer
  BY <1>4, WorkParts DEF TimersFired, Looped, Fires
<1>6. Reversed(ts.q, ts.fed, q1)
  <2>1. ts.fed \in Seq(Watcher) /\ Matched(Watcher, ts.q)
        /\ \A j \in 1..Len(ts.fed) : ts.q.pending[ts.fed[j]] = 0
    BY <1>1, <1>2, <1>5
  <2> DEFINE u1   == ts.q
             fed  == ts.fed
  <2>2. q1 = FeedReverse(u1, pri, fed, "TIMER")
    OBVIOUS
  <2>3. fed \in Seq(Watcher) /\ Matched(Watcher, u1) /\ Distinct(fed)
        /\ \A j \in 1..Len(fed) : u1.pending[fed[j]] = 0
    BY <1>5, <2>1
  <2> HIDE DEF u1, fed, q1
  <2>5. \A type \in Revents : Reversed(u1, fed, FeedReverse(u1, pri, fed, type))
    BY <2>3, ReversedIs
  <2>4. Reversed(u1, fed, q1)
    BY <2>2, <2>5, TypesKnown
  <2> QED BY <2>4 DEF u1, fed
<1> HIDE DEF q1
<1>7. Outcome(Timer, u.mn, Repeating, TimerNext(u.mn), b, ts, q1)
  <2> HIDE DEF b
  <2> QED BY <1>1, <1>3, <1>4, <1>6, OutcomeIs DEF TimersFired
<1>8. c \in Work(Periodic) /\ Starts(Periodic, c)
  <2>1. c.h = a.periodics /\ c.at = ts.at /\ c.q = q1 /\ c.fed = <<>> /\ c.firedAt = ts.firedAt
    OBVIOUS
  <2>2. /\ a.periodics \in Heaps(Periodic) /\ q1 \in Queues({0}, Watcher) /\ <<>> \in Seq(Periodic)
        /\ ts.at \in [Watcher -> Int] /\ ts.firedAt \in [Watcher -> Int \cup {NoTime}]
    <3>1. a.periodics \in Heaps(Periodic)
      BY <1>1, KeptParts
    <3>2. q1 \in Queues({0}, Watcher)
      BY <1>6 DEF Matched, Reversed
    <3>3. ts.at \in [Watcher -> Int] /\ ts.firedAt \in [Watcher -> Int \cup {NoTime}]
      BY <1>5, WorkParts
    <3> QED BY <3>1, <3>2, <3>3
  <2>3. c \in Work(Periodic)
    BY <2>2 DEF Work
  <2>4. \A v \in Periodic : ts.at[v] = a.at[v] /\ q1.pending[v] = 0
    <3>1. \A v \in Periodic : v \in Watcher \ Timer
      BY <1>1
    <3> QED BY <1>2, <1>7, <3>1 DEF Outcome
  <2>5. Kept(d, Periodic, a.periodics, ts.at)
    <3>1. \A v \in Running(Periodic, a.periodics) : ts.at[v] = a.at[v]
      BY <2>4 DEF Running
    <3> QED BY <1>1, <3>1, KeptSame
  <2> HIDE DEF c
  <2> QED BY <2>1, <2>3, <2>4, <2>5 DEF Starts
<1>9. PeriodicsFired(c, u.rt, ps)
  <2>1. [ts EXCEPT !.h = a.periodics, !.fed = <<>>, !.q = q1] = c
    <3>1. ts = [h |-> ts.h, at |-> ts.at, q |-> ts.q, fed |-> ts.fed, firedAt |-> ts.firedAt]
      BY <1>5, WorkParts
    <3> DEFINE ph == a.periodics
               e  == <<>>
    <3> SUFFICES ASSUME NEW x, x = [ts EXCEPT !.h = ph, !.fed = e, !.q = q1] PROVE x = c
      OBVIOUS
    <3>2. c = [h |-> ph, at |-> ts.at, q |-> q1, fed |-> e, firedAt |-> ts.firedAt]
      OBVIOUS
    <3> HIDE DEF c, ph, e
    <3>3. x = [h |-> ph, at |-> ts.at, q |-> q1, fed |-> e, firedAt |-> ts.firedAt]
      BY <3>1
    <3> QED BY <3>2, <3>3
  <2>2. ps = periodics_reify(c, u.rt)
    BY <2>1 DEF PsOf, ts, q1
  <2> HIDE DEF c, ps
  <2> QED BY <1>8, <2>2, PeriodicsReifyIs
<1> HIDE DEF ps
<1>10. /\ ps \in Work(Periodic) /\ Kept(d, Periodic, ps.h, ps.at) /\ ps.q = q1
       /\ Distinct(ps.fed) /\ ps.fed \in Seq(Periodic) /\ \A j \in 1..Len(ps.fed) : ps.fed[j] \in Periodic
       /\ ps.at \in [Watcher -> Int] /\ ps.firedAt \in [Watcher -> Int \cup {NoTime}]
  BY <1>9, WorkParts DEF PeriodicsFired, Looped, Fires
<1>11. Reversed(ps.q, ps.fed, q2)
  <2>1. /\ ps.fed \in Seq(Watcher) /\ Matched(Watcher, ps.q)
        /\ \A j \in 1..Len(ps.fed) : ps.q.pending[ps.fed[j]] = 0
    <3>1. \A v \in Periodic : q1.pending[v] = 0
      BY <1>8 DEF Starts
    <3> QED BY <1>1, <1>6, <1>10, <3>1 DEF Reversed
  <2>2. q2 = FeedReverse(ps.q, pri, ps.fed, "PERIODIC")
    BY DEF QOf, ps
  <2> DEFINE u1   == ps.q
             fed  == ps.fed
  <2>3. q2 = FeedReverse(u1, pri, fed, "PERIODIC")
    BY <2>2
  <2>4. fed \in Seq(Watcher) /\ Matched(Watcher, u1) /\ Distinct(fed)
        /\ \A j \in 1..Len(fed) : u1.pending[fed[j]] = 0
    BY <1>10, <2>1
  <2> HIDE DEF u1, fed, q2
  <2>6. \A type \in Revents : Reversed(u1, fed, FeedReverse(u1, pri, fed, type))
    BY <2>4, ReversedIs
  <2>5. Reversed(u1, fed, q2)
    BY <2>3, <2>6, TypesKnown
  <2> QED BY <2>5 DEF u1, fed
<1> HIDE DEF q2
<1>12. Outcome(Periodic, u.rt, Recurring, PeriodicNext(u.rt), c, ps, q2)
  <2> HIDE DEF c
  <2> QED BY <1>1, <1>8, <1>9, <1>11, OutcomeIs DEF PeriodicsFired
<1>13. \A t \in Timer : /\ ps.at[t] = ts.at[t] /\ ps.firedAt[t] = ts.firedAt[t]
                        /\ q2.pending[t] = q1.pending[t]
  <2>1. \A t \in Timer : t \in Watcher \ Periodic
    BY <1>1
  <2> QED BY <1>12, <2>1 DEF Outcome
<1>14. Kept(d, Timer, ts.h, ps.at) /\ Matched(Watcher, q2)
  <2>1. \A v \in Running(Timer, ts.h) : ps.at[v] = ts.at[v]
    BY <1>13 DEF Running
  <2> QED BY <1>1, <1>5, <1>11, <2>1, KeptSame DEF Reversed
<1>15. \A t \in Timer : TimerPassed(u, a, t) <=> Passed(Timer, u.mn, b, t)
  BY <1>1 DEF TimerPassed, Passed
<1>16. ASSUME NEW t \in Timer, ~TimerPassed(u, a, t)
       PROVE  /\ ps.at[t] = a.at[t] /\ q2.pending[t] = 0
              /\ t \in Running(Timer, ts.h) <=> t \in Running(Timer, timers)
  <2>1. /\ ts.at[t] = b.at[t] /\ q1.pending[t] = 0
        /\ t \in Running(Timer, ts.h) <=> t \in Running(Timer, b.h)
    <3> HIDE DEF b
    <3> QED BY <1>7, <1>15, <1>16 DEF Outcome
  <2> QED BY <1>1, <1>13, <2>1
<1>17. ASSUME NEW t \in Timer, TimerPassed(u, a, t)
       PROVE  /\ q2.pending[t] # 0 /\ ps.firedAt[t] = a.at[t]
              /\ t \in Running(Timer, ts.h) <=> repeat[t] # 0
              /\ repeat[t] # 0 =>
                   ps.at[t] = IF a.at[t] + repeat[t] < u.mn THEN u.mn ELSE a.at[t] + repeat[t]
  <2>1. /\ q1.pending[t] # 0 /\ ts.firedAt[t] = b.at[t]
        /\ t \in Running(Timer, ts.h) <=> t \in Repeating
        /\ t \in Repeating => ts.at[t] = TimerNext(u.mn)[<<t, b.at[t]>>]
    <3> HIDE DEF b
    <3> QED BY <1>7, <1>15, <1>17 DEF Outcome
  <2>2. a.at[t] \in Int /\ b.at[t] = a.at[t]
    BY <1>1
  <2>3. /\ TimerNext(u.mn)[<<t, a.at[t]>>] = IF a.at[t] + repeat[t] < u.mn THEN u.mn ELSE a.at[t] + repeat[t]
        /\ t \in Repeating <=> repeat[t] # 0
    BY <2>2 DEF TimerNext, Repeating
  <2> QED BY <1>13, <2>1, <2>2, <2>3
<1>18. ASSUME NEW t \in Timer, NEW v \in Timer, q2.pending[t] # 0, q2.pending[t] < q2.pending[v]
       PROVE  ps.firedAt[v] <= ps.firedAt[t]
  <2>1. q1.pending[t] # 0 /\ q1.pending[t] < q1.pending[v]
    BY <1>13, <1>18
  <2>2. ts.firedAt[v] <= ts.firedAt[t]
    BY <1>7, <2>1 DEF Outcome
  <2> QED BY <1>13, <2>2
<1>19. ASSUME NEW p \in Running(Periodic, ps.h)
       PROVE  /\ u.rt <= ps.at[p]
              /\ \/ ps.at[p] = a.at[p] /\ p \in Running(Periodic, periodics)
                 \/ interval[p] # 0 /\ ps.at[p] = Rescheduled(p, u.rt, a.at[p])
  <2>1. p \in Periodic /\ p \in Watcher \ Timer /\ a.at[p] \in Int
    BY <1>1 DEF Running
  <2>2. u.rt <= ps.at[p]
    BY <1>12 DEF Outcome
  <2>3. c.at[p] = a.at[p] /\ Running(Periodic, c.h) = Running(Periodic, periodics)
    <3>1. ts.at[p] = b.at[p]
      <4> HIDE DEF b
      <4> QED BY <1>7, <2>1 DEF Outcome
    <3> QED BY <1>1, <3>1
  <2> HIDE DEF c
  <2>4. CASE Passed(Periodic, u.rt, c, p)
    <3>1. p \in Recurring /\ ps.at[p] = PeriodicNext(u.rt)[<<p, c.at[p]>>]
      BY <1>12, <2>1, <2>4 DEF Outcome
    <3>2. interval[p] # 0
      BY <3>1 DEF Recurring
    <3>3. PeriodicNext(u.rt)[<<p, a.at[p]>>] = Rescheduled(p, u.rt, a.at[p])
      BY <2>1, <3>2 DEF PeriodicNext
    <3> QED BY <2>2, <2>3, <3>1, <3>2, <3>3
  <2>5. CASE ~Passed(Periodic, u.rt, c, p)
    <3>1. ps.at[p] = c.at[p] /\ p \in Running(Periodic, c.h)
      BY <1>12, <2>1, <2>5 DEF Outcome
    <3> QED BY <2>2, <2>3, <3>1
  <2> QED BY <2>4, <2>5
<1> HIDE DEF b, c
<1>20. Reified(u, a, ts.h, ps.h, ps.at, q2, ps.firedAt)
  BY <1>10, <1>14, <1>16, <1>17, <1>18, <1>19 DEF Reified
<1> QED BY <1>20 DEF ts, ps, q2

-----------------------------------------------------------------------------
(* The invariant is inductive.                                             *)

LEMMA InitInv == TimerAssumption /\ Init => TimersInv
<1> SUFFICES ASSUME TimerAssumption, Init PROVE TimersInv
  OBVIOUS
<1>1. d \in {2, 4} /\ Arities \subseteq {2, 4}
  BY DEF TimerAssumption, Init
<1>2. TypeOK
  <2>1. Repeats \subseteq Nat /\ Intervals \subseteq Nat /\ Offsets \subseteq Nat /\ Clocks \subseteq BOOLEAN
    BY DEF TimerAssumption
  <2>2. /\ repeat \in [Timer -> Nat] /\ offset \in [Periodic -> Nat] /\ have_monotonic \in BOOLEAN
        /\ interval \in [Periodic -> Nat \cup {ByCallback}]
    BY <2>1 DEF Init
  <2>3. at \in [Watcher -> Int] /\ firedAt \in [Watcher -> Int \cup {NoTime}]
    BY DEF Init
  <2>4. /\ clock \in Nat /\ wall \in Int /\ jumps \in Nat /\ mn_now \in Int /\ ev_rt_now \in Int
        /\ rtmn_diff \in Int /\ now_floor \in Int /\ waittime \in Int
    BY DEF Init
  <2>5. phase \in {"poll", "run"} /\ suspended \in BOOLEAN
    BY DEF Init
  <2> QED BY <1>1, <2>2, <2>3, <2>4, <2>5 DEF TypeOK
<1>3. HeapsKept /\ Running(Periodic, periodics) = {} /\ Running(Timer, timers) = {}
  BY <1>1, EmptyKept DEF Init, HeapsKept
<1>4. Matched(Watcher, q) /\ (\A v \in Watcher : q.pending[v] = 0)
  BY EmptyMatched DEF Init
<1>5. QueueKept /\ FiredKept
  BY <1>4 DEF Init, QueueKept, FiredKept, Watcher
<1>6. ClocksKept
  BY DEF Init, ClocksKept
<1>7. PeriodsKept
  BY <1>3 DEF PeriodsKept
<1>8. NoOversleep
  BY DEF Init, NoOversleep
<1> QED BY <1>2, <1>3, <1>5, <1>6, <1>7, <1>8 DEF TimersInv

LEMMA MissedNext ==
  ASSUME TypeOK', ClocksKept'
  PROVE  Missed' \in Nat
<1>1. Missed' = IF ~have_monotonic' THEN 0
                ELSE IF rtmn_diff' = wall' - clock' THEN jumps' ELSE jumps' - 1
  BY DEF Missed
<1>2. jumps' \in Nat /\ (have_monotonic' /\ rtmn_diff' # wall' - clock' => jumps' # 0)
  BY DEF TypeOK, ClocksKept
<1>3. CASE ~have_monotonic'
  BY <1>1, <1>3
<1>4. CASE have_monotonic' /\ rtmn_diff' = wall' - clock'
  BY <1>1, <1>2, <1>4
<1>5. CASE have_monotonic' /\ rtmn_diff' # wall' - clock'
  <2>1. Missed' = jumps' - 1 /\ jumps' # 0 /\ jumps' \in Nat
    BY <1>1, <1>2, <1>5
  <2>2. \A j \in Nat : j # 0 => j - 1 \in Nat
    OBVIOUS
  <2> QED BY <2>1, <2>2
<1> QED BY <1>3, <1>4, <1>5

LEMMA Further ==
  ASSUME NEW t \in Int, NEW x \in Int, NEW len \in Nat, NEW k \in Nat, NEW m \in Nat, t <= x + len
  PROVE  t <= x + len + k * m
<1>1. k * m \in Int /\ k * m >= 0
  OBVIOUS
<1> DEFINE km == k * m
<1>2. km \in Int /\ km >= 0
  BY <1>1
<1> HIDE DEF km
<1>3. t <= x + len + km
  BY <1>2
<1> QED BY <1>3 DEF km

LEMMA StillFired ==
  ASSUME TypeOK, FiredKept, QueueKept, Matched(Watcher, q'), firedAt' = firedAt,
         \A v \in Watcher : q'.pending[v] = 0 \/ q'.pending[v] = q.pending[v]
  PROVE  FiredKept'
<1>1. \A v \in Timer : v \in Watcher /\ q'.pending[v] \in Nat /\ q.pending[v] \in Nat
  <2>1. q'.pending \in [Watcher -> Nat] /\ q.pending \in [Watcher -> Nat]
    BY MatchedType DEF QueueKept
  <2> QED BY <2>1 DEF Watcher
<1>2. ASSUME NEW t \in Timer, q'.pending[t] # 0 PROVE firedAt'[t] \in Int
  BY <1>1, <1>2 DEF FiredKept
<1>3. ASSUME NEW t \in Timer, NEW v \in Timer, q'.pending[t] # 0, q'.pending[t] < q'.pending[v]
      PROVE  firedAt'[v] <= firedAt'[t]
  <2>1. q'.pending[v] # 0
    BY <1>1, <1>3
  <2>2. q'.pending[t] = q.pending[t] /\ q'.pending[v] = q.pending[v]
    BY <1>1, <1>3, <2>1
  <2> QED BY <1>3, <2>2 DEF FiredKept
<1> QED BY <1>2, <1>3 DEF FiredKept

LEMMA ClearedIs ==
  ASSUME TimerAssumption, Matched(Watcher, q), NEW w \in Watcher, q' = q \/ q' = Clear(w)
  PROVE  Matched(Watcher, q') /\ \A v \in Watcher : q'.pending[v] = 0 \/ q'.pending[v] = q.pending[v]
<1>1. CASE q' = q
  BY <1>1
<1>2. CASE q' = Clear(w)
  <2>1. Without(Watcher, q, w, ClearPending(q, pri, w))
    BY ClearIs DEF pri, TimerAssumption
  <2> QED BY <1>2, <2>1 DEF Clear, Without
<1> QED BY <1>1, <1>2

LEMMA PeriodsNext ==
  ASSUME interval' = interval, offset' = offset,
         \A p \in Running(Periodic, periodics') : Fast(p) =>
           /\ InPattern(p, at'[p]) /\ at'[p] <= ev_rt_now' + interval[p] + Missed' * MIN_TIMEJUMP
           /\ phase' = "run" /\ ~suspended' => ev_rt_now' <= at'[p]
  PROVE  PeriodsKept'
BY DEF PeriodsKept, InPattern, Fast

\* The wait is no longer than a floor, or ends before the first watchers of the
\* heaps.
LEMMA WaitIs ==
  ASSUME TimerAssumption, NEW th, NEW ph, NEW mn \in Int, NEW rt \in Int,
         th.heap # <<>> => th.heap[1].at \in Int, ph.heap # <<>> => ph.heap[1].at \in Int
  PROVE  /\ WaitFor(th, ph, mn, rt) \in Int
         /\ WaitFor(th, ph, mn, rt) > Most(timeout_blocktime, backend_mintime) =>
              /\ th.heap # <<>> => WaitFor(th, ph, mn, rt) <= th.heap[1].at - mn
              /\ ph.heap # <<>> => WaitFor(th, ph, mn, rt) <= ph.heap[1].at - rt
<1> DEFINE t == IF th.heap = <<>> THEN MAX_BLOCKTIME ELSE Least(MAX_BLOCKTIME, th.heap[1].at - mn)
           p == IF ph.heap = <<>> THEN t ELSE Least(t, ph.heap[1].at - rt)
<1>0. MAX_BLOCKTIME \in Int /\ timeout_blocktime \in Nat /\ backend_mintime \in Nat
  BY DEF TimerAssumption
<1>1. ASSUME NEW x \in Int, NEW y \in Int PROVE Least(x, y) \in Int /\ Least(x, y) <= x /\ Least(x, y) <= y
  BY DEF Least
<1>2. t \in Int /\ (th.heap # <<>> => t <= th.heap[1].at - mn)
  <2>1. CASE th.heap = <<>>
    BY <1>0, <2>1
  <2>2. CASE th.heap # <<>>
    <3>1. th.heap[1].at - mn \in Int
      BY <2>2
    <3> QED BY <1>0, <1>1, <2>2, <3>1
  <2> QED BY <2>1, <2>2
<1> HIDE DEF t
<1>3. p \in Int /\ p <= t /\ (ph.heap # <<>> => p <= ph.heap[1].at - rt)
  <2>1. CASE ph.heap = <<>>
    BY <1>2, <2>1
  <2>2. CASE ph.heap # <<>>
    <3>1. ph.heap[1].at - rt \in Int
      BY <2>2
    <3> QED BY <1>1, <1>2, <2>2, <3>1
  <2> QED BY <2>1, <2>2
<1>4. WaitFor(th, ph, mn, rt) = Most(Most(p, timeout_blocktime), backend_mintime)
  BY DEF WaitFor, t
<1> HIDE DEF p
<1>5. th.heap # <<>> => p <= th.heap[1].at - mn
  BY <1>2, <1>3
<1>6. /\ Most(Most(p, timeout_blocktime), backend_mintime) \in Int
      /\ \/ Most(Most(p, timeout_blocktime), backend_mintime) = p
         \/ Most(Most(p, timeout_blocktime), backend_mintime) <= Most(timeout_blocktime, backend_mintime)
  BY <1>0, <1>3 DEF Most
<1>7. Most(timeout_blocktime, backend_mintime) \in Int
  BY <1>0 DEF Most
<1> QED BY <1>3, <1>4, <1>5, <1>6, <1>7

\* What the four actions that look at the clocks have in common.
Looks(el, by, wait, resume, u, a) ==
  /\ Updated(u, wait = NoTime) /\ Adjusts(u, resume, a)
  /\ clock' \in Nat /\ wall' \in Int /\ jumps' \in Nat /\ mn_now' \in Int /\ ev_rt_now' \in Int
  /\ rtmn_diff' \in Int /\ now_floor' \in Int
  /\ have_monotonic' = have_monotonic /\ d' = d
  /\ repeat' = repeat /\ interval' = interval /\ offset' = offset
  /\ have_monotonic => /\ mn_now' <= clock' /\ ev_rt_now' = mn_now' + rtmn_diff'
                       /\ rtmn_diff' # wall' - clock' => jumps' # 0
  /\ ~have_monotonic => ev_rt_now' = mn_now' /\ rtmn_diff' = 0 /\ mn_now' = wall'
  /\ mn_now' = u.mn /\ ev_rt_now' = u.rt
  /\ \A p \in Running(Periodic, periodics) : Fast(p) =>
       /\ InPattern(p, a.at[p]) /\ a.at[p] <= ev_rt_now' + interval[p] + Missed' * MIN_TIMEJUMP
       /\ resume => ev_rt_now' < a.at[p]

LEMMA LooksIs ==
  ASSUME TimerAssumption, TimersInv, NEW el \in Nat, NEW by \in Int, Passes(el, by),
         NEW wait \in Int \cup {NoTime}, NEW resume \in BOOLEAN,
         SetTime(time_update(Reading(el, by), wait))
  PROVE  Looks(el, by, wait, resume, time_update(Reading(el, by), wait),
               Adjusted(time_update(Reading(el, by), wait), resume))
<1> DEFINE u == time_update(Reading(el, by), wait)
           a == Adjusted(u, resume)
<1>1. TypeOK /\ HeapsKept /\ ClocksKept /\ PeriodsKept
  BY DEF TimersInv
<1>2. Updated(u, wait = NoTime)
  BY <1>1, UpdateIs
<1> HIDE DEF u
<1>3. Adjusts(u, resume, a)
  BY <1>1, <1>2, AdjustedIs
<1> HIDE DEF a
<1>4. SetTime(u)
  BY DEF u
<1>5. /\ clock' \in Nat /\ wall' \in Int /\ jumps' \in Nat /\ mn_now' \in Int /\ ev_rt_now' \in Int
      /\ rtmn_diff' \in Int /\ now_floor' \in Int
      /\ have_monotonic => /\ mn_now' <= clock' /\ ev_rt_now' = mn_now' + rtmn_diff'
                           /\ rtmn_diff' # wall' - clock' => jumps' # 0
      /\ ~have_monotonic => ev_rt_now' = mn_now' /\ rtmn_diff' = 0 /\ mn_now' = wall'
  BY <1>1, <1>2, <1>4, ClocksNext
<1>6. /\ have_monotonic' = have_monotonic /\ d' = d
      /\ repeat' = repeat /\ interval' = interval /\ offset' = offset
  BY DEF Passes, fixed
<1>7. mn_now' = u.mn /\ ev_rt_now' = u.rt
  BY <1>4 DEF SetTime
<1>8. \A p \in Running(Periodic, periodics) : Fast(p) =>
        /\ InPattern(p, a.at[p]) /\ a.at[p] <= ev_rt_now' + interval[p] + Missed' * MIN_TIMEJUMP
        /\ resume => ev_rt_now' < a.at[p]
  BY <1>1, <1>2, <1>3, <1>4, PatternNext
<1>9. Looks(el, by, wait, resume, u, a)
  BY <1>2, <1>3, <1>5, <1>6, <1>7, <1>8 DEF Looks
<1> QED BY <1>9 DEF u, a

LEMMA EnterInv ==
  ASSUME TimerAssumption, TimersInv, NEW el \in Nat, NEW by \in Int, Passes(el, by),
         Enter(Reading(el, by))
  PROVE  TimersInv'
<1> DEFINE u == time_update(Reading(el, by), Forever)
           a == Adjusted(u, FALSE)
<1>1. /\ phase = "run" /\ ~suspended /\ NoneQueued(q) /\ SetTime(u)
      /\ timers' = a.timers /\ periodics' = a.periodics /\ at' = a.at
      /\ waittime' \in {0, WaitFor(a.timers, a.periodics, u.mn, u.rt)} /\ phase' = "poll"
      /\ firedAt' = [w \in Watcher |-> NoTime] /\ q' = q /\ suspended' = suspended
  BY DEF Enter
<1>2. Looks(el, by, Forever, FALSE, u, a)
  BY <1>1, LooksIs DEF Forever
<1> HIDE DEF u, a
<1>3. TypeOK /\ QueueKept
  BY DEF TimersInv
<1>4. /\ Adjusts(u, FALSE, a) /\ d' = d /\ d \in {2, 4} /\ u.mn \in Int /\ u.rt \in Int
      /\ mn_now' = u.mn /\ ev_rt_now' = u.rt
  BY <1>2, <1>3 DEF Looks, TypeOK, Updated
<1>5. HeapsKept'
  BY <1>1, <1>4 DEF HeapsKept, Adjusts
<1>6. /\ \A t \in Timer : timers'.active[t] # 0 =>
           timers'.heap # <<>> /\ timers'.heap[1].at <= at'[t] /\ at'[t] \in Int /\ timers'.heap[1].at \in Int
      /\ timers'.heap # <<>> => timers'.heap[1].at \in Int
  <2>1. Kept(d, Timer, timers', at')
    BY <1>1, <1>4 DEF Adjusts
  <2>2. /\ \A v \in Running(Timer, timers') :
             /\ timers'.heap # <<>> /\ timers'.heap[1].at <= at'[v]
             /\ at'[v] \in Int /\ timers'.heap[1].at \in Int
        /\ timers'.heap # <<>> => timers'.heap[1] \in Entry(Timer)
    BY <1>4, <2>1, KeptParts
  <2> QED BY <2>2 DEF Running, Entry
<1>7. /\ \A p \in Periodic : periodics'.active[p] # 0 =>
           /\ periodics'.heap # <<>> /\ periodics'.heap[1].at <= at'[p]
           /\ at'[p] \in Int /\ periodics'.heap[1].at \in Int
      /\ periodics'.heap # <<>> => periodics'.heap[1].at \in Int
  <2>1. Kept(d, Periodic, periodics', at')
    BY <1>1, <1>4 DEF Adjusts
  <2>2. /\ \A v \in Running(Periodic, periodics') :
             /\ periodics'.heap # <<>> /\ periodics'.heap[1].at <= at'[v]
             /\ at'[v] \in Int /\ periodics'.heap[1].at \in Int
        /\ periodics'.heap # <<>> => periodics'.heap[1] \in Entry(Periodic)
    BY <1>4, <2>1, KeptParts
  <2> QED BY <2>2 DEF Running, Entry
<1> DEFINE floor == Most(timeout_blocktime, backend_mintime)
<1>8. /\ waittime' \in Int
      /\ waittime' > floor =>
           /\ timers'.heap # <<>> => waittime' <= timers'.heap[1].at - u.mn
           /\ periodics'.heap # <<>> => waittime' <= periodics'.heap[1].at - u.rt
  <2>1. waittime' = 0 \/ waittime' = WaitFor(timers', periodics', u.mn, u.rt)
    BY <1>1
  <2>2. floor \in Nat
    BY DEF TimerAssumption, Most
  <2>3. CASE waittime' = 0
    BY <2>2, <2>3
  <2>4. CASE waittime' = WaitFor(timers', periodics', u.mn, u.rt)
    BY <1>4, <1>6, <1>7, <2>4, WaitIs
  <2> QED BY <2>1, <2>3, <2>4
<1>9. TypeOK'
  BY <1>1, <1>2, <1>3, <1>8 DEF Looks, TypeOK, Adjusts
<1>10. QueueKept' /\ FiredKept'
  <2>1. \A t \in Timer : q'.pending[t] = 0
    BY <1>1, <1>3, NoneQueuedIs DEF QueueKept, Watcher
  <2> QED BY <1>1, <1>3, <2>1 DEF QueueKept, FiredKept
<1>11. ClocksKept'
  BY <1>1, <1>2 DEF Looks, ClocksKept
<1>12. PeriodsKept'
  <2>1. Running(Periodic, periodics') = Running(Periodic, periodics) /\ phase' # "run"
    BY <1>1, <1>4 DEF Adjusts
  <2> QED BY <1>1, <1>2, <2>1, PeriodsNext DEF Looks
<1>13. NoOversleep'
  <2>1. ASSUME NEW t \in Timer, timers'.active[t] # 0, waittime' > floor
        PROVE  mn_now' + waittime' <= at'[t]
    <3>1. /\ waittime' <= timers'.heap[1].at - u.mn /\ timers'.heap[1].at <= at'[t]
          /\ timers'.heap[1].at \in Int /\ at'[t] \in Int
      BY <1>6, <1>8, <2>1
    <3> QED BY <1>4, <1>8, <3>1
  <2>2. ASSUME NEW p \in Periodic, periodics'.active[p] # 0, waittime' > floor
        PROVE  ev_rt_now' + waittime' <= at'[p]
    <3>1. /\ waittime' <= periodics'.heap[1].at - u.rt /\ periodics'.heap[1].at <= at'[p]
          /\ periodics'.heap[1].at \in Int /\ at'[p] \in Int
      BY <1>7, <1>8, <2>2
    <3> QED BY <1>4, <1>8, <3>1
  <2> QED BY <2>1, <2>2 DEF NoOversleep
<1> QED BY <1>5, <1>9, <1>10, <1>11, <1>12, <1>13 DEF TimersInv

LEMMA ReifyInv ==
  ASSUME TimerAssumption, TimersInv, NEW el \in Nat, NEW by \in Int, Passes(el, by),
         Reify(Reading(el, by))
  PROVE  TimersInv'
<1> DEFINE u == time_update(Reading(el, by), waittime)
           a == Adjusted(u, FALSE)
           th == TsOf(u, a).h
           ph == PsOf(u, a).h
           at1 == PsOf(u, a).at
           q1  == QOf(u, a)
           fired1 == PsOf(u, a).firedAt
<1>1. /\ phase = "poll" /\ SetTime(u)
      /\ timers' = th /\ periodics' = ph /\ at' = at1 /\ q' = q1 /\ firedAt' = fired1
      /\ phase' = "run" /\ waittime' = 0 /\ suspended' = suspended
  BY DEF Reify, TsOf, PsOf, QOf
<1>2. TypeOK /\ QueueKept /\ waittime \in Int
  BY DEF TimersInv, TypeOK
<1>3. Looks(el, by, waittime, FALSE, u, a)
  BY <1>1, <1>2, LooksIs
<1> HIDE DEF u, a
<1>4. /\ Adjusts(u, FALSE, a) /\ d' = d /\ d \in {2, 4} /\ u.mn \in Int /\ u.rt \in Int
      /\ mn_now' = u.mn /\ ev_rt_now' = u.rt
  BY <1>2, <1>3 DEF Looks, TypeOK, Updated
<1>5. Reified(u, a, th, ph, at1, q1, fired1)
  BY <1>1, <1>2, <1>4, ReifyIs
<1> HIDE DEF th, ph, at1, q1, fired1
<1>6. Reified(u, a, timers', periodics', at', q', firedAt')
  BY <1>1, <1>5
<1>7. ~suspended
  BY <1>1, <1>2 DEF QueueKept
<1>8. TypeOK'
  BY <1>1, <1>2, <1>3, <1>6 DEF Looks, TypeOK, Reified
<1>9. HeapsKept'
  BY <1>4, <1>6 DEF HeapsKept, Reified
<1>10. QueueKept'
  BY <1>1, <1>6, <1>7 DEF QueueKept, Reified
<1>11. FiredKept'
  <2>1. ASSUME NEW t \in Timer, q'.pending[t] # 0 PROVE firedAt'[t] \in Int
    <3>1. TimerPassed(u, a, t)
      BY <1>6, <2>1 DEF Reified
    <3>2. firedAt'[t] = a.at[t] /\ t \in Watcher
      BY <1>6, <3>1 DEF Reified, Watcher
    <3> QED BY <1>4, <3>2 DEF Adjusts
  <2>2. \A t, v \in Timer : q'.pending[t] # 0 /\ q'.pending[t] < q'.pending[v] => firedAt'[v] <= firedAt'[t]
    BY <1>6 DEF Reified
  <2> QED BY <2>1, <2>2 DEF FiredKept
<1>12. ClocksKept'
  BY <1>1, <1>3, <1>7 DEF Looks, ClocksKept
<1>13. PeriodsKept'
  <2>1. interval' = interval /\ offset' = offset
    BY <1>3 DEF Looks
  <2>2. ASSUME NEW p \in Running(Periodic, periodics'), Fast(p)
        PROVE  /\ InPattern(p, at'[p]) /\ ev_rt_now' <= at'[p]
               /\ at'[p] <= ev_rt_now' + interval[p] + Missed' * MIN_TIMEJUMP
    <3>1. /\ u.rt <= at'[p]
          /\ \/ at'[p] = a.at[p] /\ p \in Running(Periodic, periodics)
             \/ interval[p] # 0 /\ at'[p] = Rescheduled(p, u.rt, a.at[p])
      BY <1>6 DEF Reified
    <3>2. CASE at'[p] = a.at[p] /\ p \in Running(Periodic, periodics)
      BY <1>3, <1>4, <2>2, <3>1, <3>2 DEF Looks
    <3>3. CASE at'[p] = Rescheduled(p, u.rt, a.at[p])
      <4>1. p \in Periodic /\ a.at[p] \in Int
        BY <1>4 DEF Running, Adjusts, Watcher
      <4>2. InPattern(p, at'[p]) /\ at'[p] <= u.rt + interval[p] /\ at'[p] \in Int
        BY <1>2, <1>4, <2>2, <3>3, <4>1, RescheduledIs
      <4>3. Missed' \in Nat
        BY <1>8, <1>12, MissedNext
      <4>4. at'[p] <= u.rt + interval[p] + Missed' * MIN_TIMEJUMP
        BY <1>4, <2>2, <4>2, <4>3, Further DEF Fast, TimerAssumption
      <4> QED BY <1>4, <3>1, <4>2, <4>4
    <3> QED BY <3>1, <3>2, <3>3
  <2> QED BY <2>1, <2>2, PeriodsNext
<1>14. NoOversleep'
  BY <1>1 DEF NoOversleep
<1> QED BY <1>8, <1>9, <1>10, <1>11, <1>12, <1>13, <1>14 DEF TimersInv

LEMMA SuspendInv ==
  ASSUME TimerAssumption, TimersInv, NEW el \in Nat, NEW by \in Int, Passes(el, by),
         Suspend(Reading(el, by))
  PROVE  TimersInv'
<1> DEFINE u == time_update(Reading(el, by), Forever)
           a == Adjusted(u, FALSE)
<1>1. /\ phase = "run" /\ NoneQueued(q) /\ SetTime(u)
      /\ timers' = a.timers /\ periodics' = a.periodics /\ at' = a.at /\ suspended' = TRUE
      /\ q' = q /\ firedAt' = firedAt /\ phase' = phase /\ waittime' = waittime
  BY DEF Suspend
<1>2. Looks(el, by, Forever, FALSE, u, a)
  BY <1>1, LooksIs DEF Forever
<1> HIDE DEF u, a
<1>3. TypeOK /\ QueueKept /\ FiredKept
  BY DEF TimersInv
<1>4. Adjusts(u, FALSE, a)
  BY <1>2 DEF Looks
<1>5. TypeOK'
  BY <1>1, <1>2, <1>3, <1>4 DEF Looks, TypeOK, Adjusts
<1>6. HeapsKept'
  BY <1>1, <1>2, <1>4 DEF HeapsKept, Adjusts, Looks
<1>7. QueueKept' /\ FiredKept'
  BY <1>1, <1>3 DEF QueueKept, FiredKept
<1>8. ClocksKept'
  BY <1>1, <1>2 DEF Looks, ClocksKept
<1>9. PeriodsKept'
  <2>1. Running(Periodic, periodics') = Running(Periodic, periodics)
    BY <1>1, <1>4 DEF Adjusts
  <2> QED BY <1>1, <1>2, <2>1, PeriodsNext DEF Looks
<1>10. NoOversleep'
  BY <1>1 DEF NoOversleep
<1> QED BY <1>5, <1>6, <1>7, <1>8, <1>9, <1>10 DEF TimersInv

LEMMA ResumeInv ==
  ASSUME TimerAssumption, TimersInv, NEW el \in Nat, NEW by \in Int, Passes(el, by),
         Resume(Reading(el, by))
  PROVE  TimersInv'
<1> DEFINE u == time_update(Reading(el, by), Forever)
           a == Adjusted(u, TRUE)
<1>1. /\ suspended /\ SetTime(u)
      /\ timers' = a.timers /\ periodics' = a.periodics /\ at' = a.at /\ suspended' = FALSE
      /\ q' = q /\ firedAt' = firedAt /\ phase' = phase /\ waittime' = waittime
  BY DEF Resume
<1>2. Looks(el, by, Forever, TRUE, u, a)
  BY <1>1, LooksIs DEF Forever
<1> HIDE DEF u, a
<1>3. TypeOK /\ QueueKept /\ FiredKept
  BY DEF TimersInv
<1>4. Adjusts(u, TRUE, a) /\ phase = "run"
  BY <1>1, <1>2, <1>3 DEF Looks, QueueKept
<1>5. TypeOK'
  BY <1>1, <1>2, <1>3, <1>4 DEF Looks, TypeOK, Adjusts
<1>6. HeapsKept'
  BY <1>1, <1>2, <1>4 DEF HeapsKept, Adjusts, Looks
<1>7. QueueKept' /\ FiredKept'
  BY <1>1, <1>3, <1>4 DEF QueueKept, FiredKept
<1>8. ClocksKept'
  BY <1>1, <1>2 DEF Looks, ClocksKept
<1>9. PeriodsKept'
  <2>1. Running(Periodic, periodics') = Running(Periodic, periodics) /\ interval' = interval
        /\ offset' = offset
    BY <1>1, <1>2, <1>4 DEF Adjusts, Looks
  <2>2. ASSUME NEW p \in Running(Periodic, periodics'), Fast(p)
        PROVE  /\ InPattern(p, at'[p]) /\ ev_rt_now' <= at'[p]
               /\ at'[p] <= ev_rt_now' + interval[p] + Missed' * MIN_TIMEJUMP
    <3>1. /\ InPattern(p, a.at[p]) /\ ev_rt_now' < a.at[p]
          /\ a.at[p] <= ev_rt_now' + interval[p] + Missed' * MIN_TIMEJUMP
      BY <1>2, <2>1, <2>2 DEF Looks
    <3>2. a.at[p] \in Int /\ ev_rt_now' \in Int
      BY <1>1, <1>5 DEF TypeOK, Running, Watcher
    <3> QED BY <1>1, <3>1, <3>2
  <2> QED BY <2>1, <2>2, PeriodsNext
<1>10. NoOversleep'
  BY <1>1, <1>4 DEF NoOversleep
<1> QED BY <1>5, <1>6, <1>7, <1>8, <1>9, <1>10 DEF TimersInv

LEMMA InvokeInv ==
  ASSUME TimerAssumption, TimersInv, Invoke
  PROVE  TimersInv'
<1>1. /\ phase = "run" /\ ~NoneQueued(q) /\ q' = Take(q, 0)
      /\ UNCHANGED <<clock, wall, jumps, have_monotonic, d, repeat, interval, offset, mn_now, ev_rt_now,
                     rtmn_diff, now_floor, timers, periodics, at, firedAt, phase, waittime, suspended>>
  BY DEF Invoke, world, fixed, time
<1>2. TypeOK /\ HeapsKept /\ QueueKept /\ FiredKept /\ ClocksKept /\ PeriodsKept /\ NoOversleep
  BY DEF TimersInv
<1>3. Without(Watcher, q, Taken(q, 0).w, q')
  BY <1>1, <1>2, TakeIs DEF TimerAssumption, QueueKept
<1>4. /\ Matched(Watcher, q')
      /\ \A v \in Watcher : q'.pending[v] = 0 \/ q'.pending[v] = q.pending[v]
  BY <1>3 DEF Without
<1>5. TypeOK' /\ HeapsKept' /\ ClocksKept' /\ NoOversleep'
  BY <1>1, <1>2 DEF TypeOK, HeapsKept, ClocksKept, NoOversleep
<1>6. PeriodsKept'
  <2>1. Missed' = Missed
    BY <1>1 DEF Missed
  <2> QED BY <1>1, <1>2, <2>1, PeriodsNext DEF PeriodsKept
<1>7. QueueKept' /\ FiredKept'
  <2>1. ~suspended
    BY <1>1, <1>2 DEF QueueKept
  <2>2. FiredKept'
    BY <1>1, <1>2, <1>4, StillFired
  <2> QED BY <1>1, <1>4, <2>1, <2>2 DEF QueueKept
<1> QED BY <1>5, <1>6, <1>7 DEF TimersInv

\* What the calls of the program have in common.
CallDid ==
  /\ at' \in [Watcher -> Int]
  /\ Kept(d, Timer, timers', at') /\ Kept(d, Periodic, periodics', at') /\ Matched(Watcher, q')
  /\ \A v \in Watcher : q'.pending[v] = 0 \/ q'.pending[v] = q.pending[v]
  /\ \A p \in Running(Periodic, periodics') :
       \/ p \in Running(Periodic, periodics) /\ at'[p] = at[p]
       \/ at'[p] = Rescheduled(p, ev_rt_now, offset[p])

LEMMA CallInv ==
  ASSUME TimerAssumption, TimersInv, Calls, Keep, CallDid
  PROVE  TimersInv'
<1>1. /\ phase # "poll" /\ ~suspended
      /\ UNCHANGED <<clock, wall, jumps, have_monotonic, d, repeat, interval, offset, mn_now, ev_rt_now,
                     rtmn_diff, now_floor, firedAt, phase, waittime, suspended>>
  BY DEF Calls, Keep, fixed, time
<1>2. TypeOK /\ HeapsKept /\ QueueKept /\ FiredKept /\ ClocksKept /\ PeriodsKept
  BY DEF TimersInv
<1>3. TypeOK' /\ HeapsKept' /\ ClocksKept' /\ NoOversleep'
  BY <1>1, <1>2 DEF TypeOK, HeapsKept, ClocksKept, NoOversleep, CallDid
<1>4. PeriodsKept'
  <2>1. Missed' = Missed
    BY <1>1 DEF Missed
  <2>2. ASSUME NEW p \in Running(Periodic, periodics'), Fast(p)
        PROVE  /\ InPattern(p, at'[p]) /\ ev_rt_now <= at'[p]
               /\ at'[p] <= ev_rt_now + interval[p] + Missed * MIN_TIMEJUMP
    <3>1. CASE p \in Running(Periodic, periodics) /\ at'[p] = at[p]
      <4>1. phase = "run"
        BY <1>1, <1>2 DEF TypeOK
      <4> QED BY <1>1, <1>2, <2>2, <3>1, <4>1 DEF PeriodsKept
    <3>2. CASE at'[p] = Rescheduled(p, ev_rt_now, offset[p])
      <4>1. p \in Periodic /\ offset[p] \in Int /\ ev_rt_now \in Int /\ interval[p] # 0
        BY <1>2, <2>2 DEF Running, TypeOK, Fast
      <4>2. InPattern(p, at'[p]) /\ ev_rt_now < at'[p] /\ at'[p] <= ev_rt_now + interval[p] /\ at'[p] \in Int
        BY <1>2, <2>2, <3>2, <4>1, RescheduledIs
      <4>3. Missed \in Nat /\ MIN_TIMEJUMP \in Nat
        BY <1>2, MissedNatural DEF TimerAssumption
      <4>4. at'[p] <= ev_rt_now + interval[p] + Missed * MIN_TIMEJUMP
        BY <2>2, <4>1, <4>2, <4>3, Further DEF Fast
      <4> QED BY <4>1, <4>2, <4>4
    <3> QED BY <3>1, <3>2 DEF CallDid
  <2> QED BY <1>1, <2>1, <2>2, PeriodsNext
<1>5. QueueKept' /\ FiredKept'
  <2>1. FiredKept'
    BY <1>1, <1>2, StillFired DEF CallDid
  <2> QED BY <1>1, <2>1 DEF QueueKept, CallDid
<1> QED BY <1>3, <1>4, <1>5 DEF TimersInv

LEMMA TimerCallDid ==
  ASSUME TimerAssumption, TimersInv, NEW w \in Timer, NEW t \in Int, at' = [at EXCEPT ![w] = t],
         periodics' = periodics, Kept(d, Timer, timers', at'),
         q' = q \/ q' = Clear(w)
  PROVE  CallDid
<1>1. TypeOK /\ HeapsKept /\ QueueKept
  BY DEF TimersInv
<1>2. /\ w \in Watcher /\ w \notin Periodic /\ d \in {2, 4} /\ at \in [Watcher -> Int]
      /\ at' \in [Watcher -> Int] /\ \A p \in Periodic : at'[p] = at[p] /\ p # w
  BY <1>1 DEF TimerAssumption, TypeOK, Watcher
<1>3. Kept(d, Periodic, periodics', at')
  <2>1. \A v \in Running(Periodic, periodics) : at'[v] = at[v]
    BY <1>2 DEF Running
  <2> QED BY <1>1, <1>2, <2>1, KeptSame DEF HeapsKept
<1>4. Matched(Watcher, q') /\ \A v \in Watcher : q'.pending[v] = 0 \/ q'.pending[v] = q.pending[v]
  BY <1>1, <1>2, ClearedIs DEF QueueKept
<1>5. \A p \in Running(Periodic, periodics') : p \in Running(Periodic, periodics) /\ at'[p] = at[p]
  BY <1>2 DEF Running
<1> QED BY <1>2, <1>3, <1>4, <1>5 DEF CallDid

LEMMA TimerStartInv ==
  ASSUME TimerAssumption, TimersInv, NEW w \in Timer, TimerStart(w)
  PROVE  TimersInv'
<1>1. TypeOK /\ HeapsKept
  BY DEF TimersInv
<1>2. PICK after \in Delays \cup {at[w]} :
        /\ at' = [at EXCEPT ![w] = after + mn_now] /\ timers' = PutIn(d, timers, w, after + mn_now)
  BY DEF TimerStart
<1>3. Calls /\ Keep /\ timers.active[w] = 0 /\ periodics' = periodics /\ q' = q
  BY DEF TimerStart
<1> DEFINE t == after + mn_now
<1>4. d \in {2, 4} /\ w \in Watcher /\ at \in [Watcher -> Int] /\ t \in Int
  BY <1>1 DEF TypeOK, Watcher, TimerAssumption
<1> HIDE DEF t
<1>5. at' = [at EXCEPT ![w] = t] /\ timers' = PutIn(d, timers, w, t)
  BY <1>2 DEF t
<1>6. Kept(d, Timer, timers', at')
  <2>1. at'[w] = t /\ \A v \in Timer : v # w => at'[v] = at[v]
    BY <1>4, <1>5 DEF Watcher
  <2>2. Kept(d, Timer, timers, at)
    BY <1>1 DEF HeapsKept
  <2>3. Kept(d, Timer, PutIn(d, timers, w, t), at')
    BY <1>3, <1>4, <2>1, <2>2, PutInKept
  <2> QED BY <1>5, <2>3
<1>7. CallDid
  BY <1>3, <1>4, <1>5, <1>6, TimerCallDid
<1> QED BY <1>3, <1>7, CallInv

LEMMA TimerStopInv ==
  ASSUME TimerAssumption, TimersInv, NEW w \in Timer, TimerStop(w)
  PROVE  TimersInv'
<1>1. /\ TypeOK /\ Kept(d, Timer, timers, at) /\ Calls /\ Keep
      /\ periodics' = periodics /\ q' = Clear(w)
  BY DEF TimersInv, TimerStop, HeapsKept
<1>2. d \in {2, 4} /\ w \in Watcher /\ at \in [Watcher -> Int] /\ mn_now \in Int
  BY <1>1 DEF TypeOK, Watcher
<1>3. CASE timers.active[w] = 0
  <2>1. timers' = timers /\ at' = at
    BY <1>3 DEF TimerStop
  <2>2. at' = [at EXCEPT ![w] = at[w]] /\ at[w] \in Int
    BY <1>2, <2>1
  <2>3. CallDid
    BY <1>1, <2>1, <2>2, TimerCallDid
  <2> QED BY <1>1, <2>3, CallInv
<1>4. CASE timers.active[w] # 0
  <2> DEFINE t == at[w] - mn_now
  <2>1. timers' = TakeOut(d, timers, w) /\ at' = [at EXCEPT ![w] = t]
    BY <1>4 DEF TimerStop
  <2>2. t \in Int
    BY <1>2
  <2> HIDE DEF t
  <2>3. \A v \in Timer : v # w => at'[v] = at[v]
    BY <1>2, <2>1 DEF Watcher
  <2>4. Kept(d, Timer, TakeOut(d, timers, w), at')
    BY <1>1, <1>2, <1>4, <2>3, TakeOutKept
  <2>5. CallDid
    BY <1>1, <2>1, <2>2, <2>4, TimerCallDid
  <2> QED BY <1>1, <2>5, CallInv
<1> QED BY <1>3, <1>4

LEMMA TimerAgainInv ==
  ASSUME TimerAssumption, TimersInv, NEW w \in Timer, TimerAgain(w)
  PROVE  TimersInv'
<1> DEFINE next == mn_now + repeat[w]
           i    == timers.active[w]
<1>1. /\ TypeOK /\ Kept(d, Timer, timers, at) /\ Calls /\ Keep
      /\ periodics' = periodics /\ q' = Clear(w)
  BY DEF TimersInv, TimerAgain, HeapsKept
<1>2. /\ d \in {2, 4} /\ w \in Watcher /\ at \in [Watcher -> Int] /\ mn_now \in Int /\ next \in Int
  BY <1>1 DEF TypeOK, Watcher
<1>3. CASE i # 0 /\ repeat[w] # 0
  <2> DEFINE g == adjustheap(d, Put(timers, i, [w |-> w, at |-> next]), Len(timers.heap), i)
  <2>1. at' = [at EXCEPT ![w] = next] /\ timers' = g
    BY <1>3 DEF TimerAgain
  <2>2. ResetTo(d, timers, w, next, g) /\ w \in Running(Timer, timers)
    BY <1>3 DEF ResetTo, Running
  <2> HIDE DEF next, g
  <2>3. Retimed(Timer, at, w, next, at')
    BY <1>2, <2>1 DEF Retimed, Watcher
  <2>4. Kept(d, Timer, g, at')
    BY <1>1, <1>2, <2>2, <2>3, ResetKept
  <2>5. CallDid
    BY <1>1, <1>2, <2>1, <2>4, TimerCallDid
  <2> QED BY <1>1, <2>5, CallInv
<1>4. CASE i # 0 /\ repeat[w] = 0
  <2> DEFINE t == at[w] - mn_now
  <2>1. timers' = TakeOut(d, timers, w) /\ at' = [at EXCEPT ![w] = t]
    BY <1>4 DEF TimerAgain
  <2>2. t \in Int
    BY <1>2
  <2> HIDE DEF t
  <2>3. \A v \in Timer : v # w => at'[v] = at[v]
    BY <1>2, <2>1 DEF Watcher
  <2>4. Kept(d, Timer, TakeOut(d, timers, w), at')
    BY <1>1, <1>2, <1>4, <2>3, TakeOutKept
  <2>5. CallDid
    BY <1>1, <2>1, <2>2, <2>4, TimerCallDid
  <2> QED BY <1>1, <2>5, CallInv
<1>5. CASE i = 0 /\ repeat[w] # 0
  <2>1. at' = [at EXCEPT ![w] = next] /\ timers' = PutIn(d, timers, w, next)
    BY <1>5 DEF TimerAgain
  <2> HIDE DEF next
  <2>2. at'[w] = next /\ \A v \in Timer : v # w => at'[v] = at[v]
    BY <1>2, <2>1 DEF Watcher
  <2>3. Kept(d, Timer, PutIn(d, timers, w, next), at')
    BY <1>1, <1>2, <1>5, <2>2, PutInKept
  <2>4. CallDid
    BY <1>1, <1>2, <2>1, <2>3, TimerCallDid
  <2> QED BY <1>1, <2>4, CallInv
<1>6. CASE i = 0 /\ repeat[w] = 0
  <2>1. timers' = timers /\ at' = at
    BY <1>6 DEF TimerAgain
  <2>2. at' = [at EXCEPT ![w] = at[w]] /\ at[w] \in Int
    BY <1>2, <2>1
  <2>3. CallDid
    BY <1>1, <2>1, <2>2, TimerCallDid
  <2> QED BY <1>1, <2>3, CallInv
<1> QED BY <1>3, <1>4, <1>5, <1>6

LEMMA PeriodicCallDid ==
  ASSUME TimerAssumption, TimersInv, NEW w \in Periodic, at' \in [Watcher -> Int],
         \A v \in Watcher : v # w => at'[v] = at[v], timers' = timers,
         Kept(d, Periodic, periodics', at'), q' = q \/ q' = Clear(w),
         \/ Running(Periodic, periodics') \subseteq Running(Periodic, periodics) /\ at' = at
         \/ /\ Running(Periodic, periodics') \subseteq Running(Periodic, periodics) \cup {w}
            /\ at'[w] = Rescheduled(w, ev_rt_now, offset[w])
  PROVE  CallDid
<1>1. TypeOK /\ HeapsKept /\ QueueKept
  BY DEF TimersInv
<1>2. w \in Watcher /\ w \notin Timer /\ d \in {2, 4} /\ at \in [Watcher -> Int]
  BY <1>1 DEF TimerAssumption, TypeOK, Watcher
<1>3. Kept(d, Timer, timers', at')
  <2>1. \A v \in Running(Timer, timers) : at'[v] = at[v]
    BY <1>2 DEF Running, Watcher
  <2> QED BY <1>1, <1>2, <2>1, KeptSame DEF HeapsKept
<1>4. Matched(Watcher, q') /\ \A v \in Watcher : q'.pending[v] = 0 \/ q'.pending[v] = q.pending[v]
  BY <1>1, <1>2, ClearedIs DEF QueueKept
<1>5. ASSUME NEW p \in Running(Periodic, periodics')
      PROVE  \/ p \in Running(Periodic, periodics) /\ at'[p] = at[p]
             \/ at'[p] = Rescheduled(p, ev_rt_now, offset[p])
  <2>1. p \in Watcher
    BY DEF Running, Watcher
  <2> QED BY <1>5, <2>1
<1> QED BY <1>3, <1>4, <1>5 DEF CallDid

LEMMA PutInRunning ==
  ASSUME NEW D \in {2, 4}, NEW W, NEW h, NEW times, Kept(D, W, h, times),
         NEW w \in W, h.active[w] = 0, NEW t \in Int
  PROVE  Running(W, PutIn(D, h, w, t)) = Running(W, h) \cup {w}
<1> DEFINE g == PutIn(D, h, w, t)
           e == [w |-> w, at |-> t]
<1>1. Sound(D, W, g) /\ All(g) = All(h) \cup {e}
  BY PutInSound DEF Kept
<1>2. e.w = w
  OBVIOUS
<1> HIDE DEF g, e
<1>3. Running(W, h) = {x.w : x \in All(h)}
  BY RunningIs DEF Kept
<1>4. Running(W, g) = {x.w : x \in All(g)}
  BY <1>1, RunningIs
<1>5. Running(W, g) = Running(W, h) \cup {w}
  BY <1>1, <1>2, <1>3, <1>4
<1> QED BY <1>5 DEF g

LEMMA PeriodicStartInv ==
  ASSUME TimerAssumption, TimersInv, NEW w \in Periodic, PeriodicStart(w)
  PROVE  TimersInv'
<1> DEFINE t == Rescheduled(w, ev_rt_now, offset[w])
<1>1. /\ TypeOK /\ Kept(d, Periodic, periodics, at) /\ Calls /\ Keep
      /\ timers' = timers /\ q' = q /\ periodics.active[w] = 0
      /\ at' = [at EXCEPT ![w] = t] /\ periodics' = PutIn(d, periodics, w, t)
  BY DEF TimersInv, PeriodicStart, HeapsKept
<1>2. d \in {2, 4} /\ w \in Watcher /\ at \in [Watcher -> Int] /\ ev_rt_now \in Int /\ offset[w] \in Int
  BY <1>1 DEF TypeOK, Watcher
<1>3. t \in Int
  BY <1>1, <1>2, RescheduledIs
<1> HIDE DEF t
<1>4. /\ at'[w] = t /\ at' \in [Watcher -> Int] /\ \A v \in Watcher : v # w => at'[v] = at[v]
      /\ \A v \in Periodic : v # w => at'[v] = at[v]
  BY <1>1, <1>2, <1>3 DEF Watcher
<1>5. /\ Kept(d, Periodic, PutIn(d, periodics, w, t), at')
      /\ Running(Periodic, PutIn(d, periodics, w, t)) = Running(Periodic, periodics) \cup {w}
  <2>1. /\ Kept(d, Periodic, periodics, at) /\ d \in {2, 4} /\ periodics.active[w] = 0 /\ t \in Int
        /\ at'[w] = t /\ \A v \in Periodic : v # w => at'[v] = at[v]
    BY <1>1, <1>2, <1>3, <1>4
  <2>2. Kept(d, Periodic, PutIn(d, periodics, w, t), at')
    BY <2>1, PutInKept
  <2>3. Running(Periodic, PutIn(d, periodics, w, t)) = Running(Periodic, periodics) \cup {w}
    BY <2>1, PutInRunning
  <2> QED BY <2>2, <2>3
<1>6. /\ Kept(d, Periodic, periodics', at')
      /\ Running(Periodic, periodics') \subseteq Running(Periodic, periodics) \cup {w}
  BY <1>1, <1>5
<1>7. at'[w] = Rescheduled(w, ev_rt_now, offset[w])
  BY <1>4 DEF t
<1>8. CallDid
  BY <1>1, <1>4, <1>6, <1>7, PeriodicCallDid
<1> QED BY <1>1, <1>8, CallInv

\* Stopping leaves a heap without w.
LEMMA StoppedIs ==
  ASSUME TypeOK, HeapsKept, NEW w \in Periodic, NEW ph,
         ph = IF periodics.active[w] = 0 THEN periodics ELSE TakeOut(d, periodics, w)
  PROVE  /\ Kept(d, Periodic, ph, at) /\ ph.active[w] = 0
         /\ Running(Periodic, ph) \subseteq Running(Periodic, periodics)
<1>1. d \in {2, 4} /\ Kept(d, Periodic, periodics, at)
  BY DEF TypeOK, HeapsKept
<1>2. CASE periodics.active[w] = 0
  BY <1>1, <1>2
<1>3. CASE periodics.active[w] # 0
  <2>1. ph = TakeOut(d, periodics, w)
    BY <1>3
  <2>2. /\ Kept(d, Periodic, TakeOut(d, periodics, w), at)
        /\ Running(Periodic, TakeOut(d, periodics, w)) = Running(Periodic, periodics) \ {w}
    BY <1>1, <1>3, TakeOutKept
  <2>3. Kept(d, Periodic, ph, at) /\ Running(Periodic, ph) = Running(Periodic, periodics) \ {w}
    BY <2>1, <2>2
  <2> QED BY <2>3 DEF Running
<1> QED BY <1>2, <1>3

LEMMA PeriodicStopInv ==
  ASSUME TimerAssumption, TimersInv, NEW w \in Periodic, PeriodicStop(w)
  PROVE  TimersInv'
<1>1. /\ TypeOK /\ HeapsKept /\ Calls /\ Keep /\ timers' = timers /\ q' = Clear(w) /\ at' = at
      /\ periodics' = IF periodics.active[w] = 0 THEN periodics ELSE TakeOut(d, periodics, w)
  BY DEF TimersInv, PeriodicStop
<1>2. /\ Kept(d, Periodic, periodics', at)
      /\ Running(Periodic, periodics') \subseteq Running(Periodic, periodics)
  BY <1>1, StoppedIs
<1>3. at \in [Watcher -> Int]
  BY <1>1 DEF TypeOK
<1>4. CallDid
  BY <1>1, <1>2, <1>3, PeriodicCallDid
<1> QED BY <1>1, <1>4, CallInv

LEMMA PeriodicAgainInv ==
  ASSUME TimerAssumption, TimersInv, NEW w \in Periodic, PeriodicAgain(w)
  PROVE  TimersInv'
<1> DEFINE t  == Rescheduled(w, ev_rt_now, offset[w])
           ph == IF periodics.active[w] = 0 THEN periodics ELSE TakeOut(d, periodics, w)
<1>1. /\ TypeOK /\ HeapsKept /\ Calls /\ Keep /\ timers' = timers /\ q' = Clear(w)
      /\ at' = [at EXCEPT ![w] = t] /\ periodics' = PutIn(d, ph, w, t)
  BY DEF TimersInv, PeriodicAgain
<1>2. /\ Kept(d, Periodic, ph, at) /\ ph.active[w] = 0
      /\ Running(Periodic, ph) \subseteq Running(Periodic, periodics)
  BY <1>1, StoppedIs
<1>3. d \in {2, 4} /\ w \in Watcher /\ at \in [Watcher -> Int] /\ ev_rt_now \in Int /\ offset[w] \in Int
  BY <1>1 DEF TypeOK, Watcher
<1>4. t \in Int
  BY <1>1, <1>3, RescheduledIs
<1> HIDE DEF t, ph
<1>5. /\ at'[w] = t /\ at' \in [Watcher -> Int] /\ \A v \in Watcher : v # w => at'[v] = at[v]
      /\ \A v \in Periodic : v # w => at'[v] = at[v]
  BY <1>1, <1>3, <1>4 DEF Watcher
<1>6. /\ Kept(d, Periodic, PutIn(d, ph, w, t), at')
      /\ Running(Periodic, PutIn(d, ph, w, t)) = Running(Periodic, ph) \cup {w}
  <2>1. /\ Kept(d, Periodic, ph, at) /\ d \in {2, 4} /\ ph.active[w] = 0 /\ t \in Int
        /\ at'[w] = t /\ \A v \in Periodic : v # w => at'[v] = at[v]
    BY <1>2, <1>3, <1>4, <1>5
  <2>2. Kept(d, Periodic, PutIn(d, ph, w, t), at')
    BY <2>1, PutInKept
  <2>3. Running(Periodic, PutIn(d, ph, w, t)) = Running(Periodic, ph) \cup {w}
    BY <2>1, PutInRunning
  <2> QED BY <2>2, <2>3
<1>7. /\ Kept(d, Periodic, periodics', at')
      /\ Running(Periodic, periodics') \subseteq Running(Periodic, periodics) \cup {w}
  BY <1>1, <1>2, <1>6
<1>8. at'[w] = Rescheduled(w, ev_rt_now, offset[w])
  BY <1>5 DEF t
<1>9. CallDid
  BY <1>1, <1>5, <1>7, <1>8, PeriodicCallDid
<1> QED BY <1>1, <1>9, CallInv

LEMMA NextInv == TimerAssumption /\ TimersInv /\ [Next]_vars => TimersInv'
<1> SUFFICES ASSUME TimerAssumption, TimersInv, [Next]_vars PROVE TimersInv'
  OBVIOUS
<1>1. CASE Next
  <2>1. ASSUME NEW el \in 0..MaxWait, NEW by \in JumpBy \cup {0}, Passes(el, by),
               \/ Enter(Reading(el, by)) \/ Reify(Reading(el, by))
               \/ Suspend(Reading(el, by)) \/ Resume(Reading(el, by))
        PROVE  TimersInv'
    <3>1. el \in Nat /\ by \in Int
      BY DEF TimerAssumption
    <3> QED BY <2>1, <3>1, EnterInv, ReifyInv, SuspendInv, ResumeInv
  <2>2. CASE Invoke
    BY <2>2, InvokeInv
  <2>3. ASSUME NEW w \in Timer, TimerStart(w) \/ TimerStop(w) \/ TimerAgain(w) PROVE TimersInv'
    BY <2>3, TimerStartInv, TimerStopInv, TimerAgainInv
  <2>4. ASSUME NEW w \in Periodic, PeriodicStart(w) \/ PeriodicStop(w) \/ PeriodicAgain(w)
        PROVE  TimersInv'
    BY <2>4, PeriodicStartInv, PeriodicStopInv, PeriodicAgainInv
  <2> QED BY <1>1, <2>1, <2>2, <2>3, <2>4 DEF Next
<1>2. CASE UNCHANGED vars
  <2>1. UNCHANGED <<clock, wall, jumps, have_monotonic, d, repeat, interval, offset, mn_now, ev_rt_now,
                    rtmn_diff, now_floor, timers, periodics, at, q, firedAt, phase, waittime, suspended>>
    BY <1>2 DEF vars, world, fixed, time, heaps
  <2>2. Missed' = Missed
    BY <2>1 DEF Missed
  <2>3. TypeOK' /\ HeapsKept' /\ QueueKept'
    BY <2>1 DEF TimersInv, TypeOK, HeapsKept, QueueKept
  <2>4. FiredKept' /\ ClocksKept' /\ NoOversleep'
    BY <2>1 DEF TimersInv, FiredKept, ClocksKept, NoOversleep
  <2>5. PeriodsKept'
    BY <2>1, <2>2, PeriodsNext DEF TimersInv, PeriodsKept
  <2> QED BY <2>3, <2>4, <2>5 DEF TimersInv
<1> QED BY <1>1, <1>2

\* The heaps are heaps of the watchers' own times, the queue agrees with them,
\* the clocks agree with each other as far as the loop noticed their jumps, and
\* the wait and the periodics keep to them: after every step of libev's loop and
\* after every call of ev_timer_* and ev_periodic_*.
THEOREM TimersHold == Spec => []TimersInv
<1>1. Init => TimersInv
  BY InitInv, TimerAssumption
<1>2. TimersInv /\ [Next]_vars => TimersInv'
  BY NextInv, TimerAssumption
<1> QED BY <1>1, <1>2, PTL DEF Spec

\* What ev_verify asserts of timers and periodics: downheap, upheap, adjustheap
\* and reheap keep the heaps in order with true positions and cached times, and
\* the queue of pending events matches the watchers, for any number of watchers.
THEOREM TimersVerifiedHolds == Spec => []TimersVerified
<1>1. TimersInv => TimersVerified
  <2> SUFFICES ASSUME TimersInv PROVE TimersVerified
    OBVIOUS
  <2>1. /\ d \in {2, 4} /\ Kept(d, Timer, timers, at) /\ Kept(d, Periodic, periodics, at)
        /\ Matched(Watcher, q)
    BY DEF TimersInv, TypeOK, HeapsKept, QueueKept
  <2>2. HeapVerified(d, timers, at) /\ HeapVerified(d, periodics, at)
    BY <2>1, KeptParts
  <2>3. pri[NoWatcher] = 0 /\ \A v \in Watcher : pri[v] = 0
    BY DEF pri
  <2>4. QueueVerified(q, pri)
    BY <2>1, <2>3, MatchedVerified
  <2> QED BY <2>2, <2>4 DEF TimersVerified
<1> QED BY <1>1, TimersHold, PTL

\* backend_poll is never asked to wait past the time of a timer or of a periodic.
THEOREM NoOversleepHolds == Spec => []NoOversleep
<1>1. TimersInv => NoOversleep
  BY DEF TimersInv
<1> QED BY <1>1, TimersHold, PTL

\* Periodics stay in their pattern and are never set more than their interval
\* ahead, but for the jumps that time_update took for none.
THEOREM PeriodicsInTimeHolds == Spec => []PeriodicsInTime
<1>1. TimersInv => PeriodicsInTime
  <2> SUFFICES ASSUME TimersInv, phase = "run", ~suspended, NEW p \in Periodic,
                      periodics.active[p] # 0, interval[p] \in Nat \ {0}
               PROVE  /\ (at[p] - offset[p]) % interval[p] = 0
                      /\ ev_rt_now <= at[p] /\ at[p] <= ev_rt_now + interval[p] + jumps * MIN_TIMEJUMP
    BY DEF PeriodicsInTime
  <2>1. TypeOK /\ ClocksKept /\ p \in Running(Periodic, periodics) /\ Fast(p)
    BY DEF TimersInv, Running, Fast
  <2>2. /\ InPattern(p, at[p]) /\ ev_rt_now <= at[p]
        /\ at[p] <= ev_rt_now + interval[p] + Missed * MIN_TIMEJUMP
    BY <2>1 DEF TimersInv, PeriodsKept
  <2>3. Missed \in Nat /\ Missed <= jumps /\ jumps \in Nat /\ MIN_TIMEJUMP \in Nat
    BY <2>1, MissedNatural, TimerAssumption DEF TypeOK
  <2>4. /\ Missed * MIN_TIMEJUMP \in Int /\ jumps * MIN_TIMEJUMP \in Int
        /\ Missed * MIN_TIMEJUMP <= jumps * MIN_TIMEJUMP
    BY <2>3, ProductsGrow
  <2>5. at[p] \in Int /\ ev_rt_now \in Int
    BY <2>1 DEF TypeOK, Watcher
  <2> DEFINE km == Missed * MIN_TIMEJUMP
             lm == jumps * MIN_TIMEJUMP
  <2>6. km \in Int /\ lm \in Int /\ km <= lm /\ at[p] <= ev_rt_now + interval[p] + km
    BY <2>2, <2>4
  <2> HIDE DEF km, lm
  <2>7. at[p] <= ev_rt_now + interval[p] + lm
    BY <2>5, <2>6
  <2> QED BY <2>2, <2>7 DEF InPattern, lm
<1> QED BY <1>1, TimersHold, PTL

-----------------------------------------------------------------------------
(* The timers implement EvTimerSet.                                        *)

DuesOf(th, times)  == [t \in Timer |-> IF th.active[t] = 0 THEN NoTime ELSE times[t]]
FiringOf(r, fired) == [t \in Timer |-> IF r.pending[t] = 0 THEN NoTime ELSE fired[t]]

Dues   == DuesOf(timers, at)
Firing == FiringOf(q, firedAt)

LaterBy(due, by) == [t \in Timer |-> IF due[t] = NoTime THEN NoTime ELSE due[t] + by]

LEMMA LookStep ==
  ASSUME UNCHANGED <<repeat, have_monotonic>>, suspended' \in BOOLEAN, Firing' = Firing,
         \/ Dues' = Dues
         \/ mn_now' # mn_now /\ ~have_monotonic /\ Dues' # Dues /\ Dues' = LaterBy(Dues, mn_now' - mn_now)
  PROVE  TimerSet!Next
<1>0. PICK s \in BOOLEAN : suspended' = s
  OBVIOUS
<1>1. TimerSet!Look(s)
  BY <1>0 DEF TimerSet!Look, TimerSet!Later, Dues, Firing, DuesOf, FiringOf, LaterBy
<1>2. \E x \in BOOLEAN : TimerSet!Look(x)
  BY <1>1
<1> QED BY <1>2 DEF TimerSet!Next

LEMMA ResumeStep ==
  ASSUME UNCHANGED <<repeat, have_monotonic>>, suspended, ~suspended', Firing' = Firing,
         Dues' = LaterBy(Dues, mn_now' - mn_now)
  PROVE  TimerSet!Next
<1>1. TimerSet!Resume
  BY DEF TimerSet!Resume, TimerSet!Later, Dues, Firing, DuesOf, FiringOf, LaterBy
<1> QED BY <1>1 DEF TimerSet!Next

\* What timers fire if they are due at base.
PassedAt(base, now, t) == base[t] # NoTime /\ base[t] < now
AfterFiring(base, now) ==
  [t \in Timer |-> IF ~PassedAt(base, now, t) THEN base[t]
                   ELSE IF repeat[t] = 0 THEN NoTime
                   ELSE IF base[t] + repeat[t] > now THEN base[t] + repeat[t] ELSE now]
FiringAfter(base, now) ==
  [t \in Timer |-> IF PassedAt(base, now, t) THEN base[t] ELSE Firing[t]]

LEMMA ExpireStep ==
  ASSUME UNCHANGED <<repeat, have_monotonic, suspended>>, NEW base,
         \/ base = Dues
         \/ ~have_monotonic /\ base = LaterBy(Dues, mn_now' - mn_now),
         Dues' = AfterFiring(base, mn_now'), Firing' = FiringAfter(base, mn_now')
  PROVE  TimerSet!Next
<1>1. TimerSet!Expire
  BY DEF TimerSet!Expire, TimerSet!Later, TimerSet!Latest, Dues, Firing, DuesOf, FiringOf, LaterBy,
         AfterFiring, FiringAfter, PassedAt
<1> QED BY <1>1 DEF TimerSet!Next

LEMMA CallbackStep ==
  ASSUME UNCHANGED <<repeat, have_monotonic, mn_now, suspended>>, Dues' = Dues, NEW t \in Timer,
         Firing[t] # NoTime, \A u \in Timer : Firing[u] # NoTime => Firing[t] <= Firing[u],
         Firing' = [Firing EXCEPT ![t] = NoTime]
  PROVE  TimerSet!Next
<1>1. TimerSet!Callback(t)
  BY DEF TimerSet!Callback, Dues, Firing, DuesOf, FiringOf
<1> QED BY <1>1 DEF TimerSet!Next

LEMMA StartStep ==
  ASSUME UNCHANGED <<repeat, have_monotonic, mn_now, suspended>>, NEW t \in Timer, NEW x, x # NoTime,
         Dues[t] = NoTime, Dues' = [Dues EXCEPT ![t] = x], Firing' = Firing
  PROVE  TimerSet!Next
<1>1. TimerSet!Start(t)
  BY DEF TimerSet!Start, Dues, Firing, DuesOf, FiringOf
<1> QED BY <1>1 DEF TimerSet!Next

LEMMA StopStep ==
  ASSUME UNCHANGED <<repeat, have_monotonic, mn_now, suspended>>, NEW t \in Timer,
         Dues' = [Dues EXCEPT ![t] = NoTime], Firing' = [Firing EXCEPT ![t] = NoTime]
  PROVE  TimerSet!Next
<1>1. TimerSet!Stop(t)
  BY DEF TimerSet!Stop, Dues, Firing, DuesOf, FiringOf
<1> QED BY <1>1 DEF TimerSet!Next

LEMMA AgainStep ==
  ASSUME UNCHANGED <<repeat, have_monotonic, mn_now, suspended>>, NEW t \in Timer,
         Dues' = [Dues EXCEPT ![t] = IF repeat[t] = 0 THEN NoTime ELSE mn_now + repeat[t]],
         Firing' = [Firing EXCEPT ![t] = NoTime]
  PROVE  TimerSet!Next
<1>1. TimerSet!Again(t)
  BY DEF TimerSet!Again, Dues, Firing, DuesOf, FiringOf
<1> QED BY <1>1 DEF TimerSet!Next

LEMMA DuesOfAre ==
  ASSUME TimerAssumption, NEW th, NEW times \in [Watcher -> Int], NEW t \in Timer
  PROVE  /\ DuesOf(th, times)[t] = IF t \in Running(Timer, th) THEN times[t] ELSE NoTime
         /\ times[t] \in Int /\ times[t] # NoTime
BY DEF DuesOf, Running, TimerAssumption, Watcher

\* Timers are due at the same times if they run and are set alike.
LEMMA DuesSame ==
  ASSUME NEW th, NEW times, NEW f, f = [t \in Timer |-> f[t]],
         \A t \in Timer : DuesOf(th, times)[t] = f[t]
  PROVE  DuesOf(th, times) = f
BY DEF DuesOf

LEMMA FiringSame ==
  ASSUME NEW r, NEW fired, NEW f, f = [t \in Timer |-> f[t]],
         \A t \in Timer : FiringOf(r, fired)[t] = f[t]
  PROVE  FiringOf(r, fired) = f
BY DEF FiringOf

LEMMA LaterNone == TimerAssumption /\ TypeOK => LaterBy(Dues, 0) = Dues
<1> SUFFICES ASSUME TimerAssumption, TypeOK PROVE LaterBy(Dues, 0) = Dues
  OBVIOUS
<1>1. \A t \in Timer : Dues[t] = NoTime \/ Dues[t] \in Int
  BY DuesOfAre DEF Dues, TypeOK
<1>2. Dues = [t \in Timer |-> Dues[t]]
  BY DEF Dues, DuesOf
<1>3. LaterBy(Dues, 0) = [t \in Timer |-> IF Dues[t] = NoTime THEN NoTime ELSE Dues[t] + 0]
  BY DEF LaterBy
<1>4. \A t \in Timer : (IF Dues[t] = NoTime THEN NoTime ELSE Dues[t] + 0) = Dues[t]
  BY <1>1
<1> QED BY <1>2, <1>3, <1>4

\* What time_update does to the timers.
LEMMA AdjustedDues ==
  ASSUME TimerAssumption, TypeOK, NEW u, NEW resume, NEW a, Adjusts(u, resume, a),
         ByOf(u, resume) \in Int
  PROVE  DuesOf(a.timers, a.at) = LaterBy(Dues, ByOf(u, resume))
<1> DEFINE by == ByOf(u, resume)
           f  == LaterBy(Dues, by)
<1>1. f = [t \in Timer |-> IF Dues[t] = NoTime THEN NoTime ELSE Dues[t] + by]
  BY DEF LaterBy
<1>2. f = [t \in Timer |-> f[t]]
  BY <1>1
<1>3. ASSUME NEW t \in Timer PROVE DuesOf(a.timers, a.at)[t] = f[t]
  <2>1. /\ DuesOf(a.timers, a.at)[t] = IF t \in Running(Timer, a.timers) THEN a.at[t] ELSE NoTime
        /\ Dues[t] = IF t \in Running(Timer, timers) THEN at[t] ELSE NoTime
        /\ at[t] # NoTime
    BY DuesOfAre DEF Adjusts, Dues, TypeOK
  <2>2. Running(Timer, a.timers) = Running(Timer, timers) /\ a.at[t] = Shifted(t, by)
    BY DEF Adjusts
  <2>3. f[t] = IF Dues[t] = NoTime THEN NoTime ELSE Dues[t] + by
    BY <1>1
  <2> QED BY <2>1, <2>2, <2>3 DEF Shifted
<1> HIDE DEF f
<1>4. DuesOf(a.timers, a.at) = f
  BY <1>2, <1>3, DuesSame
<1> QED BY <1>4 DEF f

\* Nobody fires while nobody is pending.
LEMMA FiringNone ==
  ASSUME NEW r, NEW fired, \A t \in Timer : r.pending[t] = 0
  PROVE  FiringOf(r, fired) = [t \in Timer |-> NoTime]
BY DEF FiringOf

LEMMA NobodyPending ==
  ASSUME QueueKept, NoneQueued(q)
  PROVE  \A t \in Timer : q.pending[t] = 0
BY NoneQueuedIs DEF QueueKept, Watcher

\* The abstract variables.
Abstract == <<mn_now, Dues, Firing, repeat, suspended, have_monotonic>>

\* Before the poll, and before the loop is suspended.
LEMMA LookRefines ==
  ASSUME TimerAssumption, TimersInv, NEW el \in Nat, NEW by \in Int, Passes(el, by),
         NEW u, u = time_update(Reading(el, by), Forever), SetTime(u),
         timers' = Adjusted(u, FALSE).timers, at' = Adjusted(u, FALSE).at,
         NoneQueued(q), q' = q, suspended' \in BOOLEAN
  PROVE  TimerSet!Next
<1> DEFINE a == Adjusted(u, FALSE)
<1>1. TypeOK /\ QueueKept
  BY DEF TimersInv
<1>2. Looks(el, by, Forever, FALSE, u, a)
  <2> DEFINE v == time_update(Reading(el, by), Forever)
  <2>1. u = v /\ SetTime(v)
    OBVIOUS
  <2>2. Looks(el, by, Forever, FALSE, v, Adjusted(v, FALSE))
    BY <2>1, LooksIs DEF Forever
  <2> QED BY <2>1, <2>2
<1> HIDE DEF a
<1>3. /\ Adjusts(u, FALSE, a) /\ Updated(u, Forever = NoTime) /\ mn_now' = u.mn
      /\ repeat' = repeat /\ have_monotonic' = have_monotonic
  BY <1>2 DEF Looks
<1>4. ByOf(u, FALSE) = u.shift /\ u.shift \in Int
  BY <1>3 DEF ByOf, Updated
<1>5. DuesOf(a.timers, a.at) = LaterBy(Dues, u.shift)
  <2>1. ByOf(u, FALSE) \in Int
    BY <1>4
  <2>2. DuesOf(a.timers, a.at) = LaterBy(Dues, ByOf(u, FALSE))
    BY <1>1, <1>3, <2>1, AdjustedDues
  <2> QED BY <1>4, <2>2
<1>6. Dues' = LaterBy(Dues, u.shift)
  BY <1>5 DEF Dues, a
<1>7. Firing' = Firing
  <2>1. \A t \in Timer : q.pending[t] = 0 /\ q'.pending[t] = 0
    BY <1>1, NobodyPending
  <2> QED BY <2>1, FiringNone DEF Firing
<1>8. CASE u.shift = 0
  <2>1. Dues' = Dues
    BY <1>1, <1>6, <1>8, LaterNone
  <2> QED BY <1>3, <1>7, <2>1, LookStep
<1>9. CASE u.shift # 0
  <2>1. ~have_monotonic /\ u.shift = mn_now' - mn_now /\ mn_now' # mn_now
    <3>1. ~have_monotonic
      BY <1>1, <1>3, <1>9 DEF Updated, TypeOK
    <3>2. u.shift = wall' - mn_now /\ u.mn = wall'
      BY <1>3, <1>9, <3>1 DEF Updated
    <3>3. mn_now \in Int
      BY <1>1 DEF TypeOK
    <3> QED BY <1>3, <1>9, <3>1, <3>2, <3>3
  <2>2. Dues' = LaterBy(Dues, mn_now' - mn_now)
    BY <1>6, <2>1
  <2> QED BY <1>3, <1>7, <2>1, <2>2, LookStep
<1> QED BY <1>8, <1>9


LEMMA ResumeRefines ==
  ASSUME TimerAssumption, TimersInv, NEW el \in Nat, NEW by \in Int, Passes(el, by),
         Resume(Reading(el, by))
  PROVE  TimerSet!Next
<1> DEFINE u == time_update(Reading(el, by), Forever)
           a == Adjusted(u, TRUE)
<1>1. /\ suspended /\ SetTime(u) /\ timers' = a.timers /\ at' = a.at /\ suspended' = FALSE
      /\ q' = q /\ firedAt' = firedAt
  BY DEF Resume
<1>2. Looks(el, by, Forever, TRUE, u, a)
  BY <1>1, LooksIs DEF Forever
<1> HIDE DEF u, a
<1>3. TypeOK /\ ClocksKept
  BY DEF TimersInv
<1>4. /\ Adjusts(u, TRUE, a) /\ Updated(u, TRUE) /\ mn_now' = u.mn
      /\ repeat' = repeat /\ have_monotonic' = have_monotonic
  BY <1>2 DEF Looks, Forever
<1>5. u.shift = 0
  <2>1. CASE have_monotonic
    BY <1>4, <2>1 DEF Updated
  <2>2. CASE ~have_monotonic
    <3>1. mn_now = wall /\ by = 0
      BY <1>1, <1>3, <2>2 DEF ClocksKept, Passes
    <3>2. wall' = wall + el + by
      BY DEF Passes
    <3>3. ~(mn_now > wall')
      BY <1>3, <3>1, <3>2 DEF TypeOK
    <3> QED BY <1>4, <2>2, <3>3 DEF Updated
  <2> QED BY <1>3, <2>1, <2>2 DEF TypeOK
<1>6. ByOf(u, TRUE) = mn_now' - mn_now /\ ByOf(u, TRUE) \in Int
  BY <1>3, <1>4, <1>5 DEF ByOf, TypeOK, Updated
<1>7. DuesOf(a.timers, a.at) = LaterBy(Dues, ByOf(u, TRUE))
  BY <1>3, <1>4, <1>6, AdjustedDues
<1>8. Dues' = LaterBy(Dues, mn_now' - mn_now)
  BY <1>1, <1>6, <1>7 DEF Dues
<1>9. Firing' = Firing
  BY <1>1 DEF Firing
<1> QED BY <1>1, <1>4, <1>8, <1>9, ResumeStep

LEMMA ReifyRefines ==
  ASSUME TimerAssumption, TimersInv, NEW el \in Nat, NEW by \in Int, Passes(el, by),
         Reify(Reading(el, by))
  PROVE  TimerSet!Next
<1> DEFINE u == time_update(Reading(el, by), waittime)
           a == Adjusted(u, FALSE)
           th == TsOf(u, a).h
           ph == PsOf(u, a).h
           at1 == PsOf(u, a).at
           q1  == QOf(u, a)
           fired1 == PsOf(u, a).firedAt
           base == DuesOf(a.timers, a.at)
<1>1. /\ phase = "poll" /\ SetTime(u)
      /\ timers' = th /\ periodics' = ph /\ at' = at1 /\ q' = q1 /\ firedAt' = fired1
      /\ suspended' = suspended
  BY DEF Reify, TsOf, PsOf, QOf
<1>2. TypeOK /\ QueueKept /\ waittime \in Int /\ NoneQueued(q)
  BY <1>1 DEF TimersInv, TypeOK, QueueKept
<1>3. Looks(el, by, waittime, FALSE, u, a)
  BY <1>1, <1>2, LooksIs
<1> HIDE DEF u, a
<1>4. /\ Adjusts(u, FALSE, a) /\ Updated(u, waittime = NoTime)
      /\ mn_now' = u.mn /\ repeat' = repeat /\ have_monotonic' = have_monotonic
  BY <1>3 DEF Looks
<1>5. /\ u.mn \in Int /\ u.rt \in Int /\ u.shift \in Int /\ ByOf(u, FALSE) = u.shift
      /\ ByOf(u, FALSE) \in Int
  BY <1>4 DEF Updated, ByOf
<1>6. Reified(u, a, th, ph, at1, q1, fired1)
  BY <1>1, <1>2, <1>4, <1>5, ReifyIs
<1> HIDE DEF th, ph, at1, q1, fired1
<1>7. base = Dues \/ (~have_monotonic /\ base = LaterBy(Dues, mn_now' - mn_now))
  <2>1. base = LaterBy(Dues, ByOf(u, FALSE))
    BY <1>2, <1>4, <1>5, AdjustedDues
  <2>2. CASE u.shift = 0
    BY <1>2, <1>5, <2>1, <2>2, LaterNone
  <2>3. CASE u.shift # 0
    <3>1. ~have_monotonic
      BY <1>2, <1>4, <2>3 DEF Updated, TypeOK
    <3>2. u.shift = mn_now' - mn_now
      BY <1>4, <2>3, <3>1 DEF Updated
    <3> QED BY <1>5, <2>1, <3>1, <3>2
  <2> QED BY <2>2, <2>3
<1>8. \A t \in Timer :
        /\ base[t] = IF t \in Running(Timer, timers) THEN a.at[t] ELSE NoTime
        /\ a.at[t] \in Int /\ a.at[t] # NoTime
        /\ Dues'[t] = IF t \in Running(Timer, th) THEN at1[t] ELSE NoTime
        /\ PassedAt(base, mn_now', t) <=> TimerPassed(u, a, t)
  <2>1. ASSUME NEW t \in Timer
        PROVE  /\ base[t] = IF t \in Running(Timer, a.timers) THEN a.at[t] ELSE NoTime
               /\ a.at[t] \in Int /\ a.at[t] # NoTime
    BY <1>4, DuesOfAre DEF Adjusts
  <2>2. ASSUME NEW t \in Timer
        PROVE  DuesOf(th, at1)[t] = IF t \in Running(Timer, th) THEN at1[t] ELSE NoTime
    BY <1>6, DuesOfAre DEF Reified
  <2>3. Dues' = DuesOf(th, at1)
    BY <1>1 DEF Dues
  <2>4. Running(Timer, a.timers) = Running(Timer, timers)
    BY <1>4 DEF Adjusts
  <2> HIDE DEF base
  <2>5. ASSUME NEW t \in Timer PROVE PassedAt(base, mn_now', t) <=> TimerPassed(u, a, t)
    BY <1>4, <2>1, <2>4 DEF PassedAt, TimerPassed
  <2> QED BY <2>1, <2>2, <2>3, <2>4, <2>5
<1> HIDE DEF base
<1>9. Dues' = AfterFiring(base, mn_now')
  <2> DEFINE f == AfterFiring(base, mn_now')
  <2>1. f = [t \in Timer |-> IF ~PassedAt(base, mn_now', t) THEN base[t]
                             ELSE IF repeat[t] = 0 THEN NoTime
                             ELSE IF base[t] + repeat[t] > mn_now' THEN base[t] + repeat[t] ELSE mn_now']
    BY DEF AfterFiring
  <2>2. ASSUME NEW t \in Timer PROVE Dues'[t] = f[t]
    <3>1. f[t] = IF ~PassedAt(base, mn_now', t) THEN base[t]
                 ELSE IF repeat[t] = 0 THEN NoTime
                 ELSE IF base[t] + repeat[t] > mn_now' THEN base[t] + repeat[t] ELSE mn_now'
      BY <2>1
    <3> HIDE DEF f
    <3>2. CASE ~TimerPassed(u, a, t)
      <4>1. at1[t] = a.at[t] /\ (t \in Running(Timer, th) <=> t \in Running(Timer, timers))
        BY <1>6, <3>2 DEF Reified
      <4> QED BY <1>8, <3>1, <3>2, <4>1
    <3>3. CASE TimerPassed(u, a, t)
      <4>1. /\ t \in Running(Timer, th) <=> repeat[t] # 0
            /\ repeat[t] # 0 =>
                 at1[t] = IF a.at[t] + repeat[t] < u.mn THEN u.mn ELSE a.at[t] + repeat[t]
        BY <1>6, <3>3 DEF Reified
      <4>2. /\ base[t] = a.at[t] /\ a.at[t] \in Int /\ repeat[t] \in Int
            /\ PassedAt(base, mn_now', t)
        BY <1>2, <1>8, <3>3 DEF TimerPassed, TypeOK
      <4>3. CASE repeat[t] = 0
        BY <1>8, <3>1, <4>1, <4>2, <4>3
      <4>4. CASE repeat[t] # 0
        <5> DEFINE x == a.at[t] + repeat[t]
        <5>1. /\ Dues'[t] = IF x < u.mn THEN u.mn ELSE x
              /\ f[t] = IF x > u.mn THEN x ELSE u.mn
          BY <1>4, <1>8, <3>1, <4>1, <4>2, <4>4
        <5>2. x \in Int
          BY <4>2
        <5> HIDE DEF x
        <5> QED BY <1>5, <5>1, <5>2
      <4> QED BY <4>3, <4>4
    <3> QED BY <3>2, <3>3
  <2>3. f = [t \in Timer |-> f[t]]
    BY <2>1
  <2> HIDE DEF f
  <2>4. \A t \in Timer : DuesOf(timers', at')[t] = f[t]
    BY <2>2 DEF Dues
  <2>5. DuesOf(timers', at') = f
    BY <2>3, <2>4, DuesSame
  <2> QED BY <2>5 DEF Dues, f
<1>10. Firing' = FiringAfter(base, mn_now')
  <2> DEFINE f == FiringAfter(base, mn_now')
  <2>1. f = [t \in Timer |-> IF PassedAt(base, mn_now', t) THEN base[t] ELSE Firing[t]]
    BY DEF FiringAfter
  <2>2. \A t \in Timer : Firing[t] = NoTime
    BY <1>2, NobodyPending DEF Firing, FiringOf
  <2>3. ASSUME NEW t \in Timer PROVE FiringOf(q', firedAt')[t] = f[t]
    <3>1. FiringOf(q', firedAt')[t] = IF q1.pending[t] = 0 THEN NoTime ELSE fired1[t]
      BY <1>1 DEF FiringOf
    <3>2. f[t] = IF PassedAt(base, mn_now', t) THEN base[t] ELSE NoTime
      BY <2>1, <2>2
    <3> HIDE DEF f
    <3>3. CASE ~TimerPassed(u, a, t)
      <4>1. q1.pending[t] = 0
        BY <1>6, <3>3 DEF Reified
      <4> QED BY <1>8, <3>1, <3>2, <3>3, <4>1
    <3>4. CASE TimerPassed(u, a, t)
      <4>1. q1.pending[t] # 0 /\ fired1[t] = a.at[t]
        BY <1>6, <3>4 DEF Reified
      <4>2. base[t] = a.at[t]
        BY <1>8, <3>4 DEF TimerPassed
      <4> QED BY <1>8, <3>1, <3>2, <3>4, <4>1, <4>2
    <3> QED BY <3>3, <3>4
  <2>4. f = [t \in Timer |-> f[t]]
    BY <2>1
  <2> HIDE DEF f
  <2>5. FiringOf(q', firedAt') = f
    BY <2>3, <2>4, FiringSame
  <2> QED BY <2>5 DEF Firing, f
<1> QED BY <1>1, <1>4, <1>7, <1>9, <1>10, ExpireStep


\* The queue q' is q without w.
LEMMA FiringWithout ==
  ASSUME TypeOK, NEW w, Without(Watcher, q, w, q'), firedAt' = firedAt
  PROVE  /\ w \in Timer => Firing' = [Firing EXCEPT ![w] = NoTime]
         /\ w \notin Timer => Firing' = Firing
<1>1. \A t \in Timer : q'.pending[t] = IF t = w THEN 0 ELSE q.pending[t]
  BY DEF Without, Watcher
<1>2. /\ Firing' = [t \in Timer |-> IF q'.pending[t] = 0 THEN NoTime ELSE firedAt[t]]
      /\ Firing = [t \in Timer |-> IF q.pending[t] = 0 THEN NoTime ELSE firedAt[t]]
  BY DEF Firing, FiringOf
<1>3. ASSUME w \in Timer PROVE Firing' = [Firing EXCEPT ![w] = NoTime]
  BY <1>1, <1>2, <1>3
<1>4. ASSUME w \notin Timer PROVE Firing' = Firing
  BY <1>1, <1>2, <1>4
<1> QED BY <1>3, <1>4

LEMMA InvokeRefines ==
  ASSUME TimerAssumption, TimersInv, Invoke
  PROVE  [TimerSet!Next]_Abstract
<1> DEFINE x == Taken(q, 0).w
<1>1. /\ ~NoneQueued(q) /\ q' = Take(q, 0)
      /\ UNCHANGED <<have_monotonic, repeat, mn_now, timers, at, firedAt, suspended>>
  BY DEF Invoke, world, fixed, time
<1>2. TypeOK /\ QueueKept /\ FiredKept /\ Matched(Watcher, q)
  BY DEF TimersInv, QueueKept
<1>3. /\ Without(Watcher, q, x, q')
      /\ x = NoWatcher \/ (x \in Watcher /\ q.pending[x] = Len(q.list[0]) /\ q.pending[x] # 0)
  BY <1>1, <1>2, TakeIs DEF TimerAssumption
<1> HIDE DEF x
<1>4. Dues' = Dues
  BY <1>1 DEF Dues
<1>5. /\ x \in Timer => Firing' = [Firing EXCEPT ![x] = NoTime]
      /\ x \notin Timer => Firing' = Firing
  BY <1>1, <1>2, <1>3, FiringWithout
<1>6. CASE x \notin Timer
  BY <1>1, <1>4, <1>5, <1>6 DEF Abstract
<1>7. CASE x \in Timer
  <2>1. q.pending[x] = Len(q.list[0]) /\ q.pending[x] # 0
    BY <1>3, <1>7 DEF TimerAssumption, Watcher
  <2>2. \A t \in Timer : Firing[t] = IF q.pending[t] = 0 THEN NoTime ELSE firedAt[t]
    BY DEF Firing, FiringOf
  <2>3. firedAt[x] \in Int /\ firedAt[x] # NoTime /\ Firing[x] = firedAt[x]
    BY <1>2, <1>7, <2>1, <2>2 DEF FiredKept, TimerAssumption
  <2>4. ASSUME NEW t \in Timer, Firing[t] # NoTime PROVE Firing[x] <= Firing[t]
    <3>1. q.pending[t] # 0 /\ Firing[t] = firedAt[t] /\ t \in Watcher
      BY <2>2, <2>4 DEF Watcher
    <3>2. q.pending[t] \in 1..Len(q.list[0]) /\ q.list[0][q.pending[t]].w = t
      BY <1>2, <3>1 DEF Matched
    <3>3. Len(q.list[0]) \in Nat
      BY <1>2, MatchedType
    <3>4. CASE q.pending[t] = q.pending[x]
      <4>1. q.list[0][q.pending[x]].w = x /\ x \in Watcher
        BY <1>2, <1>7, <2>1 DEF Matched, Watcher
      <4>2. t = x
        BY <3>2, <3>4, <4>1
      <4> QED BY <2>3, <4>2
    <3>5. CASE q.pending[t] # q.pending[x]
      <4>1. q.pending[t] < q.pending[x]
        BY <2>1, <3>2, <3>3, <3>5
      <4>2. firedAt[x] <= firedAt[t]
        BY <1>2, <1>7, <3>1, <4>1 DEF FiredKept
      <4> QED BY <2>3, <3>1, <4>2
    <3> QED BY <3>4, <3>5
  <2>5. TimerSet!Next
    BY <1>1, <1>4, <1>5, <1>7, <2>3, <2>4, CallbackStep
  <2> QED BY <2>5
<1> QED BY <1>6, <1>7

\* One timer is set, or stopped.
LEMMA DuesSet ==
  ASSUME TimerAssumption, TypeOK, at' \in [Watcher -> Int], NEW w \in Timer,
         \A v \in Timer : v # w => at'[v] = at[v]
  PROVE  /\ Running(Timer, timers') = Running(Timer, timers) \cup {w} =>
              Dues' = [Dues EXCEPT ![w] = at'[w]]
         /\ Running(Timer, timers') = Running(Timer, timers) \ {w} =>
              Dues' = [Dues EXCEPT ![w] = NoTime]
<1> DEFINE on  == [Dues EXCEPT ![w] = at'[w]]
           off == [Dues EXCEPT ![w] = NoTime]
<1>0. Dues = [t \in Timer |-> Dues[t]]
  BY DEF Dues, DuesOf
<1>1. \A t \in Timer : Dues[t] = IF t \in Running(Timer, timers) THEN at[t] ELSE NoTime
  BY DuesOfAre DEF Dues, TypeOK
<1>2. \A t \in Timer : DuesOf(timers', at')[t] = IF t \in Running(Timer, timers') THEN at'[t] ELSE NoTime
  BY DuesOfAre
<1>3. ASSUME Running(Timer, timers') = Running(Timer, timers) \cup {w} PROVE Dues' = on
  <2>1. on = [t \in Timer |-> on[t]] /\ \A t \in Timer : on[t] = IF t = w THEN at'[w] ELSE Dues[t]
    BY <1>0
  <2> HIDE DEF on
  <2>2. \A t \in Timer : DuesOf(timers', at')[t] = on[t]
    BY <1>1, <1>2, <1>3, <2>1
  <2>3. DuesOf(timers', at') = on
    BY <2>1, <2>2, DuesSame
  <2> QED BY <2>3 DEF Dues
<1>4. ASSUME Running(Timer, timers') = Running(Timer, timers) \ {w} PROVE Dues' = off
  <2>1. off = [t \in Timer |-> off[t]] /\ \A t \in Timer : off[t] = IF t = w THEN NoTime ELSE Dues[t]
    BY <1>0
  <2> HIDE DEF off
  <2>2. \A t \in Timer : DuesOf(timers', at')[t] = off[t]
    BY <1>1, <1>2, <1>4, <2>1
  <2>3. DuesOf(timers', at') = off
    BY <2>1, <2>2, DuesSame
  <2> QED BY <2>3 DEF Dues
<1> QED BY <1>3, <1>4

LEMMA KeepIs ==
  ASSUME Keep
  PROVE  UNCHANGED <<repeat, have_monotonic, mn_now, suspended, firedAt>>
BY DEF Keep, fixed, time

\* What starting, stopping and resetting make of the heap.
LEMMA HeapRuns ==
  ASSUME TypeOK, HeapsKept, NEW w \in Timer
  PROVE  /\ \A t \in Int : timers.active[w] = 0 =>
              Running(Timer, PutIn(d, timers, w, t)) = Running(Timer, timers) \cup {w}
         /\ timers.active[w] # 0 =>
              Running(Timer, TakeOut(d, timers, w)) = Running(Timer, timers) \ {w}
         /\ \A t \in Int : timers.active[w] # 0 =>
              Running(Timer, adjustheap(d, Put(timers, timers.active[w], [w |-> w, at |-> t]),
                                        Len(timers.heap), timers.active[w])) = Running(Timer, timers)
<1>1. d \in {2, 4} /\ Kept(d, Timer, timers, at) /\ at \in [Watcher -> Int] /\ w \in Watcher
  BY DEF TypeOK, HeapsKept, Watcher
<1>2. ASSUME NEW t \in Int, timers.active[w] = 0
      PROVE  Running(Timer, PutIn(d, timers, w, t)) = Running(Timer, timers) \cup {w}
  BY <1>1, <1>2, PutInRunning
<1>3. ASSUME timers.active[w] # 0
      PROVE  Running(Timer, TakeOut(d, timers, w)) = Running(Timer, timers) \ {w}
  BY <1>1, <1>3, TakeOutKept
<1>4. ASSUME NEW t \in Int, timers.active[w] # 0
      PROVE  Running(Timer, adjustheap(d, Put(timers, timers.active[w], [w |-> w, at |-> t]),
                                        Len(timers.heap), timers.active[w])) = Running(Timer, timers)
  <2> DEFINE g == adjustheap(d, Put(timers, timers.active[w], [w |-> w, at |-> t]),
                             Len(timers.heap), timers.active[w])
             new == [at EXCEPT ![w] = t]
  <2>1. ResetTo(d, timers, w, t, g) /\ w \in Running(Timer, timers)
    BY <1>4 DEF ResetTo, Running
  <2>2. Retimed(Timer, at, w, t, new)
    BY <1>1 DEF Retimed, Watcher
  <2> HIDE DEF g, new
  <2>3. Running(Timer, g) = Running(Timer, timers)
    BY <1>1, <2>1, <2>2, ResetKept
  <2> QED BY <2>3 DEF g
<1> QED BY <1>2, <1>3, <1>4

LEMMA TimerStartRefines ==
  ASSUME TimerAssumption, TimersInv, NEW w \in Timer, TimerStart(w)
  PROVE  TimerSet!Next
<1>1. TypeOK /\ HeapsKept
  BY DEF TimersInv
<1>2. PICK after \in Delays \cup {at[w]} :
        /\ at' = [at EXCEPT ![w] = after + mn_now] /\ timers' = PutIn(d, timers, w, after + mn_now)
  BY DEF TimerStart
<1>3. Keep /\ timers.active[w] = 0 /\ q' = q
  BY DEF TimerStart
<1> DEFINE t == after + mn_now
<1>4. w \in Watcher /\ at \in [Watcher -> Int] /\ t \in Int
  BY <1>1 DEF TypeOK, Watcher, TimerAssumption
<1> HIDE DEF t
<1>5. at' = [at EXCEPT ![w] = t] /\ timers' = PutIn(d, timers, w, t)
  BY <1>2 DEF t
<1>6. at' \in [Watcher -> Int] /\ at'[w] = t /\ \A v \in Timer : v # w => at'[v] = at[v]
  BY <1>4, <1>5 DEF Watcher
<1>7. Running(Timer, timers') = Running(Timer, timers) \cup {w}
  BY <1>1, <1>3, <1>4, <1>5, HeapRuns
<1>8. Dues' = [Dues EXCEPT ![w] = t]
  BY <1>1, <1>6, <1>7, DuesSet
<1>9. Dues[w] = NoTime /\ t # NoTime
  BY <1>3, <1>4 DEF Dues, DuesOf, TimerAssumption
<1>10. Firing' = Firing
  BY <1>3, KeepIs DEF Firing
<1> QED BY <1>3, <1>8, <1>9, <1>10, KeepIs, StartStep

\* A timer that does not run, and its event is taken back.
LEMMA ClearedFiring ==
  ASSUME TimerAssumption, TimersInv, Keep, NEW w \in Watcher, q' = Clear(w)
  PROVE  /\ w \in Timer => Firing' = [Firing EXCEPT ![w] = NoTime]
         /\ w \notin Timer => Firing' = Firing
<1>1. TypeOK /\ Matched(Watcher, q) /\ firedAt' = firedAt
  BY KeepIs DEF TimersInv, QueueKept
<1>2. Without(Watcher, q, w, ClearPending(q, pri, w))
  BY <1>1, ClearIs DEF pri, TimerAssumption
<1>3. Without(Watcher, q, w, q')
  BY <1>2 DEF Clear
<1> QED BY <1>1, <1>3, FiringWithout

LEMMA NotDue ==
  ASSUME TimerAssumption, TypeOK, NEW w \in Timer, timers.active[w] = 0
  PROVE  Dues = [Dues EXCEPT ![w] = NoTime] /\ Dues[w] = NoTime
BY DEF Dues, DuesOf

LEMMA TimerStopRefines ==
  ASSUME TimerAssumption, TimersInv, NEW w \in Timer, TimerStop(w)
  PROVE  TimerSet!Next
<1>1. TypeOK /\ HeapsKept /\ Keep /\ q' = Clear(w) /\ w \in Watcher
  BY DEF TimersInv, TimerStop, Watcher
<1>2. Firing' = [Firing EXCEPT ![w] = NoTime]
  BY <1>1, ClearedFiring
<1>3. Dues' = [Dues EXCEPT ![w] = NoTime]
  <2>1. CASE timers.active[w] = 0
    <3>1. timers' = timers /\ at' = at
      BY <2>1 DEF TimerStop
    <3>2. Dues' = Dues
      BY <3>1 DEF Dues
    <3> QED BY <1>1, <2>1, <3>2, NotDue
  <2>2. CASE timers.active[w] # 0
    <3> DEFINE t == at[w] - mn_now
    <3>1. timers' = TakeOut(d, timers, w) /\ at' = [at EXCEPT ![w] = t]
      BY <2>2 DEF TimerStop
    <3>2. t \in Int /\ at \in [Watcher -> Int]
      BY <1>1 DEF TypeOK
    <3> HIDE DEF t
    <3>3. at' \in [Watcher -> Int] /\ \A v \in Timer : v # w => at'[v] = at[v]
      BY <1>1, <3>1, <3>2 DEF Watcher
    <3>4. Running(Timer, timers') = Running(Timer, timers) \ {w}
      BY <1>1, <2>2, <3>1, HeapRuns
    <3> QED BY <1>1, <3>3, <3>4, DuesSet
  <2> QED BY <2>1, <2>2
<1> QED BY <1>1, <1>2, <1>3, KeepIs, StopStep

LEMMA TimerAgainRefines ==
  ASSUME TimerAssumption, TimersInv, NEW w \in Timer, TimerAgain(w)
  PROVE  TimerSet!Next
<1> DEFINE next == mn_now + repeat[w]
           i    == timers.active[w]
<1>1. TypeOK /\ HeapsKept /\ Keep /\ q' = Clear(w) /\ w \in Watcher
  BY DEF TimersInv, TimerAgain, Watcher
<1>2. Firing' = [Firing EXCEPT ![w] = NoTime]
  BY <1>1, ClearedFiring
<1>3. at \in [Watcher -> Int] /\ next \in Int /\ mn_now \in Int
  BY <1>1 DEF TypeOK
<1>4. CASE repeat[w] # 0
  <2>1. /\ at' = [at EXCEPT ![w] = next]
        /\ i # 0 => timers' = adjustheap(d, Put(timers, i, [w |-> w, at |-> next]), Len(timers.heap), i)
        /\ i = 0 => timers' = PutIn(d, timers, w, next)
    BY <1>4 DEF TimerAgain
  <2> HIDE DEF next
  <2>2. at' \in [Watcher -> Int] /\ at'[w] = next /\ \A v \in Timer : v # w => at'[v] = at[v]
    BY <1>1, <1>3, <2>1 DEF Watcher
  <2>3. Running(Timer, timers') = Running(Timer, timers) \cup {w}
    <3>1. CASE i = 0
      BY <1>1, <1>3, <2>1, <3>1, HeapRuns
    <3>2. CASE i # 0
      <4>1. Running(Timer, timers') = Running(Timer, timers)
        BY <1>1, <1>3, <2>1, <3>2, HeapRuns
      <4> QED BY <3>2, <4>1 DEF Running
    <3> QED BY <3>1, <3>2
  <2>4. Dues' = [Dues EXCEPT ![w] = next]
    BY <1>1, <2>2, <2>3, DuesSet
  <2>5. Dues' = [Dues EXCEPT ![w] = IF repeat[w] = 0 THEN NoTime ELSE mn_now + repeat[w]]
    BY <1>4, <2>4 DEF next
  <2> QED BY <1>1, <1>2, <2>5, KeepIs, AgainStep
<1>5. CASE repeat[w] = 0
  <2>1. Dues' = [Dues EXCEPT ![w] = NoTime]
    <3>1. CASE i = 0
      <4>1. timers' = timers /\ at' = at
        BY <1>5, <3>1 DEF TimerAgain
      <4>2. Dues' = Dues
        BY <4>1 DEF Dues
      <4> QED BY <1>1, <3>1, <4>2, NotDue
    <3>2. CASE i # 0
      <4> DEFINE t == at[w] - mn_now
      <4>1. timers' = TakeOut(d, timers, w) /\ at' = [at EXCEPT ![w] = t]
        BY <1>5, <3>2 DEF TimerAgain
      <4>2. t \in Int
        BY <1>1, <1>3
      <4> HIDE DEF t
      <4>3. at' \in [Watcher -> Int] /\ \A v \in Timer : v # w => at'[v] = at[v]
        BY <1>1, <1>3, <4>1, <4>2 DEF Watcher
      <4>4. Running(Timer, timers') = Running(Timer, timers) \ {w}
        BY <1>1, <3>2, <4>1, HeapRuns
      <4> QED BY <1>1, <4>3, <4>4, DuesSet
    <3> QED BY <3>1, <3>2
  <2>2. Dues' = [Dues EXCEPT ![w] = IF repeat[w] = 0 THEN NoTime ELSE mn_now + repeat[w]]
    BY <1>5, <2>1
  <2> QED BY <1>1, <1>2, <2>2, KeepIs, AgainStep
<1> QED BY <1>4, <1>5

\* Calls for periodics change nothing of the timers.
LEMMA PeriodicRefines ==
  ASSUME TimerAssumption, TimersInv, NEW w \in Periodic,
         PeriodicStart(w) \/ PeriodicStop(w) \/ PeriodicAgain(w)
  PROVE  UNCHANGED Abstract
<1>1. /\ TypeOK /\ Keep /\ timers' = timers
      /\ q' = q \/ q' = Clear(w)
      /\ at' = at \/ at' = [at EXCEPT ![w] = Rescheduled(w, ev_rt_now, offset[w])]
  BY DEF TimersInv, PeriodicStart, PeriodicStop, PeriodicAgain
<1>2. w \in Watcher /\ w \notin Timer /\ at \in [Watcher -> Int]
  BY <1>1 DEF TimerAssumption, Watcher, TypeOK
<1>3. \A t \in Timer : at'[t] = at[t]
  BY <1>1, <1>2 DEF Watcher
<1>4. Dues' = Dues
  BY <1>1, <1>3 DEF Dues, DuesOf
<1>5. Firing' = Firing
  <2>1. CASE q' = q
    BY <1>1, <2>1, KeepIs DEF Firing
  <2>2. CASE q' = Clear(w)
    BY <1>1, <1>2, <2>2, ClearedFiring
  <2> QED BY <1>1, <2>1, <2>2
<1> QED BY <1>1, <1>4, <1>5, KeepIs DEF Abstract

LEMMA NextRefines == TimerAssumption /\ TimersInv /\ [Next]_vars => [TimerSet!Next]_Abstract
<1> SUFFICES ASSUME TimerAssumption, TimersInv, [Next]_vars PROVE [TimerSet!Next]_Abstract
  OBVIOUS
<1>1. CASE Next
  <2>1. ASSUME NEW el \in 0..MaxWait, NEW by \in JumpBy \cup {0}, Passes(el, by),
               \/ Enter(Reading(el, by)) \/ Reify(Reading(el, by))
               \/ Suspend(Reading(el, by)) \/ Resume(Reading(el, by))
        PROVE  TimerSet!Next
    <3>1. el \in Nat /\ by \in Int
      BY DEF TimerAssumption
    <3> DEFINE u == time_update(Reading(el, by), Forever)
    <3>2. CASE Enter(Reading(el, by)) \/ Suspend(Reading(el, by))
      <4>1. /\ SetTime(u) /\ timers' = Adjusted(u, FALSE).timers /\ at' = Adjusted(u, FALSE).at
            /\ NoneQueued(q) /\ q' = q
            /\ suspended' = suspended \/ suspended' = TRUE
        BY <3>2 DEF Enter, Suspend
      <4>2. suspended' \in BOOLEAN
        BY <4>1 DEF TimersInv, TypeOK
      <4> QED BY <2>1, <3>1, <4>1, <4>2, LookRefines
    <3>3. CASE Reify(Reading(el, by))
      BY <2>1, <3>1, <3>3, ReifyRefines
    <3>4. CASE Resume(Reading(el, by))
      BY <2>1, <3>1, <3>4, ResumeRefines
    <3> QED BY <2>1, <3>2, <3>3, <3>4
  <2>2. CASE Invoke
    BY <2>2, InvokeRefines
  <2>3. ASSUME NEW w \in Timer, TimerStart(w) \/ TimerStop(w) \/ TimerAgain(w)
        PROVE  TimerSet!Next
    BY <2>3, TimerStartRefines, TimerStopRefines, TimerAgainRefines
  <2>4. ASSUME NEW w \in Periodic, PeriodicStart(w) \/ PeriodicStop(w) \/ PeriodicAgain(w)
        PROVE  UNCHANGED Abstract
    BY <2>4, PeriodicRefines
  <2> QED BY <1>1, <2>1, <2>2, <2>3, <2>4 DEF Next
<1>2. CASE UNCHANGED vars
  BY <1>2 DEF vars, world, fixed, time, heaps, Abstract, Dues, Firing
<1> QED BY <1>1, <1>2

LEMMA InitRefines == TimerAssumption /\ Init => TimerSet!Init
<1> SUFFICES ASSUME TimerAssumption, Init PROVE TimerSet!Init
  OBVIOUS
<1>1. /\ timers.active = [w \in Timer |-> 0] /\ ~suspended
      /\ \A t \in Timer : q.pending[t] = 0
  <2>1. timers = EmptyHeap(Timer) /\ q = EmptyQueue({0}, Watcher) /\ ~suspended
    BY DEF Init
  <2>2. \A v \in Watcher : q.pending[v] = 0
    BY <2>1, EmptyMatched
  <2> QED BY <2>1, <2>2 DEF EmptyHeap, Watcher
<1> QED BY <1>1 DEF TimerSet!Init

\* Heaps, clocks and queue together do what EvTimerSet says: timers fire when
\* their time has passed, once, and in its order, whatever other timers and
\* periodics there are and however the clocks are read.
THEOREM ImplementsTimerSet == Spec => TimerSetSpec
<1>1. Init => TimerSet!Init
  BY InitRefines, TimerAssumption
<1>2. TimersInv /\ [Next]_vars => [TimerSet!Next]_Abstract
  BY NextRefines, TimerAssumption
<1> QED BY <1>1, <1>2, TimersHold, PTL DEF Spec, TimerSetSpec, TimerSet!Spec, TimerSet!vars, Abstract,
           Dues, Firing, DuesOf, FiringOf
=============================================================================
