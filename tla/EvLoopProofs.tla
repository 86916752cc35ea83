---------------------------- MODULE EvLoopProofs -----------------------------
(***************************************************************************)
(* Theorems about EvLoop, for any watchers, priorities and descriptors,    *)
(* any backend and any program.                                            *)
(***************************************************************************)
EXTENDS EvLoop, LoopsProofs, FiniteSetTheorems

-----------------------------------------------------------------------------
(* The queue, with any priorities                                          *)

Pendings(W) == [w : W \cup {NoWatcher}, events : SUBSET Revents]

LEMMA QueueFields ==
  ASSUME NEW P, NEW W, NEW u \in Queues(P, W)
  PROVE  /\ u.list \in [P -> Seq(Pendings(W))] /\ u.pending \in [W -> Nat]
         /\ u = [list |-> u.list, pending |-> u.pending]
BY DEF Queues, Pendings

LEMMA QueueOf ==
  ASSUME NEW P, NEW W, NEW l \in [P -> Seq(Pendings(W))], NEW p \in [W -> Nat]
  PROVE  [list |-> l, pending |-> p] \in Queues(P, W)
BY DEF Queues, Pendings

LEMMA ListFields ==
  ASSUME NEW P, NEW W, NEW u \in Queues(P, W), NEW p \in P
  PROVE  /\ u.list[p] \in Seq(Pendings(W)) /\ Len(u.list[p]) \in Nat
         /\ DOMAIN u.list[p] = 1..Len(u.list[p]) /\ DOMAIN u.list = P /\ DOMAIN u.pending = W
         /\ \A i \in 1..Len(u.list[p]) : u.list[p][i] \in Pendings(W)
<1>1. u.list[p] \in Seq(Pendings(W)) /\ DOMAIN u.list = P /\ DOMAIN u.pending = W
  BY QueueFields
<1> QED BY <1>1

\* What QueueVerified says, without the domains.
InQueue(P, W, u, pri) ==
  /\ u \in Queues(P, W)
  /\ \A v \in W : u.pending[v] # 0 =>
       u.pending[v] \in 1..Len(u.list[pri[v]]) /\ u.list[pri[v]][u.pending[v]].w = v
  /\ \A p \in P : \A i \in 1..Len(u.list[p]) :
       \/ u.list[p][i].w = NoWatcher
       \/ u.pending[u.list[p][i].w] = i /\ pri[u.list[p][i].w] = p /\ u.list[p][i].w \in W

LEMMA InQueueIs ==
  ASSUME NEW P, NEW W, NEW pri \in [W \cup {NoWatcher} -> P], NoWatcher \notin W, NEW u \in Queues(P, W)
  PROVE  QueueVerified(u, pri) <=> InQueue(P, W, u, pri)
<1>1. DOMAIN u.list = P /\ DOMAIN u.pending = W /\ \A v \in W : pri[v] \in P
  BY QueueFields
<1>2. \A p \in P : DOMAIN u.list[p] = 1..Len(u.list[p])
  BY ListFields
<1>3. ASSUME NEW p \in P, NEW i \in 1..Len(u.list[p]) PROVE u.list[p][i].w \in W \cup {NoWatcher}
  BY ListFields DEF Pendings
<1>4. ASSUME QueueVerified(u, pri) PROVE InQueue(P, W, u, pri)
  <2>1. ASSUME NEW v \in W, u.pending[v] # 0
        PROVE  u.pending[v] \in 1..Len(u.list[pri[v]]) /\ u.list[pri[v]][u.pending[v]].w = v
    BY <1>1, <1>2, <1>4, <2>1 DEF QueueVerified, Queued
  <2>2. ASSUME NEW p \in P, NEW i \in 1..Len(u.list[p])
        PROVE  \/ u.list[p][i].w = NoWatcher
               \/ u.pending[u.list[p][i].w] = i /\ pri[u.list[p][i].w] = p /\ u.list[p][i].w \in W
    BY <1>1, <1>2, <1>3, <1>4 DEF QueueVerified
  <2> QED BY <2>1, <2>2 DEF InQueue
<1>5. ASSUME InQueue(P, W, u, pri) PROVE QueueVerified(u, pri)
  <2>1. ASSUME NEW v \in Queued(u)
        PROVE  u.pending[v] \in DOMAIN u.list[pri[v]] /\ u.list[pri[v]][u.pending[v]].w = v
    BY <1>1, <1>2, <1>5 DEF InQueue, Queued
  <2>2. ASSUME NEW p \in DOMAIN u.list, NEW i \in DOMAIN u.list[p]
        PROVE  u.list[p][i].w = NoWatcher \/ (u.pending[u.list[p][i].w] = i /\ pri[u.list[p][i].w] = p)
    BY <1>1, <1>2, <1>5 DEF InQueue
  <2> QED BY <2>1, <2>2 DEF QueueVerified
<1> QED BY <1>4, <1>5

For(u, pri, w) == u.list[pri[w]][u.pending[w]].events

\* v is pending in r as it was in u.
AsBefore(u, r, pri, v) ==
  r.pending[v] = u.pending[v] /\ (u.pending[v] # 0 => For(r, pri, v) = For(u, pri, v))

Fed(W, u, pri, w, revents, r) ==
  /\ r.pending[w] = IF u.pending[w] = 0 THEN Len(u.list[pri[w]]) + 1 ELSE u.pending[w]
  /\ For(r, pri, w) = IF u.pending[w] = 0 THEN revents ELSE For(u, pri, w) \cup revents
  /\ \A v \in W : v # w => AsBefore(u, r, pri, v)

LEMMA FeedIs ==
  ASSUME NEW P, NEW W, NEW pri \in [W \cup {NoWatcher} -> P], NoWatcher \notin W,
         NEW u, InQueue(P, W, u, pri), NEW w \in W, NEW revents \in SUBSET Revents
  PROVE  /\ InQueue(P, W, FeedEvent(u, pri, w, revents), pri)
         /\ Fed(W, u, pri, w, revents, FeedEvent(u, pri, w, revents))
<1> DEFINE r == FeedEvent(u, pri, w, revents)
           p == pri[w]
           n == Len(u.list[p])
<1>1. u \in Queues(P, W) /\ p \in P /\ \A v \in W : pri[v] \in P
  BY DEF InQueue
<1>2. /\ u.list \in [P -> Seq(Pendings(W))] /\ u.pending \in [W -> Nat]
      /\ u = [list |-> u.list, pending |-> u.pending]
  BY <1>1, QueueFields
<1>3. u.list[p] \in Seq(Pendings(W)) /\ n \in Nat /\ \A i \in 1..n : u.list[p][i] \in Pendings(W)
  BY <1>1, ListFields
<1>4. CASE u.pending[w] = 0
  <2> DEFINE e    == [w |-> w, events |-> revents]
             long == Append(u.list[p], e)
             l    == [u.list EXCEPT ![p] = long]
             pend == [u.pending EXCEPT ![w] = n + 1]
  <2>1. r = [list |-> l, pending |-> pend]
    BY <1>2, <1>4 DEF FeedEvent
  <2>2. e \in Pendings(W) /\ e.w = w /\ e.events = revents
    BY DEF Pendings
  <2> HIDE DEF e
  <2>3. /\ long \in Seq(Pendings(W)) /\ Len(long) = n + 1 /\ long[n + 1] = e
        /\ \A i \in 1..n : long[i] = u.list[p][i]
    BY <1>3, <2>2
  <2> HIDE DEF long, n
  <2>4. l \in [P -> Seq(Pendings(W))] /\ pend \in [W -> Nat]
    BY <1>1, <1>2, <1>3, <2>3
  <2>5. /\ l[p] = long /\ \A x \in P : x # p => l[x] = u.list[x]
        /\ pend[w] = n + 1 /\ \A v \in W : v # w => pend[v] = u.pending[v]
    BY <1>1, <1>2
  <2>6. r \in Queues(P, W) /\ r.list = l /\ r.pending = pend
    <3> HIDE DEF l, pend, r
    <3> QED BY <2>1, <2>4, QueueOf
  <2> HIDE DEF l, pend, p, r
  <2>7. ASSUME NEW v \in W, v # w, u.pending[v] # 0
        PROVE  /\ r.pending[v] \in 1..Len(r.list[pri[v]]) /\ r.list[pri[v]][r.pending[v]].w = v
               /\ For(r, pri, v) = For(u, pri, v)
    <3>1. u.pending[v] \in 1..Len(u.list[pri[v]]) /\ u.list[pri[v]][u.pending[v]].w = v
      BY <2>7 DEF InQueue
    <3>2. CASE pri[v] = p
      <4>1. u.pending[v] \in 1..n
        BY <3>1, <3>2 DEF n
      <4>2. l[pri[v]][u.pending[v]] = u.list[pri[v]][u.pending[v]] /\ Len(l[pri[v]]) = n + 1
        BY <2>3, <2>5, <3>2, <4>1
      <4>3. u.pending[v] \in 1..n + 1
        BY <1>3, <4>1
      <4> QED BY <2>5, <2>6, <2>7, <3>1, <4>2, <4>3 DEF For
    <3>3. CASE pri[v] # p
      <4>1. l[pri[v]] = u.list[pri[v]]
        BY <1>1, <2>5, <3>3
      <4> QED BY <2>5, <2>6, <2>7, <3>1, <4>1 DEF For
    <3> QED BY <3>2, <3>3
  <2>8. /\ r.pending[w] = n + 1 /\ r.pending[w] \in 1..Len(r.list[pri[w]])
        /\ r.list[pri[w]][r.pending[w]].w = w /\ For(r, pri, w) = revents
    <3>1. r.pending[w] = n + 1 /\ r.list[pri[w]] = long
      BY <2>5, <2>6 DEF p
    <3> QED BY <1>3, <2>2, <2>3, <3>1 DEF For
  <2>9. ASSUME NEW x \in P, NEW i \in 1..Len(r.list[x])
        PROVE  \/ r.list[x][i].w = NoWatcher
               \/ r.pending[r.list[x][i].w] = i /\ pri[r.list[x][i].w] = x /\ r.list[x][i].w \in W
    <3>1. CASE x = p /\ i = n + 1
      <4>1. r.list[x][i].w = w
        BY <2>2, <2>3, <2>5, <2>6, <3>1
      <4> QED BY <2>8, <3>1, <4>1 DEF p
    <3>2. CASE ~(x = p /\ i = n + 1)
      <4>1. i \in 1..Len(u.list[x]) /\ r.list[x][i] = u.list[x][i]
        <5>1. CASE x = p
          <6>1. i \in 1..n + 1 /\ i # n + 1
            BY <2>3, <2>5, <2>6, <3>2, <5>1
          <6>2. i \in 1..n
            BY <1>3, <6>1
          <6> QED BY <2>3, <2>5, <2>6, <5>1, <6>2 DEF n
        <5>2. CASE x # p
          BY <2>5, <2>6, <5>2
        <5> QED BY <5>1, <5>2
      <4>2. \/ u.list[x][i].w = NoWatcher
            \/ u.pending[u.list[x][i].w] = i /\ pri[u.list[x][i].w] = x /\ u.list[x][i].w \in W
        BY <4>1 DEF InQueue
      <4>3. u.list[x][i].w \in W => i # 0 /\ (u.pending[u.list[x][i].w] = i => u.list[x][i].w # w)
        <5>1. i # 0
          BY <4>1
        <5> QED BY <1>4, <5>1
      <4> QED BY <2>5, <2>6, <4>1, <4>2, <4>3
    <3> QED BY <3>1, <3>2
  <2>10. InQueue(P, W, r, pri)
    <3>1. ASSUME NEW v \in W, r.pending[v] # 0
          PROVE  r.pending[v] \in 1..Len(r.list[pri[v]]) /\ r.list[pri[v]][r.pending[v]].w = v
      BY <2>5, <2>6, <2>7, <2>8, <3>1
    <3> QED BY <2>6, <2>9, <3>1 DEF InQueue
  <2>11. Fed(W, u, pri, w, revents, r)
    <3>1. r.pending[w] = Len(u.list[pri[w]]) + 1
      BY <2>8 DEF n, p
    <3>2. ASSUME NEW v \in W, v # w PROVE AsBefore(u, r, pri, v)
      BY <2>5, <2>6, <2>7, <3>2 DEF AsBefore
    <3> QED BY <1>4, <2>8, <3>1, <3>2 DEF Fed
  <2> QED BY <2>10, <2>11 DEF r
<1>5. CASE u.pending[w] # 0
  <2> DEFINE k    == u.pending[w]
             old  == u.list[p][k]
             e    == [w |-> w, events |-> old.events \cup revents]
             long == [u.list[p] EXCEPT ![k] = e]
             l    == [u.list EXCEPT ![p] = long]
  <2>1. k \in 1..n /\ old.w = w
    BY <1>5 DEF InQueue
  <2>2. old \in Pendings(W)
    BY <1>3, <2>1
  <2>3. e \in Pendings(W) /\ e.w = w /\ e.events = old.events \cup revents
        /\ [old EXCEPT !.events = @ \cup revents] = e
    <3> HIDE DEF old, k
    <3>1. old = [w |-> old.w, events |-> old.events] /\ old.events \in SUBSET Revents
      BY <2>2 DEF Pendings
    <3>2. [old EXCEPT !.events = @ \cup revents] = [w |-> old.w, events |-> old.events \cup revents]
      BY <3>1
    <3> QED BY <2>1, <3>1, <3>2 DEF Pendings
  <2>4. r = [list |-> l, pending |-> u.pending]
    <3>1. r = [u EXCEPT !.list[p][k].events = @ \cup revents]
      BY <1>5 DEF FeedEvent
    <3>2. [u EXCEPT !.list[p][k].events = @ \cup revents]
          = [u EXCEPT !.list = [u.list EXCEPT ![p] = [u.list[p] EXCEPT ![k] =
               [old EXCEPT !.events = @ \cup revents]]]]
      BY <1>1, <1>2, <1>3, <2>1
    <3> QED BY <1>2, <2>3, <3>1, <3>2
  <2> HIDE DEF e
  <2>5. /\ long \in Seq(Pendings(W)) /\ Len(long) = n /\ long[k] = e
        /\ \A i \in 1..n : i # k => long[i] = u.list[p][i]
    BY <1>3, <2>1, <2>3
  <2> HIDE DEF long
  <2>6. l \in [P -> Seq(Pendings(W))] /\ l[p] = long /\ \A x \in P : x # p => l[x] = u.list[x]
    BY <1>1, <1>2, <2>5
  <2>7. r \in Queues(P, W) /\ r.list = l /\ r.pending = u.pending
    <3> HIDE DEF l, r
    <3> QED BY <1>2, <2>4, <2>6, QueueOf
  <2> HIDE DEF l, r
  <2>8. \A x \in P : Len(r.list[x]) = Len(u.list[x])
    BY <2>5, <2>6, <2>7
  <2>9. ASSUME NEW x \in P, NEW i \in 1..Len(u.list[x])
        PROVE  r.list[x][i].w = u.list[x][i].w /\ (~(x = p /\ i = k) => r.list[x][i] = u.list[x][i])
    <3>1. CASE x = p
      BY <2>1, <2>3, <2>5, <2>6, <2>7, <2>9, <3>1
    <3>2. CASE x # p
      BY <2>6, <2>7, <3>2
    <3> QED BY <3>1, <3>2
  <2>10. InQueue(P, W, r, pri)
    <3>1. ASSUME NEW v \in W, r.pending[v] # 0
          PROVE  r.pending[v] \in 1..Len(r.list[pri[v]]) /\ r.list[pri[v]][r.pending[v]].w = v
      <4>1. u.pending[v] \in 1..Len(u.list[pri[v]]) /\ u.list[pri[v]][u.pending[v]].w = v
        BY <2>7, <3>1 DEF InQueue
      <4> QED BY <1>1, <2>7, <2>8, <2>9, <4>1
    <3>2. ASSUME NEW x \in P, NEW i \in 1..Len(r.list[x])
          PROVE  \/ r.list[x][i].w = NoWatcher
                 \/ r.pending[r.list[x][i].w] = i /\ pri[r.list[x][i].w] = x /\ r.list[x][i].w \in W
      <4>1. i \in 1..Len(u.list[x]) /\ r.list[x][i].w = u.list[x][i].w
        BY <2>8, <2>9
      <4>2. \/ u.list[x][i].w = NoWatcher
            \/ u.pending[u.list[x][i].w] = i /\ pri[u.list[x][i].w] = x /\ u.list[x][i].w \in W
        BY <4>1 DEF InQueue
      <4> QED BY <2>7, <4>1, <4>2
    <3> QED BY <2>7, <3>1, <3>2 DEF InQueue
  <2>11. Fed(W, u, pri, w, revents, r)
    <3>1. r.pending[w] = u.pending[w] /\ For(r, pri, w) = For(u, pri, w) \cup revents
      BY <2>3, <2>5, <2>6, <2>7 DEF For
    <3>2. ASSUME NEW v \in W, v # w PROVE AsBefore(u, r, pri, v)
      <4>1. CASE u.pending[v] # 0
        <5>1. u.pending[v] \in 1..Len(u.list[pri[v]]) /\ u.list[pri[v]][u.pending[v]].w = v
          BY <4>1 DEF InQueue
        <5>2. ~(pri[v] = p /\ u.pending[v] = k)
          BY <2>1, <3>2, <5>1
        <5> QED BY <1>1, <2>7, <2>9, <5>1, <5>2 DEF AsBefore, For
      <4> QED BY <2>7, <4>1 DEF AsBefore
    <3> QED BY <1>5, <3>1, <3>2 DEF Fed
  <2> QED BY <2>10, <2>11 DEF r
<1> QED BY <1>4, <1>5

Cleared(W, u, pri, w, r) ==
  r.pending[w] = 0 /\ \A v \in W : v # w => AsBefore(u, r, pri, v)

LEMMA ClearIs ==
  ASSUME NEW P, NEW W, NEW pri \in [W \cup {NoWatcher} -> P], NoWatcher \notin W,
         NEW u, InQueue(P, W, u, pri), NEW w \in W
  PROVE  /\ InQueue(P, W, ClearPending(u, pri, w), pri)
         /\ Cleared(W, u, pri, w, ClearPending(u, pri, w))
<1> DEFINE r == ClearPending(u, pri, w)
           p == pri[w]
           n == Len(u.list[p])
           k == u.pending[w]
           old  == u.list[p][k]
           e    == [old EXCEPT !.w = NoWatcher]
           long == [u.list[p] EXCEPT ![k] = e]
           l    == [u.list EXCEPT ![p] = long]
           pend == [u.pending EXCEPT ![w] = 0]
<1>1. u \in Queues(P, W) /\ p \in P /\ \A v \in W : pri[v] \in P
  BY DEF InQueue
<1>2. /\ u.list \in [P -> Seq(Pendings(W))] /\ u.pending \in [W -> Nat]
      /\ u = [list |-> u.list, pending |-> u.pending]
  BY <1>1, QueueFields
<1>3. u.list[p] \in Seq(Pendings(W)) /\ n \in Nat /\ \A i \in 1..n : u.list[p][i] \in Pendings(W)
  BY <1>1, ListFields
<1>4. CASE k = 0
  BY <1>4 DEF ClearPending, Cleared, AsBefore
<1>5. CASE k # 0
  <2>1. k \in 1..n /\ old.w = w
    BY <1>5 DEF InQueue
  <2>2. old \in Pendings(W)
    BY <1>3, <2>1
  <2>3. e \in Pendings(W) /\ e.w = NoWatcher
    <3> HIDE DEF old, k
    <3>1. old = [w |-> old.w, events |-> old.events] /\ old.events \in SUBSET Revents
      BY <2>2 DEF Pendings
    <3>2. e = [w |-> NoWatcher, events |-> old.events]
      BY <3>1
    <3> QED BY <3>1, <3>2 DEF Pendings
  <2>4. r = [list |-> l, pending |-> pend]
    <3>1. r = [u EXCEPT !.list[p][k].w = NoWatcher, !.pending[w] = 0]
      BY <1>5 DEF ClearPending
    <3>2. [u EXCEPT !.list[p][k].w = NoWatcher, !.pending[w] = 0]
          = [u EXCEPT !.list = [u.list EXCEPT ![p] = [u.list[p] EXCEPT ![k] =
               [old EXCEPT !.w = NoWatcher]]], !.pending = [u.pending EXCEPT ![w] = 0]]
      BY <1>1, <1>2, <1>3, <2>1
    <3> QED BY <1>2, <3>1, <3>2
  <2> HIDE DEF e
  <2>5. /\ long \in Seq(Pendings(W)) /\ Len(long) = n /\ long[k] = e
        /\ \A i \in 1..n : i # k => long[i] = u.list[p][i]
    BY <1>3, <2>1, <2>3
  <2> HIDE DEF long
  <2>6. /\ l \in [P -> Seq(Pendings(W))] /\ l[p] = long /\ \A x \in P : x # p => l[x] = u.list[x]
        /\ pend \in [W -> Nat] /\ pend[w] = 0 /\ \A v \in W : v # w => pend[v] = u.pending[v]
    BY <1>1, <1>2, <2>5
  <2>7. r \in Queues(P, W) /\ r.list = l /\ r.pending = pend
    <3> HIDE DEF l, r, pend
    <3> QED BY <1>2, <2>4, <2>6, QueueOf
  <2> HIDE DEF l, r, pend
  <2>8. \A x \in P : Len(r.list[x]) = Len(u.list[x])
    BY <2>5, <2>6, <2>7
  <2>9. ASSUME NEW x \in P, NEW i \in 1..Len(u.list[x]), ~(x = p /\ i = k)
        PROVE  r.list[x][i] = u.list[x][i]
    <3>1. CASE x = p
      BY <2>1, <2>3, <2>5, <2>6, <2>7, <2>9, <3>1
    <3>2. CASE x # p
      BY <2>6, <2>7, <3>2
    <3> QED BY <3>1, <3>2
  <2>10. r.list[p][k].w = NoWatcher
    BY <2>3, <2>5, <2>6, <2>7
  <2>11. ASSUME NEW v \in W, v # w, u.pending[v] # 0
         PROVE  /\ u.pending[v] \in 1..Len(u.list[pri[v]]) /\ u.list[pri[v]][u.pending[v]].w = v
                /\ r.list[pri[v]][u.pending[v]] = u.list[pri[v]][u.pending[v]]
    <3>1. u.pending[v] \in 1..Len(u.list[pri[v]]) /\ u.list[pri[v]][u.pending[v]].w = v
      BY <2>11 DEF InQueue
    <3>2. ~(pri[v] = p /\ u.pending[v] = k)
      BY <2>1, <2>11, <3>1
    <3> QED BY <1>1, <2>9, <3>1, <3>2
  <2>12. InQueue(P, W, r, pri)
    <3>1. ASSUME NEW v \in W, r.pending[v] # 0
          PROVE  r.pending[v] \in 1..Len(r.list[pri[v]]) /\ r.list[pri[v]][r.pending[v]].w = v
      <4>1. v # w /\ u.pending[v] # 0 /\ r.pending[v] = u.pending[v]
        BY <2>6, <2>7, <3>1
      <4> QED BY <1>1, <2>8, <2>11, <4>1
    <3>2. ASSUME NEW x \in P, NEW i \in 1..Len(r.list[x])
          PROVE  \/ r.list[x][i].w = NoWatcher
                 \/ r.pending[r.list[x][i].w] = i /\ pri[r.list[x][i].w] = x /\ r.list[x][i].w \in W
      <4>1. CASE x = p /\ i = k
        BY <2>10, <4>1
      <4>2. CASE ~(x = p /\ i = k)
        <5>1. i \in 1..Len(u.list[x]) /\ r.list[x][i] = u.list[x][i]
          BY <2>8, <2>9, <4>2
        <5>2. \/ u.list[x][i].w = NoWatcher
              \/ u.pending[u.list[x][i].w] = i /\ pri[u.list[x][i].w] = x /\ u.list[x][i].w \in W
          BY <5>1 DEF InQueue
        <5>3. u.list[x][i].w = NoWatcher \/ u.list[x][i].w # w
          BY <4>2, <5>2
        <5> QED BY <2>6, <2>7, <5>1, <5>2, <5>3
      <4> QED BY <4>1, <4>2
    <3> QED BY <2>7, <3>1, <3>2 DEF InQueue
  <2>13. Cleared(W, u, pri, w, r)
    <3>1. ASSUME NEW v \in W, v # w PROVE AsBefore(u, r, pri, v)
      BY <2>6, <2>7, <2>11, <3>1 DEF AsBefore, For
    <3> QED BY <2>6, <2>7, <3>1 DEF Cleared
  <2> QED BY <2>12, <2>13 DEF r
<1> QED BY <1>4, <1>5

\* The last entry of priority p, and what is left without it.
Took(W, u, pri, p, r) ==
  LET x == Taken(u, p).w
  IN  /\ x \in W => pri[x] = p /\ u.pending[x] = Len(u.list[p]) /\ r.pending[x] = 0
      /\ \A v \in W : v # x => AsBefore(u, r, pri, v)
      /\ \A v \in W : v # x /\ pri[v] = p => u.pending[v] < Len(u.list[p])
      /\ x \in W \cup {NoWatcher}

LEMMA TakeIs ==
  ASSUME NEW P, NEW W, NEW pri \in [W \cup {NoWatcher} -> P], NoWatcher \notin W,
         NEW u, InQueue(P, W, u, pri), NEW p \in P, u.list[p] # <<>>
  PROVE  /\ InQueue(P, W, Take(u, p), pri) /\ Took(W, u, pri, p, Take(u, p))
<1> DEFINE r == Take(u, p)
           n == Len(u.list[p])
           x == Taken(u, p).w
           short == SubSeq(u.list[p], 1, n - 1)
           l    == [u.list EXCEPT ![p] = short]
           pend == [v \in W |-> IF v = x THEN 0 ELSE u.pending[v]]
<1>1. u \in Queues(P, W) /\ \A v \in W : pri[v] \in P
  BY DEF InQueue
<1>2. /\ u.list \in [P -> Seq(Pendings(W))] /\ u.pending \in [W -> Nat] /\ DOMAIN u.pending = W
      /\ u = [list |-> u.list, pending |-> u.pending]
  BY <1>1, QueueFields
<1>3. u.list[p] \in Seq(Pendings(W)) /\ n \in Nat /\ \A i \in 1..n : u.list[p][i] \in Pendings(W)
  BY <1>1, ListFields
<1>4. n # 0 /\ n \in 1..n
  <2>1. n # 0
    BY <1>3
  <2> QED BY <1>3, <2>1
<1>5. x = u.list[p][n].w
  BY DEF Taken, Last
<1>6. /\ short \in Seq(Pendings(W)) /\ Len(short) = n - 1
      /\ \A i \in 1..n - 1 : short[i] = u.list[p][i]
  BY <1>3, <1>4
<1>7. r = [list |-> l, pending |-> pend]
  BY <1>2 DEF Take, Front
<1> HIDE DEF short, x
<1>8. /\ l \in [P -> Seq(Pendings(W))] /\ l[p] = short /\ \A y \in P : y # p => l[y] = u.list[y]
      /\ pend \in [W -> Nat] /\ \A v \in W : pend[v] = IF v = x THEN 0 ELSE u.pending[v]
  BY <1>2, <1>6
<1>9. r \in Queues(P, W) /\ r.list = l /\ r.pending = pend
  <2> HIDE DEF l, r, pend
  <2> QED BY <1>7, <1>8, QueueOf
<1> HIDE DEF l, r, pend, n
<1>10. \/ x = NoWatcher
       \/ x \in W /\ u.pending[x] = n /\ pri[x] = p
  BY <1>4, <1>5 DEF InQueue, n
<1>11. ASSUME NEW v \in W, v # x, u.pending[v] # 0
       PROVE  /\ u.pending[v] \in 1..Len(r.list[pri[v]]) /\ u.list[pri[v]][u.pending[v]].w = v
              /\ r.list[pri[v]][u.pending[v]] = u.list[pri[v]][u.pending[v]]
              /\ pri[v] = p => u.pending[v] < n
  <2>1. u.pending[v] \in 1..Len(u.list[pri[v]]) /\ u.list[pri[v]][u.pending[v]].w = v
    BY <1>11 DEF InQueue
  <2>2. CASE pri[v] = p
    <3>1. u.pending[v] \in 1..n /\ u.pending[v] # n
      BY <1>5, <1>11, <2>1, <2>2 DEF n
    <3>2. u.pending[v] \in 1..n - 1 /\ u.pending[v] < n
      BY <1>3, <3>1
    <3> QED BY <1>6, <1>8, <1>9, <2>1, <2>2, <3>2
  <2>3. CASE pri[v] # p
    BY <1>1, <1>8, <1>9, <2>1, <2>3
  <2> QED BY <2>2, <2>3
<1>12. InQueue(P, W, r, pri)
  <2>1. ASSUME NEW v \in W, r.pending[v] # 0
        PROVE  r.pending[v] \in 1..Len(r.list[pri[v]]) /\ r.list[pri[v]][r.pending[v]].w = v
    BY <1>8, <1>9, <1>11, <2>1, SMTT(60)
  <2>2. ASSUME NEW y \in P, NEW i \in 1..Len(r.list[y])
        PROVE  \/ r.list[y][i].w = NoWatcher
               \/ r.pending[r.list[y][i].w] = i /\ pri[r.list[y][i].w] = y /\ r.list[y][i].w \in W
    <3>1. i \in 1..Len(u.list[y]) /\ r.list[y][i] = u.list[y][i] /\ ~(y = p /\ i = n)
      <4>1. CASE y = p
        <5>1. i \in 1..n - 1
          BY <1>6, <1>8, <1>9, <4>1
        <5>2. i \in 1..n /\ i # n
          BY <1>3, <5>1
        <5> QED BY <1>6, <1>8, <1>9, <4>1, <5>1, <5>2 DEF n
      <4>2. CASE y # p
        BY <1>8, <1>9, <4>2
      <4> QED BY <4>1, <4>2
    <3>2. \/ u.list[y][i].w = NoWatcher
          \/ u.pending[u.list[y][i].w] = i /\ pri[u.list[y][i].w] = y /\ u.list[y][i].w \in W
      BY <3>1 DEF InQueue
    <3>3. u.list[y][i].w \in W => u.list[y][i].w # x
      BY <1>10, <3>1, <3>2
    <3> QED BY <1>8, <1>9, <3>1, <3>2, <3>3
  <2> QED BY <1>9, <2>1, <2>2 DEF InQueue
<1>13. Took(W, u, pri, p, r)
  <2>1. ASSUME NEW v \in W, v # x PROVE AsBefore(u, r, pri, v)
    BY <1>8, <1>9, <1>11, <2>1 DEF AsBefore, For
  <2>2. ASSUME NEW v \in W, v # x, pri[v] = p PROVE u.pending[v] < n
    BY <1>2, <1>4, <1>11, <2>2
  <2> QED BY <1>8, <1>9, <1>10, <2>1, <2>2 DEF Took, x, n
<1> QED BY <1>12, <1>13 DEF r

\* Watchers that are not among ws stay as they are.
LEMMA AlongQueue ==
  ASSUME NEW P, NEW W, NEW pri \in [W \cup {NoWatcher} -> P], NoWatcher \notin W,
         NEW u, InQueue(P, W, u, pri), NEW ws \in Seq(W), NEW type \in Revents
  PROVE  /\ InQueue(P, W, queue_events(u, pri, ws, type), pri)
         /\ \A v \in W : (\A i \in 1..Len(ws) : ws[i] # v) =>
              AsBefore(u, queue_events(u, pri, ws, type), pri, v)
<1> DEFINE J == {r \in Queues(P, W) : /\ InQueue(P, W, r, pri)
                                      /\ \A v \in W : (\A i \in 1..Len(ws) : ws[i] # v) =>
                                           AsBefore(u, r, pri, v)}
           body == FeedRound(P, W, pri, type)
<1>1. u \in J
  BY DEF InQueue, AsBefore
<1>2. ASSUME NEW k \in 1..Len(ws), NEW r \in J PROVE body[<<r, ws[k]>>] \in J
  <2>1. ws[k] \in W /\ r \in Queues(P, W) /\ InQueue(P, W, r, pri)
    BY <1>2
  <2>2. body[<<r, ws[k]>>] = FeedEvent(r, pri, ws[k], {type})
    BY <2>1 DEF FeedRound
  <2>3. /\ InQueue(P, W, FeedEvent(r, pri, ws[k], {type}), pri)
        /\ Fed(W, r, pri, ws[k], {type}, FeedEvent(r, pri, ws[k], {type}))
    BY <2>1, FeedIs
  <2>4. ASSUME NEW v \in W, \A i \in 1..Len(ws) : ws[i] # v
        PROVE  AsBefore(u, FeedEvent(r, pri, ws[k], {type}), pri, v)
    <3>1. AsBefore(u, r, pri, v) /\ v # ws[k]
      BY <2>4
    <3>2. AsBefore(r, FeedEvent(r, pri, ws[k], {type}), pri, v)
      BY <2>3, <3>1 DEF Fed
    <3> QED BY <3>1, <3>2 DEF AsBefore
  <2> DEFINE f == FeedEvent(r, pri, ws[k], {type})
  <2>5. f \in J
    <3> HIDE DEF f
    <3>1. InQueue(P, W, f, pri) /\ \A v \in W : (\A i \in 1..Len(ws) : ws[i] # v) => AsBefore(u, f, pri, v)
      BY <2>3, <2>4 DEF f
    <3> QED BY <3>1 DEF InQueue
  <2> QED BY <2>2, <2>5
<1> HIDE DEF J, body
<1>3. Along(body, u, ws) \in J
  BY <1>1, <1>2, AlongKeeps
<1>4. queue_events(u, pri, ws, type) = Along(body, u, ws)
  BY QueueFields DEF queue_events, body, InQueue
<1> QED BY <1>3, <1>4 DEF J

-----------------------------------------------------------------------------
(* Finite sets and sequences                                               *)

Everyone == Watcher \cup {childev}

LEMMA GreatestOf ==
  ASSUME NEW n \in Nat, n # 0, NEW f \in [1..n -> Int]
  PROVE  \E i \in 1..n : \A j \in 1..n : f[j] <= f[i]
<1> DEFINE S == {m \in Nat : m = 0 \/ m > n \/ \E i \in 1..m : \A j \in 1..m : f[j] <= f[i]}
<1>1. 0 \in S
  OBVIOUS
<1>2. ASSUME NEW m \in Nat, m \in S PROVE m + 1 \in S
  <2> SUFFICES ASSUME m + 1 <= n PROVE \E i \in 1..m + 1 : \A j \in 1..m + 1 : f[j] <= f[i]
    BY SMTT(60)
  <2>1. CASE m = 0
    <3>1. f[1] \in Int
      OBVIOUS
    <3> QED BY <2>1, <3>1
  <2>2. CASE m # 0
    <3>1. PICK i \in 1..m : \A j \in 1..m : f[j] <= f[i]
      BY <1>2, <2>2
    <3>2. f[i] \in Int /\ f[m + 1] \in Int /\ \A j \in 1..m : f[j] \in Int
      OBVIOUS
    <3>3. CASE f[m + 1] <= f[i]
      <4>1. \A j \in 1..m + 1 : f[j] <= f[i]
        BY <3>1, <3>3
      <4> QED BY <4>1
    <3>4. CASE ~(f[m + 1] <= f[i])
      <4>1. \A j \in 1..m + 1 : f[j] <= f[m + 1]
        BY <3>1, <3>2, <3>4
      <4> QED BY <4>1
    <3> QED BY <3>3, <3>4
  <2> QED BY <2>1, <2>2
<1>3. Nat \subseteq S
  <2> HIDE DEF S
  <2> QED BY <1>1, <1>2, NumberInduction
<1>4. n \in S
  BY <1>3
<1>5. ~(n > n)
  OBVIOUS
<1> QED BY <1>4, <1>5

LEMMA GreatestExists ==
  ASSUME NEW S, S \subseteq Int, IsFiniteSet(S), S # {}
  PROVE  \E x \in S : \A y \in S : y <= x
<1>1. PICK n \in Nat : ExistsBijection(1..n, S)
  BY FS_NatBijection
<1>2. PICK f \in [1..n -> S] : \A y \in S : \E i \in 1..n : f[i] = y
  BY <1>1 DEF ExistsBijection, Bijection, Injection, Surjection
<1>3. n # 0
  <2>1. PICK y \in S : TRUE
    OBVIOUS
  <2>2. PICK i \in 1..n : f[i] = y
    BY <1>2
  <2> QED BY <2>2
<1>4. PICK i \in 1..n : \A j \in 1..n : f[j] <= f[i]
  <2>1. f \in [1..n -> Int]
    BY <1>2
  <2> QED BY <1>3, <2>1, GreatestOf
<1> QED BY <1>2, <1>4

LEMMA SetToSeqIs ==
  ASSUME NEW S, IsFiniteSet(S)
  PROVE  SetToSeq(S) \in Seq(S)
<1>1. Cardinality(S) \in Nat /\ ExistsBijection(1..Cardinality(S), S)
  BY FS_CardinalityType
<1>2. PICK f \in [1..Cardinality(S) -> S] : \A i, j \in 1..Cardinality(S) : f[i] = f[j] => i = j
  BY <1>1 DEF ExistsBijection, Bijection, Injection, IsInjective
<1>3. IsInjective(f)
  BY <1>2 DEF IsInjective
<1>4. SetToSeq(S) \in [1..Cardinality(S) -> S]
  BY <1>2, <1>3 DEF SetToSeq
<1> QED BY <1>1, <1>4

LEMMA ConcatIs ==
  ASSUME NEW S, NEW a \in Seq(S), NEW b \in Seq(S)
  PROVE  a \o b \in Seq(S) /\ Len(a \o b) = Len(a) + Len(b)
<1>1. a \o b \in Seq(S)
  OBVIOUS
<1>2. Len(a \o b) = Len(a) + Len(b)
  OBVIOUS
<1> QED BY <1>1, <1>2

LEMMA TailFrom ==
  ASSUME NEW S, NEW a \in Seq(S), NEW k \in 0..Len(a)
  PROVE  /\ SubSeq(a, k + 1, Len(a)) \in Seq(S) /\ Len(SubSeq(a, k + 1, Len(a))) = Len(a) - k
         /\ \A i \in 1..Len(a) - k : SubSeq(a, k + 1, Len(a))[i] = a[i + k]
<1>1. Len(a) \in Nat /\ Len(a) - k \in Nat /\ \A i \in 1..Len(a) : a[i] \in S
  OBVIOUS
<1>2. Len(SubSeq(a, k + 1, Len(a))) = Len(a) - k
  BY <1>1
<1>3. \A i \in 1..Len(a) - k : SubSeq(a, k + 1, Len(a))[i] = a[i + k]
  BY <1>1
<1>4. SubSeq(a, k + 1, Len(a)) \in Seq(S)
  BY <1>1
<1> QED BY <1>2, <1>3, <1>4

Elements(list) == {list[i] : i \in 1..Len(list)}
Distinct(list) == \A i, j \in 1..Len(list) : list[i] = list[j] => i = j

\* list without w, which was at place i if it was there.
Lacks(list, w, r) ==
  /\ \A i \in 1..Len(r) : r[i] # w
  /\ Elements(r) = Elements(list) \ {w} /\ Distinct(r)
  /\ list # <<>> /\ list[1] = w => r = SubSeq(list, 2, Len(list))

LEMMA UnlinkedIs ==
  ASSUME NEW S, NEW list \in Seq(S), Distinct(list), NEW w
  PROVE  Unlinked(list, w) \in Seq(S) /\ Lacks(list, w, Unlinked(list, w))
<1> DEFINE r == Unlinked(list, w)
           n == Len(list)
<1>1. n \in Nat /\ DOMAIN list = 1..n /\ \A i \in 1..n : list[i] \in S
  OBVIOUS
<1>2. CASE \A i \in 1..n : list[i] # w
  <2>1. r = list
    BY <1>1, <1>2 DEF Unlinked
  <2>2. list # <<>> => list[1] # w
    BY <1>1, <1>2
  <2> QED BY <1>2, <2>1, <2>2 DEF Lacks, Elements
<1>3. ASSUME NEW k \in 1..n, list[k] = w PROVE r \in Seq(S) /\ Lacks(list, w, r)
  <2>1. \A i \in 1..n : list[i] = w => i = k
    BY <1>3 DEF Distinct
  <2>2. (CHOOSE i \in DOMAIN list : list[i] = w) = k
    BY <1>1, <1>3, <2>1
  <2>3. r = SubSeq(list, 1, k - 1) \o SubSeq(list, k + 1, n)
    BY <1>1, <1>3, <2>2 DEF Unlinked, RemoveAt
  <2> DEFINE a == SubSeq(list, 1, k - 1)
             b == SubSeq(list, k + 1, n)
  <2>4. /\ a \in Seq(S) /\ Len(a) = k - 1 /\ \A i \in 1..k - 1 : a[i] = list[i]
        /\ b \in Seq(S) /\ Len(b) = n - k /\ \A i \in 1..n - k : b[i] = list[i + k]
    <3>1. k - 1 \in Nat /\ n - k \in Nat /\ k - 1 <= n
      BY <1>1
    <3>2. a \in Seq(S) /\ Len(a) = k - 1 /\ \A i \in 1..k - 1 : a[i] = list[i]
      BY <1>1, <3>1
    <3>3. b \in Seq(S) /\ Len(b) = n - k /\ \A i \in 1..n - k : b[i] = list[i + k]
      BY TailFrom
    <3> QED BY <3>2, <3>3
  <2> HIDE DEF r, a, b
  <2>5. /\ r \in Seq(S) /\ Len(r) = n - 1
        /\ \A i \in 1..n - 1 : r[i] = IF i < k THEN list[i] ELSE list[i + 1]
    <3>1. r = a \o b
      BY <2>3 DEF a, b
    <3>2. r \in Seq(S) /\ Len(r) = n - 1
      <4>1. Len(a) + Len(b) = n - 1
        BY <1>1, <2>4
      <4>2. a \o b \in Seq(S) /\ Len(a \o b) = Len(a) + Len(b)
        BY <2>4, ConcatIs
      <4> QED BY <3>1, <4>1, <4>2
    <3>3. ASSUME NEW i \in 1..n - 1 PROVE r[i] = IF i < k THEN list[i] ELSE list[i + 1]
      <4>1. CASE i < k
        BY <1>1, <2>4, <3>1, <4>1
      <4>2. CASE ~(i < k)
        <5>1. i - (k - 1) \in 1..n - k /\ i - (k - 1) + k = i + 1
          BY <1>1, <4>2
        <5>2. r[i] = b[i - (k - 1)]
          BY <1>1, <2>4, <3>1, <4>2
        <5> QED BY <2>4, <4>2, <5>1, <5>2
      <4> QED BY <4>1, <4>2
    <3> QED BY <3>2, <3>3
  <2>6. \A i \in 1..n - 1 : r[i] # w
    BY <1>1, <2>1, <2>5
  <2>7. Distinct(r)
    <3> SUFFICES ASSUME NEW i \in 1..n - 1, NEW j \in 1..n - 1, r[i] = r[j] PROVE i = j
      BY <2>5 DEF Distinct
    <3>1. (IF i < k THEN i ELSE i + 1) \in 1..n /\ (IF j < k THEN j ELSE j + 1) \in 1..n
      BY <1>1
    <3>2. list[IF i < k THEN i ELSE i + 1] = list[IF j < k THEN j ELSE j + 1]
      BY <2>5
    <3>3. (IF i < k THEN i ELSE i + 1) = IF j < k THEN j ELSE j + 1
      BY <3>1, <3>2 DEF Distinct
    <3> QED BY <1>1, <3>3
  <2>8. Elements(r) = Elements(list) \ {w}
    <3>1. ASSUME NEW i \in 1..Len(r) PROVE r[i] \in Elements(list) \ {w}
      <4>1. i \in 1..n - 1 /\ (IF i < k THEN i ELSE i + 1) \in 1..n
        BY <1>1, <2>5
      <4> QED BY <2>5, <2>6, <4>1 DEF Elements
    <3>2. ASSUME NEW i \in 1..n, list[i] # w PROVE list[i] \in Elements(r)
      <4>1. i # k
        BY <1>3, <3>2
      <4>2. CASE i < k
        <5>1. i \in 1..n - 1 /\ i \in 1..Len(r)
          BY <1>1, <2>5, <4>2
        <5> QED BY <2>5, <4>2, <5>1 DEF Elements
      <4>3. CASE i > k
        <5>1. i - 1 \in 1..n - 1 /\ i - 1 \in 1..Len(r) /\ ~(i - 1 < k) /\ i - 1 + 1 = i
          BY <1>1, <2>5, <4>3
        <5>2. r[i - 1] = list[i]
          BY <2>5, <5>1
        <5> QED BY <5>1, <5>2 DEF Elements
      <4> QED BY <1>1, <4>1, <4>2, <4>3
    <3> QED BY <3>1, <3>2 DEF Elements
  <2>9. list[1] = w => r = SubSeq(list, 2, Len(list))
    <3> SUFFICES ASSUME list[1] = w PROVE r = SubSeq(list, 2, n)
      OBVIOUS
    <3>1. k = 1
      BY <1>1, <2>1
    <3>2. SubSeq(list, 2, n) \in Seq(S) /\ Len(SubSeq(list, 2, n)) = n - 1
          /\ \A i \in 1..n - 1 : SubSeq(list, 2, n)[i] = list[i + 1]
      BY <1>1, <1>3
    <3>3. \A i \in 1..n - 1 : r[i] = SubSeq(list, 2, n)[i]
      BY <2>5, <3>1, <3>2
    <3> QED BY <2>5, <3>2, <3>3
  <2> QED BY <2>5, <2>6, <2>7, <2>8, <2>9 DEF Lacks
<1> QED BY <1>2, <1>3 DEF r

-----------------------------------------------------------------------------
(* struct ev_loop, part by part                                            *)

\* The watchers of an fd are active ev_ios for it, each once.
Heads(t) ==
  \A fd \in Fd :
    LET head == t.anfds[fd].head
    IN  /\ Distinct(head)
        /\ \A i \in 1..Len(head) :
             t.active[head[i]] = 1 /\ t.fd[head[i]] = fd /\ kind[head[i]] = "io"

\* Watchers in arrays are at the place that they believe.
Arrays(t) ==
  /\ \A k \in Keys : \A i \in 1..Len(t.arrays[k]) :
       LET w == t.arrays[k][i]
       IN  t.active[w] = i /\ Key(t, w) = k /\ kind[w] \notin {"io", "child"}
  /\ \A w \in Watcher : kind[w] \notin {"io", "child"} /\ t.active[w] # 0 =>
       t.active[w] <= Len(t.arrays[Key(t, w)]) /\ t.arrays[Key(t, w)][t.active[w]] = w

Childs(t) ==
  \A h \in 0..(HASHSIZE - 1) :
    /\ Distinct(t.childs[h])
    /\ \A i \in 1..Len(t.childs[h]) :
         LET w == t.childs[h][i]
         IN  t.active[w] = 1 /\ kind[w] = "child" /\ Chain(program.pid[w]) = h

\* The poll set is indexed both ways.
IndexedBy(ps, idxs) ==
  /\ \A fd \in Fd : idxs[fd] # 0 => idxs[fd] <= Len(ps) /\ ps[idxs[fd]].fd = fd
  /\ \A i \in 1..Len(ps) : idxs[ps[i].fd] = i
Indexed(t) == IndexedBy(t.polls, t.pollidxs)

Alive(t)   == {w \in Watcher : t.active[w] # 0 /\ Counted(w) = 1}
Counts(t) == t.activecnt = Cardinality(Alive(t))

\* What an ev_io is pending for.
Events(t, w) == t.q.list[t.pri[w]][t.q.pending[w]].events
Asking(t) ==
  \A w \in Io : t.q.pending[w] # 0 =>
    \/ "ERROR" \in Events(t, w) \/ "CUSTOM" \in Events(t, w)
    \/ t.active[w] # 0 /\ Events(t, w) \subseteq t.events[w]

\* The loop's own watcher for SIGCHLD lies below the children it has found.
ChildrenAbove(t) ==
  /\ t.pri[childev] = MAXPRI
  /\ \A w \in Watcher : kind[w] = "child" /\ t.q.pending[w] # 0 =>
       t.pri[w] = MAXPRI /\ 0 < t.q.pending[childev] /\ t.q.pending[childev] < t.q.pending[w]

Linked(t)  == Heads(t) /\ Arrays(t) /\ Childs(t) /\ Counts(t)
Waiting(t) == InQueue(Priorities, Everyone, t.q, t.pri) /\ Asking(t) /\ ChildrenAbove(t)

\* All but fdchanges, which are in disorder while fd_reify works them off.
Core(t) == t \in Loop /\ IsFiniteSet(t.reg) /\ Indexed(t) /\ Linked(t) /\ Waiting(t)

\* From the kth on, fdchanges are the fds to reify.
ChangesFrom(t, k) ==
  /\ \A i, j \in k..Len(t.fdchanges) : t.fdchanges[i] = t.fdchanges[j] => i = j
  /\ \A fd \in Fd : t.anfds[fd].reify # {} <=> \E i \in k..Len(t.fdchanges) : t.fdchanges[i] = fd

LoopSane(t) == Core(t) /\ ChangesFrom(t, 1)

Frames ==
  [at : {"entry", "forks", "prepares", "poll", "end", "cleanups"}, pri : Priorities,
   once : BOOLEAN, cb : BOOLEAN]

LoopInv ==
  /\ program \in Programs /\ LoopSane(s)
  /\ frames \in Seq(Frames) /\ (frames # <<>> => s.backend # "none")

\* What the parts depend on.
SameLinks(t, u) ==
  /\ u.pri = t.pri /\ u.active = t.active /\ u.activecnt = t.activecnt
  /\ u.fd = t.fd /\ u.events = t.events /\ u.arrays = t.arrays /\ u.childs = t.childs
  /\ \A fd \in Fd : u.anfds[fd].head = t.anfds[fd].head
SamePolls(t, u) == u.polls = t.polls /\ u.pollidxs = t.pollidxs
Onward(t, u)    == u.backend = t.backend /\ u.rpid = t.rpid

LEMMA Names ==
  /\ childev \notin Watcher /\ NoWatcher \notin Everyone /\ childev \in Everyone
  /\ Watcher \subseteq Everyone /\ Everyone = Watcher \cup {childev}
  /\ Everyone \cup {NoWatcher} = Watcher \cup {childev, NoWatcher}
  /\ IsFiniteSet(Watcher) /\ IsFiniteSet(Priorities)
  /\ Priorities # {} /\ Priorities \subseteq Int
BY ProgramAssumption DEF Everyone

LEMMA Typed ==
  ASSUME NEW t \in Loop
  PROVE  /\ t.q \in Queues(Priorities, Everyone) /\ t.pri \in [Everyone \cup {NoWatcher} -> Priorities]
         /\ t.active \in [Watcher -> Nat] /\ t.activecnt \in Int /\ t.arrays \in [Keys -> Seq(Watcher)]
         /\ t.fd \in [Watcher -> Fd] /\ t.events \in [Watcher -> SUBSET Both]
         /\ t.set \in [Watcher -> BOOLEAN]
         /\ t.anfds \in [Fd -> ANFD] /\ t.fdchanges \in Seq(Fd)
         /\ t.polls \in Seq(Pollfd) /\ t.pollidxs \in [Fd -> Nat] /\ t.eperms \in Seq(Fd)
         /\ t.changes \in Seq(Change) /\ t.file \in [Fd -> Nat] /\ t.reg \subseteq Registration
         /\ t.childs \in [0..(HASHSIZE - 1) -> Seq(Watcher)] /\ t.rpid \in [Watcher -> Nat]
         /\ t.vec \in [Fd -> SUBSET Both] /\ t.zombies \subseteq Nat
<1>1. Everyone = Watcher \cup {childev} /\ Everyone \cup {NoWatcher} = Watcher \cup {childev, NoWatcher}
  BY Names
<1> QED BY <1>1 DEF Loop

LEMMA AnfdIs ==
  ASSUME NEW t \in Loop, NEW fd \in Fd
  PROVE  /\ t.anfds[fd] \in ANFD /\ t.anfds[fd].head \in Seq(Watcher)
         /\ t.anfds[fd].events \in SUBSET Both /\ t.anfds[fd].reify \in SUBSET {"REIFY", "IOFDSET"}
         /\ t.anfds[fd].emask \in SUBSET (Both \cup {"EPERM"}) /\ t.anfds[fd].egen \in Nat
<1>1. t.anfds[fd] \in ANFD
  BY Typed
<1> QED BY <1>1 DEF ANFD

LEMMA LinksKept ==
  ASSUME NEW t, NEW u, SameLinks(t, u), Linked(t)
  PROVE  Linked(u)
<1>1. \A w \in Watcher : Key(u, w) = Key(t, w)
  BY DEF SameLinks, Key
<1>2. Heads(u)
  BY DEF SameLinks, Linked, Heads
<1>3. Arrays(u)
  BY DEF SameLinks, Linked, Arrays, Key
<1>4. Childs(u)
  BY DEF SameLinks, Linked, Childs
<1>5. Counts(u)
  BY DEF SameLinks, Linked, Counts, Alive
<1> QED BY <1>2, <1>3, <1>4, <1>5 DEF Linked

LEMMA WaitingKept ==
  ASSUME NEW t, NEW u, SameLinks(t, u), u.q = t.q, Waiting(t)
  PROVE  Waiting(u)
BY DEF SameLinks, Waiting, Asking, ChildrenAbove, Events

LEMMA CoreAlike ==
  ASSUME NEW t, NEW u \in Loop, SameLinks(t, u), u.q = t.q, SamePolls(t, u), Core(t),
         IsFiniteSet(u.reg)
  PROVE  Core(u)
<1>1. Indexed(u)
  BY DEF Core, SamePolls, Indexed
<1> QED BY <1>1, LinksKept, WaitingKept DEF Core

-----------------------------------------------------------------------------
(* Steps that change the queue only                                        *)

OnlyQueue(t, u) ==
  /\ u.anfds = t.anfds /\ u.fdchanges = t.fdchanges /\ u.eperms = t.eperms
  /\ u.reg = t.reg /\ u.file = t.file
  /\ SameLinks(t, u) /\ SamePolls(t, u) /\ Onward(t, u)

LEMMA WithQueue ==
  ASSUME NEW t \in Loop, NEW x \in Queues(Priorities, Everyone)
  PROVE  [t EXCEPT !.q = x] \in Loop /\ OnlyQueue(t, [t EXCEPT !.q = x]) /\ [t EXCEPT !.q = x].q = x
<1> DEFINE u == [t EXCEPT !.q = x]
<1>1. u \in Loop
  BY Names DEF Loop
<1>2. u.q = x
  BY DEF Loop
<1>3. /\ u.anfds = t.anfds /\ u.fdchanges = t.fdchanges /\ u.eperms = t.eperms
      /\ u.reg = t.reg /\ u.file = t.file
      /\ SameLinks(t, u) /\ SamePolls(t, u) /\ Onward(t, u)
  BY DEF Loop, SameLinks, SamePolls, Onward
<1> QED BY <1>1, <1>2, <1>3 DEF OnlyQueue

LEMMA CoreWithQueue ==
  ASSUME NEW t, Core(t), NEW x, InQueue(Priorities, Everyone, x, t.pri),
         Asking([t EXCEPT !.q = x]), ChildrenAbove([t EXCEPT !.q = x])
  PROVE  Core([t EXCEPT !.q = x]) /\ OnlyQueue(t, [t EXCEPT !.q = x])
<1> DEFINE u == [t EXCEPT !.q = x]
<1>1. u \in Loop /\ OnlyQueue(t, u) /\ u.q = x
  BY WithQueue DEF Core, InQueue
<1>2. SameLinks(t, u) /\ SamePolls(t, u) /\ u.reg = t.reg /\ u.pri = t.pri
  BY <1>1 DEF OnlyQueue, SameLinks
<1>3. Waiting(u)
  BY <1>1, <1>2 DEF Waiting
<1> HIDE DEF u
<1>4. Indexed(u) /\ Linked(u)
  BY <1>2, LinksKept DEF Core, SamePolls, Indexed
<1> QED BY <1>1, <1>2, <1>3, <1>4 DEF Core, u

\* The queue of t, as the lemmas about queues want it.
LEMMA QueueIn ==
  ASSUME NEW t, Core(t)
  PROVE  /\ InQueue(Priorities, Everyone, t.q, t.pri) /\ t.q \in Queues(Priorities, Everyone)
         /\ t.pri \in [Everyone \cup {NoWatcher} -> Priorities]
         /\ NoWatcher \notin Everyone /\ childev \in Everyone /\ Watcher \subseteq Everyone
         /\ childev \notin Watcher /\ t.pri[childev] = MAXPRI
         /\ \A w \in Everyone : t.q.pending[w] \in Nat
<1>1. t \in Loop /\ t.pri[childev] = MAXPRI
  BY DEF Core, Waiting, ChildrenAbove
<1>2. t.q \in Queues(Priorities, Everyone)
  BY <1>1, Typed
<1>3. \A w \in Everyone : t.q.pending[w] \in Nat
  BY <1>2, QueueFields
<1>4. t.pri \in [Everyone \cup {NoWatcher} -> Priorities]
  BY <1>1, Typed
<1>5. InQueue(Priorities, Everyone, t.q, t.pri)
  BY DEF Core, Waiting
<1> QED BY <1>1, <1>2, <1>3, <1>4, <1>5, Names

\* Every watcher but those in W is pending as before.
LEMMA OthersAsk ==
  ASSUME NEW t, Core(t), NEW x, InQueue(Priorities, Everyone, x, t.pri),
         NEW W, \A w \in Watcher : w \notin W => AsBefore(t.q, x, t.pri, w),
         \A w \in Io : w \in W /\ x.pending[w] # 0 =>
           \/ "ERROR" \in For(x, t.pri, w) \/ "CUSTOM" \in For(x, t.pri, w)
           \/ t.active[w] # 0 /\ For(x, t.pri, w) \subseteq t.events[w]
  PROVE  Asking([t EXCEPT !.q = x])
<1> DEFINE u == [t EXCEPT !.q = x]
<1>1. u.q = x /\ u.pri = t.pri /\ u.active = t.active /\ u.events = t.events
  BY DEF Core, Loop
<1>2. ASSUME NEW w \in Io, x.pending[w] # 0
      PROVE  \/ "ERROR" \in For(x, t.pri, w) \/ "CUSTOM" \in For(x, t.pri, w)
             \/ t.active[w] # 0 /\ For(x, t.pri, w) \subseteq t.events[w]
  <2>1. w \in Watcher
    BY DEF Io
  <2>2. CASE w \in W
    BY <1>2, <2>2
  <2>3. CASE w \notin W
    <3>1. t.q.pending[w] # 0 /\ For(x, t.pri, w) = For(t.q, t.pri, w)
      BY <1>2, <2>1, <2>3 DEF AsBefore
    <3> QED BY <3>1 DEF Core, Waiting, Asking, Events, For
  <2> QED BY <2>2, <2>3
<1> QED BY <1>1, <1>2 DEF Asking, Events, For

\* Children that are pending were pending, above childev.
LEMMA ChildrenStay ==
  ASSUME NEW t, Core(t), NEW x,
         \A w \in Watcher : kind[w] = "child" /\ x.pending[w] # 0 =>
           /\ x.pending[w] = t.q.pending[w] /\ x.pending[childev] = t.q.pending[childev]
  PROVE  ChildrenAbove([t EXCEPT !.q = x])
<1> DEFINE u == [t EXCEPT !.q = x]
<1>1. u.q = x /\ u.pri = t.pri
  BY DEF Core, Loop
<1> HIDE DEF u
<1> QED BY <1>1 DEF Core, Waiting, ChildrenAbove, u

LEMMA FeedCore ==
  ASSUME NEW t, Core(t), NEW w \in Watcher, NEW revents \in SUBSET Revents, kind[w] # "child",
         kind[w] = "io" =>
           \/ "ERROR" \in revents \/ "CUSTOM" \in revents
           \/ t.active[w] # 0 /\ revents \subseteq t.events[w]
  PROVE  Core(Feed(t, w, revents)) /\ OnlyQueue(t, Feed(t, w, revents))
<1> DEFINE x == FeedEvent(t.q, t.pri, w, revents)
<1>1. InQueue(Priorities, Everyone, x, t.pri) /\ Fed(Everyone, t.q, t.pri, w, revents, x)
  BY QueueIn, FeedIs
<1>2. \A v \in Everyone : v \notin {w} => AsBefore(t.q, x, t.pri, v)
  BY <1>1 DEF Fed
<1> HIDE DEF x
<1>3. ASSUME w \in Io, x.pending[w] # 0
      PROVE  \/ "ERROR" \in For(x, t.pri, w) \/ "CUSTOM" \in For(x, t.pri, w)
             \/ t.active[w] # 0 /\ For(x, t.pri, w) \subseteq t.events[w]
  <2>1. kind[w] = "io"
    BY <1>3 DEF Io
  <2>2. CASE t.q.pending[w] = 0
    BY <1>1, <2>1, <2>2 DEF Fed
  <2>3. CASE t.q.pending[w] # 0
    <3>1. For(x, t.pri, w) = For(t.q, t.pri, w) \cup revents
      BY <1>1, <2>3 DEF Fed
    <3>2. \/ "ERROR" \in For(t.q, t.pri, w) \/ "CUSTOM" \in For(t.q, t.pri, w)
          \/ t.active[w] # 0 /\ For(t.q, t.pri, w) \subseteq t.events[w]
      BY <1>3, <2>3 DEF Core, Waiting, Asking, Events, For
    <3> QED BY <2>1, <3>1, <3>2
  <2> QED BY <2>2, <2>3
<1>4. Asking([t EXCEPT !.q = x])
  <2>1. \A v \in Watcher : v \notin {w} => AsBefore(t.q, x, t.pri, v)
    BY <1>2, QueueIn
  <2>2. ASSUME NEW v \in Io, v \in {w}, x.pending[v] # 0
        PROVE  \/ "ERROR" \in For(x, t.pri, v) \/ "CUSTOM" \in For(x, t.pri, v)
               \/ t.active[v] # 0 /\ For(x, t.pri, v) \subseteq t.events[v]
    BY <1>3, <2>2
  <2> QED BY <1>1, <2>1, <2>2, OthersAsk
<1>5. ChildrenAbove([t EXCEPT !.q = x])
  <2>1. ASSUME NEW v \in Watcher, kind[v] = "child"
        PROVE  x.pending[v] = t.q.pending[v] /\ x.pending[childev] = t.q.pending[childev]
    BY <1>2, <2>1, QueueIn DEF AsBefore
  <2> QED BY <2>1, ChildrenStay
<1> QED BY <1>1, <1>4, <1>5, CoreWithQueue DEF Feed, x

LEMMA FeedChildev ==
  ASSUME NEW t, Core(t), NEW revents \in SUBSET Revents
  PROVE  /\ Core(Feed(t, childev, revents)) /\ OnlyQueue(t, Feed(t, childev, revents))
         /\ Feed(t, childev, revents).q.pending[childev] # 0
         /\ \A v \in Watcher : Feed(t, childev, revents).q.pending[v] = t.q.pending[v]
<1> DEFINE x == FeedEvent(t.q, t.pri, childev, revents)
<1>1. InQueue(Priorities, Everyone, x, t.pri) /\ Fed(Everyone, t.q, t.pri, childev, revents, x)
  BY QueueIn, FeedIs
<1>2. \A v \in Watcher : AsBefore(t.q, x, t.pri, v)
  BY <1>1, QueueIn DEF Fed
<1>3. Asking([t EXCEPT !.q = x])
  <2> HIDE DEF x
  <2>1. \A v \in Watcher : v \notin {childev} => AsBefore(t.q, x, t.pri, v)
    BY <1>2
  <2>2. \A v \in Io : v \notin {childev}
    BY QueueIn DEF Io
  <2> QED BY <1>1, <2>1, <2>2, OthersAsk
<1>4. ChildrenAbove([t EXCEPT !.q = x])
  <2> HIDE DEF x
  <2>1. ASSUME NEW v \in Watcher, kind[v] = "child", x.pending[v] # 0
        PROVE  x.pending[v] = t.q.pending[v] /\ x.pending[childev] = t.q.pending[childev]
    <3>1. x.pending[v] = t.q.pending[v]
      BY <1>2 DEF AsBefore
    <3>2. t.q.pending[childev] # 0
      BY <2>1, <3>1 DEF Core, Waiting, ChildrenAbove
    <3> QED BY <1>1, <3>1, <3>2 DEF Fed
  <2> QED BY <2>1, ChildrenStay
<1>5. Core([t EXCEPT !.q = x]) /\ OnlyQueue(t, [t EXCEPT !.q = x])
  BY <1>1, <1>3, <1>4, CoreWithQueue
<1>6. [t EXCEPT !.q = x].q = x
  BY DEF Core, Loop
<1>7. x.pending[childev] # 0
  <2>1. t.pri[childev] \in Priorities
    BY QueueIn
  <2>2. Len(t.q.list[t.pri[childev]]) \in Nat
    BY <2>1, QueueIn, ListFields
  <2> HIDE DEF x
  <2> QED BY <1>1, <2>2 DEF Fed
<1>8. \A v \in Watcher : x.pending[v] = t.q.pending[v]
  BY <1>2 DEF AsBefore
<1> QED BY <1>5, <1>6, <1>7, <1>8 DEF Feed

LEMMA ClearCore ==
  ASSUME NEW t, Core(t), NEW w \in Watcher
  PROVE  /\ Core([t EXCEPT !.q = ClearPending(t.q, t.pri, w)])
         /\ OnlyQueue(t, [t EXCEPT !.q = ClearPending(t.q, t.pri, w)])
         /\ [t EXCEPT !.q = ClearPending(t.q, t.pri, w)].q.pending[w] = 0
<1> DEFINE x == ClearPending(t.q, t.pri, w)
<1>1. InQueue(Priorities, Everyone, x, t.pri) /\ Cleared(Everyone, t.q, t.pri, w, x)
  BY QueueIn, ClearIs
<1>2. x.pending[w] = 0 /\ \A v \in Everyone : v # w => AsBefore(t.q, x, t.pri, v)
  BY <1>1 DEF Cleared
<1> HIDE DEF x
<1>3. Asking([t EXCEPT !.q = x])
  <2>1. \A v \in Watcher : v \notin {w} => AsBefore(t.q, x, t.pri, v)
    BY <1>2, QueueIn
  <2>2. \A v \in Io : v \in {w} => x.pending[v] = 0
    BY <1>2
  <2> QED BY <1>1, <2>1, <2>2, OthersAsk
<1>4. ChildrenAbove([t EXCEPT !.q = x])
  <2>1. ASSUME NEW v \in Watcher, kind[v] = "child", x.pending[v] # 0
        PROVE  x.pending[v] = t.q.pending[v] /\ x.pending[childev] = t.q.pending[childev]
    BY <1>2, <2>1, QueueIn DEF AsBefore
  <2> QED BY <2>1, ChildrenStay
<1>5. [t EXCEPT !.q = x].q = x
  BY DEF Core, Loop
<1> QED BY <1>1, <1>2, <1>3, <1>4, <1>5, CoreWithQueue DEF x

LEMMA TakeCore ==
  ASSUME NEW t, Core(t), NEW p \in Priorities, t.q.list[p] # <<>>
  PROVE  /\ Core([t EXCEPT !.q = Take(t.q, p)]) /\ OnlyQueue(t, [t EXCEPT !.q = Take(t.q, p)])
         /\ Taken(t.q, p).w = childev =>
              \A v \in Watcher : kind[v] = "child" => t.q.pending[v] = 0
<1> DEFINE x == Take(t.q, p)
           w == Taken(t.q, p).w
<1>1. InQueue(Priorities, Everyone, x, t.pri) /\ Took(Everyone, t.q, t.pri, p, x)
  BY QueueIn, TakeIs
<1>2. /\ w \in Everyone => t.pri[w] = p /\ t.q.pending[w] = Len(t.q.list[p]) /\ x.pending[w] = 0
      /\ \A v \in Everyone : v # w => AsBefore(t.q, x, t.pri, v)
      /\ \A v \in Everyone : v # w /\ t.pri[v] = p => t.q.pending[v] < Len(t.q.list[p])
  BY <1>1 DEF Took
<1> HIDE DEF x, w
<1>3. ASSUME NEW v \in Watcher, kind[v] = "child", w = childev PROVE t.q.pending[v] = 0
  <2> SUFFICES ASSUME t.q.pending[v] # 0 PROVE FALSE
    OBVIOUS
  <2>1. /\ t.pri[v] = MAXPRI /\ t.pri[childev] = MAXPRI
        /\ t.q.pending[childev] < t.q.pending[v]
    BY <1>3 DEF Core, Waiting, ChildrenAbove
  <2>2. t.pri[v] = p /\ t.q.pending[childev] = Len(t.q.list[p]) /\ v # w
    BY <1>2, <1>3, <2>1, QueueIn
  <2>3. t.q.pending[v] < t.q.pending[childev]
    BY <1>2, <2>2, QueueIn
  <2>4. t.q.pending[v] \in Nat /\ t.q.pending[childev] \in Nat
    BY QueueIn
  <2> QED BY <2>1, <2>3, <2>4
<1>4. Asking([t EXCEPT !.q = x])
  <2>1. \A v \in Watcher : v \notin {w} => AsBefore(t.q, x, t.pri, v)
    BY <1>2, QueueIn
  <2>2. \A v \in Io : v \in {w} => x.pending[v] = 0
    BY <1>2, QueueIn DEF Io
  <2> QED BY <1>1, <2>1, <2>2, OthersAsk
<1>5. ChildrenAbove([t EXCEPT !.q = x])
  <2>1. ASSUME NEW v \in Watcher, kind[v] = "child", x.pending[v] # 0
        PROVE  x.pending[v] = t.q.pending[v] /\ x.pending[childev] = t.q.pending[childev]
    <3>1. v # w
      BY <1>2, <2>1, QueueIn
    <3>2. x.pending[v] = t.q.pending[v]
      BY <1>2, <3>1, QueueIn DEF AsBefore
    <3>3. w # childev
      BY <1>3, <2>1, <3>2
    <3> QED BY <1>2, <3>2, <3>3, QueueIn DEF AsBefore
  <2> QED BY <2>1, ChildrenStay
<1>6. Core([t EXCEPT !.q = x]) /\ OnlyQueue(t, [t EXCEPT !.q = x])
  BY <1>1, <1>4, <1>5, CoreWithQueue
<1> QED BY <1>3, <1>6 DEF x, w

LEMMA QueueAllCore ==
  ASSUME NEW t, Core(t), NEW k \in Keys, NEW type \in Revents
  PROVE  Core(queue_all(t, k, type)) /\ OnlyQueue(t, queue_all(t, k, type))
<1> DEFINE ws == t.arrays[k]
           x  == queue_events(t.q, t.pri, ws, type)
<1>1. ws \in Seq(Watcher) /\ ws \in Seq(Everyone)
  BY Typed, Names DEF Core
<1>2. \A i \in 1..Len(ws) : ws[i] \in Watcher /\ kind[ws[i]] \notin {"io", "child"}
  BY <1>1 DEF Core, Linked, Arrays
<1> HIDE DEF ws
<1>3. /\ InQueue(Priorities, Everyone, x, t.pri)
      /\ \A v \in Everyone : (\A i \in 1..Len(ws) : ws[i] # v) => AsBefore(t.q, x, t.pri, v)
  BY <1>1, QueueIn, AlongQueue
<1> HIDE DEF x
<1> DEFINE W == {ws[i] : i \in 1..Len(ws)}
<1>4. \A v \in W : v \in Watcher /\ kind[v] \notin {"io", "child"}
  BY <1>2
<1>5. \A v \in Everyone : v \notin W => AsBefore(t.q, x, t.pri, v)
  BY <1>3
<1> HIDE DEF W
<1>6. Asking([t EXCEPT !.q = x])
  <2>1. \A v \in Watcher : v \notin W => AsBefore(t.q, x, t.pri, v)
    BY <1>5, QueueIn
  <2>2. \A v \in Io : v \notin W
    BY <1>4 DEF Io
  <2> QED BY <1>3, <2>1, <2>2, OthersAsk
<1>7. ChildrenAbove([t EXCEPT !.q = x])
  <2>1. ASSUME NEW v \in Watcher, kind[v] = "child"
        PROVE  x.pending[v] = t.q.pending[v] /\ x.pending[childev] = t.q.pending[childev]
    <3>1. v \notin W /\ childev \notin W
      BY <1>4, <2>1, QueueIn
    <3> QED BY <1>5, <3>1, QueueIn DEF AsBefore
  <2> QED BY <2>1, ChildrenStay
<1> QED BY <1>3, <1>6, <1>7, CoreWithQueue DEF queue_all, x, ws

-----------------------------------------------------------------------------
(* fdchanges                                                               *)

\* Nothing but fd came to fdchanges, which are in as good an order as before.
Extends(t, u, fd) ==
  /\ Len(t.fdchanges) <= Len(u.fdchanges)
  /\ \A i \in 1..Len(t.fdchanges) : u.fdchanges[i] = t.fdchanges[i]
  /\ \A i \in Len(t.fdchanges) + 1..Len(u.fdchanges) : u.fdchanges[i] = fd
  /\ \A k \in 1..Len(t.fdchanges) + 1 : ChangesFrom(t, k) => ChangesFrom(u, k)

\* All but anfds and fdchanges.
SameRest(t, u) ==
  u.q = t.q /\ u.reg = t.reg /\ u.file = t.file /\ u.eperms = t.eperms
  /\ SameLinks(t, u) /\ SamePolls(t, u) /\ Onward(t, u)

LEMMA ChangesKept ==
  ASSUME NEW t, NEW u, NEW k, u.fdchanges = t.fdchanges,
         \A fd \in Fd : u.anfds[fd].reify = t.anfds[fd].reify, ChangesFrom(t, k)
  PROVE  ChangesFrom(u, k)
BY DEF ChangesFrom

LEMMA ExtendsSame ==
  ASSUME NEW t \in Loop, NEW u, u.fdchanges = t.fdchanges, NEW f,
         \A fd \in Fd : u.anfds[fd].reify = t.anfds[fd].reify
  PROVE  Extends(t, u, f)
<1>1. Len(t.fdchanges) \in Nat
  BY Typed
<1>2. \A i \in Len(t.fdchanges) + 1..Len(t.fdchanges) : FALSE
  BY <1>1
<1> QED BY <1>1, <1>2, ChangesKept DEF Extends

LEMMA ExtendsTwice ==
  ASSUME NEW t \in Loop, NEW u \in Loop, NEW v \in Loop, NEW fd, Extends(t, u, fd), Extends(u, v, fd)
  PROVE  Extends(t, v, fd)
<1>1. Len(t.fdchanges) \in Nat /\ Len(u.fdchanges) \in Nat /\ Len(v.fdchanges) \in Nat
  BY Typed
<1>2. Len(t.fdchanges) <= Len(u.fdchanges) /\ Len(u.fdchanges) <= Len(v.fdchanges)
  BY DEF Extends
<1>3. \A i \in 1..Len(t.fdchanges) : i \in 1..Len(u.fdchanges)
  BY <1>1, <1>2
<1>4. \A i \in Len(t.fdchanges) + 1..Len(v.fdchanges) :
        \/ i \in Len(t.fdchanges) + 1..Len(u.fdchanges) /\ i \in 1..Len(u.fdchanges)
        \/ i \in Len(u.fdchanges) + 1..Len(v.fdchanges)
  BY <1>1, <1>2
<1>5. \A k \in 1..Len(t.fdchanges) + 1 : k \in 1..Len(u.fdchanges) + 1
  BY <1>1, <1>2
<1>6. \A i \in 1..Len(t.fdchanges) : v.fdchanges[i] = t.fdchanges[i]
  BY <1>3 DEF Extends
<1>7. \A i \in Len(t.fdchanges) + 1..Len(v.fdchanges) : v.fdchanges[i] = fd
  BY <1>4 DEF Extends
<1>8. \A k \in 1..Len(t.fdchanges) + 1 : ChangesFrom(t, k) => ChangesFrom(v, k)
  BY <1>5 DEF Extends
<1>9. Len(t.fdchanges) <= Len(v.fdchanges)
  BY <1>1, <1>2
<1> QED BY <1>6, <1>7, <1>8, <1>9 DEF Extends

ChangedTo(t, u, a, c) == u \in Loop /\ u.anfds = a /\ u.fdchanges = c /\ SameRest(t, u)

LEMMA WithChanges ==
  ASSUME NEW t \in Loop, NEW a \in [Fd -> ANFD], NEW c \in Seq(Fd),
         \A fd \in Fd : a[fd].head = t.anfds[fd].head,
         NEW u, u = [t EXCEPT !.anfds = a, !.fdchanges = c]
  PROVE  ChangedTo(t, u, a, c)
<1>1. u \in Loop
  BY ZenonT(60) DEF Loop
<1>2. u.anfds = a /\ u.fdchanges = c
  BY DEF Loop
<1>3. u.q = t.q /\ u.reg = t.reg /\ u.file = t.file /\ u.eperms = t.eperms /\ SamePolls(t, u) /\ Onward(t, u)
  BY DEF Loop, SamePolls, Onward
<1>4. /\ u.pri = t.pri /\ u.active = t.active /\ u.activecnt = t.activecnt
      /\ u.fd = t.fd /\ u.events = t.events /\ u.arrays = t.arrays /\ u.childs = t.childs
  BY DEF Loop
<1>5. SameLinks(t, u)
  BY <1>2, <1>4 DEF SameLinks
<1> QED BY <1>1, <1>2, <1>3, <1>5 DEF SameRest, ChangedTo

LEMMA ChangeIs ==
  ASSUME NEW t \in Loop, NEW fd \in Fd, NEW flags \in SUBSET {"REIFY", "IOFDSET"}, flags # {}
  PROVE  /\ fd_change(t, fd, flags) \in Loop /\ SameRest(t, fd_change(t, fd, flags))
         /\ Extends(t, fd_change(t, fd, flags), fd)
<1> DEFINE a == [t.anfds EXCEPT ![fd] = [t.anfds[fd] EXCEPT !.reify = t.anfds[fd].reify \cup flags]]
           c == IF t.anfds[fd].reify = {} THEN Append(t.fdchanges, fd) ELSE t.fdchanges
           u == fd_change(t, fd, flags)
           n == Len(t.fdchanges)
<1>1. u = [t EXCEPT !.anfds = a, !.fdchanges = c]
  BY DEF fd_change, Loop
<1>2. t.anfds \in [Fd -> ANFD] /\ t.anfds[fd] \in ANFD /\ t.fdchanges \in Seq(Fd) /\ n \in Nat
  BY Typed
<1>3. a \in [Fd -> ANFD]
  <2>1. [t.anfds[fd] EXCEPT !.reify = t.anfds[fd].reify \cup flags] \in ANFD
    BY <1>2 DEF ANFD
  <2> QED BY <1>2, <2>1
<1>4. c \in Seq(Fd)
  BY <1>2
<1>5. /\ a[fd].reify = t.anfds[fd].reify \cup flags /\ a[fd].head = t.anfds[fd].head
      /\ \A f \in Fd : f # fd => a[f] = t.anfds[f]
  BY <1>2 DEF ANFD
<1>6. /\ t.anfds[fd].reify = {} => Len(c) = n + 1 /\ c[n + 1] = fd
      /\ t.anfds[fd].reify # {} => c = t.fdchanges
      /\ \A i \in 1..n : c[i] = t.fdchanges[i]
  BY <1>2
<1>7. u \in Loop /\ SameRest(t, u) /\ u.anfds = a /\ u.fdchanges = c
  <2> HIDE DEF a, c, u
  <2>1. \A f \in Fd : a[f].head = t.anfds[f].head
    BY <1>5
  <2>2. ChangedTo(t, u, a, c)
    BY <1>1, <1>3, <1>4, <2>1, WithChanges
  <2> QED BY <2>2 DEF ChangedTo
<1> HIDE DEF a, c, u
<1>8. n <= Len(c) /\ \A i \in n + 1..Len(c) : c[i] = fd /\ t.anfds[fd].reify = {} /\ i = n + 1
  BY <1>2, <1>6
<1>9. ASSUME NEW k \in 1..n + 1, ChangesFrom(t, k) PROVE ChangesFrom(u, k)
  <2>1. \A f \in Fd : t.anfds[f].reify # {} <=> \E i \in k..n : t.fdchanges[i] = f
    BY <1>9 DEF ChangesFrom
  <2>2. \A i, j \in k..n : t.fdchanges[i] = t.fdchanges[j] => i = j
    BY <1>9 DEF ChangesFrom
  <2>3. CASE t.anfds[fd].reify # {}
    <3>1. u.fdchanges = t.fdchanges
      BY <1>6, <1>7, <2>3
    <3>2. \A f \in Fd : u.anfds[f].reify # {} <=> t.anfds[f].reify # {}
      BY <1>5, <1>7, <2>3
    <3> QED BY <2>1, <2>2, <3>1, <3>2 DEF ChangesFrom
  <2>4. CASE t.anfds[fd].reify = {}
    <3>1. \A i \in k..n : t.fdchanges[i] # fd
      BY <2>1, <2>4
    <3>2. Len(c) = n + 1 /\ c[n + 1] = fd /\ \A i \in k..n : c[i] = t.fdchanges[i]
      BY <1>2, <1>6, <2>4
    <3>3. \A i \in k..n + 1 : i \in k..n \/ i = n + 1
      BY <1>2
    <3>4. \A i, j \in k..n + 1 : c[i] = c[j] => i = j
      BY <2>2, <3>1, <3>2, <3>3
    <3>5. ASSUME NEW f \in Fd PROVE a[f].reify # {} <=> \E i \in k..n + 1 : c[i] = f
      <4>1. CASE f = fd
        <5>1. n + 1 \in k..n + 1
          BY <1>2
        <5> QED BY <1>5, <3>2, <4>1, <5>1
      <4>2. CASE f # fd
        <5>1. (\E i \in k..n : t.fdchanges[i] = f) => \E i \in k..n + 1 : c[i] = f
          BY <1>2, <3>2
        <5>2. (\E i \in k..n + 1 : c[i] = f) => \E i \in k..n : t.fdchanges[i] = f
          BY <3>2, <3>3, <4>2
        <5> QED BY <1>5, <2>1, <4>2, <5>1, <5>2
      <4> QED BY <4>1, <4>2
    <3> QED BY <1>7, <3>2, <3>4, <3>5 DEF ChangesFrom
  <2> QED BY <2>3, <2>4
<1> QED BY <1>6, <1>7, <1>8, <1>9 DEF Extends, u, n

LEMMA ChangeCore ==
  ASSUME NEW t, Core(t), NEW fd \in Fd, NEW flags \in SUBSET {"REIFY", "IOFDSET"}, flags # {}
  PROVE  /\ Core(fd_change(t, fd, flags)) /\ SameRest(t, fd_change(t, fd, flags))
         /\ Extends(t, fd_change(t, fd, flags), fd)
<1> DEFINE u == fd_change(t, fd, flags)
<1>1. u \in Loop /\ SameRest(t, u) /\ Extends(t, u, fd)
  BY ChangeIs DEF Core
<1> HIDE DEF u
<1>2. Core(u)
  BY <1>1, CoreAlike DEF SameRest, Core
<1> QED BY <1>1, <1>2 DEF u

-----------------------------------------------------------------------------
(* Watchers that start and stop                                            *)

LinkedTo(t, u, a, n, ar, f, ch) ==
  /\ u \in Loop
  /\ u.active = a /\ u.activecnt = n /\ u.arrays = ar /\ u.anfds = f /\ u.childs = ch
  /\ u.q = t.q /\ u.pri = t.pri /\ u.fd = t.fd /\ u.events = t.events
  /\ u.fdchanges = t.fdchanges /\ u.eperms = t.eperms /\ u.reg = t.reg /\ u.file = t.file
  /\ SamePolls(t, u) /\ Onward(t, u)

LEMMA WithLinks ==
  ASSUME NEW t \in Loop, NEW a \in [Watcher -> Nat], NEW n \in Int, NEW ar \in [Keys -> Seq(Watcher)],
         NEW f \in [Fd -> ANFD], NEW ch \in [0..(HASHSIZE - 1) -> Seq(Watcher)],
         NEW st \in [Watcher -> BOOLEAN],
         NEW u, u = [t EXCEPT !.active = a, !.activecnt = n, !.arrays = ar, !.anfds = f,
                              !.childs = ch, !.set = st]
  PROVE  LinkedTo(t, u, a, n, ar, f, ch)
<1>1. u \in Loop
  BY ZenonT(60) DEF Loop
<1>2. u.active = a /\ u.activecnt = n /\ u.arrays = ar /\ u.anfds = f /\ u.childs = ch
  BY DEF Loop
<1>3. /\ u.q = t.q /\ u.pri = t.pri /\ u.fd = t.fd /\ u.events = t.events
      /\ u.fdchanges = t.fdchanges /\ u.eperms = t.eperms /\ u.reg = t.reg /\ u.file = t.file
  BY DEF Loop
<1>4. SamePolls(t, u) /\ Onward(t, u)
  BY DEF Loop, SamePolls, Onward
<1> QED BY <1>1, <1>2, <1>3, <1>4 DEF LinkedTo

LEMMA CountUp ==
  ASSUME NEW t, NEW u, NEW w \in Watcher, Counts(t), t.active[w] = 0, u.active[w] # 0,
         \A v \in Watcher : v # w => (u.active[v] # 0 <=> t.active[v] # 0),
         u.activecnt = t.activecnt + Counted(w)
  PROVE  Counts(u)
<1>1. IsFiniteSet(Alive(t)) /\ w \notin Alive(t)
  <2>1. Alive(t) \subseteq Watcher
    BY DEF Alive
  <2> QED BY <2>1, Names, FS_Subset DEF Alive
<1>2. CASE Counted(w) = 1
  <2>1. Alive(u) = Alive(t) \cup {w}
    BY <1>2 DEF Alive
  <2>2. Cardinality(Alive(u)) = Cardinality(Alive(t)) + 1
    BY <1>1, <2>1, FS_AddElement
  <2> QED BY <1>2, <2>2 DEF Counts
<1>3. CASE Counted(w) = 0
  <2>1. Alive(u) = Alive(t)
    BY <1>3 DEF Alive
  <2>2. Cardinality(Alive(t)) \in Nat
    BY <1>1, FS_CardinalityType
  <2> QED BY <1>3, <2>1, <2>2 DEF Counts
<1> QED BY <1>2, <1>3 DEF Counted

LEMMA CountDown ==
  ASSUME NEW t, NEW u, NEW w \in Watcher, Counts(t), t.active[w] # 0, u.active[w] = 0,
         \A v \in Watcher : v # w => (u.active[v] # 0 <=> t.active[v] # 0),
         u.activecnt = t.activecnt - Counted(w)
  PROVE  Counts(u)
<1>1. IsFiniteSet(Alive(t)) /\ Cardinality(Alive(t)) \in Nat
  <2>1. Alive(t) \subseteq Watcher
    BY DEF Alive
  <2> QED BY <2>1, Names, FS_Subset, FS_CardinalityType
<1>2. CASE Counted(w) = 1
  <2>1. Alive(u) = Alive(t) \ {w} /\ w \in Alive(t)
    BY <1>2 DEF Alive
  <2>2. Cardinality(Alive(u)) = Cardinality(Alive(t)) - 1
    BY <1>1, <2>1, FS_RemoveElement
  <2> QED BY <1>2, <2>2 DEF Counts
<1>3. CASE Counted(w) = 0
  <2>1. Alive(u) = Alive(t)
    BY <1>3 DEF Alive
  <2> QED BY <1>1, <1>3, <2>1 DEF Counts
<1> QED BY <1>2, <1>3 DEF Counted

LEMMA HeadsKept ==
  ASSUME NEW t \in Loop, NEW u, Heads(t), u.fd = t.fd, \A fd \in Fd : u.anfds[fd].head = t.anfds[fd].head,
         \A w \in Watcher : kind[w] = "io" => u.active[w] = t.active[w]
  PROVE  Heads(u)
<1>1. ASSUME NEW fd \in Fd, NEW i \in 1..Len(t.anfds[fd].head) PROVE t.anfds[fd].head[i] \in Watcher
  BY AnfdIs
<1>2. ASSUME NEW fd \in Fd
      PROVE  /\ Distinct(u.anfds[fd].head)
             /\ \A i \in 1..Len(u.anfds[fd].head) :
                  LET w == u.anfds[fd].head[i]
                  IN  u.active[w] = 1 /\ u.fd[w] = fd /\ kind[w] = "io"
  <2> DEFINE head == t.anfds[fd].head
  <2>1. u.anfds[fd].head = head
    OBVIOUS
  <2>2. /\ Distinct(head)
        /\ \A i \in 1..Len(head) : t.active[head[i]] = 1 /\ t.fd[head[i]] = fd /\ kind[head[i]] = "io"
    BY DEF Heads
  <2>3. \A i \in 1..Len(head) : head[i] \in Watcher
    BY <1>1
  <2> HIDE DEF head
  <2>4. \A i \in 1..Len(head) : u.active[head[i]] = 1 /\ u.fd[head[i]] = fd /\ kind[head[i]] = "io"
    BY <2>2, <2>3, Zenon
  <2> QED BY <2>1, <2>2, <2>4, Zenon
<1> QED BY <1>2, Zenon DEF Heads

LEMMA ArraysKept ==
  ASSUME NEW t \in Loop, NEW u, Arrays(t), u.arrays = t.arrays,
         \A w \in Watcher : kind[w] \notin {"io", "child"} => u.active[w] = t.active[w] /\ u.pri[w] = t.pri[w]
  PROVE  Arrays(u)
<1>1. ASSUME NEW k \in Keys, NEW i \in 1..Len(t.arrays[k]) PROVE t.arrays[k][i] \in Watcher
  BY Typed
<1>2. ASSUME NEW w \in Watcher, kind[w] \notin {"io", "child"} PROVE Key(u, w) = Key(t, w)
  BY <1>2 DEF Key
<1> QED BY <1>1, <1>2 DEF Arrays

LEMMA ChildsKept ==
  ASSUME NEW t \in Loop, NEW u, Childs(t), u.childs = t.childs,
         \A w \in Watcher : kind[w] = "child" => u.active[w] = t.active[w]
  PROVE  Childs(u)
<1>1. ASSUME NEW h \in 0..(HASHSIZE - 1), NEW i \in 1..Len(t.childs[h]) PROVE t.childs[h][i] \in Watcher
  <2>1. t.childs[h] \in Seq(Watcher)
    BY Typed
  <2> QED BY <2>1
<1> QED BY <1>1 DEF Childs

LEMMA WaitingActive ==
  ASSUME NEW t, NEW u, Waiting(t), u.q = t.q, u.pri = t.pri, u.events = t.events,
         \A w \in Watcher : t.q.pending[w] # 0 /\ t.active[w] # 0 => u.active[w] # 0
  PROVE  Waiting(u)
<1>1. Asking(u)
  BY DEF Waiting, Asking, Events, Io
<1> QED BY <1>1 DEF Waiting, ChildrenAbove

\* A sequence with one more in front.
LEMMA PrependIs ==
  ASSUME NEW S, NEW a \in Seq(S), NEW x \in S
  PROVE  /\ <<x>> \o a \in Seq(S) /\ Len(<<x>> \o a) = Len(a) + 1 /\ (<<x>> \o a)[1] = x
         /\ \A i \in 1..Len(a) + 1 : i # 1 => (<<x>> \o a)[i] = a[i - 1] /\ i - 1 \in 1..Len(a)
         /\ Distinct(a) /\ (\A i \in 1..Len(a) : a[i] # x) => Distinct(<<x>> \o a)
<1> DEFINE b == <<x>> \o a
<1>1. Len(a) \in Nat /\ b \in Seq(S) /\ Len(b) = Len(a) + 1 /\ b[1] = x
  OBVIOUS
<1>2. \A i \in 1..Len(a) + 1 : i # 1 => b[i] = a[i - 1] /\ i - 1 \in 1..Len(a)
  OBVIOUS
<1> HIDE DEF b
<1>3. ASSUME Distinct(a), \A i \in 1..Len(a) : a[i] # x PROVE Distinct(b)
  <2> SUFFICES ASSUME NEW i \in 1..Len(a) + 1, NEW j \in 1..Len(a) + 1, b[i] = b[j] PROVE i = j
    BY <1>1 DEF Distinct
  <2>1. CASE i = 1
    BY <1>1, <1>2, <1>3, <2>1
  <2>2. CASE j = 1
    BY <1>1, <1>2, <1>3, <2>2
  <2>3. CASE i # 1 /\ j # 1
    <3>1. i - 1 = j - 1
      BY <1>2, <1>3, <2>3 DEF Distinct
    <3> QED BY <1>1, <3>1
  <2> QED BY <2>1, <2>2, <2>3
<1> QED BY <1>1, <1>2, <1>3 DEF b

LEMMA IoStartCore ==
  ASSUME NEW t, Core(t), NEW w \in Watcher, kind[w] = "io"
  PROVE  /\ Core(ev_io_start(t, w)) /\ Onward(t, ev_io_start(t, w))
         /\ Extends(t, ev_io_start(t, w), t.fd[w])
<1> DEFINE r == ev_io_start(t, w)
           fd == t.fd[w]
<1>1. /\ t \in Loop /\ Heads(t) /\ Arrays(t) /\ Childs(t) /\ Counts(t) /\ Waiting(t) /\ Indexed(t)
      /\ IsFiniteSet(t.reg)
  BY DEF Core, Linked
<1>2. CASE t.active[w] # 0
  <2>1. r = t
    BY <1>2 DEF ev_io_start
  <2> QED BY <1>1, <2>1, ExtendsSame DEF Onward
<1>3. CASE t.active[w] = 0
  <2> DEFINE old   == t.anfds[fd].head
             a     == [t.active EXCEPT ![w] = 1]
             f     == [t.anfds EXCEPT ![fd] = [t.anfds[fd] EXCEPT !.head = <<w>> \o old]]
             st    == [t.set EXCEPT ![w] = FALSE]
             n     == t.activecnt + 1
             u     == [t EXCEPT !.active = a, !.activecnt = n, !.arrays = t.arrays, !.anfds = f,
                                !.childs = t.childs, !.set = st]
             flags == {"REIFY"} \cup IF t.set[w] THEN {"IOFDSET"} ELSE {}
  <2>1. r = fd_change(u, fd, flags)
    <3>1. u = [t EXCEPT !.active[w] = 1, !.activecnt = @ + 1, !.set[w] = FALSE,
                        !.anfds[fd].head = <<w>> \o @]
      BY <1>1, ZenonT(60) DEF Loop
    <3> HIDE DEF u
    <3> QED BY <1>3, <3>1 DEF ev_io_start
  <2>2. /\ fd \in Fd /\ t.anfds \in [Fd -> ANFD] /\ t.anfds[fd] \in ANFD /\ old \in Seq(Watcher)
        /\ Len(old) \in Nat
    BY <1>1, Typed, AnfdIs
  <2>3. f \in [Fd -> ANFD] /\ f[fd].head = <<w>> \o old /\ f[fd].reify = t.anfds[fd].reify
        /\ \A x \in Fd : x # fd => f[x] = t.anfds[x]
    <3>1. <<w>> \o old \in Seq(Watcher)
      BY <2>2, PrependIs
    <3> HIDE DEF old
    <3>2. [t.anfds[fd] EXCEPT !.head = <<w>> \o old] \in ANFD
      BY <2>2, <3>1 DEF ANFD
    <3>3. f \in [Fd -> ANFD]
      BY <2>2, <3>2
    <3>4. f[fd].head = <<w>> \o old /\ f[fd].reify = t.anfds[fd].reify
      BY <2>2 DEF ANFD
    <3> QED BY <2>2, <3>3, <3>4
  <2>4. /\ a \in [Watcher -> Nat] /\ a[w] = 1 /\ \A x \in Watcher : x # w => a[x] = t.active[x]
        /\ n \in Int /\ st \in [Watcher -> BOOLEAN] /\ flags \in SUBSET {"REIFY", "IOFDSET"} /\ flags # {}
        /\ t.arrays \in [Keys -> Seq(Watcher)] /\ t.childs \in [0..(HASHSIZE - 1) -> Seq(Watcher)]
    BY <1>1, Typed
  <2> HIDE DEF old, a, f, st, n, flags, r
  <2>5. /\ u \in Loop
        /\ u.active = a /\ u.activecnt = n /\ u.arrays = t.arrays /\ u.anfds = f /\ u.childs = t.childs
        /\ u.q = t.q /\ u.pri = t.pri /\ u.fd = t.fd /\ u.events = t.events
        /\ u.fdchanges = t.fdchanges /\ u.eperms = t.eperms /\ u.reg = t.reg /\ u.file = t.file
        /\ SamePolls(t, u) /\ Onward(t, u)
    <3> HIDE DEF u
    <3>1. u = [t EXCEPT !.active = a, !.activecnt = n, !.arrays = t.arrays, !.anfds = f,
                        !.childs = t.childs, !.set = st]
      BY DEF u
    <3>2. LinkedTo(t, u, a, n, t.arrays, f, t.childs)
      BY <1>1, <2>3, <2>4, <3>1, WithLinks
    <3> QED BY <3>2 DEF LinkedTo
  <2> HIDE DEF u
  <2>6. Heads(u)
    <3>1. \A i \in 1..Len(old) : old[i] # w /\ old[i] \in Watcher
      BY <1>1, <1>3, <2>2 DEF Heads, old
    <3>2. Distinct(old)
      BY <1>1, <2>2 DEF Heads, old
    <3>3. ASSUME NEW x \in Fd PROVE Distinct(u.anfds[x].head)
      <4>1. CASE x = fd
        <5>1. Distinct(<<w>> \o old)
          BY <2>2, <3>1, <3>2, PrependIs
        <5> QED BY <2>3, <2>5, <4>1, <5>1
      <4>2. CASE x # fd
        BY <1>1, <2>3, <2>5, <4>2 DEF Heads
      <4> QED BY <4>1, <4>2
    <3>4. ASSUME NEW x \in Fd, NEW i \in 1..Len(u.anfds[x].head), NEW v, v = u.anfds[x].head[i]
          PROVE  u.active[v] = 1 /\ u.fd[v] = x /\ kind[v] = "io"
      <4>1. CASE x = fd
        <5>1. Len(<<w>> \o old) = Len(old) + 1 /\ u.anfds[x].head = <<w>> \o old
          BY <2>2, <2>3, <2>5, <4>1, PrependIs
        <5>2. CASE i = 1
          <6>1. v = w
            BY <2>2, <3>4, <5>1, <5>2, PrependIs
          <6> QED BY <2>4, <2>5, <4>1, <6>1
        <5>3. CASE i # 1
          <6>1. v = old[i - 1] /\ i - 1 \in 1..Len(old)
            BY <2>2, <3>4, <5>1, <5>3, PrependIs
          <6>2. t.active[v] = 1 /\ t.fd[v] = fd /\ kind[v] = "io"
            BY <1>1, <2>2, <6>1 DEF Heads, old
          <6> QED BY <2>4, <2>5, <3>1, <4>1, <6>1, <6>2
        <5> QED BY <5>2, <5>3
      <4>2. CASE x # fd
        <5>1. u.anfds[x].head = t.anfds[x].head /\ t.anfds[x].head \in Seq(Watcher)
          BY <1>1, <2>3, <2>5, <4>2, AnfdIs
        <5>2. t.active[v] = 1 /\ t.fd[v] = x /\ kind[v] = "io"
          BY <1>1, <3>4, <5>1 DEF Heads
        <5>3. v # w /\ v \in Watcher
          BY <1>3, <3>4, <5>1, <5>2
        <5> QED BY <2>4, <2>5, <5>2, <5>3
      <4> QED BY <4>1, <4>2
    <3> QED BY <3>3, <3>4 DEF Heads
  <2>7. Arrays(u) /\ Childs(u)
    <3>1. \A x \in Watcher : kind[x] # "io" => u.active[x] = t.active[x] /\ u.pri[x] = t.pri[x]
      BY <2>4, <2>5
    <3> QED BY <1>1, <2>5, <3>1, ArraysKept, ChildsKept
  <2>8. Counts(u)
    <3>1. Counted(w) = 1
      BY DEF Counted
    <3>2. u.active[w] # 0 /\ \A v \in Watcher : v # w => (u.active[v] # 0 <=> t.active[v] # 0)
      BY <2>4, <2>5
    <3>3. u.activecnt = t.activecnt + Counted(w)
      BY <2>5, <3>1 DEF n
    <3> QED BY <1>1, <1>3, <3>2, <3>3, CountUp
  <2>9. Waiting(u)
    <3>1. \A x \in Watcher : t.q.pending[x] # 0 /\ t.active[x] # 0 => u.active[x] # 0
      BY <2>4, <2>5
    <3> QED BY <1>1, <2>5, <3>1, WaitingActive
  <2>10. Core(u)
    <3>1. Indexed(u)
      BY <1>1, <2>5 DEF SamePolls, Indexed
    <3> QED BY <1>1, <2>5, <2>6, <2>7, <2>8, <2>9, <3>1 DEF Core, Linked
  <2>11. Extends(t, u, fd)
    <3>1. \A x \in Fd : u.anfds[x].reify = t.anfds[x].reify
      BY <2>3, <2>5
    <3> QED BY <1>1, <2>5, <3>1, ExtendsSame
  <2>12. Core(r) /\ SameRest(u, r) /\ Extends(u, r, fd)
    BY <2>1, <2>2, <2>4, <2>10, ChangeCore
  <2>13. Onward(t, r)
    BY <2>5, <2>12 DEF SameRest, Onward
  <2>14. Extends(t, r, fd)
    BY <1>1, <2>5, <2>11, <2>12, ExtendsTwice DEF Core
  <2> QED BY <2>12, <2>13, <2>14 DEF r
<1> QED BY <1>2, <1>3

\* The part of ev_io_stop after clear_pending.
Unlink(t, w) ==
  fd_change([t EXCEPT !.active[w] = 0, !.activecnt = @ - 1,
                      !.anfds[t.fd[w]].head = Unlinked(t.anfds[t.fd[w]].head, w)],
            t.fd[w], {"REIFY"})

\* The watchers of an fd without the first one.
FirstGone(t, r, fd) ==
  /\ r.anfds[fd].head = SubSeq(t.anfds[fd].head, 2, Len(t.anfds[fd].head))
  /\ \A x \in Fd : x # fd => r.anfds[x].head = t.anfds[x].head

LEMMA UnlinkCore ==
  ASSUME NEW t, Core(t), NEW w \in Watcher, kind[w] = "io", t.active[w] # 0, t.q.pending[w] = 0
  PROVE  /\ Core(Unlink(t, w)) /\ Onward(t, Unlink(t, w)) /\ Extends(t, Unlink(t, w), t.fd[w])
         /\ t.anfds[t.fd[w]].head # <<>> /\ t.anfds[t.fd[w]].head[1] = w =>
              FirstGone(t, Unlink(t, w), t.fd[w])
<1> DEFINE r   == Unlink(t, w)
           fd  == t.fd[w]
           old == t.anfds[fd].head
           new == Unlinked(old, w)
           a   == [t.active EXCEPT ![w] = 0]
           f   == [t.anfds EXCEPT ![fd] = [t.anfds[fd] EXCEPT !.head = new]]
           n   == t.activecnt - 1
           u   == [t EXCEPT !.active = a, !.activecnt = n, !.arrays = t.arrays, !.anfds = f,
                            !.childs = t.childs, !.set = t.set]
<1>1. /\ t \in Loop /\ Heads(t) /\ Arrays(t) /\ Childs(t) /\ Counts(t) /\ Waiting(t) /\ Indexed(t)
      /\ IsFiniteSet(t.reg)
  BY DEF Core, Linked
<1>2. r = fd_change(u, fd, {"REIFY"})
  <2>1. u = [t EXCEPT !.active[w] = 0, !.activecnt = @ - 1, !.anfds[fd].head = new]
    BY <1>1, ZenonT(60) DEF Loop
  <2> HIDE DEF u, new
  <2> QED BY <2>1 DEF Unlink, new
<1>3. /\ fd \in Fd /\ t.anfds \in [Fd -> ANFD] /\ t.anfds[fd] \in ANFD /\ old \in Seq(Watcher)
      /\ Len(old) \in Nat
  BY <1>1, Typed, AnfdIs
<1>4. new \in Seq(Watcher) /\ Lacks(old, w, new)
  <2>1. Distinct(old)
    BY <1>1, <1>3 DEF Heads
  <2> HIDE DEF old
  <2> QED BY <1>3, <2>1, UnlinkedIs
<1>5. f \in [Fd -> ANFD] /\ f[fd].head = new /\ f[fd].reify = t.anfds[fd].reify
      /\ \A x \in Fd : x # fd => f[x] = t.anfds[x]
  <2> HIDE DEF new
  <2>1. [t.anfds[fd] EXCEPT !.head = new] \in ANFD
    BY <1>3, <1>4 DEF ANFD
  <2>2. f \in [Fd -> ANFD]
    BY <1>3, <2>1
  <2>3. f[fd].head = new /\ f[fd].reify = t.anfds[fd].reify
    BY <1>3 DEF ANFD
  <2> QED BY <1>3, <2>2, <2>3
<1>6. /\ a \in [Watcher -> Nat] /\ a[w] = 0 /\ \A x \in Watcher : x # w => a[x] = t.active[x]
      /\ n \in Int /\ t.set \in [Watcher -> BOOLEAN]
      /\ t.arrays \in [Keys -> Seq(Watcher)] /\ t.childs \in [0..(HASHSIZE - 1) -> Seq(Watcher)]
  BY <1>1, Typed
<1> HIDE DEF old, new, a, f, n, r
<1>7. LinkedTo(t, u, a, n, t.arrays, f, t.childs)
  <2> HIDE DEF u
  <2>1. u = [t EXCEPT !.active = a, !.activecnt = n, !.arrays = t.arrays, !.anfds = f,
                      !.childs = t.childs, !.set = t.set]
    BY DEF u
  <2> QED BY <1>1, <1>5, <1>6, <2>1, WithLinks
<1> HIDE DEF u
<1>8. /\ u \in Loop
      /\ u.active = a /\ u.activecnt = n /\ u.arrays = t.arrays /\ u.anfds = f /\ u.childs = t.childs
      /\ u.q = t.q /\ u.pri = t.pri /\ u.fd = t.fd /\ u.events = t.events
      /\ u.fdchanges = t.fdchanges /\ u.reg = t.reg /\ SamePolls(t, u) /\ Onward(t, u)
  BY <1>7 DEF LinkedTo
<1>9. Heads(u)
  <2>1. /\ \A i \in 1..Len(old) : t.active[old[i]] = 1 /\ t.fd[old[i]] = fd /\ kind[old[i]] = "io"
    BY <1>1, <1>3 DEF Heads, old
  <2>2. Distinct(new) /\ Len(new) \in Nat
    BY <1>4 DEF Lacks
  <2>3. ASSUME NEW i \in 1..Len(new)
        PROVE  new[i] \in Watcher /\ new[i] # w /\ \E j \in 1..Len(old) : old[j] = new[i]
    <3>1. new[i] # w /\ new[i] \in Elements(new) /\ Elements(new) = Elements(old) \ {w}
      BY <1>4 DEF Lacks, Elements
    <3>2. \E j \in 1..Len(old) : old[j] = new[i]
      BY <3>1 DEF Elements
    <3>3. new[i] \in Watcher
      BY <1>4
    <3> QED BY <3>1, <3>2, <3>3
  <2>4. ASSUME NEW x \in Fd, x # fd, NEW i \in 1..Len(t.anfds[x].head)
        PROVE  t.anfds[x].head[i] \in Watcher /\ t.anfds[x].head[i] # w
    BY <1>1, <2>4, AnfdIs DEF Heads
  <2>5. ASSUME NEW x \in Fd PROVE Distinct(u.anfds[x].head)
    <3>1. CASE x = fd
      BY <1>5, <1>8, <2>2, <3>1
    <3>2. CASE x # fd
      BY <1>1, <1>5, <1>8, <3>2 DEF Heads
    <3> QED BY <3>1, <3>2
  <2>6. ASSUME NEW x \in Fd, NEW i \in 1..Len(u.anfds[x].head), NEW v, v = u.anfds[x].head[i]
        PROVE  u.active[v] = 1 /\ u.fd[v] = x /\ kind[v] = "io"
    <3>1. CASE x = fd
      <4>1. i \in 1..Len(new) /\ v = new[i]
        BY <1>5, <1>8, <2>6, <3>1
      <4>2. v \in Watcher /\ v # w /\ t.active[v] = 1 /\ t.fd[v] = fd /\ kind[v] = "io"
        BY <2>1, <2>3, <4>1
      <4> QED BY <1>6, <1>8, <3>1, <4>2
    <3>2. CASE x # fd
      <4>1. u.anfds[x].head = t.anfds[x].head
        BY <1>5, <1>8, <3>2
      <4>2. t.active[v] = 1 /\ t.fd[v] = x /\ kind[v] = "io"
        BY <1>1, <2>6, <4>1 DEF Heads
      <4>3. v \in Watcher /\ v # w
        BY <2>4, <2>6, <3>2, <4>1
      <4> QED BY <1>6, <1>8, <4>2, <4>3
    <3> QED BY <3>1, <3>2
  <2> QED BY <2>5, <2>6 DEF Heads
<1>10. Arrays(u) /\ Childs(u)
  <2>1. \A x \in Watcher : kind[x] # "io" => u.active[x] = t.active[x] /\ u.pri[x] = t.pri[x]
    BY <1>6, <1>8
  <2> QED BY <1>1, <1>8, <2>1, ArraysKept, ChildsKept
<1>11. Counts(u)
  <2>1. Counted(w) = 1
    BY DEF Counted
  <2>2. u.active[w] = 0 /\ \A v \in Watcher : v # w => (u.active[v] # 0 <=> t.active[v] # 0)
    BY <1>6, <1>8
  <2>3. u.activecnt = t.activecnt - Counted(w)
    BY <1>8, <2>1 DEF n
  <2> QED BY <1>1, <2>2, <2>3, CountDown
<1>12. Waiting(u)
  <2>1. \A x \in Watcher : t.q.pending[x] # 0 /\ t.active[x] # 0 => u.active[x] # 0
    BY <1>6, <1>8
  <2> QED BY <1>1, <1>8, <2>1, WaitingActive
<1>13. Core(u)
  <2>1. Indexed(u)
    BY <1>1, <1>8 DEF SamePolls, Indexed
  <2> QED BY <1>1, <1>8, <1>9, <1>10, <1>11, <1>12, <2>1 DEF Core, Linked
<1>14. Extends(t, u, fd)
  <2>1. \A x \in Fd : u.anfds[x].reify = t.anfds[x].reify
    BY <1>5, <1>8
  <2> QED BY <1>1, <1>8, <2>1, ExtendsSame
<1>15. Core(r) /\ SameRest(u, r) /\ Extends(u, r, fd)
  BY <1>2, <1>3, <1>13, ChangeCore
<1>16. Onward(t, r)
  BY <1>8, <1>15 DEF SameRest, Onward
<1>17. Extends(t, r, fd)
  BY <1>1, <1>8, <1>14, <1>15, ExtendsTwice DEF Core
<1>18. ASSUME old # <<>>, old[1] = w PROVE FirstGone(t, r, fd)
  <2>1. new = SubSeq(old, 2, Len(old))
    BY <1>4, <1>18 DEF Lacks
  <2>2. \A x \in Fd : r.anfds[x].head = u.anfds[x].head
    BY <1>15 DEF SameRest, SameLinks
  <2> QED BY <1>3, <1>5, <1>8, <2>1, <2>2 DEF FirstGone, old
<1> QED BY <1>15, <1>16, <1>17, <1>18 DEF r, old

LEMMA IoStopCore ==
  ASSUME NEW t, Core(t), NEW w \in Watcher, kind[w] = "io"
  PROVE  /\ Core(ev_io_stop(t, w)) /\ Onward(t, ev_io_stop(t, w))
         /\ Extends(t, ev_io_stop(t, w), t.fd[w])
         /\ t.active[w] # 0 /\ t.anfds[t.fd[w]].head # <<>> /\ t.anfds[t.fd[w]].head[1] = w =>
              FirstGone(t, ev_io_stop(t, w), t.fd[w])
<1> DEFINE r == ev_io_stop(t, w)
           c == [t EXCEPT !.q = ClearPending(t.q, t.pri, w)]
<1>1. Core(c) /\ OnlyQueue(t, c) /\ c.q.pending[w] = 0
  BY ClearCore
<1>2. t.active[w] # 0 => r = Unlink(c, w)
  <2>1. c.active = t.active /\ c.fd = t.fd /\ c.anfds = t.anfds
    BY <1>1 DEF OnlyQueue, SameLinks
  <2> QED BY <2>1 DEF ev_io_stop, Unlink
<1>3. t.active[w] = 0 => r = c
  BY DEF ev_io_stop
<1> HIDE DEF r, c
<1>4. /\ c.anfds = t.anfds /\ c.active = t.active /\ c.fd = t.fd /\ c.fdchanges = t.fdchanges
      /\ Onward(t, c) /\ t \in Loop /\ c \in Loop
  BY <1>1 DEF OnlyQueue, SameLinks, Core
<1>5. Extends(t, c, t.fd[w])
  BY <1>4, ExtendsSame
<1>6. CASE t.active[w] = 0
  BY <1>1, <1>3, <1>4, <1>5, <1>6 DEF r
<1>7. CASE t.active[w] # 0
  <2>1. Core(r) /\ Onward(c, r) /\ Extends(c, r, t.fd[w])
    BY <1>1, <1>2, <1>4, <1>7, UnlinkCore
  <2>2. Onward(t, r)
    BY <1>4, <2>1 DEF Onward
  <2>3. Extends(t, r, t.fd[w])
    BY <1>4, <1>5, <2>1, ExtendsTwice DEF Core
  <2>4. ASSUME t.anfds[t.fd[w]].head # <<>>, t.anfds[t.fd[w]].head[1] = w
        PROVE  FirstGone(t, r, t.fd[w])
    <3>1. FirstGone(c, r, c.fd[w])
      BY <1>1, <1>2, <1>4, <1>7, <2>4, UnlinkCore
    <3> QED BY <1>4, <3>1 DEF FirstGone
  <2> QED BY <2>1, <2>2, <2>3, <2>4 DEF r
<1> QED BY <1>6, <1>7

-----------------------------------------------------------------------------
(* All watchers of an fd                                                   *)

LEMMA TailOfTail ==
  ASSUME NEW S, NEW a \in Seq(S), NEW k \in 1..Len(a), NEW b, b = SubSeq(a, k, Len(a))
  PROVE  b # <<>> /\ b[1] = a[k] /\ SubSeq(b, 2, Len(b)) = SubSeq(a, k + 1, Len(a))
<1> DEFINE n == Len(a)
           m == n + 1 - k
<1>1. n \in Nat /\ m \in Nat /\ m >= 1 /\ \A i \in 1..n : a[i] \in S
  OBVIOUS
<1>2. Len(b) = m /\ b \in Seq(S) /\ \A i \in 1..m : b[i] = a[i + k - 1]
  BY <1>1
<1>3. b # <<>> /\ b[1] = a[k]
  <2>1. 1 \in 1..m /\ 1 + k - 1 = k
    BY <1>1
  <2>2. b[1] = a[k]
    BY <1>2, <2>1
  <2>3. Len(b) # 0
    BY <1>1, <1>2
  <2> QED BY <1>2, <2>2, <2>3
<1>4. /\ SubSeq(b, 2, Len(b)) \in Seq(S) /\ Len(SubSeq(b, 2, Len(b))) = m - 1
      /\ \A i \in 1..m - 1 : SubSeq(b, 2, Len(b))[i] = b[i + 1]
  <2>1. 1 \in 1..Len(b)
    BY <1>1, <1>2
  <2>2. 1 + 1 = 2
    OBVIOUS
  <2> HIDE DEF m
  <2> QED BY <1>2, <2>1, <2>2, TailFrom, SMTT(60)
<1>5. /\ SubSeq(a, k + 1, n) \in Seq(S) /\ Len(SubSeq(a, k + 1, n)) = n - k
      /\ \A i \in 1..n - k : SubSeq(a, k + 1, n)[i] = a[i + k]
  BY TailFrom
<1>6. m - 1 = n - k
  BY <1>1
<1>7. ASSUME NEW i \in 1..n - k PROVE SubSeq(b, 2, Len(b))[i] = SubSeq(a, k + 1, n)[i]
  <2>1. i + 1 \in 1..m /\ i + 1 + k - 1 = i + k
    BY <1>1
  <2> QED BY <1>2, <1>4, <1>5, <1>6, <2>1
<1> DEFINE x == SubSeq(b, 2, Len(b))
           y == SubSeq(a, k + 1, n)
<1>8. x \in Seq(S) /\ y \in Seq(S) /\ Len(x) = Len(y) /\ \A i \in 1..Len(x) : x[i] = y[i]
  BY <1>4, <1>5, <1>6, <1>7
<1> HIDE DEF x, y
<1>9. x = y
  BY <1>8
<1> QED BY <1>3, <1>9 DEF x, y

\* What fd_kill does.
Killed(t, u, fd) ==
  /\ Core(u) /\ Onward(t, u) /\ Extends(t, u, fd) /\ u.anfds[fd].head = <<>>
  /\ \A x \in Fd : x # fd => u.anfds[x].head = t.anfds[x].head

LEMMA KillIs ==
  ASSUME NEW t, Core(t), NEW fd \in Fd
  PROVE  Killed(t, fd_kill(t, fd), fd)
<1> DEFINE ws == t.anfds[fd].head
           n  == Len(ws)
           J  == [k \in Nat |->
                    {u \in Loop : /\ Core(u) /\ Onward(t, u) /\ Extends(t, u, fd)
                                  /\ u.anfds[fd].head = SubSeq(ws, k + 1, n)
                                  /\ \A x \in Fd : x # fd => u.anfds[x].head = t.anfds[x].head}]
<1>1. t \in Loop /\ ws \in Seq(Watcher) /\ n \in Nat
  BY AnfdIs DEF Core
<1>2. t \in J[0]
  <2>1. SubSeq(ws, 0 + 1, n) = ws
    BY <1>1
  <2>2. Extends(t, t, fd)
    BY <1>1, ExtendsSame
  <2> HIDE DEF ws, n
  <2> QED BY <1>1, <2>1, <2>2 DEF Onward, ws
<1>3. ASSUME NEW k \in 1..n, NEW v \in J[k - 1] PROVE KillRound[<<v, ws[k]>>] \in J[k]
  <2> DEFINE w == ws[k]
             c == ev_io_stop(v, w)
             u == Feed(c, w, {"ERROR"} \cup Both)
  <2>1. k - 1 \in Nat /\ k \in Nat /\ k - 1 + 1 = k
    BY <1>1
  <2>2. /\ v \in Loop /\ Core(v) /\ Onward(t, v) /\ Extends(t, v, fd)
        /\ v.anfds[fd].head = SubSeq(ws, k, n)
        /\ \A x \in Fd : x # fd => v.anfds[x].head = t.anfds[x].head
    BY <1>3, <2>1
  <2> HIDE DEF J
  <2>3. w \in Watcher
    BY <1>1
  <2>4. /\ v.anfds[fd].head # <<>> /\ v.anfds[fd].head[1] = w
        /\ SubSeq(v.anfds[fd].head, 2, Len(v.anfds[fd].head)) = SubSeq(ws, k + 1, n)
    <3>1. k \in 1..Len(ws)
      OBVIOUS
    <3> DEFINE b == v.anfds[fd].head
    <3>2. b = SubSeq(ws, k, Len(ws))
      BY <2>2
    <3> HIDE DEF b, ws
    <3>3. b # <<>> /\ b[1] = ws[k] /\ SubSeq(b, 2, Len(b)) = SubSeq(ws, k + 1, Len(ws))
      BY <1>1, <3>1, <3>2, TailOfTail
    <3> QED BY <3>3 DEF b
  <2>5. v.active[w] # 0 /\ v.fd[w] = fd /\ kind[w] = "io"
    <3>1. 1 \in 1..Len(v.anfds[fd].head)
      BY <2>2, <2>4, AnfdIs
    <3> HIDE DEF w
    <3> QED BY <2>2, <2>4, <3>1, SMTT(60) DEF Core, Linked, Heads
  <2> HIDE DEF w, ws, n
  <2>6. Core(c) /\ Onward(v, c) /\ Extends(v, c, fd) /\ FirstGone(v, c, fd)
    BY <2>2, <2>3, <2>4, <2>5, IoStopCore
  <2> HIDE DEF c
  <2>7. Core(u) /\ OnlyQueue(c, u)
    <3>1. {"ERROR"} \cup Both \in SUBSET Revents /\ "ERROR" \in {"ERROR"} \cup Both
      BY DEF Both, Revents
    <3> QED BY <2>3, <2>5, <2>6, <3>1, FeedCore
  <2> HIDE DEF u
  <2>8. u \in Loop /\ c \in Loop /\ Onward(t, u) /\ u.anfds = c.anfds /\ u.fdchanges = c.fdchanges
    BY <2>2, <2>6, <2>7 DEF Core, Onward, OnlyQueue
  <2>9. Extends(t, u, fd)
    <3>1. Extends(c, u, fd)
      BY <2>8, ExtendsSame
    <3>2. Extends(v, u, fd)
      BY <2>2, <2>6, <2>8, <3>1, ExtendsTwice
    <3> QED BY <1>1, <2>2, <2>8, <3>2, ExtendsTwice
  <2>10. /\ u.anfds[fd].head = SubSeq(ws, k + 1, n)
         /\ \A x \in Fd : x # fd => u.anfds[x].head = t.anfds[x].head
    BY <2>2, <2>4, <2>6, <2>8 DEF FirstGone
  <2>11. u \in J[k]
    BY <2>1, <2>7, <2>8, <2>9, <2>10 DEF J
  <2>12. KillRound[<<v, w>>] = u
    BY <2>2, <2>3 DEF KillRound, u, c
  <2> QED BY <2>11, <2>12 DEF w
<1>4. fd_kill(t, fd) = Along(KillRound, t, ws)
  BY DEF fd_kill
<1>5. Along(KillRound, t, ws) \in J[n]
  <2> HIDE DEF J, ws
  <2> QED BY <1>1, <1>2, <1>3, AlongReaches
<1>6. SubSeq(ws, n + 1, n) = <<>>
  BY <1>1
<1> HIDE DEF ws, n
<1> QED BY <1>1, <1>4, <1>5, <1>6 DEF Killed

LEMMA TellCore ==
  ASSUME NEW t, Core(t), NEW fd \in Fd, NEW revents \in SUBSET Both
  PROVE  Core(fd_event(t, fd, revents)) /\ OnlyQueue(t, fd_event(t, fd, revents))
<1> DEFINE ws == t.anfds[fd].head
           J  == {u \in Loop : Core(u) /\ OnlyQueue(t, u)}
<1>1. t \in Loop /\ ws \in Seq(Watcher) /\ Len(ws) \in Nat
  BY AnfdIs DEF Core
<1>2. OnlyQueue(t, t)
  BY DEF OnlyQueue, SameLinks, SamePolls, Onward
<1>3. t \in J
  BY <1>1, <1>2
<1>4. ASSUME NEW k \in 1..Len(ws), NEW v \in J PROVE TellRound(revents)[<<v, ws[k]>>] \in J
  <2> DEFINE w == ws[k]
             e == v.events[w] \cap revents
             u == Feed(v, w, e)
  <2>1. v \in Loop /\ Core(v) /\ OnlyQueue(t, v) /\ w \in Watcher
    BY <1>1
  <2>2. TellRound(revents)[<<v, w>>] = IF e = {} THEN v ELSE u
    BY <2>1 DEF TellRound
  <2>3. v.active[w] # 0 /\ kind[w] = "io"
    <3>1. v.anfds[fd].head = ws
      BY <2>1 DEF OnlyQueue
    <3> QED BY <2>1, <3>1, SMTT(60) DEF Core, Linked, Heads
  <2>4. Core(u) /\ OnlyQueue(v, u)
    <3>1. e \in SUBSET Revents /\ e \subseteq v.events[w]
      BY DEF Both, Revents
    <3> HIDE DEF w, e
    <3> QED BY <2>1, <2>3, <3>1, FeedCore
  <2> HIDE DEF u
  <2>5. OnlyQueue(t, u)
    BY <2>1, <2>4 DEF OnlyQueue, SameLinks, SamePolls, Onward
  <2>6. u \in J
    BY <2>4, <2>5 DEF Core
  <2> QED BY <1>4, <2>2, <2>6
<1> HIDE DEF J, ws
<1>5. Along(TellRound(revents), t, ws) \in J
  BY <1>1, <1>3, <1>4, AlongKeeps
<1>6. fd_event(t, fd, revents) = t \/ fd_event(t, fd, revents) \in J
  BY <1>5 DEF fd_event, fd_event_nocheck, ws
<1> QED BY <1>2, <1>6 DEF J

-----------------------------------------------------------------------------
(* backend_modify                                                          *)

\* Who waits for what, and fdchanges, are as they were.
Calm(t, u) ==
  /\ Onward(t, u) /\ u.fdchanges = t.fdchanges
  /\ \A fd \in Fd : u.anfds[fd].reify = t.anfds[fd].reify /\ u.anfds[fd].head = t.anfds[fd].head

Modified(t, u, fd) == Core(u) /\ (Calm(t, u) \/ Killed(t, u, fd))

BackendTo(t, u, a, p, i, e, r) ==
  /\ u \in Loop /\ u.anfds = a /\ u.polls = p /\ u.pollidxs = i /\ u.eperms = e /\ u.reg = r
  /\ u.fdchanges = t.fdchanges /\ u.q = t.q /\ u.file = t.file
  /\ SameLinks(t, u) /\ Onward(t, u)

BackendSet(t, a, v, p, i, e, c, r, b) ==
  [t EXCEPT !.anfds = a, !.vec = v, !.polls = p, !.pollidxs = i, !.eperms = e, !.changes = c,
            !.reg = r, !.postfork = b]

IsFlag(b) == b \in BOOLEAN

LEMMA WithBackend ==
  ASSUME NEW t \in Loop, NEW a \in [Fd -> ANFD], NEW v \in [Fd -> SUBSET Both],
         NEW p \in Seq(Pollfd), NEW i \in [Fd -> Nat], NEW e \in Seq(Fd), NEW c \in Seq(Change),
         NEW r \in SUBSET Registration, NEW b, IsFlag(b),
         \A fd \in Fd : a[fd].head = t.anfds[fd].head,
         NEW u, u = BackendSet(t, a, v, p, i, e, c, r, b)
  PROVE  BackendTo(t, u, a, p, i, e, r)
<1> USE DEF BackendSet, IsFlag
<1>1. u \in Loop
  BY ZenonT(60) DEF Loop
<1>2. u.anfds = a /\ u.polls = p /\ u.pollidxs = i /\ u.eperms = e /\ u.reg = r
  BY DEF Loop
<1>3. u.fdchanges = t.fdchanges /\ u.q = t.q /\ u.file = t.file /\ Onward(t, u)
  BY DEF Loop, Onward
<1>4. /\ u.pri = t.pri /\ u.active = t.active /\ u.activecnt = t.activecnt
      /\ u.fd = t.fd /\ u.events = t.events /\ u.arrays = t.arrays /\ u.childs = t.childs
  BY DEF Loop
<1>5. SameLinks(t, u)
  BY <1>2, <1>4 DEF SameLinks
<1> QED BY <1>1, <1>2, <1>3, <1>5 DEF BackendTo

LEMMA BackendCore ==
  ASSUME NEW t, Core(t), NEW u, NEW a \in [Fd -> ANFD], NEW p, NEW i, NEW e, NEW r,
         BackendTo(t, u, a, p, i, e, r), IndexedBy(p, i), IsFiniteSet(r),
         \A fd \in Fd : a[fd].reify = t.anfds[fd].reify
  PROVE  Core(u) /\ Calm(t, u)
<1>1. Indexed(u) /\ SameLinks(t, u) /\ u.q = t.q /\ u \in Loop
  BY DEF BackendTo, Indexed
<1>2. Linked(u) /\ Waiting(u)
  BY <1>1, LinksKept, WaitingKept DEF Core
<1>3. Core(u)
  BY <1>1, <1>2 DEF Core, BackendTo
<1>4. Calm(t, u)
  BY DEF BackendTo, Calm, SameLinks
<1> QED BY <1>3, <1>4

\* anfds and the kernel's registrations
EpollSet(t, fd, m, g, e, r, b) ==
  [t EXCEPT !.anfds = [t.anfds EXCEPT ![fd] = [t.anfds[fd] EXCEPT !.emask = m, !.egen = g]],
            !.eperms = e, !.reg = r, !.postfork = b]

LEMMA WithEpoll ==
  ASSUME NEW t, Core(t), NEW fd \in Fd, NEW m \in SUBSET (Both \cup {"EPERM"}), NEW g \in Nat,
         NEW e \in Seq(Fd), NEW r \in SUBSET Registration, IsFiniteSet(r), NEW b, IsFlag(b),
         NEW u, u = EpollSet(t, fd, m, g, e, r, b)
  PROVE  Core(u) /\ Calm(t, u) /\ u.eperms = e /\ u.file = t.file
<1> DEFINE a == [t.anfds EXCEPT ![fd] = [t.anfds[fd] EXCEPT !.emask = m, !.egen = g]]
<1>1. t \in Loop /\ t.anfds \in [Fd -> ANFD] /\ t.anfds[fd] \in ANFD
  BY Typed DEF Core
<1>2. /\ a \in [Fd -> ANFD]
      /\ \A x \in Fd : a[x].head = t.anfds[x].head /\ a[x].reify = t.anfds[x].reify
  <2>1. [t.anfds[fd] EXCEPT !.emask = m, !.egen = g] \in ANFD
    BY <1>1 DEF ANFD
  <2>2. a \in [Fd -> ANFD]
    BY <1>1, <2>1
  <2>3. a[fd].head = t.anfds[fd].head /\ a[fd].reify = t.anfds[fd].reify
    BY <1>1 DEF ANFD
  <2>4. \A x \in Fd : x # fd => a[x] = t.anfds[x]
    BY <1>1
  <2> QED BY <2>2, <2>3, <2>4
<1>3. u = BackendSet(t, a, t.vec, t.polls, t.pollidxs, e, t.changes, r, b)
  <2>1. u = [t EXCEPT !.anfds = a, !.eperms = e, !.reg = r, !.postfork = b]
    BY DEF EpollSet
  <2> HIDE DEF a
  <2> QED BY <1>1, <2>1, ZenonT(60) DEF Loop, BackendSet
<1> HIDE DEF a
<1>4. BackendTo(t, u, a, t.polls, t.pollidxs, e, r)
  <2>1. /\ t.vec \in [Fd -> SUBSET Both] /\ t.polls \in Seq(Pollfd) /\ t.pollidxs \in [Fd -> Nat]
        /\ t.changes \in Seq(Change)
    BY <1>1, Typed
  <2>2. a \in [Fd -> ANFD] /\ \A x \in Fd : a[x].head = t.anfds[x].head
    BY <1>2
  <2>3. t \in Loop /\ e \in Seq(Fd) /\ r \in SUBSET Registration /\ IsFlag(b)
    BY <1>1
  <2> QED BY <1>3, <2>1, <2>2, <2>3, WithBackend
<1>5. Core(u) /\ Calm(t, u)
  BY <1>2, <1>4, BackendCore DEF Core, Indexed
<1> QED BY <1>4, <1>5 DEF BackendTo

LEMMA WithRegs ==
  ASSUME NEW t, Core(t), NEW v \in [Fd -> SUBSET Both], NEW e \in Seq(Fd), NEW c \in Seq(Change),
         NEW r \in SUBSET Registration, IsFiniteSet(r), NEW b, IsFlag(b),
         NEW u, u = BackendSet(t, t.anfds, v, t.polls, t.pollidxs, e, c, r, b)
  PROVE  /\ Core(u) /\ Calm(t, u) /\ u.eperms = e /\ u.file = t.file /\ u.anfds = t.anfds
         /\ u.polls = t.polls /\ u.reg = r
<1>1. /\ t \in Loop /\ t.anfds \in [Fd -> ANFD] /\ t.polls \in Seq(Pollfd) /\ t.pollidxs \in [Fd -> Nat]
      /\ Indexed(t)
  BY Typed DEF Core
<1>2. BackendTo(t, u, t.anfds, t.polls, t.pollidxs, e, r)
  BY <1>1, WithBackend
<1>3. Core(u) /\ Calm(t, u)
  BY <1>1, <1>2, BackendCore DEF Indexed
<1> QED BY <1>2, <1>3 DEF BackendTo

LEMMA PostforkIs ==
  ASSUME NEW t \in Loop
  PROVE  IsFlag(t.postfork)
BY DEF Loop, IsFlag

LEMMA Shortened ==
  ASSUME NEW S, NEW ps \in Seq(S), Len(ps) # 0
  PROVE  /\ SubSeq(ps, 1, Len(ps) - 1) \in Seq(S) /\ Len(SubSeq(ps, 1, Len(ps) - 1)) = Len(ps) - 1
         /\ \A i \in 1..Len(ps) - 1 : SubSeq(ps, 1, Len(ps) - 1)[i] = ps[i]
<1> DEFINE m == Len(ps) - 1
<1>1. m \in Nat /\ m <= Len(ps) /\ Len(ps) \in Nat
  OBVIOUS
<1> HIDE DEF m
<1>2. Len(SubSeq(ps, 1, m)) = m
  BY <1>1
<1>3. SubSeq(ps, 1, m) \in Seq(S)
  BY <1>1
<1>4. \A i \in 1..m : SubSeq(ps, 1, m)[i] = ps[i]
  BY <1>1
<1> QED BY <1>2, <1>3, <1>4 DEF m

LEMMA PollfdIs ==
  ASSUME NEW ps \in Seq(Pollfd)
  PROVE  Len(ps) \in Nat /\ \A i \in 1..Len(ps) : ps[i] \in Pollfd /\ ps[i].fd \in Fd
<1>1. \A i \in 1..Len(ps) : ps[i] \in Pollfd
  OBVIOUS
<1>2. \A x \in Pollfd : x.fd \in Fd
  BY DEF Pollfd
<1> QED BY <1>1, <1>2

\* A pollfd more, a pollfd changed.
LEMMA PollAdded ==
  ASSUME NEW ps \in Seq(Pollfd), NEW idxs \in [Fd -> Nat], IndexedBy(ps, idxs),
         NEW fd \in Fd, idxs[fd] = 0, NEW x \in Pollfd, x.fd = fd
  PROVE  IndexedBy(Append(ps, x), [idxs EXCEPT ![fd] = Len(ps) + 1])
<1> DEFINE n == Len(ps)
           new == Append(ps, x)
           is == [idxs EXCEPT ![fd] = n + 1]
<1>1. n \in Nat /\ Len(new) = n + 1 /\ new[n + 1] = x /\ \A i \in 1..n : new[i] = ps[i] /\ ps[i].fd \in Fd
  <2>1. n \in Nat /\ Len(new) = n + 1 /\ new[n + 1] = x /\ \A i \in 1..n : new[i] = ps[i]
    OBVIOUS
  <2> QED BY <2>1, PollfdIs
<1>2. is[fd] = n + 1 /\ \A y \in Fd : y # fd => is[y] = idxs[y]
  OBVIOUS
<1>3. \A i \in 1..n : ps[i].fd # fd /\ idxs[ps[i].fd] = i
  BY DEF IndexedBy
<1> HIDE DEF n, new, is
<1>4. ASSUME NEW y \in Fd, is[y] # 0 PROVE is[y] <= Len(new) /\ new[is[y]].fd = y
  <2>1. CASE y = fd
    BY <1>1, <1>2, <2>1
  <2>2. CASE y # fd
    <3>1. idxs[y] # 0 /\ idxs[y] <= n /\ ps[idxs[y]].fd = y /\ idxs[y] \in Nat
      BY <1>2, <1>4, <2>2 DEF IndexedBy, n
    <3> QED BY <1>1, <1>2, <2>2, <3>1
  <2> QED BY <2>1, <2>2
<1>5. ASSUME NEW i \in 1..Len(new) PROVE is[new[i].fd] = i
  BY <1>1, <1>2, <1>3
<1> QED BY <1>4, <1>5 DEF IndexedBy, new, is, n

Rewatched(ps, k, events) == [ps EXCEPT ![k].events = events]
Shorter(ps) == SubSeq(ps, 1, Len(ps) - 1)

LEMMA PollChanged ==
  ASSUME NEW ps \in Seq(Pollfd), NEW idxs \in [Fd -> Nat], IndexedBy(ps, idxs),
         NEW fd \in Fd, idxs[fd] # 0, NEW events \in SUBSET Both,
         NEW k, k = idxs[fd], NEW new, new = Rewatched(ps, k, events)
  PROVE  new \in Seq(Pollfd) /\ IndexedBy(new, idxs)
<1>1. k \in 1..Len(ps) /\ ps[k] \in Pollfd /\ Len(ps) \in Nat
  BY DEF IndexedBy
<1>2. [ps[k] EXCEPT !.events = events] \in Pollfd /\ [ps[k] EXCEPT !.events = events].fd = ps[k].fd
  BY <1>1 DEF Pollfd
<1> DEFINE x == [ps[k] EXCEPT !.events = events]
<1> HIDE DEF x
<1>3. [ps EXCEPT ![k] = x] \in Seq(Pollfd)
  BY <1>1, <1>2 DEF x
<1>4. Len([ps EXCEPT ![k] = x]) = Len(ps)
  BY <1>1
<1>5. \A i \in 1..Len(ps) : [ps EXCEPT ![k] = x][i].fd = ps[i].fd
  BY <1>1, <1>2 DEF x
<1>6. new = [ps EXCEPT ![k] = x]
  BY DEF x, Rewatched
<1>7. IndexedBy([ps EXCEPT ![k] = x], idxs)
  <2> DEFINE y == [ps EXCEPT ![k] = x]
  <2>1. Len(y) = Len(ps) /\ \A i \in 1..Len(ps) : y[i].fd = ps[i].fd
    BY <1>4, <1>5
  <2> HIDE DEF y
  <2> QED BY <1>1, <2>1 DEF IndexedBy, y
<1> QED BY <1>3, <1>6, <1>7

\* The pollfd of fd goes, the last one takes its place.
LEMMA PollRemoved ==
  ASSUME NEW ps \in Seq(Pollfd), NEW idxs \in [Fd -> Nat], IndexedBy(ps, idxs),
         NEW fd \in Fd, NEW k, k = idxs[fd], k # 0, NEW n, n = Len(ps), k # n
  PROVE  /\ SubSeq([ps EXCEPT ![k] = ps[n]], 1, n - 1) \in Seq(Pollfd)
         /\ [[idxs EXCEPT ![fd] = 0] EXCEPT ![ps[n].fd] = k] \in [Fd -> Nat]
         /\ IndexedBy(SubSeq([ps EXCEPT ![k] = ps[n]], 1, n - 1),
                      [[idxs EXCEPT ![fd] = 0] EXCEPT ![ps[n].fd] = k])
<1> DEFINE moved == [ps EXCEPT ![k] = ps[n]]
           new == SubSeq(moved, 1, n - 1)
           l   == ps[n].fd
           is  == [[idxs EXCEPT ![fd] = 0] EXCEPT ![l] = k]
<1>1. n \in Nat /\ k \in 1..n - 1 /\ ps[k].fd = fd
  BY DEF IndexedBy
<1>2. n \in 1..n /\ \A i \in 1..n : ps[i] \in Pollfd /\ ps[i].fd \in Fd /\ idxs[ps[i].fd] = i
  BY <1>1, PollfdIs DEF IndexedBy
<1>3. l \in Fd /\ l # fd /\ idxs[l] = n
  BY <1>1, <1>2
<1> HIDE DEF l
<1>4. moved \in Seq(Pollfd) /\ Len(moved) = n /\ moved[k] = ps[n] /\ \A i \in 1..n : i # k => moved[i] = ps[i]
  BY <1>1, <1>2
<1> HIDE DEF moved
<1>5. new \in Seq(Pollfd) /\ Len(new) = n - 1 /\ \A i \in 1..n - 1 : new[i] = moved[i]
  BY <1>1, <1>4, Shortened
<1>6. /\ is \in [Fd -> Nat] /\ is[l] = k /\ is[fd] = 0
      /\ \A y \in Fd : y # fd /\ y # l => is[y] = idxs[y]
  BY <1>1, <1>3
<1> HIDE DEF new, is
<1>7. ASSUME NEW y \in Fd, is[y] # 0 PROVE is[y] <= Len(new) /\ new[is[y]].fd = y
  <2>1. CASE y = l
    BY <1>1, <1>4, <1>5, <1>6, <2>1 DEF l
  <2>2. CASE y # l
    <3>1. y # fd /\ is[y] = idxs[y] /\ idxs[y] # 0
      BY <1>6, <1>7, <2>2
    <3>2. idxs[y] <= n /\ ps[idxs[y]].fd = y /\ idxs[y] \in Nat
      BY <3>1 DEF IndexedBy
    <3>3. idxs[y] # n /\ idxs[y] # k
      BY <1>1, <2>2, <3>1, <3>2 DEF l
    <3>4. idxs[y] \in 1..n - 1 /\ idxs[y] \in 1..n
      BY <1>1, <3>1, <3>2, <3>3
    <3>5. new[idxs[y]] = ps[idxs[y]]
      BY <1>4, <1>5, <3>3, <3>4
    <3> QED BY <1>5, <3>1, <3>2, <3>4, <3>5
  <2> QED BY <2>1, <2>2
<1>8. ASSUME NEW i \in 1..n - 1 PROVE is[new[i].fd] = i
  <2>1. CASE i = k
    BY <1>4, <1>5, <1>6, <2>1 DEF l
  <2>2. CASE i # k
    <3>1. i \in 1..n /\ i # n
      BY <1>1
    <3>2. new[i] = ps[i] /\ ps[i].fd \in Fd /\ idxs[ps[i].fd] = i
      BY <1>2, <1>4, <1>5, <2>2, <3>1
    <3>3. ps[i].fd # l /\ ps[i].fd # fd
      BY <1>3, <2>2, <3>1, <3>2
    <3> QED BY <1>6, <3>2, <3>3
  <2> QED BY <2>1, <2>2
<1> QED BY <1>5, <1>6, <1>7, <1>8 DEF IndexedBy, new, is, moved, l

LEMMA PollLast ==
  ASSUME NEW ps \in Seq(Pollfd), NEW idxs \in [Fd -> Nat], IndexedBy(ps, idxs),
         NEW fd \in Fd, idxs[fd] # 0, NEW n, n = Len(ps), idxs[fd] = n,
         NEW new, new = Shorter(ps), NEW is, is = [idxs EXCEPT ![fd] = 0]
  PROVE  new \in Seq(Pollfd) /\ IndexedBy(new, is)
<1>1. n \in Nat /\ n # 0 /\ \A i \in 1..n : ps[i].fd \in Fd /\ idxs[ps[i].fd] = i
  <2>1. n \in Nat /\ n # 0 /\ \A i \in 1..n : ps[i].fd \in Fd
    BY PollfdIs
  <2> QED BY <2>1 DEF IndexedBy
<1>2. new \in Seq(Pollfd) /\ Len(new) = n - 1 /\ \A i \in 1..n - 1 : new[i] = ps[i]
  BY <1>1, Shortened DEF Shorter
<1>3. is[fd] = 0 /\ \A y \in Fd : y # fd => is[y] = idxs[y]
  OBVIOUS
<1>4. ASSUME NEW y \in Fd, is[y] # 0 PROVE is[y] <= Len(new) /\ new[is[y]].fd = y
  <2>1. y # fd /\ is[y] = idxs[y] /\ idxs[y] # 0
    BY <1>3, <1>4
  <2>2. idxs[y] <= n /\ ps[idxs[y]].fd = y /\ idxs[y] \in Nat
    BY <2>1 DEF IndexedBy
  <2>3. idxs[y] # n
    <3>1. ps[n].fd = fd
      BY DEF IndexedBy
    <3> QED BY <2>1, <2>2, <3>1
  <2>4. idxs[y] \in 1..n - 1
    BY <1>1, <2>1, <2>2, <2>3
  <2> QED BY <1>2, <2>1, <2>2, <2>4, SMTT(60)
<1>5. ASSUME NEW i \in 1..n - 1 PROVE is[new[i].fd] = i
  <2>1. i \in 1..n /\ i # n
    BY <1>1
  <2>2. ps[i].fd # fd
    BY <1>1, <2>1
  <2> QED BY <1>1, <1>2, <1>3, <2>1, <2>2
<1> QED BY <1>2, <1>4, <1>5 DEF IndexedBy

LEMMA PollModifyCore ==
  ASSUME NEW t, Core(t), NEW fd \in Fd, NEW oev \in SUBSET Both, NEW nev \in SUBSET Both
  PROVE  Core(poll_modify(t, fd, oev, nev)) /\ Calm(t, poll_modify(t, fd, oev, nev))
<1> DEFINE r == poll_modify(t, fd, oev, nev)
<1>1. /\ t \in Loop /\ t.polls \in Seq(Pollfd) /\ t.pollidxs \in [Fd -> Nat]
      /\ IndexedBy(t.polls, t.pollidxs) /\ Len(t.polls) \in Nat /\ IsFiniteSet(t.reg)
  BY Typed DEF Core, Indexed
<1>2. ASSUME NEW p \in Seq(Pollfd), NEW i \in [Fd -> Nat], IndexedBy(p, i),
             r = [t EXCEPT !.polls = p, !.pollidxs = i]
      PROVE  Core(r) /\ Calm(t, r)
  <2> HIDE DEF r
  <2>1. r = BackendSet(t, t.anfds, t.vec, p, i, t.eperms, t.changes, t.reg, t.postfork)
    BY <1>1, <1>2 DEF Loop, BackendSet
  <2>2. /\ t.vec \in [Fd -> SUBSET Both] /\ t.changes \in Seq(Change) /\ t.anfds \in [Fd -> ANFD]
        /\ t.eperms \in Seq(Fd) /\ t.reg \in SUBSET Registration /\ IsFlag(t.postfork)
    <3>1. IsFlag(t.postfork)
      BY <1>1, PostforkIs
    <3> QED BY <1>1, <3>1, Typed
  <2>3. BackendTo(t, r, t.anfds, p, i, t.eperms, t.reg)
    BY <1>1, <2>1, <2>2, WithBackend
  <2> QED BY <1>1, <1>2, <2>2, <2>3, BackendCore
<1>3. CASE oev = nev
  <2>1. r = t
    BY <1>3 DEF poll_modify
  <2> QED BY <2>1 DEF Calm, Onward
<1>4. CASE oev # nev /\ t.pollidxs[fd] = 0
  <2> DEFINE n == Len(t.polls)
             x == [fd |-> fd, events |-> nev]
             p == Append(t.polls, x)
             i == [t.pollidxs EXCEPT ![fd] = n + 1]
  <2>1. x \in Pollfd /\ x.fd = fd
    BY DEF Pollfd
  <2>2. p \in Seq(Pollfd) /\ Len(p) = n + 1 /\ i \in [Fd -> Nat] /\ i[fd] = n + 1
    BY <1>1, <2>1
  <2>3. IndexedBy(p, i)
    BY <1>1, <1>4, <2>1, PollAdded
  <2>4. CASE nev # {}
    <3>1. r = [t EXCEPT !.polls = p, !.pollidxs = i]
      BY <1>1, <1>4, <2>4 DEF poll_modify, Loop
    <3> HIDE DEF p, i, r
    <3> QED BY <1>2, <2>2, <2>3, <3>1 DEF r
  <2>5. CASE nev = {}
    <3> DEFINE q == SubSeq(p, 1, n)
               j == [i EXCEPT ![fd] = 0]
    <3>1. r = [t EXCEPT !.polls = q, !.pollidxs = j]
      <4>1. ~(n + 1 < n + 1) /\ n + 1 - 1 = n /\ Len(p) = n + 1
        BY <1>1, <2>2
      <4>2. [t.pollidxs EXCEPT ![fd] = 0] = j
        BY <1>1
      <4> HIDE DEF p, n, j
      <4>3. r = [t EXCEPT !.polls = SubSeq(p, 1, n), !.pollidxs[fd] = 0]
        BY <1>4, <2>5, <4>1 DEF poll_modify, p, n, x
      <4>4. [t EXCEPT !.polls = SubSeq(p, 1, n), !.pollidxs[fd] = 0] =
              [t EXCEPT !.polls = SubSeq(p, 1, n), !.pollidxs = j]
        BY <1>1, <4>2 DEF Loop
      <4> QED BY <4>3, <4>4
    <3>2. q \in Seq(Pollfd) /\ IndexedBy(q, j)
      <4>1. n \in Nat /\ n + 1 = Len(p) /\ i[fd] # 0 /\ i[fd] = n + 1 /\ n + 1 - 1 = n
        BY <1>1, <2>2
      <4> HIDE DEF p, i, n
      <4> HIDE DEF q, j
      <4>2. q = Shorter(p) /\ j = [i EXCEPT ![fd] = 0]
        BY <4>1 DEF q, j, Shorter
      <4> QED BY <2>2, <2>3, <4>1, <4>2, PollLast
    <3>3. j \in [Fd -> Nat]
      BY <2>2
    <3> HIDE DEF q, j, r
    <3> QED BY <1>2, <3>1, <3>2, <3>3 DEF r
  <2> QED BY <2>4, <2>5
<1>5. CASE oev # nev /\ t.pollidxs[fd] # 0
  <2> DEFINE k == t.pollidxs[fd]
             p == [t.polls EXCEPT ![k].events = nev]
             n == Len(p)
  <2>1. /\ p \in Seq(Pollfd) /\ n = Len(t.polls) /\ IndexedBy(p, t.pollidxs)
    <3> DEFINE x == t.polls
               y == t.pollidxs
    <3>1. x \in Seq(Pollfd) /\ y \in [Fd -> Nat] /\ IndexedBy(x, y) /\ y[fd] # 0
      BY <1>1, <1>5
    <3> HIDE DEF x, y
    <3> DEFINE z == [x EXCEPT ![k].events = nev]
    <3>2. z = Rewatched(x, k, nev) /\ k = y[fd]
      BY DEF Rewatched, y
    <3> HIDE DEF k
    <3> HIDE DEF z
    <3>3. z \in Seq(Pollfd) /\ IndexedBy(z, y)
      BY <3>1, <3>2, PollChanged
    <3>4. Len(z) = Len(x)
      BY <3>1 DEF z
    <3> QED BY <3>2, <3>3, <3>4 DEF x, y, z, k
  <2>2. k <= n /\ k \in Nat
    <3> HIDE DEF p, n
    <3> QED BY <1>1, <1>5, <2>1 DEF IndexedBy
  <2>3. r = IF nev # {} THEN [t EXCEPT !.polls = p, !.pollidxs[fd] = k]
            ELSE IF k < n
              THEN [t EXCEPT !.polls = SubSeq([p EXCEPT ![k] = p[n]], 1, n - 1),
                             !.pollidxs = [t.pollidxs EXCEPT ![fd] = 0, ![p[n].fd] = k]]
            ELSE [t EXCEPT !.polls = SubSeq(p, 1, n - 1), !.pollidxs[fd] = 0]
    BY <1>5 DEF poll_modify
  <2> HIDE DEF p
  <2>4. CASE nev # {}
    <3>1. [t EXCEPT !.polls = p, !.pollidxs[fd] = k] = [t EXCEPT !.polls = p, !.pollidxs = t.pollidxs]
      BY <1>1 DEF Loop
    <3>2. r = [t EXCEPT !.polls = p, !.pollidxs = t.pollidxs]
      BY <2>3, <2>4, <3>1
    <3> HIDE DEF r
    <3> QED BY <1>1, <1>2, <2>1, <3>2 DEF r
  <2>5. CASE nev = {} /\ k < n
    <3> DEFINE q == SubSeq([p EXCEPT ![k] = p[n]], 1, n - 1)
               j == [[t.pollidxs EXCEPT ![fd] = 0] EXCEPT ![p[n].fd] = k]
    <3>1. r = [t EXCEPT !.polls = q, !.pollidxs = j]
      BY <2>3, <2>5
    <3>2. q \in Seq(Pollfd) /\ j \in [Fd -> Nat] /\ IndexedBy(q, j)
      <4>1. k # n
        BY <2>2, <2>5
      <4> HIDE DEF n, k
      <4>2. n = Len(p) /\ k = t.pollidxs[fd] /\ k # 0
        BY <1>5 DEF n, k
      <4> QED BY <1>1, <2>1, <4>1, <4>2, PollRemoved
    <3> HIDE DEF q, j, r
    <3> QED BY <1>2, <3>1, <3>2 DEF r
  <2>6. CASE nev = {} /\ ~(k < n)
    <3> DEFINE q == SubSeq(p, 1, n - 1)
               j == [t.pollidxs EXCEPT ![fd] = 0]
    <3>0. n \in Nat /\ k = n
      BY <1>1, <2>1, <2>2, <2>6
    <3>1. r = [t EXCEPT !.polls = q, !.pollidxs = j]
      <4>1. r = [t EXCEPT !.polls = q, !.pollidxs[fd] = 0]
        BY <2>3, <2>6
      <4> HIDE DEF r, q
      <4> QED BY <1>1, <4>1 DEF Loop
    <3>2. q \in Seq(Pollfd) /\ j \in [Fd -> Nat] /\ IndexedBy(q, j)
      <4>1. j \in [Fd -> Nat]
        BY <1>1
      <4> HIDE DEF n
      <4>2. n = Len(p)
        BY DEF n
      <4> HIDE DEF q, j
      <4>3. q = Shorter(p) /\ j = [t.pollidxs EXCEPT ![fd] = 0]
        BY <4>2 DEF q, j, Shorter
      <4> QED BY <1>1, <1>5, <2>1, <3>0, <4>1, <4>2, <4>3, PollLast
    <3> HIDE DEF q, j, r
    <3> QED BY <1>2, <3>1, <3>2 DEF r
  <2> QED BY <2>4, <2>5, <2>6
<1> QED BY <1>3, <1>4, <1>5

LEMMA CalmKilled ==
  ASSUME NEW t, Core(t), NEW u, Core(u), Calm(t, u), NEW v, NEW fd, Killed(u, v, fd)
  PROVE  Killed(t, v, fd)
<1>1. t \in Loop /\ u \in Loop /\ v \in Loop
  BY DEF Core, Killed
<1>2. Extends(t, u, fd)
  BY <1>1, ExtendsSame DEF Calm
<1>3. Extends(t, v, fd)
  BY <1>1, <1>2, ExtendsTwice DEF Killed
<1> QED BY <1>3 DEF Killed, Calm, Onward

LEMMA CalmSelf ==
  ASSUME NEW t
  PROVE  Calm(t, t)
BY DEF Calm, Onward

LEMMA EpollModifyIs ==
  ASSUME NEW t, Core(t), NEW fd \in Fd, NEW oev \in SUBSET Both, NEW nev \in SUBSET Both
  PROVE  /\ Modified(t, epoll_modify(t, fd, oev, nev), fd)
         /\ nev = {} => Calm(t, epoll_modify(t, fd, oev, nev))
<1> DEFINE r     == epoll_modify(t, fd, oev, nev)
           old   == t.anfds[fd].emask
           gen   == t.anfds[fd].egen + 1
           tried == [t EXCEPT !.anfds[fd].emask = nev]
           error == epoll_error(t, fd, oev # {} /\ old # nev)
           perms == IF "EPERM" \in old THEN t.eperms ELSE Append(t.eperms, fd)
           rec   == [fd |-> fd, file |-> t.file[fd], mask |-> nev, gen |-> gen]
           regs  == (t.reg \ Registered(t, fd)) \cup {rec}
<1>1. /\ t \in Loop /\ IsFiniteSet(t.reg) /\ t.reg \in SUBSET Registration /\ t.eperms \in Seq(Fd)
      /\ IsFlag(t.postfork) /\ t.anfds \in [Fd -> ANFD] /\ t.file[fd] \in Nat
  BY Typed, PostforkIs DEF Core
<1>2. /\ old \in SUBSET (Both \cup {"EPERM"}) /\ t.anfds[fd].egen \in Nat /\ gen \in Nat
      /\ t.anfds[fd] \in ANFD
  BY <1>1, AnfdIs
<1>3. nev \in SUBSET (Both \cup {"EPERM"}) /\ {"EPERM"} \in SUBSET (Both \cup {"EPERM"})
  OBVIOUS
<1>4. perms \in Seq(Fd)
  BY <1>1
<1>5. regs \in SUBSET Registration /\ IsFiniteSet(regs)
  <2>1. rec \in Registration
    BY <1>1, <1>2 DEF Registration
  <2> HIDE DEF rec
  <2>2. IsFiniteSet(t.reg \ Registered(t, fd))
    BY <1>1, FS_Subset
  <2>3. IsFiniteSet((t.reg \ Registered(t, fd)) \cup {rec})
    BY <2>2, FS_AddElement
  <2> QED BY <1>1, <2>1, <2>3
<1>6. tried = EpollSet(t, fd, nev, t.anfds[fd].egen, t.eperms, t.reg, t.postfork)
  BY <1>1, <1>2, ZenonT(60) DEF EpollSet, Loop, ANFD
<1>7. Core(tried) /\ Calm(t, tried)
  <2> HIDE DEF tried
  <2> QED BY <1>1, <1>2, <1>3, <1>6, WithEpoll
<1>8. CASE nev = {}
  <2>1. r = t
    BY <1>8 DEF epoll_modify
  <2> QED BY <1>8, <2>1, CalmSelf DEF Modified
<1>9. CASE nev # {} /\ error = "EPERM"
  <2>1. r = [t EXCEPT !.anfds[fd].emask = {"EPERM"}, !.anfds[fd].egen = gen, !.eperms = perms]
    BY <1>9 DEF epoll_modify
  <2>2. r = EpollSet(t, fd, {"EPERM"}, gen, perms, t.reg, t.postfork)
    <3> HIDE DEF r, perms, gen
    <3> QED BY <1>1, <1>2, <2>1, ZenonT(60) DEF EpollSet, Loop, ANFD
  <2> HIDE DEF r, perms, gen
  <2>3. Core(r) /\ Calm(t, r)
    BY <1>1, <1>2, <1>3, <1>4, <2>2, WithEpoll
  <2> QED BY <1>9, <2>3 DEF r, Modified
<1>10. CASE nev # {} /\ error = "EBADF"
  <2>1. r = fd_kill(tried, fd)
    BY <1>10 DEF epoll_modify
  <2>2. Killed(tried, r, fd)
    <3> HIDE DEF tried, r
    <3> QED BY <1>7, <2>1, KillIs
  <2> HIDE DEF r, tried
  <2>3. Killed(t, r, fd) /\ Core(r)
    BY <1>7, <2>2, CalmKilled DEF Killed
  <2> QED BY <1>10, <2>3 DEF r, Modified
<1>11. CASE nev # {} /\ error \notin {"EPERM", "EBADF"} /\ error = "EEXIST" /\ old = nev
  <2>1. r = tried
    BY <1>11 DEF epoll_modify
  <2> HIDE DEF r, tried
  <2> QED BY <1>7, <1>11, <2>1 DEF r, Modified
<1>12. CASE nev # {} /\ error \notin {"EPERM", "EBADF"} /\ ~(error = "EEXIST" /\ old = nev)
  <2> DEFINE v == [tried EXCEPT !.anfds[fd].egen = gen]
  <2>1. r = Control(v, fd, nev, gen)
    BY <1>12 DEF epoll_modify
  <2>2. v.file = t.file /\ v.reg = t.reg
    BY <1>1 DEF Loop
  <2>3. Registered(v, fd) = Registered(t, fd)
    <3> HIDE DEF v
    <3> QED BY <2>2 DEF Registered
  <2>4. r = [v EXCEPT !.reg = regs]
    <3> HIDE DEF v, gen, r
    <3> QED BY <1>12, <2>1, <2>2, <2>3 DEF Control
  <2>5. [v EXCEPT !.reg = regs] = EpollSet(t, fd, nev, gen, t.eperms, regs, t.postfork)
    <3> HIDE DEF regs, gen
    <3> QED BY <1>1, <1>2, ZenonT(60) DEF EpollSet, Loop, ANFD
  <2> HIDE DEF r, v, regs, gen
  <2>6. Core(r) /\ Calm(t, r)
    BY <1>1, <1>2, <1>3, <1>5, <2>4, <2>5, WithEpoll
  <2> QED BY <1>12, <2>6 DEF r, Modified
<1> QED BY <1>8, <1>9, <1>10, <1>11, <1>12

LEMMA KqueueModifyIs ==
  ASSUME NEW t, Core(t), NEW fd \in Fd, NEW oev \in SUBSET Both, NEW nev \in SUBSET Both
  PROVE  /\ Core(kqueue_modify(t, fd, oev, nev)) /\ Calm(t, kqueue_modify(t, fd, oev, nev))
         /\ kqueue_modify(t, fd, oev, nev).eperms = t.eperms
<1> DEFINE r == kqueue_modify(t, fd, oev, nev)
           Filter(evs, f, add) ==
             IF f \in evs THEN <<[fd |-> fd, filter |-> f, add |-> add]>> ELSE <<>>
           Told(evs, add) == Filter(evs, "READ", add) \o Filter(evs, "WRITE", add)
           c == t.changes \o Told(IF oev # nev THEN oev ELSE {}, FALSE) \o Told(nev, TRUE)
<1>1. /\ t \in Loop /\ t.changes \in Seq(Change) /\ t.vec \in [Fd -> SUBSET Both] /\ t.eperms \in Seq(Fd)
      /\ t.reg \in SUBSET Registration /\ IsFiniteSet(t.reg) /\ IsFlag(t.postfork)
  BY Typed, PostforkIs DEF Core
<1>2. ASSUME NEW evs, NEW f \in Both, NEW add, add \in {TRUE, FALSE} PROVE Filter(evs, f, add) \in Seq(Change)
  <2>1. [fd |-> fd, filter |-> f, add |-> add] \in Change
    BY <1>2 DEF Change
  <2> QED BY <2>1
<1> HIDE DEF Filter
<1>3. ASSUME NEW evs, NEW add, add \in {TRUE, FALSE} PROVE Told(evs, add) \in Seq(Change)
  <2>1. "READ" \in Both /\ "WRITE" \in Both
    BY DEF Both
  <2>2. Filter(evs, "READ", add) \in Seq(Change) /\ Filter(evs, "WRITE", add) \in Seq(Change)
    BY <1>2, <1>3, <2>1
  <2> QED BY <2>2, ConcatIs
<1>4. r = [t EXCEPT !.changes = c]
  BY DEF kqueue_modify, Filter
<1> HIDE DEF Told
<1>5. c \in Seq(Change)
  <2>1. Told(IF oev # nev THEN oev ELSE {}, FALSE) \in Seq(Change) /\ Told(nev, TRUE) \in Seq(Change)
    BY <1>3
  <2>2. t.changes \o Told(IF oev # nev THEN oev ELSE {}, FALSE) \in Seq(Change)
    BY <1>1, <2>1, ConcatIs
  <2> QED BY <2>1, <2>2, ConcatIs
<1> HIDE DEF c, r
<1>6. r = BackendSet(t, t.anfds, t.vec, t.polls, t.pollidxs, t.eperms, c, t.reg, t.postfork)
  BY <1>1, <1>4 DEF BackendSet, Loop
<1>7. Core(r) /\ Calm(t, r) /\ r.eperms = t.eperms
  BY <1>1, <1>5, <1>6, WithRegs
<1> QED BY <1>7 DEF r

LEMMA SelectModifyCore ==
  ASSUME NEW t, Core(t), NEW fd \in Fd, NEW oev \in SUBSET Both, NEW nev \in SUBSET Both
  PROVE  Core(select_modify(t, fd, oev, nev)) /\ Calm(t, select_modify(t, fd, oev, nev))
<1> DEFINE r == select_modify(t, fd, oev, nev)
           v == [t.vec EXCEPT ![fd] = nev]
<1>1. /\ t \in Loop /\ t.changes \in Seq(Change) /\ t.vec \in [Fd -> SUBSET Both] /\ t.eperms \in Seq(Fd)
      /\ t.reg \in SUBSET Registration /\ IsFiniteSet(t.reg) /\ IsFlag(t.postfork)
  BY Typed, PostforkIs DEF Core
<1>2. CASE oev = nev
  <2>1. r = t
    BY <1>2 DEF select_modify
  <2> QED BY <2>1, CalmSelf
<1>3. CASE oev # nev
  <2>1. r = [t EXCEPT !.vec = v]
    BY <1>3 DEF select_modify
  <2>2. v \in [Fd -> SUBSET Both]
    BY <1>1
  <2> HIDE DEF r, v
  <2>3. r = BackendSet(t, t.anfds, v, t.polls, t.pollidxs, t.eperms, t.changes, t.reg, t.postfork)
    BY <1>1, <2>1 DEF BackendSet, Loop
  <2>4. Core(r) /\ Calm(t, r)
    BY <1>1, <2>2, <2>3, WithRegs
  <2> QED BY <2>4 DEF r
<1> QED BY <1>2, <1>3

LEMMA PortModifyIs ==
  ASSUME NEW t, Core(t), NEW fd \in Fd, NEW oev \in SUBSET Both, NEW nev \in SUBSET Both
  PROVE  /\ Modified(t, port_modify(t, fd, oev, nev), fd)
         /\ nev = {} => Calm(t, port_modify(t, fd, oev, nev))
<1> DEFINE r   == port_modify(t, fd, oev, nev)
           rec == [fd |-> fd, file |-> t.file[fd], mask |-> nev, gen |-> 0]
           regs == {x \in t.reg : x.fd # fd} \cup IF nev = {} THEN {} ELSE {rec}
<1>1. /\ t \in Loop /\ t.changes \in Seq(Change) /\ t.vec \in [Fd -> SUBSET Both] /\ t.eperms \in Seq(Fd)
      /\ t.reg \in SUBSET Registration /\ IsFiniteSet(t.reg) /\ IsFlag(t.postfork)
      /\ t.file[fd] \in Nat
  BY Typed, PostforkIs DEF Core
<1>2. CASE nev # {} /\ ~fd_valid(t, fd)
  <2>1. r = fd_kill(t, fd)
    BY <1>2 DEF port_modify
  <2> QED BY <1>2, <2>1, KillIs DEF Modified, Killed
<1>3. CASE ~(nev # {} /\ ~fd_valid(t, fd))
  <2>1. r = [t EXCEPT !.reg = regs]
    BY <1>3 DEF port_modify
  <2>2. regs \in SUBSET Registration /\ IsFiniteSet(regs)
    <3>1. rec \in Registration
      BY <1>1 DEF Registration
    <3> HIDE DEF rec
    <3>2. IsFiniteSet({x \in t.reg : x.fd # fd})
      BY <1>1, FS_Subset
    <3>3. IsFiniteSet({x \in t.reg : x.fd # fd} \cup {rec})
      BY <3>2, FS_AddElement
    <3>4. regs = {x \in t.reg : x.fd # fd} \/ regs = {x \in t.reg : x.fd # fd} \cup {rec}
      OBVIOUS
    <3> QED BY <1>1, <3>1, <3>2, <3>3, <3>4
  <2> HIDE DEF r, regs
  <2>3. r = BackendSet(t, t.anfds, t.vec, t.polls, t.pollidxs, t.eperms, t.changes, regs, t.postfork)
    BY <1>1, <2>1 DEF BackendSet, Loop
  <2>4. Core(r) /\ Calm(t, r)
    BY <1>1, <2>2, <2>3, WithRegs
  <2> QED BY <2>4 DEF r, Modified
<1> QED BY <1>2, <1>3

Backends == {"select", "poll", "epoll", "kqueue", "port"}

LEMMA ModifyIs ==
  ASSUME NEW t, Core(t), t.backend \in Backends, NEW fd \in Fd,
         NEW oev \in SUBSET Both, NEW nev \in SUBSET Both
  PROVE  /\ Modified(t, backend_modify(t, fd, oev, nev), fd)
         /\ nev = {} => Calm(t, backend_modify(t, fd, oev, nev))
<1>1. CASE t.backend = "select"
  BY <1>1, SelectModifyCore DEF backend_modify, Modified
<1>2. CASE t.backend = "poll"
  BY <1>2, PollModifyCore DEF backend_modify, Modified
<1>3. CASE t.backend = "epoll"
  BY <1>3, EpollModifyIs DEF backend_modify
<1>4. CASE t.backend = "kqueue"
  BY <1>4, KqueueModifyIs DEF backend_modify, Modified
<1>5. CASE t.backend = "port"
  BY <1>5, PortModifyIs DEF backend_modify
<1> QED BY <1>1, <1>2, <1>3, <1>4, <1>5 DEF Backends

-----------------------------------------------------------------------------
(* fd_reify                                                                *)

Reified(t, u, fd, k) ==
  /\ Core(u) /\ Onward(t, u) /\ ChangesFrom(u, k + 1)
  /\ Len(t.fdchanges) <= Len(u.fdchanges)
  /\ \A i \in 1..Len(t.fdchanges) : u.fdchanges[i] = t.fdchanges[i]
  /\ \A i \in Len(t.fdchanges) + 1..Len(u.fdchanges) : u.fdchanges[i] = fd /\ u.anfds[fd].head = <<>>
  /\ \A x \in Fd : u.anfds[x].head = t.anfds[x].head \/ u.anfds[x].head = <<>>
  /\ t.anfds[fd].head = <<>> => u.fdchanges = t.fdchanges

LEMMA AnfdsTwice ==
  ASSUME NEW t \in Loop, NEW a, NEW b
  PROVE  /\ [t EXCEPT !.anfds = b].anfds = b
         /\ [[t EXCEPT !.anfds = b] EXCEPT !.anfds = a] = [t EXCEPT !.anfds = a]
BY DEF Loop

LEMMA ReifyIs ==
  ASSUME NEW t, Core(t), t.backend \in Backends, NEW k \in 1..Len(t.fdchanges), ChangesFrom(t, k),
         NEW fd, fd = t.fdchanges[k]
  PROVE  Reified(t, Reify(t, fd), fd, k)
<1> DEFINE old == t.anfds[fd]
           evs == UNION {t.events[w] : w \in ToSet(old.head)}
           a   == [t.anfds EXCEPT ![fd] = [old EXCEPT !.reify = {}, !.events = evs]]
           u   == [t EXCEPT !.anfds = a, !.fdchanges = t.fdchanges]
           v   == backend_modify(u, fd, old.events, evs)
           n   == Len(t.fdchanges)
           r   == Reify(t, fd)
<1>1. /\ t \in Loop /\ t.fdchanges \in Seq(Fd) /\ n \in Nat /\ t.anfds \in [Fd -> ANFD]
      /\ fd \in Fd /\ IsFiniteSet(t.reg)
  <2>1. t \in Loop /\ IsFiniteSet(t.reg)
    BY DEF Core
  <2>2. t.fdchanges \in Seq(Fd) /\ t.anfds \in [Fd -> ANFD]
    BY <2>1, Typed
  <2> QED BY <2>1, <2>2
<1>2. old \in ANFD /\ old.head \in Seq(Watcher) /\ old.events \in SUBSET Both
  BY <1>1, AnfdIs
<1>3. evs \in SUBSET Both /\ (old.head = <<>> => evs = {})
  <2>1. \A w \in ToSet(old.head) : w \in Watcher
    BY <1>2 DEF ToSet
  <2>2. \A w \in Watcher : t.events[w] \subseteq Both
    BY <1>1, Typed
  <2>3. ASSUME old.head = <<>> PROVE ToSet(old.head) = {}
    BY <2>3 DEF ToSet
  <2> QED BY <2>1, <2>2, <2>3
<1>4. r = v \/ r = u
  <2>1. u = [t EXCEPT !.anfds[fd].reify = {}, !.anfds[fd].events = evs]
    <3>1. [[t EXCEPT !.anfds[fd].reify = {}] EXCEPT !.anfds[fd].events = evs] = [t EXCEPT !.anfds = a]
      <4> DEFINE cleared == [old EXCEPT !.reify = {}]
                 b       == [t.anfds EXCEPT ![fd] = cleared]
                 set     == [cleared EXCEPT !.events = evs]
      <4> HIDE DEF evs
      <4>1. b[fd] = cleared /\ [b EXCEPT ![fd] = set] = [t.anfds EXCEPT ![fd] = set]
        <5> HIDE DEF cleared, set
        <5> QED BY <1>1
      <4>2. a = [t.anfds EXCEPT ![fd] = set]
        OBVIOUS
      <4>3. [t EXCEPT !.anfds[fd].reify = {}] = [t EXCEPT !.anfds = b]
        OBVIOUS
      <4> HIDE DEF a, b, cleared
      <4>4. [t EXCEPT !.anfds = b].anfds = b /\ [[t EXCEPT !.anfds = b] EXCEPT !.anfds = a] = [t EXCEPT !.anfds = a]
        BY <1>1, AnfdsTwice, ZenonT(60)
      <4>5. [[t EXCEPT !.anfds = b] EXCEPT !.anfds[fd].events = evs]
              = [[t EXCEPT !.anfds = b] EXCEPT !.anfds = [b EXCEPT ![fd] = [b[fd] EXCEPT !.events = evs]]]
        BY <4>4
      <4>6. [b EXCEPT ![fd] = [b[fd] EXCEPT !.events = evs]] = a
        BY <4>1, <4>2
      <4> QED BY <4>3, <4>4, <4>5, <4>6
    <3> HIDE DEF a, evs
    <3> QED BY <1>1, <3>1 DEF Loop
  <2> HIDE DEF u
  <2> QED BY <2>1 DEF Reify
<1>5. /\ a \in [Fd -> ANFD] /\ a[fd].reify = {} /\ a[fd].head = old.head
      /\ \A x \in Fd : x # fd => a[x] = t.anfds[x]
  <2> HIDE DEF evs
  <2>1. [old EXCEPT !.reify = {}, !.events = evs] \in ANFD
    BY <1>2, <1>3 DEF ANFD
  <2>2. a \in [Fd -> ANFD]
    BY <1>1, <2>1
  <2>3. a[fd].reify = {} /\ a[fd].head = old.head
    BY <1>1, <1>2 DEF ANFD
  <2> QED BY <1>1, <2>2, <2>3
<1> HIDE DEF a, evs, r
<1>6. ChangedTo(t, u, a, t.fdchanges)
  <2>1. \A x \in Fd : a[x].head = t.anfds[x].head
    BY <1>5
  <2> HIDE DEF u
  <2>2. u = [t EXCEPT !.anfds = a, !.fdchanges = t.fdchanges]
    BY DEF u
  <2> QED BY <1>1, <1>5, <2>1, <2>2, WithChanges
<1> HIDE DEF u
<1>7. /\ u \in Loop /\ u.anfds = a /\ u.fdchanges = t.fdchanges /\ SameRest(t, u) /\ Onward(t, u)
      /\ u.backend = t.backend
  BY <1>6 DEF ChangedTo, SameRest, Onward
<1>8. Core(u)
  BY <1>1, <1>7, CoreAlike DEF SameRest
<1>9. ChangesFrom(u, k + 1)
  <2>1. /\ \A i, j \in k..n : t.fdchanges[i] = t.fdchanges[j] => i = j
        /\ \A x \in Fd : t.anfds[x].reify # {} <=> \E i \in k..n : t.fdchanges[i] = x
    BY DEF ChangesFrom
  <2>2. \A i \in k + 1..n : i \in k..n /\ i # k
    BY <1>1
  <2>3. \A i \in k..n : i = k \/ i \in k + 1..n
    BY <1>1
  <2>4. k \in k..n
    BY <1>1
  <2>5. \A i, j \in k + 1..n : t.fdchanges[i] = t.fdchanges[j] => i = j
    BY <2>1, <2>2
  <2>6. ASSUME NEW x \in Fd PROVE a[x].reify # {} <=> \E i \in k + 1..n : t.fdchanges[i] = x
    <3>1. CASE x = fd
      BY <1>5, <2>1, <2>2, <2>4, <3>1
    <3>2. CASE x # fd
      BY <1>5, <2>1, <2>2, <2>3, <3>2
    <3> QED BY <3>1, <3>2
  <2> QED BY <1>7, <2>5, <2>6 DEF ChangesFrom
<1>10. \A x \in Fd : u.anfds[x].head = t.anfds[x].head
  BY <1>5, <1>7
<1>11. \A i \in n + 1..n : FALSE
  BY <1>1
<1>12. CASE r = u
  <2>1. /\ Len(u.fdchanges) = n /\ n <= n /\ \A i \in 1..n : u.fdchanges[i] = t.fdchanges[i]
    BY <1>1, <1>7
  <2> QED BY <1>7, <1>8, <1>9, <1>10, <1>11, <1>12, <2>1 DEF Reified, r
<1>13. CASE r = v
  <2>1. Modified(u, v, fd) /\ (evs = {} => Calm(u, v))
    <3>1. old.events \in SUBSET Both
      BY <1>2
    <3> HIDE DEF old
    <3> QED BY <1>1, <1>3, <1>7, <1>8, <3>1, ModifyIs
  <2> HIDE DEF v, old
  <2>2. CASE Calm(u, v)
    <3>1. v.fdchanges = t.fdchanges /\ Onward(t, v) /\ \A x \in Fd : v.anfds[x].head = t.anfds[x].head
      BY <1>7, <1>10, <2>2 DEF Calm, Onward
    <3>2. ChangesFrom(v, k + 1)
      BY <1>9, <2>2, ChangesKept DEF Calm
    <3>3. Len(v.fdchanges) = n /\ n <= n /\ \A i \in 1..n : v.fdchanges[i] = t.fdchanges[i]
      BY <1>1, <3>1
    <3> QED BY <1>11, <1>13, <2>1, <3>1, <3>2, <3>3 DEF Reified, Modified, r
  <2>3. CASE Killed(u, v, fd) /\ ~Calm(u, v)
    <3>1. t.anfds[fd].head # <<>>
      BY <1>3, <2>1, <2>3 DEF old
    <3>2. /\ Core(v) /\ Onward(u, v) /\ Extends(u, v, fd) /\ v.anfds[fd].head = <<>>
          /\ \A x \in Fd : x # fd => v.anfds[x].head = u.anfds[x].head
      BY <2>3 DEF Killed
    <3>3. /\ n <= Len(v.fdchanges) /\ \A i \in 1..n : v.fdchanges[i] = t.fdchanges[i]
          /\ \A i \in n + 1..Len(v.fdchanges) : v.fdchanges[i] = fd
      BY <1>7, <3>2 DEF Extends
    <3>4. ChangesFrom(v, k + 1)
      <4>1. k + 1 \in 1..Len(u.fdchanges) + 1
        BY <1>1, <1>7
      <4> QED BY <1>9, <3>2, <4>1 DEF Extends
    <3>5. Onward(t, v)
      BY <1>7, <3>2 DEF Onward
    <3>6. \A x \in Fd : v.anfds[x].head = t.anfds[x].head \/ v.anfds[x].head = <<>>
      BY <1>10, <3>2
    <3> QED BY <1>13, <3>1, <3>2, <3>3, <3>4, <3>5, <3>6 DEF Reified, r
  <2> QED BY <2>1, <2>2, <2>3 DEF Modified
<1> QED BY <1>4, <1>12, <1>13

\* After the first pass over fdchanges only fds without watchers are left.
FirstPass(t, k) ==
  LET n == Len(t.fdchanges)
  IN  {u \in Loop :
         /\ Core(u) /\ Onward(t, u) /\ ChangesFrom(u, k + 1) /\ n <= Len(u.fdchanges)
         /\ \A i \in 1..n : u.fdchanges[i] = t.fdchanges[i]
         /\ \A i \in n + 1..Len(u.fdchanges) : u.anfds[u.fdchanges[i]].head = <<>>}

LEMMA FirstPassIs ==
  ASSUME NEW t, LoopSane(t), t.backend \in Backends
  PROVE  Along(ReifyRound, t, t.fdchanges) \in FirstPass(t, Len(t.fdchanges))
<1> DEFINE n == Len(t.fdchanges)
           J == [k \in Nat |-> FirstPass(t, k)]
<1>1. t \in Loop /\ t.fdchanges \in Seq(Fd) /\ n \in Nat /\ Core(t) /\ ChangesFrom(t, 1)
  <2>1. t \in Loop /\ Core(t) /\ ChangesFrom(t, 1)
    BY DEF LoopSane, Core
  <2> QED BY <2>1, Typed
<1>2. t \in J[0]
  <2>1. \A i \in n + 1..n : FALSE
    BY <1>1
  <2>2. n <= n /\ 0 + 1 = 1 /\ 0 \in Nat
    BY <1>1
  <2> QED BY <1>1, <2>1, <2>2 DEF FirstPass, Onward
<1>3. ASSUME NEW k \in 1..n, NEW v \in J[k - 1] PROVE ReifyRound[<<v, t.fdchanges[k]>>] \in J[k]
  <2> DEFINE fd == t.fdchanges[k]
             u  == Reify(v, fd)
  <2>1. k - 1 \in Nat /\ k \in Nat /\ k - 1 + 1 = k
    BY <1>1
  <2>2. /\ v \in Loop /\ Core(v) /\ Onward(t, v) /\ ChangesFrom(v, k) /\ n <= Len(v.fdchanges)
        /\ \A i \in 1..n : v.fdchanges[i] = t.fdchanges[i]
        /\ \A i \in n + 1..Len(v.fdchanges) : v.anfds[v.fdchanges[i]].head = <<>>
    BY <1>3, <2>1 DEF FirstPass
  <2> HIDE DEF J
  <2>3. v.fdchanges \in Seq(Fd) /\ Len(v.fdchanges) \in Nat
    BY <2>2, Typed
  <2>4. k \in 1..Len(v.fdchanges) /\ fd = v.fdchanges[k] /\ fd \in Fd
    BY <1>1, <2>2, <2>3
  <2>5. v.backend \in Backends
    BY <2>2 DEF Onward
  <2>6. Reified(v, u, fd, k)
    <3> HIDE DEF u, fd
    <3>1. Reified(v, Reify(v, fd), fd, k)
      BY <2>2, <2>4, <2>5, ReifyIs
    <3> QED BY <3>1 DEF u
  <2>7. ReifyRound[<<v, fd>>] = u
    BY <2>2, <2>4 DEF ReifyRound
  <2> HIDE DEF u, fd
  <2>8. /\ Core(u) /\ Onward(v, u) /\ ChangesFrom(u, k + 1)
        /\ Len(v.fdchanges) <= Len(u.fdchanges)
        /\ \A i \in 1..Len(v.fdchanges) : u.fdchanges[i] = v.fdchanges[i]
        /\ \A i \in Len(v.fdchanges) + 1..Len(u.fdchanges) :
             u.fdchanges[i] = fd /\ u.anfds[fd].head = <<>>
        /\ \A x \in Fd : u.anfds[x].head = v.anfds[x].head \/ u.anfds[x].head = <<>>
    BY <2>6 DEF Reified
  <2>9. u \in Loop /\ Len(u.fdchanges) \in Nat
    <3>1. u \in Loop
      BY <2>8 DEF Core
    <3> QED BY <3>1, Typed
  <2>10. Onward(t, u) /\ n <= Len(u.fdchanges)
    BY <1>1, <2>2, <2>3, <2>8, <2>9 DEF Onward
  <2>11. \A i \in 1..n : u.fdchanges[i] = t.fdchanges[i]
    <3>1. \A i \in 1..n : i \in 1..Len(v.fdchanges)
      BY <1>1, <2>2, <2>3
    <3> QED BY <2>2, <2>8, <3>1
  <2>12. ASSUME NEW i \in n + 1..Len(u.fdchanges) PROVE u.anfds[u.fdchanges[i]].head = <<>>
    <3>1. CASE i \in Len(v.fdchanges) + 1..Len(u.fdchanges)
      BY <2>8, <3>1
    <3>2. CASE i \in n + 1..Len(v.fdchanges)
      <4>1. i \in 1..Len(v.fdchanges)
        BY <1>1, <3>2
      <4>2. u.fdchanges[i] = v.fdchanges[i] /\ v.fdchanges[i] \in Fd
        BY <2>3, <2>8, <4>1
      <4> QED BY <2>2, <2>8, <3>2, <4>2, ZenonT(60)
    <3>3. i \in Len(v.fdchanges) + 1..Len(u.fdchanges) \/ i \in n + 1..Len(v.fdchanges)
      BY <1>1, <2>3, <2>9
    <3> QED BY <3>1, <3>2, <3>3
  <2>13. u \in FirstPass(t, k)
    BY <2>8, <2>9, <2>10, <2>11, <2>12 DEF FirstPass
  <2>14. J[k] = FirstPass(t, k)
    BY <2>1 DEF J
  <2> QED BY <2>7, <2>13, <2>14 DEF fd
<1>4. Along(ReifyRound, t, t.fdchanges) \in J[n]
  <2> HIDE DEF J
  <2> QED BY <1>1, <1>2, <1>3, AlongReaches
<1> QED BY <1>1, <1>4

\* In the second pass nothing comes to fdchanges any more.
SecondPass(t, o, k) ==
  LET n == Len(t.fdchanges)
  IN  {u \in Loop :
         /\ Core(u) /\ Onward(t, u) /\ ChangesFrom(u, n + k + 1) /\ u.fdchanges = o.fdchanges
         /\ \A i \in n + 1..Len(o.fdchanges) : u.anfds[o.fdchanges[i]].head = <<>>}

LEMMA SecondPassIs ==
  ASSUME NEW t, LoopSane(t), t.backend \in Backends, NEW o, o \in FirstPass(t, Len(t.fdchanges)),
         NEW killed, killed = SubSeq(o.fdchanges, Len(t.fdchanges) + 1, Len(o.fdchanges))
  PROVE  Along(ReifyRound, o, killed) \in SecondPass(t, o, Len(o.fdchanges) - Len(t.fdchanges))
<1> DEFINE n == Len(t.fdchanges)
           m == Len(o.fdchanges)
           l == m - n
           J == [k \in Nat |-> SecondPass(t, o, k)]
<1>1. /\ o \in Loop /\ Core(o) /\ Onward(t, o) /\ ChangesFrom(o, n + 1) /\ n <= m
      /\ \A i \in n + 1..m : o.anfds[o.fdchanges[i]].head = <<>>
  BY DEF FirstPass
<1>2. n \in Nat /\ m \in Nat /\ l \in Nat /\ o.fdchanges \in Seq(Fd)
  <2>1. t \in Loop
    BY DEF LoopSane, Core
  <2>2. n \in Nat /\ m \in Nat /\ o.fdchanges \in Seq(Fd)
    BY <1>1, <2>1, Typed
  <2> QED BY <1>1, <2>2
<1>3. Len(killed) = l /\ \A i \in 1..l : killed[i] = o.fdchanges[i + n]
  <2>1. n \in 0..Len(o.fdchanges)
    BY <1>1, <1>2
  <2> QED BY <1>2, <2>1, TailFrom
<1>4. o \in J[0]
  <2>1. n + 0 + 1 = n + 1 /\ 0 \in Nat
    BY <1>2
  <2> QED BY <1>1, <2>1 DEF SecondPass
<1>5. ASSUME NEW k \in 1..l, NEW v \in J[k - 1] PROVE ReifyRound[<<v, killed[k]>>] \in J[k]
  <2> DEFINE fd == killed[k]
             u  == Reify(v, fd)
  <2>1. k - 1 \in Nat /\ k \in Nat /\ n + (k - 1) + 1 = n + k /\ n + k \in n + 1..m /\ n + k \in 1..m
        /\ k + n = n + k
    BY <1>2
  <2>2. /\ v \in Loop /\ Core(v) /\ Onward(t, v) /\ ChangesFrom(v, n + k) /\ v.fdchanges = o.fdchanges
        /\ \A i \in n + 1..m : v.anfds[o.fdchanges[i]].head = <<>>
    BY <1>5, <2>1 DEF SecondPass
  <2> HIDE DEF J
  <2>3. fd = v.fdchanges[n + k] /\ fd \in Fd /\ n + k \in 1..Len(v.fdchanges) /\ v.anfds[fd].head = <<>>
    BY <1>2, <1>3, <2>1, <2>2
  <2>4. v.backend \in Backends
    BY <2>2 DEF Onward
  <2>5. Reified(v, u, fd, n + k)
    <3> HIDE DEF u, fd, n
    <3>1. Reified(v, Reify(v, fd), fd, n + k)
      BY <2>2, <2>3, <2>4, ReifyIs
    <3> QED BY <3>1 DEF u
  <2>6. ReifyRound[<<v, fd>>] = u
    BY <2>2, <2>3 DEF ReifyRound
  <2> HIDE DEF u, fd
  <2>7. /\ Core(u) /\ Onward(v, u) /\ ChangesFrom(u, n + k + 1) /\ u.fdchanges = o.fdchanges
        /\ \A x \in Fd : u.anfds[x].head = v.anfds[x].head \/ u.anfds[x].head = <<>>
    BY <2>2, <2>3, <2>5 DEF Reified
  <2>8. u \in Loop /\ Onward(t, u)
    BY <2>2, <2>7 DEF Core, Onward
  <2>9. ASSUME NEW i \in n + 1..m PROVE u.anfds[o.fdchanges[i]].head = <<>>
    <3>1. i \in 1..m
      BY <1>2
    <3>2. o.fdchanges[i] \in Fd
      BY <1>2, <3>1
    <3> QED BY <2>2, <2>7, <3>2
  <2>10. u \in SecondPass(t, o, k)
    BY <2>7, <2>8, <2>9 DEF SecondPass
  <2>11. J[k] = SecondPass(t, o, k)
    BY <2>1 DEF J
  <2> QED BY <2>6, <2>10, <2>11 DEF fd
<1>6. Along(ReifyRound, o, killed) \in J[Len(killed)]
  <2> HIDE DEF J, n, l
  <2>1. \A k \in 1..Len(killed) : \A v \in J[k - 1] : ReifyRound[<<v, killed[k]>>] \in J[k]
    BY <1>3, <1>5
  <2> QED BY <1>2, <1>3, <1>4, <2>1, AlongReaches
<1> QED BY <1>2, <1>3, <1>6

LEMMA ReifyAllIs ==
  ASSUME NEW t, LoopSane(t), t.backend \in Backends
  PROVE  LoopSane(fd_reify(t)) /\ Onward(t, fd_reify(t))
<1> DEFINE n == Len(t.fdchanges)
           o == Along(ReifyRound, t, t.fdchanges)
           m == Len(o.fdchanges)
           u == Along(ReifyRound, o, SubSeq(o.fdchanges, n + 1, m))
           r == fd_reify(t)
<1>1. o \in FirstPass(t, n)
  BY FirstPassIs
<1>2. r = [u EXCEPT !.fdchanges = <<>>]
  BY DEF fd_reify
<1> HIDE DEF o, r
<1>3. u \in SecondPass(t, o, m - n)
  BY <1>1, SecondPassIs
<1> HIDE DEF u
<1>4. u \in Loop /\ o \in Loop /\ t \in Loop
  BY <1>1, <1>3 DEF FirstPass, SecondPass, LoopSane, Core
<1>5. n \in Nat /\ m \in Nat /\ n + (m - n) + 1 = m + 1 /\ \A i \in m + 1..m : FALSE
  <2>1. n \in Nat /\ m \in Nat
    BY <1>4, Typed
  <2> QED BY <2>1
<1>6. Core(u) /\ Onward(t, u) /\ ChangesFrom(u, m + 1) /\ Len(u.fdchanges) = m
  BY <1>3, <1>5 DEF SecondPass
<1>7. \A fd \in Fd : u.anfds[fd].reify = {}
  BY <1>5, <1>6 DEF ChangesFrom
<1>8. u.anfds \in [Fd -> ANFD] /\ <<>> \in Seq(Fd)
  BY <1>4, Typed
<1>9. r = [u EXCEPT !.anfds = u.anfds, !.fdchanges = <<>>]
  BY <1>2, <1>4 DEF Loop
<1>10. ChangedTo(u, r, u.anfds, <<>>)
  BY <1>4, <1>8, <1>9, WithChanges
<1>11. r \in Loop /\ r.anfds = u.anfds /\ r.fdchanges = <<>> /\ SameRest(u, r)
  BY <1>10 DEF ChangedTo
<1>12. Core(r)
  BY <1>6, <1>11, CoreAlike DEF SameRest, Core
<1>13. ChangesFrom(r, 1)
  BY <1>7, <1>11 DEF ChangesFrom
<1>14. Onward(t, r)
  BY <1>6, <1>11 DEF SameRest, Onward
<1> QED BY <1>12, <1>13, <1>14 DEF LoopSane, r

-----------------------------------------------------------------------------
(* What leaves the loop sane                                               *)

Sanely(t, u) == u \in Loop /\ LoopSane(u) /\ Onward(t, u)

LEMMA SaneSelf ==
  ASSUME NEW t, LoopSane(t)
  PROVE  Sanely(t, t)
BY DEF Sanely, LoopSane, Core, Onward

LEMMA SaneTwice ==
  ASSUME NEW t, NEW u, NEW v, Sanely(t, u), Sanely(u, v)
  PROVE  Sanely(t, v)
BY DEF Sanely, Onward

LEMMA SaneQueue ==
  ASSUME NEW t, LoopSane(t), NEW u, Core(u), OnlyQueue(t, u)
  PROVE  Sanely(t, u)
<1>1. ChangesFrom(u, 1)
  BY ChangesKept DEF LoopSane, OnlyQueue
<1> QED BY <1>1 DEF Sanely, LoopSane, Core, OnlyQueue

LEMMA SaneCalm ==
  ASSUME NEW t, LoopSane(t), NEW u, Core(u), Calm(t, u)
  PROVE  Sanely(t, u)
<1>1. ChangesFrom(u, 1)
  BY ChangesKept DEF LoopSane, Calm
<1> QED BY <1>1 DEF Sanely, LoopSane, Core, Calm

LEMMA SaneKill ==
  ASSUME NEW t, LoopSane(t), NEW fd \in Fd
  PROVE  Sanely(t, fd_kill(t, fd))
<1>1. Killed(t, fd_kill(t, fd), fd)
  BY KillIs DEF LoopSane
<1>2. Len(t.fdchanges) \in Nat
  BY Typed DEF LoopSane, Core
<1>3. 1 \in 1..Len(t.fdchanges) + 1
  BY <1>2
<1>4. ChangesFrom(fd_kill(t, fd), 1)
  BY <1>1, <1>3 DEF Killed, Extends, LoopSane
<1> QED BY <1>1, <1>4 DEF Killed, Sanely, LoopSane, Core

LEMMA SaneTell ==
  ASSUME NEW t, LoopSane(t), NEW fd \in Fd, NEW revents \in SUBSET Both
  PROVE  /\ Sanely(t, fd_event(t, fd, revents)) /\ fd_event(t, fd, revents).eperms = t.eperms
         /\ fd_event(t, fd, revents).reg = t.reg
<1>1. Core(fd_event(t, fd, revents)) /\ OnlyQueue(t, fd_event(t, fd, revents))
  BY TellCore DEF LoopSane
<1>2. Sanely(t, fd_event(t, fd, revents))
  BY <1>1, SaneQueue
<1> QED BY <1>1, <1>2 DEF OnlyQueue

LEMMA SaneChange ==
  ASSUME NEW t, LoopSane(t), NEW fd \in Fd, NEW flags \in SUBSET {"REIFY", "IOFDSET"}, flags # {}
  PROVE  Sanely(t, fd_change(t, fd, flags))
<1> DEFINE u == fd_change(t, fd, flags)
<1>1. Core(u) /\ SameRest(t, u) /\ Extends(t, u, fd)
  BY ChangeCore DEF LoopSane
<1> HIDE DEF u
<1>2. Len(t.fdchanges) \in Nat
  BY Typed DEF LoopSane, Core
<1>3. 1 \in 1..Len(t.fdchanges) + 1
  BY <1>2
<1>4. ChangesFrom(u, 1)
  BY <1>1, <1>3 DEF Extends, LoopSane
<1> QED BY <1>1, <1>4 DEF Sanely, LoopSane, Core, SameRest, u

LEMMA SaneAlong ==
  ASSUME NEW t, LoopSane(t), NEW body, NEW seq, Len(seq) \in Nat,
         \A k \in 1..Len(seq) : \A v \in Loop :
           LoopSane(v) /\ v.backend = t.backend => Sanely(v, body[<<v, seq[k]>>])
  PROVE  Sanely(t, Along(body, t, seq))
<1> DEFINE J == {u \in Loop : Sanely(t, u)}
<1>1. t \in J
  BY SaneSelf DEF LoopSane, Core
<1>2. ASSUME NEW k \in 1..Len(seq), NEW v \in J PROVE body[<<v, seq[k]>>] \in J
  <2>1. v \in Loop /\ LoopSane(v) /\ v.backend = t.backend
    BY DEF Sanely, Onward
  <2>2. Sanely(v, body[<<v, seq[k]>>])
    BY <2>1
  <2>3. Sanely(t, body[<<v, seq[k]>>])
    BY <2>2, SaneTwice
  <2> QED BY <2>3 DEF Sanely
<1>3. Along(body, t, seq) \in J
  <2> HIDE DEF J
  <2> QED BY <1>1, <1>2, AlongKeeps
<1> QED BY <1>3

LEMMA AscendingIs ==
  /\ Ascending \in Seq(Fd) /\ Len(Ascending) \in Nat
  /\ \A k \in 1..Len(Ascending) : Ascending[k] \in Fd
  /\ IsFiniteSet(Fd) /\ Fd \subseteq Int
<1>1. anfdmax \in Nat
  BY ProgramAssumption
<1>2. IsFiniteSet(Fd) /\ Fd \subseteq Int
  BY <1>1, FS_Interval DEF Fd
<1>3. Ascending \in [1..anfdmax -> Fd]
  BY DEF Ascending, Fd
<1>4. Ascending \in Seq(Fd)
  BY <1>1, <1>3
<1> QED BY <1>2, <1>4

LEMMA SaneEbadf ==
  ASSUME NEW t, LoopSane(t)
  PROVE  Sanely(t, fd_ebadf(t))
<1>1. ASSUME NEW fd \in Fd, NEW v \in Loop, LoopSane(v) PROVE Sanely(v, BadRound[<<v, fd>>])
  <2>1. BadRound[<<v, fd>>] = v \/ BadRound[<<v, fd>>] = fd_kill(v, fd)
    BY DEF BadRound
  <2> QED BY <1>1, <2>1, SaneSelf, SaneKill
<1>2. \A k \in 1..Len(Ascending) : \A v \in Loop :
        LoopSane(v) /\ v.backend = t.backend => Sanely(v, BadRound[<<v, Ascending[k]>>])
  BY <1>1, AscendingIs
<1> QED BY <1>2, AscendingIs, SaneAlong DEF fd_ebadf

LEMMA SaneEnomem ==
  ASSUME NEW t, LoopSane(t)
  PROVE  Sanely(t, fd_enomem(t))
<1> DEFINE used == {fd \in Fd : t.anfds[fd].events # {}}
           fd   == CHOOSE x \in used : \A other \in used : other <= x
<1>1. CASE used = {}
  BY <1>1, SaneSelf DEF fd_enomem
<1>2. CASE used # {}
  <2>1. used \subseteq Int /\ IsFiniteSet(used)
    BY AscendingIs, FS_Subset
  <2>2. \E x \in used : \A y \in used : y <= x
    <3> HIDE DEF used
    <3> QED BY <1>2, <2>1, GreatestExists
  <2>3. fd \in Fd
    BY <2>2
  <2>4. fd_enomem(t) = fd_kill(t, fd)
    BY <1>2 DEF fd_enomem
  <2> HIDE DEF fd
  <2> QED BY <2>3, <2>4, SaneKill
<1> QED BY <1>1, <1>2

LEMMA SaneRearm ==
  ASSUME NEW t, LoopSane(t)
  PROVE  Sanely(t, fd_rearm_all(t))
<1>1. ASSUME NEW fd \in Fd, NEW v \in Loop, LoopSane(v) PROVE Sanely(v, RearmRound[<<v, fd>>])
  <2> DEFINE c == [v EXCEPT !.anfds[fd].events = {}, !.anfds[fd].emask = {}]
             a == [v.anfds EXCEPT ![fd] = [v.anfds[fd] EXCEPT !.events = {}, !.emask = {}]]
             u == fd_change(c, fd, {"IOFDSET", "REIFY"})
  <2>1. RearmRound[<<v, fd>>] = v \/ RearmRound[<<v, fd>>] = u
    BY DEF RearmRound
  <2>2. v.anfds \in [Fd -> ANFD] /\ v.anfds[fd] \in ANFD /\ v.fdchanges \in Seq(Fd)
    BY Typed
  <2>3. c = [v EXCEPT !.anfds = a, !.fdchanges = v.fdchanges]
    BY <2>2, ZenonT(60) DEF Loop, ANFD
  <2>4. /\ a \in [Fd -> ANFD]
        /\ \A x \in Fd : a[x].head = v.anfds[x].head /\ a[x].reify = v.anfds[x].reify
    <3>1. [v.anfds[fd] EXCEPT !.events = {}, !.emask = {}] \in ANFD
      BY <2>2 DEF ANFD
    <3>2. a \in [Fd -> ANFD]
      BY <2>2, <3>1
    <3>3. a[fd].head = v.anfds[fd].head /\ a[fd].reify = v.anfds[fd].reify
      BY <2>2 DEF ANFD
    <3> QED BY <2>2, <3>2, <3>3
  <2> HIDE DEF a, c, u
  <2>5. ChangedTo(v, c, a, v.fdchanges)
    BY <2>2, <2>3, <2>4, WithChanges
  <2>6. c \in Loop /\ c.anfds = a /\ c.fdchanges = v.fdchanges /\ SameRest(v, c)
    BY <2>5 DEF ChangedTo
  <2>7. Core(c)
    BY <1>1, <2>6, CoreAlike DEF SameRest, Core, LoopSane
  <2>8. Calm(v, c)
    BY <2>4, <2>6 DEF Calm, SameRest
  <2>9. Sanely(v, c)
    BY <1>1, <2>7, <2>8, SaneCalm
  <2>10. Sanely(c, u)
    <3>1. {"IOFDSET", "REIFY"} \in SUBSET {"REIFY", "IOFDSET"} /\ {"IOFDSET", "REIFY"} # {}
      OBVIOUS
    <3>2. LoopSane(c)
      BY <2>9 DEF Sanely
    <3> QED BY <3>1, <3>2, SaneChange DEF u
  <2> QED BY <1>1, <2>1, <2>9, <2>10, SaneSelf, SaneTwice
<1>2. \A k \in 1..Len(Ascending) : \A v \in Loop :
        LoopSane(v) /\ v.backend = t.backend => Sanely(v, RearmRound[<<v, Ascending[k]>>])
  BY <1>1, AscendingIs
<1> QED BY <1>2, AscendingIs, SaneAlong DEF fd_rearm_all

\* Other registrations, another postfork.
LEMMA SaneRegs ==
  ASSUME NEW t, LoopSane(t), NEW v \in [Fd -> SUBSET Both], NEW e \in Seq(Fd), NEW c \in Seq(Change),
         NEW r \in SUBSET Registration, IsFiniteSet(r), NEW b, IsFlag(b),
         NEW u, u = BackendSet(t, t.anfds, v, t.polls, t.pollidxs, e, c, r, b)
  PROVE  /\ Sanely(t, u) /\ u.eperms = e /\ u.file = t.file /\ u.anfds = t.anfds
         /\ u.polls = t.polls /\ u.reg = r
<1>1. /\ Core(u) /\ Calm(t, u) /\ u.eperms = e /\ u.file = t.file /\ u.anfds = t.anfds
      /\ u.polls = t.polls /\ u.reg = r
  BY WithRegs DEF LoopSane
<1> QED BY <1>1, SaneCalm

LEMMA Flags ==
  IsFlag(TRUE) /\ IsFlag(FALSE)
BY DEF IsFlag

LEMMA RegsOf ==
  ASSUME NEW t, LoopSane(t)
  PROVE  /\ t \in Loop /\ t.changes \in Seq(Change) /\ t.vec \in [Fd -> SUBSET Both]
         /\ t.eperms \in Seq(Fd) /\ t.reg \in SUBSET Registration /\ IsFiniteSet(t.reg)
         /\ IsFlag(t.postfork) /\ t.anfds \in [Fd -> ANFD] /\ t.file \in [Fd -> Nat]
<1>1. t \in Loop /\ IsFiniteSet(t.reg)
  BY DEF LoopSane, Core
<1> QED BY <1>1, Typed, PostforkIs

LEMMA SaneFork ==
  ASSUME NEW t, LoopSane(t)
  PROVE  Sanely(t, loop_fork(t))
<1> DEFINE c == [t EXCEPT !.reg = {}]
           b == backend_fork(t)
           u == [b EXCEPT !.postfork = FALSE]
<1>1. Sanely(t, b)
  <2>1. c = BackendSet(t, t.anfds, t.vec, t.polls, t.pollidxs, t.eperms, t.changes, {}, t.postfork)
    BY RegsOf DEF BackendSet, Loop
  <2> HIDE DEF c
  <2>2. {} \in SUBSET Registration /\ IsFiniteSet({})
    BY FS_EmptySet
  <2>3. Sanely(t, c)
    BY <2>1, <2>2, RegsOf, SaneRegs, ZenonT(60)
  <2>4. Sanely(c, fd_rearm_all(c))
    BY <2>3, SaneRearm DEF Sanely
  <2>5. b = t \/ b = fd_rearm_all(c)
    BY DEF backend_fork, c
  <2> QED BY <2>3, <2>4, <2>5, SaneSelf, SaneTwice
<1> HIDE DEF b
<1>2. LoopSane(b)
  BY <1>1 DEF Sanely
<1>3. u = BackendSet(b, b.anfds, b.vec, b.polls, b.pollidxs, b.eperms, b.changes, b.reg, FALSE)
  BY <1>2, RegsOf DEF BackendSet, Loop
<1> HIDE DEF u
<1>4. Sanely(b, u)
  <2>1. /\ b \in Loop /\ b.changes \in Seq(Change) /\ b.vec \in [Fd -> SUBSET Both]
        /\ b.eperms \in Seq(Fd) /\ b.reg \in SUBSET Registration /\ IsFiniteSet(b.reg)
    BY <1>2, RegsOf
  <2>2. IsFlag(FALSE)
    BY Flags
  <2> DEFINE f == FALSE
  <2>3. IsFlag(f) /\ u = BackendSet(b, b.anfds, b.vec, b.polls, b.pollidxs, b.eperms, b.changes, b.reg, f)
    BY <1>3, <2>2
  <2> HIDE DEF f
  <2> QED BY <1>2, <2>1, <2>3, SaneRegs
<1> QED BY <1>1, <1>4, SaneSelf, SaneTwice DEF loop_fork, u, b

-----------------------------------------------------------------------------
(* backend_poll                                                            *)

IsReport(got) ==
  got = [e \in DOMAIN got |-> got[e]] /\ \A e \in DOMAIN got : got[e] \in SUBSET Both

LEMMA ReportsIs ==
  ASSUME NEW t, NEW got \in Reports(t)
  PROVE  IsReport(got) /\ DOMAIN got \subseteq Watched(t)
<1>1. PICK E \in SUBSET {e \in Watched(t) : e.file # 0} : got \in [E -> SUBSET Both]
  BY DEF Reports
<1> QED BY <1>1 DEF IsReport

LEMMA GotIs ==
  ASSUME NEW got, IsReport(got), NEW fd
  PROVE  Got(got, fd) \in SUBSET Both
BY DEF IsReport, Got

LEMMA SaneSelectPoll ==
  ASSUME NEW t, LoopSane(t), NEW got, IsReport(got), NEW nomem
  PROVE  Sanely(t, select_poll(t, got, nomem))
<1>1. ASSUME NEW fd \in Fd, NEW v \in Loop, LoopSane(v) PROVE Sanely(v, SelectRound(got)[<<v, fd>>])
  <2>1. Got(got, fd) \in SUBSET Both
    BY GotIs
  <2>2. SelectRound(got)[<<v, fd>>] = IF Got(got, fd) = {} THEN v ELSE fd_event(v, fd, Got(got, fd))
    BY DEF SelectRound
  <2> QED BY <1>1, <2>1, <2>2, SaneSelf, SaneTell
<1>2. \A k \in 1..Len(Ascending) : \A v \in Loop :
        LoopSane(v) /\ v.backend = t.backend => Sanely(v, SelectRound(got)[<<v, Ascending[k]>>])
  BY <1>1, AscendingIs
<1>3. Sanely(t, Along(SelectRound(got), t, Ascending))
  BY <1>2, AscendingIs, SaneAlong
<1> QED BY <1>3, SaneEbadf, SaneEnomem DEF select_poll

LEMMA SanePollPoll ==
  ASSUME NEW t, LoopSane(t), NEW got, IsReport(got), NEW nomem
  PROVE  Sanely(t, poll_poll(t, got, nomem))
<1>1. ASSUME NEW p \in Pollfd, NEW v \in Loop, LoopSane(v) PROVE Sanely(v, PollRound(got)[<<v, p>>])
  <2> DEFINE fd == p.fd
  <2>1. Got(got, fd) \in SUBSET Both
    BY GotIs
  <2>2. PollRound(got)[<<v, p>>] =
          IF ~fd_valid(v, fd) THEN fd_kill(v, fd)
          ELSE IF Got(got, fd) = {} THEN v ELSE fd_event(v, fd, Got(got, fd))
    BY DEF PollRound
  <2>3. fd \in Fd
    BY DEF Pollfd
  <2> HIDE DEF fd
  <2> QED BY <1>1, <2>1, <2>2, <2>3, SaneSelf, SaneTell, SaneKill
<1>2. t.polls \in Seq(Pollfd) /\ Len(t.polls) \in Nat
  BY Typed DEF LoopSane, Core
<1>3. \A k \in 1..Len(t.polls) : \A v \in Loop :
        LoopSane(v) /\ v.backend = t.backend => Sanely(v, PollRound(got)[<<v, t.polls[k]>>])
  BY <1>1, <1>2
<1>4. Sanely(t, Along(PollRound(got), t, t.polls))
  BY <1>2, <1>3, SaneAlong
<1> QED BY <1>4, SaneEnomem DEF poll_poll

LEMMA SaneEpoll ==
  ASSUME NEW t, LoopSane(t), NEW fd \in Fd, NEW m \in SUBSET (Both \cup {"EPERM"}), NEW g \in Nat,
         NEW e \in Seq(Fd), NEW r \in SUBSET Registration, IsFiniteSet(r), NEW b, IsFlag(b),
         NEW u, u = EpollSet(t, fd, m, g, e, r, b)
  PROVE  Sanely(t, u) /\ u.eperms = e
<1>1. Core(u) /\ Calm(t, u) /\ u.eperms = e
  BY WithEpoll DEF LoopSane
<1> QED BY <1>1, SaneCalm

LEMMA SaneTold ==
  ASSUME NEW t, LoopSane(t), NEW e \in Registration, NEW events \in SUBSET Both
  PROVE  Sanely(t, EpollTold(t, e, events))
<1> DEFINE fd   == e.fd
           want == t.anfds[fd].events
           egen == t.anfds[fd].egen
           c    == [t EXCEPT !.anfds[fd].emask = want]
           rec  == [fd |-> fd, file |-> t.file[fd], mask |-> want, gen |-> e.gen]
           regs == (t.reg \ Registered(t, fd)) \cup IF want = {} THEN {} ELSE {rec}
           yes  == TRUE
           r    == EpollTold(t, e, events)
<1>1. /\ t \in Loop /\ t.changes \in Seq(Change) /\ t.vec \in [Fd -> SUBSET Both]
      /\ t.eperms \in Seq(Fd) /\ t.reg \in SUBSET Registration /\ IsFiniteSet(t.reg)
      /\ IsFlag(t.postfork) /\ t.anfds \in [Fd -> ANFD] /\ t.file \in [Fd -> Nat]
  BY RegsOf
<1>2. fd \in Fd /\ e.gen \in Nat
  BY DEF Registration
<1>3. t.anfds[fd] \in ANFD /\ want \in SUBSET Both /\ egen \in Nat /\ t.file[fd] \in Nat
  <2> HIDE DEF fd
  <2> QED BY <1>1, <1>2, AnfdIs
<1>4. want \in SUBSET (Both \cup {"EPERM"})
  BY <1>3
<1>5. regs \in SUBSET Registration /\ IsFiniteSet(regs)
  <2>1. rec \in Registration
    BY <1>2, <1>3 DEF Registration
  <2> HIDE DEF rec
  <2>2. IsFiniteSet(t.reg \ Registered(t, fd))
    BY <1>1, FS_Subset
  <2>3. IsFiniteSet((t.reg \ Registered(t, fd)) \cup {rec})
    BY <2>2, FS_AddElement
  <2>4. regs = t.reg \ Registered(t, fd) \/ regs = (t.reg \ Registered(t, fd)) \cup {rec}
    OBVIOUS
  <2> QED BY <1>1, <2>1, <2>2, <2>3, <2>4
<1>6. IsFlag(yes)
  BY Flags
<1>7. CASE egen # e.gen
  <2>1. r = [t EXCEPT !.postfork = yes]
    BY <1>7 DEF EpollTold
  <2> HIDE DEF r, yes
  <2>2. r = BackendSet(t, t.anfds, t.vec, t.polls, t.pollidxs, t.eperms, t.changes, t.reg, yes)
    BY <1>1, <2>1 DEF BackendSet, Loop
  <2>3. /\ t.changes \in Seq(Change) /\ t.vec \in [Fd -> SUBSET Both]
        /\ t.eperms \in Seq(Fd) /\ t.reg \in SUBSET Registration /\ IsFiniteSet(t.reg)
    BY <1>1
  <2>4. Sanely(t, r)
    BY <1>6, <2>2, <2>3, SaneRegs
  <2> QED BY <2>4 DEF r
<1>8. CASE egen = e.gen /\ events \subseteq want
  <2>1. r = fd_event(t, fd, events)
    BY <1>8 DEF EpollTold
  <2> QED BY <1>2, <2>1, SaneTell
<1>9. CASE egen = e.gen /\ ~(events \subseteq want) /\ (~fd_valid(t, fd) \/ Registered(t, fd) = {})
  <2>1. r = [c EXCEPT !.postfork = yes]
    BY <1>9 DEF EpollTold
  <2>2. r = EpollSet(t, fd, want, egen, t.eperms, t.reg, yes)
    <3> HIDE DEF yes, r
    <3> QED BY <1>1, <1>2, <1>3, <2>1, ZenonT(60) DEF EpollSet, Loop, ANFD
  <2> HIDE DEF r, yes, want, egen, fd
  <2>3. Sanely(t, r)
    BY <1>1, <1>2, <1>3, <1>4, <1>6, <2>2, SaneEpoll
  <2> QED BY <2>3 DEF r
<1>10. CASE egen = e.gen /\ ~(events \subseteq want) /\ ~(~fd_valid(t, fd) \/ Registered(t, fd) = {})
  <2> DEFINE u == Control(c, fd, want, e.gen)
  <2>1. r = fd_event(u, fd, events)
    BY <1>10 DEF EpollTold
  <2>2. c.file = t.file /\ c.reg = t.reg
    BY <1>1 DEF Loop
  <2>3. Registered(c, fd) = Registered(t, fd)
    <3> HIDE DEF c
    <3> QED BY <2>2 DEF Registered
  <2>4. u = [c EXCEPT !.reg = regs]
    <3> HIDE DEF c
    <3> QED BY <2>2, <2>3 DEF Control
  <2>5. [c EXCEPT !.reg = regs] = EpollSet(t, fd, want, egen, t.eperms, regs, t.postfork)
    <3> HIDE DEF regs
    <3> QED BY <1>1, <1>2, <1>3, ZenonT(60) DEF EpollSet, Loop, ANFD
  <2> HIDE DEF r, u, c, regs, want, egen, fd
  <2>6. Sanely(t, u)
    BY <1>1, <1>2, <1>3, <1>4, <1>5, <2>4, <2>5, SaneEpoll
  <2>7. Sanely(u, r)
    BY <1>2, <2>1, <2>6, SaneTell DEF Sanely
  <2>8. Sanely(t, r)
    BY <2>6, <2>7, SaneTwice
  <2> QED BY <2>8 DEF r
<1> QED BY <1>7, <1>8, <1>9, <1>10

\* got, in some order.
LEMMA OrderIs ==
  ASSUME NEW got, DOMAIN got \subseteq Registration, IsFiniteSet(DOMAIN got)
  PROVE  /\ Len(SetToSeq(DOMAIN got)) \in Nat
         /\ \A k \in 1..Len(SetToSeq(DOMAIN got)) :
              SetToSeq(DOMAIN got)[k] \in Registration /\ SetToSeq(DOMAIN got)[k] \in DOMAIN got
<1>1. SetToSeq(DOMAIN got) \in Seq(DOMAIN got)
  BY SetToSeqIs
<1> QED BY <1>1

LEMMA SaneEperms ==
  ASSUME NEW t, LoopSane(t), NEW n, n = Len(t.eperms)
  PROVE  Sanely(t, Along(EpermRound, t, [k \in 1..n |-> n + 1 - k]))
<1> DEFINE seq == [k \in 1..n |-> n + 1 - k]
           J == [k \in Nat |-> {u \in Loop : Sanely(t, u) /\ n - k <= Len(u.eperms)}]
<1>1. t \in Loop /\ n \in Nat
  BY RegsOf
<1>2. Len(seq) = n
  BY <1>1
<1>3. t \in J[0]
  <2>1. n - 0 <= Len(t.eperms) /\ 0 \in Nat
    BY <1>1
  <2> QED BY <1>1, <2>1, SaneSelf
<1>4. ASSUME NEW k \in 1..n, NEW v \in J[k - 1] PROVE EpermRound[<<v, seq[k]>>] \in J[k]
  <2> DEFINE i  == n + 1 - k
             m  == Len(v.eperms)
             fd == v.eperms[i]
             l  == [v.eperms EXCEPT ![i] = v.eperms[m]]
             e  == SubSeq(l, 1, m - 1)
             c  == [v EXCEPT !.eperms = e]
             u  == EpermRound[<<v, i>>]
  <2>1. k - 1 \in Nat /\ k \in Nat /\ i \in 1..n
    BY <1>1
  <2>2. v \in Loop /\ Sanely(t, v) /\ n - (k - 1) <= m
    BY <1>4, <2>1
  <2> HIDE DEF J
  <2>3. v.eperms \in Seq(Fd) /\ m \in Nat /\ LoopSane(v) /\ i \in 1..m
    <3>1. LoopSane(v)
      BY <2>2 DEF Sanely
    <3>2. v.eperms \in Seq(Fd) /\ m \in Nat
      BY <3>1, RegsOf
    <3> QED BY <1>1, <2>1, <2>2, <3>1, <3>2
  <2>4. fd \in Fd /\ v.anfds[fd].events \in SUBSET Both
    <3>1. fd \in Fd
      BY <2>3
    <3> HIDE DEF fd
    <3> QED BY <2>2, <3>1, AnfdIs
  <2>5. u = fd_event(v, fd, v.anfds[fd].events) \/ u = c
    <3>1. i \in Nat
      BY <2>1
    <3> HIDE DEF i
    <3> QED BY <2>2, <3>1 DEF EpermRound
  <2>6. /\ Sanely(v, fd_event(v, fd, v.anfds[fd].events))
        /\ fd_event(v, fd, v.anfds[fd].events).eperms = v.eperms
    <3> DEFINE x == v.anfds[fd].events
    <3>1. x \in SUBSET Both
      BY <2>4
    <3> HIDE DEF fd, x
    <3>2. Sanely(v, fd_event(v, fd, x)) /\ fd_event(v, fd, x).eperms = v.eperms
      BY <2>3, <2>4, <3>1, SaneTell
    <3> QED BY <3>2 DEF x
  <2>7. e \in Seq(Fd) /\ Len(e) = m - 1
    <3>1. l \in Seq(Fd) /\ Len(l) = m
      BY <2>3
    <3>2. m # 0
      BY <2>1, <2>3
    <3> HIDE DEF l
    <3>3. Len(l) # 0 /\ SubSeq(l, 1, Len(l) - 1) \in Seq(Fd) /\ Len(SubSeq(l, 1, Len(l) - 1)) = Len(l) - 1
      BY <3>1, <3>2, Shortened
    <3> QED BY <3>1, <3>3
  <2> HIDE DEF e
  <2>8. c = BackendSet(v, v.anfds, v.vec, v.polls, v.pollidxs, e, v.changes, v.reg, v.postfork)
    BY <2>2 DEF BackendSet, Loop
  <2> HIDE DEF c
  <2>9. Sanely(v, c) /\ c.eperms = e
    <3>1. /\ v \in Loop /\ v.changes \in Seq(Change) /\ v.vec \in [Fd -> SUBSET Both]
          /\ v.reg \in SUBSET Registration /\ IsFiniteSet(v.reg) /\ IsFlag(v.postfork)
      BY <2>3, RegsOf
    <3> QED BY <2>3, <2>7, <2>8, <3>1, SaneRegs
  <2>10. Sanely(v, u) /\ (u.eperms = v.eperms \/ u.eperms = e)
    BY <2>5, <2>6, <2>9
  <2> HIDE DEF u
  <2>11. n - k <= Len(u.eperms)
    <3>1. Len(u.eperms) = m \/ Len(u.eperms) = m - 1
      BY <2>7, <2>10
    <3> HIDE DEF m
    <3> QED BY <1>1, <2>1, <2>2, <2>3, <3>1
  <2>12. Sanely(t, u) /\ u \in Loop
    BY <2>2, <2>10, SaneTwice DEF Sanely
  <2>13. u \in J[k]
    BY <2>1, <2>11, <2>12 DEF J
  <2>14. seq[k] = i
    OBVIOUS
  <2> QED BY <2>13, <2>14 DEF u
<1>5. Along(EpermRound, t, seq) \in J[n]
  <2> HIDE DEF J, seq
  <2> QED BY <1>1, <1>2, <1>3, <1>4, AlongReaches
<1> QED BY <1>1, <1>5

LEMMA SaneEpollPoll ==
  ASSUME NEW t, LoopSane(t), t.backend = "epoll", NEW got, IsReport(got), DOMAIN got \subseteq Watched(t)
  PROVE  Sanely(t, epoll_poll(t, got))
<1> DEFINE seq == SetToSeq(DOMAIN got)
           u   == Along(EpollRound(got), t, seq)
           n   == Len(u.eperms)
<1>1. DOMAIN got \subseteq Registration /\ IsFiniteSet(DOMAIN got)
  <2>1. Watched(t) = t.reg
    BY DEF Watched
  <2> QED BY <2>1, RegsOf, FS_Subset
<1>2. Len(seq) \in Nat /\ \A k \in 1..Len(seq) : seq[k] \in Registration /\ seq[k] \in DOMAIN got
  BY <1>1, OrderIs
<1> HIDE DEF seq
<1>3. ASSUME NEW k \in 1..Len(seq), NEW v \in Loop, LoopSane(v)
      PROVE  Sanely(v, EpollRound(got)[<<v, seq[k]>>])
  <2> DEFINE e == seq[k]
             evs == got[e]
  <2>1. e \in Registration /\ evs \in SUBSET Both
    BY <1>2 DEF IsReport
  <2>2. EpollRound(got)[<<v, e>>] = EpollTold(v, e, evs)
    BY <2>1 DEF EpollRound
  <2> HIDE DEF evs, e
  <2>3. Sanely(v, EpollTold(v, e, evs))
    BY <1>3, <2>1, SaneTold
  <2> QED BY <2>2, <2>3 DEF e
<1>4. Sanely(t, u)
  <2>1. \A k \in 1..Len(seq) : \A v \in Loop :
          LoopSane(v) /\ v.backend = t.backend => Sanely(v, EpollRound(got)[<<v, seq[k]>>])
    BY <1>3
  <2> QED BY <1>2, <2>1, SaneAlong
<1>5. epoll_poll(t, got) = Along(EpermRound, u, [k \in 1..n |-> n + 1 - k])
  BY DEF epoll_poll, seq
<1> HIDE DEF u
<1>6. Sanely(u, Along(EpermRound, u, [k \in 1..n |-> n + 1 - k]))
  <2>1. LoopSane(u)
    BY <1>4 DEF Sanely
  <2> QED BY <2>1, SaneEperms
<1> QED BY <1>4, <1>5, <1>6, SaneTwice

LEMMA KeventIs ==
  ASSUME NEW t, LoopSane(t)
  PROVE  /\ Kevent(t).reg \in SUBSET Registration /\ IsFiniteSet(Kevent(t).reg)
         /\ Kevent(t).errors \in Seq(Failure)
<1> DEFINE K == [reg : SUBSET Registration, errors : Seq(Failure)]
           J == {k \in K : IsFiniteSet(k.reg)}
           x == [reg |-> t.reg, errors |-> <<>>]
<1>1. /\ t.reg \in SUBSET Registration /\ IsFiniteSet(t.reg) /\ t.file \in [Fd -> Nat]
      /\ t.changes \in Seq(Change) /\ Len(t.changes) \in Nat
  BY RegsOf
<1>2. x \in J
  BY <1>1
<1>3. ASSUME NEW i \in 1..Len(t.changes), NEW k \in J
      PROVE  KeventRound(t.file)[<<k, t.changes[i]>>] \in J
  <2> DEFINE c == t.changes[i]
             r == [fd |-> c.fd, file |-> t.file[c.fd], mask |-> {c.filter}, gen |-> 0]
             bad  == [k EXCEPT !.errors = Append(@, [fd |-> c.fd, error |-> "EBADF"])]
             lost == [k EXCEPT !.errors = Append(@, [fd |-> c.fd, error |-> "ENOENT"])]
             more == [k EXCEPT !.reg = @ \cup {r}]
             less == [k EXCEPT !.reg = @ \ {r}]
  <2>1. c \in Change /\ c.fd \in Fd /\ c.filter \in Both
    <3>1. c \in Change
      BY <1>1
    <3> QED BY <3>1 DEF Change
  <2>2. k \in K /\ IsFiniteSet(k.reg) /\ k.reg \in SUBSET Registration /\ k.errors \in Seq(Failure)
    OBVIOUS
  <2>3. r \in Registration
    BY <1>1, <2>1 DEF Registration
  <2>4. KeventRound(t.file)[<<k, c>>] \in {bad, lost, more, less}
    BY <2>1, <2>2 DEF KeventRound
  <2> HIDE DEF r
  <2>5. bad \in J /\ lost \in J
    <3>1. [fd |-> c.fd, error |-> "EBADF"] \in Failure /\ [fd |-> c.fd, error |-> "ENOENT"] \in Failure
      BY <2>1 DEF Failure
    <3> DEFINE b == [fd |-> c.fd, error |-> "EBADF"]
               l == [fd |-> c.fd, error |-> "ENOENT"]
    <3>2. bad = [k EXCEPT !.errors = Append(k.errors, b)] /\ lost = [k EXCEPT !.errors = Append(k.errors, l)]
      OBVIOUS
    <3>3. b \in Failure /\ l \in Failure
      BY <3>1
    <3> HIDE DEF b, l, c
    <3>4. Append(k.errors, b) \in Seq(Failure) /\ Append(k.errors, l) \in Seq(Failure)
      BY <2>2, <3>3
    <3>5. \A z \in Seq(Failure) :
            [k EXCEPT !.errors = z] \in K /\ [k EXCEPT !.errors = z].reg = k.reg
      BY <2>2
    <3>6. bad \in K /\ bad.reg = k.reg /\ lost \in K /\ lost.reg = k.reg
      <4> HIDE DEF K, bad, lost
      <4> QED BY <3>2, <3>4, <3>5
    <3> QED BY <2>2, <3>6
  <2>6. more \in J
    <3>1. more \in K /\ more.reg = k.reg \cup {r}
      BY <2>2, <2>3
    <3>2. IsFiniteSet(k.reg \cup {r})
      BY <2>2, FS_AddElement
    <3> QED BY <3>1, <3>2
  <2>7. less \in J
    <3>1. less \in K /\ less.reg = k.reg \ {r}
      BY <2>2
    <3>2. IsFiniteSet(k.reg \ {r})
      BY <2>2, FS_Subset
    <3> QED BY <3>1, <3>2
  <2> QED BY <2>4, <2>5, <2>6, <2>7
<1>4. Kevent(t) \in J
  <2> HIDE DEF J, x
  <2>1. Along(KeventRound(t.file), x, t.changes) \in J
    BY <1>1, <1>2, <1>3, AlongKeeps
  <2> QED BY <2>1 DEF Kevent, x
<1> QED BY <1>4

LEMMA SaneKqueuePoll ==
  ASSUME NEW t, LoopSane(t), t.backend = "kqueue", NEW got, IsReport(got), DOMAIN got \subseteq Watched(t)
  PROVE  Sanely(t, kqueue_poll(t, got))
<1> DEFINE seq == SetToSeq(DOMAIN got)
           k   == Kevent(t)
           reg == k.reg
           errors == k.errors
           c   == [t EXCEPT !.changes = <<>>, !.reg = reg]
           u   == Along(FailureRound, c, errors)
<1>1. reg \in SUBSET Registration /\ IsFiniteSet(reg) /\ errors \in Seq(Failure)
  BY KeventIs
<1>2. DOMAIN got \subseteq Registration /\ IsFiniteSet(DOMAIN got)
  <2>1. Watched(t) = reg
    BY DEF Watched
  <2> HIDE DEF reg
  <2> QED BY <1>1, <2>1, FS_Subset
<1>3. Len(seq) \in Nat /\ \A i \in 1..Len(seq) : seq[i] \in Registration /\ seq[i] \in DOMAIN got
  BY <1>2, OrderIs
<1>4. kqueue_poll(t, got) = Along(KqueueRound(got), u, seq)
  BY DEF kqueue_poll
<1> HIDE DEF seq, k, reg, errors
<1>5. Sanely(t, c)
  <2> DEFINE none == <<>>
  <2>1. c = BackendSet(t, t.anfds, t.vec, t.polls, t.pollidxs, t.eperms, none, reg, t.postfork)
    BY RegsOf DEF BackendSet, Loop
  <2> HIDE DEF c
  <2>2. none \in Seq(Change)
    OBVIOUS
  <2> HIDE DEF none
  <2> QED BY <1>1, <2>1, <2>2, RegsOf, SaneRegs, ZenonT(60)
<1> HIDE DEF c
<1>6. LoopSane(c)
  BY <1>5 DEF Sanely
<1>7. ASSUME NEW x \in Failure, NEW v \in Loop, LoopSane(v) PROVE Sanely(v, FailureRound[<<v, x>>])
  <2> DEFINE fd  == x.fd
             evs == v.anfds[fd].events
             kq  == kqueue_modify(v, fd, {}, evs)
  <2>1. fd \in Fd
    BY DEF Failure
  <2>2. FailureRound[<<v, x>>] \in {v, kq, fd_kill(v, fd)}
    BY <1>7 DEF FailureRound
  <2> HIDE DEF fd
  <2>3. evs \in SUBSET Both /\ {} \in SUBSET Both
    BY <2>1, AnfdIs
  <2>4. Core(kq) /\ Calm(v, kq)
    <3> HIDE DEF evs
    <3> QED BY <1>7, <2>1, <2>3, KqueueModifyIs DEF LoopSane
  <2> HIDE DEF kq
  <2>5. Sanely(v, kq)
    BY <1>7, <2>4, SaneCalm
  <2> QED BY <1>7, <2>1, <2>2, <2>5, SaneSelf, SaneKill
<1>8. Sanely(c, u)
  <2>1. Len(errors) \in Nat /\ \A i \in 1..Len(errors) : errors[i] \in Failure
    BY <1>1
  <2>2. \A i \in 1..Len(errors) : \A v \in Loop :
          LoopSane(v) /\ v.backend = c.backend => Sanely(v, FailureRound[<<v, errors[i]>>])
    BY <1>7, <2>1
  <2> QED BY <1>6, <2>1, <2>2, SaneAlong
<1> HIDE DEF u
<1>9. ASSUME NEW i \in 1..Len(seq), NEW v \in Loop, LoopSane(v)
      PROVE  Sanely(v, KqueueRound(got)[<<v, seq[i]>>])
  <2> DEFINE e == seq[i]
             evs == got[e]
             fd == e.fd
  <2>1. e \in Registration /\ evs \in SUBSET Both /\ fd \in Fd
    BY <1>3 DEF IsReport, Registration
  <2>2. KqueueRound(got)[<<v, e>>] = fd_event(v, fd, evs)
    BY <2>1 DEF KqueueRound
  <2> HIDE DEF evs, e, fd
  <2>3. Sanely(v, fd_event(v, fd, evs))
    BY <1>9, <2>1, SaneTell
  <2> QED BY <2>2, <2>3 DEF e
<1>10. Sanely(u, Along(KqueueRound(got), u, seq))
  <2>1. LoopSane(u)
    BY <1>8 DEF Sanely
  <2>2. \A i \in 1..Len(seq) : \A v \in Loop :
          LoopSane(v) /\ v.backend = u.backend => Sanely(v, KqueueRound(got)[<<v, seq[i]>>])
    BY <1>9
  <2> QED BY <1>3, <2>1, <2>2, SaneAlong
<1> QED BY <1>4, <1>5, <1>8, <1>10, SaneTwice

LEMMA SanePortPoll ==
  ASSUME NEW t, LoopSane(t), t.backend = "port", NEW got, IsReport(got), DOMAIN got \subseteq Watched(t)
  PROVE  Sanely(t, port_poll(t, got))
<1> DEFINE seq == SetToSeq(DOMAIN got)
<1>1. DOMAIN got \subseteq Registration /\ IsFiniteSet(DOMAIN got)
  <2>1. Watched(t) = t.reg
    BY DEF Watched
  <2> QED BY <2>1, RegsOf, FS_Subset
<1>2. Len(seq) \in Nat /\ \A k \in 1..Len(seq) : seq[k] \in Registration /\ seq[k] \in DOMAIN got
  BY <1>1, OrderIs
<1>3. port_poll(t, got) = Along(PortRound(got), t, seq)
  BY DEF port_poll
<1> HIDE DEF seq
<1>4. ASSUME NEW k \in 1..Len(seq), NEW v \in Loop, LoopSane(v)
      PROVE  Sanely(v, PortRound(got)[<<v, seq[k]>>])
  <2> DEFINE e == seq[k]
             evs == got[e]
             fd == e.fd
             reg == v.reg \ {e}
             c == [v EXCEPT !.reg = reg]
             u == fd_event(c, fd, evs)
             w == fd_change(u, fd, {"IOFDSET"})
  <2>1. e \in Registration /\ evs \in SUBSET Both /\ fd \in Fd
    BY <1>2 DEF IsReport, Registration
  <2>2. PortRound(got)[<<v, e>>] = w
    BY <2>1 DEF PortRound
  <2> HIDE DEF evs, e, fd
  <2>3. reg \in SUBSET Registration /\ IsFiniteSet(reg)
    BY <1>4, RegsOf, FS_Subset
  <2> HIDE DEF reg
  <2>4. c = BackendSet(v, v.anfds, v.vec, v.polls, v.pollidxs, v.eperms, v.changes, reg, v.postfork)
    BY <1>4, RegsOf DEF BackendSet, Loop
  <2> HIDE DEF c, w
  <2>5. Sanely(v, c)
    <3>1. /\ v \in Loop /\ v.changes \in Seq(Change) /\ v.vec \in [Fd -> SUBSET Both]
          /\ v.eperms \in Seq(Fd) /\ IsFlag(v.postfork)
      BY <1>4, RegsOf
    <3> QED BY <1>4, <2>3, <2>4, <3>1, SaneRegs
  <2>6. Sanely(c, u)
    BY <2>1, <2>5, SaneTell DEF Sanely
  <2> HIDE DEF u
  <2>7. Sanely(u, w)
    <3>1. {"IOFDSET"} \in SUBSET {"REIFY", "IOFDSET"} /\ {"IOFDSET"} # {}
      OBVIOUS
    <3> QED BY <2>1, <2>6, <3>1, SaneChange DEF Sanely, w
  <2>8. Sanely(v, w)
    BY <2>5, <2>6, <2>7, SaneTwice
  <2> QED BY <2>2, <2>8 DEF e
<1>5. Sanely(t, Along(PortRound(got), t, seq))
  <2>1. \A k \in 1..Len(seq) : \A v \in Loop :
          LoopSane(v) /\ v.backend = t.backend => Sanely(v, PortRound(got)[<<v, seq[k]>>])
    BY <1>4
  <2> QED BY <1>2, <2>1, SaneAlong
<1> QED BY <1>3, <1>5

LEMMA SanePoll ==
  ASSUME NEW t, LoopSane(t), t.backend \in Backends, NEW got \in Reports(t), NEW nomem
  PROVE  Sanely(t, backend_poll(t, got, nomem))
<1>1. IsReport(got) /\ DOMAIN got \subseteq Watched(t)
  BY ReportsIs
<1>2. CASE t.backend = "select"
  BY <1>1, <1>2, SaneSelectPoll DEF backend_poll
<1>3. CASE t.backend = "poll"
  BY <1>1, <1>3, SanePollPoll DEF backend_poll
<1>4. CASE t.backend = "epoll"
  BY <1>1, <1>4, SaneEpollPoll DEF backend_poll
<1>5. CASE t.backend = "kqueue"
  BY <1>1, <1>5, SaneKqueuePoll DEF backend_poll
<1>6. CASE t.backend = "port"
  BY <1>1, <1>6, SanePortPoll DEF backend_poll
<1> QED BY <1>2, <1>3, <1>4, <1>5, <1>6 DEF Backends

-----------------------------------------------------------------------------
(* Watchers in arrays, and for children                                    *)

LEMMA SaneIo ==
  ASSUME NEW t, LoopSane(t), NEW w \in Watcher, kind[w] = "io"
  PROVE  Sanely(t, ev_io_start(t, w)) /\ Sanely(t, ev_io_stop(t, w))
<1>1. t \in Loop /\ Core(t) /\ ChangesFrom(t, 1)
  BY DEF LoopSane, Core
<1>2. Len(t.fdchanges) \in Nat
  BY <1>1, Typed
<1>3. 1 \in 1..Len(t.fdchanges) + 1
  BY <1>2
<1>4. \A u : Core(u) /\ Onward(t, u) /\ Extends(t, u, t.fd[w]) => Sanely(t, u)
  BY <1>1, <1>3 DEF Extends, Sanely, LoopSane, Core
<1>5. /\ Core(ev_io_start(t, w)) /\ Onward(t, ev_io_start(t, w))
      /\ Extends(t, ev_io_start(t, w), t.fd[w])
  BY <1>1, IoStartCore
<1>6. /\ Core(ev_io_stop(t, w)) /\ Onward(t, ev_io_stop(t, w))
      /\ Extends(t, ev_io_stop(t, w), t.fd[w])
  BY <1>1, IoStopCore
<1> QED BY <1>4, <1>5, <1>6

Relinked(t, a, n, ar, ch) == [t EXCEPT !.active = a, !.activecnt = n, !.arrays = ar, !.childs = ch]

LEMMA SaneLinks ==
  ASSUME NEW t, LoopSane(t), NEW a \in [Watcher -> Nat], NEW n \in Int, NEW ar \in [Keys -> Seq(Watcher)],
         NEW ch \in [0..(HASHSIZE - 1) -> Seq(Watcher)],
         NEW u, u = Relinked(t, a, n, ar, ch)
  PROVE  /\ LinkedTo(t, u, a, n, ar, t.anfds, ch)
         /\ Heads(u) /\ Arrays(u) /\ Childs(u) /\ Counts(u) /\ Waiting(u) => Sanely(t, u)
<1>1. t \in Loop /\ t.anfds \in [Fd -> ANFD] /\ t.set \in [Watcher -> BOOLEAN]
  <2>1. t \in Loop
    BY DEF LoopSane, Core
  <2> QED BY <2>1, Typed
<1>2. u = [t EXCEPT !.active = a, !.activecnt = n, !.arrays = ar, !.anfds = t.anfds,
                    !.childs = ch, !.set = t.set]
  BY <1>1 DEF Loop, Relinked
<1>3. LinkedTo(t, u, a, n, ar, t.anfds, ch)
  BY <1>1, <1>2, WithLinks
<1>4. ASSUME Heads(u), Arrays(u), Childs(u), Counts(u), Waiting(u) PROVE Sanely(t, u)
  <2>1. /\ u \in Loop /\ Indexed(u) /\ IsFiniteSet(u.reg)
        /\ u.anfds = t.anfds /\ u.fdchanges = t.fdchanges /\ Onward(t, u)
    BY <1>3 DEF LinkedTo, SamePolls, LoopSane, Core, Indexed
  <2>2. Core(u)
    BY <1>4, <2>1 DEF Core, Linked
  <2>3. ChangesFrom(u, 1)
    BY <2>1, ChangesKept DEF LoopSane
  <2> QED BY <2>1, <2>2, <2>3 DEF Sanely, LoopSane
<1> QED BY <1>3, <1>4

LEMMA ProgramIs ==
  ASSUME program \in Programs
  PROVE  /\ kind \in [Watcher -> Kinds] /\ program.pid \in [Watcher -> Nat]
         /\ \A w \in Watcher : Chain(program.pid[w]) \in 0..(HASHSIZE - 1)
<1>1. kind \in [Watcher -> Kinds] /\ program.pid \in [Watcher -> Nat]
  BY ProgramAssumption DEF kind
<1>2. \A p \in Nat : p % 2 \in 0..(2 - 1)
  OBVIOUS
<1> QED BY <1>1, <1>2 DEF Chain, HASHSIZE

LEMMA KeyIs ==
  ASSUME program \in Programs, NEW t \in Loop, NEW w \in Watcher
  PROVE  Key(t, w) \in Keys
<1>1. kind[w] \in Kinds
  BY ProgramIs
<1>2. t.pri[w] \in Priorities
  BY Typed, Names
<1> QED BY <1>1, <1>2 DEF Key, Keys

LEMMA SaneArrayStart ==
  ASSUME program \in Programs, NEW t, LoopSane(t), NEW w \in Watcher, kind[w] \notin {"io", "child"}
  PROVE  Sanely(t, ArrayStart(t, w))
<1> DEFINE k   == Key(t, w)
           old == t.arrays[k]
           n   == Len(old)
           new == Append(old, w)
           a   == [t.active EXCEPT ![w] = n + 1]
           ar  == [t.arrays EXCEPT ![k] = new]
           m   == t.activecnt + Counted(w)
           u   == [t EXCEPT !.active = a, !.activecnt = m, !.arrays = ar, !.childs = t.childs]
           r   == ArrayStart(t, w)
<1>1. t \in Loop /\ Heads(t) /\ Arrays(t) /\ Childs(t) /\ Counts(t) /\ Waiting(t)
  BY DEF LoopSane, Core, Linked
<1>2. k \in Keys
  BY <1>1, KeyIs
<1> HIDE DEF k
<1>3. CASE t.active[w] # 0
  BY <1>3, SaneSelf DEF ArrayStart
<1>4. CASE t.active[w] = 0
  <2>1. r = u
    <3>1. r = [t EXCEPT !.arrays[k] = Append(@, w), !.active[w] = n + 1, !.activecnt = @ + Counted(w)]
      BY <1>4 DEF ArrayStart, k
    <3> HIDE DEF r
    <3> QED BY <1>1, <3>1 DEF Loop
  <2>2. /\ t.active \in [Watcher -> Nat] /\ t.arrays \in [Keys -> Seq(Watcher)] /\ t.activecnt \in Int
        /\ t.childs \in [0..(HASHSIZE - 1) -> Seq(Watcher)] /\ Counted(w) \in Int
    BY <1>1, Typed DEF Counted
  <2>3. old \in Seq(Watcher) /\ n \in Nat
    BY <1>2, <2>2
  <2> HIDE DEF old
  <2>4. /\ new \in Seq(Watcher) /\ Len(new) = n + 1 /\ new[n + 1] = w
        /\ \A i \in 1..n : new[i] = old[i]
    BY <2>3
  <2> HIDE DEF new, n
  <2>5. /\ a \in [Watcher -> Nat] /\ a[w] = n + 1 /\ \A x \in Watcher : x # w => a[x] = t.active[x]
    BY <2>2, <2>3
  <2>6. /\ ar \in [Keys -> Seq(Watcher)] /\ ar[k] = new
        /\ \A K \in Keys : K # k => ar[K] = t.arrays[K]
    BY <1>2, <2>2, <2>4
  <2>7. m \in Int
    BY <2>2
  <2> HIDE DEF a, ar, m, u, r
  <2>8. /\ LinkedTo(t, u, a, m, ar, t.anfds, t.childs)
        /\ Heads(u) /\ Arrays(u) /\ Childs(u) /\ Counts(u) /\ Waiting(u) => Sanely(t, u)
    <3>1. u = Relinked(t, a, m, ar, t.childs)
      BY DEF u, Relinked
    <3> QED BY <2>2, <2>5, <2>6, <2>7, <3>1, SaneLinks
  <2>9. /\ u.active = a /\ u.activecnt = m /\ u.arrays = ar /\ u.anfds = t.anfds /\ u.childs = t.childs
        /\ u.q = t.q /\ u.pri = t.pri /\ u.fd = t.fd /\ u.events = t.events /\ u \in Loop
    BY <2>8 DEF LinkedTo
  <2>10. Heads(u) /\ Childs(u)
    <3>1. \A x \in Watcher : kind[x] \in {"io", "child"} => u.active[x] = t.active[x]
      BY <2>5, <2>9
    <3> QED BY <1>1, <2>9, <3>1, HeadsKept, ChildsKept
  <2>11. \A x \in Watcher : Key(u, x) = Key(t, x)
    BY <2>9 DEF Key
  <2>12. ASSUME NEW K \in Keys, NEW i \in 1..Len(u.arrays[K]), NEW v, v = u.arrays[K][i]
         PROVE  u.active[v] = i /\ Key(u, v) = K /\ kind[v] \notin {"io", "child"}
    <3>1. CASE K = k /\ i = n + 1
      BY <2>4, <2>5, <2>6, <2>9, <2>11, <2>12, <3>1 DEF k
    <3>2. CASE ~(K = k /\ i = n + 1)
      <4>1. i \in 1..Len(t.arrays[K]) /\ v = t.arrays[K][i]
        <5>1. CASE K = k
          <6>1. i \in 1..n
            BY <2>3, <2>4, <2>6, <2>9, <3>2, <5>1
          <6> QED BY <2>4, <2>6, <2>9, <2>12, <5>1, <6>1 DEF old, n
        <5>2. CASE K # k
          BY <2>6, <2>9, <2>12, <5>2
        <5> QED BY <5>1, <5>2
      <4>2. v \in Watcher
        BY <2>2, <4>1
      <4>3. t.active[v] = i /\ Key(t, v) = K /\ kind[v] \notin {"io", "child"}
        BY <1>1, <4>1 DEF Arrays
      <4>4. v # w
        BY <1>4, <4>1, <4>3
      <4> QED BY <2>5, <2>9, <2>11, <4>2, <4>3, <4>4
    <3> QED BY <3>1, <3>2
  <2>13. ASSUME NEW v \in Watcher, kind[v] \notin {"io", "child"}, u.active[v] # 0
         PROVE  u.active[v] <= Len(u.arrays[Key(u, v)]) /\ u.arrays[Key(u, v)][u.active[v]] = v
    <3>1. CASE v = w
      BY <2>3, <2>4, <2>5, <2>6, <2>9, <2>11, <3>1 DEF k
    <3>2. CASE v # w
      <4> DEFINE j == t.active[v]
                 K == Key(t, v)
      <4>1. u.active[v] = j /\ j # 0 /\ j \in Nat /\ K \in Keys
        BY <1>1, <2>2, <2>5, <2>9, <2>13, <3>2, KeyIs
      <4>2. j <= Len(t.arrays[K]) /\ t.arrays[K][j] = v
        BY <1>1, <2>13, <4>1 DEF Arrays
      <4> HIDE DEF j, K
      <4>3. j <= Len(u.arrays[K]) /\ u.arrays[K][j] = v
        <5>1. CASE K = k
          <6>1. j \in 1..n /\ old[j] = v
            BY <2>3, <4>1, <4>2, <5>1 DEF old, n
          <6> QED BY <2>3, <2>4, <2>6, <2>9, <5>1, <6>1
        <5>2. CASE K # k
          BY <2>6, <2>9, <4>1, <4>2, <5>2
        <5> QED BY <5>1, <5>2
      <4> QED BY <2>11, <4>1, <4>3 DEF K
    <3> QED BY <3>1, <3>2
  <2>14. Arrays(u)
    BY <2>12, <2>13 DEF Arrays
  <2>15. Counts(u)
    <3>1. u.active[w] # 0 /\ \A v \in Watcher : v # w => (u.active[v] # 0 <=> t.active[v] # 0)
      BY <2>3, <2>5, <2>9
    <3>2. u.activecnt = t.activecnt + Counted(w)
      BY <2>9 DEF m
    <3> QED BY <1>1, <1>4, <3>1, <3>2, CountUp
  <2>16. Waiting(u)
    <3>1. \A x \in Watcher : t.q.pending[x] # 0 /\ t.active[x] # 0 => u.active[x] # 0
      BY <1>4, <2>5, <2>9
    <3> QED BY <1>1, <2>9, <3>1, WaitingActive
  <2> QED BY <2>1, <2>8, <2>10, <2>14, <2>15, <2>16 DEF r
<1> QED BY <1>3, <1>4

\* What takes the place of the one at i0, the last of old.
MovedUp(old, i0) == SubSeq([old EXCEPT ![i0] = Last(old)], 1, Len(old) - 1)

LEMMA MovedUpIs ==
  ASSUME NEW S, NEW old \in Seq(S), NEW i0 \in 1..Len(old)
  PROVE  /\ MovedUp(old, i0) \in Seq(S) /\ Len(MovedUp(old, i0)) = Len(old) - 1
         /\ \A j \in 1..Len(old) - 1 : MovedUp(old, i0)[j] = IF j = i0 THEN old[Len(old)] ELSE old[j]
<1> DEFINE n == Len(old)
           l == [old EXCEPT ![i0] = Last(old)]
<1>1. n \in Nat /\ n # 0 /\ Last(old) = old[n] /\ old[n] \in S
  BY DEF Last
<1>2. l \in Seq(S) /\ Len(l) = n /\ \A j \in 1..n : l[j] = IF j = i0 THEN old[n] ELSE old[j]
  BY <1>1
<1> HIDE DEF l
<1>3. /\ SubSeq(l, 1, Len(l) - 1) \in Seq(S) /\ Len(SubSeq(l, 1, Len(l) - 1)) = Len(l) - 1
      /\ \A i \in 1..Len(l) - 1 : SubSeq(l, 1, Len(l) - 1)[i] = l[i]
  BY <1>1, <1>2, Shortened
<1>4. MovedUp(old, i0) = SubSeq(l, 1, Len(l) - 1)
  BY <1>2 DEF MovedUp, l
<1>5. \A j \in 1..n - 1 : j \in 1..n
  BY <1>1
<1> QED BY <1>2, <1>3, <1>4, <1>5

\* The part of ArrayStop after clear_pending.
ArrayUnlink(t, w) ==
  [t EXCEPT !.arrays[Key(t, w)] = MovedUp(t.arrays[Key(t, w)], t.active[w]),
            !.active = [t.active EXCEPT ![Last(t.arrays[Key(t, w)])] = t.active[w], ![w] = 0],
            !.activecnt = @ - Counted(w)]

LEMMA SaneArrayUnlink ==
  ASSUME program \in Programs, NEW t, LoopSane(t), NEW w \in Watcher, kind[w] \notin {"io", "child"},
         t.active[w] # 0, t.q.pending[w] = 0,
         NEW u, u = ArrayUnlink(t, w)
  PROVE  Sanely(t, u)
<1> DEFINE k   == Key(t, w)
           old == t.arrays[k]
           n   == Len(old)
           i0  == t.active[w]
           l   == Last(old)
           new == MovedUp(old, i0)
           a   == [[t.active EXCEPT ![l] = i0] EXCEPT ![w] = 0]
           ar  == [t.arrays EXCEPT ![k] = new]
           m   == t.activecnt - Counted(w)
<1>1. t \in Loop /\ Heads(t) /\ Arrays(t) /\ Childs(t) /\ Counts(t) /\ Waiting(t)
  BY DEF LoopSane, Core, Linked
<1>2. /\ t.active \in [Watcher -> Nat] /\ t.arrays \in [Keys -> Seq(Watcher)] /\ t.activecnt \in Int
      /\ t.childs \in [0..(HASHSIZE - 1) -> Seq(Watcher)] /\ Counted(w) \in Int
  BY <1>1, Typed DEF Counted
<1>3. k \in Keys
  BY <1>1, KeyIs
<1>4. old \in Seq(Watcher) /\ n \in Nat /\ i0 \in 1..n /\ old[i0] = w
  <2>1. i0 <= n /\ old[i0] = w
    BY <1>1 DEF Arrays
  <2> HIDE DEF k
  <2>2. old \in Seq(Watcher) /\ n \in Nat
    BY <1>2, <1>3
  <2>3. i0 \in Nat
    BY <1>2
  <2> HIDE DEF old, i0
  <2> QED BY <2>1, <2>2, <2>3 DEF i0
<1>5. u = [t EXCEPT !.active = a, !.activecnt = m, !.arrays = ar, !.childs = t.childs]
  <2>1. u = [t EXCEPT !.arrays[k] = new, !.active = a, !.activecnt = @ - Counted(w)]
    BY DEF ArrayUnlink
  <2> HIDE DEF k, new, a
  <2> QED BY <1>1, <2>1 DEF Loop
<1>6. /\ l = old[n] /\ l \in Watcher /\ n \in 1..n /\ t.active[l] = n /\ Key(t, l) = k
      /\ kind[l] \notin {"io", "child"}
  <2>1. l = old[n] /\ n \in 1..n /\ l \in Watcher
    <3> HIDE DEF old
    <3> QED BY <1>4 DEF Last
  <2> HIDE DEF k, l
  <2> QED BY <1>1, <1>3, <2>1 DEF Arrays
<1>7. /\ new \in Seq(Watcher) /\ Len(new) = n - 1
      /\ \A j \in 1..n - 1 : new[j] = IF j = i0 THEN l ELSE old[j]
  <2> HIDE DEF old, i0, l
  <2> QED BY <1>4, <1>6, MovedUpIs
<1> HIDE DEF k, old, n, l, new
<1>8. /\ a \in [Watcher -> Nat] /\ a[w] = 0 /\ (l # w => a[l] = i0)
      /\ \A x \in Watcher : x # w /\ x # l => a[x] = t.active[x]
  BY <1>2, <1>4, <1>6
<1>9. ar \in [Keys -> Seq(Watcher)] /\ ar[k] = new /\ \A K \in Keys : K # k => ar[K] = t.arrays[K]
  BY <1>2, <1>3, <1>7
<1>10. m \in Int
  BY <1>2
<1> HIDE DEF a, ar, m
<1>11. /\ LinkedTo(t, u, a, m, ar, t.anfds, t.childs)
       /\ Heads(u) /\ Arrays(u) /\ Childs(u) /\ Counts(u) /\ Waiting(u) => Sanely(t, u)
  <2>1. a \in [Watcher -> Nat] /\ ar \in [Keys -> Seq(Watcher)] /\ m \in Int
    BY <1>8, <1>9, <1>10
  <2> DEFINE ch == t.childs
  <2>2. ch \in [0..(HASHSIZE - 1) -> Seq(Watcher)]
    BY <1>2
  <2>3. u = Relinked(t, a, m, ar, ch)
    BY <1>5 DEF Relinked
  <2> HIDE DEF ch
  <2>4. /\ LinkedTo(t, u, a, m, ar, t.anfds, ch)
        /\ Heads(u) /\ Arrays(u) /\ Childs(u) /\ Counts(u) /\ Waiting(u) => Sanely(t, u)
    BY <2>1, <2>2, <2>3, SaneLinks
  <2> QED BY <2>4 DEF ch
<1>12. /\ u.active = a /\ u.activecnt = m /\ u.arrays = ar /\ u.anfds = t.anfds /\ u.childs = t.childs
       /\ u.q = t.q /\ u.pri = t.pri /\ u.fd = t.fd /\ u.events = t.events /\ u \in Loop
  BY <1>11 DEF LinkedTo
<1>13. Heads(u) /\ Childs(u)
  <2>1. \A x \in Watcher : kind[x] \in {"io", "child"} => u.active[x] = t.active[x]
    BY <1>6, <1>8, <1>12
  <2> QED BY <1>1, <1>12, <2>1, HeadsKept, ChildsKept
<1>14. \A x \in Watcher : Key(u, x) = Key(t, x)
  BY <1>12 DEF Key
<1>15. \A i \in 1..n : /\ old[i] \in Watcher /\ t.active[old[i]] = i /\ Key(t, old[i]) = k
                       /\ kind[old[i]] \notin {"io", "child"}
  BY <1>1, <1>3, <1>4 DEF Arrays, old, n
<1>16. ASSUME NEW K \in Keys, NEW i \in 1..Len(u.arrays[K]), NEW v, v = u.arrays[K][i]
       PROVE  u.active[v] = i /\ Key(u, v) = K /\ kind[v] \notin {"io", "child"}
  <2>1. CASE K = k
    <3>1. i \in 1..n - 1 /\ i \in 1..n /\ i # n /\ v = new[i]
      BY <1>4, <1>7, <1>9, <1>12, <1>16, <2>1
    <3>2. CASE i = i0
      <4>1. v = l /\ l # w
        BY <1>4, <1>6, <1>7, <3>1, <3>2
      <4> QED BY <1>6, <1>8, <1>12, <1>14, <2>1, <3>2, <4>1
    <3>3. CASE i # i0
      <4>1. v = old[i]
        BY <1>7, <3>1, <3>3
      <4>2. v # l /\ v # w /\ v \in Watcher /\ t.active[v] = i /\ Key(t, v) = k /\ kind[v] \notin {"io", "child"}
        BY <1>6, <1>15, <3>1, <3>3, <4>1
      <4> QED BY <1>8, <1>12, <1>14, <2>1, <4>2
    <3> QED BY <3>2, <3>3
  <2>2. CASE K # k
    <3>1. i \in 1..Len(t.arrays[K]) /\ v = t.arrays[K][i]
      BY <1>9, <1>12, <1>16, <2>2
    <3>2. v \in Watcher
      BY <1>2, <3>1
    <3>3. t.active[v] = i /\ Key(t, v) = K /\ kind[v] \notin {"io", "child"}
      BY <1>1, <3>1 DEF Arrays
    <3>4. v # w /\ v # l
      BY <1>6, <2>2, <3>3 DEF k
    <3> QED BY <1>8, <1>12, <1>14, <3>2, <3>3, <3>4
  <2> QED BY <2>1, <2>2
<1>17. ASSUME NEW v \in Watcher, kind[v] \notin {"io", "child"}, u.active[v] # 0
       PROVE  u.active[v] <= Len(u.arrays[Key(u, v)]) /\ u.arrays[Key(u, v)][u.active[v]] = v
  <2>1. v # w
    BY <1>8, <1>12, <1>17
  <2>2. CASE v = l
    <3>1. u.active[v] = i0 /\ Key(u, v) = k /\ u.arrays[k] = new
      BY <1>6, <1>8, <1>9, <1>12, <1>14, <2>1, <2>2
    <3>2. i0 # n
      BY <1>4, <1>6, <2>1, <2>2
    <3>3. i0 \in 1..n - 1
      BY <1>4, <3>2
    <3> HIDE DEF i0
    <3>4. i0 <= n - 1
      BY <1>4, <3>3
    <3> QED BY <1>7, <2>2, <3>1, <3>3, <3>4
  <2>3. CASE v # l
    <3> DEFINE j == t.active[v]
               K == Key(t, v)
    <3>1. u.active[v] = j /\ j # 0 /\ j \in Nat /\ K \in Keys
      BY <1>1, <1>2, <1>8, <1>12, <1>17, <2>1, <2>3, KeyIs
    <3>2. j <= Len(t.arrays[K]) /\ t.arrays[K][j] = v
      BY <1>1, <1>17, <3>1 DEF Arrays
    <3> HIDE DEF j, K
    <3>3. j <= Len(u.arrays[K]) /\ u.arrays[K][j] = v
      <4>1. CASE K = k
        <5>1. j \in 1..n /\ old[j] = v
          BY <1>4, <3>1, <3>2, <4>1 DEF old, n
        <5>2. j # n /\ j # i0
          BY <1>4, <1>6, <2>1, <2>3, <5>1
        <5>3. j \in 1..n - 1 /\ j <= n - 1
          BY <1>4, <5>1, <5>2
        <5> HIDE DEF i0
        <5> QED BY <1>7, <1>9, <1>12, <4>1, <5>1, <5>2, <5>3
      <4>2. CASE K # k
        BY <1>9, <1>12, <3>1, <3>2, <4>2
      <4> QED BY <4>1, <4>2
    <3> QED BY <1>14, <3>1, <3>3 DEF K
  <2> QED BY <2>2, <2>3
<1>18. Arrays(u)
  BY <1>16, <1>17 DEF Arrays
<1>19. Counts(u)
  <2>1. ASSUME NEW v \in Watcher, v # w PROVE u.active[v] # 0 <=> t.active[v] # 0
    <3>1. CASE v = l
      BY <1>4, <1>6, <1>8, <1>12, <2>1, <3>1
    <3>2. CASE v # l
      BY <1>8, <1>12, <2>1, <3>2
    <3> QED BY <3>1, <3>2
  <2>2. u.activecnt = t.activecnt - Counted(w) /\ u.active[w] = 0
    BY <1>8, <1>12 DEF m
  <2> QED BY <1>1, <2>1, <2>2, CountDown
<1>20. Waiting(u)
  <2>1. ASSUME NEW x \in Watcher, t.q.pending[x] # 0, t.active[x] # 0 PROVE u.active[x] # 0
    <3>1. x # w
      BY <2>1
    <3> QED BY <1>4, <1>8, <1>12, <2>1, <3>1
  <2> QED BY <1>1, <1>12, <2>1, WaitingActive
<1> QED BY <1>11, <1>13, <1>18, <1>19, <1>20

LEMMA SaneArrayStop ==
  ASSUME program \in Programs, NEW t, LoopSane(t), NEW w \in Watcher, kind[w] \notin {"io", "child"}
  PROVE  Sanely(t, ArrayStop(t, w))
<1> DEFINE r == ArrayStop(t, w)
           c == [t EXCEPT !.q = ClearPending(t.q, t.pri, w)]
           k == Key(t, w)
           u == ArrayUnlink(c, w)
<1>1. Core(c) /\ OnlyQueue(t, c) /\ c.q.pending[w] = 0
  BY ClearCore DEF LoopSane
<1>2. /\ t.active[w] = 0 => r = c
      /\ t.active[w] # 0 =>
           r = [c EXCEPT !.arrays[k] = MovedUp(t.arrays[k], t.active[w]),
                         !.active = [t.active EXCEPT ![Last(t.arrays[k])] = t.active[w], ![w] = 0],
                         !.activecnt = @ - Counted(w)]
  BY DEF ArrayStop, MovedUp
<1> HIDE DEF c, r
<1>3. c.arrays = t.arrays /\ c.active = t.active /\ Key(c, w) = k
  BY <1>1 DEF OnlyQueue, SameLinks, Key
<1>4. Sanely(t, c)
  BY <1>1, SaneQueue
<1>5. CASE t.active[w] = 0
  BY <1>2, <1>4, <1>5 DEF r
<1>6. CASE t.active[w] # 0
  <2>1. r = u
    BY <1>2, <1>3, <1>6 DEF ArrayUnlink
  <2> HIDE DEF u
  <2>2. Sanely(c, u)
    <3>1. LoopSane(c)
      BY <1>4 DEF Sanely
    <3>2. u = ArrayUnlink(c, w)
      BY DEF u
    <3> QED BY <1>1, <1>3, <1>6, <3>1, <3>2, SaneArrayUnlink
  <2>3. Sanely(t, u)
    BY <1>4, <2>2, SaneTwice
  <2> QED BY <2>1, <2>3 DEF r
<1> QED BY <1>5, <1>6

LEMMA ChainTyped ==
  ASSUME NEW f \in [0..(HASHSIZE - 1) -> Seq(Watcher)], NEW h \in 0..(HASHSIZE - 1)
  PROVE  f[h] \in Seq(Watcher) /\ Len(f[h]) \in Nat /\ \A i \in 1..Len(f[h]) : f[h][i] \in Watcher
<1> DEFINE D == 0..(HASHSIZE - 1)
<1>1. f \in [D -> Seq(Watcher)] /\ h \in D
  OBVIOUS
<1> HIDE DEF D
<1>2. f[h] \in Seq(Watcher)
  BY <1>1
<1> QED BY <1>2

LEMMA SaneChildStart ==
  ASSUME program \in Programs, NEW t, LoopSane(t), NEW w \in Watcher, kind[w] = "child"
  PROVE  Sanely(t, ev_child_start(t, w))
<1> DEFINE r   == ev_child_start(t, w)
           h   == Chain(program.pid[w])
           old == t.childs[h]
           new == <<w>> \o old
           a   == [t.active EXCEPT ![w] = 1]
           ch  == [t.childs EXCEPT ![h] = new]
           n   == t.activecnt + 1
           u   == Relinked(t, a, n, t.arrays, ch)
<1>1. t \in Loop /\ Heads(t) /\ Arrays(t) /\ Childs(t) /\ Counts(t) /\ Waiting(t)
  BY DEF LoopSane, Core, Linked
<1>2. CASE t.active[w] # 0
  BY <1>2, SaneSelf DEF ev_child_start
<1>3. CASE t.active[w] = 0
  <2>1. r = u
    <3>1. r = [t EXCEPT !.active[w] = 1, !.activecnt = @ + 1, !.childs[h] = <<w>> \o @]
      BY <1>3 DEF ev_child_start
    <3> HIDE DEF r, h
    <3> QED BY <1>1, <3>1 DEF Loop, Relinked
  <2>2. /\ t.active \in [Watcher -> Nat] /\ t.activecnt \in Int /\ t.arrays \in [Keys -> Seq(Watcher)]
        /\ t.childs \in [0..(HASHSIZE - 1) -> Seq(Watcher)]
    BY <1>1, Typed
  <2>3. h \in 0..(HASHSIZE - 1)
    BY ProgramIs
  <2> HIDE DEF h
  <2>4. old \in Seq(Watcher) /\ Len(old) \in Nat
    BY <2>2, <2>3, ChainTyped
  <2>5. Distinct(old) /\ \A i \in 1..Len(old) : old[i] # w /\ old[i] \in Watcher
    BY <1>1, <1>3, <2>3, <2>4 DEF Childs
  <2> HIDE DEF old
  <2>6. /\ new \in Seq(Watcher) /\ Len(new) = Len(old) + 1 /\ new[1] = w
        /\ \A i \in 1..Len(old) + 1 : i # 1 => new[i] = old[i - 1] /\ i - 1 \in 1..Len(old)
        /\ Distinct(new)
    BY <2>4, <2>5, PrependIs
  <2> HIDE DEF new
  <2>7. /\ a \in [Watcher -> Nat] /\ a[w] = 1 /\ \A x \in Watcher : x # w => a[x] = t.active[x]
        /\ n \in Int
    BY <2>2
  <2>8. /\ ch \in [0..(HASHSIZE - 1) -> Seq(Watcher)] /\ ch[h] = new
        /\ \A x \in 0..(HASHSIZE - 1) : x # h => ch[x] = t.childs[x]
    BY <2>2, <2>3, <2>6
  <2> HIDE DEF a, ch, n, u, r
  <2>9. /\ LinkedTo(t, u, a, n, t.arrays, t.anfds, ch)
        /\ Heads(u) /\ Arrays(u) /\ Childs(u) /\ Counts(u) /\ Waiting(u) => Sanely(t, u)
    <3> DEFINE ar == t.arrays
    <3>1. ar \in [Keys -> Seq(Watcher)] /\ u = Relinked(t, a, n, ar, ch)
      BY <2>2 DEF u
    <3> HIDE DEF ar
    <3>2. /\ LinkedTo(t, u, a, n, ar, t.anfds, ch)
          /\ Heads(u) /\ Arrays(u) /\ Childs(u) /\ Counts(u) /\ Waiting(u) => Sanely(t, u)
      BY <2>7, <2>8, <3>1, SaneLinks
    <3> QED BY <3>2 DEF ar
  <2>10. /\ u.active = a /\ u.activecnt = n /\ u.arrays = t.arrays /\ u.anfds = t.anfds /\ u.childs = ch
         /\ u.q = t.q /\ u.pri = t.pri /\ u.fd = t.fd /\ u.events = t.events /\ u \in Loop
    BY <2>9 DEF LinkedTo
  <2>11. Heads(u) /\ Arrays(u)
    <3>1. \A x \in Watcher : kind[x] # "child" => u.active[x] = t.active[x] /\ u.pri[x] = t.pri[x]
      BY <2>7, <2>10
    <3> QED BY <1>1, <2>10, <3>1, HeadsKept, ArraysKept
  <2>12. ASSUME NEW x \in 0..(HASHSIZE - 1) PROVE Distinct(u.childs[x])
    <3>1. CASE x = h
      BY <2>6, <2>8, <2>10, <3>1
    <3>2. CASE x # h
      BY <1>1, <2>8, <2>10, <3>2 DEF Childs
    <3> QED BY <3>1, <3>2
  <2>13. ASSUME NEW x \in 0..(HASHSIZE - 1), NEW i \in 1..Len(u.childs[x]), NEW v, v = u.childs[x][i]
         PROVE  u.active[v] = 1 /\ kind[v] = "child" /\ Chain(program.pid[v]) = x
    <3>1. CASE x = h /\ i = 1
      BY <2>6, <2>7, <2>8, <2>10, <2>13, <3>1 DEF h
    <3>2. CASE ~(x = h /\ i = 1)
      <4>1. \E j \in 1..Len(t.childs[x]) : v = t.childs[x][j]
        <5>1. CASE x = h
          <6>1. v = old[i - 1] /\ i - 1 \in 1..Len(old)
            BY <2>6, <2>8, <2>10, <2>13, <3>2, <5>1
          <6> QED BY <5>1, <6>1 DEF old
        <5>2. CASE x # h
          BY <2>8, <2>10, <2>13, <5>2
        <5> QED BY <5>1, <5>2
      <4>2. t.active[v] = 1 /\ kind[v] = "child" /\ Chain(program.pid[v]) = x /\ v \in Watcher
        <5>1. v \in Watcher
          BY <2>2, <4>1, ChainTyped
        <5> QED BY <1>1, <4>1, <5>1 DEF Childs
      <4>3. v # w
        BY <1>3, <4>2
      <4> QED BY <2>7, <2>10, <4>2, <4>3
    <3> QED BY <3>1, <3>2
  <2>14. Childs(u)
    BY <2>12, <2>13 DEF Childs
  <2>15. Counts(u)
    <3>1. Counted(w) = 1
      BY DEF Counted
    <3>2. u.active[w] # 0 /\ \A v \in Watcher : v # w => (u.active[v] # 0 <=> t.active[v] # 0)
      BY <2>7, <2>10
    <3>3. u.activecnt = t.activecnt + Counted(w)
      BY <2>10, <3>1 DEF n
    <3> QED BY <1>1, <1>3, <3>2, <3>3, CountUp
  <2>16. Waiting(u)
    <3>1. \A x \in Watcher : t.q.pending[x] # 0 /\ t.active[x] # 0 => u.active[x] # 0
      BY <2>7, <2>10
    <3> QED BY <1>1, <2>10, <3>1, WaitingActive
  <2> QED BY <2>1, <2>9, <2>11, <2>14, <2>15, <2>16 DEF r
<1> QED BY <1>2, <1>3

\* The part of ev_child_stop after clear_pending.
ChildUnlink(t, w) ==
  LET h == Chain(program.pid[w])
  IN  [t EXCEPT !.active[w] = 0, !.activecnt = @ - 1, !.childs[h] = Unlinked(t.childs[h], w)]

LEMMA SaneChildUnlink ==
  ASSUME program \in Programs, NEW t, LoopSane(t), NEW w \in Watcher, kind[w] = "child",
         t.active[w] # 0, t.q.pending[w] = 0, NEW u, u = ChildUnlink(t, w)
  PROVE  Sanely(t, u)
<1> DEFINE h   == Chain(program.pid[w])
           old == t.childs[h]
           new == Unlinked(old, w)
           a   == [t.active EXCEPT ![w] = 0]
           ch  == [t.childs EXCEPT ![h] = new]
           n   == t.activecnt - 1
           ar  == t.arrays
<1>1. t \in Loop /\ Heads(t) /\ Arrays(t) /\ Childs(t) /\ Counts(t) /\ Waiting(t)
  BY DEF LoopSane, Core, Linked
<1>2. u = Relinked(t, a, n, ar, ch)
  <2>1. u = [t EXCEPT !.active[w] = 0, !.activecnt = @ - 1, !.childs[h] = new]
    BY DEF ChildUnlink
  <2> HIDE DEF h, new
  <2> QED BY <1>1, <2>1 DEF Loop, Relinked
<1>3. /\ t.active \in [Watcher -> Nat] /\ t.activecnt \in Int /\ ar \in [Keys -> Seq(Watcher)]
      /\ t.childs \in [0..(HASHSIZE - 1) -> Seq(Watcher)]
  BY <1>1, Typed
<1>4. h \in 0..(HASHSIZE - 1)
  BY ProgramIs
<1> HIDE DEF h
<1>5. old \in Seq(Watcher) /\ Len(old) \in Nat /\ Distinct(old)
  <2>1. old \in Seq(Watcher) /\ Len(old) \in Nat
    BY <1>3, <1>4, ChainTyped
  <2> QED BY <1>1, <1>4, <2>1 DEF Childs
<1>6. new \in Seq(Watcher) /\ Lacks(old, w, new)
  <2> HIDE DEF old
  <2> QED BY <1>5, UnlinkedIs
<1> HIDE DEF old, new
<1>7. /\ a \in [Watcher -> Nat] /\ a[w] = 0 /\ \A x \in Watcher : x # w => a[x] = t.active[x]
      /\ n \in Int
  BY <1>3
<1>8. /\ ch \in [0..(HASHSIZE - 1) -> Seq(Watcher)] /\ ch[h] = new
      /\ \A x \in 0..(HASHSIZE - 1) : x # h => ch[x] = t.childs[x]
  BY <1>3, <1>4, <1>6
<1> HIDE DEF a, ch, n, ar
<1>9. /\ LinkedTo(t, u, a, n, ar, t.anfds, ch)
      /\ Heads(u) /\ Arrays(u) /\ Childs(u) /\ Counts(u) /\ Waiting(u) => Sanely(t, u)
  <2>1. /\ a \in [Watcher -> Nat] /\ n \in Int /\ ar \in [Keys -> Seq(Watcher)]
        /\ ch \in [0..(HASHSIZE - 1) -> Seq(Watcher)]
    BY <1>3, <1>7, <1>8
  <2> QED BY <1>2, <2>1, SaneLinks
<1>10. /\ u.active = a /\ u.activecnt = n /\ u.arrays = t.arrays /\ u.anfds = t.anfds /\ u.childs = ch
       /\ u.q = t.q /\ u.pri = t.pri /\ u.fd = t.fd /\ u.events = t.events /\ u \in Loop
  BY <1>9 DEF LinkedTo, ar
<1>11. Heads(u) /\ Arrays(u)
  <2>1. \A x \in Watcher : kind[x] # "child" => u.active[x] = t.active[x] /\ u.pri[x] = t.pri[x]
    BY <1>7, <1>10
  <2> QED BY <1>1, <1>10, <2>1, HeadsKept, ArraysKept
<1>12. ASSUME NEW x \in 0..(HASHSIZE - 1) PROVE Distinct(u.childs[x])
  <2>1. CASE x = h
    BY <1>6, <1>8, <1>10, <2>1 DEF Lacks
  <2>2. CASE x # h
    BY <1>1, <1>8, <1>10, <2>2 DEF Childs
  <2> QED BY <2>1, <2>2
<1>13. ASSUME NEW x \in 0..(HASHSIZE - 1), NEW i \in 1..Len(u.childs[x]), NEW v, v = u.childs[x][i]
       PROVE  u.active[v] = 1 /\ kind[v] = "child" /\ Chain(program.pid[v]) = x
  <2>1. v # w /\ \E j \in 1..Len(t.childs[x]) : v = t.childs[x][j]
    <3>1. CASE x = h
      <4>1. i \in 1..Len(new) /\ v = new[i]
        BY <1>8, <1>10, <1>13, <3>1
      <4>2. v # w /\ v \in Elements(new) /\ Elements(new) = Elements(old) \ {w}
        BY <1>6, <4>1 DEF Lacks, Elements
      <4>3. \E j \in 1..Len(old) : v = old[j]
        BY <4>2 DEF Elements
      <4> QED BY <3>1, <4>2, <4>3 DEF old
    <3>2. CASE x # h
      <4>1. i \in 1..Len(t.childs[x]) /\ v = t.childs[x][i]
        BY <1>8, <1>10, <1>13, <3>2
      <4>2. Chain(program.pid[v]) = x
        BY <1>1, <4>1 DEF Childs
      <4> QED BY <3>2, <4>1, <4>2 DEF h
    <3> QED BY <3>1, <3>2
  <2>2. t.active[v] = 1 /\ kind[v] = "child" /\ Chain(program.pid[v]) = x /\ v \in Watcher
    <3>1. v \in Watcher
      BY <1>3, <2>1, ChainTyped
    <3> QED BY <1>1, <2>1, <3>1 DEF Childs
  <2> QED BY <1>7, <1>10, <2>1, <2>2
<1>14. Childs(u)
  BY <1>12, <1>13 DEF Childs
<1>15. Counts(u)
  <2>1. Counted(w) = 1
    BY DEF Counted
  <2>2. u.active[w] = 0 /\ \A v \in Watcher : v # w => (u.active[v] # 0 <=> t.active[v] # 0)
    BY <1>7, <1>10
  <2>3. u.activecnt = t.activecnt - Counted(w)
    BY <1>10, <2>1 DEF n
  <2> QED BY <1>1, <2>2, <2>3, CountDown
<1>16. Waiting(u)
  <2>1. \A x \in Watcher : t.q.pending[x] # 0 /\ t.active[x] # 0 => u.active[x] # 0
    BY <1>7, <1>10
  <2> QED BY <1>1, <1>10, <2>1, WaitingActive
<1> QED BY <1>9, <1>11, <1>14, <1>15, <1>16

LEMMA SaneChildStop ==
  ASSUME program \in Programs, NEW t, LoopSane(t), NEW w \in Watcher, kind[w] = "child"
  PROVE  Sanely(t, ev_child_stop(t, w))
<1> DEFINE r == ev_child_stop(t, w)
           c == [t EXCEPT !.q = ClearPending(t.q, t.pri, w)]
           u == ChildUnlink(c, w)
<1>1. Core(c) /\ OnlyQueue(t, c) /\ c.q.pending[w] = 0
  BY ClearCore DEF LoopSane
<1>2. t.active[w] = 0 => r = c
  BY DEF ev_child_stop
<1>3. c.childs = t.childs /\ c.active = t.active
  BY <1>1 DEF OnlyQueue, SameLinks
<1>4. t.active[w] # 0 => r = u
  BY <1>3 DEF ev_child_stop, ChildUnlink
<1> HIDE DEF c, r, u
<1>5. Sanely(t, c)
  BY <1>1, SaneQueue
<1>6. CASE t.active[w] = 0
  BY <1>2, <1>5, <1>6 DEF r
<1>7. CASE t.active[w] # 0
  <2>1. Sanely(c, u)
    BY <1>1, <1>3, <1>5, <1>7, SaneChildUnlink DEF Sanely, u
  <2>2. Sanely(t, u)
    BY <1>5, <2>1, SaneTwice
  <2> QED BY <1>4, <1>7, <2>2 DEF r
<1> QED BY <1>6, <1>7

LEMMA SaneStart ==
  ASSUME program \in Programs, NEW t, LoopSane(t), NEW w \in Watcher
  PROVE  Sanely(t, Start(t, w))
<1>1. CASE kind[w] = "io"
  BY <1>1, SaneIo DEF Start
<1>2. CASE kind[w] = "child"
  BY <1>2, SaneChildStart DEF Start
<1>3. CASE kind[w] \notin {"io", "child"}
  BY <1>3, SaneArrayStart DEF Start
<1> QED BY <1>1, <1>2, <1>3

LEMMA SaneStop ==
  ASSUME program \in Programs, NEW t, LoopSane(t), NEW w \in Watcher
  PROVE  Sanely(t, Stop(t, w))
<1>1. CASE kind[w] = "io"
  BY <1>1, SaneIo DEF Stop
<1>2. CASE kind[w] = "child"
  BY <1>2, SaneChildStop DEF Stop
<1>3. CASE kind[w] \notin {"io", "child"}
  BY <1>3, SaneArrayStop DEF Stop
<1> QED BY <1>1, <1>2, <1>3

-----------------------------------------------------------------------------
(* Children that ended                                                     *)

\* All that the invariant looks at is as it was.
Plainly(t, u) ==
  /\ u \in Loop /\ SameLinks(t, u) /\ SamePolls(t, u) /\ u.q = t.q /\ IsFiniteSet(u.reg)
  /\ u.anfds = t.anfds /\ u.fdchanges = t.fdchanges /\ u.rpid = t.rpid

LEMMA SanePlain ==
  ASSUME NEW t, LoopSane(t), NEW u, Plainly(t, u)
  PROVE  LoopSane(u)
<1>1. Core(u)
  BY CoreAlike DEF Plainly, LoopSane
<1>2. ChangesFrom(u, 1)
  BY ChangesKept DEF Plainly, LoopSane
<1> QED BY <1>1, <1>2 DEF LoopSane

LEMMA MaxpriIs ==
  MAXPRI \in Priorities /\ \A p \in Priorities : p <= MAXPRI
<1>1. \E x \in Priorities : \A y \in Priorities : y <= x
  BY Names, GreatestExists
<1> QED BY <1>1 DEF MAXPRI

\* childev is pending, and rpid was written for children only.
Reaping(t, u) ==
  /\ u \in Loop /\ LoopSane(u) /\ u.backend = t.backend /\ u.q.pending[childev] # 0
  /\ \A w \in Watcher : kind[w] # "child" => u.rpid[w] = t.rpid[w]

\* The priority and the pid of one child are set.
Raised(t, w, pid) == [t EXCEPT !.pri[w] = MAXPRI, !.rpid[w] = pid]

LEMMA RaisedCore ==
  ASSUME NEW t, Core(t), NEW w \in Watcher, kind[w] = "child", NEW pid \in Nat,
         NEW u, u = Raised(t, w, pid)
  PROVE  /\ Core(u) /\ u.q = t.q /\ u.backend = t.backend /\ u.pri[w] = MAXPRI
         /\ u.anfds = t.anfds /\ u.fdchanges = t.fdchanges
         /\ \A x \in Watcher : x # w => u.rpid[x] = t.rpid[x]
<1> DEFINE p == [t.pri EXCEPT ![w] = MAXPRI]
           s1 == [t.rpid EXCEPT ![w] = pid]
<1>1. /\ t \in Loop /\ Heads(t) /\ Arrays(t) /\ Childs(t) /\ Counts(t) /\ Waiting(t) /\ Indexed(t)
      /\ IsFiniteSet(t.reg)
  BY DEF Core, Linked
<1>2. /\ t.pri \in [Everyone \cup {NoWatcher} -> Priorities] /\ t.rpid \in [Watcher -> Nat]
      /\ t.q \in Queues(Priorities, Everyone)
  BY <1>1, Typed
<1>3. u = [t EXCEPT !.pri = p, !.rpid = s1]
  BY <1>1 DEF Raised, Loop
<1>4. /\ p \in [Everyone \cup {NoWatcher} -> Priorities] /\ p[w] = MAXPRI
      /\ \A x \in Everyone \cup {NoWatcher} : x # w => p[x] = t.pri[x]
  BY <1>2, MaxpriIs, Names
<1>5. s1 \in [Watcher -> Nat] /\ \A x \in Watcher : x # w => s1[x] = t.rpid[x]
  BY <1>2
<1> HIDE DEF p, s1
<1>6. u \in Loop
  <2>1. p \in [Watcher \cup {childev, NoWatcher} -> Priorities]
    BY <1>4, Names
  <2>2. s1 \in [Watcher -> Nat]
    BY <1>5
  <2>3. [t EXCEPT !.pri = p, !.rpid = s1] \in Loop
    BY <1>1, <2>1, <2>2 DEF Loop
  <2> QED BY <1>3, <2>3
<1>7. /\ u.pri = p /\ u.rpid = s1 /\ u.q = t.q /\ u.backend = t.backend
      /\ u.active = t.active /\ u.activecnt = t.activecnt
      /\ u.fd = t.fd /\ u.events = t.events /\ u.arrays = t.arrays /\ u.childs = t.childs
      /\ u.anfds = t.anfds /\ u.fdchanges = t.fdchanges /\ u.reg = t.reg
      /\ u.polls = t.polls /\ u.pollidxs = t.pollidxs
  BY <1>1, <1>3 DEF Loop
<1>8. Heads(u) /\ Childs(u) /\ Arrays(u)
  <2>1. \A x \in Watcher : kind[x] \notin {"io", "child"} => u.active[x] = t.active[x] /\ u.pri[x] = t.pri[x]
    BY <1>4, <1>7, Names
  <2> QED BY <1>1, <1>7, <2>1, HeadsKept, ChildsKept, ArraysKept
<1>9. Counts(u) /\ Indexed(u)
  BY <1>1, <1>7 DEF Counts, Alive, Indexed
<1>10. \A x \in Everyone : t.q.pending[x] # 0 => p[x] = t.pri[x]
  <2>1. t.q.pending[w] # 0 => t.pri[w] = MAXPRI
    BY <1>1 DEF Waiting, ChildrenAbove
  <2> QED BY <1>4, <2>1
<1>11. InQueue(Priorities, Everyone, t.q, p)
  <2>1. InQueue(Priorities, Everyone, t.q, t.pri)
    BY <1>1 DEF Waiting
  <2>2. ASSUME NEW v \in Everyone, t.q.pending[v] # 0
        PROVE  t.q.pending[v] \in 1..Len(t.q.list[p[v]]) /\ t.q.list[p[v]][t.q.pending[v]].w = v
    BY <1>10, <2>1, <2>2 DEF InQueue
  <2>3. ASSUME NEW x \in Priorities, NEW i \in 1..Len(t.q.list[x])
        PROVE  \/ t.q.list[x][i].w = NoWatcher
               \/ /\ t.q.pending[t.q.list[x][i].w] = i /\ p[t.q.list[x][i].w] = x
                  /\ t.q.list[x][i].w \in Everyone
    <3> DEFINE v == t.q.list[x][i].w
    <3>1. v = NoWatcher \/ (t.q.pending[v] = i /\ t.pri[v] = x /\ v \in Everyone)
      BY <2>1 DEF InQueue
    <3>2. i # 0
      BY <1>2, ListFields
    <3> HIDE DEF v
    <3>3. v = NoWatcher \/ (t.q.pending[v] = i /\ p[v] = x /\ v \in Everyone)
      BY <1>10, <3>1, <3>2
    <3> QED BY <3>3 DEF v
  <2> QED BY <1>2, <2>2, <2>3 DEF InQueue
<1>12. Asking(u)
  <2>1. \A x \in Io : u.pri[x] = t.pri[x]
    BY <1>4, <1>7, Names DEF Io
  <2> QED BY <1>1, <1>7, <2>1, ZenonT(60) DEF Waiting, Asking, Events
<1>13. ChildrenAbove(u)
  <2>1. \A x \in Watcher : t.q.pending[x] # 0 => u.pri[x] = t.pri[x]
    BY <1>7, <1>10, Names
  <2>2. u.pri[childev] = t.pri[childev]
    BY <1>4, <1>7, Names
  <2> QED BY <1>1, <1>7, <2>1, <2>2 DEF Waiting, ChildrenAbove
<1>14. Core(u)
  BY <1>1, <1>6, <1>7, <1>8, <1>9, <1>11, <1>12, <1>13 DEF Core, Linked, Waiting
<1> QED BY <1>4, <1>5, <1>7, <1>14

\* A child above childev.
LEMMA FeedChild ==
  ASSUME NEW t, Core(t), NEW w \in Watcher, kind[w] = "child", t.pri[w] = MAXPRI,
         t.q.pending[childev] # 0
  PROVE  /\ Core(Feed(t, w, {"CHILD"})) /\ OnlyQueue(t, Feed(t, w, {"CHILD"}))
         /\ Feed(t, w, {"CHILD"}).q.pending[childev] # 0
<1> DEFINE revents == {"CHILD"}
           x == FeedEvent(t.q, t.pri, w, revents)
           n == Len(t.q.list[MAXPRI])
<1>1. revents \in SUBSET Revents /\ w \in Everyone /\ w # childev /\ childev \in Everyone
  BY QueueIn DEF Revents
<1>2. InQueue(Priorities, Everyone, x, t.pri) /\ Fed(Everyone, t.q, t.pri, w, revents, x)
  <2> HIDE DEF revents
  <2> QED BY <1>1, QueueIn, FeedIs
<1>3. \A v \in Everyone : v \notin {w} => AsBefore(t.q, x, t.pri, v)
  BY <1>2 DEF Fed
<1>4. x.pending[w] = IF t.q.pending[w] = 0 THEN n + 1 ELSE t.q.pending[w]
  BY <1>2 DEF Fed
<1> HIDE DEF x
<1>5. Asking([t EXCEPT !.q = x])
  <2>1. \A v \in Watcher : v \notin {w} => AsBefore(t.q, x, t.pri, v)
    BY <1>3, QueueIn
  <2>2. \A v \in Io : v \notin {w}
    BY DEF Io
  <2> QED BY <1>2, <2>1, <2>2, OthersAsk
<1>6. x.pending[childev] = t.q.pending[childev]
  BY <1>1, <1>3 DEF AsBefore
<1>7. t.q.pending[childev] \in 1..n /\ n \in Nat
  <2>1. t.pri[childev] = MAXPRI
    BY QueueIn
  <2>2. t.q.pending[childev] \in 1..n
    BY <1>1, <2>1, QueueIn DEF InQueue
  <2>3. n \in Nat
    BY QueueIn, MaxpriIs, ListFields
  <2> QED BY <2>2, <2>3
<1>8. ChildrenAbove([t EXCEPT !.q = x])
  <2> DEFINE u == [t EXCEPT !.q = x]
  <2>1. u.q = x /\ u.pri = t.pri /\ t.pri[childev] = MAXPRI
    BY QueueIn DEF Core, Loop
  <2>2. ASSUME NEW v \in Watcher, kind[v] = "child", x.pending[v] # 0
        PROVE  t.pri[v] = MAXPRI /\ 0 < x.pending[childev] /\ x.pending[childev] < x.pending[v]
    <3>1. CASE t.q.pending[v] # 0
      <4>1. /\ t.pri[v] = MAXPRI /\ 0 < t.q.pending[childev]
            /\ t.q.pending[childev] < t.q.pending[v]
        BY <2>2, <3>1 DEF Core, Waiting, ChildrenAbove
      <4>2. x.pending[v] = t.q.pending[v]
        BY <1>3, <1>4, <3>1, QueueIn DEF AsBefore
      <4> QED BY <1>6, <4>1, <4>2
    <3>2. CASE t.q.pending[v] = 0
      <4>1. v = w
        BY <1>3, <2>2, <3>2, QueueIn DEF AsBefore
      <4>2. x.pending[v] = n + 1
        BY <1>4, <3>2, <4>1
      <4> HIDE DEF n
      <4> QED BY <1>6, <1>7, <4>1, <4>2
    <3> QED BY <3>1, <3>2
  <2> HIDE DEF u
  <2> QED BY <2>1, <2>2 DEF ChildrenAbove, u
<1>9. Core([t EXCEPT !.q = x]) /\ OnlyQueue(t, [t EXCEPT !.q = x])
  BY <1>2, <1>5, <1>8, CoreWithQueue
<1>10. [t EXCEPT !.q = x].q = x
  BY DEF Core, Loop
<1> QED BY <1>6, <1>9, <1>10 DEF Feed, x

LEMMA ReapIs ==
  ASSUME program \in Programs, NEW t, Reaping(t, t), NEW chain \in Nat, NEW pid \in Nat
  PROVE  Reaping(t, child_reap(t, chain, pid))
<1> DEFINE ws == t.childs[Chain(chain)]
           J  == {u \in Loop : Reaping(t, u)}
<1>1. t \in Loop /\ Childs(t)
  BY DEF Reaping, LoopSane, Core, Linked
<1>2. Chain(chain) \in 0..(HASHSIZE - 1)
  <2>1. \A p \in Nat : p % 2 \in 0..(2 - 1)
    OBVIOUS
  <2> QED BY <2>1 DEF Chain, HASHSIZE
<1>3. ws \in Seq(Watcher) /\ Len(ws) \in Nat
  <2>1. t.childs \in [0..(HASHSIZE - 1) -> Seq(Watcher)]
    BY <1>1, Typed
  <2> QED BY <1>2, <2>1, ChainTyped
<1>4. \A i \in 1..Len(ws) : ws[i] \in Watcher /\ kind[ws[i]] = "child"
  <2>1. \A i \in 1..Len(ws) : kind[ws[i]] = "child"
    BY <1>1, <1>2 DEF Childs
  <2> HIDE DEF ws
  <2> QED BY <1>3, <2>1
<1>5. t \in J
  BY <1>1
<1> HIDE DEF ws
<1>6. ASSUME NEW k \in 1..Len(ws), NEW v \in J PROVE ReapRound(pid)[<<v, ws[k]>>] \in J
  <2> DEFINE w == ws[k]
             c == Raised(v, w, pid)
             u == Feed(c, w, {"CHILD"})
  <2>1. /\ v \in Loop /\ LoopSane(v) /\ v.backend = t.backend /\ v.q.pending[childev] # 0
        /\ \A x \in Watcher : kind[x] # "child" => v.rpid[x] = t.rpid[x]
    BY DEF Reaping
  <2>2. w \in Watcher /\ kind[w] = "child"
    BY <1>4
  <2>3. ReapRound(pid)[<<v, w>>] = v \/ ReapRound(pid)[<<v, w>>] = u
    BY <2>1, <2>2 DEF ReapRound, Raised
  <2> HIDE DEF w, c
  <2>4. /\ Core(c) /\ c.q = v.q /\ c.backend = v.backend /\ c.pri[w] = MAXPRI
        /\ c.anfds = v.anfds /\ c.fdchanges = v.fdchanges
        /\ \A x \in Watcher : x # w => c.rpid[x] = v.rpid[x]
    <3>1. c = Raised(v, w, pid) /\ Core(v)
      BY <2>1 DEF c, LoopSane
    <3> QED BY <2>2, <3>1, RaisedCore, SMTT(60)
  <2>5. Core(u) /\ OnlyQueue(c, u) /\ u.q.pending[childev] # 0
    BY <2>1, <2>2, <2>4, FeedChild
  <2> HIDE DEF u
  <2>6. ChangesFrom(u, 1)
    <3>1. ChangesFrom(c, 1)
      BY <2>1, <2>4, ChangesKept DEF LoopSane
    <3> QED BY <2>5, <3>1, ChangesKept DEF OnlyQueue
  <2>7. u.backend = t.backend /\ u.rpid = c.rpid /\ u \in Loop
    BY <2>1, <2>4, <2>5 DEF OnlyQueue, Onward, Core
  <2>8. \A x \in Watcher : kind[x] # "child" => u.rpid[x] = t.rpid[x]
    BY <2>1, <2>2, <2>4, <2>7
  <2>9. u \in J
    BY <2>5, <2>6, <2>7, <2>8 DEF Reaping, LoopSane
  <2> QED BY <2>3, <2>9 DEF w
<1>7. Along(ReapRound(pid), t, ws) \in J
  <2> HIDE DEF J
  <2> QED BY <1>3, <1>5, <1>6, AlongKeeps
<1> QED BY <1>7 DEF child_reap, ws

\* rpid is written for children only.
Reaped(t, u) ==
  /\ LoopSane(u) /\ u.backend = t.backend
  /\ \A w \in Watcher : kind[w] # "child" => u.rpid[w] = t.rpid[w]

LEMMA ChildcbIs ==
  ASSUME program \in Programs, NEW t, LoopSane(t), NEW pid \in Nat
  PROVE  Reaped(t, childcb(t, pid))
<1> DEFINE z == [t EXCEPT !.zombies = @ \ {pid}]
           u == Feed(z, childev, {"SIGNAL"})
           v == child_reap(u, pid, pid)
           r == child_reap(v, 0, pid)
<1>1. t \in Loop /\ IsFiniteSet(t.reg)
  BY DEF LoopSane, Core
<1>2. Plainly(t, z) /\ Onward(t, z)
  <2>1. t.zombies \subseteq Nat
    BY <1>1, Typed
  <2>2. z \in Loop
    BY <1>1, <2>1 DEF Loop
  <2> QED BY <1>1, <2>2 DEF Loop, Plainly, SameLinks, SamePolls, Onward
<1> HIDE DEF z
<1>3. LoopSane(z)
  BY <1>2, SanePlain
<1>4. Core(u) /\ OnlyQueue(z, u) /\ u.q.pending[childev] # 0
  <2>1. {"SIGNAL"} \in SUBSET Revents
    BY DEF Revents
  <2> QED BY <1>3, <2>1, FeedChildev DEF LoopSane
<1> HIDE DEF u
<1>5. Sanely(z, u)
  BY <1>3, <1>4, SaneQueue
<1>6. Reaping(u, u)
  BY <1>4, <1>5 DEF Reaping, Sanely
<1>7. Reaping(u, v)
  BY <1>6, ReapIs
<1> HIDE DEF v
<1>8. Reaping(v, v)
  BY <1>7 DEF Reaping
<1>9. Reaping(v, r)
  BY <1>8, ReapIs
<1> HIDE DEF r
<1>10. Reaped(t, r)
  BY <1>2, <1>5, <1>7, <1>9 DEF Reaping, Reaped, Sanely, Onward
<1> QED BY <1>10 DEF childcb, r, v, u, z
-----------------------------------------------------------------------------
(* The loop as it is created                                               *)

LEMMA ProgramTyped ==
  ASSUME NEW p \in Programs
  PROVE  /\ p.backend \in Backends /\ p.kind \in [Watcher -> Kinds] /\ p.pri \in [Watcher -> Priorities]
         /\ p.fd \in [Watcher -> Fd] /\ p.events \in [Watcher -> SUBSET Both]
         /\ p.pid \in [Watcher -> Nat] /\ p.started \in SUBSET Watcher /\ p.regular \in SUBSET Fd
         /\ p.calls \in Nat
<1> DEFINE R == [backend : {"select", "poll", "epoll", "kqueue", "port"},
                 kind : [Watcher -> Kinds], pri : [Watcher -> Priorities],
                 fd : [Watcher -> Fd], events : [Watcher -> SUBSET Both],
                 pid : [Watcher -> Nat], ops : SUBSET Ops, started : SUBSET Watcher,
                 regular : SUBSET Fd, calls : 0..MaxCalls]
<1>1. p \in R
  BY ProgramAssumption
<1>2. MaxCalls \in Nat
  BY ProgramAssumption
<1> QED BY <1>1, <1>2 DEF Backends

\* The part of the loop that the program does not choose.
FirstQueue == EmptyQueue(Priorities, Everyone)
FirstPri(p) == [w \in Watcher \cup {childev, NoWatcher} |->
                  IF w \in Watcher THEN p.pri[w] ELSE MAXPRI]
FirstAnfd == [head |-> <<>>, events |-> {}, reify |-> {}, emask |-> {}, egen |-> 0]

LEMMA FirstQueueIs ==
  ASSUME NEW pri
  PROVE  InQueue(Priorities, Everyone, FirstQueue, pri)
<1>1. FirstQueue.pending = [w \in Everyone |-> 0] /\ FirstQueue.list = [p \in Priorities |-> <<>>]
  BY DEF FirstQueue, EmptyQueue
<1>2. FirstQueue \in Queues(Priorities, Everyone)
  <2>1. [p \in Priorities |-> <<>>] \in [Priorities -> Seq(Pendings(Everyone))]
    OBVIOUS
  <2>2. [w \in Everyone |-> 0] \in [Everyone -> Nat]
    OBVIOUS
  <2> QED BY <2>1, <2>2, QueueOf DEF FirstQueue, EmptyQueue
<1> QED BY <1>1, <1>2 DEF InQueue

LEMMA FirstFields ==
  ASSUME NEW p \in Programs, NEW t, t = loop_init(p)
  PROVE  /\ t.q = FirstQueue /\ t.pri = FirstPri(p) /\ t.active = [w \in Watcher |-> 0]
         /\ t.activecnt = 0 /\ t.arrays = [k \in Keys |-> <<>>]
         /\ t.anfds = [f \in Fd |-> FirstAnfd] /\ t.fdchanges = <<>> /\ t.polls = <<>>
         /\ t.pollidxs = [f \in Fd |-> 0] /\ t.childs = [h \in 0..(HASHSIZE - 1) |-> <<>>]
         /\ t.reg = {} /\ t.backend = p.backend
BY DEF loop_init, FirstQueue, FirstPri, FirstAnfd, Everyone

LEMMA FirstTyped ==
  ASSUME NEW p \in Programs
  PROVE  loop_init(p) \in Loop
<1>1. FirstPri(p) \in [Watcher \cup {childev, NoWatcher} -> Priorities]
  BY ProgramTyped, MaxpriIs DEF FirstPri
<1>2. FirstQueue \in Queues(Priorities, Watcher \cup {childev})
  BY FirstQueueIs DEF InQueue, Everyone
<1>3. FirstAnfd \in ANFD
  BY DEF FirstAnfd, ANFD
<1>4. [f \in Fd |-> FirstAnfd] \in [Fd -> ANFD]
  BY <1>3
<1>5. /\ [k \in Keys |-> <<>>] \in [Keys -> Seq(Watcher)]
      /\ [h \in 0..(HASHSIZE - 1) |-> <<>>] \in [0..(HASHSIZE - 1) -> Seq(Watcher)]
      /\ <<>> \in Seq(Fd) /\ <<>> \in Seq(Pollfd) /\ <<>> \in Seq(Change)
  OBVIOUS
<1>6. /\ [w \in Watcher |-> 0] \in [Watcher -> Nat] /\ [w \in Watcher |-> TRUE] \in [Watcher -> BOOLEAN]
      /\ [f \in Fd |-> {}] \in [Fd -> SUBSET Both] /\ [f \in Fd |-> 0] \in [Fd -> Nat]
      /\ [f \in Fd |-> f] \in [Fd -> Nat]
  BY DEF Fd
<1>7. /\ p.backend \in Backends /\ p.fd \in [Watcher -> Fd] /\ p.events \in [Watcher -> SUBSET Both]
      /\ p.regular \in SUBSET Fd
  BY ProgramTyped
<1>8. p.backend \in {"select", "poll", "epoll", "kqueue", "port", "none"}
  BY <1>7 DEF Backends
<1> DEFINE a1 == FirstPri(p)
           a2 == FirstQueue
           a3 == [f \in Fd |-> FirstAnfd]
           a4 == [k \in Keys |-> <<>>]
           a5 == [h \in 0..(HASHSIZE - 1) |-> <<>>]
           a6 == [w \in Watcher |-> 0]
           a7 == [w \in Watcher |-> TRUE]
           a8 == [f \in Fd |-> {}]
           a9 == [f \in Fd |-> 0]
           b1 == [f \in Fd |-> f]
<1>9. loop_init(p) =
        [backend |-> p.backend, postfork |-> FALSE, activecnt |-> 0, loop_done |-> "CANCEL",
         pri |-> a1, q |-> a2, active |-> a6, arrays |-> a4,
         fd |-> p.fd, events |-> p.events, set |-> a7, anfds |-> a3, fdchanges |-> <<>>,
         vec |-> a8, polls |-> <<>>, pollidxs |-> a9,
         eperms |-> <<>>, changes |-> <<>>, file |-> b1, kept |-> {}, regular |-> p.regular,
         reg |-> {}, childs |-> a5, rpid |-> a6, zombies |-> {}, sigchld |-> FALSE]
  BY DEF loop_init, FirstQueue, FirstPri, FirstAnfd, Everyone
<1> HIDE DEF a1, a2, a3, a4, a5, a6, a7, a8, a9, b1
<1>10. /\ a1 \in [Watcher \cup {childev, NoWatcher} -> Priorities]
       /\ a2 \in Queues(Priorities, Watcher \cup {childev})
       /\ a3 \in [Fd -> ANFD] /\ a4 \in [Keys -> Seq(Watcher)]
       /\ a5 \in [0..(HASHSIZE - 1) -> Seq(Watcher)] /\ a6 \in [Watcher -> Nat]
       /\ a7 \in [Watcher -> BOOLEAN] /\ a8 \in [Fd -> SUBSET Both] /\ a9 \in [Fd -> Nat]
       /\ b1 \in [Fd -> Nat]
  BY <1>1, <1>2, <1>4, <1>5, <1>6 DEF a1, a2, a3, a4, a5, a6, a7, a8, a9, b1
<1> QED BY <1>5, <1>7, <1>8, <1>9, <1>10 DEF Loop

LEMMA FirstSane ==
  ASSUME program \in Programs
  PROVE  LoopSane(loop_init(program))
<1> DEFINE t == loop_init(program)
<1>1. /\ t.q = FirstQueue /\ t.pri = FirstPri(program) /\ t.active = [w \in Watcher |-> 0]
      /\ t.activecnt = 0 /\ t.arrays = [k \in Keys |-> <<>>]
      /\ t.anfds = [f \in Fd |-> FirstAnfd] /\ t.fdchanges = <<>> /\ t.polls = <<>>
      /\ t.pollidxs = [f \in Fd |-> 0] /\ t.childs = [h \in 0..(HASHSIZE - 1) |-> <<>>]
      /\ t.reg = {}
  BY FirstFields
<1>2. t \in Loop
  BY FirstTyped
<1>3. FirstQueue.pending = [w \in Everyone |-> 0]
  BY DEF FirstQueue, EmptyQueue
<1> HIDE DEF t
<1>4. Heads(t)
  BY <1>1 DEF Heads, FirstAnfd, Distinct
<1>5. Arrays(t)
  BY <1>1 DEF Arrays
<1>6. Childs(t)
  BY <1>1 DEF Childs, Distinct
<1>7. Counts(t)
  <2>1. Alive(t) = {}
    BY <1>1 DEF Alive
  <2> QED BY <2>1, <1>1, FS_EmptySet DEF Counts
<1>8. Indexed(t)
  BY <1>1 DEF Indexed, IndexedBy
<1>9. Asking(t) /\ ChildrenAbove(t)
  <2>1. \A w \in Watcher : t.q.pending[w] = 0
    BY <1>1, <1>3, Names
  <2>2. t.pri[childev] = MAXPRI
    BY <1>1, Names DEF FirstPri
  <2> QED BY <2>1, <2>2 DEF Asking, ChildrenAbove, Io
<1>10. InQueue(Priorities, Everyone, t.q, t.pri)
  BY <1>1, FirstQueueIs
<1>11. ChangesFrom(t, 1)
  BY <1>1 DEF ChangesFrom, FirstAnfd
<1>12. IsFiniteSet(t.reg)
  BY <1>1, FS_EmptySet
<1> QED BY <1>2, <1>4, <1>5, <1>6, <1>7, <1>8, <1>9, <1>10, <1>11, <1>12
  DEF LoopSane, Core, Linked, Waiting, t

\* The program has started some watchers.
LEMMA StartedSane ==
  ASSUME program \in Programs
  PROVE  /\ LoopSane(Along(StartRound, loop_init(program), SetToSeq(program.started)))
         /\ Along(StartRound, loop_init(program), SetToSeq(program.started)).backend \in Backends
<1> DEFINE t == loop_init(program)
           ws == SetToSeq(program.started)
<1>1. LoopSane(t) /\ t.backend \in Backends
  BY FirstSane, FirstFields, ProgramTyped
<1>2. program.started \in SUBSET Watcher
  BY ProgramTyped
<1>3. IsFiniteSet(program.started)
  BY <1>2, Names, FS_Subset
<1>4. ws \in Seq(program.started)
  BY <1>3, SetToSeqIs
<1>5. Len(ws) \in Nat /\ \A k \in 1..Len(ws) : ws[k] \in Watcher
  BY <1>2, <1>4
<1> HIDE DEF t, ws
<1>6. ASSUME NEW k \in 1..Len(ws), NEW v \in Loop, LoopSane(v)
      PROVE  Sanely(v, StartRound[<<v, ws[k]>>])
  <2>1. StartRound[<<v, ws[k]>>] = Start(v, ws[k])
    BY <1>5 DEF StartRound
  <2> QED BY <2>1, <1>5, <1>6, SaneStart
<1>7. Sanely(t, Along(StartRound, t, ws))
  BY <1>1, <1>5, <1>6, SaneAlong
<1> QED BY <1>1, <1>7 DEF Sanely, Onward, t, ws

-----------------------------------------------------------------------------
(* What the program's calls do to the loop                                 *)

LEMMA PlainSanely ==
  ASSUME NEW t, LoopSane(t), NEW u, Plainly(t, u), u.backend = t.backend
  PROVE  Sanely(t, u)
BY SanePlain DEF Sanely, Onward, Plainly

WithDone(t, how)         == [t EXCEPT !.loop_done = how]
WithSigchld(t)           == [t EXCEPT !.sigchld = FALSE]
WithExit(t, pid)         == [t EXCEPT !.zombies = @ \cup {pid}, !.sigchld = TRUE]
WithKept(t, files)       == [t EXCEPT !.kept = @ \cup files]
WithForked(t, files, r)  == [t EXCEPT !.postfork = TRUE, !.kept = @ \cup files, !.reg = r]
WithFile(t, fd, file, r) == [t EXCEPT !.file[fd] = file, !.reg = r]
WithSet(t, set)          == [t EXCEPT !.set = set]
WithNone(t)              == [t EXCEPT !.backend = "none"]

LEMMA DoneSane ==
  ASSUME NEW t, LoopSane(t), NEW how \in {"CANCEL", "ONE", "ALL"}
  PROVE  Sanely(t, WithDone(t, how))
<1> DEFINE u == WithDone(t, how)
<1>1. t \in Loop /\ IsFiniteSet(t.reg)
  BY RegsOf
<1>2. u \in Loop
  BY <1>1 DEF WithDone, Loop
<1>3. /\ u.q = t.q /\ u.anfds = t.anfds /\ u.fdchanges = t.fdchanges /\ u.rpid = t.rpid
      /\ u.backend = t.backend /\ u.reg = t.reg /\ SameLinks(t, u) /\ SamePolls(t, u)
  BY <1>1 DEF WithDone, Loop, SameLinks, SamePolls
<1> HIDE DEF u
<1> QED BY <1>1, <1>2, <1>3, PlainSanely DEF Plainly, u

LEMMA SigchldSane ==
  ASSUME NEW t, LoopSane(t)
  PROVE  Sanely(t, WithSigchld(t))
<1> DEFINE u == WithSigchld(t)
<1>1. t \in Loop /\ IsFiniteSet(t.reg)
  BY RegsOf
<1>2. u \in Loop
  BY <1>1 DEF WithSigchld, Loop
<1>3. /\ u.q = t.q /\ u.anfds = t.anfds /\ u.fdchanges = t.fdchanges /\ u.rpid = t.rpid
      /\ u.backend = t.backend /\ u.reg = t.reg /\ SameLinks(t, u) /\ SamePolls(t, u)
  BY <1>1 DEF WithSigchld, Loop, SameLinks, SamePolls
<1> HIDE DEF u
<1> QED BY <1>1, <1>2, <1>3, PlainSanely DEF Plainly, u

LEMMA ExitSane ==
  ASSUME NEW t, LoopSane(t), NEW pid \in Nat
  PROVE  Sanely(t, WithExit(t, pid))
<1> DEFINE u == WithExit(t, pid)
<1>1. t \in Loop /\ IsFiniteSet(t.reg)
  BY RegsOf
<1>2. u \in Loop
  <2>1. t.zombies \cup {pid} \in SUBSET Nat
    BY <1>1, Typed
  <2> QED BY <1>1, <2>1 DEF WithExit, Loop
<1>3. /\ u.q = t.q /\ u.anfds = t.anfds /\ u.fdchanges = t.fdchanges /\ u.rpid = t.rpid
      /\ u.backend = t.backend /\ u.reg = t.reg /\ SameLinks(t, u) /\ SamePolls(t, u)
  BY <1>1 DEF WithExit, Loop, SameLinks, SamePolls
<1> HIDE DEF u
<1> QED BY <1>1, <1>2, <1>3, PlainSanely DEF Plainly, u

LEMMA KeptIs ==
  ASSUME NEW t \in Loop
  PROVE  t.kept \in SUBSET Nat
BY DEF Loop

LEMMA KeptSane ==
  ASSUME NEW t, LoopSane(t), NEW files \in SUBSET Nat
  PROVE  Sanely(t, WithKept(t, files))
<1> DEFINE u == WithKept(t, files)
<1>1. t \in Loop /\ IsFiniteSet(t.reg)
  BY RegsOf
<1>2. u \in Loop
  <2>1. t.kept \cup files \in SUBSET Nat
    BY <1>1, KeptIs
  <2> QED BY <1>1, <2>1 DEF WithKept, Loop
<1>3. /\ u.q = t.q /\ u.anfds = t.anfds /\ u.fdchanges = t.fdchanges /\ u.rpid = t.rpid
      /\ u.backend = t.backend /\ u.reg = t.reg /\ SameLinks(t, u) /\ SamePolls(t, u)
  BY <1>1 DEF WithKept, Loop, SameLinks, SamePolls
<1> HIDE DEF u
<1> QED BY <1>1, <1>2, <1>3, PlainSanely DEF Plainly, u

LEMMA ForkedSane ==
  ASSUME NEW t, LoopSane(t), NEW files \in SUBSET Nat, NEW r, r \in SUBSET t.reg
  PROVE  Sanely(t, WithForked(t, files, r))
<1> DEFINE u == WithForked(t, files, r)
<1>1. t \in Loop /\ IsFiniteSet(t.reg) /\ t.reg \in SUBSET Registration
  BY RegsOf
<1>2. r \in SUBSET Registration /\ IsFiniteSet(r)
  BY <1>1, FS_Subset
<1>3. u \in Loop
  <2>1. t.kept \cup files \in SUBSET Nat
    BY <1>1, KeptIs
  <2> QED BY <1>1, <1>2, <2>1 DEF WithForked, Loop
<1>4. /\ u.q = t.q /\ u.anfds = t.anfds /\ u.fdchanges = t.fdchanges /\ u.rpid = t.rpid
      /\ u.backend = t.backend /\ u.reg = r /\ SameLinks(t, u) /\ SamePolls(t, u)
  BY <1>1 DEF WithForked, Loop, SameLinks, SamePolls
<1> HIDE DEF u
<1> QED BY <1>2, <1>3, <1>4, PlainSanely DEF Plainly, u

LEMMA FileSane ==
  ASSUME NEW t, LoopSane(t), NEW fd \in Fd, NEW file \in Nat, NEW r, r \in SUBSET t.reg
  PROVE  Sanely(t, WithFile(t, fd, file, r))
<1> DEFINE u == WithFile(t, fd, file, r)
<1>1. /\ t \in Loop /\ IsFiniteSet(t.reg) /\ t.reg \in SUBSET Registration
      /\ t.file \in [Fd -> Nat]
  BY RegsOf
<1>2. r \in SUBSET Registration /\ IsFiniteSet(r)
  BY <1>1, FS_Subset
<1>3. u \in Loop
  <2>1. [t.file EXCEPT ![fd] = file] \in [Fd -> Nat]
    BY <1>1
  <2> QED BY <1>1, <1>2, <2>1 DEF WithFile, Loop
<1>4. /\ u.q = t.q /\ u.anfds = t.anfds /\ u.fdchanges = t.fdchanges /\ u.rpid = t.rpid
      /\ u.backend = t.backend /\ u.reg = r /\ SameLinks(t, u) /\ SamePolls(t, u)
  BY <1>1 DEF WithFile, Loop, SameLinks, SamePolls
<1> HIDE DEF u
<1> QED BY <1>2, <1>3, <1>4, PlainSanely DEF Plainly, u

LEMMA SetSane ==
  ASSUME NEW t, LoopSane(t), NEW set \in [Watcher -> BOOLEAN]
  PROVE  Sanely(t, WithSet(t, set))
<1> DEFINE u == WithSet(t, set)
<1>1. t \in Loop /\ IsFiniteSet(t.reg)
  BY RegsOf
<1>2. u \in Loop
  BY <1>1 DEF WithSet, Loop
<1>3. /\ u.q = t.q /\ u.anfds = t.anfds /\ u.fdchanges = t.fdchanges /\ u.rpid = t.rpid
      /\ u.backend = t.backend /\ u.reg = t.reg /\ SameLinks(t, u) /\ SamePolls(t, u)
  BY <1>1 DEF WithSet, Loop, SameLinks, SamePolls
<1> HIDE DEF u
<1> QED BY <1>1, <1>2, <1>3, PlainSanely DEF Plainly, u

\* The end of the loop keeps all but its backend.
LEMMA NoneSane ==
  ASSUME NEW t, LoopSane(t)
  PROVE  LoopSane(WithNone(t)) /\ WithNone(t).rpid = t.rpid
<1> DEFINE u == WithNone(t)
<1>1. t \in Loop /\ IsFiniteSet(t.reg)
  BY RegsOf
<1>2. u \in Loop
  BY <1>1 DEF WithNone, Loop
<1>3. /\ u.q = t.q /\ u.anfds = t.anfds /\ u.fdchanges = t.fdchanges /\ u.rpid = t.rpid
      /\ u.reg = t.reg /\ SameLinks(t, u) /\ SamePolls(t, u)
  BY <1>1 DEF WithNone, Loop, SameLinks, SamePolls
<1> HIDE DEF u
<1> QED BY <1>1, <1>2, <1>3, SanePlain DEF Plainly, u

\* ev_io_set: a stopped watcher is pending for an error or an event of the
\* program only, whatever it waits for.
WithEvents(t, w, events) == [t EXCEPT !.events[w] = events, !.set[w] = TRUE]

LEMMA EventsSane ==
  ASSUME NEW t, LoopSane(t), NEW w \in Watcher, t.active[w] = 0, NEW events \in SUBSET Both
  PROVE  Sanely(t, WithEvents(t, w, events))
<1> DEFINE u == WithEvents(t, w, events)
<1>1. /\ t \in Loop /\ IsFiniteSet(t.reg) /\ t.events \in [Watcher -> SUBSET Both]
      /\ t.set \in [Watcher -> BOOLEAN]
  BY RegsOf, Typed
<1>2. u \in Loop
  <2>1. /\ [t.events EXCEPT ![w] = events] \in [Watcher -> SUBSET Both]
        /\ [t.set EXCEPT ![w] = TRUE] \in [Watcher -> BOOLEAN]
    BY <1>1
  <2> QED BY <1>1, <2>1, ZenonT(60) DEF WithEvents, Loop
<1>3. /\ u.q = t.q /\ u.anfds = t.anfds /\ u.fdchanges = t.fdchanges /\ u.rpid = t.rpid
      /\ u.backend = t.backend /\ u.reg = t.reg /\ u.polls = t.polls /\ u.pollidxs = t.pollidxs
      /\ u.pri = t.pri /\ u.active = t.active /\ u.activecnt = t.activecnt /\ u.fd = t.fd
      /\ u.arrays = t.arrays /\ u.childs = t.childs
  BY <1>1 DEF WithEvents, Loop
<1>4. \A x \in Watcher : x # w => u.events[x] = t.events[x]
  BY <1>1 DEF WithEvents, Loop
<1> HIDE DEF u
<1>5. Core(t) /\ ChangesFrom(t, 1)
  BY DEF LoopSane
<1>6. Linked(t) /\ Waiting(t) /\ Indexed(t)
  BY <1>5 DEF Core
<1>7. Heads(u)
  BY <1>3, <1>6 DEF Linked, Heads
<1>8. Arrays(u)
  BY <1>3, <1>6 DEF Linked, Arrays, Key
<1>9. Childs(u)
  BY <1>3, <1>6 DEF Linked, Childs
<1>10. Counts(u)
  BY <1>3, <1>6 DEF Linked, Counts, Alive
<1>11. Indexed(u)
  BY <1>3, <1>6 DEF Indexed
<1>12. InQueue(Priorities, Everyone, u.q, u.pri) /\ ChildrenAbove(u)
  BY <1>3, <1>6 DEF Waiting, ChildrenAbove
<1>13. Asking(u)
  <2> SUFFICES ASSUME NEW x \in Io, u.q.pending[x] # 0
               PROVE  \/ "ERROR" \in Events(u, x) \/ "CUSTOM" \in Events(u, x)
                      \/ u.active[x] # 0 /\ Events(u, x) \subseteq u.events[x]
    BY DEF Asking
  <2>1. Events(u, x) = Events(t, x)
    BY <1>3 DEF Events
  <2>2. \/ "ERROR" \in Events(t, x) \/ "CUSTOM" \in Events(t, x)
        \/ t.active[x] # 0 /\ Events(t, x) \subseteq t.events[x]
    BY <1>3, <1>6 DEF Waiting, Asking
  <2>3. t.active[x] # 0 => u.events[x] = t.events[x]
    BY <1>4 DEF Io
  <2> QED BY <1>3, <2>1, <2>2, <2>3
<1>14. ChangesFrom(u, 1)
  BY <1>3, <1>5, ChangesKept
<1>15. Core(u)
  BY <1>1, <1>2, <1>3, <1>7, <1>8, <1>9, <1>10, <1>11, <1>12, <1>13 DEF Core, Linked, Waiting
<1> QED BY <1>2, <1>3, <1>14, <1>15 DEF Sanely, LoopSane, Onward, u

-----------------------------------------------------------------------------
(* An iteration                                                            *)

LEMMA SaneAll ==
  ASSUME NEW t, LoopSane(t), NEW k \in Keys, NEW type \in Revents
  PROVE  Sanely(t, queue_all(t, k, type))
<1>1. Core(queue_all(t, k, type)) /\ OnlyQueue(t, queue_all(t, k, type))
  BY QueueAllCore DEF LoopSane
<1> QED BY <1>1, SaneQueue

LEMMA KeysAre ==
  /\ <<"fork", 0>> \in Keys /\ <<"prepare", 0>> \in Keys /\ <<"check", 0>> \in Keys
  /\ <<"cleanup", 0>> \in Keys /\ \A p \in Priorities : <<"idle", p>> \in Keys
  /\ "FORK" \in Revents /\ "PREPARE" \in Revents /\ "CHECK" \in Revents
  /\ "CLEANUP" \in Revents /\ "IDLE" \in Revents
BY DEF Keys, Kinds, Revents

LEMMA SaneIdle ==
  ASSUME NEW t, LoopSane(t)
  PROVE  Sanely(t, idle_reify(t))
<1> DEFINE busy(p) == t.q.list[p] # <<>> \/ t.arrays[<<"idle", p>>] # <<>>
           some == {x \in Priorities : busy(x)}
           p == CHOOSE x \in Priorities : busy(x) /\ \A o \in Priorities : busy(o) => o <= x
<1>1. CASE some = {}
  BY <1>1, SaneSelf DEF idle_reify
<1>2. CASE some # {}
  <2>1. some \subseteq Int /\ IsFiniteSet(some)
    BY Names, FS_Subset
  <2>2. \E x \in some : \A y \in some : y <= x
    <3> HIDE DEF some
    <3> QED BY <1>2, <2>1, GreatestExists
  <2>3. \E x \in Priorities : busy(x) /\ \A o \in Priorities : busy(o) => o <= x
    BY <2>2
  <2>4. p \in Priorities
    <3> HIDE DEF busy
    <3> QED BY <2>3
  <2>5. idle_reify(t) = t \/ idle_reify(t) = queue_all(t, <<"idle", p>>, "IDLE")
    BY DEF idle_reify
  <2> HIDE DEF p
  <2> QED BY <2>4, <2>5, KeysAre, SaneAll, SaneSelf
<1> QED BY <1>1, <1>2

\* What the program or a signal says of childev.
LEMMA SaneSignal ==
  ASSUME NEW t, LoopSane(t)
  PROVE  Sanely(t, Feed(WithSigchld(t), childev, {"SIGNAL"}))
<1> DEFINE u == WithSigchld(t)
<1>1. Sanely(t, u)
  BY SigchldSane
<1>2. LoopSane(u) /\ Core(u)
  BY <1>1 DEF Sanely, LoopSane
<1> HIDE DEF u
<1>3. {"SIGNAL"} \in SUBSET Revents
  BY DEF Revents
<1>4. Core(Feed(u, childev, {"SIGNAL"})) /\ OnlyQueue(u, Feed(u, childev, {"SIGNAL"}))
  BY <1>2, <1>3, FeedChildev
<1>5. Sanely(u, Feed(u, childev, {"SIGNAL"}))
  BY <1>2, <1>4, SaneQueue
<1> QED BY <1>1, <1>5, SaneTwice DEF u

\* What is queued after backend_poll.
AfterPoll(t) ==
  LET u == IF t.sigchld THEN Feed(WithSigchld(t), childev, {"SIGNAL"}) ELSE t
  IN  queue_all(idle_reify(u), <<"check", 0>>, "CHECK")

LEMMA SaneAfterPoll ==
  ASSUME NEW t, LoopSane(t)
  PROVE  Sanely(t, AfterPoll(t))
<1> DEFINE u == IF t.sigchld THEN Feed(WithSigchld(t), childev, {"SIGNAL"}) ELSE t
<1>1. Sanely(t, u)
  BY SaneSelf, SaneSignal
<1>2. AfterPoll(t) = queue_all(idle_reify(u), <<"check", 0>>, "CHECK")
  BY DEF AfterPoll
<1> HIDE DEF u
<1>3. Sanely(u, idle_reify(u))
  BY <1>1, SaneIdle DEF Sanely
<1>4. Sanely(idle_reify(u), AfterPoll(t))
  BY <1>2, <1>3, KeysAre, SaneAll DEF Sanely
<1> QED BY <1>1, <1>3, <1>4, SaneTwice

\* From fd_reify and the fork of the loop into backend_poll.
LEMMA SaneToPoll ==
  ASSUME NEW t, LoopSane(t), t.backend \in Backends
  PROVE  Sanely(t, fd_reify(loop_fork(t)))
<1> DEFINE u == loop_fork(t)
<1>1. Sanely(t, u)
  BY SaneFork
<1>2. LoopSane(u) /\ u.backend \in Backends
  BY <1>1 DEF Sanely, Onward
<1> HIDE DEF u
<1>3. LoopSane(fd_reify(u)) /\ Onward(u, fd_reify(u))
  BY <1>2, ReifyAllIs
<1>4. Sanely(u, fd_reify(u))
  BY <1>3 DEF Sanely, LoopSane, Core
<1> QED BY <1>1, <1>4, SaneTwice DEF u

\* The pid of a child is not overwritten while its watcher is pending.
Told(t, u) ==
  \A w \in Watcher : t.q.pending[w] # 0 /\ u.q.pending[w] # 0 => u.rpid[w] = t.rpid[w]
Steady(t, u) == LoopSane(u) /\ Told(t, u)

LEMMA SteadySane ==
  ASSUME NEW t, NEW u, Sanely(t, u)
  PROVE  Steady(t, u) /\ u.backend = t.backend
BY DEF Steady, Told, Sanely, Onward

LEMMA TakenSane ==
  ASSUME program \in Programs, NEW t, LoopSane(t), NEW p \in Priorities, t.q.list[p] # <<>>,
         NEW u, u = [t EXCEPT !.q = Take(t.q, p)]
  PROVE  /\ Sanely(t, u)
         /\ Taken(t.q, p).w = childev => \A pid \in Nat :
              Steady(t, childcb(u, pid)) /\ childcb(u, pid).backend = t.backend
<1>1. Core(u) /\ OnlyQueue(t, u)
  BY TakeCore DEF LoopSane
<1>2. Sanely(t, u)
  BY <1>1, SaneQueue
<1>3. ASSUME Taken(t.q, p).w = childev, NEW pid \in Nat
      PROVE  Steady(t, childcb(u, pid)) /\ childcb(u, pid).backend = t.backend
  <2>1. Reaped(u, childcb(u, pid))
    BY <1>2, ChildcbIs DEF Sanely
  <2>2. \A v \in Watcher : kind[v] = "child" => t.q.pending[v] = 0
    BY <1>3, TakeCore DEF LoopSane
  <2>3. u.rpid = t.rpid /\ u.backend = t.backend
    BY <1>2 DEF Sanely, Onward
  <2> QED BY <2>1, <2>2, <2>3 DEF Reaped, Steady, Told
<1> QED BY <1>2, <1>3

-----------------------------------------------------------------------------
(* The invariant is kept                                                   *)

LEMMA Primed ==
  ASSUME program' = program, NEW t, t = s', LoopSane(t)
  PROVE  LoopSane(s)'
<1>k. \A w \in Watcher : Key(t, w) = Key(s, w)'
  BY DEF Key, kind
<1>1. Heads(s)'
  BY DEF LoopSane, Core, Linked, Heads, kind
<1>2. Arrays(s)'
  BY DEF LoopSane, Core, Linked, Arrays, Key, kind
<1>3. Childs(s)'
  BY DEF LoopSane, Core, Linked, Childs, kind, Chain
<1>4. Counts(s)'
  <2>1. Alive(t) = Alive(s)'
    BY DEF Alive, Counted, kind
  <2> QED BY <2>1 DEF LoopSane, Core, Linked, Counts
<1>5. Asking(s)'
  BY DEF LoopSane, Core, Waiting, Asking, Events, Io, kind
<1>6. ChildrenAbove(s)'
  BY DEF LoopSane, Core, Waiting, ChildrenAbove, kind
<1>7. Indexed(s)'
  BY DEF LoopSane, Core, Indexed
<1>8. ChangesFrom(s, 1)'
  BY DEF LoopSane, ChangesFrom
<1> QED BY <1>1, <1>2, <1>3, <1>4, <1>5, <1>6, <1>7, <1>8 DEF LoopSane, Core, Linked, Waiting

Kept == LoopInv' /\ Told(s, s')

LEMMA KeptBy ==
  ASSUME LoopInv, program' = program, NEW t, s' = t, Steady(s, t), t.backend = s.backend,
         frames' \in Seq(Frames), frames' = <<>> \/ s.backend # "none"
  PROVE  Kept
<1>1. LoopSane(s)'
  BY Primed DEF Steady
<1>2. Told(s, s')
  BY DEF Steady
<1> QED BY <1>1, <1>2 DEF Kept, LoopInv

LEMMA KeptSanely ==
  ASSUME LoopInv, program' = program, NEW t, s' = t, Sanely(s, t),
         frames' \in Seq(Frames), frames' = <<>> \/ s.backend # "none"
  PROVE  Kept
<1>1. Steady(s, t) /\ t.backend = s.backend
  BY SteadySane
<1> QED BY <1>1, KeptBy

\* The frame on top, and what takes its place.
LEMMA TopIs ==
  ASSUME LoopInv, frames # <<>>
  PROVE  /\ Top \in Frames /\ Front(frames) \in Seq(Frames) /\ s.backend \in Backends
         /\ Top.pri \in Priorities /\ Top.once \in BOOLEAN
<1>1. frames \in Seq(Frames) /\ Len(frames) # 0
  BY DEF LoopInv
<1>2. Top \in Frames
  BY <1>1 DEF Top, Last
<1>3. Front(frames) \in Seq(Frames)
  BY <1>1 DEF Front
<1>4. s \in Loop /\ s.backend # "none"
  BY DEF LoopInv, LoopSane, Core
<1>5. s.backend \in Backends
  BY <1>4 DEF Loop, Backends
<1> QED BY <1>2, <1>3, <1>5 DEF Frames

LEMMA ReplacedIs ==
  ASSUME LoopInv, frames # <<>>, NEW f \in Frames, Replaced(f)
  PROVE  frames' \in Seq(Frames)
BY TopIs DEF Replaced

LEMMA FramesAre ==
  ASSUME LoopInv, frames # <<>>
  PROVE  /\ [Top EXCEPT !.at = "poll", !.cb = FALSE] \in Frames
         /\ [Top EXCEPT !.at = "prepares", !.pri = MAXPRI, !.cb = FALSE] \in Frames
         /\ [Top EXCEPT !.at = "forks", !.pri = MAXPRI, !.cb = FALSE] \in Frames
         /\ [Top EXCEPT !.at = "end", !.pri = MAXPRI, !.cb = FALSE] \in Frames
         /\ \A p \in Priorities : \A b \in BOOLEAN : [Top EXCEPT !.pri = p, !.cb = b] \in Frames
BY TopIs, MaxpriIs DEF Frames

LEMMA FrameIs ==
  ASSUME NEW once \in BOOLEAN
  PROVE  Frame("entry", once) \in Frames /\ Frame("cleanups", once) \in Frames
BY MaxpriIs DEF Frame, Frames

LEMMA InitKept ==
  ASSUME Init
  PROVE  LoopInv
<1>1. program \in Programs
  BY DEF Init
<1>2. LoopSane(s) /\ s.backend \in Backends
  BY <1>1, StartedSane DEF Init
<1>3. frames \in Seq(Frames)
  <2> DEFINE f == Frame("entry", FALSE)
  <2>1. frames = <<f>>
    BY DEF Init
  <2>2. f \in Frames
    BY FrameIs
  <2> HIDE DEF f
  <2> QED BY <2>1, <2>2
<1> QED BY <1>1, <1>2, <1>3 DEF LoopInv, Backends

LEMMA InvokeKept ==
  ASSUME LoopInv, Invoke
  PROVE  Kept
<1> DEFINE p == CHOOSE x \in Left(Top) : \A o \in Left(Top) : o <= x
           w == Taken(s.q, p).w
           u == [s EXCEPT !.q = Take(s.q, p)]
           b == w \in Watcher
<1>1. frames # <<>> /\ Left(Top) # {} /\ program' = program
  BY DEF Invoke, Invoking
<1>2. /\ Replaced([Top EXCEPT !.pri = p, !.cb = b])
      /\ IF w = childev /\ u.zombies # {} THEN \E pid \in u.zombies : s' = childcb(u, pid) ELSE s' = u
  BY DEF Invoke
<1>3. p \in Left(Top)
  <2>1. Left(Top) \subseteq Priorities
    BY DEF Left
  <2>2. Left(Top) \subseteq Int /\ IsFiniteSet(Left(Top))
    BY <2>1, Names, FS_Subset
  <2>3. \E x \in Left(Top) : \A o \in Left(Top) : o <= x
    BY <1>1, <2>2, GreatestExists
  <2> QED BY <2>3
<1>4. p \in Priorities /\ s.q.list[p] # <<>>
  BY <1>3 DEF Left
<1>5. b \in BOOLEAN
  OBVIOUS
<1>6. LoopSane(s) /\ program \in Programs
  BY DEF LoopInv
<1>7. s.backend # "none"
  BY <1>1 DEF LoopInv
<1> HIDE DEF p, b
<1>8. frames' \in Seq(Frames)
  BY <1>1, <1>2, <1>4, <1>5, FramesAre, ReplacedIs
<1>9. /\ Sanely(s, u)
      /\ w = childev => \A pid \in Nat :
           Steady(s, childcb(u, pid)) /\ childcb(u, pid).backend = s.backend
  BY <1>4, <1>6, TakenSane
<1> HIDE DEF w, u
<1>10. CASE w = childev /\ u.zombies # {}
  <2>1. PICK pid \in u.zombies : s' = childcb(u, pid)
    BY <1>2, <1>10
  <2>2. pid \in Nat
    BY <1>9, Typed DEF Sanely
  <2>3. Steady(s, childcb(u, pid)) /\ childcb(u, pid).backend = s.backend
    BY <1>9, <1>10, <2>2
  <2> QED BY <1>1, <1>7, <1>8, <2>1, <2>3, KeptBy
<1>11. CASE ~(w = childev /\ u.zombies # {})
  <2>1. s' = u
    BY <1>2, <1>11
  <2> QED BY <1>1, <1>7, <1>8, <1>9, <2>1, KeptSanely
<1> QED BY <1>10, <1>11

LEMMA LeaveKept ==
  ASSUME LoopInv, frames # <<>>, program' = program, Leave
  PROVE  Kept
<1>1. frames' \in Seq(Frames) /\ s.backend # "none"
  BY TopIs DEF Leave, LoopInv
<1> DEFINE how == IF s.loop_done = "ONE" THEN "CANCEL" ELSE s.loop_done
<1>2. how \in {"CANCEL", "ONE", "ALL"}
  BY DEF LoopInv, LoopSane, Core, Loop
<1>3. s' = WithDone(s, how)
  BY DEF Leave, WithDone
<1> HIDE DEF how
<1>4. Sanely(s, WithDone(s, how))
  BY <1>2, DoneSane DEF LoopInv
<1> QED BY <1>1, <1>3, <1>4, KeptSanely

LEMMA ToPollKept ==
  ASSUME LoopInv, frames # <<>>, program' = program, ToPoll
  PROVE  Kept
<1>1. CASE s.loop_done # "CANCEL"
  BY <1>1, LeaveKept DEF ToPoll
<1>2. CASE s.loop_done = "CANCEL"
  <2>1. /\ s' = fd_reify(loop_fork(s))
        /\ Replaced([Top EXCEPT !.at = "poll", !.cb = FALSE])
    BY <1>2 DEF ToPoll
  <2>2. frames' \in Seq(Frames)
    BY <2>1, FramesAre, ReplacedIs
  <2>3. Sanely(s, fd_reify(loop_fork(s))) /\ s.backend # "none"
    BY TopIs, SaneToPoll DEF LoopInv
  <2> QED BY <2>1, <2>2, <2>3, KeptSanely
<1> QED BY <1>1, <1>2

LEMMA ToPreparesKept ==
  ASSUME LoopInv, frames # <<>>, program' = program, ToPrepares
  PROVE  Kept
<1>1. CASE s.arrays[Prepares] = <<>>
  BY <1>1, ToPollKept DEF ToPrepares
<1>2. CASE s.arrays[Prepares] # <<>>
  <2>1. /\ s' = queue_all(s, Prepares, "PREPARE")
        /\ Replaced([Top EXCEPT !.at = "prepares", !.pri = MAXPRI, !.cb = FALSE])
    BY <1>2 DEF ToPrepares
  <2>2. frames' \in Seq(Frames)
    BY <2>1, FramesAre, ReplacedIs
  <2>3. Sanely(s, queue_all(s, Prepares, "PREPARE")) /\ s.backend # "none"
    BY KeysAre, SaneAll DEF LoopInv, Prepares
  <2> QED BY <2>1, <2>2, <2>3, KeptSanely
<1> QED BY <1>1, <1>2

LEMMA IterateKept ==
  ASSUME LoopInv, frames # <<>>, program' = program, Iterate
  PROVE  Kept
<1>1. CASE ~(s.postfork /\ s.arrays[Forks] # <<>>)
  BY <1>1, ToPreparesKept DEF Iterate
<1>2. CASE s.postfork /\ s.arrays[Forks] # <<>>
  <2>1. /\ s' = queue_all(s, Forks, "FORK")
        /\ Replaced([Top EXCEPT !.at = "forks", !.pri = MAXPRI, !.cb = FALSE])
    BY <1>2 DEF Iterate
  <2>2. frames' \in Seq(Frames)
    BY <2>1, FramesAre, ReplacedIs
  <2>3. Sanely(s, queue_all(s, Forks, "FORK")) /\ s.backend # "none"
    BY KeysAre, SaneAll DEF LoopInv, Forks
  <2> QED BY <2>1, <2>2, <2>3, KeptSanely
<1> QED BY <1>1, <1>2

\* ev_loop_destroy ends with no loop at all.
LEMMA DestroyedKept ==
  ASSUME LoopInv, program' = program, Destroyed
  PROVE  Kept
<1>1. LoopSane(WithNone(s)) /\ WithNone(s).rpid = s.rpid
  BY NoneSane DEF LoopInv
<1>2. s' = WithNone(s) /\ frames' = <<>>
  BY DEF Destroyed, WithNone
<1>3. LoopSane(s)'
  BY <1>1, <1>2, Primed
<1>4. Told(s, s')
  BY <1>1, <1>2 DEF Told
<1> QED BY <1>2, <1>3, <1>4 DEF Kept, LoopInv

LEMMA ContinueKept ==
  ASSUME LoopInv, Continue
  PROVE  Kept
<1>1. frames # <<>> /\ program' = program /\ Top \in Frames /\ Top.at # "poll"
  BY TopIs DEF Continue, PassOver
<1>2. Top.at \in {"entry", "forks", "prepares", "end", "cleanups"}
  BY <1>1 DEF Frames
<1>3. CASE Top.at = "entry"
  BY <1>1, <1>3, IterateKept DEF Continue
<1>4. CASE Top.at = "forks"
  BY <1>1, <1>4, ToPreparesKept DEF Continue
<1>5. CASE Top.at = "prepares"
  BY <1>1, <1>5, ToPollKept DEF Continue
<1>6. CASE Top.at = "cleanups"
  BY <1>1, <1>6, DestroyedKept DEF Continue
<1>7. CASE Top.at = "end"
  <2>1. Iterate \/ Leave
    BY <1>7 DEF Continue
  <2> QED BY <1>1, <2>1, IterateKept, LeaveKept
<1> QED BY <1>2, <1>3, <1>4, <1>5, <1>6, <1>7

LEMMA PollKept ==
  ASSUME LoopInv, Poll
  PROVE  Kept
<1>1. /\ frames # <<>> /\ program' = program
      /\ Replaced([Top EXCEPT !.at = "end", !.pri = MAXPRI, !.cb = FALSE])
  BY DEF Poll
<1>2. frames' \in Seq(Frames)
  BY <1>1, FramesAre, ReplacedIs
<1>3. LoopSane(s) /\ s.backend \in Backends /\ s.backend # "none"
  BY <1>1, TopIs DEF LoopInv
<1>4. PICK got \in Reports(s), nomem \in BOOLEAN : s' = AfterPoll(backend_poll(s, got, nomem))
  BY DEF Poll, AfterPoll, WithSigchld
<1> DEFINE t == backend_poll(s, got, nomem)
<1>5. Sanely(s, t)
  BY <1>3, SanePoll
<1>6. s' = AfterPoll(t)
  BY <1>4
<1> HIDE DEF t
<1>7. Sanely(t, AfterPoll(t))
  BY <1>5, SaneAfterPoll DEF Sanely
<1>8. Sanely(s, AfterPoll(t))
  BY <1>5, <1>7, SaneTwice
<1> QED BY <1>1, <1>2, <1>3, <1>6, <1>8, KeptSanely

-----------------------------------------------------------------------------
(* The program's calls                                                     *)

\* child_reap gives a child watcher that waits in the queue another priority,
\* which only a program that feeds it can see.
ChildrenUnfed ==
  \A p \in Programs : "feed" \in p.ops => \A w \in Watcher : p.kind[w] # "child"

LEMMA CallIs ==
  ASSUME LoopInv, NEW op, Call(op)
  PROVE  /\ program' = program /\ op \in program.ops /\ s.backend # "none"
         /\ frames \in Seq(Frames) /\ LoopSane(s) /\ s \in Loop /\ program \in Programs
BY DEF Call, LoopInv, LoopSane, Core

LEMMA StartKept ==
  ASSUME LoopInv, NEW w \in Watcher, CallStart(w)
  PROVE  Kept
<1>1. Call("start") /\ s' = Start(s, w) /\ frames' = frames
  BY DEF CallStart
<1>2. /\ program' = program /\ s.backend # "none" /\ frames \in Seq(Frames)
      /\ LoopSane(s) /\ program \in Programs
  BY <1>1, CallIs
<1>3. Sanely(s, Start(s, w))
  BY <1>2, SaneStart
<1> QED BY <1>1, <1>2, <1>3, KeptSanely

LEMMA StopKept ==
  ASSUME LoopInv, NEW w \in Watcher, CallStop(w)
  PROVE  Kept
<1>1. Call("stop") /\ s' = Stop(s, w) /\ frames' = frames
  BY DEF CallStop
<1>2. /\ program' = program /\ s.backend # "none" /\ frames \in Seq(Frames)
      /\ LoopSane(s) /\ program \in Programs
  BY <1>1, CallIs
<1>3. Sanely(s, Stop(s, w))
  BY <1>2, SaneStop
<1> QED BY <1>1, <1>2, <1>3, KeptSanely

LEMMA FeedKept ==
  ASSUME LoopInv, ChildrenUnfed, NEW w \in Watcher, CallFeed(w)
  PROVE  Kept
<1>1. Call("feed") /\ s' = Feed(s, w, {"CUSTOM"}) /\ frames' = frames
  BY DEF CallFeed
<1>2. /\ program' = program /\ s.backend # "none" /\ frames \in Seq(Frames)
      /\ LoopSane(s) /\ program \in Programs /\ "feed" \in program.ops
  BY <1>1, CallIs
<1>3. kind[w] # "child"
  BY <1>2 DEF ChildrenUnfed, kind
<1>4. {"CUSTOM"} \in SUBSET Revents /\ "CUSTOM" \in {"CUSTOM"} /\ Core(s)
  BY <1>2 DEF Revents, LoopSane
<1>5. Core(Feed(s, w, {"CUSTOM"})) /\ OnlyQueue(s, Feed(s, w, {"CUSTOM"}))
  BY <1>3, <1>4, FeedCore
<1>6. Sanely(s, Feed(s, w, {"CUSTOM"}))
  BY <1>2, <1>5, SaneQueue
<1> QED BY <1>1, <1>2, <1>6, KeptSanely

LEMMA BreakKept ==
  ASSUME LoopInv, NEW how \in {"ONE", "ALL"}, CallBreak(how)
  PROVE  Kept
<1>1. Call("break") /\ s' = WithDone(s, how) /\ frames' = frames
  BY DEF CallBreak, WithDone
<1>2. program' = program /\ s.backend # "none" /\ frames \in Seq(Frames) /\ LoopSane(s)
  BY <1>1, CallIs
<1>3. Sanely(s, WithDone(s, how))
  BY <1>2, DoneSane
<1> QED BY <1>1, <1>2, <1>3, KeptSanely

LEMMA RunKept ==
  ASSUME LoopInv, NEW once \in BOOLEAN, CallRun(once)
  PROVE  Kept
<1>1. Call("run") /\ s' = WithDone(s, "CANCEL") /\ frames' = Append(frames, Frame("entry", once))
  BY DEF CallRun, WithDone
<1>2. program' = program /\ s.backend # "none" /\ frames \in Seq(Frames) /\ LoopSane(s)
  BY <1>1, CallIs
<1>3. frames' \in Seq(Frames)
  BY <1>1, <1>2, FrameIs
<1>4. Sanely(s, WithDone(s, "CANCEL"))
  BY <1>2, DoneSane
<1> QED BY <1>1, <1>2, <1>3, <1>4, KeptSanely

LEMMA SetKept ==
  ASSUME LoopInv, NEW w \in Watcher, NEW events \in SUBSET Both, CallSet(w, events)
  PROVE  Kept
<1>1. Call("set") /\ s.active[w] = 0 /\ s' = WithEvents(s, w, events) /\ frames' = frames
  BY DEF CallSet, WithEvents
<1>2. program' = program /\ s.backend # "none" /\ frames \in Seq(Frames) /\ LoopSane(s)
  BY <1>1, CallIs
<1>3. Sanely(s, WithEvents(s, w, events))
  BY <1>1, <1>2, EventsSane
<1> QED BY <1>1, <1>2, <1>3, KeptSanely

LEMMA CloseKept ==
  ASSUME LoopInv, NEW fd \in Fd, CallClose(fd)
  PROVE  Kept
<1> DEFINE r == {x \in s.reg : IF s.backend = "epoll" THEN x.file # s.file[fd] \/ x.file \in s.kept
                               ELSE x.fd # fd}
<1>1. Call("close") /\ s' = close(s, fd) /\ frames' = frames
  BY DEF CallClose
<1>2. close(s, fd) = WithFile(s, fd, 0, r)
  BY DEF close, WithFile
<1>3. program' = program /\ s.backend # "none" /\ frames \in Seq(Frames) /\ LoopSane(s)
  BY <1>1, CallIs
<1>4. r \in SUBSET s.reg
  OBVIOUS
<1> HIDE DEF r
<1>5. Sanely(s, WithFile(s, fd, 0, r))
  BY <1>3, <1>4, FileSane
<1> QED BY <1>1, <1>2, <1>3, <1>5, KeptSanely

\* The fd is closed, opened with the file, and its watchers are set.
LEMMA ReplaceKept ==
  ASSUME LoopInv, program' = program, s.backend # "none",
         NEW fd \in Fd, NEW file \in Nat, Replace(fd, file)
  PROVE  Kept
<1> DEFINE set == [w \in Watcher |-> s.set[w] \/ (w \in Io /\ s.fd[w] = fd)]
           r == {x \in s.reg : IF s.backend = "epoll" THEN x.file # s.file[fd] \/ x.file \in s.kept
                               ELSE x.fd # fd}
           c == WithFile(s, fd, 0, r)
           t == WithFile(c, fd, file, c.reg)
<1>1. s' = [open(close(s, fd), fd, file) EXCEPT !.set = set] /\ frames' = frames
  BY DEF Replace
<1>2. frames \in Seq(Frames) /\ LoopSane(s) /\ s \in Loop
  BY DEF LoopInv, LoopSane, Core
<1>3. close(s, fd) = c
  BY DEF close, WithFile
<1>4. Sanely(s, c)
  <2>1. r \in SUBSET s.reg
    OBVIOUS
  <2> HIDE DEF r
  <2> QED BY <1>2, <2>1, FileSane
<1> HIDE DEF c
<1>5. LoopSane(c) /\ c \in Loop
  BY <1>4 DEF Sanely, LoopSane, Core
<1>6. open(c, fd, file) = t
  BY <1>5 DEF open, WithFile, Loop
<1>7. Sanely(c, t)
  BY <1>5, FileSane
<1> HIDE DEF t
<1>8. set \in [Watcher -> BOOLEAN]
  <2>1. s.set \in [Watcher -> BOOLEAN]
    BY <1>2, Typed
  <2> QED BY <2>1
<1> HIDE DEF set
<1>9. s' = WithSet(t, set)
  BY <1>1, <1>3, <1>6 DEF WithSet
<1>10. Sanely(t, WithSet(t, set))
  BY <1>7, <1>8, SetSane DEF Sanely
<1>11. Sanely(s, WithSet(t, set))
  BY <1>4, <1>7, <1>10, SaneTwice
<1> QED BY <1>1, <1>2, <1>9, <1>11, KeptSanely

LEMMA OpenKept ==
  ASSUME LoopInv, NEW fd \in Fd, CallOpen(fd)
  PROVE  Kept
<1>1. Call("open") /\ \E file \in 1..MaxFiles : Replace(fd, file)
  BY DEF CallOpen
<1>2. program' = program /\ s.backend # "none" /\ 1..MaxFiles \subseteq Nat
  BY <1>1, CallIs, ProgramAssumption
<1> QED BY <1>1, <1>2, ReplaceKept

LEMMA Dup2Kept ==
  ASSUME LoopInv, NEW fd \in Fd, CallDup2(fd)
  PROVE  Kept
<1>1. Call("dup2") /\ \E file \in s.kept : Replace(fd, file)
  BY DEF CallDup2
<1>2. program' = program /\ s.backend # "none" /\ s \in Loop
  BY <1>1, CallIs
<1>3. s.kept \in SUBSET Nat
  BY <1>2 DEF Loop
<1> QED BY <1>1, <1>2, <1>3, ReplaceKept

LEMMA DupKept ==
  ASSUME LoopInv, NEW fd \in Fd, CallDup(fd)
  PROVE  Kept
<1>1. Call("dup") /\ s' = WithKept(s, {s.file[fd]}) /\ frames' = frames
  BY DEF CallDup, WithKept
<1>2. program' = program /\ s.backend # "none" /\ frames \in Seq(Frames) /\ LoopSane(s) /\ s \in Loop
  BY <1>1, CallIs
<1>3. {s.file[fd]} \in SUBSET Nat
  BY <1>2, Typed
<1>4. Sanely(s, WithKept(s, {s.file[fd]}))
  BY <1>2, <1>3, KeptSane
<1> QED BY <1>1, <1>2, <1>4, KeptSanely

LEMMA ForkKept ==
  ASSUME LoopInv, CallFork
  PROVE  Kept
<1> DEFINE files == {s.file[f] : f \in Fd}
           r == IF s.backend = "kqueue" THEN {} ELSE s.reg
<1>1. Call("fork") /\ s' = WithForked(s, files, r) /\ frames' = frames
  BY DEF CallFork, WithForked
<1>2. program' = program /\ s.backend # "none" /\ frames \in Seq(Frames) /\ LoopSane(s) /\ s \in Loop
  BY <1>1, CallIs
<1>3. files \in SUBSET Nat /\ r \in SUBSET s.reg
  BY <1>2, Typed
<1> HIDE DEF files, r
<1>4. Sanely(s, WithForked(s, files, r))
  BY <1>2, <1>3, ForkedSane
<1> QED BY <1>1, <1>2, <1>4, KeptSanely

LEMMA DestroyKept ==
  ASSUME LoopInv, CallDestroy
  PROVE  Kept
<1>1. program' = program /\ s.backend # "none" /\ LoopSane(s)
  BY CallIs DEF CallDestroy
<1>2. CASE Destroyed
  BY <1>1, <1>2, DestroyedKept
<1>3. CASE /\ s' = queue_all(s, Cleanups, "CLEANUP")
           /\ frames' = <<Frame("cleanups", TRUE)>>
  <2>1. frames' \in Seq(Frames)
    <3> DEFINE f == Frame("cleanups", TRUE)
    <3>1. frames' = <<f>>
      BY <1>3
    <3>2. f \in Frames
      BY FrameIs
    <3> HIDE DEF f
    <3> QED BY <3>1, <3>2
  <2>2. Sanely(s, queue_all(s, Cleanups, "CLEANUP"))
    BY <1>1, KeysAre, SaneAll DEF Cleanups
  <2> QED BY <1>1, <1>3, <2>1, <2>2, KeptSanely
<1> QED BY <1>2, <1>3 DEF CallDestroy

LEMMA ExitKept ==
  ASSUME LoopInv, Exit
  PROVE  Kept
<1>1. PICK pid \in 1..2 : s' = WithExit(s, pid)
  BY DEF Exit, WithExit
<1>2. /\ frames # <<>> /\ frames' = frames /\ program' = program
      /\ frames \in Seq(Frames) /\ s.backend # "none" /\ LoopSane(s)
  BY DEF Exit, LoopInv
<1>3. Sanely(s, WithExit(s, pid))
  BY <1>2, ExitSane
<1> QED BY <1>1, <1>2, <1>3, KeptSanely

LEMMA StepKept ==
  ASSUME LoopInv, ChildrenUnfed, [Next]_vars
  PROVE  Kept
<1>1. CASE UNCHANGED vars
  <2>1. /\ s' = s /\ program' = program /\ frames' = frames /\ LoopSane(s)
        /\ frames \in Seq(Frames) /\ (frames = <<>> \/ s.backend # "none")
    BY <1>1 DEF vars, LoopInv
  <2>2. Sanely(s, s)
    BY <2>1, SaneSelf
  <2> QED BY <2>1, <2>2, KeptSanely
<1>2. CASE \E w \in Watcher : CallStart(w) \/ CallStop(w) \/ CallFeed(w)
  BY <1>2, StartKept, StopKept, FeedKept
<1>3. CASE \E w \in Watcher, events \in (SUBSET Both) \ {{}} : CallSet(w, events)
  BY <1>3, SetKept
<1>4. CASE \E how \in {"ONE", "ALL"} : CallBreak(how)
  BY <1>4, BreakKept
<1>5. CASE \E once \in BOOLEAN : CallRun(once)
  BY <1>5, RunKept
<1>6. CASE \E fd \in Fd : CallClose(fd) \/ CallOpen(fd) \/ CallDup(fd) \/ CallDup2(fd)
  BY <1>6, CloseKept, OpenKept, DupKept, Dup2Kept
<1>7. CASE Invoke \/ Continue \/ Poll \/ Exit \/ CallFork \/ CallDestroy
  BY <1>7, InvokeKept, ContinueKept, PollKept, ExitKept, ForkKept, DestroyKept
<1> QED BY <1>1, <1>2, <1>3, <1>4, <1>5, <1>6, <1>7 DEF Next

-----------------------------------------------------------------------------
(* The theorems                                                            *)

LEMMA ElementsCounted ==
  ASSUME NEW S, NEW list \in Seq(S), Distinct(list)
  PROVE  Cardinality(ToSet(list)) = Len(list)
<1> DEFINE n == Len(list)
           f == [i \in 1..n |-> list[i]]
           T == ToSet(list)
<1>1. n \in Nat /\ DOMAIN list = 1..n
  OBVIOUS
<1>2. T = {list[i] : i \in 1..n}
  BY <1>1 DEF ToSet
<1>3. \A i, j \in 1..n : list[i] = list[j] => i = j
  BY DEF Distinct
<1> HIDE DEF n, T
<1>4. f \in Bijection(1..n, T)
  <2>1. f \in [1..n -> T]
    BY <1>2
  <2>2. f \in Injection(1..n, T)
    BY <1>3, <2>1 DEF Injection, IsInjective
  <2>3. f \in Surjection(1..n, T)
    BY <1>2, <2>1 DEF Surjection
  <2> QED BY <2>2, <2>3 DEF Bijection
<1>5. ExistsBijection(1..n, T)
  BY <1>4 DEF ExistsBijection
<1>6. IsFiniteSet(1..n) /\ Cardinality(1..n) = n
  BY <1>1, FS_Interval
<1> QED BY <1>5, <1>6, FS_Bijection DEF n, T

LEMMA VerifiedIs ==
  ASSUME LoopInv
  PROVE  Verified
<1>1. /\ s \in Loop /\ Heads(s) /\ Arrays(s) /\ Counts(s) /\ Indexed(s) /\ ChangesFrom(s, 1)
      /\ InQueue(Priorities, Everyone, s.q, s.pri)
  BY DEF LoopInv, LoopSane, Core, Linked, Waiting
<1>2. \A k \in Keys : \A i \in DOMAIN s.arrays[k] : s.active[s.arrays[k][i]] = i
  <2> SUFFICES ASSUME NEW k \in Keys PROVE \A i \in DOMAIN s.arrays[k] : s.active[s.arrays[k][i]] = i
    OBVIOUS
  <2>1. s.arrays[k] \in Seq(Watcher)
    BY <1>1, Typed
  <2>2. DOMAIN s.arrays[k] = 1..Len(s.arrays[k])
    BY <2>1
  <2> QED BY <1>1, <2>2 DEF Arrays
<1>3. \A f \in Fd : \A w \in ToSet(s.anfds[f].head) : s.active[w] = 1 /\ s.fd[w] = f
  <2> SUFFICES ASSUME NEW f \in Fd, NEW w \in ToSet(s.anfds[f].head)
               PROVE  s.active[w] = 1 /\ s.fd[w] = f
    OBVIOUS
  <2>1. s.anfds[f].head \in Seq(Watcher)
    BY <1>1, AnfdIs
  <2>2. PICK i \in 1..Len(s.anfds[f].head) : w = s.anfds[f].head[i]
    BY <2>1 DEF ToSet
  <2> QED BY <1>1, <2>2 DEF Heads
<1>4. QueueVerified(s.q, s.pri)
  <2>1. /\ s.pri \in [Everyone \cup {NoWatcher} -> Priorities] /\ s.q \in Queues(Priorities, Everyone)
        /\ NoWatcher \notin Everyone
    BY <1>1, Names, Typed
  <2> QED BY <1>1, <2>1, InQueueIs
<1>5. s.fdchanges \in Seq(Fd)
  BY <1>1, Typed
<1>6. ToSet(s.fdchanges) = {f \in Fd : s.anfds[f].reify # {}}
  <2>1. ToSet(s.fdchanges) = {s.fdchanges[i] : i \in 1..Len(s.fdchanges)}
    BY <1>5 DEF ToSet
  <2>2. \A fd \in Fd : s.anfds[fd].reify # {} <=> \E i \in 1..Len(s.fdchanges) : s.fdchanges[i] = fd
    BY <1>1 DEF ChangesFrom
  <2>3. \A i \in 1..Len(s.fdchanges) : s.fdchanges[i] \in Fd
    BY <1>5
  <2> QED BY <2>1, <2>2, <2>3
<1>7. Cardinality(ToSet(s.fdchanges)) = Len(s.fdchanges)
  <2>1. Distinct(s.fdchanges)
    BY <1>1 DEF Distinct, ChangesFrom
  <2> QED BY <1>5, <2>1, ElementsCounted
<1>8. \A f \in Fd : s.pollidxs[f] # 0 => s.polls[s.pollidxs[f]].fd = f
  BY <1>1 DEF Indexed, IndexedBy
<1>9. s.activecnt = Cardinality({w \in Watcher : s.active[w] # 0 /\ Counted(w) = 1})
  BY <1>1 DEF Counts, Alive
<1> QED BY <1>2, <1>3, <1>4, <1>6, <1>7, <1>8, <1>9 DEF Verified

LEMMA OnlyAskedIs ==
  ASSUME LoopInv
  PROVE  OnlyAsked
<1>1. Asking(s)
  BY DEF LoopInv, LoopSane, Core, Waiting
<1> QED BY <1>1 DEF OnlyAsked, Asking, Events

\* What the queue, the lists, the arrays and the counters of a loop say of each
\* other always holds, unless the program feeds child watchers.
THEOREM LoopInvHolds ==
  ASSUME ChildrenUnfed
  PROVE  Spec => []LoopInv
<1>1. LoopInv /\ [Next]_vars => LoopInv'
  BY StepKept DEF Kept
<1> QED BY <1>1, InitKept, PTL DEF Spec

\* What ev_verify asserts holds throughout ev_run: active watchers are where
\* they believe to be, pending ones are in the queue, fdchanges are the fds to
\* reify and activecnt is what keeps the loop alive; whatever the backend, the
\* program's calls and the kernel's reports are.
THEOREM VerifiedHolds ==
  ASSUME ChildrenUnfed
  PROVE  Spec => []Verified
BY LoopInvHolds, VerifiedIs, PTL

\* An ev_io that is pending for no error and was not fed is active, and waits
\* for all the events that it is pending for: ev_io_stop and ev_io_set leave
\* nothing behind in the queue.
THEOREM OnlyAskedHolds ==
  ASSUME ChildrenUnfed
  PROVE  Spec => []OnlyAsked
BY LoopInvHolds, OnlyAskedIs, PTL

\* childcb never overwrites the pid of a child whose callback is outstanding,
\* for the loop's own watcher lies below it in the queue.
THEOREM ChildrenToldHolds ==
  ASSUME ChildrenUnfed
  PROVE  Spec => ChildrenTold
<1>1. LoopInv /\ [Next]_vars =>
        [\A w \in Watcher :
           s.q.pending[w] # 0 /\ s'.q.pending[w] # 0 => s'.rpid[w] = s.rpid[w]]_vars
  BY StepKept DEF Kept, Told
<1> QED BY <1>1, LoopInvHolds, PTL DEF Spec, ChildrenTold

=============================================================================
