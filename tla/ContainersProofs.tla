--------------------------- MODULE ContainersProofs ---------------------------
(***************************************************************************)
(* The containers of the library.  The pages of a var_buf_t keep their     *)
(* shape, and what is read is what was written, for any page size and any  *)
(* bytes.  list_t keeps its links, pointers and counter in step, and       *)
(* behaves as a sequence, for any number of nodes and items.  The list,    *)
(* the counter and the ownership of the blocks of a linked_allocator_t     *)
(* stay intact, for any blocks and any chunk size, and it does what        *)
(* Allocator says.                                                         *)
(***************************************************************************)
EXTENDS VarBuf, List, LinkedAllocator, LoopsProofs, SequenceTheorems

-----------------------------------------------------------------------------
(* Sequences *)

\* What is left of a sequence, and of two that are joined.
Rest(s, n) == SubSeq(s, n + 1, Len(s))

LEMMA RestType ==
  ASSUME NEW S, NEW s \in Seq(S), NEW n \in 0..Len(s)
  PROVE  /\ Rest(s, n) \in Seq(S) /\ Len(Rest(s, n)) = Len(s) - n
         /\ \A i \in 1..Len(s) - n : Rest(s, n)[i] = s[n + i]
<1>1. Len(s) \in Nat /\ \A i \in n + 1..Len(s) : s[i] \in S
  BY LenProperties, ElementOfSeq
<1>2. /\ SubSeq(s, n + 1, Len(s)) \in Seq(S)
      /\ Len(SubSeq(s, n + 1, Len(s))) = IF n + 1 <= Len(s) THEN Len(s) - (n + 1) + 1 ELSE 0
      /\ \A i \in 1..Len(s) - (n + 1) + 1 : SubSeq(s, n + 1, Len(s))[i] = s[n + 1 + i - 1]
  BY <1>1, SubSeqProperties
<1>3. \A i \in 1..Len(s) - n : s[n + 1 + i - 1] = s[n + i]
  BY <1>1
<1> QED BY <1>1, <1>2, <1>3 DEF Rest

LEMMA TakeType ==
  ASSUME NEW S, NEW s \in Seq(S), NEW n \in 0..Len(s)
  PROVE  /\ SubSeq(s, 1, n) \in Seq(S) /\ Len(SubSeq(s, 1, n)) = n
         /\ \A i \in 1..n : SubSeq(s, 1, n)[i] = s[i]
<1>1. Len(s) \in Nat /\ \A i \in 1..n : s[i] \in S
  BY LenProperties, ElementOfSeq
<1>2. /\ SubSeq(s, 1, n) \in Seq(S)
      /\ Len(SubSeq(s, 1, n)) = IF 1 <= n THEN n - 1 + 1 ELSE 0
      /\ \A i \in 1..n - 1 + 1 : SubSeq(s, 1, n)[i] = s[1 + i - 1]
  BY <1>1, SubSeqProperties
<1>3. \A i \in 1..n : s[1 + i - 1] = s[i]
  BY <1>1
<1> QED BY <1>1, <1>2, <1>3

LEMMA TakeRest ==
  ASSUME NEW S, NEW s \in Seq(S), NEW n \in 0..Len(s)
  PROVE  SubSeq(s, 1, n) \o Rest(s, n) = s
<1>1. Len(s) \in Nat
  BY LenProperties
<1> DEFINE a == SubSeq(s, 1, n)
           b == Rest(s, n)
<1>2. /\ a \in Seq(S) /\ Len(a) = n /\ \A i \in 1..n : a[i] = s[i]
      /\ b \in Seq(S) /\ Len(b) = Len(s) - n /\ \A i \in 1..Len(s) - n : b[i] = s[n + i]
  BY TakeType, RestType
<1> HIDE DEF a, b
<1>3. /\ a \o b \in Seq(S) /\ Len(a \o b) = Len(s)
      /\ \A i \in 1..Len(s) : (a \o b)[i] = IF i <= n THEN a[i] ELSE b[i - n]
  BY <1>1, <1>2, ConcatProperties
<1>4. ASSUME NEW i \in 1..Len(s) PROVE (a \o b)[i] = s[i]
  <2>1. CASE i <= n
    BY <1>1, <1>2, <1>3, <2>1
  <2>2. CASE ~(i <= n)
    <3>1. PICK j \in 1..Len(s) - n : j = i - n
      BY <1>1, <2>2
    <3>2. n + j = i
      BY <1>1, <3>1
    <3> QED BY <1>1, <1>2, <1>3, <2>2, <3>1, <3>2
  <2> QED BY <2>1, <2>2
<1>5. a \o b = s
  BY <1>3, <1>4, SeqEqual
<1> QED BY <1>5 DEF a, b

LEMMA Joined ==
  ASSUME NEW s \in Seq(Byte), NEW t \in Seq(Byte), NEW u \in Seq(Byte)
  PROVE  (s \o t) \o u = s \o (t \o u)
BY ConcatAssociative

\* Less than the first part is taken away.
LEMMA RestOfFirst ==
  ASSUME NEW S, NEW s \in Seq(S), NEW t \in Seq(S), NEW n \in 0..Len(s)
  PROVE  Rest(s \o t, n) = Rest(s, n) \o t
<1>1. Len(s) \in Nat /\ Len(t) \in Nat
  BY LenProperties
<1> DEFINE c == s \o t
           r == Rest(s, n)
<1>2. /\ c \in Seq(S) /\ Len(c) = Len(s) + Len(t)
      /\ \A i \in 1..Len(s) + Len(t) : c[i] = IF i <= Len(s) THEN s[i] ELSE t[i - Len(s)]
  BY ConcatProperties
<1>3. r \in Seq(S) /\ Len(r) = Len(s) - n /\ \A i \in 1..Len(s) - n : r[i] = s[n + i]
  BY RestType
<1> HIDE DEF c, r
<1>4. /\ Rest(c, n) \in Seq(S) /\ Len(Rest(c, n)) = Len(c) - n
      /\ \A i \in 1..Len(c) - n : Rest(c, n)[i] = c[n + i]
  <2>1. n \in 0..Len(c)
    BY <1>1, <1>2
  <2> QED BY <1>2, <2>1, RestType
<1>5. /\ r \o t \in Seq(S) /\ Len(r \o t) = Len(r) + Len(t)
      /\ \A i \in 1..Len(r) + Len(t) : (r \o t)[i] = IF i <= Len(r) THEN r[i] ELSE t[i - Len(r)]
  BY <1>3, ConcatProperties
<1>6. \A i \in 1..Len(c) - n : Rest(c, n)[i] = (r \o t)[i]
  <2> TAKE i \in 1..Len(c) - n
  <2>1. CASE i <= Len(s) - n
    BY <1>1, <1>2, <1>3, <1>4, <1>5, <2>1
  <2>2. CASE ~(i <= Len(s) - n)
    <3>1. n + i - Len(s) = i - Len(r)
      BY <1>1, <1>3
    <3>2. c[n + i] = t[n + i - Len(s)]
      BY <1>1, <1>2, <2>2
    <3>3. (r \o t)[i] = t[i - Len(r)]
      BY <1>1, <1>2, <1>3, <1>5, <2>2
    <3> QED BY <1>4, <3>1, <3>2, <3>3
  <2> QED BY <2>1, <2>2
<1>7. Len(Rest(c, n)) = Len(r \o t)
  BY <1>1, <1>2, <1>3, <1>4, <1>5
<1>8. Rest(c, n) = r \o t
  BY <1>4, <1>5, <1>6, <1>7, SeqEqual
<1> QED BY <1>8 DEF c, r

\* The first part is taken away, and some of the second.
LEMMA RestOfSecond ==
  ASSUME NEW S, NEW s \in Seq(S), NEW t \in Seq(S), NEW n \in 0..Len(t)
  PROVE  Rest(s \o t, Len(s) + n) = Rest(t, n)
<1>1. Len(s) \in Nat /\ Len(t) \in Nat
  BY LenProperties
<1> DEFINE c == s \o t
           r == Rest(t, n)
<1>2. /\ c \in Seq(S) /\ Len(c) = Len(s) + Len(t)
      /\ \A i \in 1..Len(s) + Len(t) : c[i] = IF i <= Len(s) THEN s[i] ELSE t[i - Len(s)]
  BY ConcatProperties
<1>3. r \in Seq(S) /\ Len(r) = Len(t) - n /\ \A i \in 1..Len(t) - n : r[i] = t[n + i]
  BY RestType
<1> HIDE DEF c, r
<1> DEFINE m == Len(s) + n
<1>4. /\ Rest(c, m) \in Seq(S) /\ Len(Rest(c, m)) = Len(c) - m
      /\ \A i \in 1..Len(c) - m : Rest(c, m)[i] = c[m + i]
  <2>1. m \in 0..Len(c)
    BY <1>1, <1>2
  <2> HIDE DEF m
  <2> QED BY <1>2, <2>1, RestType
<1>5. \A i \in 1..Len(t) - n : Rest(c, m)[i] = r[i]
  <2> TAKE i \in 1..Len(t) - n
  <2>1. c[m + i] = t[n + i]
    <3>1. PICK j \in 1..Len(s) + Len(t) : j = m + i
      BY <1>1
    <3>2. ~(j <= Len(s)) /\ j - Len(s) = n + i
      BY <1>1, <3>1
    <3> HIDE DEF m
    <3> QED BY <1>2, <3>1, <3>2
  <2>2. i \in 1..Len(c) - m
    BY <1>1, <1>2
  <2> HIDE DEF m
  <2> QED BY <1>3, <1>4, <2>1, <2>2
<1>6. Len(Rest(c, m)) = Len(r) /\ Len(r) = Len(t) - n
  BY <1>1, <1>2, <1>3, <1>4
<1>7. Rest(c, m) = r
  <2> HIDE DEF m
  <2> QED BY <1>3, <1>4, <1>5, <1>6, SeqEqual
<1> QED BY <1>7 DEF c, r
-----------------------------------------------------------------------------
(* What is on several pages *)

\* flat[i] joins the first i of the sequences.
Flattens(flat, seqs, n) ==
  flat = [i \in 1..n |-> IF i = 1 THEN seqs[i] ELSE flat[i-1] \o seqs[i]]

LEMMA FlatteningExists ==
  ASSUME NEW S, NEW n \in Nat \ {0}, NEW seqs \in [1..n -> Seq(S)]
  PROVE  \E flat \in [1..n -> Seq(S)] : Flattens(flat, seqs, n)
<1> DEFINE step == [k \in Nat |-> [a \in Seq(S) |-> a \o seqs[k+2]]]
<1>1. PICK f : Recurs(f, seqs[1], step)
  <2> HIDE DEF step
  <2> QED BY Recursion
<1>2. f[0] = seqs[1] /\ \A k \in Nat : k # 0 => f[k] = step[k-1][f[k-1]]
  <2> HIDE DEF step
  <2> QED BY <1>1 DEF Recurs
<1>3. ASSUME NEW k \in Nat, k + 1 < n, f[k] \in Seq(S)
      PROVE  f[k+1] = f[k] \o seqs[k+2] /\ f[k+1] \in Seq(S)
  <2>1. k + 1 # 0 /\ k + 1 - 1 = k /\ k + 2 \in 1..n
    BY <1>3
  <2>2. f[k+1] = step[k][f[k]]
    <3> HIDE DEF step
    <3> QED BY <1>2, <2>1
  <2>3. step[k][f[k]] = f[k] \o seqs[k+2]
    BY <1>3
  <2>4. f[k] \o seqs[k+2] \in Seq(S)
    BY <1>3, <2>1, ConcatProperties
  <2> QED BY <2>2, <2>3, <2>4
<1> HIDE DEF step
<1>4. \A k \in Nat : k < n => f[k] \in Seq(S)
  <2> DEFINE T == {k \in Nat : k < n => f[k] \in Seq(S)}
  <2>1. 0 \in T
    BY <1>2
  <2>2. ASSUME NEW k \in Nat, k \in T PROVE k + 1 \in T
    <3>1. k + 1 < n => f[k] \in Seq(S)
      BY <2>2
    <3>2. k + 1 < n => f[k+1] \in Seq(S)
      BY <1>3, <3>1
    <3> QED BY <3>2
  <2>3. Nat \subseteq T
    <3> HIDE DEF T
    <3> QED BY <2>1, <2>2, NumberInduction
  <2> QED BY <2>3
<1> DEFINE flat == [i \in 1..n |-> f[i-1]]
<1>5. ASSUME NEW i \in 1..n
      PROVE  flat[i] = IF i = 1 THEN seqs[i] ELSE flat[i-1] \o seqs[i]
  <2>1. CASE i = 1
    BY <1>2, <2>1
  <2>2. CASE i # 1
    <3>1. PICK k \in Nat : i = k + 2
      BY <2>2
    <3>2. k + 1 < n /\ k < n /\ i - 1 \in 1..n /\ i - 1 = k + 1 /\ k + 1 - 1 = k
      BY <3>1
    <3>3. f[k+1] = f[k] \o seqs[k+2]
      BY <1>3, <1>4, <3>2
    <3>4. flat[i] = f[k+1] /\ flat[i-1] = f[k]
      BY <3>1, <3>2
    <3> QED BY <2>2, <3>1, <3>3, <3>4
  <2> QED BY <2>1, <2>2
<1>6. flat \in [1..n -> Seq(S)]
  BY <1>4
<1>7. flat = [i \in 1..n |-> flat[i]]
  OBVIOUS
<1> HIDE DEF flat
<1>8. Flattens(flat, seqs, n)
  BY <1>5, <1>7 DEF Flattens
<1> QED BY <1>6, <1>8

\* Sequences that begin alike are joined alike.
Alike(s, t, n) == \A i \in 1..n : s[i] = t[i]

LEMMA FlatteningUnique ==
  ASSUME NEW n \in Nat, NEW m \in Nat, NEW seqs, NEW seqt, NEW f, NEW g,
         Flattens(f, seqs, n), Flattens(g, seqt, m),
         NEW l \in Nat, l <= n, l <= m, Alike(seqs, seqt, l)
  PROVE  Alike(f, g, l)
<1> DEFINE T == {i \in Nat : i \in 1..l => f[i] = g[i]}
<1>1. 0 \in T
  OBVIOUS
<1>2. ASSUME NEW i \in Nat, i \in T PROVE i + 1 \in T
  <2> SUFFICES ASSUME i + 1 \in 1..l PROVE f[i+1] = g[i+1]
    OBVIOUS
  <2>1. i + 1 \in 1..n /\ i + 1 \in 1..m /\ i + 1 - 1 = i /\ seqs[i+1] = seqt[i+1]
    BY DEF Alike
  <2>2. CASE i = 0
    BY <2>1, <2>2 DEF Flattens
  <2>3. CASE i # 0
    <3>1. f[i] = g[i] /\ i + 1 # 1
      BY <1>2, <2>3
    <3>2. PICK k \in 2..l : k = i + 1
      BY <2>1, <3>1
    <3>3. k \in 1..n /\ k \in 1..m /\ k # 1 /\ k - 1 = i
      BY <3>2
    <3>4. f[k] = f[k-1] \o seqs[k]
      BY <3>3 DEF Flattens
    <3>5. g[k] = g[k-1] \o seqt[k]
      BY <3>3 DEF Flattens
    <3> QED BY <2>1, <3>1, <3>2, <3>3, <3>4, <3>5
  <2> QED BY <2>2, <2>3
<1>3. Nat \subseteq T
  <2> HIDE DEF T
  <2> QED BY <1>1, <1>2, NumberInduction
<1> QED BY <1>3 DEF Alike

LEMMA FlattenSeqIs ==
  ASSUME NEW S, NEW n \in Nat \ {0}, NEW seqs \in [1..n -> Seq(S)], NEW flat,
         Flattens(flat, seqs, n)
  PROVE  FlattenSeq(seqs) = flat[n]
<1>1. Len(seqs) = n
  OBVIOUS
<1> DEFINE g == CHOOSE f : f = [i \in 1..Len(seqs) |-> IF i = 1 THEN seqs[i] ELSE f[i-1] \o seqs[i]]
<1>2. \E f : f = [i \in 1..Len(seqs) |-> IF i = 1 THEN seqs[i] ELSE f[i-1] \o seqs[i]]
  BY <1>1 DEF Flattens
<1>3. Flattens(g, seqs, n)
  BY <1>1, <1>2 DEF Flattens
<1>4. FlattenSeq(seqs) = g[n]
  BY <1>1 DEF FlattenSeq
<1> HIDE DEF g
<1>5. Alike(g, flat, n)
  <2>1. n \in Nat /\ n <= n /\ Alike(seqs, seqs, n)
    BY DEF Alike
  <2> QED BY <1>3, <2>1, FlatteningUnique
<1>6. n \in 1..n
  OBVIOUS
<1> QED BY <1>4, <1>5, <1>6 DEF Alike

\* The bytes of the pages from i to j.
Flat(pages, i, j) == FlattenSeq([k \in 1..j - i + 1 |-> Unread(pages[i + k - 1])])

Sizes(p) == p.offset_rd <= Len(p.data) /\ Len(p.data) <= page_size

LEMMA UnreadIs ==
  ASSUME NEW p \in Page, Sizes(p)
  PROVE  Unread(p) = Rest(p.data, p.offset_rd) /\ Unread(p) \in Seq(Byte) /\ Len(Unread(p)) = rd_size(p)
<1>1. p.offset_rd \in 0..Len(p.data) /\ p.data \in Seq(Byte)
  <2>1. p.offset_rd \in Nat /\ p.data \in Seq(Byte) /\ p.offset_rd <= Len(p.data)
    BY DEF Page, Sizes
  <2> QED BY <2>1, LenProperties
<1>2. Unread(p) = Rest(p.data, p.offset_rd)
  BY DEF Unread, Rest
<1> QED BY <1>1, <1>2, RestType DEF rd_size

\* A list of pages none of which holds more than it can, or less than was read.
Sized(pages) == pages \in Seq(Page) /\ \A i \in 1..Len(pages) : Sizes(pages[i])

LEMMA SizedPage ==
  ASSUME NEW pages, Sized(pages), NEW i \in 1..Len(pages)
  PROVE  /\ pages[i] \in Page /\ Sizes(pages[i]) /\ Unread(pages[i]) \in Seq(Byte)
         /\ Len(Unread(pages[i])) = rd_size(pages[i])
<1>1. pages[i] \in Page /\ Sizes(pages[i])
  BY ElementOfSeq DEF Sized
<1> QED BY <1>1, UnreadIs

LEMMA FlatNone ==
  ASSUME NEW pages, NEW i \in Nat
  PROVE  Flat(pages, i, i - 1) = <<>>
<1>1. i - 1 - i + 1 = 0
  OBVIOUS
<1>2. [k \in 1..0 |-> Unread(pages[i + k - 1])] = <<>>
  OBVIOUS
<1>3. Len(<<>>) = 0
  OBVIOUS
<1> QED BY <1>1, <1>2, <1>3 DEF Flat, FlattenSeq

LEMMA FlatOne ==
  ASSUME NEW pages, Sized(pages), NEW i \in 1..Len(pages)
  PROVE  Flat(pages, i, i) = Unread(pages[i])
<1> DEFINE seqs == [k \in 1..i - i + 1 |-> Unread(pages[i + k - 1])]
<1>1. i \in Nat /\ Unread(pages[i]) \in Seq(Byte)
  BY SizedPage
<1>2. seqs = [k \in 1..1 |-> Unread(pages[i])]
  BY <1>1
<1>3. seqs \in [1..1 -> Seq(Byte)] /\ seqs[1] = Unread(pages[i])
  BY <1>1, <1>2
<1>4. Flat(pages, i, i) = FlattenSeq(seqs)
  BY DEF Flat
<1> HIDE DEF seqs
<1> DEFINE n == 1
<1>5. n \in Nat \ {0} /\ seqs \in [1..n -> Seq(Byte)]
  BY <1>3
<1>6. \A flat : Flattens(flat, seqs, n) => flat[n] = seqs[1]
  BY DEF Flattens
<1> HIDE DEF n
<1>7. PICK flat \in [1..n -> Seq(Byte)] : Flattens(flat, seqs, n)
  BY <1>5, FlatteningExists
<1>8. FlattenSeq(seqs) = flat[n]
  BY <1>5, <1>7, FlattenSeqIs
<1> QED BY <1>3, <1>4, <1>6, <1>7, <1>8

LEMMA FlatNext ==
  ASSUME NEW pages, Sized(pages), NEW i \in 1..Len(pages), NEW j \in i..Len(pages) - 1
  PROVE  Flat(pages, i, j + 1) = Flat(pages, i, j) \o Unread(pages[j + 1])
<1> DEFINE n == j - i + 1
           seqs == [k \in 1..j + 1 - i + 1 |-> Unread(pages[i + k - 1])]
           lead == [k \in 1..j - i + 1 |-> Unread(pages[i + k - 1])]
<1>1. i \in Nat /\ j \in Nat /\ Len(pages) \in Nat /\ n \in Nat \ {0} /\ j + 1 - i + 1 = n + 1
  BY LenProperties DEF Sized
<1>2. ASSUME NEW k \in 1..n + 1 PROVE Unread(pages[i + k - 1]) \in Seq(Byte)
  <2>1. PICK m \in 1..Len(pages) : m = i + k - 1
    BY <1>1
  <2> QED BY <2>1, SizedPage
<1>3. seqs \in [1..n + 1 -> Seq(Byte)] /\ lead \in [1..n -> Seq(Byte)]
  <2>1. 1..j + 1 - i + 1 = 1..n + 1 /\ \A k \in 1..n : k \in 1..n + 1
    BY <1>1
  <2>2. seqs = [k \in 1..n + 1 |-> Unread(pages[i + k - 1])]
    BY <2>1
  <2> QED BY <1>2, <2>1, <2>2
<1>4. \A k \in 1..n : seqs[k] = lead[k]
  BY <1>1
<1>5. seqs[n + 1] = Unread(pages[j + 1])
  BY <1>1
<1>6. Flat(pages, i, j + 1) = FlattenSeq(seqs) /\ Flat(pages, i, j) = FlattenSeq(lead)
  BY DEF Flat
<1>7. n + 1 \in Nat \ {0} /\ n + 1 # 1 /\ n + 1 - 1 = n /\ n <= n + 1 /\ n <= n
  BY <1>1
<1> HIDE DEF seqs, lead, n
<1>8. PICK f \in [1..n + 1 -> Seq(Byte)] : Flattens(f, seqs, n + 1)
  BY <1>3, <1>7, FlatteningExists
<1>9. PICK g \in [1..n -> Seq(Byte)] : Flattens(g, lead, n)
  BY <1>1, <1>3, FlatteningExists
<1>10. FlattenSeq(seqs) = f[n + 1] /\ FlattenSeq(lead) = g[n]
  BY <1>1, <1>3, <1>7, <1>8, <1>9, FlattenSeqIs
<1>11. f[n] = g[n]
  <2> DEFINE m == n + 1
  <2>a. n \in Nat /\ m \in Nat /\ n <= m /\ n <= n /\ Flattens(f, seqs, m)
    BY <1>1, <1>8
  <2>b. Alike(seqs, lead, n)
    BY <1>4 DEF Alike
  <2>1. Alike(f, g, n)
    <3> HIDE DEF m
    <3> QED BY <2>a, <2>b, <1>9, FlatteningUnique
  <2>2. n \in 1..n
    BY <1>1
  <2> QED BY <2>1, <2>2 DEF Alike
<1>12. f[n + 1] = f[n] \o seqs[n + 1]
  <2>1. PICK m \in 1..n + 1 : m = n + 1
    BY <1>1
  <2>2. m # 1 /\ m - 1 = n
    BY <1>1, <2>1
  <2>3. f[m] = f[m-1] \o seqs[m]
    BY <1>8, <2>2 DEF Flattens
  <2> QED BY <2>1, <2>2, <2>3
<1> QED BY <1>5, <1>6, <1>10, <1>11, <1>12

\* The last page, whether it is the only one or not.
LEMMA FlatLast ==
  ASSUME NEW pages, Sized(pages), NEW i \in 1..Len(pages), NEW j \in i..Len(pages)
  PROVE  /\ Flat(pages, i, j) = Flat(pages, i, j - 1) \o Unread(pages[j])
         /\ j = i => Flat(pages, i, j - 1) = <<>>
<1>1. i \in Nat /\ j \in 1..Len(pages) /\ Unread(pages[j]) \in Seq(Byte) /\ Len(pages) \in Nat
  BY SizedPage, LenProperties DEF Sized
<1>2. CASE j = i
  <2>1. Flat(pages, i, j) = Unread(pages[j]) /\ Flat(pages, i, j - 1) = <<>>
    BY <1>2, FlatOne, FlatNone
  <2>2. <<>> \o Unread(pages[j]) = Unread(pages[j])
    BY <1>1, ConcatEmptySeq
  <2> QED BY <2>1, <2>2
<1>3. CASE j # i
  <2>1. PICK k \in i..Len(pages) - 1 : j = k + 1
    BY <1>1, <1>3
  <2>2. j - 1 = k
    BY <1>1, <2>1
  <2> QED BY <1>3, <2>1, <2>2, FlatNext
<1> QED BY <1>2, <1>3

LEMMA FlatType ==
  ASSUME NEW pages, Sized(pages), NEW i \in 1..Len(pages) + 1, NEW j \in i - 1..Len(pages)
  PROVE  Flat(pages, i, j) \in Seq(Byte) /\ Len(Flat(pages, i, j)) \in Nat
<1>1. i \in Nat /\ i - 1 \in Nat /\ Len(pages) \in Nat
  BY LenProperties DEF Sized
<1> DEFINE T == {k \in Nat : i - 1 + k <= Len(pages) => Flat(pages, i, i - 1 + k) \in Seq(Byte)}
<1>2. 0 \in T
  <2>1. Flat(pages, i, i - 1 + 0) = <<>>
    BY <1>1, FlatNone
  <2>2. <<>> \in Seq(Byte)
    BY EmptySeq
  <2> QED BY <2>1, <2>2
<1>3. ASSUME NEW k \in Nat, k \in T PROVE k + 1 \in T
  <2> SUFFICES ASSUME i - 1 + (k + 1) <= Len(pages)
               PROVE  Flat(pages, i, i - 1 + (k + 1)) \in Seq(Byte)
    OBVIOUS
  <2>1. PICK m \in i..Len(pages) : m = i - 1 + (k + 1)
    BY <1>1
  <2>2. m - 1 = i - 1 + k /\ i - 1 + k <= Len(pages) /\ m \in 1..Len(pages) /\ i \in 1..Len(pages)
    BY <1>1, <2>1
  <2>3. Flat(pages, i, m) = Flat(pages, i, m - 1) \o Unread(pages[m])
    BY <2>2, FlatLast
  <2>4. Flat(pages, i, m - 1) \in Seq(Byte)
    BY <1>3, <2>2
  <2>5. Unread(pages[m]) \in Seq(Byte)
    BY <2>2, SizedPage
  <2>6. Flat(pages, i, m) \in Seq(Byte)
    BY <2>3, <2>4, <2>5, ConcatProperties
  <2> QED BY <2>1, <2>6
<1>4. Nat \subseteq T
  <2> HIDE DEF T
  <2> QED BY <1>2, <1>3, NumberInduction
<1>5. PICK k \in Nat : j = i - 1 + k
  BY <1>1
<1>6. Flat(pages, i, j) \in Seq(Byte)
  <2>1. k \in T
    <3> HIDE DEF T
    <3> QED BY <1>4
  <2>2. i - 1 + k <= Len(pages) => Flat(pages, i, i - 1 + k) \in Seq(Byte)
    BY <2>1
  <2> QED BY <1>5, <2>2
<1> QED BY <1>6, LenProperties

\* The pages from i to k and those from there to j.
LEMMA FlatSplit ==
  ASSUME NEW pages, Sized(pages), NEW i \in 1..Len(pages),
         NEW k \in i - 1..Len(pages), NEW j \in k..Len(pages)
  PROVE  Flat(pages, i, j) = Flat(pages, i, k) \o Flat(pages, k + 1, j)
<1>1. i \in Nat /\ k \in Nat /\ j \in Nat /\ Len(pages) \in Nat
  BY LenProperties DEF Sized
<1> DEFINE T == {d \in Nat : k + d <= Len(pages) =>
                   Flat(pages, i, k + d) = Flat(pages, i, k) \o Flat(pages, k + 1, k + d)}
<1>2. Flat(pages, i, k) \in Seq(Byte)
  BY <1>1, FlatType
<1>3. 0 \in T
  <2>1. Flat(pages, k + 1, k + 0) = <<>>
    <3>1. PICK m \in Nat : m = k + 1
      BY <1>1
    <3>2. m - 1 = k + 0
      BY <1>1, <3>1
    <3> QED BY <3>1, <3>2, FlatNone
  <2>2. Flat(pages, i, k) \o <<>> = Flat(pages, i, k)
    BY <1>2, ConcatEmptySeq
  <2>3. k + 0 = k
    BY <1>1
  <2> QED BY <2>1, <2>2, <2>3
<1>4. ASSUME NEW d \in Nat, d \in T PROVE d + 1 \in T
  <2> SUFFICES ASSUME k + (d + 1) <= Len(pages)
               PROVE  Flat(pages, i, k + (d + 1)) = Flat(pages, i, k) \o Flat(pages, k + 1, k + (d + 1))
    OBVIOUS
  <2>1. PICK m \in i..Len(pages) : m = k + (d + 1)
    BY <1>1
  <2>2. m - 1 = k + d /\ k + d <= Len(pages) /\ m \in 1..Len(pages)
    BY <1>1, <2>1
  <2>3. PICK h \in 1..Len(pages) : h = k + 1
    BY <1>1, <2>1
  <2>4. m \in h..Len(pages) /\ m - 1 \in h - 1..Len(pages) /\ h \in 1..Len(pages) + 1
    BY <1>1, <2>1, <2>3
  <2>5. Flat(pages, i, m) = Flat(pages, i, m - 1) \o Unread(pages[m])
    BY FlatLast
  <2>6. Flat(pages, h, m) = Flat(pages, h, m - 1) \o Unread(pages[m])
    BY <2>4, FlatLast
  <2>7. Flat(pages, i, m - 1) = Flat(pages, i, k) \o Flat(pages, h, m - 1)
    BY <1>4, <2>2, <2>3
  <2>8. Flat(pages, h, m - 1) \in Seq(Byte)
    BY <2>4, FlatType
  <2>9. Unread(pages[m]) \in Seq(Byte)
    BY <2>2, SizedPage
  <2>10. (Flat(pages, i, k) \o Flat(pages, h, m - 1)) \o Unread(pages[m])
           = Flat(pages, i, k) \o (Flat(pages, h, m - 1) \o Unread(pages[m]))
    <3> DEFINE a == Flat(pages, i, k)
               b == Flat(pages, h, m - 1)
               c == Unread(pages[m])
    <3>1. a \in Seq(Byte) /\ b \in Seq(Byte) /\ c \in Seq(Byte)
      BY <1>2, <2>8, <2>9
    <3> HIDE DEF T, a, b, c
    <3>2. (a \o b) \o c = a \o (b \o c)
      BY <3>1, Joined
    <3> QED BY <3>2 DEF a, b, c
  <2>11. Flat(pages, i, m) = Flat(pages, i, k) \o Flat(pages, h, m)
    BY <2>5, <2>6, <2>7, <2>10
  <2> QED BY <2>1, <2>3, <2>11
<1>5. Nat \subseteq T
  <2> HIDE DEF T
  <2> QED BY <1>3, <1>4, NumberInduction
<1>6. PICK d \in Nat : j = k + d
  BY <1>1
<1>7. d \in T
  <2> HIDE DEF T
  <2> QED BY <1>5
<1>8. k + d <= Len(pages) => Flat(pages, i, k + d) = Flat(pages, i, k) \o Flat(pages, k + 1, k + d)
  BY <1>7
<1> QED BY <1>6, <1>8

\* Only what the pages hold matters, not where they are.
Shifted(pages, others, i, j, d) ==
  \A k \in i..j : Unread(pages[k]) = Unread(others[k + d])

LEMMA FlatSame ==
  ASSUME NEW pages, NEW others, NEW i \in Nat, NEW j \in Int, NEW d \in Int,
         Shifted(pages, others, i, j, d)
  PROVE  Flat(pages, i, j) = Flat(others, i + d, j + d)
<1>1. j - i + 1 = (j + d) - (i + d) + 1
  OBVIOUS
<1>2. ASSUME NEW k \in 1..j - i + 1
      PROVE  Unread(pages[i + k - 1]) = Unread(others[(i + d) + k - 1])
  <2>1. PICK m \in i..j : m = i + k - 1
    OBVIOUS
  <2>2. (i + d) + k - 1 = m + d
    BY <2>1
  <2> QED BY <2>1, <2>2 DEF Shifted
<1>3. [k \in 1..j - i + 1 |-> Unread(pages[i + k - 1])]
        = [k \in 1..(j + d) - (i + d) + 1 |-> Unread(others[(i + d) + k - 1])]
  BY <1>1, <1>2
<1> QED BY <1>3 DEF Flat

LEMMA FlatKeeps ==
  ASSUME NEW pages, NEW others, NEW i \in Nat, NEW j \in Int,
         \A k \in i..j : Unread(pages[k]) = Unread(others[k])
  PROVE  Flat(pages, i, j) = Flat(others, i, j)
<1>1. ASSUME NEW k \in 1..j - i + 1
      PROVE  Unread(pages[i + k - 1]) = Unread(others[i + k - 1])
  <2>1. PICK m \in i..j : m = i + k - 1
    OBVIOUS
  <2> QED BY <2>1
<1>2. [k \in 1..j - i + 1 |-> Unread(pages[i + k - 1])]
        = [k \in 1..j - i + 1 |-> Unread(others[i + k - 1])]
  BY <1>1
<1> QED BY <1>2 DEF Flat

LEMMA FlatFirst ==
  ASSUME NEW pages, Sized(pages), NEW i \in 1..Len(pages), NEW j \in i..Len(pages)
  PROVE  Flat(pages, i, j) = Unread(pages[i]) \o Flat(pages, i + 1, j)
<1>1. i \in i - 1..Len(pages)
  OBVIOUS
<1>2. Flat(pages, i, j) = Flat(pages, i, i) \o Flat(pages, i + 1, j)
  BY <1>1, FlatSplit
<1> QED BY <1>2, FlatOne

-----------------------------------------------------------------------------
(* The shape of the pages *)

\* The page at i when the write position is wr: full before it, empty behind it.
Settled(p, i, wr) ==
  Sizes(p) /\ (i < wr => Len(p.data) = page_size) /\ (i > wr => p = Fresh)

\* Both positions are on pages, and every page is settled.
Standing(s) ==
  /\ s \in States /\ 1 <= s.rd /\ s.rd <= s.wr /\ s.wr <= Len(s.pages)
  /\ \A i \in 1..Len(s.pages) : Settled(s.pages[i], i, s.wr)

LEMMA StateType ==
  ASSUME NEW pages, NEW rd, NEW wr, NEW s, s = State(pages, rd, wr)
  PROVE  /\ s.pages = pages /\ s.rd = rd /\ s.wr = wr
         /\ pages \in Seq(Page) /\ rd \in Nat /\ wr \in Nat => s \in States
BY DEF State, States

Bare == State(<<>>, 0, 0)

Sound(s) == s = Bare \/ Standing(s)

LEMMA StandingParts ==
  ASSUME NEW s, Standing(s)
  PROVE  /\ Sized(s.pages) /\ Len(s.pages) \in Nat \ {0} /\ s.pages # <<>>
         /\ s.rd \in 1..Len(s.pages) /\ s.wr \in s.rd..Len(s.pages) /\ s.wr \in 1..Len(s.pages)
         /\ s.rd # 0 /\ s.wr # 0
         /\ Content(s) = Flat(s.pages, s.rd, s.wr)
         /\ Content(s) \in Seq(Byte) /\ Len(Content(s)) \in Nat
         /\ Room(s) = (Len(s.pages) - s.wr) * page_size + wr_size(s.pages[s.wr])
<1>1. s.pages \in Seq(Page) /\ s.rd \in Nat /\ s.wr \in Nat
  BY DEF Standing, States
<1>2. Sized(s.pages)
  BY <1>1 DEF Standing, Settled, Sized
<1>3. Len(s.pages) \in Nat
  BY <1>1, LenProperties
<1>4. /\ Len(s.pages) \in Nat \ {0} /\ s.rd \in 1..Len(s.pages) /\ s.wr \in s.rd..Len(s.pages)
      /\ s.wr \in 1..Len(s.pages) /\ s.rd # 0 /\ s.wr # 0
  BY <1>1, <1>3 DEF Standing
<1>5. s.pages # <<>>
  BY <1>4, EmptySeq
<1>6. Content(s) = Flat(s.pages, s.rd, s.wr)
  BY <1>4 DEF Content, Flat
<1>7. s.rd \in 1..Len(s.pages) + 1 /\ s.wr \in s.rd - 1..Len(s.pages)
  BY <1>4
<1>8. Content(s) \in Seq(Byte) /\ Len(Content(s)) \in Nat
  BY <1>2, <1>6, <1>7, FlatType
<1>9. Room(s) = (Len(s.pages) - s.wr) * page_size + wr_size(s.pages[s.wr])
  BY <1>4 DEF Room
<1> QED BY <1>2, <1>4, <1>5, <1>6, <1>8, <1>9

LEMMA BareParts ==
  Content(Bare) = <<>> /\ Room(Bare) = 0 /\ Bare \in States /\ Bare.pages = <<>> /\ Bare.wr = 0 /\ Bare.rd = 0
BY EmptySeq DEF Content, Room, Bare, State, States

LEMMA SoundParts ==
  ASSUME NEW s, Sound(s)
  PROVE  /\ s \in States /\ Content(s) \in Seq(Byte) /\ Len(Content(s)) \in Nat
         /\ s.wr = 0 => s = Bare
         /\ s.rd = 0 => s = Bare
         /\ s.wr # 0 => Standing(s)
<1>1. CASE s = Bare
  <2>1. <<>> \in Seq(Byte) /\ Len(<<>>) = 0
    BY EmptySeq
  <2> QED BY <1>1, <2>1, BareParts
<1>2. CASE Standing(s)
  BY <1>2, StandingParts DEF Standing
<1> QED BY <1>1, <1>2 DEF Sound

LEMMA RoomType ==
  ASSUME NEW s, Standing(s)
  PROVE  Room(s) \in Nat
<1>1. /\ Room(s) = (Len(s.pages) - s.wr) * page_size + wr_size(s.pages[s.wr])
      /\ Len(s.pages) \in Nat /\ s.wr \in 1..Len(s.pages) /\ Sized(s.pages)
  BY StandingParts
<1>2. PICK d \in Nat : d = Len(s.pages) - s.wr
  <2>1. Len(s.pages) - s.wr \in Nat
    BY <1>1
  <2> QED BY <2>1
<1>3. d * page_size \in Nat
  BY SizeAssumption
<1>4. wr_size(s.pages[s.wr]) \in Nat
  <2>1. s.pages[s.wr] \in Page /\ Sizes(s.pages[s.wr])
    BY <1>1, SizedPage
  <2>2. Len(s.pages[s.wr].data) \in Nat
    BY <2>1, LenProperties DEF Page
  <2> QED BY <2>1, <2>2, SizeAssumption DEF wr_size, Sizes
<1> QED BY <1>1, <1>2, <1>3, <1>4

\* The next page is as good a write position as a full one.
LEMMA Advance ==
  ASSUME NEW s, Standing(s), wr_size(s.pages[s.wr]) = 0, s.wr < Len(s.pages),
         NEW t, t = State(s.pages, s.rd, s.wr + 1)
  PROVE  Standing(t) /\ Content(t) = Content(s) /\ Room(t) = Room(s)
<1> DEFINE pages == s.pages
           w == s.wr
<1>1. /\ Sized(pages) /\ Len(pages) \in Nat /\ s.rd \in 1..Len(pages) /\ w \in s.rd..Len(pages)
      /\ w + 1 \in 1..Len(pages) /\ w \in 1..Len(pages)
      /\ Content(s) = Flat(pages, s.rd, w)
      /\ Room(s) = (Len(pages) - w) * page_size + wr_size(pages[w])
  BY StandingParts
<1>2. t.pages = pages /\ t.rd = s.rd /\ t.wr = w + 1
  BY DEF State
<1>3. pages[w + 1] = Fresh
  BY <1>1 DEF Standing, Settled
<1>4. Len(pages[w].data) = page_size
  <2>1. pages[w] \in Page
    BY <1>1, SizedPage
  <2>2. Len(pages[w].data) \in Nat
    BY <2>1, LenProperties DEF Page
  <2> QED BY <2>2, SizeAssumption DEF wr_size
<1>5. t \in States
  BY <1>1 DEF Standing, States, State
<1>6. Standing(t)
  <2>1. \A i \in 1..Len(pages) : Settled(pages[i], i, w + 1)
    BY <1>1, <1>4 DEF Standing, Settled
  <2>2. 1 <= s.rd /\ s.rd <= w + 1 /\ w + 1 <= Len(pages)
    BY <1>1
  <2> QED BY <1>2, <1>5, <2>1, <2>2 DEF Standing
<1>7. Content(t) = Content(s)
  <2>1. Content(t) = Flat(pages, s.rd, w + 1)
    BY <1>2, <1>6, StandingParts
  <2>2. w \in s.rd..Len(pages) - 1
    BY <1>1
  <2>3. Flat(pages, s.rd, w + 1) = Flat(pages, s.rd, w) \o Unread(pages[w + 1])
    BY <1>1, <2>2, FlatNext
  <2>4. Unread(Fresh) = <<>>
    BY EmptySeq DEF Unread, Fresh
  <2>5. Content(s) \o <<>> = Content(s)
    BY StandingParts, ConcatEmptySeq
  <2> QED BY <1>1, <1>3, <2>1, <2>3, <2>4, <2>5
<1>8. Room(t) = Room(s)
  <2>1. Room(t) = (Len(pages) - (w + 1)) * page_size + wr_size(pages[w + 1])
    BY <1>2, <1>6, StandingParts
  <2>2. wr_size(pages[w + 1]) = page_size
    BY <1>3, EmptySeq, SizeAssumption DEF wr_size, Fresh
  <2>3. PICK d \in Nat : d = Len(pages) - (w + 1)
    BY <1>1
  <2>4. Len(pages) - w = d + 1
    BY <1>1, <2>3
  <2>5. (d + 1) * page_size = d * page_size + page_size
    BY SizeAssumption
  <2>6. d * page_size \in Nat /\ page_size \in Nat
    BY SizeAssumption
  <2>7. Room(s) = (d + 1) * page_size + 0
    BY <1>1, <2>4
  <2>8. Room(t) = d * page_size + page_size
    BY <2>1, <2>2, <2>3
  <2> HIDE DEF pages, w
  <2> QED BY <2>5, <2>6, <2>7, <2>8
<1> QED BY <1>6, <1>7, <1>8

-----------------------------------------------------------------------------
(* Writing *)

LEMMA LeastIs ==
  ASSUME NEW m \in Nat, NEW n \in Nat
  PROVE  Least(m, n) \in Nat /\ Least(m, n) <= m /\ Least(m, n) <= n /\ (Least(m, n) = m \/ Least(m, n) = n)
BY DEF Least

LEMMA PageWith ==
  ASSUME NEW p \in Page, NEW bytes \in Seq(Byte), NEW q, q = [p EXCEPT !.data = bytes]
  PROVE  q \in Page /\ q.offset_rd = p.offset_rd /\ q.data = bytes
BY DEF Page

\* A round that writes puts the bytes that fit behind the others.
LEMMA Fill ==
  ASSUME NEW job \in ToWrite, Standing(job.s), Len(job.bytes) <= Room(job.s),
         NEW t, t = State(Filled(job), job.s.rd, job.s.wr)
  PROVE  /\ Standing(t) /\ Fitting(job) \in 0..Len(job.bytes)
         /\ Content(t) = Content(job.s) \o SubSeq(job.bytes, 1, Fitting(job))
         /\ Room(t) = Room(job.s) - Fitting(job)
         /\ Left(job) = Rest(job.bytes, Fitting(job))
         /\ Left(job) # <<>> => wr_size(t.pages[t.wr]) = 0 /\ t.wr < Len(t.pages)
<1> DEFINE s == job.s
           pages == s.pages
           w == s.wr
           p == pages[w]
           n == Fitting(job)
           add == SubSeq(job.bytes, 1, n)
           q == [p EXCEPT !.data = @ \o add]
           new == [pages EXCEPT ![w] = q]
<1>1. /\ s \in States /\ job.bytes \in Seq(Byte) /\ Len(job.bytes) \in Nat
      /\ pages \in Seq(Page) /\ Len(pages) \in Nat
  <2>1. s \in States /\ job.bytes \in Seq(Byte)
    BY DEF ToWrite
  <2> QED BY <2>1, LenProperties DEF States
<1>2. /\ Sized(pages) /\ s.rd \in 1..Len(pages) /\ w \in s.rd..Len(pages) /\ w \in 1..Len(pages)
      /\ Content(s) = Flat(pages, s.rd, w)
      /\ Room(s) = (Len(pages) - w) * page_size + wr_size(pages[w])
  BY StandingParts
<1>3. /\ p \in Page /\ p.data \in Seq(Byte) /\ Len(p.data) \in 0..page_size
      /\ p.offset_rd \in 0..Len(p.data)
      /\ Unread(p) \in Seq(Byte) /\ Unread(p) = Rest(p.data, p.offset_rd)
  <2>1. p \in Page /\ Sizes(p) /\ Unread(p) \in Seq(Byte) /\ Unread(p) = Rest(p.data, p.offset_rd)
    BY <1>2, SizedPage, UnreadIs
  <2>2. p.data \in Seq(Byte) /\ Len(p.data) \in Nat
    BY <2>1, LenProperties DEF Page
  <2> QED BY <2>1, <2>2, SizeAssumption DEF Sizes, Page
<1>b. Filled(job) = new /\ job.s = s /\ Fitting(job) = Least(Len(job.bytes), wr_size(p))
  BY DEF Filled, Fitting
<1>c. s.pages = pages /\ s.wr = w /\ pages[w] = p
  OBVIOUS
<1> HIDE DEF p
<1>4. n \in 0..Len(job.bytes) /\ n <= wr_size(p) /\ wr_size(p) \in Nat /\ (n = Len(job.bytes) \/ n = wr_size(p))
  <2>1. wr_size(p) \in Nat
    BY <1>3, SizeAssumption DEF wr_size
  <2> QED BY <1>1, <1>b, <2>1, LeastIs
<1>5. add \in Seq(Byte) /\ Len(add) = n
  BY <1>1, <1>4, TakeType
<1> HIDE DEF add, n
<1>7. /\ q \in Page /\ q.offset_rd = p.offset_rd /\ q.data = p.data \o add
      /\ Len(q.data) = Len(p.data) + n /\ Sizes(q) /\ wr_size(q) = wr_size(p) - n
  <2>1. p.data \o add \in Seq(Byte) /\ Len(p.data \o add) = Len(p.data) + n
    BY <1>3, <1>5, ConcatProperties
  <2> DEFINE bytes == p.data \o add
  <2>2. q = [p EXCEPT !.data = bytes] /\ bytes \in Seq(Byte)
    BY <2>1
  <2> HIDE DEF q, bytes
  <2>a. q \in Page /\ q.offset_rd = p.offset_rd /\ q.data = bytes
    BY <1>3, <2>2, PageWith
  <2>3. q \in Page /\ q.offset_rd = p.offset_rd /\ q.data = p.data \o add
    BY <2>a DEF bytes
  <2>4. Len(q.data) = Len(p.data) + n /\ Len(p.data) + n <= page_size /\ p.offset_rd <= Len(p.data) + n
    BY <1>3, <1>4, <2>1, <2>3, SizeAssumption DEF wr_size
  <2>5. Sizes(q) /\ wr_size(q) = wr_size(p) - n
    BY <1>3, <1>4, <2>3, <2>4, SizeAssumption DEF Sizes, wr_size
  <2> QED BY <2>3, <2>4, <2>5
<1> HIDE DEF q
<1>8. Unread(q) = Unread(p) \o add
  <2>1. Unread(q) = Rest(p.data \o add, p.offset_rd)
    BY <1>7, UnreadIs
  <2>2. Rest(p.data \o add, p.offset_rd) = Rest(p.data, p.offset_rd) \o add
    BY <1>3, <1>5, RestOfFirst
  <2> QED BY <1>3, <2>1, <2>2
<1> HIDE DEF pages, w, s
<1>9. /\ new \in Seq(Page) /\ Len(new) = Len(pages) /\ new[w] = q
      /\ \A i \in 1..Len(pages) : i # w => new[i] = pages[i]
  BY <1>1, <1>2, <1>7, ExceptSeq
<1> HIDE DEF new
<1>10. t.pages = new /\ t.rd = s.rd /\ t.wr = w /\ t \in States
  BY <1>1, <1>b, <1>c, <1>9 DEF State, States
<1>d. \A i \in 1..Len(pages) : Settled(pages[i], i, w)
  BY <1>b, <1>c DEF Standing
<1>11. Standing(t)
  <2>1. ASSUME NEW i \in 1..Len(new) PROVE Settled(new[i], i, w)
    <3>1. CASE i = w
      <4>1. w \in Nat /\ ~(i < w) /\ ~(i > w)
        BY <1>2, <3>1
      <4> QED BY <1>7, <1>9, <3>1, <4>1 DEF Settled
    <3>2. CASE i # w
      BY <1>d, <1>9, <3>2
    <3> QED BY <3>1, <3>2
  <2>2. 1 <= s.rd /\ s.rd <= w /\ w <= Len(new)
    BY <1>1, <1>2, <1>9
  <2> QED BY <1>10, <2>1, <2>2 DEF Standing
<1>12. Content(t) = Content(s) \o add
  <2>1. Content(t) = Flat(new, s.rd, w) /\ Sized(new)
    BY <1>10, <1>11, StandingParts
  <2>2. Flat(new, s.rd, w) = Flat(new, s.rd, w - 1) \o Unread(q)
    BY <1>2, <1>9, <2>1, FlatLast
  <2>3. Flat(pages, s.rd, w) = Flat(pages, s.rd, w - 1) \o Unread(p)
    BY <1>2, <1>c, FlatLast
  <2>4. Flat(new, s.rd, w - 1) = Flat(pages, s.rd, w - 1)
    <3>1. \A i \in s.rd..w - 1 : Unread(new[i]) = Unread(pages[i])
      BY <1>1, <1>2, <1>9
    <3>2. s.rd \in Nat /\ w - 1 \in Int
      BY <1>2
    <3> QED BY <3>1, <3>2, FlatKeeps
  <2>5. Flat(pages, s.rd, w - 1) \in Seq(Byte)
    <3>1. s.rd \in 1..Len(pages) + 1 /\ w - 1 \in s.rd - 1..Len(pages)
      BY <1>1, <1>2
    <3> QED BY <1>2, <3>1, FlatType
  <2> DEFINE a == Flat(pages, s.rd, w - 1)
             b == Unread(p)
  <2>6. a \in Seq(Byte) /\ b \in Seq(Byte)
    BY <1>3, <2>5
  <2> HIDE DEF a, b
  <2>7. (a \o b) \o add = a \o (b \o add)
    BY <1>5, <2>6, Joined
  <2> QED BY <1>2, <1>8, <2>1, <2>2, <2>3, <2>4, <2>7 DEF a, b
<1>13. Room(t) = (Len(pages) - w) * page_size + wr_size(q)
  BY <1>9, <1>10, <1>11, StandingParts
<1>14. PICK d \in Nat : d = Len(pages) - w
  <2>1. Len(pages) \in Nat /\ w \in 1..Len(pages)
    BY <1>1, <1>2
  <2>2. Len(pages) - w \in Nat
    BY <2>1
  <2> QED BY <2>2
<1>15. d * page_size \in Nat /\ (d = 0 => d * page_size = 0)
  BY SizeAssumption
<1>16. Room(t) = Room(s) - n
  <2>1. Room(t) = d * page_size + (wr_size(p) - n) /\ Room(s) = d * page_size + wr_size(p)
    BY <1>2, <1>c, <1>7, <1>13, <1>14
  <2> QED BY <1>4, <1>15, <2>1
<1>17. Left(job) = Rest(job.bytes, n)
  BY DEF Left, Rest, n
<1>18. ASSUME Left(job) # <<>> PROVE wr_size(q) = 0 /\ w < Len(pages)
  <2>1. Len(Rest(job.bytes, n)) = Len(job.bytes) - n /\ Rest(job.bytes, n) \in Seq(Byte)
    BY <1>1, <1>4, RestType
  <2>2. Len(Rest(job.bytes, n)) # 0
    BY <1>17, <1>18, <2>1, EmptySeq
  <2>3. n = wr_size(p) /\ Len(job.bytes) > n
    BY <1>1, <1>4, <2>1, <2>2
  <2>a. Len(job.bytes) <= d * page_size + wr_size(p)
    BY <1>2, <1>b, <1>c, <1>14
  <2>4. d # 0
    BY <1>1, <1>4, <1>15, <2>3, <2>a
  <2>5. w < Len(pages)
    BY <1>1, <1>2, <1>14, <2>4
  <2>6. wr_size(q) = 0
    BY <1>4, <1>7, <2>3
  <2> QED BY <2>5, <2>6
<1>19. t.pages[t.wr] = q /\ t.wr = w /\ Len(t.pages) = Len(pages)
  BY <1>9, <1>10
<1> QED BY <1>b, <1>4, <1>11, <1>12, <1>16, <1>17, <1>18, <1>19 DEF n, add

\* While bytes are to come, they fit, and together with what is there they are
\* what will be there.
Promises(job, C) ==
  Sound(job.s) /\ Len(job.bytes) <= Room(job.s) /\ Content(job.s) \o job.bytes = C

\* The rounds that are left at most.
Togo(job) == IF job.bytes = <<>> THEN 0 ELSE Len(job.s.pages) - job.s.wr + 1

LEMMA PromiseParts ==
  ASSUME NEW C, NEW job \in ToWrite, Promises(job, C)
  PROVE  /\ job.s \in States /\ job.bytes \in Seq(Byte) /\ Len(job.bytes) \in Nat
         /\ job.bytes # <<>> => Standing(job.s) /\ Len(job.bytes) > 0
         /\ Togo(job) \in Nat
<1>1. job.s \in States /\ job.bytes \in Seq(Byte) /\ Len(job.bytes) \in Nat
  <2>1. job.s \in States /\ job.bytes \in Seq(Byte)
    BY DEF ToWrite
  <2> QED BY <2>1, LenProperties
<1>2. ASSUME job.bytes # <<>> PROVE Standing(job.s) /\ Len(job.bytes) > 0
  <2>1. Len(job.bytes) > 0
    BY <1>1, <1>2, EmptySeq
  <2>2. Len(job.bytes) <= Room(job.s) /\ Sound(job.s)
    BY DEF Promises
  <2>3. job.s # Bare
    BY <1>1, <2>1, <2>2, BareParts
  <2> QED BY <2>1, <2>2, <2>3 DEF Sound
<1>3. Togo(job) \in Nat
  <2>1. CASE job.bytes = <<>>
    BY <2>1 DEF Togo
  <2>2. CASE job.bytes # <<>>
    <3>1. job.s.wr \in 1..Len(job.s.pages) /\ Len(job.s.pages) \in Nat
      BY <1>2, <2>2, StandingParts
    <3> QED BY <2>2, <3>1 DEF Togo
  <2> QED BY <2>1, <2>2
<1> QED BY <1>1, <1>2, <1>3

LEMMA FilledLen ==
  ASSUME NEW job \in ToWrite
  PROVE  Len(Filled(job)) = Len(job.s.pages)
<1>1. job.s.pages \in Seq(Page)
  BY DEF ToWrite, States
<1> QED BY <1>1, LenProperties DEF Filled

\* A round that fills a page and stays there at the end, or goes on if it is full.
LEMMA FillStep ==
  ASSUME NEW C, NEW job \in ToWrite, Promises(job, C), job.bytes # <<>>, NEW succ,
         \/ succ = job.s.wr /\ Left(job) = <<>>
         \/ /\ succ = job.s.wr + 1 /\ job.s.wr < Len(job.s.pages)
            /\ wr_size(Filled(job)[job.s.wr]) = 0,
         NEW then, then = [s |-> State(Filled(job), job.s.rd, succ), bytes |-> Left(job)]
  PROVE  then \in ToWrite /\ Promises(then, C) /\ Togo(then) < Togo(job)
<1> DEFINE t == State(Filled(job), job.s.rd, job.s.wr)
           n == Fitting(job)
           put == SubSeq(job.bytes, 1, n)
<1>1. /\ job.s \in States /\ job.bytes \in Seq(Byte) /\ Len(job.bytes) \in Nat
      /\ Standing(job.s) /\ Len(job.bytes) > 0 /\ Len(job.bytes) <= Room(job.s)
      /\ Content(job.s) \o job.bytes = C
  BY PromiseParts DEF Promises
<1>2. /\ Standing(t) /\ n \in 0..Len(job.bytes)
      /\ Content(t) = Content(job.s) \o put
      /\ Room(t) = Room(job.s) - n
      /\ Left(job) = Rest(job.bytes, n)
  BY <1>1, Fill
<1>3. /\ t.pages = Filled(job) /\ t.rd = job.s.rd /\ t.wr = job.s.wr
      /\ then.s = State(t.pages, t.rd, succ) /\ then.bytes = Left(job)
  BY DEF State
<1> HIDE DEF t, n
<1>a. put \in Seq(Byte) /\ put \o Left(job) = job.bytes
  BY <1>1, <1>2, TakeType, TakeRest
<1>4. Left(job) \in Seq(Byte) /\ Len(Left(job)) = Len(job.bytes) - n
  BY <1>1, <1>2, RestType
<1>5. Len(t.pages) = Len(job.s.pages) /\ t.wr \in 1..Len(t.pages) /\ Len(t.pages) \in Nat
  <2>1. Len(Filled(job)) = Len(job.s.pages)
    BY FilledLen
  <2> QED BY <1>2, <1>3, <2>1, StandingParts
<1>6. Standing(then.s) /\ Content(then.s) = Content(t) /\ Room(then.s) = Room(t)
  <2>1. CASE succ = t.wr
    <3>1. then.s = t
      BY <1>3, <2>1 DEF State, t
    <3> QED BY <1>2, <3>1
  <2>2. CASE succ # t.wr
    <3>1. succ = t.wr + 1 /\ t.wr < Len(t.pages) /\ wr_size(t.pages[t.wr]) = 0
      BY <1>3, <1>5, <2>2
    <3>2. then.s = State(t.pages, t.rd, t.wr + 1)
      BY <1>3, <3>1
    <3> QED BY <1>2, <3>1, <3>2, Advance
  <2> QED BY <2>1, <2>2
<1>7. then \in ToWrite
  BY <1>4, <1>6 DEF ToWrite, Standing
<1>8. Promises(then, C)
  <2>1. Len(then.bytes) <= Room(then.s)
    <3>1. Room(job.s) \in Nat
      BY <1>1, RoomType
    <3> QED BY <1>1, <1>2, <1>3, <1>4, <1>6, <3>1
  <2>2. Content(then.s) \o then.bytes = C
    <3> DEFINE a == Content(job.s)
               b == Left(job)
    <3>1. a \in Seq(Byte)
      BY <1>1, StandingParts
    <3>2. (a \o put) \o b = a \o (put \o b)
      <4> HIDE DEF a, b, put
      <4> QED BY <1>4, <1>a, <3>1, Joined DEF b
    <3> QED BY <1>1, <1>2, <1>3, <1>6, <1>a, <3>2
  <2> QED BY <1>6, <2>1, <2>2 DEF Promises, Sound
<1>9. Togo(then) < Togo(job)
  <2>1. Togo(job) = Len(job.s.pages) - job.s.wr + 1
    BY DEF Togo
  <2>2. then.s.pages = t.pages /\ then.s.wr = succ
    BY <1>3 DEF State
  <2>3. CASE Left(job) = <<>>
    BY <1>3, <1>5, <2>1, <2>3 DEF Togo
  <2>4. CASE Left(job) # <<>>
    <3>1. succ = t.wr + 1
      BY <1>3, <2>4
    <3>2. Togo(then) = Len(t.pages) - succ + 1
      BY <1>3, <2>2, <2>4 DEF Togo
    <3> QED BY <1>3, <1>5, <2>1, <3>1, <3>2
  <2> QED BY <2>3, <2>4
<1> QED BY <1>7, <1>8, <1>9

\* While bytes are left the page is full, and there is another.
LEMMA FillLeaves ==
  ASSUME NEW C, NEW job \in ToWrite, Promises(job, C), job.bytes # <<>>
  PROVE  /\ Left(job) # <<>> => /\ job.s.wr < Len(job.s.pages) /\ wr_size(Filled(job)[job.s.wr]) = 0
                                /\ Next_(job.s.pages, job.s.wr) = job.s.wr + 1
         /\ Filled(job) \in Seq(Page) /\ Left(job) \in Seq(Byte)
         /\ job.s.wr \in 1..Len(job.s.pages) /\ job.s.rd \in Nat
<1> DEFINE t == State(Filled(job), job.s.rd, job.s.wr)
<1>1. /\ job.s \in States /\ job.bytes \in Seq(Byte)
      /\ Standing(job.s) /\ Len(job.bytes) <= Room(job.s)
  BY PromiseParts DEF Promises
<1>2. /\ Standing(t) /\ Fitting(job) \in 0..Len(job.bytes)
      /\ Left(job) = Rest(job.bytes, Fitting(job))
      /\ Left(job) # <<>> => wr_size(t.pages[t.wr]) = 0 /\ t.wr < Len(t.pages)
  BY <1>1, Fill
<1>3. t.pages = Filled(job) /\ t.wr = job.s.wr
  BY DEF State
<1> HIDE DEF t
<1>4. Filled(job) \in Seq(Page)
  BY <1>2, <1>3 DEF Standing, States
<1>5. Left(job) \in Seq(Byte)
  BY <1>1, <1>2, RestType
<1>6. job.s.wr \in 1..Len(job.s.pages) /\ job.s.rd \in Nat /\ Len(job.s.pages) \in Nat
  BY <1>1, StandingParts DEF States
<1>7. Len(Filled(job)) = Len(job.s.pages)
  BY FilledLen
<1> QED BY <1>2, <1>3, <1>4, <1>5, <1>6, <1>7 DEF Next_

LEMMA WriteStep ==
  ASSUME NEW C, NEW job \in ToWrite, Promises(job, C)
  PROVE  /\ WriteRound[job] \in ToWrite /\ Promises(WriteRound[job], C)
         /\ job.bytes = <<>> => WriteRound[job] = job
         /\ job.bytes # <<>> => Togo(WriteRound[job]) < Togo(job)
<1> DEFINE succ == IF Left(job) = <<>> THEN job.s.wr ELSE Next_(job.s.pages, job.s.wr)
<1>1. WriteRound[job] = FillRound(job, succ)
  BY DEF WriteRound
<1>2. CASE job.bytes = <<>>
  BY <1>1, <1>2 DEF FillRound
<1>3. CASE job.bytes # <<>>
  <2>1. job.s.wr # 0
    BY <1>3, FillLeaves
  <2>2. WriteRound[job] = [s |-> State(Filled(job), job.s.rd, succ), bytes |-> Left(job)]
    BY <1>1, <1>3, <2>1 DEF FillRound
  <2>3. \/ succ = job.s.wr /\ Left(job) = <<>>
        \/ /\ succ = job.s.wr + 1 /\ job.s.wr < Len(job.s.pages)
           /\ wr_size(Filled(job)[job.s.wr]) = 0
    BY <1>3, FillLeaves
  <2> HIDE DEF succ
  <2>4. /\ WriteRound[job] \in ToWrite /\ Promises(WriteRound[job], C)
        /\ Togo(WriteRound[job]) < Togo(job)
    BY <1>3, <2>2, <2>3, FillStep
  <2> QED BY <1>3, <2>4
<1> QED BY <1>2, <1>3

\* write() puts the bytes behind the others, if there is room for them.
LEMMA WrittenIs ==
  ASSUME NEW s, Sound(s), NEW bytes \in Seq(Byte), Len(bytes) <= Room(s)
  PROVE  Sound(Written(s, bytes)) /\ Content(Written(s, bytes)) = Content(s) \o bytes
<1> DEFINE C == Content(s) \o bytes
           J == {job \in ToWrite : Promises(job, C)}
           far == [job \in J |-> Togo(job)]
           x == [s |-> s, bytes |-> bytes]
           n == Len(s.pages)
           end == After(WriteRound, x, n)
<1> HIDE DEF C
<1>1. s \in States /\ n \in Nat /\ Content(s) \in Seq(Byte)
  <2>1. s \in States /\ Content(s) \in Seq(Byte)
    BY SoundParts
  <2>2. s.pages \in Seq(Page)
    BY <2>1 DEF States
  <2> QED BY <2>1, <2>2, LenProperties
<1>2. x \in J
  BY <1>1 DEF ToWrite, Promises, C
<1>3. far \in [J -> Nat]
  BY PromiseParts
<1>4. far[x] <= n
  <2>1. CASE bytes = <<>>
    BY <1>1, <1>2, <2>1 DEF Togo
  <2>2. CASE bytes # <<>>
    <3>1. Standing(s)
      BY <1>2, <2>2, PromiseParts
    <3>2. s.wr \in 1..Len(s.pages) /\ Len(s.pages) \in Nat
      BY <3>1, StandingParts
    <3>3. far[x] = Len(s.pages) - s.wr + 1
      BY <1>2, <2>2 DEF Togo
    <3> QED BY <3>2, <3>3
  <2> QED BY <2>1, <2>2
<1>5. ASSUME NEW job \in J PROVE WriteRound[job] \in J
  BY WriteStep
<1>6. ASSUME NEW job \in J, far[job] = 0 PROVE far[WriteRound[job]] = 0
  <2>1. job.bytes = <<>>
    <3>1. ASSUME job.bytes # <<>> PROVE Togo(WriteRound[job]) < Togo(job) /\ Togo(WriteRound[job]) \in Nat
      BY <1>5, <3>1, WriteStep, PromiseParts
    <3> QED BY <1>6, <3>1
  <2> QED BY <1>6, <2>1, WriteStep
<1>7. ASSUME NEW job \in J, far[job] # 0 PROVE far[WriteRound[job]] < far[job]
  <2>1. job.bytes # <<>>
    BY <1>7 DEF Togo
  <2>2. Togo(WriteRound[job]) < Togo(job)
    BY <2>1, WriteStep
  <2> QED BY <1>5, <2>2
<1> HIDE DEF J, far, x, n
<1>8. end \in J /\ far[end] = 0
  BY <1>1, <1>2, <1>3, <1>4, <1>5, <1>6, <1>7, AfterEnds
<1> HIDE DEF end
<1>9. end \in ToWrite /\ Promises(end, C) /\ Togo(end) = 0
  BY <1>8 DEF J, far
<1>10. end.bytes = <<>>
  <2>1. ASSUME end.bytes # <<>> PROVE Togo(end) # 0
    <3>1. Standing(end.s)
      BY <1>9, <2>1, PromiseParts
    <3>2. end.s.wr \in 1..Len(end.s.pages) /\ Len(end.s.pages) \in Nat
      BY <3>1, StandingParts
    <3> QED BY <2>1, <3>2 DEF Togo
  <2> QED BY <1>9, <2>1
<1>11. Sound(end.s) /\ Content(end.s) = C
  <2>1. Sound(end.s) /\ Content(end.s) \o <<>> = C
    BY <1>9, <1>10 DEF Promises
  <2> QED BY <2>1, SoundParts, ConcatEmptySeq
<1>12. Written(s, bytes) = end.s
  BY DEF Written, end, x, n
<1> QED BY <1>11, <1>12 DEF C

\* A round that goes on anyhow may be the last one, and end badly.
Lost(job) ==
  job.bytes = <<>> /\ (job.s.wr = 0 \/ wr_size(job.s.pages[job.s.wr - 1]) # 0)

LEMMA PositionStep ==
  ASSUME NEW C, NEW job \in ToWrite, Promises(job, C)
  PROVE  /\ PositionRound[job] \in ToWrite
         /\ Promises(PositionRound[job], C) \/ Lost(PositionRound[job])
         /\ job.bytes = <<>> => PositionRound[job] = job
         /\ job.bytes # <<>> => PositionRound[job].bytes = <<>> \/ Togo(PositionRound[job]) < Togo(job)
<1> DEFINE succ == Next_(job.s.pages, job.s.wr)
           then == [s |-> State(Filled(job), job.s.rd, succ), bytes |-> Left(job)]
<1>1. PositionRound[job] = FillRound(job, succ)
  BY DEF PositionRound
<1>2. CASE job.bytes = <<>>
  BY <1>1, <1>2 DEF FillRound
<1>3. CASE job.bytes # <<>>
  <2>1. /\ job.s.wr \in 1..Len(job.s.pages) /\ job.s.rd \in Nat
        /\ Filled(job) \in Seq(Page) /\ Left(job) \in Seq(Byte)
        /\ succ = 0 \/ succ = job.s.wr + 1
        /\ succ # 0 => job.s.wr < Len(job.s.pages)
    <3>1. /\ job.s.wr \in 1..Len(job.s.pages) /\ job.s.rd \in Nat
          /\ Filled(job) \in Seq(Page) /\ Left(job) \in Seq(Byte)
      BY <1>3, FillLeaves
    <3>2. Len(job.s.pages) \in Nat
      <4>1. job.s.pages \in Seq(Page)
        BY DEF ToWrite, States
      <4> QED BY <4>1, LenProperties
    <3> QED BY <3>1, <3>2 DEF Next_
  <2>2. PositionRound[job] = then
    BY <1>1, <1>3, <2>1 DEF FillRound
  <2>3. then \in ToWrite /\ then.bytes = Left(job)
    BY <2>1 DEF ToWrite, States, State
  <2>4. CASE succ # 0 /\ wr_size(Filled(job)[job.s.wr]) = 0
    <3> HIDE DEF succ
    <3>1. Promises(then, C) /\ Togo(then) < Togo(job)
      BY <1>3, <2>1, <2>4, FillStep
    <3> HIDE DEF then
    <3> QED BY <1>3, <2>2, <2>3, <3>1
  <2>5. CASE ~(succ # 0 /\ wr_size(Filled(job)[job.s.wr]) = 0)
    <3>1. Left(job) = <<>>
      BY <1>3, <2>1, <2>5, FillLeaves
    <3>2. then.s.wr = succ /\ then.s.pages = Filled(job)
      BY DEF State
    <3>3. succ # 0 => succ - 1 = job.s.wr
      BY <2>1
    <3>4. Lost(then)
      <4> HIDE DEF succ, then
      <4> QED BY <2>3, <2>5, <3>1, <3>2, <3>3 DEF Lost
    <3> HIDE DEF then
    <3> QED BY <1>3, <2>2, <2>3, <3>1, <3>4
  <2> QED BY <2>4, <2>5
<1> QED BY <1>2, <1>3

\* wr_position() does the same, in the programs that end it well.
LEMMA PositionedIs ==
  ASSUME NEW s, Sound(s), NEW bytes \in Seq(Byte), Len(bytes) <= Room(s)
  PROVE  LET t == Positioned(s, bytes)
         IN  t.wr # 0 /\ wr_size(t.pages[t.wr - 1]) = 0
               => Sound(t) /\ Content(t) = Content(s) \o bytes
<1> DEFINE C == Content(s) \o bytes
           J == {job \in ToWrite : Promises(job, C) \/ Lost(job)}
           far == [job \in J |-> Togo(job)]
           x == [s |-> s, bytes |-> bytes]
           n == Len(s.pages)
           end == After(PositionRound, x, n)
<1> HIDE DEF C
<1>1. s \in States /\ n \in Nat /\ Content(s) \in Seq(Byte)
  <2>1. s \in States /\ Content(s) \in Seq(Byte)
    BY SoundParts
  <2>2. s.pages \in Seq(Page)
    BY <2>1 DEF States
  <2> QED BY <2>1, <2>2, LenProperties
<1>2. x \in J /\ Promises(x, C) /\ x \in ToWrite
  BY <1>1 DEF ToWrite, Promises, C
<1>3. far \in [J -> Nat]
  <2>1. ASSUME NEW job \in J PROVE Togo(job) \in Nat
    <3>1. CASE Promises(job, C)
      BY <3>1, PromiseParts
    <3>2. CASE Lost(job)
      BY <3>2 DEF Lost, Togo
    <3> QED BY <3>1, <3>2
  <2> QED BY <2>1
<1>4. far[x] <= n
  <2>1. CASE bytes = <<>>
    BY <1>1, <1>2, <2>1 DEF Togo
  <2>2. CASE bytes # <<>>
    <3>1. Standing(s)
      BY <1>2, <2>2, PromiseParts
    <3>2. s.wr \in 1..Len(s.pages) /\ Len(s.pages) \in Nat
      BY <3>1, StandingParts
    <3>3. far[x] = Len(s.pages) - s.wr + 1
      BY <1>2, <2>2 DEF Togo
    <3> QED BY <3>2, <3>3
  <2> QED BY <2>1, <2>2
<1>a. ASSUME NEW job \in J, job.bytes = <<>> PROVE PositionRound[job] = job
  BY <1>a DEF PositionRound, FillRound
<1>b. ASSUME NEW job \in J, job.bytes # <<>> PROVE Promises(job, C)
  BY <1>b DEF Lost
<1>5. ASSUME NEW job \in J PROVE PositionRound[job] \in J
  BY <1>a, <1>b, PositionStep
<1>c. ASSUME NEW job \in J, Togo(job) = 0 PROVE job.bytes = <<>>
  <2>1. ASSUME job.bytes # <<>> PROVE Togo(job) # 0
    <3>1. Standing(job.s)
      BY <1>b, <2>1, PromiseParts
    <3>2. job.s.wr \in 1..Len(job.s.pages) /\ Len(job.s.pages) \in Nat
      BY <3>1, StandingParts
    <3> QED BY <2>1, <3>2 DEF Togo
  <2> QED BY <1>c, <2>1
<1>6. ASSUME NEW job \in J, far[job] = 0 PROVE far[PositionRound[job]] = 0
  BY <1>6, <1>a, <1>c
<1>7. ASSUME NEW job \in J, far[job] # 0 PROVE far[PositionRound[job]] < far[job]
  <2>1. job.bytes # <<>> /\ Promises(job, C) /\ Togo(job) \in Nat
    BY <1>7, <1>b, PromiseParts DEF Togo
  <2>2. PositionRound[job].bytes = <<>> \/ Togo(PositionRound[job]) < Togo(job)
    BY <2>1, PositionStep
  <2>3. PositionRound[job].bytes = <<>> => Togo(PositionRound[job]) = 0
    BY DEF Togo
  <2> QED BY <1>5, <1>7, <2>1, <2>2, <2>3
<1> HIDE DEF J, far, x, n
<1>8. end \in J /\ far[end] = 0
  <2>1. x \in J /\ n \in Nat
    BY <1>1, <1>2
  <2> QED BY <2>1, <1>3, <1>4, <1>5, <1>6, <1>7, AfterEnds
<1> DEFINE t == end.s
<1>9. Positioned(s, bytes) = t
  BY DEF Positioned, x, n
<1> SUFFICES ASSUME t.wr # 0, wr_size(t.pages[t.wr - 1]) = 0
             PROVE  Sound(t) /\ Content(t) = C
  BY <1>9 DEF C
<1> HIDE DEF end
<1>10. end.bytes = <<>>
  BY <1>8, <1>c DEF far
<1>11. Promises(end, C)
  BY <1>8 DEF J, Lost
<1>12. Sound(t) /\ Content(t) \o <<>> = C
  BY <1>10, <1>11 DEF Promises
<1> QED BY <1>12, SoundParts, ConcatEmptySeq

-----------------------------------------------------------------------------
(* Pages that come and go *)

\* shrink() gives back only what was read.
LEMMA ShrunkIs ==
  ASSUME NEW s, Sound(s)
  PROVE  /\ Sound(Shrunk(s)) /\ Content(Shrunk(s)) = Content(s)
         /\ s.rd # 0 => Standing(Shrunk(s))
         /\ s.rd = 0 => Shrunk(s) = Bare
<1>1. CASE s.rd = 0
  <2>1. s = Bare
    BY <1>1, SoundParts
  <2>2. Shrunk(s) = Bare
    BY <1>1, <2>1 DEF Shrunk, Bare, State
  <2> QED BY <1>1, <2>1, <2>2 DEF Sound
<1>2. CASE s.rd # 0
  <2> DEFINE pages == s.pages
             n == s.rd - 1
             rest == Rest(pages, n)
             t == Shrunk(s)
             w == s.wr - n
  <2>1. Standing(s)
    BY <1>2, BareParts DEF Sound
  <2>2. /\ Sized(pages) /\ Len(pages) \in Nat /\ s.rd \in 1..Len(pages) /\ s.wr \in s.rd..Len(pages)
        /\ Content(s) = Flat(pages, s.rd, s.wr) /\ pages \in Seq(Page)
        /\ \A i \in 1..Len(pages) : Settled(pages[i], i, s.wr)
    BY <2>1, StandingParts DEF Sized, Standing
  <2>3. n \in 0..Len(pages) /\ s.rd = n + 1 /\ s.wr = w + n /\ w \in 1..Len(pages) - n /\ n \in Nat
    BY <2>2
  <2>4. t = State(rest, 1, w)
    BY <1>2, <2>2, <2>3 DEF Shrunk, Rest
  <2> HIDE DEF pages, n, t, w
  <2>5. /\ rest \in Seq(Page) /\ Len(rest) = Len(pages) - n
        /\ \A i \in 1..Len(pages) - n : rest[i] = pages[n + i]
    BY <2>2, <2>3, RestType
  <2> HIDE DEF rest
  <2>6. Standing(t)
    <3>1. ASSUME NEW i \in 1..Len(rest) PROVE Settled(rest[i], i, w)
      <4>1. PICK k \in 1..Len(pages) : k = n + i
        BY <2>2, <2>3, <2>5
      <4>2. rest[i] = pages[k] /\ (i < w <=> k < s.wr) /\ (i > w <=> k > s.wr)
        BY <2>2, <2>3, <2>5, <4>1
      <4>3. Settled(pages[k], k, s.wr)
        BY <2>2
      <4> QED BY <4>2, <4>3 DEF Settled
    <3>2. w \in Nat /\ 1 <= w /\ w <= Len(rest)
      BY <2>3, <2>5
    <3>3. t.pages = rest /\ t.rd = 1 /\ t.wr = w /\ t \in States
      BY <2>4, <2>5, <3>2 DEF State, States
    <3> QED BY <3>1, <3>2, <3>3 DEF Standing
  <2>7. Content(t) = Content(s)
    <3>1. Content(t) = Flat(rest, 1, w)
      BY <2>4, <2>6, StandingParts DEF State
    <3>2. PICK d \in Int : d = 0 - n
      BY <2>3
    <3>3. ASSUME NEW k \in s.rd..s.wr PROVE Unread(pages[k]) = Unread(rest[k + d])
      <4>1. PICK i \in 1..Len(pages) - n : i = k + d
        BY <2>2, <2>3, <3>2
      <4>2. n + i = k
        BY <2>3, <3>2, <4>1
      <4> QED BY <2>5, <4>1, <4>2
    <3>4. s.rd \in Nat /\ s.wr \in Int /\ s.rd + d = 1 /\ s.wr + d = w
      BY <2>2, <2>3, <3>2
    <3>5. Flat(pages, s.rd, s.wr) = Flat(rest, s.rd + d, s.wr + d)
      <4> DEFINE i == s.rd
                 j == s.wr
      <4>1. i \in Nat /\ j \in Int /\ Shifted(pages, rest, i, j, d)
        BY <3>3, <3>4 DEF Shifted
      <4> HIDE DEF i, j
      <4>2. Flat(pages, i, j) = Flat(rest, i + d, j + d)
        BY <3>2, <4>1, FlatSame
      <4> QED BY <4>2 DEF i, j
    <3> QED BY <2>2, <3>1, <3>4, <3>5
  <2> QED BY <1>2, <2>6, <2>7 DEF Sound, t
<1> QED BY <1>1, <1>2

LEMMA FreshIs ==
  /\ Fresh \in Page /\ Unread(Fresh) = <<>> /\ Sizes(Fresh) /\ wr_size(Fresh) = page_size
  /\ \A i, wr \in Nat : i >= wr => Settled(Fresh, i, wr)
<1>1. Fresh.offset_rd = 0 /\ Fresh.data = <<>> /\ <<>> \in Seq(Byte) /\ Len(<<>>) = 0
  BY EmptySeq DEF Fresh
<1>2. Fresh \in Page
  BY <1>1 DEF Fresh, Page
<1>3. Unread(Fresh) = <<>>
  BY <1>1 DEF Unread
<1> QED BY <1>1, <1>2, <1>3, SizeAssumption DEF Sizes, wr_size, Settled

\* Empty pages, with both positions on the first.
LEMMA FreshPages ==
  ASSUME NEW pages \in Seq(Page), Len(pages) # 0,
         \A i \in 1..Len(pages) : pages[i] = Fresh,
         NEW s, s = State(pages, 1, 1)
  PROVE  Standing(s) /\ Content(s) = <<>>
<1>1. s.pages = pages /\ s.rd = 1 /\ s.wr = 1 /\ s \in States
  BY DEF State, States
<1>2. Len(pages) \in Nat \ {0}
  BY LenProperties
<1>3. Standing(s)
  <2>1. \A i \in 1..Len(pages) : Settled(pages[i], i, 1)
    BY FreshIs
  <2> QED BY <1>1, <1>2, <2>1 DEF Standing
<1>4. Content(s) = Flat(pages, 1, 1) /\ Sized(pages)
  BY <1>1, <1>3, StandingParts
<1>5. 1 \in 1..Len(pages)
  BY <1>2
<1>6. Flat(pages, 1, 1) = Unread(pages[1])
  BY <1>4, <1>5, FlatOne
<1> QED BY <1>3, <1>4, <1>5, <1>6, FreshIs

\* reset() empties the pages.
LEMMA EmptiedIs ==
  ASSUME NEW s, Sound(s)
  PROVE  Sound(Emptied(s)) /\ Content(Emptied(s)) = <<>>
<1>1. CASE s.pages = <<>>
  <2>1. [i \in DOMAIN s.pages |-> Fresh] = <<>>
    BY <1>1
  <2>2. Emptied(s) = Bare
    BY <1>1, <2>1 DEF Emptied, Bare
  <2> QED BY <2>2, BareParts DEF Sound
<1>2. CASE s.pages # <<>>
  <2> DEFINE pages == [i \in 1..Len(s.pages) |-> Fresh]
  <2>1. s.pages \in Seq(Page)
    BY SoundParts DEF States
  <2>2. Len(s.pages) \in Nat \ {0} /\ DOMAIN s.pages = 1..Len(s.pages)
    BY <1>2, <2>1, LenProperties, EmptySeq
  <2>3. Emptied(s) = State(pages, 1, 1)
    BY <1>2, <2>2 DEF Emptied
  <2>4. pages \in Seq(Page) /\ Len(pages) = Len(s.pages) /\ \A i \in 1..Len(pages) : pages[i] = Fresh
    BY <2>2, FreshIs
  <2> HIDE DEF pages
  <2>5. Standing(Emptied(s)) /\ Content(Emptied(s)) = <<>>
    BY <2>2, <2>3, <2>4, FreshPages
  <2> QED BY <2>5 DEF Sound
<1> QED BY <1>1, <1>2

\* Pages at the end are room.
LEMMA MorePages ==
  ASSUME NEW s, Standing(s), NEW more \in Nat,
         NEW t, t = State(s.pages \o [i \in 1..more |-> Fresh], s.rd, s.wr)
  PROVE  Standing(t) /\ Content(t) = Content(s) /\ Room(t) = Room(s) + more * page_size
<1> DEFINE pages == s.pages
           new == [i \in 1..more |-> Fresh]
           all == pages \o new
<1>1. /\ Sized(pages) /\ Len(pages) \in Nat /\ s.rd \in 1..Len(pages) /\ s.wr \in s.rd..Len(pages)
      /\ s.wr \in 1..Len(pages)
      /\ Content(s) = Flat(pages, s.rd, s.wr) /\ pages \in Seq(Page)
      /\ Room(s) = (Len(pages) - s.wr) * page_size + wr_size(pages[s.wr])
      /\ \A i \in 1..Len(pages) : Settled(pages[i], i, s.wr)
  BY StandingParts DEF Sized, Standing
<1>2. new \in Seq(Page) /\ Len(new) = more /\ \A i \in 1..more : new[i] = Fresh
  BY FreshIs
<1>3. t = State(all, s.rd, s.wr)
  OBVIOUS
<1> HIDE DEF pages, new
<1>4. /\ all \in Seq(Page) /\ Len(all) = Len(pages) + more
      /\ \A i \in 1..Len(pages) + more : all[i] = IF i <= Len(pages) THEN pages[i] ELSE new[i - Len(pages)]
  BY <1>1, <1>2, ConcatProperties
<1> HIDE DEF all
<1>5. ASSUME NEW i \in 1..Len(pages) + more
      PROVE  (i <= Len(pages) => all[i] = pages[i]) /\ (i > Len(pages) => all[i] = Fresh)
  <2>1. ASSUME i > Len(pages) PROVE all[i] = Fresh
    <3>1. PICK k \in 1..more : k = i - Len(pages)
      BY <1>1, <2>1
    <3> QED BY <1>1, <1>2, <1>4, <2>1, <3>1
  <2> QED BY <1>4, <2>1
<1>6. t.pages = all /\ t.rd = s.rd /\ t.wr = s.wr /\ t \in States
  <2>1. s.rd \in Nat /\ s.wr \in Nat /\ all \in Seq(Page)
    BY <1>1, <1>4
  <2> QED BY <1>3, <2>1, StateType
<1>7. Standing(t)
  <2>1. ASSUME NEW i \in 1..Len(all) PROVE Settled(all[i], i, s.wr)
    <3>1. i \in 1..Len(pages) + more /\ i \in Nat /\ s.wr \in Nat
      BY <1>1, <1>4
    <3>2. CASE i <= Len(pages)
      BY <1>1, <1>5, <3>1, <3>2
    <3>3. CASE i > Len(pages)
      <4>1. all[i] = Fresh /\ i >= s.wr
        BY <1>1, <1>5, <3>1, <3>3
      <4> QED BY <3>1, <4>1, FreshIs
    <3> QED BY <1>1, <3>1, <3>2, <3>3
  <2>2. 1 <= s.rd /\ s.rd <= s.wr /\ s.wr <= Len(all)
    BY <1>1, <1>4
  <2> QED BY <1>6, <2>1, <2>2 DEF Standing
<1>8. Content(t) = Content(s)
  <2>1. Content(t) = Flat(all, s.rd, s.wr)
    BY <1>6, <1>7, StandingParts
  <2>2. ASSUME NEW k \in s.rd..s.wr PROVE Unread(all[k]) = Unread(pages[k])
    <3>1. k \in 1..Len(pages) + more /\ k <= Len(pages)
      BY <1>1
    <3> QED BY <1>5, <3>1
  <2>3. s.rd \in Nat /\ s.wr \in Int
    BY <1>1
  <2>4. Flat(all, s.rd, s.wr) = Flat(pages, s.rd, s.wr)
    BY <2>2, <2>3, FlatKeeps
  <2> QED BY <1>1, <2>1, <2>4
<1>9. Room(t) = Room(s) + more * page_size
  <2>1. Room(t) = (Len(pages) + more - s.wr) * page_size + wr_size(all[s.wr])
    <3> DEFINE room(list, wr) == (Len(list) - wr) * page_size + wr_size(list[wr])
    <3>1. Room(t) = room(t.pages, t.wr)
      BY <1>7, StandingParts
    <3> HIDE DEF room
    <3>2. Room(t) = room(all, s.wr)
      BY <1>6, <3>1
    <3>3. Len(all) = Len(pages) + more
      BY <1>4
    <3>4. Room(t) = (Len(all) - s.wr) * page_size + wr_size(all[s.wr])
      BY <3>2 DEF room
    <3>5. Len(pages) \in Nat /\ s.wr \in Nat
      BY <1>1
    <3> QED BY <3>3, <3>4, <3>5
  <2>2. all[s.wr] = pages[s.wr]
    BY <1>1, <1>5
  <2>3. PICK d \in Nat : d = Len(pages) - s.wr
    <3>1. Len(pages) \in Nat /\ s.wr \in 1..Len(pages)
      BY <1>1
    <3>2. Len(pages) - s.wr \in Nat
      BY <3>1
    <3> QED BY <3>2
  <2>4. Len(pages) + more - s.wr = d + more
    BY <1>1, <2>3
  <2>5. (d + more) * page_size = d * page_size + more * page_size
    BY SizeAssumption
  <2>6. wr_size(pages[s.wr]) \in Int
    <3>1. pages[s.wr] \in Page
      BY <1>1, SizedPage
    <3>2. Len(pages[s.wr].data) \in Nat
      BY <3>1, LenProperties DEF Page
    <3> QED BY <3>2, SizeAssumption DEF wr_size
  <2>7. d * page_size \in Nat /\ more * page_size \in Nat
    BY SizeAssumption
  <2>8. Room(t) = d * page_size + more * page_size + wr_size(pages[s.wr])
    BY <2>1, <2>2, <2>4, <2>5
  <2>9. Room(s) = d * page_size + wr_size(pages[s.wr])
    BY <1>1, <2>3
  <2> QED BY <2>6, <2>7, <2>8, <2>9
<1> QED BY <1>7, <1>8, <1>9

\* Rounded up to whole pages.
LEMMA RoundedUp ==
  ASSUME NEW n \in Nat \ {0}, NEW p \in Nat \ {0}
  PROVE  (n + p - 1) \div p \in Nat /\ ((n + p - 1) \div p) * p >= n
<1>1. PICK a \in Nat : a = n + p - 1
  OBVIOUS
<1>2. a \div p \in Nat /\ a % p \in 0..p - 1 /\ a = p * (a \div p) + (a % p)
  OBVIOUS
<1>3. PICK d \in Nat : d = a \div p
  BY <1>2
<1>4. d * p = p * d /\ d * p \in Nat
  OBVIOUS
<1> QED BY <1>1, <1>2, <1>3, <1>4

\* reserve() makes room for n bytes.
LEMMA ReservedIs ==
  ASSUME NEW s, Sound(s), NEW n \in Nat
  PROVE  Standing(Reserved(s, n)) /\ Content(Reserved(s, n)) = Content(s) /\ Room(Reserved(s, n)) >= n
<1> DEFINE shrunk == Shrunk(s)
           first  == IF shrunk.wr = 0 \/ (shrunk.rd = 0 /\ shrunk.pages = <<>>)
                       THEN State(<<Fresh>>, 1, 1) ELSE shrunk
           short  == n - Room(first)
           more   == IF short <= 0 THEN 0 ELSE (short + page_size - 1) \div page_size
           t == State(first.pages \o [i \in 1..more |-> Fresh], first.rd, first.wr)
<1>1. Standing(first) /\ Content(first) = Content(s)
  <2>1. Sound(shrunk) /\ Content(shrunk) = Content(s)
    BY ShrunkIs
  <2> HIDE DEF shrunk
  <2>2. CASE shrunk.wr = 0
    <3>1. Content(s) = <<>>
      BY <2>1, <2>2, SoundParts, BareParts
    <3>2. <<Fresh>> \in Seq(Page) /\ Len(<<Fresh>>) # 0 /\ \A i \in 1..Len(<<Fresh>>) : <<Fresh>>[i] = Fresh
      BY FreshIs
    <3>3. first = State(<<Fresh>>, 1, 1)
      BY <2>2
    <3> QED BY <3>1, <3>2, <3>3, FreshPages
  <2>3. CASE shrunk.wr # 0
    <3>1. Standing(shrunk)
      BY <2>1, <2>3, SoundParts
    <3>2. shrunk.rd # 0
      BY <3>1, StandingParts
    <3>3. first = shrunk
      BY <2>3, <3>2
    <3> QED BY <2>1, <3>1, <3>3
  <2> QED BY <2>2, <2>3
<1>2. Reserved(s, n) = t
  BY DEF Reserved
<1> HIDE DEF first
<1>3. Room(first) \in Nat
  BY <1>1, RoomType
<1>4. more \in Nat /\ Room(first) + more * page_size >= n
  <2>1. CASE short <= 0
    BY <1>3, <2>1, SizeAssumption
  <2>2. CASE ~(short <= 0)
    <3>1. PICK a \in Nat \ {0} : a = short
      BY <1>3, <2>2
    <3>2. more = (a + page_size - 1) \div page_size
      BY <2>2, <3>1
    <3>3. more \in Nat /\ more * page_size >= a
      BY <3>2, RoundedUp, SizeAssumption
    <3>4. more * page_size \in Nat
      BY <3>3, SizeAssumption
    <3> HIDE DEF more
    <3> QED BY <1>3, <3>1, <3>3, <3>4
  <2> QED BY <2>1, <2>2
<1> HIDE DEF more
<1>5. Standing(t) /\ Content(t) = Content(first) /\ Room(t) = Room(first) + more * page_size
  BY <1>1, <1>4, MorePages
<1> QED BY <1>1, <1>2, <1>4, <1>5

\* write() puts the bytes behind the others.
LEMMA StoredIs ==
  ASSUME NEW s, Sound(s), NEW bytes \in Seq(Byte)
  PROVE  Sound(Stored(s, bytes)) /\ Content(Stored(s, bytes)) = Content(s) \o bytes
<1> DEFINE room == IF Len(bytes) > Room(s) THEN Reserved(s, Len(bytes)) ELSE s
<1>1. Len(bytes) \in Nat /\ Room(s) \in Nat
  <2>1. Room(s) \in Nat
    BY RoomType, BareParts DEF Sound
  <2> QED BY <2>1, LenProperties
<1>2. Sound(room) /\ Content(room) = Content(s) /\ Len(bytes) <= Room(room)
  <2>1. CASE Len(bytes) > Room(s)
    <3>1. /\ Standing(Reserved(s, Len(bytes))) /\ Content(Reserved(s, Len(bytes))) = Content(s)
          /\ Room(Reserved(s, Len(bytes))) >= Len(bytes)
      BY <1>1, ReservedIs
    <3>2. Room(Reserved(s, Len(bytes))) \in Nat
      BY <3>1, RoomType
    <3> QED BY <1>1, <2>1, <3>1, <3>2 DEF Sound
  <2>2. CASE ~(Len(bytes) > Room(s))
    BY <1>1, <2>2
  <2> QED BY <2>1, <2>2
<1>3. Stored(s, bytes) = Written(room, bytes)
  BY DEF Stored
<1> HIDE DEF room
<1> QED BY <1>2, <1>3, WrittenIs

-----------------------------------------------------------------------------
(* Reading *)

LEMMA RestOfRest ==
  ASSUME NEW s \in Seq(Byte), NEW m \in 0..Len(s), NEW n \in 0..Len(s) - m
  PROVE  Rest(Rest(s, m), n) = Rest(s, m + n)
<1> DEFINE r == Rest(s, m)
<1>1. Len(s) \in Nat
  BY LenProperties
<1>2. r \in Seq(Byte) /\ Len(r) = Len(s) - m /\ \A i \in 1..Len(s) - m : r[i] = s[m + i]
  BY RestType
<1> HIDE DEF r
<1>3. n \in 0..Len(r)
  BY <1>1, <1>2
<1>4. /\ Rest(r, n) \in Seq(Byte) /\ Len(Rest(r, n)) = Len(r) - n
      /\ \A i \in 1..Len(r) - n : Rest(r, n)[i] = r[n + i]
  BY <1>2, <1>3, RestType
<1>5. PICK k \in 0..Len(s) : k = m + n
  BY <1>1
<1>6. /\ Rest(s, k) \in Seq(Byte) /\ Len(Rest(s, k)) = Len(s) - k
      /\ \A i \in 1..Len(s) - k : Rest(s, k)[i] = s[k + i]
  BY RestType
<1>7. Len(Rest(r, n)) = Len(Rest(s, k))
  <2>1. Len(r) = Len(s) - m
    BY <1>2
  <2>2. Len(r) - n = Len(s) - k
    BY <1>1, <1>5, <2>1
  <2> QED BY <1>4, <1>6, <2>2
<1>8. ASSUME NEW i \in 1..Len(Rest(r, n)) PROVE Rest(r, n)[i] = Rest(s, k)[i]
  <2>1. PICK j \in 1..Len(s) - m : j = n + i
    BY <1>1, <1>2, <1>4
  <2>2. m + j = k + i /\ i \in 1..Len(s) - k /\ i \in 1..Len(r) - n
    BY <1>1, <1>2, <1>4, <1>5, <2>1
  <2>3. Rest(r, n)[i] = r[j] /\ r[j] = s[m + j]
    BY <1>2, <1>4, <2>1, <2>2
  <2>4. Rest(s, k)[i] = s[k + i]
    BY <1>6, <2>2
  <2> QED BY <2>2, <2>3, <2>4
<1>9. Rest(r, n) = Rest(s, k)
  BY <1>4, <1>6, <1>7, <1>8, SeqEqual
<1> QED BY <1>5, <1>9 DEF r

LEMMA RestNone ==
  ASSUME NEW s \in Seq(Byte)
  PROVE  Rest(s, 0) = s /\ Rest(s, Len(s)) = <<>>
<1>1. Len(s) \in Nat /\ 0 \in 0..Len(s) /\ Len(s) \in 0..Len(s)
  <2>1. Len(s) \in Nat
    BY LenProperties
  <2> QED BY <2>1
<1>2. /\ Rest(s, 0) \in Seq(Byte) /\ Len(Rest(s, 0)) = Len(s) - 0
      /\ \A i \in 1..Len(s) - 0 : Rest(s, 0)[i] = s[0 + i]
  BY <1>1, RestType
<1>3. Rest(s, 0) = s
  <2>1. Len(Rest(s, 0)) = Len(s) /\ \A i \in 1..Len(s) : Rest(s, 0)[i] = s[i]
    BY <1>1, <1>2
  <2> QED BY <1>2, <2>1, SeqEqual
<1>4. Rest(s, Len(s)) \in Seq(Byte) /\ Len(Rest(s, Len(s))) = Len(s) - Len(s)
  BY <1>1, RestType
<1>5. Len(Rest(s, Len(s))) = 0
  BY <1>1, <1>4
<1> QED BY <1>3, <1>4, <1>5, EmptySeq

LEMMA PageAt ==
  ASSUME NEW p \in Page, NEW k \in Nat, NEW q, q = [p EXCEPT !.offset_rd = k]
  PROVE  q \in Page /\ q.offset_rd = k /\ q.data = p.data
BY DEF Page

\* What is taken from the page at the read position is taken from the content.
LEMMA TakeFrom ==
  ASSUME NEW s, Standing(s), NEW n \in 0..rd_size(s.pages[s.rd]),
         NEW t, t = State([s.pages EXCEPT ![s.rd].offset_rd = @ + n], s.rd, s.wr)
  PROVE  /\ Standing(t) /\ n \in 0..Len(Content(s)) /\ Content(t) = Rest(Content(s), n)
         /\ rd_size(t.pages[t.rd]) = rd_size(s.pages[s.rd]) - n
         /\ Len(t.pages) = Len(s.pages) /\ t.rd = s.rd /\ t.wr = s.wr
<1> DEFINE pages == s.pages
           r == s.rd
           p == pages[r]
           q == [p EXCEPT !.offset_rd = @ + n]
           new == [pages EXCEPT ![r] = q]
<1>1. /\ Sized(pages) /\ Len(pages) \in Nat /\ r \in 1..Len(pages) /\ s.wr \in r..Len(pages)
      /\ Content(s) = Flat(pages, r, s.wr) /\ pages \in Seq(Page)
      /\ \A i \in 1..Len(pages) : Settled(pages[i], i, s.wr)
  BY StandingParts DEF Sized, Standing
<1>2. /\ p \in Page /\ p.data \in Seq(Byte) /\ Len(p.data) \in 0..page_size
      /\ p.offset_rd \in 0..Len(p.data)
      /\ Unread(p) \in Seq(Byte) /\ Unread(p) = Rest(p.data, p.offset_rd)
      /\ Len(Unread(p)) = rd_size(p) /\ rd_size(p) = Len(p.data) - p.offset_rd
  <2>1. /\ p \in Page /\ Sizes(p) /\ Unread(p) \in Seq(Byte) /\ Unread(p) = Rest(p.data, p.offset_rd)
        /\ Len(Unread(p)) = rd_size(p)
    BY <1>1, SizedPage, UnreadIs
  <2>2. p.data \in Seq(Byte) /\ Len(p.data) \in Nat
    BY <2>1, LenProperties DEF Page
  <2> QED BY <2>1, <2>2, SizeAssumption DEF Sizes, Page, rd_size
<1>3. t = State(new, r, s.wr) /\ n \in 0..rd_size(p) /\ s.pages[s.rd] = p
  OBVIOUS
<1>a. s.pages = pages /\ s.rd = r
  OBVIOUS
<1> HIDE DEF p
<1>4. /\ q \in Page /\ q.offset_rd = p.offset_rd + n /\ q.data = p.data
      /\ Sizes(q) /\ rd_size(q) = rd_size(p) - n
  <2> DEFINE k == p.offset_rd + n
  <2>1. q = [p EXCEPT !.offset_rd = k] /\ k \in Nat
    BY <1>2, <1>3
  <2> HIDE DEF q, k
  <2>2. q \in Page /\ q.offset_rd = k /\ q.data = p.data
    BY <1>2, <2>1, PageAt
  <2>3. Sizes(q) /\ rd_size(q) = rd_size(p) - n
    BY <1>2, <1>3, <2>2 DEF k, Sizes, rd_size
  <2> QED BY <2>2, <2>3 DEF k
<1> HIDE DEF q
<1>5. Unread(q) = Rest(Unread(p), n) /\ Unread(q) \in Seq(Byte)
  <2>1. Unread(q) = Rest(p.data, p.offset_rd + n) /\ Unread(q) \in Seq(Byte)
    BY <1>4, UnreadIs
  <2>2. n \in 0..Len(p.data) - p.offset_rd
    BY <1>2, <1>3
  <2>3. Rest(Rest(p.data, p.offset_rd), n) = Rest(p.data, p.offset_rd + n)
    BY <1>2, <2>2, RestOfRest
  <2> QED BY <1>2, <2>1, <2>3
<1> HIDE DEF pages, r
<1>6. /\ new \in Seq(Page) /\ Len(new) = Len(pages) /\ new[r] = q
      /\ \A i \in 1..Len(pages) : i # r => new[i] = pages[i]
  BY <1>1, <1>4, ExceptSeq
<1> HIDE DEF new
<1>7. t.pages = new /\ t.rd = r /\ t.wr = s.wr /\ t \in States
  <2>1. r \in Nat /\ s.wr \in Nat
    BY <1>1
  <2> QED BY <1>3, <1>6, <2>1, StateType
<1>8. Standing(t)
  <2>1. ASSUME NEW i \in 1..Len(new) PROVE Settled(new[i], i, s.wr)
    <3>1. CASE i = r
      <4>1. s.wr \in Nat /\ i \in Nat /\ i <= s.wr
        BY <1>1, <3>1
      <4>2. Settled(p, i, s.wr)
        BY <1>1, <1>3, <1>a, <3>1
      <4> QED BY <1>4, <1>6, <3>1, <4>1, <4>2 DEF Settled
    <3>2. CASE i # r
      BY <1>1, <1>6, <3>2
    <3> QED BY <3>1, <3>2
  <2>2. 1 <= r /\ r <= s.wr /\ s.wr <= Len(new)
    BY <1>1, <1>6
  <2> QED BY <1>7, <2>1, <2>2 DEF Standing
<1> DEFINE tail == Flat(pages, r + 1, s.wr)
<1>9. tail \in Seq(Byte)
  <2>1. r + 1 \in 1..Len(pages) + 1 /\ s.wr \in r + 1 - 1..Len(pages)
    BY <1>1
  <2> QED BY <1>1, <2>1, FlatType
<1>10. Content(s) = Unread(p) \o tail
  BY <1>1, <1>3, <1>a, FlatFirst
<1>11. Content(t) = Unread(q) \o tail
  <2>1. Content(t) = Flat(new, r, s.wr) /\ Sized(new)
    BY <1>7, <1>8, StandingParts
  <2>2. Flat(new, r, s.wr) = Unread(q) \o Flat(new, r + 1, s.wr)
    BY <1>1, <1>6, <2>1, FlatFirst
  <2>3. ASSUME NEW k \in r + 1..s.wr PROVE Unread(new[k]) = Unread(pages[k])
    <3>1. k \in 1..Len(pages) /\ k # r
      BY <1>1
    <3> QED BY <1>6, <3>1
  <2>4. r + 1 \in Nat /\ s.wr \in Int
    BY <1>1
  <2>5. Flat(new, r + 1, s.wr) = tail
    BY <2>3, <2>4, FlatKeeps
  <2> QED BY <2>1, <2>2, <2>5
<1> HIDE DEF tail
<1>12. Rest(Unread(p) \o tail, n) = Rest(Unread(p), n) \o tail
  BY <1>2, <1>3, <1>9, RestOfFirst
<1>13. Len(Content(s)) = Len(Unread(p)) + Len(tail) /\ Len(tail) \in Nat
  BY <1>2, <1>9, <1>10, ConcatProperties, LenProperties
<1>14. n \in 0..Len(Content(s))
  BY <1>2, <1>3, <1>13
<1>15. rd_size(t.pages[t.rd]) = rd_size(p) - n
  BY <1>4, <1>6, <1>7
<1> QED BY <1>3, <1>a, <1>5, <1>6, <1>7, <1>8, <1>10, <1>11, <1>12, <1>14, <1>15

\* A page that is used up may be left, if it is not the last one with bytes.
LEMMA Leave ==
  ASSUME NEW s, Standing(s), rd_size(s.pages[s.rd]) = 0, s.rd < s.wr,
         NEW t, t = State(s.pages, s.rd + 1, s.wr)
  PROVE  Standing(t) /\ Content(t) = Content(s)
<1>1. /\ Sized(s.pages) /\ Len(s.pages) \in Nat /\ s.rd \in 1..Len(s.pages) /\ s.wr \in s.rd..Len(s.pages)
      /\ Content(s) = Flat(s.pages, s.rd, s.wr) /\ s.pages \in Seq(Page)
      /\ \A i \in 1..Len(s.pages) : Settled(s.pages[i], i, s.wr)
  BY StandingParts DEF Sized, Standing
<1>2. t.pages = s.pages /\ t.rd = s.rd + 1 /\ t.wr = s.wr /\ t \in States
  <2>1. s.rd + 1 \in Nat /\ s.wr \in Nat
    BY <1>1
  <2> QED BY <1>1, <2>1, StateType
<1>3. Standing(t)
  <2>1. 1 <= s.rd + 1 /\ s.rd + 1 <= s.wr /\ s.wr <= Len(s.pages)
    BY <1>1
  <2> QED BY <1>1, <1>2, <2>1 DEF Standing
<1>4. Unread(s.pages[s.rd]) = <<>>
  <2>1. Unread(s.pages[s.rd]) \in Seq(Byte) /\ Len(Unread(s.pages[s.rd])) = 0
    BY <1>1, SizedPage
  <2> QED BY <2>1, EmptySeq
<1>5. Content(t) = Flat(s.pages, s.rd + 1, s.wr) /\ Content(t) \in Seq(Byte)
  BY <1>2, <1>3, StandingParts
<1>6. Content(s) = Unread(s.pages[s.rd]) \o Flat(s.pages, s.rd + 1, s.wr)
  BY <1>1, FlatFirst
<1>7. <<>> \o Content(t) = Content(t)
  BY <1>5, ConcatEmptySeq
<1> QED BY <1>3, <1>4, <1>5, <1>6, <1>7

\* Of N bytes to take from C, some were taken, and the rest is there.
Remains(job, C, N) ==
  /\ Sound(job.s) /\ job.n <= N /\ N - job.n <= Len(C)
  /\ Content(job.s) = Rest(C, N - job.n)

\* A round that takes from the page at the read position, and stays there or
\* leaves it when it is used up.
LEMMA TakeStep ==
  ASSUME NEW C \in Seq(Byte), NEW N \in Nat, NEW job \in ToRead, Remains(job, C, N), Standing(job.s)
  PROVE  /\ job.s.rd \in 1..job.s.wr /\ job.s.wr \in 1..Len(job.s.pages) /\ Len(job.s.pages) \in Nat
         /\ Taking(job) \in 0..job.n /\ TakeRound(job, 0).n = job.n - Taking(job)
         /\ Len(TakeRound(job, 0).s.pages) = Len(job.s.pages)
         /\ TakeRound(job, 0).s.pages \in Seq(Page) /\ Sized(TakeRound(job, 0).s.pages)
         /\ Taking(job) # job.n => rd_size(TakeRound(job, 0).s.pages[job.s.rd]) = 0
         /\ Remains(TakeRound(job, job.s.rd), C, N)
         /\ rd_size(TakeRound(job, 0).s.pages[job.s.rd]) = 0 /\ job.s.rd < job.s.wr
              => Remains(TakeRound(job, job.s.rd + 1), C, N)
         /\ job.n <= Len(Content(job.s)) /\ Taking(job) # job.n => job.s.rd < job.s.wr
<1> DEFINE s == job.s
           k == Taking(job)
           new == [s.pages EXCEPT ![s.rd].offset_rd = @ + k]
           t == State(new, s.rd, s.wr)
           p == s.pages[s.rd]
<1>1. /\ Sized(s.pages) /\ Len(s.pages) \in Nat /\ s.rd \in 1..Len(s.pages) /\ s.wr \in s.rd..Len(s.pages)
      /\ Content(s) = Flat(s.pages, s.rd, s.wr)
      /\ Content(s) \in Seq(Byte) /\ Len(Content(s)) \in Nat
  BY StandingParts
<1>2. /\ job.n \in Nat /\ s = job.s /\ k = Taking(job) /\ Taking(job) = Least(job.n, rd_size(p))
      /\ job.n <= N /\ N - job.n <= Len(C) /\ Len(C) \in Nat
      /\ Content(s) = Rest(C, N - job.n)
  BY LenProperties DEF ToRead, Taking, Remains
<1>3. Len(Unread(p)) = rd_size(p) /\ rd_size(p) \in Nat
  <2>1. Len(Unread(p)) = rd_size(p) /\ Unread(p) \in Seq(Byte)
    BY <1>1, SizedPage
  <2> HIDE DEF p
  <2> QED BY <2>1, LenProperties
<1>a. p = s.pages[s.rd]
  OBVIOUS
<1>4. k \in 0..rd_size(p) /\ k \in 0..job.n /\ (k = job.n \/ k = rd_size(p))
  <2> DEFINE size == rd_size(p)
  <2>1. job.n \in Nat /\ size \in Nat /\ k = Least(job.n, size)
    BY <1>2, <1>3
  <2> HIDE DEF p, k, size
  <2>2. Least(job.n, size) \in 0..size /\ Least(job.n, size) \in 0..job.n
        /\ (Least(job.n, size) = job.n \/ Least(job.n, size) = size)
    BY <2>1 DEF Least
  <2> QED BY <2>1, <2>2 DEF size
<1>5. \A succ : TakeRound(job, succ) = [s |-> State(new, succ, s.wr), n |-> job.n - k]
  BY DEF TakeRound
<1>6. t = State(new, s.rd, s.wr) /\ p = s.pages[s.rd]
  OBVIOUS
<1> HIDE DEF k
<1>7. /\ Standing(t) /\ k \in 0..Len(Content(s)) /\ Content(t) = Rest(Content(s), k)
      /\ rd_size(t.pages[t.rd]) = rd_size(p) - k
      /\ Len(t.pages) = Len(s.pages) /\ t.rd = s.rd /\ t.wr = s.wr
  BY <1>4, <1>a, TakeFrom
<1>8. t.pages = new
  BY DEF State
<1> HIDE DEF t, new, p, s
<1>9. /\ new \in Seq(Page) /\ Len(new) = Len(s.pages) /\ rd_size(new[s.rd]) = rd_size(p) - k
      /\ Sized(new)
  BY <1>7, <1>8, StandingParts DEF Standing, States
<1>10. Content(t) = Rest(C, N - (job.n - k)) /\ N - (job.n - k) <= Len(C) /\ job.n - k <= N /\ job.n - k \in Nat
  <2>1. PICK m \in 0..Len(C) : m = N - job.n
    BY <1>2
  <2>2. Len(Content(s)) = Len(C) - m
    BY <1>2, <2>1, RestType
  <2>3. k \in 0..Len(C) - m
    BY <1>7, <2>2
  <2>4. Rest(Rest(C, m), k) = Rest(C, m + k)
    BY <2>3, RestOfRest
  <2>5. m + k = N - (job.n - k) /\ m + k <= Len(C) /\ job.n - k <= N /\ job.n - k \in Nat
    BY <1>2, <1>4, <2>1, <2>3
  <2> QED BY <1>2, <1>7, <2>1, <2>4, <2>5
<1>11. ASSUME NEW succ, NEW u, u = State(new, succ, s.wr), Sound(u), Content(u) = Content(t)
       PROVE  Remains(TakeRound(job, succ), C, N)
  BY <1>5, <1>10, <1>11 DEF Remains
<1>12. Remains(TakeRound(job, s.rd), C, N)
  BY <1>6, <1>7, <1>11 DEF Sound
<1>13. ASSUME rd_size(new[s.rd]) = 0, s.rd < s.wr
       PROVE  Remains(TakeRound(job, s.rd + 1), C, N)
  <2> DEFINE u == State(t.pages, t.rd + 1, t.wr)
  <2>1. rd_size(t.pages[t.rd]) = 0 /\ t.rd < t.wr
    BY <1>7, <1>8, <1>13
  <2>2. Standing(u) /\ Content(u) = Content(t)
    BY <1>7, <2>1, Leave
  <2>3. u = State(new, s.rd + 1, s.wr)
    BY <1>7, <1>8
  <2> HIDE DEF u
  <2> QED BY <1>11, <2>2, <2>3 DEF Sound
<1>14. ASSUME job.n <= Len(Content(s)), k # job.n PROVE s.rd < s.wr
  <2>1. ASSUME s.rd = s.wr PROVE FALSE
    <3>1. Content(s) = Unread(p)
      BY <1>1, <1>6, <2>1, FlatOne
    <3> QED BY <1>2, <1>3, <1>4, <1>14, <3>1
  <2> QED BY <1>1, <2>1
<1>15. k # job.n => rd_size(new[s.rd]) = 0
  BY <1>3, <1>4, <1>9
<1>16. /\ TakeRound(job, 0).s.pages = new /\ TakeRound(job, 0).n = job.n - k
  BY <1>5 DEF State
<1>17. s.rd \in 1..s.wr /\ s.wr \in 1..Len(s.pages)
  BY <1>1
<1> QED BY <1>1, <1>2, <1>4, <1>9, <1>12, <1>13, <1>14, <1>15, <1>16, <1>17 DEF s

\* What a round makes of a job of the right type, whatever comes next.
LEMMA TakeShape ==
  ASSUME NEW job \in ToRead, Sized(job.s.pages), job.s.rd \in 1..Len(job.s.pages), NEW succ \in Nat
  PROVE  /\ TakeRound(job, succ) \in ToRead /\ Sized(TakeRound(job, succ).s.pages)
         /\ Len(TakeRound(job, succ).s.pages) = Len(job.s.pages)
         /\ TakeRound(job, succ).s.rd = succ /\ TakeRound(job, succ).s.wr = job.s.wr
<1> DEFINE s == job.s
           k == Taking(job)
           p == s.pages[s.rd]
           q == [p EXCEPT !.offset_rd = @ + k]
           new == [s.pages EXCEPT ![s.rd] = q]
<1>1. /\ s.pages \in Seq(Page) /\ s.rd \in 1..Len(s.pages) /\ s.wr \in Nat /\ job.n \in Nat
      /\ Sized(s.pages)
  BY DEF ToRead, States
<1>2. p \in Page /\ Sizes(p) /\ Len(Unread(p)) = rd_size(p) /\ Unread(p) \in Seq(Byte)
  BY <1>1, SizedPage
<1>3. TakeRound(job, succ) = [s |-> State(new, succ, s.wr), n |-> job.n - k] /\ k = Least(job.n, rd_size(p))
  BY DEF TakeRound, Taking
<1> HIDE DEF p, k
<1>4. rd_size(p) \in Nat /\ p.offset_rd \in Nat /\ Len(p.data) \in Nat /\ Len(p.data) <= page_size
      /\ p.offset_rd <= Len(p.data)
  BY <1>2, LenProperties DEF Page, Sizes
<1>5. k \in 0..rd_size(p) /\ k \in 0..job.n
  BY <1>1, <1>3, <1>4, LeastIs
<1>6. q \in Page /\ Sizes(q)
  <2> DEFINE m == p.offset_rd + k
  <2>1. q = [p EXCEPT !.offset_rd = m] /\ m \in Nat
    BY <1>4, <1>5
  <2> HIDE DEF q, m
  <2>2. q \in Page /\ q.offset_rd = m /\ q.data = p.data
    BY <1>2, <2>1, PageAt
  <2> QED BY <1>4, <1>5, <2>2 DEF m, Sizes, rd_size
<1> HIDE DEF q, s
<1>7. /\ new \in Seq(Page) /\ Len(new) = Len(s.pages)
      /\ \A i \in 1..Len(s.pages) : new[i] = IF i = s.rd THEN q ELSE s.pages[i]
  BY <1>1, <1>6, ExceptSeq
<1> HIDE DEF new
<1>8. Sized(new)
  <2>1. ASSUME NEW i \in 1..Len(new) PROVE Sizes(new[i])
    BY <1>1, <1>6, <1>7 DEF Sized
  <2> QED BY <1>7, <2>1 DEF Sized
<1> DEFINE u == State(new, succ, s.wr)
<1>9. u.pages = new /\ u.rd = succ /\ u.wr = s.wr /\ u \in States
  BY <1>1, <1>7, StateType
<1> HIDE DEF u
<1>10. job.n - k \in Nat
  BY <1>1, <1>5
<1>11. TakeRound(job, succ) \in ToRead /\ TakeRound(job, succ).s = u
  BY <1>3, <1>9, <1>10 DEF ToRead, u
<1> QED BY <1>7, <1>8, <1>9, <1>11 DEF s

ReadTogo(job) == IF job.n = 0 THEN 0 ELSE Len(job.s.pages) - job.s.rd + 1

\* read() while it has bytes to take, and there are enough.
Reading(job, C, N) == Remains(job, C, N) /\ N <= Len(C)

LEMMA ReadingParts ==
  ASSUME NEW C \in Seq(Byte), NEW N \in Nat, NEW job \in ToRead, Reading(job, C, N)
  PROVE  /\ job.n \in Nat /\ job.n <= Len(Content(job.s))
         /\ job.n # 0 => Standing(job.s)
         /\ ReadTogo(job) \in Nat /\ (job.n # 0 => ReadTogo(job) # 0)
<1>1. /\ job.n \in Nat /\ job.n <= N /\ N - job.n <= Len(C) /\ Len(C) \in Nat /\ N <= Len(C)
      /\ Content(job.s) = Rest(C, N - job.n) /\ Sound(job.s)
  BY LenProperties DEF ToRead, Reading, Remains
<1>2. job.n <= Len(Content(job.s))
  <2>1. PICK m \in 0..Len(C) : m = N - job.n
    BY <1>1
  <2>2. Len(Content(job.s)) = Len(C) - m
    BY <1>1, <2>1, RestType
  <2> QED BY <1>1, <2>1, <2>2
<1>3. ASSUME job.n # 0 PROVE Standing(job.s)
  <2>1. ASSUME job.s = Bare PROVE FALSE
    <3>1. Len(Content(job.s)) = 0
      BY <2>1, BareParts, EmptySeq
    <3> QED BY <1>1, <1>2, <1>3, <3>1
  <2> QED BY <1>1, <2>1 DEF Sound
<1>4. ASSUME job.n # 0 PROVE ReadTogo(job) \in Nat \ {0}
  <2>1. job.s.rd \in 1..Len(job.s.pages) /\ Len(job.s.pages) \in Nat
    BY <1>3, <1>4, StandingParts
  <2> QED BY <1>4, <2>1 DEF ReadTogo
<1>5. job.n = 0 => ReadTogo(job) = 0
  BY DEF ReadTogo
<1> QED BY <1>1, <1>2, <1>3, <1>4, <1>5

LEMMA ReadStep ==
  ASSUME NEW C \in Seq(Byte), NEW N \in Nat, NEW job \in ToRead, Reading(job, C, N)
  PROVE  /\ ReadRound[job] \in ToRead /\ Reading(ReadRound[job], C, N)
         /\ job.n = 0 => ReadRound[job] = job
         /\ job.n # 0 => ReadTogo(ReadRound[job]) < ReadTogo(job)
<1> DEFINE succ == IF job.n = Taking(job) THEN job.s.rd ELSE Next_(job.s.pages, job.s.rd)
           then == TakeRound(job, succ)
<1>1. job.n = 0 => ReadRound[job] = job
  BY DEF ReadRound
<1>2. CASE job.n = 0
  BY <1>1, <1>2
<1>3. CASE job.n # 0
  <2>1. ReadRound[job] = then
    BY <1>3 DEF ReadRound
  <2>2. Standing(job.s) /\ Remains(job, C, N) /\ job.n <= Len(Content(job.s)) /\ job.n \in Nat /\ N <= Len(C)
    BY <1>3, ReadingParts DEF Reading
  <2>3. /\ job.s.rd \in 1..job.s.wr /\ job.s.wr \in 1..Len(job.s.pages) /\ Len(job.s.pages) \in Nat
        /\ Taking(job) \in 0..job.n /\ TakeRound(job, 0).n = job.n - Taking(job)
        /\ Taking(job) # job.n => rd_size(TakeRound(job, 0).s.pages[job.s.rd]) = 0
        /\ Remains(TakeRound(job, job.s.rd), C, N)
        /\ rd_size(TakeRound(job, 0).s.pages[job.s.rd]) = 0 /\ job.s.rd < job.s.wr
             => Remains(TakeRound(job, job.s.rd + 1), C, N)
        /\ Taking(job) # job.n => job.s.rd < job.s.wr
    BY <2>2, TakeStep
  <2>4. then.n = job.n - Taking(job)
    BY <2>3 DEF TakeRound
  <2>5. Sized(job.s.pages) /\ job.s.rd \in 1..Len(job.s.pages)
    BY <2>2, StandingParts
  <2>6. CASE job.n = Taking(job)
    <3>1. succ = job.s.rd /\ succ \in Nat /\ then.n = 0
      BY <2>2, <2>3, <2>4, <2>6
    <3> HIDE DEF succ
    <3>2. then \in ToRead
      BY <2>5, <3>1, TakeShape
    <3>3. Remains(then, C, N)
      BY <2>3, <3>1
    <3> HIDE DEF then
    <3>4. ReadTogo(then) = 0
      BY <3>1 DEF ReadTogo
    <3>5. ReadTogo(job) \in Nat /\ ReadTogo(job) # 0
      BY <1>3, ReadingParts
    <3> QED BY <1>3, <2>1, <2>2, <3>2, <3>3, <3>4, <3>5 DEF Reading
  <2>7. CASE job.n # Taking(job)
    <3>1. succ = job.s.rd + 1 /\ succ \in Nat /\ job.s.rd < job.s.wr
      BY <2>3, <2>7 DEF Next_
    <3> HIDE DEF succ
    <3>2. then \in ToRead /\ Len(then.s.pages) = Len(job.s.pages) /\ then.s.rd = succ
      BY <2>5, <3>1, TakeShape
    <3>3. Remains(then, C, N)
      BY <2>3, <2>7, <3>1
    <3> HIDE DEF then
    <3>4. then.n # 0
      BY <2>2, <2>3, <2>4, <2>7
    <3>5. ReadTogo(then) = Len(job.s.pages) - succ + 1 /\ ReadTogo(job) = Len(job.s.pages) - job.s.rd + 1
      BY <1>3, <3>2, <3>4 DEF ReadTogo
    <3>6. ReadTogo(then) < ReadTogo(job)
      BY <2>3, <3>1, <3>5
    <3> QED BY <1>3, <2>1, <2>2, <3>2, <3>3, <3>6 DEF Reading
  <2> QED BY <2>6, <2>7
<1> QED BY <1>2, <1>3

\* read() takes the first bytes.
LEMMA ConsumedIs ==
  ASSUME NEW s, Sound(s), NEW N \in 0..Len(Content(s))
  PROVE  /\ Sound(Consumed(s, N)) /\ Content(Consumed(s, N)) = Rest(Content(s), N)
         /\ ReadEnd(s, N).n = 0
<1> DEFINE C == Content(s)
           J == {job \in ToRead : Reading(job, C, N)}
           far == [job \in J |-> ReadTogo(job)]
           x == [s |-> s, n |-> N]
           n == Len(s.pages)
           end == After(ReadRound, x, n)
<1>1. s \in States /\ n \in Nat /\ C \in Seq(Byte) /\ Len(C) \in Nat /\ N \in Nat
  <2>1. s \in States /\ Content(s) \in Seq(Byte) /\ Len(Content(s)) \in Nat
    BY SoundParts
  <2>2. s.pages \in Seq(Page)
    BY <2>1 DEF States
  <2> QED BY <2>1, <2>2, LenProperties
<1>2. x \in J
  <2>1. Rest(C, N - N) = C
    <3>1. N - N = 0
      BY <1>1
    <3> QED BY <1>1, <3>1, RestNone
  <2>2. x.s = s /\ x.n = N /\ x \in ToRead /\ N - N <= Len(C)
    BY <1>1 DEF ToRead
  <2> HIDE DEF x
  <2> QED BY <1>1, <2>1, <2>2 DEF Reading, Remains
<1> HIDE DEF C
<1>3. far \in [J -> Nat]
  BY <1>1, ReadingParts
<1>4. far[x] <= n
  <2>1. CASE N = 0
    BY <1>1, <1>2, <2>1 DEF ReadTogo
  <2>2. CASE N # 0
    <3>1. Standing(s)
      BY <1>1, <1>2, <2>2, ReadingParts
    <3>2. s.rd \in 1..Len(s.pages) /\ Len(s.pages) \in Nat
      BY <3>1, StandingParts
    <3>3. far[x] = Len(s.pages) - s.rd + 1
      BY <1>2, <2>2 DEF ReadTogo
    <3> QED BY <3>2, <3>3
  <2> QED BY <2>1, <2>2
<1>5. ASSUME NEW job \in J PROVE ReadRound[job] \in J
  BY <1>1, ReadStep
<1>6. ASSUME NEW job \in J, far[job] = 0 PROVE far[ReadRound[job]] = 0
  <2>1. job.n = 0
    BY <1>1, <1>6, ReadingParts
  <2> QED BY <1>1, <1>6, <2>1, ReadStep
<1>7. ASSUME NEW job \in J, far[job] # 0 PROVE far[ReadRound[job]] < far[job]
  <2>1. job.n # 0
    BY <1>7 DEF ReadTogo
  <2>2. ReadTogo(ReadRound[job]) < ReadTogo(job)
    BY <1>1, <2>1, ReadStep
  <2> QED BY <1>5, <2>2
<1> HIDE DEF J, far, x, n
<1>8. end \in J /\ far[end] = 0
  <2>1. n \in Nat
    BY <1>1
  <2> QED BY <2>1, <1>2, <1>3, <1>4, <1>5, <1>6, <1>7, AfterEnds
<1> HIDE DEF end
<1>9. end \in ToRead /\ Reading(end, C, N) /\ ReadTogo(end) = 0
  BY <1>8 DEF J, far
<1>10. end.n = 0
  BY <1>1, <1>9, ReadingParts
<1>11. Sound(end.s) /\ Content(end.s) = Rest(C, N - 0)
  BY <1>9, <1>10 DEF Reading, Remains
<1>12. N - 0 = N
  BY <1>1
<1>13. Consumed(s, N) = end.s /\ ReadEnd(s, N) = end
  BY DEF Consumed, ReadEnd, end, x, n
<1> QED BY <1>10, <1>11, <1>12, <1>13 DEF C

\* rd_position() that goes past the write position, or leaves a page in which
\* something is left.
Gone(job) ==
  \/ job.s.rd = 0 \/ job.s.rd > job.s.wr
  \/ job.n = 0 /\ job.s.rd > 1 /\ rd_size(job.s.pages[job.s.rd - 1]) # 0

Skipping(job, C, N) ==
  /\ Sized(job.s.pages) /\ job.s.rd \in 0..Len(job.s.pages)
  /\ Remains(job, C, N) \/ Gone(job)

SkipTogo(job) ==
  IF job.n = 0 \/ job.s.rd = 0 THEN 0 ELSE Len(job.s.pages) - job.s.rd + 1

LEMMA SkipStep ==
  ASSUME NEW C \in Seq(Byte), NEW N \in Nat, NEW job \in ToRead, Skipping(job, C, N)
  PROVE  /\ SkipRound[job] \in ToRead /\ Skipping(SkipRound[job], C, N)
         /\ SkipTogo(job) \in Nat
         /\ SkipTogo(job) = 0 => SkipRound[job] = job /\ (job.n = 0 \/ job.s.rd = 0)
         /\ SkipTogo(job) # 0 => SkipTogo(SkipRound[job]) < SkipTogo(job)
<1>1. /\ job.n \in Nat /\ job.s.wr \in Nat /\ Sized(job.s.pages) /\ job.s.rd \in 0..Len(job.s.pages)
      /\ Len(job.s.pages) \in Nat
  <2>1. job.n \in Nat /\ job.s \in States
    BY DEF ToRead
  <2> QED BY <2>1, LenProperties DEF States, Skipping
<1>2. CASE job.n = 0 \/ job.s.rd = 0
  BY <1>2 DEF SkipRound, SkipTogo
<1>3. CASE job.n # 0 /\ job.s.rd # 0
  <2> DEFINE succ == Next_(job.s.pages, job.s.rd)
             then == TakeRound(job, succ)
  <2>1. SkipRound[job] = then
    BY <1>3 DEF SkipRound
  <2>2. /\ job.s.rd \in 1..Len(job.s.pages) /\ succ \in 0..Len(job.s.pages)
        /\ succ = 0 \/ (succ = job.s.rd + 1 /\ job.s.rd < Len(job.s.pages))
    BY <1>1, <1>3 DEF Next_
  <2>a. then = [s |-> State(TakeRound(job, 0).s.pages, succ, job.s.wr), n |-> TakeRound(job, 0).n]
    BY DEF TakeRound, State
  <2>b. then.s.pages = TakeRound(job, 0).s.pages
    BY DEF TakeRound, State
  <2> HIDE DEF succ
  <2>3. /\ then \in ToRead /\ Sized(then.s.pages) /\ Len(then.s.pages) = Len(job.s.pages)
        /\ then.s.rd = succ /\ then.s.wr = job.s.wr
    <3>1. succ \in Nat
      BY <1>1, <2>2
    <3> QED BY <1>1, <2>2, <3>1, TakeShape
  <2>4. then.n = TakeRound(job, 0).n
    BY DEF TakeRound
  <2>5. Remains(then, C, N) \/ Gone(then)
    <3>1. CASE succ = 0
      BY <2>3, <3>1 DEF Gone
    <3>2. CASE succ # 0 /\ (succ > job.s.wr)
      <4> HIDE DEF then
      <4> QED BY <2>3, <3>2 DEF Gone
    <3>3. CASE succ # 0 /\ ~(succ > job.s.wr)
      <4>1. succ = job.s.rd + 1 /\ job.s.rd < job.s.wr
        BY <1>1, <2>2, <3>3
      <4>2. ~Gone(job)
        BY <1>1, <1>3, <4>1 DEF Gone
      <4>3. Remains(job, C, N) /\ Standing(job.s)
        <5>1. Remains(job, C, N)
          BY <4>2 DEF Skipping
        <5> QED BY <1>3, <5>1, BareParts DEF Remains, Sound
      <4>4. /\ Taking(job) \in 0..job.n /\ TakeRound(job, 0).n = job.n - Taking(job)
            /\ Taking(job) # job.n => rd_size(TakeRound(job, 0).s.pages[job.s.rd]) = 0
            /\ rd_size(TakeRound(job, 0).s.pages[job.s.rd]) = 0 /\ job.s.rd < job.s.wr
                 => Remains(TakeRound(job, job.s.rd + 1), C, N)
        BY <4>3, TakeStep
      <4>5. CASE rd_size(TakeRound(job, 0).s.pages[job.s.rd]) = 0
        <5>1. Remains(TakeRound(job, job.s.rd + 1), C, N)
          BY <4>1, <4>4, <4>5
        <5> QED BY <4>1, <5>1
      <4>6. CASE rd_size(TakeRound(job, 0).s.pages[job.s.rd]) # 0
        <5>1. then.n = 0
          BY <1>1, <2>4, <4>4, <4>6
        <5>2. rd_size(then.s.pages[job.s.rd]) # 0
          BY <2>b, <4>6
        <5>3. succ - 1 = job.s.rd /\ succ > 1
          BY <1>1, <2>2, <4>1
        <5> HIDE DEF then
        <5> QED BY <2>3, <5>1, <5>2, <5>3 DEF Gone
      <4> QED BY <4>5, <4>6
    <3> QED BY <3>1, <3>2, <3>3
  <2> HIDE DEF then
  <2>6. Skipping(then, C, N)
    BY <2>2, <2>3, <2>5 DEF Skipping
  <2>7. SkipTogo(job) = Len(job.s.pages) - job.s.rd + 1
    BY <1>3 DEF SkipTogo
  <2>8. SkipTogo(job) \in Nat /\ SkipTogo(job) # 0
    <3>1. Len(job.s.pages) \in Nat /\ job.s.rd \in 1..Len(job.s.pages)
      BY <1>1, <2>2
    <3>2. Len(job.s.pages) - job.s.rd + 1 \in Nat /\ Len(job.s.pages) - job.s.rd + 1 # 0
      BY <3>1
    <3> QED BY <2>7, <3>2
  <2>9. SkipTogo(then) < SkipTogo(job)
    <3>1. CASE SkipTogo(then) = 0
      BY <2>8, <3>1
    <3>2. CASE SkipTogo(then) # 0
      <4>1. SkipTogo(then) = Len(job.s.pages) - succ + 1 /\ succ # 0
        BY <2>3, <3>2 DEF SkipTogo
      <4> QED BY <1>1, <2>2, <2>7, <4>1
    <3> QED BY <3>1, <3>2
  <2> QED BY <2>1, <2>3, <2>6, <2>8, <2>9
<1> QED BY <1>2, <1>3

\* rd_position() takes the first bytes, in the programs that end it well.
LEMMA SkippedIs ==
  ASSUME NEW s, Sound(s), NEW N \in Nat
  PROVE  LET t == Skipped(s, N)
         IN  t.rd \in 2..t.wr /\ rd_size(t.pages[t.rd - 1]) = 0
               => Sound(t) /\ N <= Len(Content(s)) /\ Content(t) = Rest(Content(s), N)
<1> DEFINE C == Content(s)
           J == {job \in ToRead : Skipping(job, C, N)}
           far == [job \in J |-> SkipTogo(job)]
           x == [s |-> s, n |-> N]
           n == Len(s.pages)
           end == After(SkipRound, x, n)
<1>1. s \in States /\ n \in Nat /\ C \in Seq(Byte) /\ Len(C) \in Nat
  <2>1. s \in States /\ Content(s) \in Seq(Byte) /\ Len(Content(s)) \in Nat
    BY SoundParts
  <2>2. s.pages \in Seq(Page)
    BY <2>1 DEF States
  <2> QED BY <2>1, <2>2, LenProperties
<1>2. x \in J /\ x.s = s
  <2>1. Rest(C, N - N) = C
    <3>1. N - N = 0
      OBVIOUS
    <3> QED BY <1>1, <3>1, RestNone
  <2>2. x.s = s /\ x.n = N /\ x \in ToRead /\ N - N <= Len(C)
    BY <1>1 DEF ToRead
  <2>3. Remains(x, C, N)
    <3> HIDE DEF x
    <3> QED BY <1>1, <2>1, <2>2 DEF Remains
  <2>4. Sized(s.pages) /\ s.rd \in 0..Len(s.pages)
    <3>1. CASE s = Bare
      <4>1. Len(s.pages) = 0 /\ s.pages \in Seq(Page) /\ s.rd = 0
        BY <3>1, BareParts, EmptySeq
      <4> QED BY <4>1 DEF Sized
    <3>2. CASE Standing(s)
      BY <3>2, StandingParts
    <3> QED BY <3>1, <3>2 DEF Sound
  <2> HIDE DEF x
  <2> QED BY <2>2, <2>3, <2>4 DEF Skipping
<1> HIDE DEF C
<1>3. far \in [J -> Nat]
  BY <1>1, SkipStep
<1>4. far[x] <= n
  <2>1. CASE N = 0 \/ s.rd = 0
    BY <1>1, <1>2, <2>1 DEF SkipTogo
  <2>2. CASE N # 0 /\ s.rd # 0
    <3>1. Standing(s)
      BY <2>2, BareParts DEF Sound
    <3>2. s.rd \in 1..Len(s.pages) /\ Len(s.pages) \in Nat
      BY <3>1, StandingParts
    <3>3. far[x] = Len(s.pages) - s.rd + 1
      BY <1>2, <2>2 DEF SkipTogo
    <3> QED BY <3>2, <3>3
  <2> QED BY <2>1, <2>2
<1>5. ASSUME NEW job \in J PROVE SkipRound[job] \in J
  BY <1>1, SkipStep
<1>6. ASSUME NEW job \in J, far[job] = 0 PROVE far[SkipRound[job]] = 0
  BY <1>1, <1>6, SkipStep
<1>7. ASSUME NEW job \in J, far[job] # 0 PROVE far[SkipRound[job]] < far[job]
  <2>1. SkipTogo(SkipRound[job]) < SkipTogo(job)
    BY <1>1, <1>7, SkipStep
  <2> QED BY <1>5, <2>1
<1> HIDE DEF J, far, x, n
<1>8. end \in J /\ far[end] = 0
  <2>1. n \in Nat /\ x \in J
    BY <1>1, <1>2
  <2> QED BY <2>1, <1>3, <1>4, <1>5, <1>6, <1>7, AfterEnds
<1> DEFINE t == end.s
<1>9. Skipped(s, N) = t
  BY DEF Skipped, x, n
<1> HIDE DEF end
<1> SUFFICES ASSUME t.rd \in 2..t.wr, rd_size(t.pages[t.rd - 1]) = 0
             PROVE  Sound(t) /\ N <= Len(C) /\ Content(t) = Rest(C, N)
  BY <1>9 DEF C
<1>10. end \in ToRead /\ Skipping(end, C, N) /\ SkipTogo(end) = 0
  BY <1>8 DEF J, far
<1>a. t.rd # 0 /\ ~(t.rd > t.wr)
  <2>1. t.wr \in Nat
    BY <1>10 DEF ToRead, States
  <2> QED BY <2>1
<1>11. end.n = 0
  BY <1>1, <1>10, <1>a, SkipStep
<1>12. Remains(end, C, N)
  BY <1>10, <1>a DEF Skipping, Gone
<1>13. Sound(t) /\ N - 0 <= Len(C) /\ Content(t) = Rest(C, N - 0)
  BY <1>11, <1>12 DEF Remains
<1>14. N - 0 = N
  OBVIOUS
<1> QED BY <1>13, <1>14

-----------------------------------------------------------------------------
(* Lines *)

\* Where a line ends, or 0.
DelimAt(seq) == SelectInSeq(seq, LAMBDA b : b = Delim)

LEMMA DelimIs ==
  ASSUME NEW seq \in Seq(Byte)
  PROVE  /\ DelimAt(seq) \in 0..Len(seq)
         /\ DelimAt(seq) = 0 => \A i \in 1..Len(seq) : seq[i] # Delim
         /\ DelimAt(seq) # 0 => /\ seq[DelimAt(seq)] = Delim
                                /\ \A i \in 1..DelimAt(seq) - 1 : seq[i] # Delim
<1> DEFINE Hits == {i \in 1..Len(seq) : seq[i] = Delim}
<1>1. Len(seq) \in Nat
  BY LenProperties
<1>2. DelimAt(seq) = IF Hits # {} THEN Min(Hits) ELSE 0
  BY DEF DelimAt, SelectInSeq
<1>3. CASE Hits = {}
  BY <1>1, <1>2, <1>3
<1>4. CASE Hits # {}
  <2>1. Hits \subseteq Nat
    OBVIOUS
  <2>2. \E n \in Hits : \A m \in Hits : n <= m
    <3> HIDE DEF Hits
    <3> QED BY <1>4, <2>1, LeastNumber
  <2>3. Min(Hits) \in Hits /\ \A m \in Hits : Min(Hits) <= m
    <3> HIDE DEF Hits
    <3> QED BY <2>2 DEF Min
  <2>4. PICK e \in 1..Len(seq) : e = Min(Hits) /\ seq[e] = Delim /\ \A m \in Hits : e <= m
    BY <2>3
  <2>5. ASSUME NEW i \in 1..e - 1 PROVE seq[i] # Delim
    <3>1. i \in 1..Len(seq) /\ ~(e <= i)
      BY <1>1
    <3> QED BY <2>4, <3>1
  <2> QED BY <1>1, <1>2, <1>4, <2>4, <2>5
<1> QED BY <1>3, <1>4

LEMMA DelimThere ==
  ASSUME NEW seq \in Seq(Byte), NEW e \in 1..Len(seq), seq[e] = Delim,
         \A i \in 1..e - 1 : seq[i] # Delim
  PROVE  DelimAt(seq) = e
<1>1. Len(seq) \in Nat
  BY LenProperties
<1>2. PICK d \in 0..Len(seq) : d = DelimAt(seq)
  BY DelimIs
<1>3. d # 0 /\ seq[d] = Delim /\ \A i \in 1..d - 1 : seq[i] # Delim
  BY <1>2, DelimIs
<1>4. ~(d < e)
  <2>1. d < e => d \in 1..e - 1
    BY <1>1, <1>3
  <2> QED BY <1>3, <2>1
<1>5. ~(e < d)
  <2>1. e < d => e \in 1..d - 1
    BY <1>1
  <2> QED BY <1>3, <2>1
<1> QED BY <1>1, <1>2, <1>4, <1>5

LEMMA DelimJoin ==
  ASSUME NEW s \in Seq(Byte), NEW t \in Seq(Byte)
  PROVE  DelimAt(s \o t) = IF DelimAt(s) # 0 THEN DelimAt(s)
                           ELSE IF DelimAt(t) = 0 THEN 0 ELSE Len(s) + DelimAt(t)
<1> DEFINE c == s \o t
<1>1. Len(s) \in Nat /\ Len(t) \in Nat
  BY LenProperties
<1>2. /\ c \in Seq(Byte) /\ Len(c) = Len(s) + Len(t)
      /\ \A i \in 1..Len(s) + Len(t) : c[i] = IF i <= Len(s) THEN s[i] ELSE t[i - Len(s)]
  BY ConcatProperties
<1> HIDE DEF c
<1>3. CASE DelimAt(s) # 0
  <2>1. PICK e \in 1..Len(s) : e = DelimAt(s) /\ s[e] = Delim /\ \A i \in 1..e - 1 : s[i] # Delim
    BY <1>1, <1>3, DelimIs
  <2>2. e \in 1..Len(c) /\ c[e] = Delim
    BY <1>1, <1>2, <2>1
  <2>3. \A i \in 1..e - 1 : c[i] # Delim
    <3> TAKE i \in 1..e - 1
    <3>1. i \in 1..Len(s) + Len(t) /\ i <= Len(s)
      BY <1>1
    <3> QED BY <1>2, <2>1, <3>1
  <2>4. DelimAt(c) = e
    BY <1>2, <2>2, <2>3, DelimThere
  <2> QED BY <1>3, <2>1, <2>4 DEF c
<1>4. CASE DelimAt(s) = 0 /\ DelimAt(t) # 0
  <2>1. PICK e \in 1..Len(t) : e = DelimAt(t) /\ t[e] = Delim /\ \A i \in 1..e - 1 : t[i] # Delim
    BY <1>1, <1>4, DelimIs
  <2>2. \A i \in 1..Len(s) : s[i] # Delim
    BY <1>4, DelimIs
  <2>3. PICK d \in 1..Len(s) + Len(t) : d = Len(s) + e
    BY <1>1
  <2>4. d \in 1..Len(c) /\ c[d] = Delim
    <3>1. ~(d <= Len(s)) /\ d - Len(s) = e
      BY <1>1, <2>3
    <3> QED BY <1>2, <2>1, <3>1
  <2>5. \A i \in 1..d - 1 : c[i] # Delim
    <3> TAKE i \in 1..d - 1
    <3>1. i \in 1..Len(s) + Len(t)
      BY <1>1
    <3>2. CASE i <= Len(s)
      BY <1>1, <1>2, <2>2, <3>1, <3>2
    <3>3. CASE ~(i <= Len(s))
      <4>1. PICK k \in 1..e - 1 : k = i - Len(s)
        BY <1>1, <2>3, <3>3
      <4> QED BY <1>2, <2>1, <3>1, <3>3, <4>1
    <3> QED BY <3>2, <3>3
  <2>6. DelimAt(c) = d
    BY <1>2, <2>4, <2>5, DelimThere
  <2> QED BY <1>4, <2>1, <2>3, <2>6 DEF c
<1>5. CASE DelimAt(s) = 0 /\ DelimAt(t) = 0
  <2>1. /\ \A i \in 1..Len(s) : s[i] # Delim
        /\ \A i \in 1..Len(t) : t[i] # Delim
    BY <1>5, DelimIs
  <2>2. ASSUME NEW i \in 1..Len(c) PROVE c[i] # Delim
    <3>1. i \in 1..Len(s) + Len(t)
      BY <1>1, <1>2
    <3>2. CASE i <= Len(s)
      BY <1>1, <1>2, <2>1, <3>1, <3>2
    <3>3. CASE ~(i <= Len(s))
      <4>0. i - Len(s) \in 1..Len(t)
        BY <1>1, <3>1, <3>3
      <4>1. PICK k \in 1..Len(t) : k = i - Len(s)
        BY <4>0
      <4> QED BY <1>2, <2>1, <3>1, <3>3, <4>1
    <3> QED BY <3>2, <3>3
  <2>3. PICK d \in 0..Len(c) : d = DelimAt(c) /\ (d # 0 => c[d] = Delim)
    BY <1>2, DelimIs
  <2>4. d = 0
    BY <1>1, <1>2, <2>2, <2>3
  <2> QED BY <1>5, <2>3, <2>4 DEF c
<1> QED BY <1>3, <1>4, <1>5

\* The beginning of the first sequence, or the first and some of the second.
LEMMA TakeOfFirst ==
  ASSUME NEW s \in Seq(Byte), NEW t \in Seq(Byte), NEW n \in 0..Len(s)
  PROVE  SubSeq(s \o t, 1, n) = SubSeq(s, 1, n)
<1> DEFINE c == s \o t
<1>1. Len(s) \in Nat /\ Len(t) \in Nat
  BY LenProperties
<1>2. /\ c \in Seq(Byte) /\ Len(c) = Len(s) + Len(t)
      /\ \A i \in 1..Len(s) + Len(t) : c[i] = IF i <= Len(s) THEN s[i] ELSE t[i - Len(s)]
  BY ConcatProperties
<1> HIDE DEF c
<1>3. n \in 0..Len(c)
  BY <1>1, <1>2
<1> DEFINE a == SubSeq(c, 1, n)
           b == SubSeq(s, 1, n)
<1>4. a \in Seq(Byte) /\ Len(a) = n /\ \A i \in 1..n : a[i] = c[i]
  BY <1>2, <1>3, TakeType
<1>5. b \in Seq(Byte) /\ Len(b) = n /\ \A i \in 1..n : b[i] = s[i]
  BY TakeType
<1> HIDE DEF a, b
<1>6. ASSUME NEW i \in 1..n PROVE c[i] = s[i]
  <2>1. i \in 1..Len(s) + Len(t) /\ i <= Len(s)
    BY <1>1
  <2> QED BY <1>2, <2>1
<1>7. a = b
  <2>1. \A i \in 1..Len(a) : a[i] = b[i]
    BY <1>4, <1>5, <1>6
  <2> QED BY <1>4, <1>5, <2>1, SeqEqual
<1> QED BY <1>7 DEF a, b, c

LEMMA TakeOfSecond ==
  ASSUME NEW s \in Seq(Byte), NEW t \in Seq(Byte), NEW n \in 0..Len(t)
  PROVE  SubSeq(s \o t, 1, Len(s) + n) = s \o SubSeq(t, 1, n)
<1> DEFINE c == s \o t
           b == SubSeq(t, 1, n)
           e == s \o b
<1>1. Len(s) \in Nat /\ Len(t) \in Nat
  BY LenProperties
<1>2. /\ c \in Seq(Byte) /\ Len(c) = Len(s) + Len(t)
      /\ \A i \in 1..Len(s) + Len(t) : c[i] = IF i <= Len(s) THEN s[i] ELSE t[i - Len(s)]
  BY ConcatProperties
<1>3. b \in Seq(Byte) /\ Len(b) = n /\ \A i \in 1..n : b[i] = t[i]
  BY TakeType
<1> HIDE DEF b, c
<1>4. /\ e \in Seq(Byte) /\ Len(e) = Len(s) + Len(b)
      /\ \A i \in 1..Len(s) + Len(b) : e[i] = IF i <= Len(s) THEN s[i] ELSE b[i - Len(s)]
  BY <1>3, ConcatProperties
<1>5. PICK m \in 0..Len(c) : m = Len(s) + n
  BY <1>1, <1>2
<1> DEFINE a == SubSeq(c, 1, m)
<1>6. a \in Seq(Byte) /\ Len(a) = m /\ \A i \in 1..m : a[i] = c[i]
  BY <1>2, TakeType
<1> HIDE DEF a, e
<1>7. ASSUME NEW i \in 1..m PROVE c[i] = e[i]
  <2>1. i \in 1..Len(s) + Len(t) /\ i \in 1..Len(s) + Len(b)
    BY <1>1, <1>3, <1>5
  <2>2. CASE i <= Len(s)
    BY <1>2, <1>4, <2>1, <2>2
  <2>3. CASE ~(i <= Len(s))
    <3>1. PICK k \in 1..n : k = i - Len(s)
      BY <1>1, <1>5, <2>3
    <3>2. c[i] = t[k] /\ e[i] = b[k]
      BY <1>2, <1>4, <2>1, <2>3, <3>1
    <3> QED BY <1>3, <3>2
  <2> QED BY <2>2, <2>3
<1>8. a = e
  <2>1. Len(a) = Len(e) /\ \A i \in 1..Len(a) : a[i] = e[i]
    BY <1>3, <1>4, <1>5, <1>6, <1>7
  <2> QED BY <1>4, <1>6, <2>1, SeqEqual
<1> QED BY <1>5, <1>8 DEF a, b, c, e

\* No page has the end of a line: the pages together do not.
LEMMA NoDelim ==
  ASSUME NEW pages, Sized(pages), NEW i \in 1..Len(pages), NEW j \in i - 1..Len(pages),
         \A k \in i..j : DelimAt(Unread(pages[k])) = 0
  PROVE  DelimAt(Flat(pages, i, j)) = 0
<1>1. i \in Nat /\ i - 1 \in Nat /\ Len(pages) \in Nat
  BY LenProperties DEF Sized
<1>a. DelimAt(<<>>) = 0
  <2>1. <<>> \in Seq(Byte) /\ Len(<<>>) = 0
    BY EmptySeq
  <2>2. DelimAt(<<>>) \in 0..Len(<<>>)
    BY <2>1, DelimIs
  <2> QED BY <2>1, <2>2
<1> DEFINE T == {d \in Nat : i - 1 + d <= j => DelimAt(Flat(pages, i, i - 1 + d)) = 0}
<1>2. 0 \in T
  <2>1. Flat(pages, i, i - 1 + 0) = <<>>
    BY <1>1, FlatNone
  <2> QED BY <1>a, <2>1
<1>3. ASSUME NEW d \in Nat, d \in T PROVE d + 1 \in T
  <2> SUFFICES ASSUME i - 1 + (d + 1) <= j
               PROVE  DelimAt(Flat(pages, i, i - 1 + (d + 1))) = 0
    OBVIOUS
  <2>1. PICK m \in i..j : m = i - 1 + (d + 1)
    BY <1>1
  <2>2. /\ m - 1 = i - 1 + d /\ i - 1 + d <= j /\ m \in 1..Len(pages) /\ m \in i..Len(pages)
        /\ m - 1 \in i - 1..Len(pages) /\ i \in 1..Len(pages) + 1
    BY <1>1, <2>1
  <2>3. Flat(pages, i, m) = Flat(pages, i, m - 1) \o Unread(pages[m])
    BY <2>2, FlatLast
  <2>4. Flat(pages, i, m - 1) \in Seq(Byte)
    BY <2>2, FlatType
  <2>5. Unread(pages[m]) \in Seq(Byte)
    BY <2>2, SizedPage
  <2>6. DelimAt(Flat(pages, i, m - 1)) = 0
    BY <1>3, <2>2
  <2>7. DelimAt(Unread(pages[m])) = 0
    BY <2>1
  <2> DEFINE a == Flat(pages, i, m - 1)
             b == Unread(pages[m])
  <2>8. DelimAt(a \o b) = 0
    <3>1. a \in Seq(Byte) /\ b \in Seq(Byte) /\ DelimAt(a) = 0 /\ DelimAt(b) = 0
      BY <2>4, <2>5, <2>6, <2>7
    <3> HIDE DEF a, b
    <3> QED BY <3>1, DelimJoin
  <2> QED BY <2>1, <2>3, <2>8
<1>4. Nat \subseteq T
  <2> HIDE DEF T
  <2> QED BY <1>2, <1>3, NumberInduction
<1>5. PICK d \in Nat : j = i - 1 + d
  BY <1>1
<1>6. d \in T
  <2> HIDE DEF T
  <2> QED BY <1>4
<1>7. i - 1 + d <= j => DelimAt(Flat(pages, i, i - 1 + d)) = 0
  BY <1>6
<1> QED BY <1>5, <1>7

\* C begins with s, which has no end of a line, and the first line end of t.
TakesLine(C, s, t, r) ==
  LET end == DelimAt(t)
  IN  /\ DelimAt(C) # 0 /\ Rest(C, DelimAt(C)) = Rest(t \o r, end)
      /\ SubSeq(C, 1, DelimAt(C) - 1) = s \o SubSeq(t, 1, end - 1)

LEMMA FirstLine ==
  ASSUME NEW s \in Seq(Byte), NEW t \in Seq(Byte), NEW r \in Seq(Byte),
         DelimAt(s) = 0, DelimAt(t) # 0
  PROVE  TakesLine(s \o (t \o r), s, t, r)
<1> DEFINE u == t \o r
           C == s \o u
           end == DelimAt(t)
<1>1. /\ Len(s) \in Nat /\ Len(t) \in Nat /\ Len(r) \in Nat
      /\ Len(u) = Len(t) + Len(r) /\ u \in Seq(Byte)
  BY LenProperties, ConcatProperties
<1>2. end \in 0..Len(t) /\ end # 0
  BY DelimIs
<1>3. DelimAt(u) = end
  BY DelimJoin
<1>4. DelimAt(C) = Len(s) + end
  <2> HIDE DEF u
  <2> QED BY <1>1, <1>3, DelimJoin
<1>5. end \in 0..Len(u)
  BY <1>1, <1>2
<1>7. PICK n \in 0..Len(t) : n = end - 1
  BY <1>1, <1>2
<1>10. SubSeq(u, 1, n) = SubSeq(t, 1, n)
  BY TakeOfFirst
<1> HIDE DEF u, end
<1>6. Rest(s \o u, Len(s) + end) = Rest(u, end)
  BY <1>1, <1>5, RestOfSecond
<1>8. n \in 0..Len(u) /\ Len(s) + end - 1 = Len(s) + n
  BY <1>1, <1>2, <1>7
<1>9. SubSeq(s \o u, 1, Len(s) + n) = s \o SubSeq(u, 1, n)
  BY <1>1, <1>8, TakeOfSecond
<1>11. DelimAt(C) - 1 = Len(s) + n
  <2>1. Len(s) \in Nat /\ end \in Nat /\ n \in Nat
    BY <1>1, <1>2, <1>7
  <2> QED BY <1>4, <1>8, <2>1
<1>12. DelimAt(C) # 0
  BY <1>1, <1>2, <1>4
<1>13. Rest(C, DelimAt(C)) = Rest(u, end)
  BY <1>4, <1>6
<1>14. SubSeq(C, 1, DelimAt(C) - 1) = s \o SubSeq(u, 1, n)
  BY <1>9, <1>11
<1>15. SubSeq(u, 1, n) = SubSeq(t, 1, end - 1)
  BY <1>7, <1>10
<1> QED BY <1>12, <1>13, <1>14, <1>15 DEF TakesLine, u, end

\* read_by_line() takes what is before the end of the first line, and the end.
LEMMA LineIs ==
  ASSUME NEW s, Standing(s), NEW page \in s.rd..Len(s.pages), NEW end \in Nat \ {0},
         end = DelimAt(Unread(s.pages[page])),
         \A k \in s.rd..page - 1 : DelimAt(Unread(s.pages[k])) = 0,
         NEW t, t = State([s.pages EXCEPT ![page].offset_rd = @ + end], page, s.wr)
  PROVE  /\ Standing(t) /\ DelimAt(Content(s)) # 0
         /\ Content(t) = Rest(Content(s), DelimAt(Content(s)))
         /\ SubSeq(Content(s), 1, DelimAt(Content(s)) - 1)
              = Flat(s.pages, s.rd, page - 1) \o SubSeq(Unread(s.pages[page]), 1, end - 1)
<1>1. /\ Sized(s.pages) /\ Len(s.pages) \in Nat /\ s.rd \in 1..Len(s.pages) /\ s.wr \in s.rd..Len(s.pages)
      /\ Content(s) = Flat(s.pages, s.rd, s.wr) /\ s.pages \in Seq(Page)
      /\ \A i \in 1..Len(s.pages) : Settled(s.pages[i], i, s.wr)
  BY StandingParts DEF Sized, Standing
<1>2. page \in 1..Len(s.pages) /\ page \in Nat /\ s.rd <= page
  BY <1>1
<1> DEFINE u == State(s.pages, page, s.wr)
           p == s.pages[page]
           F == Flat(s.pages, s.rd, page - 1)
           R == Flat(s.pages, page + 1, s.wr)
<1>3. Unread(p) \in Seq(Byte) /\ Len(Unread(p)) = rd_size(p) /\ end = DelimAt(Unread(p))
  BY <1>1, <1>2, SizedPage
<1>4. page <= s.wr
  <2>1. ASSUME page > s.wr PROVE FALSE
    <3>1. p = Fresh
      BY <1>1, <1>2, <2>1 DEF Settled
    <3>2. Len(Unread(p)) = 0
      BY <3>1, FreshIs, EmptySeq
    <3>3. DelimAt(Unread(p)) \in 0..Len(Unread(p))
      BY <1>3, DelimIs
    <3> HIDE DEF p
    <3> QED BY <1>3, <3>2, <3>3
  <2> QED BY <1>1, <1>2, <2>1
<1>5. u.pages = s.pages /\ u.rd = page /\ u.wr = s.wr /\ u \in States
  <2>1. s.wr \in Nat
    BY <1>1
  <2> QED BY <1>1, <1>2, <2>1, StateType
<1> HIDE DEF u
<1>6. Standing(u)
  <2>1. 1 <= page /\ s.wr <= Len(s.pages)
    BY <1>1, <1>2
  <2> QED BY <1>1, <1>4, <1>5, <2>1 DEF Standing
<1>7. F \in Seq(Byte) /\ R \in Seq(Byte)
  <2>1. s.rd \in 1..Len(s.pages) + 1 /\ page - 1 \in s.rd - 1..Len(s.pages)
    BY <1>1, <1>2
  <2>2. page + 1 \in 1..Len(s.pages) + 1 /\ s.wr \in page + 1 - 1..Len(s.pages)
    BY <1>1, <1>2, <1>4
  <2>3. F \in Seq(Byte)
    BY <1>1, <2>1, FlatType
  <2>4. R \in Seq(Byte)
    <3> DEFINE k == page + 1
    <3>1. k \in 1..Len(s.pages) + 1 /\ s.wr \in k - 1..Len(s.pages)
      BY <2>2
    <3> HIDE DEF k
    <3>2. Flat(s.pages, k, s.wr) \in Seq(Byte)
      BY <1>1, <3>1, FlatType
    <3> QED BY <3>2 DEF k
  <2> QED BY <2>3, <2>4
<1>8. Content(u) = Unread(p) \o R
  <2>1. Content(u) = Flat(s.pages, page, s.wr)
    BY <1>5, <1>6, StandingParts
  <2>2. s.wr \in page..Len(s.pages)
    BY <1>1, <1>2, <1>4
  <2> QED BY <1>1, <1>2, <2>1, <2>2, FlatFirst
<1>9. Content(s) = F \o Content(u) /\ Content(u) \in Seq(Byte)
  <2>1. PICK k \in s.rd - 1..Len(s.pages) : k = page - 1
    BY <1>1, <1>2
  <2>2. s.wr \in k..Len(s.pages) /\ k + 1 = page
    BY <1>1, <1>2, <1>4, <2>1
  <2>3. Flat(s.pages, s.rd, s.wr) = Flat(s.pages, s.rd, k) \o Flat(s.pages, k + 1, s.wr)
    BY <1>1, <2>2, FlatSplit
  <2>4. Content(u) = Flat(s.pages, page, s.wr) /\ Content(u) \in Seq(Byte)
    BY <1>5, <1>6, StandingParts
  <2> QED BY <1>1, <2>1, <2>2, <2>3, <2>4
<1>10. DelimAt(F) = 0
  <2>1. page - 1 \in s.rd - 1..Len(s.pages)
    BY <1>1, <1>2
  <2> DEFINE j == page - 1
  <2>2. j \in s.rd - 1..Len(s.pages) /\ \A k \in s.rd..j : DelimAt(Unread(s.pages[k])) = 0
    BY <2>1
  <2> HIDE DEF j
  <2>3. DelimAt(Flat(s.pages, s.rd, j)) = 0
    BY <1>1, <2>2, NoDelim
  <2> QED BY <2>3 DEF j
<1>11. end \in 0..Len(Unread(p)) /\ Len(Unread(p)) \in Nat
  <2> HIDE DEF p
  <2> QED BY <1>3, DelimIs, LenProperties
<1>12. Standing(t) /\ Content(t) = Rest(Content(u), end)
  <2>1. end \in 0..rd_size(u.pages[u.rd])
    BY <1>3, <1>5, <1>11
  <2>2. t = State([u.pages EXCEPT ![u.rd].offset_rd = @ + end], u.rd, u.wr)
    BY <1>5
  <2> QED BY <1>6, <2>1, <2>2, TakeFrom
<1> DEFINE a == Unread(p)
           U == Content(u)
<1>b. a \in Seq(Byte) /\ U \in Seq(Byte) /\ U = a \o R /\ end = DelimAt(a) /\ end \in 0..Len(a) /\ Len(a) \in Nat
      /\ DelimAt(F) = 0 /\ F \in Seq(Byte) /\ R \in Seq(Byte)
  BY <1>3, <1>7, <1>8, <1>9, <1>10, <1>11
<1>c. Content(s) = F \o U /\ Content(t) = Rest(U, end)
  BY <1>9, <1>12
<1>d. Flat(s.pages, s.rd, page - 1) \o SubSeq(Unread(s.pages[page]), 1, end - 1) = F \o SubSeq(a, 1, end - 1)
  OBVIOUS
<1> HIDE DEF a, U, F, R, p
<1>13. /\ DelimAt(Content(s)) # 0 /\ Rest(Content(s), DelimAt(Content(s))) = Rest(U, end)
       /\ SubSeq(Content(s), 1, DelimAt(Content(s)) - 1) = F \o SubSeq(a, 1, end - 1)
  <2>1. F \in Seq(Byte) /\ a \in Seq(Byte) /\ R \in Seq(Byte) /\ DelimAt(F) = 0 /\ DelimAt(a) # 0
    BY <1>b
  <2>2. TakesLine(F \o (a \o R), F, a, R)
    BY <2>1, FirstLine
  <2> QED BY <1>b, <1>c, <2>2 DEF TakesLine
<1> QED BY <1>c, <1>d, <1>12, <1>13

-----------------------------------------------------------------------------
(* The steps *)

LEMMA StateIs ==
  ASSUME NEW s \in States
  PROVE  State(s.pages, s.rd, s.wr) = s
BY DEF State, States

LEMMA StepTo ==
  ASSUME NEW s, Sound(s), Become(s)
  PROVE  Sound(Now)' /\ Content(Now)' = Content(s)
<1>1. State(s.pages, s.rd, s.wr) = s
  BY SoundParts, StateIs
<1>2. Now' = s
  BY <1>1 DEF Now, Become
<1> QED BY <1>2

LEMMA SoundNow ==
  ASSUME Sound(Now)
  PROVE  Positions
<1>1. Now.pages = _page_list /\ Now.rd = _page_rd /\ Now.wr = _page_wr
  BY DEF Now, State
<1>2. CASE Now = Bare
  <2>1. _page_list = <<>> /\ _page_rd = 0 /\ _page_wr = 0
    BY <1>1, <1>2, BareParts
  <2>2. DOMAIN _page_list = {}
    BY <2>1
  <2> QED BY <2>1, <2>2 DEF Positions
<1>3. CASE Standing(Now)
  <2>1. /\ _page_list \in Seq(Page) /\ _page_list # <<>> /\ _page_rd # 0 /\ _page_wr # 0
        /\ _page_rd <= _page_wr /\ Sized(_page_list)
        /\ \A i \in 1..Len(_page_list) : Settled(_page_list[i], i, _page_wr)
    BY <1>1, <1>3, StandingParts DEF Standing, Sized
  <2>2. DOMAIN _page_list = 1..Len(_page_list)
    BY <2>1, LenProperties
  <2>3. ASSUME NEW i \in 1..Len(_page_list)
        PROVE  /\ _page_list[i].offset_rd <= Len(_page_list[i].data)
               /\ i < _page_wr => wr_size(_page_list[i]) = 0
               /\ i > _page_wr => _page_list[i] = Fresh
    <3>1. Settled(_page_list[i], i, _page_wr)
      BY <2>1
    <3>2. page_size - page_size = 0
      BY SizeAssumption
    <3> QED BY <3>1, <3>2 DEF Settled, Sizes, wr_size
  <2> QED BY <2>1, <2>2, <2>3 DEF Positions
<1> QED BY <1>2, <1>3 DEF Sound

LEMMA BytesType ==
  ASSUME NEW bytes \in Bytes
  PROVE  bytes \in Seq(Byte) /\ Len(bytes) \in Nat
<1>1. PICK m \in 0..MaxCall : bytes \in [1..m -> Byte]
  BY DEF Bytes, BoundedSeq, SeqOf
<1>2. m \in Nat
  BY SizeAssumption
<1>3. bytes \in Seq(Byte)
  BY <1>1, <1>2
<1> QED BY <1>3, LenProperties

QueueStep == [Q!Next]_<<Content(Now), last>>

LEMMA WriteSteps ==
  ASSUME Sound(Now), NEW bytes \in Bytes, Write(bytes) \/ Assign(bytes)
  PROVE  Sound(Now)' /\ QueueStep
<1>1. bytes \in Seq(Byte)
  BY BytesType
<1>2. CASE Write(bytes)
  <2>1. Sound(Stored(Now, bytes)) /\ Content(Stored(Now, bytes)) = Content(Now) \o bytes
    BY <1>1, StoredIs
  <2>2. Become(Stored(Now, bytes)) /\ last' = Called("write", Len(bytes), bytes)
    BY <1>2 DEF Write
  <2>3. Sound(Now)' /\ Content(Now)' = Content(Now) \o bytes
    BY <2>1, <2>2, StepTo
  <2>4. Q!Write(bytes)
    BY <2>2, <2>3 DEF Q!Write, Q!Called, Called
  <2>5. bytes \in Q!Bytes
    BY DEF Q!Bytes, Q!BoundedSeq, Q!SeqOf, Bytes, BoundedSeq, SeqOf
  <2> QED BY <2>3, <2>4, <2>5 DEF QueueStep, Q!Next
<1>3. CASE Assign(bytes)
  <2> DEFINE s == Emptied(Now)
  <2>1. Sound(s) /\ Content(s) = <<>>
    BY EmptiedIs
  <2>2. Become(Stored(s, bytes)) /\ last' = Called("assign", Len(bytes), bytes)
    BY <1>3 DEF Assign
  <2> HIDE DEF s
  <2>3. Sound(Stored(s, bytes)) /\ Content(Stored(s, bytes)) = Content(s) \o bytes
    BY <1>1, <2>1, StoredIs
  <2>4. Content(s) \o bytes = bytes
    BY <1>1, <2>1, ConcatEmptySeq
  <2>5. Sound(Now)' /\ Content(Now)' = bytes
    BY <2>2, <2>3, <2>4, StepTo
  <2>6. Q!Assign(bytes)
    BY <2>2, <2>5 DEF Q!Assign, Q!Called, Called
  <2>7. bytes \in Q!Bytes
    BY DEF Q!Bytes, Q!BoundedSeq, Q!SeqOf, Bytes, BoundedSeq, SeqOf
  <2> QED BY <2>5, <2>6, <2>7 DEF QueueStep, Q!Next
<1> QED BY <1>2, <1>3

LEMMA ReadSteps ==
  ASSUME Sound(Now), NEW n \in 0..MaxCall, Read(n) \/ RdPosition(n)
  PROVE  Sound(Now)' /\ QueueStep
<1> DEFINE C == Content(Now)
<1>1. C \in Seq(Byte) /\ Len(C) \in Nat /\ n \in Nat
  BY SoundParts, SizeAssumption
<1>2. ASSUME NEW count \in 0..Len(C), count = (IF n < Len(C) THEN n ELSE Len(C)),
             last' = Called("read", n, SubSeq(C, 1, count)), C' = Rest(C, count)
      PROVE  QueueStep
  <2>1. \E result \in 0..MaxCall :
          /\ n <= Len(C) => result = n
          /\ last' = Called("read", result, SubSeq(C, 1, count))
    BY <1>2
  <2>2. Q!Read(n)
    BY <1>2, <2>1 DEF Q!Read, Q!Called, Called, Q!Take, Q!Drop, Rest
  <2> QED BY <2>2 DEF QueueStep, Q!Next
<1>3. CASE Read(n)
  <2> DEFINE count == Least(Len(C), n)
  <2>1. count \in 0..Len(C) /\ count = (IF n < Len(C) THEN n ELSE Len(C))
    BY <1>1 DEF Least
  <2>2. /\ Become(Consumed(Now, count))
        /\ last' = Called("read", n - ReadEnd(Now, count).n, SubSeq(C, 1, count))
    BY <1>3 DEF Read
  <2> HIDE DEF count
  <2>3. /\ Sound(Consumed(Now, count)) /\ Content(Consumed(Now, count)) = Rest(C, count)
        /\ n - ReadEnd(Now, count).n = n
    <3>1. /\ Sound(Consumed(Now, count)) /\ Content(Consumed(Now, count)) = Rest(C, count)
          /\ ReadEnd(Now, count).n = 0
      BY <2>1, ConsumedIs
    <3> HIDE DEF C
    <3>2. n - ReadEnd(Now, count).n = n
      BY <1>1, <3>1
    <3> QED BY <3>1, <3>2
  <2>4. Sound(Now)' /\ C' = Rest(C, count)
    BY <2>2, <2>3, StepTo
  <2>5. last' = Called("read", n, SubSeq(C, 1, count))
    BY <2>2, <2>3
  <2> QED BY <1>2, <2>1, <2>4, <2>5
<1>4. CASE RdPosition(n)
  <2> DEFINE t == Skipped(Now, n)
  <2>1. /\ t.rd \in 2..t.wr /\ rd_size(t.pages[t.rd - 1]) = 0 /\ Become(t)
        /\ last' = Called("read", n, SubSeq(C, 1, n))
    BY <1>4 DEF RdPosition
  <2>2. Sound(t) /\ n <= Len(C) /\ Content(t) = Rest(C, n)
    BY <1>1, <2>1, SkippedIs
  <2> HIDE DEF t
  <2>3. Sound(Now)' /\ C' = Rest(C, n)
    BY <2>1, <2>2, StepTo
  <2>4. n \in 0..Len(C) /\ n = (IF n < Len(C) THEN n ELSE Len(C))
    BY <1>1, <2>2
  <2> QED BY <1>2, <2>1, <2>3, <2>4
<1> QED BY <1>3, <1>4

LEMMA RecvStep ==
  ASSUME Sound(Now), NEW n \in 0..MaxCall, NEW bytes \in Bytes, RecvVbuf(n, bytes)
  PROVE  Sound(Now)' /\ QueueStep
<1> DEFINE room == Reserved(Now, n)
           t == Positioned(room, bytes)
<1>1. bytes \in Seq(Byte) /\ n \in Nat
  BY BytesType, SizeAssumption
<1>2. Standing(room) /\ Content(room) = Content(Now)
  BY <1>1, ReservedIs
<1>3. /\ Len(bytes) <= Room(room) /\ t.wr # 0 /\ wr_size(t.pages[t.wr - 1]) = 0
      /\ Become(t) /\ last' = Called("write", Len(bytes), bytes)
  BY DEF RecvVbuf
<1> HIDE DEF room
<1>4. Sound(t) /\ Content(t) = Content(room) \o bytes
  BY <1>1, <1>2, <1>3, PositionedIs DEF Sound
<1> HIDE DEF t
<1>5. Sound(Now)' /\ Content(Now)' = Content(Now) \o bytes
  BY <1>2, <1>3, <1>4, StepTo
<1>6. Q!Write(bytes)
  BY <1>3, <1>5 DEF Q!Write, Q!Called, Called
<1>7. bytes \in Q!Bytes
  BY DEF Q!Bytes, Q!BoundedSeq, Q!SeqOf, Bytes, BoundedSeq, SeqOf
<1> QED BY <1>5, <1>6, <1>7 DEF QueueStep, Q!Next

LEMMA RoomSteps ==
  ASSUME Sound(Now), (\E n \in 0..MaxCall : Reserve(n)) \/ Shrink
  PROVE  Sound(Now)' /\ QueueStep
<1>1. CASE \E n \in 0..MaxCall : Reserve(n)
  <2>1. PICK n \in 0..MaxCall : Reserve(n)
    BY <1>1
  <2>2. n \in Nat
    BY SizeAssumption
  <2>3. Sound(Reserved(Now, n)) /\ Content(Reserved(Now, n)) = Content(Now)
    BY <2>2, ReservedIs DEF Sound
  <2>4. Become(Reserved(Now, n)) /\ last' = Called("reserve", 0, <<>>)
    BY <2>1 DEF Reserve
  <2>5. Sound(Now)' /\ Content(Now)' = Content(Now)
    BY <2>3, <2>4, StepTo
  <2>6. Q!Room("reserve")
    BY <2>4, <2>5 DEF Q!Room, Q!Called, Called
  <2> QED BY <2>5, <2>6 DEF QueueStep, Q!Next
<1>2. CASE Shrink
  <2>1. Sound(Shrunk(Now)) /\ Content(Shrunk(Now)) = Content(Now)
    BY ShrunkIs
  <2>2. Become(Shrunk(Now)) /\ last' = Called("shrink", 0, <<>>)
    BY <1>2 DEF Shrink
  <2>3. Sound(Now)' /\ Content(Now)' = Content(Now)
    BY <2>1, <2>2, StepTo
  <2>4. 0 \in 0..MaxCall
    BY SizeAssumption
  <2>5. Q!Room("shrink")
    BY <2>2, <2>3, <2>4 DEF Q!Room, Q!Called, Called
  <2> QED BY <2>3, <2>5 DEF QueueStep, Q!Next
<1> QED BY <1>1, <1>2

LEMMA ClearSteps ==
  ASSUME Sound(Now), Readed \/ Reset \/ Clear
  PROVE  Sound(Now)' /\ QueueStep
<1>1. CASE Reset
  <2>1. Sound(Emptied(Now)) /\ Content(Emptied(Now)) = <<>>
    BY EmptiedIs
  <2>2. Become(Emptied(Now)) /\ last' = Called("reset", 0, <<>>)
    BY <1>1 DEF Reset
  <2>3. Sound(Now)' /\ Content(Now)' = <<>>
    BY <2>1, <2>2, StepTo
  <2>4. Q!Clear("reset")
    BY <2>2, <2>3 DEF Q!Clear, Q!Called, Called
  <2> QED BY <2>3, <2>4 DEF QueueStep, Q!Next
<1>2. CASE Clear
  <2>1. Sound(Bare) /\ Content(Bare) = <<>>
    BY BareParts DEF Sound
  <2>2. Become(Bare) /\ last' = Called("clear", 0, <<>>)
    BY <1>2 DEF Clear, Bare
  <2>3. Sound(Now)' /\ Content(Now)' = <<>>
    BY <2>1, <2>2, StepTo
  <2>4. Q!Clear("clear")
    BY <2>2, <2>3 DEF Q!Clear, Q!Called, Called
  <2> QED BY <2>3, <2>4 DEF QueueStep, Q!Next
<1>3. CASE Readed
  <2>1. Now.pages = _page_list /\ Now.rd = _page_rd /\ Now.wr = _page_wr
    BY DEF Now, State
  <2>2. Standing(Now)
    BY <1>3, <2>1, SoundParts DEF Readed
  <2> DEFINE w == _page_wr
             u == State(_page_list, w, w)
             n == rd_size(_page_list[w])
             t == State([_page_list EXCEPT ![w].offset_rd = @ + n], w, w)
  <2>3. /\ Sized(_page_list) /\ Len(_page_list) \in Nat /\ w \in 1..Len(_page_list)
        /\ _page_list \in Seq(Page)
        /\ \A i \in 1..Len(_page_list) : Settled(_page_list[i], i, w)
    BY <2>1, <2>2, StandingParts DEF Sized, Standing
  <2>4. u.pages = _page_list /\ u.rd = w /\ u.wr = w /\ u \in States
    BY <2>3, StateType
  <2>5. Standing(u)
    BY <2>3, <2>4 DEF Standing
  <2>6. /\ Unread(_page_list[w]) \in Seq(Byte) /\ Len(Unread(_page_list[w])) = n
        /\ n \in Nat /\ _page_list[w] \in Page
    <3>1. Unread(_page_list[w]) \in Seq(Byte) /\ Len(Unread(_page_list[w])) = n /\ _page_list[w] \in Page
      BY <2>3, SizedPage
    <3> HIDE DEF n
    <3> QED BY <3>1, LenProperties
  <2>7. Content(u) = Unread(_page_list[w])
    <3>1. Content(u) = Flat(_page_list, w, w)
      BY <2>4, <2>5, StandingParts
    <3> QED BY <2>3, <3>1, FlatOne
  <2>8. Standing(t) /\ Content(t) = Rest(Content(u), n)
    <3>1. n \in 0..rd_size(u.pages[u.rd])
      BY <2>4, <2>6
    <3>2. t = State([u.pages EXCEPT ![u.rd].offset_rd = @ + n], u.rd, u.wr)
      BY <2>4
    <3> HIDE DEF n, t, u
    <3> QED BY <2>5, <3>1, <3>2, TakeFrom
  <2>9. Content(t) = <<>>
    <3> HIDE DEF t, u, n
    <3> QED BY <2>6, <2>7, <2>8, RestNone
  <2>10. _page_list[w].offset_rd + n = Len(_page_list[w].data)
    <3>1. _page_list[w].offset_rd \in Nat /\ Len(_page_list[w].data) \in Nat
      BY <2>6, LenProperties DEF Page
    <3> QED BY <3>1 DEF rd_size
  <2>11. Now' = t
    <3>1. /\ _page_list' = [_page_list EXCEPT ![w].offset_rd = Len(_page_list[w].data)]
          /\ _page_rd' = w /\ _page_wr' = w
      BY <1>3 DEF Readed
    <3> QED BY <2>10, <3>1 DEF Now
  <2>12. Sound(Now)' /\ Content(Now)' = <<>>
    <3> HIDE DEF t
    <3> QED BY <2>8, <2>9, <2>11 DEF Sound
  <2>13. Q!Clear("readed")
    BY <1>3, <2>12 DEF Q!Clear, Q!Called, Called, Readed
  <2> QED BY <2>12, <2>13 DEF QueueStep, Q!Next
<1> QED BY <1>1, <1>2, <1>3

LEMMA SameDelim ==
  ASSUME NEW seq
  PROVE  Q!SelectInSeq(seq, LAMBDA b : b = Delim) = DelimAt(seq)
BY DEF Q!SelectInSeq, Q!Min, SelectInSeq, Min, DelimAt

LEMMA LineStep ==
  ASSUME Sound(Now), ReadLine
  PROVE  Sound(Now)' /\ QueueStep
<1> DEFINE C == Content(Now)
           hits == {i \in 1..Len(_page_list) : i >= _page_rd /\ DelimAt(Unread(_page_list[i])) # 0}
           page == CHOOSE i \in hits : \A j \in hits : i <= j
           end == DelimAt(Unread(_page_list[page]))
           line == Content(State(_page_list, _page_rd, page - 1))
                     \o SubSeq(Unread(_page_list[page]), 1, end - 1)
<1>1. Now.pages = _page_list /\ Now.rd = _page_rd /\ Now.wr = _page_wr
  BY DEF Now, State
<1>2. IF _page_rd = 0 \/ hits = {}
        THEN /\ last' = Called("read_by_line", 0, <<>>)
             /\ UNCHANGED <<_page_list, _page_rd, _page_wr>>
        ELSE /\ last' = Called("read_by_line", Len(line), line)
             /\ _page_list' = [_page_list EXCEPT ![page].offset_rd = @ + end]
             /\ _page_rd' = page
             /\ UNCHANGED _page_wr
  BY DEF ReadLine, DelimAt
<1>3. CASE _page_rd = 0 \/ hits = {}
  <2>1. DelimAt(C) = 0
    <3>1. CASE Now = Bare
      <4>1. C = <<>> /\ <<>> \in Seq(Byte) /\ Len(<<>>) = 0
        BY <3>1, BareParts, EmptySeq
      <4>2. DelimAt(<<>>) \in 0..Len(<<>>)
        BY <4>1, DelimIs
      <4> QED BY <4>1, <4>2
    <3>2. CASE Standing(Now)
      <4>1. /\ Sized(_page_list) /\ _page_rd \in 1..Len(_page_list) /\ _page_wr \in _page_rd..Len(_page_list)
            /\ Len(_page_list) \in Nat /\ C = Flat(_page_list, _page_rd, _page_wr)
        BY <1>1, <3>2, StandingParts
      <4>2. \A k \in _page_rd.._page_wr : DelimAt(Unread(_page_list[k])) = 0
        <5>1. \A k \in _page_rd.._page_wr : k \in 1..Len(_page_list) /\ k >= _page_rd
          BY <4>1
        <5>2. hits = {}
          BY <1>3, <4>1
        <5> QED BY <5>1, <5>2
      <4>3. _page_wr \in _page_rd - 1..Len(_page_list)
        BY <4>1
      <4> QED BY <4>1, <4>2, <4>3, NoDelim
    <3> QED BY <3>1, <3>2 DEF Sound
  <2>2. UNCHANGED <<_page_list, _page_rd, _page_wr>> /\ last' = Called("read_by_line", 0, <<>>)
    BY <1>2, <1>3
  <2>3. Now' = Now
    BY <2>2 DEF Now
  <2>4. Sound(Now)' /\ C' = C
    BY <2>3
  <2>5. Q!ReadLine
    BY <2>1, <2>2, <2>4, SameDelim DEF Q!ReadLine, Q!Called, Called
  <2> QED BY <2>4, <2>5 DEF QueueStep, Q!Next
<1>4. CASE ~(_page_rd = 0 \/ hits = {})
  <2>1. Standing(Now)
    BY <1>1, <1>4, BareParts DEF Sound
  <2>2. /\ Sized(_page_list) /\ _page_rd \in 1..Len(_page_list) /\ _page_wr \in _page_rd..Len(_page_list)
        /\ Len(_page_list) \in Nat
    BY <1>1, <2>1, StandingParts
  <2>3. page \in hits /\ \A j \in hits : page <= j
    <3>1. hits \subseteq Nat
      OBVIOUS
    <3>2. \E n \in hits : \A m \in hits : n <= m
      <4> HIDE DEF hits
      <4> QED BY <1>4, <3>1, LeastNumber
    <3> HIDE DEF hits
    <3> QED BY <3>2
  <2>4. /\ last' = Called("read_by_line", Len(line), line)
        /\ _page_list' = [_page_list EXCEPT ![page].offset_rd = @ + end]
        /\ _page_rd' = page /\ _page_wr' = _page_wr
    BY <1>2, <1>4
  <2> HIDE DEF page
  <2>5. /\ page \in 1..Len(_page_list) /\ page >= _page_rd /\ end # 0
        /\ \A k \in 1..Len(_page_list) : k >= _page_rd /\ k < page => DelimAt(Unread(_page_list[k])) = 0
    <3>1. page \in 1..Len(_page_list) /\ page >= _page_rd /\ end # 0
      BY <2>3
    <3>2. ASSUME NEW k \in 1..Len(_page_list), k >= _page_rd, k < page
          PROVE  DelimAt(Unread(_page_list[k])) = 0
      <4>1. k \notin hits
        BY <2>3, <3>1, <3>2
      <4> QED BY <3>2, <4>1
    <3> QED BY <3>1, <3>2
  <2>6. end \in Nat \ {0}
    <3>1. Unread(_page_list[page]) \in Seq(Byte)
      BY <2>2, <2>5, SizedPage
    <3>2. end \in 0..Len(Unread(_page_list[page])) /\ Len(Unread(_page_list[page])) \in Nat
      BY <3>1, DelimIs, LenProperties
    <3> QED BY <2>5, <3>2
  <2> DEFINE t == State([_page_list EXCEPT ![page].offset_rd = @ + end], page, _page_wr)
  <2>7. Now' = t
    BY <2>4 DEF Now
  <2>8. /\ Standing(t) /\ DelimAt(C) # 0
        /\ Content(t) = Rest(C, DelimAt(C))
        /\ SubSeq(C, 1, DelimAt(C) - 1)
             = Flat(_page_list, _page_rd, page - 1) \o SubSeq(Unread(_page_list[page]), 1, end - 1)
    <3>1. page \in Now.rd..Len(Now.pages)
      BY <1>1, <2>2, <2>5
    <3>2. \A k \in Now.rd..page - 1 : DelimAt(Unread(Now.pages[k])) = 0
      <4>1. \A k \in _page_rd..page - 1 : k \in 1..Len(_page_list) /\ k >= _page_rd /\ k < page
        BY <2>2, <2>5
      <4> QED BY <1>1, <2>5, <4>1
    <3>3. t = State([Now.pages EXCEPT ![page].offset_rd = @ + end], page, Now.wr)
      BY <1>1
    <3>4. end = DelimAt(Unread(Now.pages[page]))
      BY <1>1
    <3> HIDE DEF t, end
    <3>5. /\ Standing(t) /\ DelimAt(Content(Now)) # 0
          /\ Content(t) = Rest(Content(Now), DelimAt(Content(Now)))
          /\ SubSeq(Content(Now), 1, DelimAt(Content(Now)) - 1)
               = Flat(Now.pages, Now.rd, page - 1) \o SubSeq(Unread(Now.pages[page]), 1, end - 1)
      BY <2>1, <2>6, <3>1, <3>2, <3>3, <3>4, LineIs
    <3> QED BY <1>1, <3>5
  <2>9. line = SubSeq(C, 1, DelimAt(C) - 1)
    <3>1. Content(State(_page_list, _page_rd, page - 1)) = Flat(_page_list, _page_rd, page - 1)
      BY <2>2 DEF Content, Flat, State
    <3> QED BY <2>8, <3>1
  <2> HIDE DEF t, line
  <2>10. Sound(Now)' /\ C' = Rest(C, DelimAt(C))
    BY <2>7, <2>8 DEF Sound
  <2>11. Q!ReadLine
    <3>0. Len(SubSeq(C, 1, DelimAt(C) - 1)) = DelimAt(C) - 1
      <4>1. C \in Seq(Byte) /\ Len(C) \in Nat
        BY SoundParts
      <4>2. DelimAt(C) \in 1..Len(C)
        BY <2>8, <4>1, DelimIs
      <4>3. \A i \in 1..DelimAt(C) - 1 : C[i] \in Byte
        BY <4>1, <4>2, ElementOfSeq
      <4>4. 1 \in Int /\ DelimAt(C) - 1 \in Int
        BY <4>2
      <4>5. Len(SubSeq(C, 1, DelimAt(C) - 1))
              = IF 1 <= DelimAt(C) - 1 THEN DelimAt(C) - 1 - 1 + 1 ELSE 0
        <5> HIDE DEF C
        <5> QED BY <4>3, <4>4, SubSeqProperties
      <4> QED BY <4>2, <4>5
    <3>1. DelimAt(C) # 0 /\ last' = Called("read_by_line", DelimAt(C) - 1, SubSeq(C, 1, DelimAt(C) - 1))
      BY <2>4, <2>8, <2>9, <3>0
    <3>2. C' = SubSeq(C, DelimAt(C) + 1, Len(C))
      BY <2>10 DEF Rest
    <3> QED BY <3>1, <3>2, SameDelim DEF Q!ReadLine, Q!Called, Called, Q!Take, Q!Drop
  <2> QED BY <2>10, <2>11 DEF QueueStep, Q!Next
<1> QED BY <1>3, <1>4

LEMMA SoundInit ==
  ASSUME Init
  PROVE  Sound(Now) /\ Q!Init
<1>1. Now = Bare
  BY DEF Init, Now, Bare
<1>2. Sound(Now) /\ Content(Now) = <<>>
  BY <1>1, BareParts DEF Sound
<1> QED BY <1>2 DEF Init, Q!Init, Q!Called, Called

LEMMA SoundStep ==
  ASSUME Sound(Now), [Next]_vars
  PROVE  Sound(Now)' /\ QueueStep
<1>1. CASE UNCHANGED vars
  <2>1. Now' = Now /\ last' = last
    BY <1>1 DEF vars, Now
  <2>2. Sound(Now)' /\ Content(Now)' = Content(Now)
    BY <2>1
  <2> QED BY <2>1, <2>2 DEF QueueStep
<1>2. CASE \E bytes \in Bytes : Write(bytes) \/ Assign(bytes)
  BY <1>2, WriteSteps
<1>3. CASE \E n \in 0..MaxCall : Read(n) \/ Reserve(n) \/ RdPosition(n)
  <2>1. PICK n \in 0..MaxCall : Read(n) \/ Reserve(n) \/ RdPosition(n)
    BY <1>3
  <2>2. CASE Read(n) \/ RdPosition(n)
    BY <2>2, ReadSteps
  <2>3. CASE Reserve(n)
    BY <2>3, RoomSteps
  <2> QED BY <2>1, <2>2, <2>3
<1>4. CASE \E n \in 0..MaxCall, bytes \in Bytes : RecvVbuf(n, bytes)
  BY <1>4, RecvStep
<1>5. CASE ReadLine
  BY <1>5, LineStep
<1>6. CASE Shrink
  BY <1>6, RoomSteps
<1>7. CASE Readed \/ Reset \/ Clear
  BY <1>7, ClearSteps
<1> QED BY <1>1, <1>2, <1>3, <1>4, <1>5, <1>6, <1>7 DEF Next

\* The shape of the pages is kept by every function of var_buf.h and by
\* recv_vbuf(): pages in front of the write position are full, pages behind it
\* are empty, and no page was read past its end.
THEOREM SoundHolds == Spec => []Sound(Now)
<1>1. Init => Sound(Now)
  BY SoundInit
<1>2. Sound(Now) /\ [Next]_vars => Sound(Now)'
  BY SoundStep
<1> QED BY <1>1, <1>2, PTL DEF Spec

\* The positions are in order and on pages, a page is left only when it is used
\* up, and what is behind the write position is empty, for any page size.
THEOREM PositionsHold == Spec => []Positions
<1>1. Sound(Now) => Positions
  BY SoundNow
<1> QED BY <1>1, SoundHolds, PTL

\* Whatever pages are full, empty, left over or given back, what the functions
\* of var_buf.h give out is what was put in, in order, nothing twice and
\* nothing left out.
THEOREM ImplementsQueue == Spec => QueueSpec
<1>1. Init => Q!Init
  BY SoundInit
<1>2. Sound(Now) /\ [Next]_vars => [Q!Next]_<<Content(Now), last>>
  BY SoundStep DEF QueueStep
<1> QED BY <1>1, <1>2, SoundHolds, PTL DEF Spec, QueueSpec, Q!Spec

-----------------------------------------------------------------------------
(* list_t: the links, pointers and the counter *)

\* The types that the invariant rests on.
Typed ==
  /\ nodes \in Seq(Node)
  /\ next \in [Node -> Node \cup {Null}]
  /\ data \in [Node -> Item]
  /\ clearing \in BOOLEAN
  /\ seen \in Item \cup {Null}

ListInv == Typed /\ Linked

-----------------------------------------------------------------------------
(* Sequences *)

\* What a sequence with an element in front is, index by index.
LEMMA PrependIndex ==
  ASSUME NEW S, NEW s \in Seq(S), NEW e \in S
  PROVE  /\ <<e>> \o s \in Seq(S)
         /\ Len(<<e>> \o s) = Len(s) + 1
         /\ (<<e>> \o s)[1] = e
         /\ \A i \in 1..Len(s) : (<<e>> \o s)[i + 1] = s[i]
         /\ <<e>> \o s # <<>>
  OBVIOUS

\* What a sequence with an element behind is, index by index.
LEMMA AppendIndex ==
  ASSUME NEW S, NEW s \in Seq(S), NEW e \in S
  PROVE  /\ Append(s, e) \in Seq(S)
         /\ Len(Append(s, e)) = Len(s) + 1
         /\ Append(s, e)[Len(s) + 1] = e
         /\ \A i \in 1..Len(s) : Append(s, e)[i] = s[i]
         /\ Append(s, e) # <<>>
  OBVIOUS

\* The length says whether a sequence is empty.
LEMMA EmptyLength ==
  ASSUME NEW S, NEW s \in Seq(S)
  PROVE  /\ Len(s) \in Nat
         /\ (s = <<>>) = (Len(s) = 0)
  OBVIOUS

\* What is left behind the first element, index by index.
LEMMA TailIndex ==
  ASSUME NEW S, NEW s \in Seq(S), s # <<>>
  PROVE  /\ Tail(s) \in Seq(S)
         /\ Len(Tail(s)) = Len(s) - 1
         /\ \A i \in 1..(Len(s) - 1) : Tail(s)[i] = s[i + 1]
         /\ Len(s) \in Nat \ {0}
         /\ (Tail(s) = <<>>) = (Len(s) = 1)
<1>1. Len(s) \in Nat \ {0}
  OBVIOUS
<1>2. Tail(s) \in Seq(S) /\ Len(Tail(s)) = Len(s) - 1
  OBVIOUS
<1>3. \A i \in 1..(Len(s) - 1) : Tail(s)[i] = s[i + 1]
  OBVIOUS
<1>4. (Tail(s) = <<>>) = (Len(Tail(s)) = 0)
  BY <1>2, EmptyLength
<1> QED BY <1>1, <1>2, <1>3, <1>4

-----------------------------------------------------------------------------
(* The invariant *)

\* A list is empty when its head says so.
LEMMA EmptyNodes ==
  ASSUME Null \notin Node, ListInv
  PROVE  empty <=> nodes = <<>>
<1> USE DEF ListInv, Typed, Linked, empty
<1>1. CASE nodes = <<>>
  BY <1>1
<1>2. CASE nodes # <<>>
  <2>1. 1 \in 1..Len(nodes) /\ nodes[1] \in Node
    BY <1>2, EmptyLength
  <2> QED BY <1>2, <2>1
<1> QED BY <1>1, <1>2

LEMMA InitLinked == ListInit => ListInv
<1> SUFFICES ASSUME ListInit PROVE ListInv
  OBVIOUS
<1>1. nodes \in Seq(Node) /\ Len(nodes) = 0
  BY DEF ListInit
<1>2. 1..Len(nodes) = {}
  BY <1>1
<1>3. Typed
  BY <1>1 DEF ListInit, Typed
<1>4. Linked
  BY <1>1, <1>2 DEF ListInit, Linked
<1> QED BY <1>3, <1>4 DEF ListInv

LEMMA PushFrontLinked ==
  ASSUME Null \notin Node, ListInv, NEW x \in Item, push_front(x)
  PROVE  ListInv'
<1>1. PICK node \in Node \ built :
        /\ built' = built \cup {node}
        /\ data' = [data EXCEPT ![node] = x]
        /\ next' = [next EXCEPT ![node] = IF empty THEN Null ELSE _head]
        /\ _head' = node
        /\ _tail' = IF empty THEN node ELSE _tail
        /\ nodes' = <<node>> \o nodes
  BY DEF push_front
<1>2. ~clearing /\ _size' = _size + 1 /\ clearing' = clearing /\ seen' = seen
  BY DEF push_front
<1>3. /\ nodes \in Seq(Node) /\ Len(nodes) \in Nat
      /\ nodes' \in Seq(Node) /\ Len(nodes') = Len(nodes) + 1 /\ nodes' # <<>>
      /\ nodes'[1] = node /\ \A i \in 1..Len(nodes) : nodes'[i + 1] = nodes[i]
  BY <1>1, PrependIndex, EmptyLength DEF ListInv, Typed
<1>4. /\ \A i \in 1..Len(nodes) : nodes[i] # node /\ nodes[i] \in Node
      /\ (nodes = <<>>) = (Len(nodes) = 0)
  BY <1>1, <1>3, EmptyLength DEF ListInv, Linked
<1>5. empty <=> nodes = <<>>
  BY EmptyNodes
<1>6. Typed'
  <2>1. (IF empty THEN Null ELSE _head) \in Node \cup {Null}
    BY <1>3, <1>4, <1>5 DEF ListInv, Linked
  <2> QED BY <1>1, <1>2, <1>3, <2>1 DEF ListInv, Typed
<1>7. \A i \in 1..Len(nodes') : i = 1 \/ (i - 1 \in 1..Len(nodes) /\ nodes'[i] = nodes[i - 1])
  <2> SUFFICES ASSUME NEW i \in 1..Len(nodes'), i # 1
               PROVE  i - 1 \in 1..Len(nodes) /\ nodes'[i] = nodes[i - 1]
    OBVIOUS
  <2>1. i - 1 \in 1..Len(nodes) /\ (i - 1) + 1 = i
    BY <1>3
  <2> QED BY <1>3, <2>1
<1>8. _head' = IF nodes' = <<>> THEN Null ELSE nodes'[1]
  BY <1>1, <1>3
<1>9. _tail' = IF nodes' = <<>> THEN Null ELSE nodes'[Len(nodes')]
  <2>1. CASE nodes = <<>>
    BY <1>1, <1>3, <1>4, <1>5, <2>1
  <2>2. CASE nodes # <<>>
    <3>1. _tail = nodes[Len(nodes)] /\ Len(nodes) \in 1..Len(nodes)
      BY <1>2, <1>3, <1>4, <2>2 DEF ListInv, Linked
    <3> QED BY <1>1, <1>3, <1>5, <2>2, <3>1
  <2> QED BY <2>1, <2>2
<1>10. \A i \in 1..Len(nodes') :
         next'[nodes'[i]] = IF i = Len(nodes') THEN Null ELSE nodes'[i + 1]
  <2> SUFFICES ASSUME NEW i \in 1..Len(nodes')
               PROVE  next'[nodes'[i]] = IF i = Len(nodes') THEN Null ELSE nodes'[i + 1]
    OBVIOUS
  <2>1. CASE i = 1 /\ nodes = <<>>
    BY <1>1, <1>3, <1>4, <1>5, <2>1 DEF ListInv, Typed
  <2>2. CASE i = 1 /\ nodes # <<>>
    <3>1. _head = nodes[1] /\ 1 \in 1..Len(nodes) /\ nodes'[2] = nodes[1] /\ i # Len(nodes')
      BY <1>3, <1>4, <2>2 DEF ListInv, Linked
    <3> QED BY <1>1, <1>3, <1>5, <2>2, <3>1 DEF ListInv, Typed
  <2>3. CASE i # 1
    <3>1. i - 1 \in 1..Len(nodes) /\ nodes'[i] = nodes[i - 1]
      BY <1>7, <2>3
    <3>2. next'[nodes'[i]] = next[nodes[i - 1]]
      BY <1>1, <1>4, <3>1 DEF ListInv, Typed
    <3>3. next[nodes[i - 1]] = IF i - 1 = Len(nodes) THEN Null ELSE nodes[(i - 1) + 1]
      BY <3>1 DEF ListInv, Linked
    <3>4. i - 1 # Len(nodes) => i \in 1..Len(nodes) /\ nodes'[i + 1] = nodes[i]
      BY <1>3, <3>1
    <3> QED BY <1>3, <3>1, <3>2, <3>3, <3>4
  <2> QED BY <2>1, <2>2, <2>3
<1>11. \A i, j \in 1..Len(nodes') : nodes'[i] = nodes'[j] => i = j
  <2> SUFFICES ASSUME NEW i \in 1..Len(nodes'), NEW j \in 1..Len(nodes'), nodes'[i] = nodes'[j]
               PROVE  i = j
    OBVIOUS
  <2>1. CASE i = 1 \/ j = 1
    BY <1>3, <1>4, <1>7, <2>1
  <2>2. CASE i # 1 /\ j # 1
    <3>1. nodes[i - 1] = nodes[j - 1] /\ i - 1 \in 1..Len(nodes) /\ j - 1 \in 1..Len(nodes)
      BY <1>7, <2>2
    <3>2. i - 1 = j - 1
      BY <3>1 DEF ListInv, Linked
    <3> QED BY <3>2
  <2> QED BY <2>1, <2>2
<1>12. built' = {nodes'[i] : i \in 1..Len(nodes')}
  <2>1. ASSUME NEW n \in built' PROVE \E i \in 1..Len(nodes') : nodes'[i] = n
    <3>1. CASE n = node
      BY <1>3, <3>1
    <3>2. CASE n # node
      <4>1. PICK i \in 1..Len(nodes) : nodes[i] = n
        BY <1>1, <3>2 DEF ListInv, Linked
      <4> QED BY <1>3, <4>1
    <3> QED BY <3>1, <3>2
  <2>2. ASSUME NEW i \in 1..Len(nodes') PROVE nodes'[i] \in built'
    <3>1. CASE i = 1
      BY <1>1, <1>3, <3>1
    <3>2. CASE i # 1
      BY <1>1, <1>7, <3>2 DEF ListInv, Linked
    <3> QED BY <3>1, <3>2
  <2> QED BY <2>1, <2>2
<1>13. _size' = Len(nodes')
  BY <1>2, <1>3 DEF ListInv, Linked
<1> QED BY <1>6, <1>8, <1>9, <1>10, <1>11, <1>12, <1>13 DEF ListInv, Linked

LEMMA PushBackLinked ==
  ASSUME Null \notin Node, ListInv, NEW x \in Item, push_back(x)
  PROVE  ListInv'
<1>1. PICK node \in Node \ built :
        /\ built' = built \cup {node}
        /\ data' = [data EXCEPT ![node] = x]
        /\ next' = IF empty THEN [next EXCEPT ![node] = Null]
                            ELSE [next EXCEPT ![node] = Null, ![_tail] = node]
        /\ _head' = IF empty THEN node ELSE _head
        /\ _tail' = node
        /\ nodes' = Append(nodes, node)
  BY DEF push_back
<1>2. ~clearing /\ _size' = _size + 1 /\ clearing' = clearing /\ seen' = seen
  BY DEF push_back
<1>3. /\ nodes \in Seq(Node) /\ Len(nodes) \in Nat
      /\ nodes' \in Seq(Node) /\ Len(nodes') = Len(nodes) + 1 /\ nodes' # <<>>
      /\ nodes'[Len(nodes) + 1] = node /\ \A i \in 1..Len(nodes) : nodes'[i] = nodes[i]
  BY <1>1, AppendIndex, EmptyLength DEF ListInv, Typed
<1>4. /\ \A i \in 1..Len(nodes) : nodes[i] # node /\ nodes[i] \in Node
      /\ (nodes = <<>>) = (Len(nodes) = 0)
  BY <1>1, <1>3, EmptyLength DEF ListInv, Linked
<1>5. empty <=> nodes = <<>>
  BY EmptyNodes
<1>6. nodes # <<>> => Len(nodes) \in 1..Len(nodes) /\ _tail = nodes[Len(nodes)]
  BY <1>2, <1>3, <1>4 DEF ListInv, Linked
<1>7. Typed'
  BY <1>1, <1>2, <1>3 DEF ListInv, Typed
<1>8. _head' = nodes'[1]
  <2>1. CASE nodes = <<>>
    BY <1>1, <1>3, <1>4, <1>5, <2>1
  <2>2. CASE nodes # <<>>
    <3>1. _head = nodes[1] /\ 1 \in 1..Len(nodes)
      BY <1>3, <1>4, <2>2 DEF ListInv, Linked
    <3> QED BY <1>1, <1>3, <1>5, <2>2, <3>1
  <2> QED BY <2>1, <2>2
<1>9. \A i \in 1..Len(nodes') : i = Len(nodes) + 1 \/ i \in 1..Len(nodes)
  BY <1>3
<1>10. \A i \in 1..Len(nodes') :
         next'[nodes'[i]] = IF i = Len(nodes') THEN Null ELSE nodes'[i + 1]
  <2> SUFFICES ASSUME NEW i \in 1..Len(nodes')
               PROVE  next'[nodes'[i]] = IF i = Len(nodes') THEN Null ELSE nodes'[i + 1]
    OBVIOUS
  <2>1. CASE i = Len(nodes) + 1
    <3>1. next'[node] = Null
      <4>1. CASE nodes = <<>>
        BY <1>1, <1>5, <4>1 DEF ListInv, Typed
      <4>2. CASE nodes # <<>>
        <5>1. _tail # node /\ _tail \in Node
          BY <1>4, <1>6, <4>2
        <5> QED BY <1>1, <1>5, <4>2, <5>1 DEF ListInv, Typed
      <4> QED BY <4>1, <4>2
    <3> QED BY <1>3, <2>1, <3>1
  <2>2. CASE i \in 1..Len(nodes) /\ i # Len(nodes)
    <3>1. nodes # <<>> /\ i + 1 \in 1..Len(nodes) /\ i # Len(nodes')
      BY <1>3, <1>4, <2>2
    <3>2. nodes[i] # _tail /\ nodes[i] # node /\ nodes[i] \in Node
      BY <1>4, <1>6, <2>2, <3>1 DEF ListInv, Linked
    <3>3. next'[nodes[i]] = next[nodes[i]]
      BY <1>1, <1>5, <3>1, <3>2 DEF ListInv, Typed
    <3>4. next[nodes[i]] = nodes[i + 1]
      BY <2>2 DEF ListInv, Linked
    <3> QED BY <1>3, <2>2, <3>1, <3>3, <3>4
  <2>3. CASE i \in 1..Len(nodes) /\ i = Len(nodes)
    <3>1. nodes # <<>> /\ _tail = nodes[i] /\ _tail \in Node
      BY <1>4, <1>6, <2>3
    <3>2. next'[_tail] = node
      BY <1>1, <1>5, <3>1 DEF ListInv, Typed
    <3> QED BY <1>3, <2>3, <3>1, <3>2
  <2> QED BY <1>9, <2>1, <2>2, <2>3
<1>11. \A i, j \in 1..Len(nodes') : nodes'[i] = nodes'[j] => i = j
  <2> SUFFICES ASSUME NEW i \in 1..Len(nodes'), NEW j \in 1..Len(nodes'), nodes'[i] = nodes'[j]
               PROVE  i = j
    OBVIOUS
  <2>1. CASE i = Len(nodes) + 1 \/ j = Len(nodes) + 1
    BY <1>3, <1>4, <1>9, <2>1
  <2>2. CASE i \in 1..Len(nodes) /\ j \in 1..Len(nodes)
    <3>1. nodes[i] = nodes[j]
      BY <1>3, <2>2
    <3> QED BY <2>2, <3>1 DEF ListInv, Linked
  <2> QED BY <1>9, <2>1, <2>2
<1>12. built' = {nodes'[i] : i \in 1..Len(nodes')}
  <2>1. ASSUME NEW n \in built' PROVE \E i \in 1..Len(nodes') : nodes'[i] = n
    <3>1. CASE n = node
      <4>1. Len(nodes) + 1 \in 1..Len(nodes')
        BY <1>3
      <4> QED BY <1>3, <3>1, <4>1
    <3>2. CASE n # node
      <4>1. PICK i \in 1..Len(nodes) : nodes[i] = n
        BY <1>1, <3>2 DEF ListInv, Linked
      <4> QED BY <1>3, <4>1
    <3> QED BY <3>1, <3>2
  <2>2. ASSUME NEW i \in 1..Len(nodes') PROVE nodes'[i] \in built'
    <3>1. CASE i = Len(nodes) + 1
      BY <1>1, <1>3, <3>1
    <3>2. CASE i \in 1..Len(nodes)
      BY <1>1, <1>3, <3>2 DEF ListInv, Linked
    <3> QED BY <1>9, <3>1, <3>2
  <2> QED BY <2>1, <2>2
<1>13. _size' = Len(nodes') /\ _tail' = nodes'[Len(nodes')]
  BY <1>1, <1>2, <1>3 DEF ListInv, Linked
<1> QED BY <1>3, <1>7, <1>8, <1>10, <1>11, <1>12, <1>13 DEF ListInv, Linked

\* What pop_front() and the loop of clear() have in common: the front node goes.
LEMMA UnlinkLemma ==
  ASSUME Null \notin Node, ListInv, ~empty,
         _head' = next[_head], built' = built \ {_head}, _size' = _size - 1,
         nodes' = Tail(nodes), UNCHANGED <<next, data, seen>>, clearing' \in BOOLEAN
  PROVE  /\ Typed'
         /\ _head' = IF nodes' = <<>> THEN Null ELSE nodes'[1]
         /\ \A i \in 1..Len(nodes') :
              next'[nodes'[i]] = IF i = Len(nodes') THEN Null ELSE nodes'[i + 1]
         /\ \A i, j \in 1..Len(nodes') : nodes'[i] = nodes'[j] => i = j
         /\ built' = {nodes'[i] : i \in 1..Len(nodes')}
         /\ _size' = Len(nodes')
         /\ Len(nodes) \in Nat \ {0} /\ Len(nodes') = Len(nodes) - 1
         /\ (nodes' = <<>>) = (Len(nodes) = 1)
         /\ nodes' # <<>> => nodes'[Len(nodes')] = nodes[Len(nodes)]
         /\ _head = nodes[1]
<1>1. nodes # <<>> /\ nodes \in Seq(Node)
  BY EmptyNodes DEF ListInv, Typed
<1>2. /\ nodes' \in Seq(Node) /\ Len(nodes') = Len(nodes) - 1
      /\ \A i \in 1..(Len(nodes) - 1) : nodes'[i] = nodes[i + 1]
      /\ Len(nodes) \in Nat \ {0} /\ (nodes' = <<>>) = (Len(nodes) = 1)
  BY <1>1, TailIndex
<1>3. \A i \in 1..Len(nodes') : i + 1 \in 1..Len(nodes) /\ nodes'[i] = nodes[i + 1]
  BY <1>2
<1>4. _head = nodes[1] /\ 1 \in 1..Len(nodes)
  BY <1>1, <1>2 DEF ListInv, Linked
<1>5. Typed'
  BY <1>2 DEF ListInv, Typed
<1>6. _head' = IF nodes' = <<>> THEN Null ELSE nodes'[1]
  <2>1. next[nodes[1]] = IF 1 = Len(nodes) THEN Null ELSE nodes[1 + 1]
    BY <1>4 DEF ListInv, Linked
  <2>2. CASE Len(nodes) = 1
    BY <1>2, <1>4, <2>1, <2>2
  <2>3. CASE Len(nodes) # 1
    <3>1. 1 \in 1..Len(nodes')
      BY <1>2, <2>3
    <3> QED BY <1>2, <1>3, <1>4, <2>1, <2>3, <3>1
  <2> QED BY <2>2, <2>3
<1>7. \A i \in 1..Len(nodes') :
        next'[nodes'[i]] = IF i = Len(nodes') THEN Null ELSE nodes'[i + 1]
  <2> SUFFICES ASSUME NEW i \in 1..Len(nodes')
               PROVE  next'[nodes'[i]] = IF i = Len(nodes') THEN Null ELSE nodes'[i + 1]
    OBVIOUS
  <2>1. next[nodes[i + 1]] = IF i + 1 = Len(nodes) THEN Null ELSE nodes[(i + 1) + 1]
    BY <1>3 DEF ListInv, Linked
  <2>2. next'[nodes'[i]] = next[nodes[i + 1]]
    BY <1>3
  <2>3. Len(nodes') \in Nat /\ (i = Len(nodes') <=> i + 1 = Len(nodes))
    BY <1>2
  <2>4. CASE i = Len(nodes')
    BY <2>1, <2>2, <2>3, <2>4
  <2>5. CASE i # Len(nodes')
    <3>1. i + 1 \in 1..Len(nodes')
      BY <2>3, <2>5
    <3>2. nodes'[i + 1] = nodes[(i + 1) + 1]
      BY <1>3, <3>1
    <3> QED BY <2>1, <2>2, <2>3, <2>5, <3>2
  <2> QED BY <2>4, <2>5
<1>8. \A i, j \in 1..Len(nodes') : nodes'[i] = nodes'[j] => i = j
  <2> SUFFICES ASSUME NEW i \in 1..Len(nodes'), NEW j \in 1..Len(nodes'), nodes'[i] = nodes'[j]
               PROVE  i = j
    OBVIOUS
  <2>1. nodes[i + 1] = nodes[j + 1] /\ i + 1 \in 1..Len(nodes) /\ j + 1 \in 1..Len(nodes)
    BY <1>3
  <2>2. i + 1 = j + 1
    BY <2>1 DEF ListInv, Linked
  <2> QED BY <2>2
<1>9. built' = {nodes'[i] : i \in 1..Len(nodes')}
  <2>1. ASSUME NEW n \in built' PROVE \E i \in 1..Len(nodes') : nodes'[i] = n
    <3>1. PICK j \in 1..Len(nodes) : nodes[j] = n
      BY DEF ListInv, Linked
    <3>2. j # 1
      BY <1>4, <3>1
    <3>3. j - 1 \in 1..Len(nodes') /\ (j - 1) + 1 = j
      BY <1>2, <3>2
    <3> QED BY <1>3, <3>1, <3>3
  <2>2. ASSUME NEW i \in 1..Len(nodes') PROVE nodes'[i] \in built'
    <3>1. nodes'[i] = nodes[i + 1] /\ i + 1 \in 1..Len(nodes) /\ i + 1 # 1
      BY <1>3
    <3>2. nodes[i + 1] # nodes[1]
      BY <1>4, <3>1 DEF ListInv, Linked
    <3> QED BY <1>4, <3>1, <3>2 DEF ListInv, Linked
  <2> QED BY <2>1, <2>2
<1>10. nodes' # <<>> => nodes'[Len(nodes')] = nodes[Len(nodes)]
  <2> SUFFICES ASSUME nodes' # <<>> PROVE nodes'[Len(nodes')] = nodes[Len(nodes)]
    OBVIOUS
  <2>1. Len(nodes') \in 1..Len(nodes') /\ Len(nodes') + 1 = Len(nodes)
    BY <1>2
  <2> QED BY <1>3, <2>1
<1>11. _size' = Len(nodes')
  BY <1>2 DEF ListInv, Linked
<1> QED BY <1>2, <1>4, <1>5, <1>6, <1>7, <1>8, <1>9, <1>10, <1>11

LEMMA PopLinked ==
  ASSUME Null \notin Node, ListInv, pop_front
  PROVE  ListInv'
<1>1. /\ ~clearing /\ clearing' = clearing /\ ~empty
      /\ _head' = next[_head] /\ built' = built \ {_head} /\ _size' = _size - 1
      /\ nodes' = Tail(nodes) /\ UNCHANGED <<next, data, seen>>
      /\ _tail' = IF _head = _tail THEN Null ELSE _tail
  BY DEF pop_front
<1>2. /\ Typed'
      /\ _head' = IF nodes' = <<>> THEN Null ELSE nodes'[1]
      /\ \A i \in 1..Len(nodes') :
           next'[nodes'[i]] = IF i = Len(nodes') THEN Null ELSE nodes'[i + 1]
      /\ \A i, j \in 1..Len(nodes') : nodes'[i] = nodes'[j] => i = j
      /\ built' = {nodes'[i] : i \in 1..Len(nodes')}
      /\ _size' = Len(nodes')
      /\ Len(nodes) \in Nat \ {0} /\ (nodes' = <<>>) = (Len(nodes) = 1)
      /\ nodes' # <<>> => nodes'[Len(nodes')] = nodes[Len(nodes)]
      /\ _head = nodes[1]
  <2>1. clearing' \in BOOLEAN
    BY <1>1 DEF ListInv, Typed
  <2> QED BY <1>1, <2>1, UnlinkLemma
<1>3. _tail = nodes[Len(nodes)]
  <2>1. nodes # <<>>
    BY <1>1, EmptyNodes
  <2> QED BY <1>1, <2>1 DEF ListInv, Linked
<1>4. _head = _tail <=> Len(nodes) = 1
  <2>1. 1 \in 1..Len(nodes) /\ Len(nodes) \in 1..Len(nodes)
    BY <1>2
  <2>2. nodes[1] = nodes[Len(nodes)] => 1 = Len(nodes)
    BY <2>1 DEF ListInv, Linked
  <2> QED BY <1>2, <1>3, <2>2
<1>5. _tail' = IF nodes' = <<>> THEN Null ELSE nodes'[Len(nodes')]
  BY <1>1, <1>2, <1>3, <1>4
<1> QED BY <1>2, <1>5 DEF ListInv, Linked

LEMMA ClearNodeLinked ==
  ASSUME Null \notin Node, ListInv, ClearNode
  PROVE  ListInv'
<1>1. /\ clearing /\ clearing' = clearing /\ ~empty
      /\ _head' = next[_head] /\ built' = built \ {_head} /\ _size' = _size - 1
      /\ nodes' = Tail(nodes) /\ UNCHANGED <<next, data, seen>>
  BY DEF ClearNode
<1>2. clearing' \in BOOLEAN /\ clearing'
  BY <1>1 DEF ListInv, Typed
<1> QED BY <1>1, <1>2, UnlinkLemma DEF ListInv, Linked

LEMMA StepLinked ==
  ASSUME Null \notin Node, ListInv, [ListNext]_listVars
  PROVE  ListInv'
<1>1. ASSUME NEW x \in Item, push_front(x) PROVE ListInv'
  BY <1>1, PushFrontLinked
<1>2. ASSUME NEW x \in Item, push_back(x) PROVE ListInv'
  BY <1>2, PushBackLinked
<1>3. CASE pop_front
  BY <1>3, PopLinked
<1>4. CASE front
  <2>1. empty <=> nodes = <<>>
    BY EmptyNodes
  <2>2. ~empty => data[_head] \in Item
    <3> SUFFICES ASSUME ~empty PROVE data[_head] \in Item
      OBVIOUS
    <3>1. _head = nodes[1] /\ 1 \in 1..Len(nodes)
      BY <2>1, EmptyLength DEF ListInv, Linked, Typed
    <3>2. _head \in Node
      BY <3>1 DEF ListInv, Typed
    <3> QED BY <3>2 DEF ListInv, Typed
  <2>3. Typed'
    BY <1>4, <2>2 DEF front, ListInv, Typed
  <2>4. Linked'
    BY <1>4 DEF front, ListInv, Linked
  <2> QED BY <2>3, <2>4 DEF ListInv
<1>5. CASE clear
  BY <1>5 DEF clear, ListInv, Typed, Linked
<1>6. CASE ClearNode
  BY <1>6, ClearNodeLinked
<1>7. CASE ClearEnd
  <2>1. nodes = <<>> /\ _head = Null
    BY <1>7, EmptyNodes DEF ClearEnd, empty
  <2>2. Typed'
    BY <1>7 DEF ClearEnd, ListInv, Typed
  <2>3. _tail' = Null /\ UNCHANGED <<_head, _size, next, built, nodes>>
    BY <1>7, <2>1 DEF ClearEnd
  <2>4. Linked'
    BY <2>1, <2>3 DEF ListInv, Linked
  <2> QED BY <2>2, <2>4 DEF ListInv
<1>8. CASE UNCHANGED listVars
  BY <1>8 DEF listVars, ListInv, Typed, Linked
<1> QED BY <1>1, <1>2, <1>3, <1>4, <1>5, <1>6, <1>7, <1>8 DEF ListNext

\* For any number of nodes and items, the links, both pointers and the counter
\* agree, every node is on the list once, and the pool has out exactly the nodes
\* of the list (push_front, push_back, pop_front and clear of list.h).
THEOREM ListLinked == ASSUME Null \notin Node PROVE ListSpec => []Linked
<1>1. ListInit => ListInv
  BY InitLinked
<1>2. ListInv /\ [ListNext]_listVars => ListInv'
  BY StepLinked
<1>3. ListInv => Linked
  BY DEF ListInv
<1> QED BY <1>1, <1>2, <1>3, PTL DEF ListSpec

-----------------------------------------------------------------------------
(* list_t implements ItemList *)

\* Sequences of the same length with the same elements are equal.
LEMMA SameElements ==
  ASSUME NEW S, NEW s \in Seq(S), NEW t \in Seq(S), Len(s) = Len(t),
         \A i \in 1..Len(s) : s[i] = t[i]
  PROVE  s = t
  OBVIOUS

\* A function on 1..n is a sequence of length n.
LEMMA IsSeq ==
  ASSUME NEW S, NEW n \in Nat, NEW f \in [1..n -> S]
  PROVE  f \in Seq(S) /\ Len(f) = n
  OBVIOUS

LEMMA DataSeq ==
  ASSUME NEW ns \in Seq(Node), NEW d \in [Node -> Item],
         NEW s, s = [i \in 1..Len(ns) |-> d[ns[i]]]
  PROVE  /\ s \in Seq(Item) /\ Len(s) = Len(ns) /\ Len(ns) \in Nat
         /\ \A i \in 1..Len(ns) : s[i] = d[ns[i]] /\ ns[i] \in Node
         /\ (s = <<>>) = (ns = <<>>)
<1>1. Len(ns) \in Nat /\ (ns = <<>>) = (Len(ns) = 0)
  BY EmptyLength
<1>2. \A i \in 1..Len(ns) : ns[i] \in Node
  BY <1>1
<1>3. s \in [1..Len(ns) -> Item]
  BY <1>2
<1>4. s \in Seq(Item) /\ Len(s) = Len(ns)
  BY <1>1, <1>3, IsSeq
<1>5. (s = <<>>) = (Len(s) = 0)
  BY <1>4, EmptyLength
<1>6. \A i \in 1..Len(ns) : s[i] = d[ns[i]]
  OBVIOUS
<1> QED BY <1>1, <1>2, <1>4, <1>5, <1>6

LEMMA ItemsSeq ==
  ASSUME ListInv
  PROVE  /\ Items \in Seq(Item) /\ Len(Items) = Len(nodes)
         /\ \A i \in 1..Len(nodes) : Items[i] = data[nodes[i]] /\ nodes[i] \in Node
         /\ Len(nodes) \in Nat
         /\ (Items = <<>>) = (nodes = <<>>)
<1>1. nodes \in Seq(Node) /\ data \in [Node -> Item]
  BY DEF ListInv, Typed
<1>2. Items = [i \in 1..Len(nodes) |-> data[nodes[i]]]
  BY DEF Items
<1> QED BY <1>1, <1>2, DataSeq

\* The same, a step later.
LEMMA ItemsSeqNext ==
  ASSUME ListInv'
  PROVE  /\ Items' \in Seq(Item) /\ Len(Items') = Len(nodes')
         /\ \A i \in 1..Len(nodes') : Items'[i] = data'[nodes'[i]]
<1>1. nodes' \in Seq(Node) /\ data' \in [Node -> Item]
  BY DEF ListInv, Typed
<1>2. Items' = [i \in 1..Len(nodes') |-> data'[nodes'[i]]]
  BY DEF Items
<1> QED BY <1>1, <1>2, DataSeq

LEMMA PushFrontItems ==
  ASSUME Null \notin Node, ListInv, ListInv', NEW x \in Item, push_front(x)
  PROVE  I!PushFront(x)
<1>1. PICK node \in Node \ built :
        data' = [data EXCEPT ![node] = x] /\ nodes' = <<node>> \o nodes
  BY DEF push_front
<1>2. /\ nodes \in Seq(Node) /\ \A i \in 1..Len(nodes) : nodes[i] # node
  BY <1>1 DEF ListInv, Typed, Linked
<1>3. /\ Len(nodes') = Len(nodes) + 1 /\ nodes'[1] = node
      /\ \A i \in 1..Len(nodes) : nodes'[i + 1] = nodes[i]
  BY <1>1, <1>2, PrependIndex
<1>4. /\ Items \in Seq(Item) /\ Len(Items) = Len(nodes) /\ Len(nodes) \in Nat
      /\ \A i \in 1..Len(nodes) : Items[i] = data[nodes[i]] /\ nodes[i] \in Node
  BY ItemsSeq
<1>5. /\ Items' \in Seq(Item) /\ Len(Items') = Len(nodes')
      /\ \A i \in 1..Len(nodes') : Items'[i] = data'[nodes'[i]]
  BY ItemsSeqNext
<1>6. /\ <<x>> \o Items \in Seq(Item) /\ Len(<<x>> \o Items) = Len(Items) + 1
      /\ (<<x>> \o Items)[1] = x
      /\ \A i \in 1..Len(Items) : (<<x>> \o Items)[i + 1] = Items[i]
  BY <1>4, PrependIndex
<1>7. \A i \in 1..Len(Items') : Items'[i] = (<<x>> \o Items)[i]
  <2> SUFFICES ASSUME NEW i \in 1..Len(Items') PROVE Items'[i] = (<<x>> \o Items)[i]
    OBVIOUS
  <2>1. CASE i = 1
    <3>1. data'[node] = x
      BY <1>1 DEF ListInv, Typed
    <3>2. Items'[i] = data'[nodes'[i]]
      BY <1>5
    <3> QED BY <1>3, <1>6, <2>1, <3>1, <3>2
  <2>2. CASE i # 1
    <3>1. PICK j \in 1..Len(nodes) : i = j + 1
      <4>1. i - 1 \in 1..Len(nodes) /\ i = (i - 1) + 1
        BY <1>3, <1>4, <1>5, <2>2
      <4> QED BY <4>1
    <3>2. nodes'[i] = nodes[j] /\ nodes[j] # node /\ nodes[j] \in Node
      BY <1>2, <1>3, <1>4, <3>1
    <3>3. data'[nodes'[i]] = data[nodes[j]]
      BY <1>1, <3>2 DEF ListInv, Typed
    <3>4. Items'[i] = Items[j]
      BY <1>4, <1>5, <3>1, <3>3
    <3> QED BY <1>4, <1>6, <3>1, <3>4
  <2> QED BY <2>1, <2>2
<1>8. Items' = <<x>> \o Items
  <2>1. Items' \in Seq(Item) /\ (<<x>> \o Items) \in Seq(Item)
    BY <1>5, <1>6
  <2>2. Len(Items') = Len(<<x>> \o Items)
    BY <1>3, <1>4, <1>5, <1>6
  <2> QED BY <1>7, <2>1, <2>2, SameElements, Zenon
<1> QED BY <1>8 DEF I!PushFront, push_front

LEMMA PushBackItems ==
  ASSUME Null \notin Node, ListInv, ListInv', NEW x \in Item, push_back(x)
  PROVE  I!PushBack(x)
<1>1. PICK node \in Node \ built :
        data' = [data EXCEPT ![node] = x] /\ nodes' = Append(nodes, node)
  BY DEF push_back
<1>2. /\ nodes \in Seq(Node) /\ \A i \in 1..Len(nodes) : nodes[i] # node
  BY <1>1 DEF ListInv, Typed, Linked
<1>3. /\ Len(nodes') = Len(nodes) + 1 /\ nodes'[Len(nodes) + 1] = node
      /\ \A i \in 1..Len(nodes) : nodes'[i] = nodes[i]
  BY <1>1, <1>2, AppendIndex
<1>4. /\ Items \in Seq(Item) /\ Len(Items) = Len(nodes) /\ Len(nodes) \in Nat
      /\ \A i \in 1..Len(nodes) : Items[i] = data[nodes[i]] /\ nodes[i] \in Node
  BY ItemsSeq
<1>5. /\ Items' \in Seq(Item) /\ Len(Items') = Len(nodes')
      /\ \A i \in 1..Len(nodes') : Items'[i] = data'[nodes'[i]]
  BY ItemsSeqNext
<1>6. /\ Append(Items, x) \in Seq(Item) /\ Len(Append(Items, x)) = Len(Items) + 1
      /\ Append(Items, x)[Len(Items) + 1] = x
      /\ \A i \in 1..Len(Items) : Append(Items, x)[i] = Items[i]
  BY <1>4, AppendIndex
<1>7. \A i \in 1..Len(Items') : Items'[i] = Append(Items, x)[i]
  <2> SUFFICES ASSUME NEW i \in 1..Len(Items') PROVE Items'[i] = Append(Items, x)[i]
    OBVIOUS
  <2>1. CASE i = Len(nodes) + 1
    <3>1. data'[node] = x
      BY <1>1 DEF ListInv, Typed
    <3>2. Items'[i] = data'[nodes'[i]]
      BY <1>5
    <3> QED BY <1>3, <1>4, <1>6, <2>1, <3>1, <3>2
  <2>2. CASE i # Len(nodes) + 1
    <3>1. i \in 1..Len(nodes)
      BY <1>3, <1>4, <1>5, <2>2
    <3>2. nodes'[i] = nodes[i] /\ nodes[i] # node /\ nodes[i] \in Node
      BY <1>2, <1>3, <1>4, <3>1
    <3>3. data'[nodes'[i]] = data[nodes[i]]
      BY <1>1, <3>2 DEF ListInv, Typed
    <3>4. Items'[i] = Items[i]
      BY <1>4, <1>5, <3>1, <3>3
    <3> QED BY <1>4, <1>6, <3>1, <3>4
  <2> QED BY <2>1, <2>2
<1>8. Items' = Append(Items, x)
  <2>1. Items' \in Seq(Item) /\ Append(Items, x) \in Seq(Item)
    BY <1>5, <1>6
  <2>2. Len(Items') = Len(Append(Items, x))
    BY <1>3, <1>4, <1>5, <1>6
  <2> QED BY <1>7, <2>1, <2>2, SameElements, Zenon
<1> QED BY <1>8 DEF I!PushBack, push_back

LEMMA PopItems ==
  ASSUME Null \notin Node, ListInv, ListInv', ~empty, nodes' = Tail(nodes), UNCHANGED <<data, seen>>
  PROVE  I!PopFront
<1>1. nodes # <<>> /\ nodes \in Seq(Node)
  BY EmptyNodes DEF ListInv, Typed
<1>2. /\ Len(nodes') = Len(nodes) - 1 /\ Len(nodes) \in Nat \ {0}
      /\ \A i \in 1..(Len(nodes) - 1) : nodes'[i] = nodes[i + 1]
  BY <1>1, TailIndex
<1>3. /\ Items \in Seq(Item) /\ Len(Items) = Len(nodes) /\ Items # <<>>
      /\ \A i \in 1..Len(nodes) : Items[i] = data[nodes[i]]
  BY <1>1, ItemsSeq
<1>4. /\ Items' \in Seq(Item) /\ Len(Items') = Len(nodes')
      /\ \A i \in 1..Len(nodes') : Items'[i] = data'[nodes'[i]]
  BY ItemsSeqNext
<1>5. /\ Tail(Items) \in Seq(Item) /\ Len(Tail(Items)) = Len(Items) - 1
      /\ \A i \in 1..(Len(Items) - 1) : Tail(Items)[i] = Items[i + 1]
  BY <1>3, TailIndex
<1>6. \A i \in 1..Len(Items') : Items'[i] = Tail(Items)[i]
  <2> SUFFICES ASSUME NEW i \in 1..Len(Items') PROVE Items'[i] = Tail(Items)[i]
    OBVIOUS
  <2>1. i \in 1..(Len(nodes) - 1) /\ i + 1 \in 1..Len(nodes)
    BY <1>2, <1>4
  <2>2. Items'[i] = data[nodes[i + 1]]
    BY <1>2, <1>4, <2>1
  <2> QED BY <1>3, <1>5, <2>1, <2>2
<1>7. Items' = Tail(Items)
  <2>1. Items' \in Seq(Item) /\ Tail(Items) \in Seq(Item)
    BY <1>4, <1>5
  <2>2. Len(Items') = Len(Tail(Items))
    BY <1>2, <1>3, <1>4, <1>5
  <2> QED BY <1>6, <2>1, <2>2, SameElements, Zenon
<1> QED BY <1>3, <1>7 DEF I!PopFront

LEMMA FrontItems ==
  ASSUME Null \notin Node, ListInv, front
  PROVE  I!Front
<1>1. UNCHANGED Items
  BY DEF front, Items
<1>2. empty <=> Items = <<>>
  BY EmptyNodes, ItemsSeq
<1>3. ~empty => Head(Items) = data[_head]
  <2> SUFFICES ASSUME ~empty PROVE Head(Items) = data[_head]
    OBVIOUS
  <2>1. nodes # <<>> /\ 1 \in 1..Len(nodes)
    BY EmptyNodes, EmptyLength DEF ListInv, Typed
  <2>2. _head = nodes[1]
    BY <2>1 DEF ListInv, Linked
  <2>3. Items[1] = data[nodes[1]] /\ Items \in Seq(Item) /\ Items # <<>>
    BY <2>1, ItemsSeq
  <2>4. Head(Items) = Items[1]
    BY <2>3
  <2> QED BY <2>2, <2>3, <2>4
<1> QED BY <1>1, <1>2, <1>3 DEF I!Front, front

LEMMA StepItems ==
  ASSUME Null \notin Node, ListInv, ListInv', [ListNext]_listVars
  PROVE  [I!Next]_<<Items, seen>>
<1>1. ASSUME NEW x \in Item, push_front(x) PROVE I!Next
  BY <1>1, PushFrontItems DEF I!Next
<1>2. ASSUME NEW x \in Item, push_back(x) PROVE I!Next
  BY <1>2, PushBackItems DEF I!Next
<1>3. CASE pop_front
  <2>1. ~empty /\ nodes' = Tail(nodes) /\ UNCHANGED <<data, seen>>
    BY <1>3 DEF pop_front
  <2> QED BY <2>1, PopItems DEF I!Next
<1>4. CASE front
  BY <1>4, FrontItems DEF I!Next
<1>5. CASE ClearNode
  <2>1. ~empty /\ nodes' = Tail(nodes) /\ UNCHANGED <<data, seen>>
    BY <1>5 DEF ClearNode
  <2> QED BY <2>1, PopItems DEF I!Next
<1>6. CASE clear \/ ClearEnd \/ UNCHANGED listVars
  BY <1>6 DEF clear, ClearEnd, listVars, Items
<1> QED BY <1>1, <1>2, <1>3, <1>4, <1>5, <1>6 DEF ListNext

LEMMA InitItems == ListInit => I!Init
<1> SUFFICES ASSUME ListInit PROVE I!Init
  OBVIOUS
<1>1. ListInv
  BY InitLinked
<1>2. Items = <<>>
  BY <1>1, ItemsSeq DEF ListInit
<1> QED BY <1>2 DEF ListInit, I!Init

\* list_t implements ItemList for any number of nodes and items: what Coroutine
\* and Cothread assume of their lists of children.
THEOREM ImplementsList == ASSUME Null \notin Node PROVE ListSpec => SequenceSpec
<1>1. ListInit => ListInv /\ I!Init
  BY InitLinked, InitItems
<1>2. ListInv /\ [ListNext]_listVars => ListInv'
  BY StepLinked
<1>3. ListInv /\ ListInv' /\ [ListNext]_listVars => [I!Next]_<<Items, seen>>
  BY StepItems
<1> QED BY <1>1, <1>2, <1>3, PTL DEF ListSpec, SequenceSpec, I!Spec

-----------------------------------------------------------------------------
(* linked_allocator_t *)

\* The invariants together are inductive: a link is right only as long as no
\* user holds the block it is in.
AllocInv == TypeOK /\ ListIntact /\ OneOwner /\ CacheBounded

\* What pop_front leaves.
LEMMA TailLemma ==
  ASSUME NEW S, NEW s \in Seq(S), s # <<>>
  PROVE  /\ Tail(s) \in Seq(S)
         /\ Len(Tail(s)) = Len(s) - 1
         /\ \A i \in 1..Len(s) - 1 : Tail(s)[i] = s[i + 1]
         /\ Len(s) \in Nat \ {0}
  OBVIOUS

\* What push_front makes.
LEMMA ConsLemma ==
  ASSUME NEW S, NEW s \in Seq(S), NEW b \in S
  PROVE  /\ <<b>> \o s \in Seq(S)
         /\ Len(<<b>> \o s) = Len(s) + 1
         /\ (<<b>> \o s)[1] = b
         /\ \A i \in 2..Len(s) + 1 : (<<b>> \o s)[i] = s[i - 1]
  OBVIOUS

\* The blocks of a new chunk are a sequence of distinct blocks.
LEMMA ChunkLemma ==
  ASSUME NEW n \in 1..ChunkSize + 1, NEW s \in Chunks(n), system \subseteq Block
  PROVE  /\ s \in Seq(Block) /\ s # <<>> /\ Len(s) = n
         /\ \A i \in 1..n : s[i] \in system
         /\ \A i, j \in 1..n : s[i] = s[j] => i = j
<1>1. n \in Nat /\ n >= 1
  BY ChunkAssumption
<1>2. s \in [1..n -> system] /\ \A i, j \in 1..n : s[i] = s[j] => i = j
  BY DEF Chunks
<1>3. s \in [1..n -> Block]
  BY <1>2
<1>4. s \in Seq(Block) /\ Len(s) = n
  BY <1>1, <1>3
<1> QED BY <1>1, <1>2, <1>4

\* Each block of a new chunk is linked to the next one, the last one to null.
LEMMA ThreadedLemma ==
  ASSUME NEW s \in Seq(Block), link \in [Block -> Pointer],
         \A i, j \in 1..Len(s) : s[i] = s[j] => i = j
  PROVE  /\ Threaded(s) \in [Block -> Pointer]
         /\ \A i \in 1..Len(s) :
              Threaded(s)[s[i]] = IF i = Len(s) THEN NULL ELSE s[i + 1]
         /\ \A b \in Block : (\A i \in 1..Len(s) : s[i] # b) => Threaded(s)[b] = link[b]
<1>1. ASSUME NEW i \in 1..Len(s)
      PROVE  Threaded(s)[s[i]] = IF i = Len(s) THEN NULL ELSE s[i + 1]
  <2>1. s[i] \in Block
    OBVIOUS
  <2>2. (CHOOSE j \in 1..Len(s) : s[j] = s[i]) = i
    OBVIOUS
  <2> QED BY <2>1, <2>2 DEF Threaded
<1>2. ASSUME NEW b \in Block, \A i \in 1..Len(s) : s[i] # b
      PROVE  Threaded(s)[b] = link[b]
  BY <1>2 DEF Threaded
<1>3. ASSUME NEW b \in Block PROVE Threaded(s)[b] \in Pointer
  <2>1. CASE \A i \in 1..Len(s) : s[i] # b
    BY <1>2, <2>1
  <2>2. CASE \E i \in 1..Len(s) : s[i] = b
    <3>1. PICK i \in 1..Len(s) : s[i] = b
      BY <2>2
    <3>2. i # Len(s) => i + 1 \in 1..Len(s)
      OBVIOUS
    <3> QED BY <1>1, <3>1, <3>2 DEF Pointer
  <2> QED BY <2>1, <2>2
<1>4. Threaded(s) = [b \in Block |-> Threaded(s)[b]]
  BY DEF Threaded
<1> QED BY <1>1, <1>2, <1>3, <1>4

-----------------------------------------------------------------------------
(* The steps *)

LEMMA InitAlloc == AllocInit => AllocInv
  BY ChunkAssumption
  DEF AllocInit, AllocInv, TypeOK, ListIntact, OneOwner, CacheBounded, Pointer

LEMMA ExpandStep ==
  ASSUME AllocInv, NEW n \in 1..ChunkSize + 1, NEW s \in Chunks(n), MallocExpand(s)
  PROVE  AllocInv'
<1> USE DEF AllocInv
<1>1. /\ s \in Seq(Block) /\ s # <<>> /\ Len(s) = n
      /\ \A i \in 1..n : s[i] \in system
      /\ \A i, j \in 1..n : s[i] = s[j] => i = j
  BY ChunkLemma DEF TypeOK
<1>2. /\ Tail(s) \in Seq(Block) /\ Len(Tail(s)) = n - 1 /\ n \in Nat \ {0}
      /\ \A i \in 1..n - 1 : Tail(s)[i] = s[i + 1]
  BY <1>1, TailLemma
<1>3. /\ link' \in [Block -> Pointer]
      /\ \A i \in 1..n : link'[s[i]] = IF i = n THEN NULL ELSE s[i + 1]
  BY <1>1, ThreadedLemma DEF MallocExpand, TypeOK
<1>4. cached = <<>> /\ _free_blocks = 0
  BY NullAssumption DEF MallocExpand, ListIntact, TypeOK
<1>5. s[1] \in Block /\ s[1] \in system
  BY <1>1, <1>2
<1>6. _free_blocks' = n - 1 /\ cached' = Tail(s) /\ held' = held \cup {s[1]}
      /\ system' = system \ {s[i] : i \in 1..n} /\ _free_list' = link'[s[1]]
      /\ alive /\ alive'
  BY <1>1, <1>2, <1>4 DEF MallocExpand
<1>7. TypeOK'
  BY <1>2, <1>3, <1>5, <1>6 DEF TypeOK
<1>8. ListIntact'
  <2>1. _free_list' = IF cached' = <<>> THEN NULL ELSE cached'[1]
    BY <1>2, <1>3, <1>6
  <2>2. \A i \in 1..Len(cached') :
          link'[cached'[i]] = IF i = Len(cached') THEN NULL ELSE cached'[i + 1]
    BY <1>2, <1>3, <1>6
  <2>3. \A i, j \in 1..Len(cached') : cached'[i] = cached'[j] => i = j
    BY <1>1, <1>2, <1>6
  <2> QED BY <1>2, <1>6, <2>1, <2>2, <2>3 DEF ListIntact
<1>9. OneOwner'
  <2>1. held' \cap system' = {}
    BY <1>2, <1>6 DEF OneOwner
  <2>2. \A i \in 1..Len(cached') : cached'[i] \notin held' \cup system'
    <3> SUFFICES ASSUME NEW i \in 1..n - 1 PROVE s[i + 1] \notin held' \cup system'
      BY <1>2, <1>6
    <3>1. i + 1 \in 1..n /\ i + 1 # 1 /\ 1 \in 1..n
      BY <1>2
    <3>2. s[i + 1] # s[1] /\ s[i + 1] \in system
      BY <1>1, <3>1
    <3> QED BY <1>6, <3>1, <3>2 DEF OneOwner
  <2>3. ASSUME NEW b \in Block, b \notin held' \cup system'
        PROVE  \E i \in 1..Len(cached') : cached'[i] = b
    <3>1. b # s[1] /\ b \notin held
      BY <1>6, <2>3
    <3>2. b \in system
      BY <1>4, <1>6, <3>1, <2>3 DEF OneOwner
    <3>3. PICK j \in 1..n : s[j] = b
      BY <1>6, <2>3, <3>2
    <3>4. j - 1 \in 1..n - 1 /\ (j - 1) + 1 = j
      BY <1>2, <3>1, <3>3
    <3>5. j - 1 \in 1..Len(cached') /\ cached'[j - 1] = s[(j - 1) + 1]
      BY <1>2, <1>6, <3>4
    <3>6. cached'[j - 1] = b
      BY <3>3, <3>4, <3>5
    <3> QED BY <3>5, <3>6
  <2> QED BY <2>1, <2>2, <2>3 DEF OneOwner
<1>10. CacheBounded'
  BY <1>2, <1>6, ChunkAssumption DEF CacheBounded
<1> QED BY <1>7, <1>8, <1>9, <1>10

\* What taking the first block off the list leaves: the other links are
\* untouched, and only that block has left.
LEMMA UnlinkBlock ==
  ASSUME AllocInv, _free_list # NULL, link' = link,
         _free_list' = link[_free_list], cached' = Tail(cached)
  PROVE  /\ cached # <<>> /\ _free_list = cached[1] /\ _free_list \in Block
         /\ _free_list \notin held \cup system
         /\ _free_list' \in Pointer
         /\ cached' \in Seq(Block) /\ Len(cached') = Len(cached) - 1
         /\ Len(cached) \in Nat \ {0}
         /\ \A i \in 1..Len(cached') : cached'[i] = cached[i + 1]
         /\ _free_list' = IF cached' = <<>> THEN NULL ELSE cached'[1]
         /\ \A i \in 1..Len(cached') :
              link'[cached'[i]] = IF i = Len(cached') THEN NULL ELSE cached'[i + 1]
         /\ \A i, j \in 1..Len(cached') : cached'[i] = cached'[j] => i = j
         /\ \A i \in 1..Len(cached') : cached'[i] # _free_list
         /\ \A b \in Block : (\E i \in 1..Len(cached) : cached[i] = b) =>
              b = _free_list \/ \E i \in 1..Len(cached') : cached'[i] = b
<1> USE DEF AllocInv
<1>1. cached \in Seq(Block) /\ cached # <<>> /\ _free_list = cached[1]
  BY DEF TypeOK, ListIntact
<1>2. /\ cached' \in Seq(Block) /\ Len(cached') = Len(cached) - 1
      /\ \A i \in 1..Len(cached') : cached'[i] = cached[i + 1]
      /\ Len(cached) \in Nat \ {0} /\ 1 \in 1..Len(cached)
  BY <1>1, TailLemma
<1>3. _free_list \in Block /\ _free_list \notin held \cup system
  BY <1>1, <1>2 DEF OneOwner
<1>links. /\ \A i \in 1..Len(cached) :
               link[cached[i]] = IF i = Len(cached) THEN NULL ELSE cached[i + 1]
          /\ \A i, j \in 1..Len(cached) : cached[i] = cached[j] => i = j
  BY DEF ListIntact
<1>index. \A i \in 1..Len(cached') : /\ i + 1 \in 1..Len(cached) /\ i + 1 # 1
                                     /\ i = Len(cached') <=> i + 1 = Len(cached)
                                     /\ i # Len(cached') => i + 1 \in 1..Len(cached')
  <2> HIDE DEF AllocInv
  <2>1. \A m \in Nat \ {0} : \A i \in 1..m - 1 :
          /\ i + 1 \in 1..m /\ i + 1 # 1
          /\ i = m - 1 <=> i + 1 = m
          /\ i # m - 1 => i + 1 \in 1..m - 1
    OBVIOUS
  <2>2. /\ Len(cached) \in Nat \ {0}
        /\ \A i \in 1..Len(cached) - 1 :
             /\ i + 1 \in 1..Len(cached) /\ i + 1 # 1
             /\ i = Len(cached) - 1 <=> i + 1 = Len(cached)
             /\ i # Len(cached) - 1 => i + 1 \in 1..Len(cached) - 1
    BY <1>2, <2>1, Zenon
  <2>3. Len(cached') = Len(cached) - 1
    BY <1>2
  <2> QED BY <2>2, <2>3, Zenon
<1>4. link[_free_list] = IF 1 = Len(cached) THEN NULL ELSE cached[1 + 1]
  <2> HIDE DEF AllocInv
  <2> QED BY <1>1, <1>2, <1>links
<1>5. _free_list' = IF cached' = <<>> THEN NULL ELSE cached'[1]
  <2>1. CASE 1 = Len(cached)
    BY <1>2, <1>4, <2>1
  <2>2. CASE 1 # Len(cached)
    <3>1. Len(cached') \in Nat /\ Len(cached') # 0
      BY <1>2, <2>2
    <3> DEFINE n == Len(cached')
    <3>2. 1 \in 1..Len(cached')
      <4>1. n \in Nat /\ n # 0
        BY <3>1
      <4> HIDE DEF n, AllocInv
      <4>2. 1 \in 1..n
        BY <4>1
      <4> QED BY <4>2 DEF n
    <3>3. cached' # <<>>
      BY <3>1, EmptyLength
    <3> QED BY <1>2, <1>4, <2>2, <3>2, <3>3
  <2> QED BY <2>1, <2>2
<1>6. _free_list' \in Pointer
  BY <1>3 DEF TypeOK
<1>7. \A i \in 1..Len(cached') :
        link'[cached'[i]] = IF i = Len(cached') THEN NULL ELSE cached'[i + 1]
  <2> HIDE DEF AllocInv
  <2> SUFFICES ASSUME NEW i \in 1..Len(cached')
               PROVE  link[cached'[i]] = IF i = Len(cached') THEN NULL ELSE cached'[i + 1]
    OBVIOUS
  <2>1. /\ i + 1 \in 1..Len(cached) /\ cached'[i] = cached[i + 1]
        /\ i = Len(cached') <=> i + 1 = Len(cached)
    BY <1>2, <1>index
  <2>2. link[cached[i + 1]] = IF i + 1 = Len(cached) THEN NULL ELSE cached[(i + 1) + 1]
    BY <1>links, <2>1
  <2>3. i # Len(cached') => cached'[i + 1] = cached[(i + 1) + 1]
    BY <1>2, <1>index
  <2> QED BY <2>1, <2>2, <2>3
<1>8. \A i, j \in 1..Len(cached') : cached'[i] = cached'[j] => i = j
  <2> SUFFICES ASSUME NEW i \in 1..Len(cached'), NEW j \in 1..Len(cached'),
                      cached'[i] = cached'[j]
               PROVE  i = j
    OBVIOUS
  <2>1. i + 1 \in 1..Len(cached) /\ j + 1 \in 1..Len(cached) /\ cached[i + 1] = cached[j + 1]
    BY <1>2, <1>index
  <2>2. i + 1 = j + 1
    BY <1>links, <2>1
  <2> QED BY <1>2, <2>2
<1>9. \A i \in 1..Len(cached') : cached'[i] # _free_list
  <2> SUFFICES ASSUME NEW i \in 1..Len(cached'), cached[i + 1] = cached[1]
               PROVE  FALSE
    BY <1>1, <1>2
  <2> QED BY <1>2, <1>index, <1>links
<1>10. ASSUME NEW b \in Block, NEW i \in 1..Len(cached), cached[i] = b, b # _free_list
       PROVE  \E j \in 1..Len(cached') : cached'[j] = b
  <2>1. i # 1
    BY <1>1, <1>10
  <2>2. i - 1 \in 1..Len(cached')
    BY <1>2, <2>1
  <2>3. cached'[i - 1] = cached[(i - 1) + 1]
    BY <1>2, <2>2
  <2>4. (i - 1) + 1 = i
    BY <1>2
  <2>5. cached'[i - 1] = b
    BY <1>10, <2>3, <2>4, Zenon
  <2> QED BY <2>2, <2>5
<1> QED BY <1>1, <1>2, <1>3, <1>5, <1>6, <1>7, <1>8, <1>9, <1>10

LEMMA CachedStep == AllocInv /\ MallocCached => AllocInv'
<1> SUFFICES ASSUME AllocInv, MallocCached PROVE AllocInv'
  OBVIOUS
<1> USE DEF AllocInv
<1>1. /\ alive /\ alive' /\ link' = link /\ system' = system
      /\ held' = held \cup {_free_list} /\ _free_blocks' = _free_blocks - 1
      /\ _free_list # NULL /\ _free_list' = link[_free_list] /\ cached' = Tail(cached)
  BY DEF MallocCached
<1>2. TypeOK'
  BY <1>1, UnlinkBlock DEF TypeOK, ListIntact
<1>3. ListIntact'
  BY <1>1, UnlinkBlock DEF ListIntact
<1>4. OneOwner'
  <2>1. held' \cap system' = {}
    BY <1>1, UnlinkBlock DEF OneOwner
  <2>2. \A i \in 1..Len(cached') : cached'[i] \notin held' \cup system'
    <3>1. \A i \in 1..Len(cached') : i + 1 \in 1..Len(cached) /\ cached'[i] = cached[i + 1]
      BY <1>1, UnlinkBlock
    <3>2. \A i \in 1..Len(cached') : cached'[i] # _free_list
      BY <1>1, UnlinkBlock
    <3> QED BY <1>1, <3>1, <3>2 DEF OneOwner
  <2>3. \A b \in Block \ (held' \cup system') : \E i \in 1..Len(cached') : cached'[i] = b
    BY <1>1, UnlinkBlock DEF OneOwner
  <2> QED BY <2>1, <2>2, <2>3 DEF OneOwner
<1>5. CacheBounded'
  BY <1>1, UnlinkBlock, ChunkAssumption DEF CacheBounded
<1> QED BY <1>2, <1>3, <1>4, <1>5

LEMMA LoopStep == AllocInv /\ DestroyLoop => AllocInv'
<1> SUFFICES ASSUME AllocInv, DestroyLoop PROVE AllocInv'
  OBVIOUS
<1> USE DEF AllocInv
<1>1. /\ ~alive /\ ~alive' /\ link' = link /\ system' = system \cup {_free_list}
      /\ held' = held /\ _free_blocks' = _free_blocks /\ alive' = alive
      /\ _free_list # NULL /\ _free_list' = link[_free_list] /\ cached' = Tail(cached)
  BY DEF DestroyLoop
<1>2. TypeOK'
  BY <1>1, UnlinkBlock DEF TypeOK
<1>3. ListIntact'
  BY <1>1, UnlinkBlock DEF ListIntact
<1>4. OneOwner'
  <2>1. held' \cap system' = {}
    BY <1>1, UnlinkBlock DEF OneOwner
  <2>2. \A i \in 1..Len(cached') : cached'[i] \notin held' \cup system'
    <3>1. \A i \in 1..Len(cached') : i + 1 \in 1..Len(cached) /\ cached'[i] = cached[i + 1]
      BY <1>1, UnlinkBlock
    <3>2. \A i \in 1..Len(cached') : cached'[i] # _free_list
      BY <1>1, UnlinkBlock
    <3> QED BY <1>1, <3>1, <3>2 DEF OneOwner
  <2>3. \A b \in Block \ (held' \cup system') : \E i \in 1..Len(cached') : cached'[i] = b
    BY <1>1, UnlinkBlock DEF OneOwner
  <2> QED BY <2>1, <2>2, <2>3 DEF OneOwner
<1>5. CacheBounded'
  BY <1>1, UnlinkBlock, ChunkAssumption DEF CacheBounded
<1> QED BY <1>2, <1>3, <1>4, <1>5

LEMMA FreeStep == ASSUME AllocInv, NEW b \in Block, Free(b) PROVE AllocInv'
<1> USE DEF AllocInv
<1>1. b \in held /\ held' = held \ {b} /\ alive /\ alive' /\ b \notin system
  BY DEF Free, OneOwner
<1>2. \A i \in 1..Len(cached) : cached[i] # b
  BY <1>1 DEF OneOwner
<1>3. CASE _free_blocks >= ChunkSize * 2
  <2>1. /\ system' = system \cup {b} /\ _free_list' = _free_list
        /\ _free_blocks' = _free_blocks /\ link' = link /\ cached' = cached
    BY <1>3 DEF Free
  <2>2. TypeOK' /\ ListIntact' /\ CacheBounded'
    BY <1>1, <2>1 DEF TypeOK, ListIntact, CacheBounded
  <2>3. OneOwner'
    BY <1>1, <1>2, <2>1 DEF OneOwner
  <2> QED BY <2>2, <2>3
<1>4. CASE ~(_free_blocks >= ChunkSize * 2)
  <2>1. /\ link' = [link EXCEPT ![b] = _free_list] /\ _free_list' = b
        /\ _free_blocks' = _free_blocks + 1 /\ cached' = <<b>> \o cached
        /\ system' = system
    BY <1>4 DEF Free
  <2>2. /\ cached' \in Seq(Block) /\ Len(cached') = Len(cached) + 1
        /\ cached'[1] = b /\ Len(cached) \in Nat
        /\ \A i \in 2..Len(cached') : cached'[i] = cached[i - 1] /\ i - 1 \in 1..Len(cached)
    BY <2>1, ConsLemma DEF TypeOK
  <2>3. TypeOK'
    BY <1>1, <2>1, <2>2 DEF TypeOK, Pointer
  <2>4. ListIntact'
    <3>1. \A i \in 1..Len(cached') :
            link'[cached'[i]] = IF i = Len(cached') THEN NULL ELSE cached'[i + 1]
      <4> SUFFICES ASSUME NEW i \in 1..Len(cached')
                   PROVE  link'[cached'[i]] = IF i = Len(cached') THEN NULL ELSE cached'[i + 1]
        OBVIOUS
      <4>1. CASE i = 1
        BY <2>1, <2>2, <4>1 DEF TypeOK, ListIntact
      <4>2. CASE i # 1
        <5>1. i \in 2..Len(cached') /\ i - 1 \in 1..Len(cached)
          BY <2>2, <4>2
        <5>2. cached'[i] = cached[i - 1] /\ cached[i - 1] # b /\ cached[i - 1] \in Block
          BY <1>2, <2>2, <5>1 DEF TypeOK
        <5>3. link'[cached'[i]] = link[cached[i - 1]]
          BY <2>1, <5>2 DEF TypeOK
        <5>4. link[cached[i - 1]] = IF i - 1 = Len(cached) THEN NULL ELSE cached[i]
          BY <5>1 DEF ListIntact
        <5>5. i # Len(cached') => cached'[i + 1] = cached[i]
          BY <2>2, <5>1
        <5> QED BY <2>2, <5>1, <5>3, <5>4, <5>5
      <4> QED BY <4>1, <4>2
    <3>2. \A i, j \in 1..Len(cached') : cached'[i] = cached'[j] => i = j
      <4> SUFFICES ASSUME NEW i \in 1..Len(cached'), NEW j \in 1..Len(cached'),
                          cached'[i] = cached'[j]
                   PROVE  i = j
        OBVIOUS
      <4>1. CASE i = 1 \/ j = 1
        BY <1>2, <2>2, <4>1
      <4>2. CASE i # 1 /\ j # 1
        BY <2>2, <4>2 DEF ListIntact
      <4> QED BY <4>1, <4>2
    <3> QED BY <1>1, <2>1, <2>2, <3>1, <3>2 DEF ListIntact
  <2>5. OneOwner'
    <3>1. \A i \in 1..Len(cached') : cached'[i] \notin held' \cup system'
      BY <1>1, <2>1, <2>2 DEF OneOwner
    <3>2. ASSUME NEW c \in Block, c \notin held' \cup system'
          PROVE  \E i \in 1..Len(cached') : cached'[i] = c
      <4>1. CASE c = b
        BY <2>2, <4>1
      <4>2. CASE c # b
        <5>1. PICK i \in 1..Len(cached) : cached[i] = c
          BY <1>1, <2>1, <3>2, <4>2 DEF OneOwner
        <5>2. i + 1 \in 2..Len(cached') /\ i + 1 \in 1..Len(cached') /\ (i + 1) - 1 = i
          BY <2>2
        <5>3. cached'[i + 1] = c
          BY <2>2, <5>1, <5>2
        <5> QED BY <5>2, <5>3
      <4> QED BY <4>1, <4>2
    <3> QED BY <1>1, <2>1, <3>1, <3>2 DEF OneOwner
  <2>6. CacheBounded'
    BY <1>1, <1>4, <2>2, ChunkAssumption DEF CacheBounded, ListIntact
  <2> QED BY <2>3, <2>4, <2>5, <2>6
<1> QED BY <1>3, <1>4

LEMMA OverwriteStep ==
  ASSUME AllocInv, NEW b \in Block, NEW p \in Pointer, Overwrite(b, p) PROVE AllocInv'
<1> USE DEF AllocInv
<1>1. /\ b \in held \cup system /\ link' = [link EXCEPT ![b] = p]
      /\ _free_list' = _free_list /\ _free_blocks' = _free_blocks
      /\ system' = system /\ held' = held /\ alive' = alive /\ cached' = cached
  BY DEF Overwrite
<1>2. \A i \in 1..Len(cached) : cached[i] # b /\ cached[i] \in Block
  BY <1>1 DEF OneOwner, TypeOK
<1>3. \A i \in 1..Len(cached) : link'[cached[i]] = link[cached[i]]
  BY <1>1, <1>2 DEF TypeOK
<1>4. TypeOK'
  BY <1>1 DEF TypeOK
<1>5. ListIntact'
  BY <1>1, <1>3 DEF ListIntact
<1> QED BY <1>1, <1>4, <1>5 DEF OneOwner, CacheBounded

LEMMA NextStep == AllocInv /\ [AllocNext]_allocVars => AllocInv'
<1> SUFFICES ASSUME AllocInv, [AllocNext]_allocVars PROVE AllocInv'
  OBVIOUS
<1>1. CASE UNCHANGED allocVars
  BY <1>1 DEF AllocInv, TypeOK, ListIntact, OneOwner, CacheBounded, allocVars
<1>2. CASE Destroy
  BY <1>2 DEF AllocInv, TypeOK, ListIntact, OneOwner, CacheBounded, Destroy
<1>6. CASE Construct
  <2>1. cached = <<>>
    BY <1>6, NullAssumption DEF AllocInv, TypeOK, ListIntact, Construct
  <2> QED BY <1>6, <2>1 DEF AllocInv, TypeOK, ListIntact, OneOwner, CacheBounded, Construct
<1>3. CASE \E n \in 1..ChunkSize + 1 : \E s \in Chunks(n) : MallocExpand(s)
  BY <1>3, ExpandStep
<1>4. CASE \E b \in Block : Free(b)
  BY <1>4, FreeStep
<1>5. CASE \E b \in Block, p \in Pointer : Overwrite(b, p)
  BY <1>5, OverwriteStep
<1> QED BY <1>1, <1>2, <1>3, <1>4, <1>5, <1>6, CachedStep, LoopStep DEF AllocNext

-----------------------------------------------------------------------------
\* The list is intact, whatever the users write into the blocks they hold.
THEOREM ListAlwaysIntact == AllocSpec => []ListIntact
<1>1. AllocInv => ListIntact
  BY DEF AllocInv
<1> QED BY <1>1, InitAlloc, NextStep, PTL DEF AllocSpec

\* No block has two owners or none.
THEOREM BlocksOwnedOnce == AllocSpec => []OneOwner
<1>1. AllocInv => OneOwner
  BY DEF AllocInv
<1> QED BY <1>1, InitAlloc, NextStep, PTL DEF AllocSpec

\* At most twice the chunk size of blocks is cached.
THEOREM CacheAlwaysBounded == AllocSpec => []CacheBounded
<1>1. AllocInv => CacheBounded
  BY DEF AllocInv
<1> QED BY <1>1, InitAlloc, NextStep, PTL DEF AllocSpec

LEMMA InitRefines == AllocInit => A!Init
  BY DEF AllocInit, A!Init

LEMMA NextRefines == AllocInv /\ [AllocNext]_allocVars => [A!Next]_held
<1> SUFFICES ASSUME AllocInv, [AllocNext]_allocVars PROVE A!Next \/ held' = held
  OBVIOUS
<1>1. CASE UNCHANGED allocVars
  BY <1>1 DEF allocVars
<1>2. ASSUME NEW n \in 1..ChunkSize + 1, NEW s \in Chunks(n), MallocExpand(s)
      PROVE  A!Next
  <2>1. s[1] \in system /\ s[1] \in Block
    BY ChunkLemma, ChunkAssumption DEF AllocInv, TypeOK
  <2>2. A!Malloc(s[1])
    BY <1>2, <2>1 DEF MallocExpand, A!Malloc, AllocInv, OneOwner
  <2> QED BY <2>1, <2>2 DEF A!Next
<1>3. CASE MallocCached
  <2>1. _free_list \in Block /\ _free_list \notin held
    BY <1>3, UnlinkBlock DEF MallocCached
  <2> QED BY <1>3, <2>1 DEF MallocCached, A!Malloc, A!Next
<1>4. ASSUME NEW b \in Block, Free(b) PROVE A!Next
  BY <1>4 DEF Free, A!Free, A!Next
<1>5. ASSUME NEW b \in Block, NEW p \in Pointer, Overwrite(b, p) PROVE held' = held
  BY <1>5 DEF Overwrite
<1>6. CASE Destroy \/ DestroyLoop \/ Construct
  BY <1>6 DEF Destroy, DestroyLoop, Construct
<1> QED BY <1>1, <1>2, <1>3, <1>4, <1>5, <1>6 DEF AllocNext

\* malloc() never returns a block that somebody holds.
THEOREM ImplementsAllocator == AllocSpec => AllocatorSpec
<1> QED BY InitAlloc, NextStep, InitRefines, NextRefines, PTL DEF AllocSpec, AllocatorSpec, A!Spec

=============================================================================
