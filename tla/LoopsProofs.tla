----------------------------- MODULE LoopsProofs -----------------------------
(***************************************************************************)
(* What loops do: induction over numbers and over the rounds of a loop.    *)
(***************************************************************************)
EXTENDS Loops, Integers, WellFoundedInduction, TLAPS

\* A set of numbers that is not empty has a least one.
LEMMA LeastNumber ==
  ASSUME NEW T, T \subseteq Nat, T # {}
  PROVE  \E n \in T : \A m \in T : n <= m
<1> DEFINE below == {ss \in Nat \X Nat : ss[1] < ss[2]}
<1>1. IsWellFoundedOn(below, Nat)
  BY NatLessThanWellFounded DEF OpToRel
<1> HIDE DEF below
<1>2. PICK n \in T : \A m \in T : <<m, n>> \notin below
  BY <1>1, WFMin
<1>3. ASSUME NEW m \in T PROVE n <= m
  <2>1. ~(m < n)
    <3>1. <<m, n>> \in Nat \X Nat /\ <<m, n>>[1] = m /\ <<m, n>>[2] = n
      OBVIOUS
    <3>2. <<m, n>> \notin below
      BY <1>2
    <3> QED BY <3>1, <3>2 DEF below
  <2>2. m \in Nat /\ n \in Nat
    OBVIOUS
  <2> QED BY <2>1, <2>2
<1> QED BY <1>3

\* A set that has 0, and n + 1 with every n, has all numbers.
LEMMA NumberInduction ==
  ASSUME NEW S, 0 \in S, \A n \in Nat : n \in S => n + 1 \in S
  PROVE  Nat \subseteq S
<1> DEFINE T == {n \in Nat : n \notin S}
<1> SUFFICES ASSUME T # {} PROVE FALSE
  OBVIOUS
<1>1. PICK n \in T : \A m \in T : n <= m
  <2>1. T \subseteq Nat
    OBVIOUS
  <2> HIDE DEF T
  <2> QED BY <2>1, LeastNumber
<1>2. n # 0
  OBVIOUS
<1>3. n - 1 \in Nat /\ n - 1 \notin T
  BY <1>1, <1>2
<1> QED BY <1>3

-----------------------------------------------------------------------------
(* Recursive functions *)

\* The first n + 1 values of the function that starts with x and goes on with
\* step[0], step[1], and so on.
Begins(f, x, step, n) ==
  f = [i \in 0..n |-> IF i = 0 THEN x ELSE step[i-1][f[i-1]]]

LEMMA BeginningExists ==
  ASSUME NEW x, NEW step, NEW N \in Nat
  PROVE  \E f : Begins(f, x, step, N)
<1> DEFINE S == {n \in Nat : \E f : Begins(f, x, step, n)}
<1>1. 0 \in S
  <2>1. Begins([i \in 0..0 |-> x], x, step, 0)
    BY DEF Begins
  <2> QED BY <2>1
<1>2. ASSUME NEW n \in Nat, n \in S PROVE n + 1 \in S
  <2>1. PICK f : Begins(f, x, step, n)
    BY <1>2
  <2> DEFINE longer == [i \in 0..n + 1 |-> IF i = n + 1 THEN step[n][f[n]] ELSE f[i]]
  <2>2. ASSUME NEW i \in 0..n + 1
        PROVE  longer[i] = IF i = 0 THEN x ELSE step[i-1][longer[i-1]]
    <3>1. CASE i = n + 1
      <4>1. i # 0 /\ i - 1 \in 0..n + 1 /\ i - 1 # n + 1 /\ i - 1 = n
        BY <3>1
      <4>2. longer[i] = step[n][f[n]] /\ longer[i-1] = f[n]
        BY <3>1, <4>1
      <4> QED BY <4>1, <4>2
    <3>2. CASE i \in 1..n
      <4>1. i \in 0..n /\ i # 0 /\ i # n + 1 /\ i - 1 \in 0..n + 1 /\ i - 1 # n + 1
        BY <3>2
      <4>2. longer[i] = f[i] /\ longer[i-1] = f[i-1]
        BY <4>1
      <4>3. f[i] = step[i-1][f[i-1]]
        BY <2>1, <4>1 DEF Begins
      <4> QED BY <4>1, <4>2, <4>3
    <3>3. CASE i = 0
      <4>1. 0 \in 0..n /\ longer[0] = f[0]
        OBVIOUS
      <4>2. f[0] = x
        BY <2>1, <4>1 DEF Begins
      <4> QED BY <3>3, <4>1, <4>2
    <3> QED BY <3>1, <3>2, <3>3
  <2>3. Begins(longer, x, step, n + 1)
    <3>1. longer = [i \in 0..n + 1 |-> longer[i]]
      OBVIOUS
    <3> HIDE DEF longer
    <3> QED BY <2>2, <3>1 DEF Begins
  <2>4. \E g : Begins(g, x, step, n + 1)
    <3> HIDE DEF longer
    <3> QED BY <2>3
  <2> QED BY <2>4
<1>3. Nat \subseteq S
  <2> HIDE DEF S
  <2> QED BY <1>1, <1>2, NumberInduction
<1> QED BY <1>3

LEMMA BeginningUnique ==
  ASSUME NEW x, NEW step, NEW m \in Nat, NEW n \in Nat, NEW f, NEW g,
         Begins(f, x, step, m), Begins(g, x, step, n)
  PROVE  \A i \in Nat : i <= m /\ i <= n => f[i] = g[i]
<1> DEFINE S == {i \in Nat : i <= m /\ i <= n => f[i] = g[i]}
<1>1. 0 \in S
  BY DEF Begins
<1>2. ASSUME NEW i \in Nat, i \in S PROVE i + 1 \in S
  <2> SUFFICES ASSUME i + 1 <= m, i + 1 <= n PROVE f[i + 1] = g[i + 1]
    OBVIOUS
  <2>1. i + 1 \in 0..m /\ i + 1 \in 0..n /\ i + 1 # 0 /\ i + 1 - 1 = i
    OBVIOUS
  <2>2. f[i + 1] = step[i][f[i]]
    BY <2>1 DEF Begins
  <2>3. g[i + 1] = step[i][g[i]]
    BY <2>1 DEF Begins
  <2>4. f[i] = g[i]
    BY <1>2
  <2> QED BY <2>2, <2>3, <2>4
<1>3. Nat \subseteq S
  <2> HIDE DEF S
  <2> QED BY <1>1, <1>2, NumberInduction
<1> QED BY <1>3

Recurs(f, x, step) == f = [i \in Nat |-> IF i = 0 THEN x ELSE step[i-1][f[i-1]]]

LEMMA Recursion ==
  ASSUME NEW x, NEW step
  PROVE  \E f : Recurs(f, x, step)
<1> DEFINE part(n) == CHOOSE f : Begins(f, x, step, n)
           f == [i \in Nat |-> part(i)[i]]
<1>1. ASSUME NEW n \in Nat PROVE Begins(part(n), x, step, n)
  BY BeginningExists
<1> HIDE DEF part
<1>2. ASSUME NEW i \in Nat PROVE f[i] = IF i = 0 THEN x ELSE step[i-1][f[i-1]]
  <2>1. CASE i = 0
    <3>1. part(0)[0] = x
      BY <1>1 DEF Begins
    <3> QED BY <2>1, <3>1
  <2>2. CASE i # 0
    <3>1. i - 1 \in Nat /\ i \in 0..i /\ i - 1 <= i /\ i - 1 <= i - 1
      BY <2>2
    <3>2. part(i)[i] = step[i-1][part(i)[i-1]]
      BY <1>1, <2>2, <3>1 DEF Begins
    <3>3. Begins(part(i), x, step, i) /\ Begins(part(i-1), x, step, i-1)
      BY <1>1, <3>1
    <3>4. part(i)[i-1] = part(i-1)[i-1]
      BY <3>1, <3>3, BeginningUnique
    <3> QED BY <2>2, <3>1, <3>2, <3>4
  <2> QED BY <2>1, <2>2
<1>3. f = [i \in Nat |-> f[i]]
  OBVIOUS
<1> HIDE DEF f
<1>4. Recurs(f, x, step)
  BY <1>2, <1>3 DEF Recurs
<1> QED BY <1>4

-----------------------------------------------------------------------------
(* The rounds of a loop *)

LEMMA AfterRounds ==
  ASSUME NEW body, NEW x
  PROVE  /\ After(body, x, 0) = x
         /\ \A n \in Nat : After(body, x, n + 1) = body[After(body, x, n)]
<1>1. \E f : f = [k \in Nat |-> IF k = 0 THEN x ELSE body[f[k-1]]]
  <2> DEFINE step == [n \in Nat |-> body]
  <2>1. \E f : Recurs(f, x, step)
    <3> HIDE DEF step
    <3> QED BY Recursion
  <2>2. PICK f : f = [k \in Nat |-> IF k = 0 THEN x ELSE step[k-1][f[k-1]]]
    <3> HIDE DEF step
    <3> QED BY <2>1 DEF Recurs
  <2>3. ASSUME NEW k \in Nat
        PROVE  f[k] = IF k = 0 THEN x ELSE body[f[k-1]]
    <3>1. k # 0 => k - 1 \in Nat
      OBVIOUS
    <3>2. k # 0 => step[k-1] = body
      BY <3>1
    <3> HIDE DEF step
    <3>3. f[k] = IF k = 0 THEN x ELSE step[k-1][f[k-1]]
      BY <2>2
    <3> QED BY <3>2, <3>3
  <2>4. f = [k \in Nat |-> f[k]]
    <3> HIDE DEF step
    <3> QED BY <2>2
  <2> QED BY <2>3, <2>4
<1> DEFINE state == CHOOSE f : f = [k \in Nat |-> IF k = 0 THEN x ELSE body[f[k-1]]]
<1>2. state = [k \in Nat |-> IF k = 0 THEN x ELSE body[state[k-1]]]
  BY <1>1
<1>3. \A n \in Nat : After(body, x, n) = state[n]
  BY DEF After
<1> HIDE DEF state
<1>4. state[0] = x
  BY <1>2
<1>5. ASSUME NEW n \in Nat PROVE state[n+1] = body[state[n]]
  <2>1. n + 1 \in Nat /\ n + 1 # 0 /\ n + 1 - 1 = n
    OBVIOUS
  <2>2. state[n+1] = IF n + 1 = 0 THEN x ELSE body[state[n+1-1]]
    BY <1>2, <2>1
  <2> QED BY <2>1, <2>2
<1> QED BY <1>3, <1>4, <1>5

\* What each round turns into the next member of a family of sets is in the
\* n-th one after n rounds.
LEMMA AfterReaches ==
  ASSUME NEW body, NEW J, NEW x \in J[0], NEW n \in Nat,
         \A k \in Nat : \A s \in J[k] : body[s] \in J[k + 1]
  PROVE  After(body, x, n) \in J[n]
<1> DEFINE S == {k \in Nat : After(body, x, k) \in J[k]}
<1>1. 0 \in S
  BY AfterRounds
<1>2. ASSUME NEW k \in Nat, k \in S PROVE k + 1 \in S
  <2>1. After(body, x, k + 1) = body[After(body, x, k)]
    BY AfterRounds
  <2> QED BY <1>2, <2>1
<1>3. Nat \subseteq S
  <2> HIDE DEF S
  <2> QED BY <1>1, <1>2, NumberInduction
<1> QED BY <1>3

\* What every round keeps, the loop keeps.
LEMMA AfterKeeps ==
  ASSUME NEW body, NEW J, NEW x \in J, NEW n \in Nat,
         \A s \in J : body[s] \in J
  PROVE  After(body, x, n) \in J
<1> DEFINE always == [k \in Nat |-> J]
<1>1. x \in always[0] /\ always[n] = J
  OBVIOUS
<1>2. ASSUME NEW k \in Nat, NEW s \in always[k] PROVE body[s] \in always[k + 1]
  BY <1>2
<1> HIDE DEF always
<1>3. After(body, x, n) \in always[n]
  BY <1>1, <1>2, AfterReaches
<1> QED BY <1>1, <1>3

\* The loop comes to its end if each round that is not the last brings it
\* nearer: far says how many rounds are left at most.
LEMMA AfterEnds ==
  ASSUME NEW body, NEW J, NEW far \in [J -> Nat], NEW x \in J, NEW n \in Nat,
         far[x] <= n,
         \A s \in J : body[s] \in J,
         \A s \in J : far[s] = 0 => far[body[s]] = 0,
         \A s \in J : far[s] # 0 => far[body[s]] < far[s]
  PROVE  After(body, x, n) \in J /\ far[After(body, x, n)] = 0
<1> DEFINE near == [k \in Nat |-> {s \in J : far[s] = 0 \/ far[s] + k <= n}]
<1>1. x \in near[0] /\ near[n] = {s \in J : far[s] = 0 \/ far[s] + n <= n}
  OBVIOUS
<1>2. ASSUME NEW k \in Nat, NEW s \in near[k] PROVE body[s] \in near[k + 1]
  <2>1. s \in J /\ (far[s] = 0 \/ far[s] + k <= n)
    BY <1>2
  <2>2. body[s] \in J /\ far[s] \in Nat /\ far[body[s]] \in Nat
    BY <2>1
  <2>3. far[body[s]] = 0 \/ far[body[s]] + (k + 1) <= n
    BY <2>1, <2>2
  <2> QED BY <2>2, <2>3
<1> HIDE DEF near
<1>3. After(body, x, n) \in near[n]
  BY <1>1, <1>2, AfterReaches
<1> QED BY <1>1, <1>3

\* The same for a loop over a sequence.
LEMMA AlongReaches ==
  ASSUME NEW body, NEW seq, NEW J, NEW x \in J[0], Len(seq) \in Nat,
         \A k \in 1..Len(seq) : \A s \in J[k-1] : body[<<s, seq[k]>>] \in J[k]
  PROVE  Along(body, x, seq) \in J[Len(seq)]
<1> DEFINE n == Len(seq)
           step == [k \in Nat |-> [s \in J[k] |-> body[<<s, seq[k+1]>>]]]
<1>1. PICK f : f = [k \in Nat |-> IF k = 0 THEN x ELSE step[k-1][f[k-1]]]
  <2> HIDE DEF step
  <2>1. PICK f : Recurs(f, x, step)
    BY Recursion
  <2> QED BY <2>1 DEF Recurs
<1>2. ASSUME NEW k \in 1..n, f[k-1] \in J[k-1]
      PROVE  f[k] = body[<<f[k-1], seq[k]>>] /\ f[k] \in J[k]
  <2>1. k \in Nat /\ k # 0 /\ k - 1 \in Nat /\ k - 1 + 1 = k
    OBVIOUS
  <2>2. step[k-1] = [s \in J[k-1] |-> body[<<s, seq[k]>>]]
    BY <2>1
  <2>3. f[k] = step[k-1][f[k-1]]
    <3> HIDE DEF step
    <3> QED BY <1>1, <2>1
  <2> HIDE DEF step
  <2> QED BY <1>2, <2>2, <2>3
<1>3. \A k \in 0..n : f[k] \in J[k]
  <2> DEFINE S == {k \in Nat : k <= n => f[k] \in J[k]}
  <2>1. 0 \in S
    <3> HIDE DEF step
    <3> QED BY <1>1
  <2>2. ASSUME NEW k \in Nat, k \in S PROVE k + 1 \in S
    <3>1. k + 1 <= n => k + 1 \in 1..n /\ k + 1 - 1 = k /\ f[k] \in J[k]
      BY <2>2
    <3>2. ASSUME k + 1 <= n PROVE f[k+1] \in J[k+1]
      <4>1. PICK m \in 1..n : m = k + 1
        BY <3>1, <3>2
      <4>2. f[m-1] \in J[m-1]
        BY <3>1, <3>2, <4>1
      <4>3. f[m] \in J[m]
        <5> HIDE DEF step, S, n
        <5> QED BY <1>2, <4>2
      <4> QED BY <4>1, <4>3
    <3> QED BY <3>2
  <2>3. Nat \subseteq S
    <3> HIDE DEF S
    <3> QED BY <2>1, <2>2, NumberInduction
  <2> QED BY <2>3
<1>4. \E g : g = [k \in 0..Len(seq) |-> IF k = 0 THEN x ELSE body[<<g[k-1], seq[k]>>]]
  <2> DEFINE g == [k \in 0..n |-> f[k]]
  <2>1. ASSUME NEW k \in 0..n PROVE g[k] = IF k = 0 THEN x ELSE body[<<g[k-1], seq[k]>>]
    <3>1. CASE k = 0
      <4> HIDE DEF step
      <4> QED BY <1>1, <3>1
    <3>2. CASE k # 0
      <4>1. k \in 1..n /\ k - 1 \in 0..n
        BY <3>2
      <4>2. f[k] = body[<<f[k-1], seq[k]>>]
        <5> HIDE DEF step
        <5> QED BY <1>2, <1>3, <4>1
      <4>3. g[k] = f[k] /\ g[k-1] = f[k-1]
        BY <4>1
      <4> HIDE DEF g
      <4> QED BY <3>2, <4>2, <4>3
    <3> QED BY <3>1, <3>2
  <2>2. g = [k \in 0..n |-> g[k]]
    OBVIOUS
  <2> HIDE DEF g
  <2> QED BY <2>1, <2>2
<1> DEFINE state == CHOOSE g : g = [k \in 0..Len(seq) |-> IF k = 0 THEN x ELSE body[<<g[k-1], seq[k]>>]]
<1>5. state = [k \in 0..n |-> IF k = 0 THEN x ELSE body[<<state[k-1], seq[k]>>]]
  BY <1>4
<1>6. Along(body, x, seq) = state[n]
  BY DEF Along
<1> HIDE DEF state
<1>7. \A k \in 0..n : state[k] \in J[k]
  <2> DEFINE S == {k \in Nat : k <= n => state[k] \in J[k]}
  <2>1. 0 \in S
    BY <1>5
  <2>2. ASSUME NEW k \in Nat, k \in S PROVE k + 1 \in S
    <3> SUFFICES ASSUME k + 1 <= n PROVE state[k+1] \in J[k+1]
      OBVIOUS
    <3>1. k + 1 \in 1..n /\ k + 1 \in 0..n /\ k + 1 # 0 /\ k + 1 - 1 = k
      OBVIOUS
    <3>2. state[k] \in J[k]
      BY <2>2
    <3>3. state[k+1] = body[<<state[k], seq[k+1]>>]
      BY <1>5, <3>1
    <3> QED BY <3>1, <3>2, <3>3
  <2>3. Nat \subseteq S
    <3> HIDE DEF S
    <3> QED BY <2>1, <2>2, NumberInduction
  <2> QED BY <2>3
<1> QED BY <1>6, <1>7

LEMMA AlongKeeps ==
  ASSUME NEW body, NEW seq, NEW J, NEW x \in J, Len(seq) \in Nat,
         \A k \in 1..Len(seq) : \A s \in J : body[<<s, seq[k]>>] \in J
  PROVE  Along(body, x, seq) \in J
<1> DEFINE always == [k \in Nat |-> J]
<1>1. x \in always[0] /\ always[Len(seq)] = J
  OBVIOUS
<1>2. \A k \in 1..Len(seq) : \A s \in always[k-1] : body[<<s, seq[k]>>] \in always[k]
  OBVIOUS
<1> HIDE DEF always
<1>3. Along(body, x, seq) \in always[Len(seq)]
  BY <1>1, <1>2, AlongReaches
<1> QED BY <1>1, <1>3
=============================================================================
