--------------------------- MODULE LibraryProofs ---------------------------
(***************************************************************************)
(* Proofs about Library.  Each of its services has an inductive invariant  *)
(* of its own, ExportInv, SavingInv and EnvInv; the properties follow from *)
(* the three together.                                                     *)
(*                                                                         *)
(* Total and Kept are recursive functions, and the library's induction     *)
(* theorems cannot be instantiated here.  The first part derives what is   *)
(* needed from well-founded sets instead: every set of numbers has a least *)
(* member, a set of numbers closed under successor holds them all, and a   *)
(* function iterated a number of times is defined.                         *)
(***************************************************************************)
EXTENDS Library, FiniteSetTheorems, WellFoundedInduction, TLAPS
-----------------------------------------------------------------------------
(* Recursive functions, and the order of insertion *)

LEMMA Least ==
  ASSUME NEW T, T \subseteq Nat, T # {}
  PROVE  \E m \in T : \A n \in T : m <= n
<1> DEFINE below(n) == 0 .. n
           Family == {0 .. n : n \in T}
           Smaller == StrictSubsetOrdering(Nat)
<1>1. IsWellFoundedOn(Smaller, FiniteSubsetsOf(Nat))
  BY FS_StrictSubsetOrderingWellFounded
<1>2. Family \subseteq FiniteSubsetsOf(Nat) /\ Family # {}
  <2>1. \A n \in T : IsFiniteSet(0 .. n) /\ 0 .. n \subseteq Nat
    BY FS_Interval
  <2> QED
    BY <2>1 DEF FiniteSubsetsOf
<1>3. PICK F \in Family : \A G \in Family : <<G, F>> \notin Smaller
  <2> HIDE DEF Family, Smaller
  <2> QED
    BY <1>1, <1>2, WFMin
<1>4. PICK m \in T : F = 0 .. m
  BY <1>3
<1>5. \A n \in T : m <= n
  <2> SUFFICES ASSUME NEW n \in T, n < m PROVE FALSE
    OBVIOUS
  <2>1. 0 .. n \subseteq 0 .. m /\ 0 .. n # 0 .. m
    <3>1. m \in 0 .. m /\ m \notin 0 .. n
      OBVIOUS
    <3> QED
      BY <3>1
  <2>2. 0 .. n \in SUBSET Nat /\ 0 .. m \in SUBSET Nat
    OBVIOUS
  <2>3. <<0 .. n, 0 .. m>> \in Smaller
    BY <2>1, <2>2 DEF StrictSubsetOrdering
  <2> QED
    BY <2>3, <1>3, <1>4
<1> QED
  BY <1>5

LEMMA Induction ==
  ASSUME NEW T, 0 \in T, \A n \in Nat : n \in T => n + 1 \in T
  PROVE  Nat \subseteq T
<1> SUFFICES ASSUME NEW x \in Nat, x \notin T PROVE FALSE
  OBVIOUS
<1> DEFINE U == Nat \ T
<1>1. PICK m \in U : \A n \in U : m <= n
  <2>1. U \subseteq Nat /\ U # {}
    OBVIOUS
  <2> HIDE DEF U
  <2> QED
    BY <2>1, Least
<1>2. m \in Nat /\ m # 0 /\ m - 1 \in Nat /\ m - 1 \notin U
  BY <1>1
<1> QED
  BY <1>1, <1>2
IsIteration(f, N, S, a, step) ==
  f \in [0 .. N -> S] /\ f[0] = a /\ \A n \in 1 .. N : f[n] = step[n][f[n - 1]]

LEMMA Recursion ==
  ASSUME NEW N \in Nat, NEW S, NEW a \in S, NEW step \in [1 .. N -> [S -> S]]
  PROVE  \E f : IsIteration(f, N, S, a, step)
<1> USE DEF IsIteration
<1> DEFINE Upto(k) == \E f \in [0 .. k -> S] : f[0] = a /\ \A n \in 1 .. k : f[n] = step[n][f[n - 1]]
           T == {k \in Nat : k <= N => Upto(k)}
<1>1. 0 \in T
  <2>1. Upto(0)
    <3> DEFINE f == [n \in 0 .. 0 |-> a]
    <3>1. f \in [0 .. 0 -> S] /\ f[0] = a
      OBVIOUS
    <3>2. \A n \in 1 .. 0 : FALSE
      OBVIOUS
    <3> QED BY <3>1, <3>2
  <2> QED BY <2>1
<1>2. ASSUME NEW k \in Nat, Upto(k), k + 1 <= N PROVE Upto(k + 1)
  <2>1. PICK f \in [0 .. k -> S] : f[0] = a /\ \A n \in 1 .. k : f[n] = step[n][f[n - 1]]
    BY <1>2
  <2> DEFINE g == [n \in 0 .. k + 1 |-> IF n = k + 1 THEN step[k + 1][f[k]] ELSE f[n]]
  <2>2. k + 1 \in 1 .. N /\ f[k] \in S
    BY <2>1, <1>2
  <2>3. step[k + 1][f[k]] \in S
    BY <2>2
  <2>4. g \in [0 .. k + 1 -> S]
    BY <2>3, <2>1
  <2>5. g[0] = a
    BY <2>1
  <2>6. \A n \in 1 .. k + 1 : g[n] = step[n][g[n - 1]]
    BY <2>1
  <2> HIDE DEF g
  <2> QED BY <2>4, <2>5, <2>6
<1>3. \A k \in Nat : k \in T => k + 1 \in T
  <2> HIDE DEF Upto
  <2> QED BY <1>2
<1>4. N \in T
  <2> HIDE DEF T
  <2> QED BY <1>1, <1>3, Induction
<1> QED BY <1>4

LEMMA Recursive ==
  ASSUME NEW N \in Nat, NEW S, NEW a \in S, NEW h, h[0] = a,
         \A n \in 1 .. N : h[n - 1] \in S => h[n] \in S
  PROVE  \A n \in 0 .. N : h[n] \in S
<1> DEFINE T == {k \in Nat : k <= N => h[k] \in S}
<1>1. 0 \in T
  OBVIOUS
<1>2. ASSUME NEW k \in Nat, k \in T PROVE k + 1 \in T
  <2> SUFFICES ASSUME k + 1 <= N PROVE h[k + 1] \in S
    OBVIOUS
  <2>1. k + 1 \in 1 .. N /\ (k + 1) - 1 = k /\ h[k] \in S
    BY <1>2
  <2> QED BY <2>1
<1> HIDE DEF T
<1>3. Nat \subseteq T
  BY <1>1, <1>2, Induction
<1> USE DEF T
<1> QED BY <1>3

LEMMA KeptFunction ==
  ASSUME NEW E, NEW s \in Seq(E), NEW S
  PROVE  \E f : 
           /\ f[0] = <<>>
           /\ \A n \in 1 .. Len(s) : f[n] = IF s[n] \in S THEN Append(f[n - 1], s[n]) ELSE f[n - 1]
           /\ \A n \in 0 .. Len(s) : f[n] \in Seq(E)
           /\ Kept(s, S) = f[Len(s)]
<1> DEFINE step == [n \in 1 .. Len(s) |-> [t \in Seq(E) |-> IF s[n] \in S THEN Append(t, s[n]) ELSE t]]
<1>1. step \in [1 .. Len(s) -> [Seq(E) -> Seq(E)]]
  OBVIOUS
<1>a. <<>> \in Seq(E) /\ Len(s) \in Nat
  OBVIOUS
<1>2. PICK f \in [0 .. Len(s) -> Seq(E)] : f[0] = <<>> /\ \A n \in 1 .. Len(s) : f[n] = step[n][f[n - 1]]
  <2> HIDE DEF step
  <2> DEFINE N == Len(s)
             Q == Seq(E)
             a == <<>>
  <2>2. N \in Nat /\ a \in Q /\ step \in [1 .. N -> [Q -> Q]]
    BY <1>1, <1>a
  <2> HIDE DEF N, Q, a
  <2>3. \E f : IsIteration(f, N, Q, a, step)
    BY <2>2, Recursion
  <2> USE DEF N, Q, a
  <2> QED BY <2>3 DEF IsIteration
<1>3. \A n \in 1 .. Len(s) : f[n] = IF s[n] \in S THEN Append(f[n - 1], s[n]) ELSE f[n - 1]
  <2> TAKE n \in 1 .. Len(s)
  <2>1. f[n - 1] \in Seq(E)
    BY <1>2, <1>a
  <2>2. step[n][f[n - 1]] = IF s[n] \in S THEN Append(f[n - 1], s[n]) ELSE f[n - 1]
    BY <2>1
  <2> HIDE DEF step
  <2> QED BY <1>2, <2>2
<1> HIDE DEF step
<1> DEFINE Is(g) == g = [n \in 0 .. Len(s) |-> IF n = 0 THEN <<>> ELSE IF s[n] \in S THEN Append(g[n - 1], s[n]) ELSE g[n - 1]]
<1> DEFINE h == CHOOSE g : Is(g)
<1>4. Is(f)
  <2> DEFINE k == [n \in 0 .. Len(s) |-> IF n = 0 THEN <<>> ELSE IF s[n] \in S THEN Append(f[n - 1], s[n]) ELSE f[n - 1]]
  <2>1. \A n \in 0 .. Len(s) : f[n] = k[n]
    <3> TAKE n \in 0 .. Len(s)
    <3>1. n = 0 \/ n \in 1 .. Len(s)
      BY <1>a
    <3> QED BY <1>2, <1>3, <3>1
  <2>2. f = [n \in 0 .. Len(s) |-> f[n]] /\ k = [n \in 0 .. Len(s) |-> k[n]]
    BY <1>2, <1>a
  <2>3. f = k
    <3> HIDE DEF k
    <3> QED BY <2>1, <2>2
  <2> QED BY <2>3
<1>5. Is(h)
  <2> HIDE DEF Is
  <2> QED BY <1>4
<1>6. Kept(s, S) = h[Len(s)]
  BY DEF Kept
<1> HIDE DEF h
<1>7. h[0] = <<>> /\ \A n \in 1 .. Len(s) : h[n] = IF s[n] \in S THEN Append(h[n - 1], s[n]) ELSE h[n - 1]
  <2> DEFINE e(g, n) == IF n = 0 THEN <<>> ELSE IF s[n] \in S THEN Append(g[n - 1], s[n]) ELSE g[n - 1]
  <2>1. h = [n \in 0 .. Len(s) |-> e(h, n)]
    BY <1>5
  <2>2. \A n \in 0 .. Len(s) : h[n] = e(h, n)
    <3> HIDE DEF e
    <3> QED BY <2>1
  <2>3. h[0] = e(h, 0)
    BY <2>2, <1>a
  <2>4. ASSUME NEW n \in 1 .. Len(s) PROVE h[n] = IF s[n] \in S THEN Append(h[n - 1], s[n]) ELSE h[n - 1]
    <3>1. n \in 0 .. Len(s) /\ n # 0
      OBVIOUS
    <3>2. h[n] = e(h, n)
      BY <2>2, <3>1
    <3> QED BY <3>1, <3>2
  <2> QED BY <2>3, <2>4
<1>8. \A n \in 0 .. Len(s) : h[n] \in Seq(E)
  <2>1. ASSUME NEW n \in 1 .. Len(s), h[n - 1] \in Seq(E) PROVE h[n] \in Seq(E)
    <3>1. s[n] \in E
      OBVIOUS
    <3>2. Append(h[n - 1], s[n]) \in Seq(E)
      BY <2>1, <3>1
    <3> QED BY <1>7, <2>1, <3>2
  <2> DEFINE N == Len(s)
             Q == Seq(E)
             a == <<>>
  <2>2. N \in Nat /\ a \in Q /\ h[0] = a /\ \A n \in 1 .. N : h[n - 1] \in Q => h[n] \in Q
    BY <1>7, <1>a, <2>1
  <2> HIDE DEF N, Q, a
  <2>3. \A n \in 0 .. N : h[n] \in Q
    BY <2>2, Recursive
  <2> USE DEF N, Q, a
  <2> QED BY <2>3
<1> QED BY <1>6, <1>7, <1>8

LEMMA TotalFunction ==
  ASSUME NEW s, Len(s) \in Nat, \A n \in 1 .. Len(s) : s[n].bytes \in Nat
  PROVE  \E f : /\ f[0] = 0
                /\ \A n \in 1 .. Len(s) : f[n] = f[n - 1] + s[n].bytes
                /\ \A n \in 0 .. Len(s) : f[n] \in Nat
                /\ Total(s) = f[Len(s)]
<1> DEFINE N == Len(s)
           w(n) == s[n].bytes
           step == [n \in 1 .. N |-> [t \in Nat |-> t + w(n)]]
           e(g, n) == IF n = 0 THEN 0 ELSE g[n - 1] + w(n)
           Is(g) == g = [n \in 0 .. N |-> e(g, n)]
           h == CHOOSE g : Is(g)
<1>1. N \in Nat /\ 0 \in Nat /\ \A n \in 1 .. N : w(n) \in Nat
  OBVIOUS
<1>2. Total(s) = h[N]
  BY DEF Total
<1> HIDE DEF N, w
<1>3. step \in [1 .. N -> [Nat -> Nat]]
  BY <1>1
<1>4. PICK f : IsIteration(f, N, Nat, 0, step)
  <2> HIDE DEF step
  <2> QED BY <1>1, <1>3, Recursion
<1>5. f \in [0 .. N -> Nat] /\ f[0] = 0 /\ \A n \in 1 .. N : f[n] = f[n - 1] + w(n)
  <2>1. f \in [0 .. N -> Nat] /\ f[0] = 0
    BY <1>4 DEF IsIteration
  <2>2. ASSUME NEW n \in 1 .. N PROVE f[n] = f[n - 1] + w(n)
    <3>1. f[n - 1] \in Nat
      BY <1>1, <2>1
    <3>2. f[n] = step[n][f[n - 1]]
      <4> HIDE DEF step
      <4> QED BY <1>4 DEF IsIteration
    <3> QED BY <3>1, <3>2
  <2> QED BY <2>1, <2>2
<1>6. Is(f)
  <2>1. ASSUME NEW n \in 0 .. N PROVE f[n] = e(f, n)
    <3>1. n = 0 \/ n \in 1 .. N
      BY <1>1
    <3> QED BY <1>5, <3>1
  <2> HIDE DEF e
  <2>2. f = [n \in 0 .. N |-> f[n]]
    BY <1>5
  <2> QED BY <2>1, <2>2
<1>7. Is(h)
  <2> HIDE DEF Is
  <2> QED BY <1>6
<1> HIDE DEF h
<1>8. \A n \in 0 .. N : h[n] = e(h, n)
  <2> HIDE DEF e
  <2> QED BY <1>7
<1>9. h[0] = 0 /\ \A n \in 1 .. N : h[n] = h[n - 1] + w(n)
  <2>1. h[0] = e(h, 0)
    BY <1>1, <1>8
  <2>2. ASSUME NEW n \in 1 .. N PROVE h[n] = h[n - 1] + w(n)
    <3>1. n \in 0 .. N /\ n # 0
      OBVIOUS
    <3>2. h[n] = e(h, n)
      BY <1>8, <3>1
    <3> QED BY <3>1, <3>2
  <2> QED BY <2>1, <2>2
<1>10. \A n \in 0 .. N : h[n] \in Nat
  <2>1. \A n \in 1 .. N : h[n - 1] \in Nat => h[n] \in Nat
    BY <1>1, <1>9
  <2> QED BY <1>1, <1>9, <2>1, Recursive
<1> USE DEF N, w
<1> QED BY <1>2, <1>9, <1>10

\* A property of prefixes that the next entry keeps holds of all of them.
LEMMA Prefixes ==
  ASSUME NEW N \in Nat, NEW T, 0 \in T, \A n \in 1 .. N : n - 1 \in T => n \in T
  PROVE  N \in T
<1> DEFINE U == {k \in Nat : k <= N => k \in T}
<1>1. 0 \in U
  OBVIOUS
<1>2. ASSUME NEW k \in Nat, k \in U PROVE k + 1 \in U
  <2> SUFFICES ASSUME k + 1 <= N PROVE k + 1 \in T
    OBVIOUS
  <2>1. k + 1 \in 1 .. N /\ (k + 1) - 1 = k /\ k \in T
    BY <1>2
  <2> QED BY <2>1
<1> HIDE DEF U
<1>3. N \in U
  BY <1>1, <1>2, Induction
<1> QED BY <1>3 DEF U

\* What is kept was there and is to be kept.
LEMMA KeptIsSome ==
  ASSUME NEW E, NEW s \in Seq(E), NEW S
  PROVE  /\ Kept(s, S) \in Seq(E)
         /\ Len(Kept(s, S)) <= Len(s)
         /\ Range(Kept(s, S)) \subseteq Range(s) \cap S
<1>1. PICK f : /\ f[0] = <<>>
               /\ \A n \in 1 .. Len(s) : f[n] = IF s[n] \in S THEN Append(f[n - 1], s[n]) ELSE f[n - 1]
               /\ \A n \in 0 .. Len(s) : f[n] \in Seq(E)
               /\ Kept(s, S) = f[Len(s)]
  BY KeptFunction
<1> DEFINE Some(n) == Len(f[n]) <= n /\ \A i \in 1 .. Len(f[n]) : f[n][i] \in Range(s) \cap S
           T == {n \in 0 .. Len(s) : Some(n)}
<1>2. Some(0)
  BY <1>1
<1>3. ASSUME NEW n \in 1 .. Len(s), Some(n - 1) PROVE Some(n)
  <2>1. s[n] \in Range(s) /\ f[n - 1] \in Seq(E) /\ s[n] \in E /\ n \in Nat
    BY <1>1 DEF Range
  <2>2. CASE s[n] \in S
    <3>1. f[n] = Append(f[n - 1], s[n])
      BY <1>1, <2>2
    <3> QED BY <1>3, <2>1, <2>2, <3>1
  <2>3. CASE s[n] \notin S
    <3>1. f[n] = f[n - 1]
      BY <1>1, <2>3
    <3> QED BY <1>3, <2>1, <3>1
  <2> QED BY <2>2, <2>3
<1>4. Len(s) \in T
  <2> HIDE DEF Some
  <2>1. \A n \in 1 .. Len(s) : n - 1 \in T => n \in T
    BY <1>3
  <2>2. 0 \in T /\ Len(s) \in Nat
    BY <1>2
  <2> HIDE DEF T
  <2> QED BY <2>1, <2>2, Prefixes
<1>5. f[Len(s)] \in Seq(E) /\ Some(Len(s))
  BY <1>1, <1>4
<1> QED BY <1>1, <1>5 DEF Range

LEMMA TotalOfNone == Total(<<>>) = 0
  <1>1. PICK f : f[0] = 0 /\ Total(<<>>) = f[Len(<<>>)]
    BY TotalFunction
  <1> QED BY <1>1

\* Totals are numbers, and an entry more adds its bytes.
LEMMA TotalAppend ==
  ASSUME NEW E, \A x \in E : x.bytes \in Nat, NEW s \in Seq(E), NEW b \in E
  PROVE  Total(s) \in Nat /\ Total(Append(s, b)) = Total(s) + b.bytes
<1> DEFINE t == Append(s, b)
<1>0. /\ Len(s) \in Nat /\ Len(t) = Len(s) + 1 /\ t[Len(s) + 1] = b
      /\ \A n \in 1 .. Len(s) : s[n] \in E /\ t[n] = s[n]
      /\ \A n \in 1 .. Len(t) : t[n] \in E
  OBVIOUS
<1>a. \A n \in 1 .. Len(s) : s[n].bytes \in Nat
  BY <1>0
<1>b. \A n \in 1 .. Len(t) : t[n].bytes \in Nat
  <2> HIDE DEF t
  <2> QED BY <1>0
<1> HIDE DEF t
<1>1. PICK f : /\ f[0] = 0 /\ \A n \in 1 .. Len(s) : f[n] = f[n - 1] + s[n].bytes
               /\ \A n \in 0 .. Len(s) : f[n] \in Nat
               /\ Total(s) = f[Len(s)]
  BY <1>0, <1>a, TotalFunction
<1>2. PICK g : /\ g[0] = 0 /\ \A n \in 1 .. Len(t) : g[n] = g[n - 1] + t[n].bytes
               /\ Total(t) = g[Len(t)]
  <2>1. Len(t) \in Nat
    BY <1>0
  <2> QED BY <1>b, <2>1, TotalFunction
<1> DEFINE T == {n \in 0 .. Len(s) : g[n] = f[n]}
<1>3. \A n \in 1 .. Len(s) : n - 1 \in T => n \in T
  BY <1>0, <1>1, <1>2
<1>4. 0 \in T
  BY <1>0, <1>1, <1>2
<1>5. Len(s) \in T
  <2> HIDE DEF T
  <2> QED BY <1>0, <1>3, <1>4, Prefixes
<1>6. g[Len(t)] = g[Len(s)] + b.bytes
  <2>1. Len(t) \in 1 .. Len(t) /\ Len(t) - 1 = Len(s) /\ t[Len(t)] = b
    BY <1>0
  <2> QED BY <1>2, <2>1
<1>7. f[Len(s)] \in Nat
  BY <1>0, <1>1
<1> QED BY <1>1, <1>2, <1>5, <1>6, <1>7 DEF t

\* Deleting some entries and deleting the others leaves every entry in one of them.
LEMMA TotalOfParts ==
  ASSUME NEW E, \A x \in E : x.bytes \in Nat, NEW s \in Seq(E), NEW S, NEW R,
         \A x \in Range(s) : x \in R <=> x \notin S
  PROVE  /\ Total(Kept(s, S)) + Total(Kept(s, R)) = Total(s)
         /\ Len(Kept(s, S)) + Len(Kept(s, R)) = Len(s)
<1>0. Len(s) \in Nat /\ \A n \in 1 .. Len(s) : s[n] \in E /\ s[n] \in Range(s) /\ s[n].bytes \in Nat
  BY DEF Range
<1>1. PICK f : /\ f[0] = 0 /\ \A n \in 1 .. Len(s) : f[n] = f[n - 1] + s[n].bytes
               /\ \A n \in 0 .. Len(s) : f[n] \in Nat
               /\ Total(s) = f[Len(s)]
  BY <1>0, TotalFunction
<1>2. PICK k : /\ k[0] = <<>>
               /\ \A n \in 1 .. Len(s) : k[n] = IF s[n] \in S THEN Append(k[n - 1], s[n]) ELSE k[n - 1]
               /\ \A n \in 0 .. Len(s) : k[n] \in Seq(E)
               /\ Kept(s, S) = k[Len(s)]
  BY KeptFunction
<1>3. PICK o : /\ o[0] = <<>>
               /\ \A n \in 1 .. Len(s) : o[n] = IF s[n] \in R THEN Append(o[n - 1], s[n]) ELSE o[n - 1]
               /\ \A n \in 0 .. Len(s) : o[n] \in Seq(E)
               /\ Kept(s, R) = o[Len(s)]
  BY KeptFunction
<1> DEFINE Both(n) == Total(k[n]) + Total(o[n]) = f[n] /\ Len(k[n]) + Len(o[n]) = n
           T == {n \in 0 .. Len(s) : Both(n)}
<1>4. Both(0)
  BY <1>1, <1>2, <1>3, TotalOfNone
<1>5. ASSUME NEW n \in 1 .. Len(s), 
             Total(k[n - 1]) + Total(o[n - 1]) = f[n - 1], Len(k[n - 1]) + Len(o[n - 1]) = n - 1
      PROVE  Total(k[n]) + Total(o[n]) = f[n] /\ Len(k[n]) + Len(o[n]) = n
  <2> DEFINE b == s[n]
             p == k[n - 1]
             q == o[n - 1]
  <2>1. n - 1 \in 0 .. Len(s) /\ b \in E /\ b.bytes \in Nat /\ p \in Seq(E) /\ q \in Seq(E)
    BY <1>0, <1>2, <1>3
  <2>2. f[n] = f[n - 1] + b.bytes /\ f[n - 1] \in Nat
    BY <1>1, <2>1
  <2>9. n \in Nat /\ Len(p) \in Nat /\ Len(q) \in Nat /\ Len(Append(p, b)) = Len(p) + 1
        /\ Len(Append(q, b)) = Len(q) + 1
    <3> HIDE DEF b, p, q
    <3> QED BY <2>1, <1>0
  <2> HIDE DEF b, p, q
  <2>3. Total(p) \in Nat /\ Total(Append(p, b)) = Total(p) + b.bytes
    BY <2>1, TotalAppend
  <2>4. Total(q) \in Nat /\ Total(Append(q, b)) = Total(q) + b.bytes
    BY <2>1, TotalAppend
  <2>5. CASE b \in S
    <3>1. k[n] = Append(p, b) /\ o[n] = q
      BY <1>0, <1>2, <1>3, <2>5 DEF b, p, q
    <3>2. Total(k[n]) + Total(o[n]) = f[n]
      BY <1>5, <2>1, <2>2, <2>3, <2>4, <3>1 DEF p, q
    <3>3. Len(k[n]) + Len(o[n]) = n
      <4>1. Len(p) + Len(q) = n - 1
        BY <1>5 DEF p, q
      <4> QED BY <2>9, <3>1, <4>1
    <3> QED BY <3>2, <3>3
  <2>6. CASE b \notin S
    <3>1. k[n] = p /\ o[n] = Append(q, b)
      BY <1>0, <1>2, <1>3, <2>6 DEF b, p, q
    <3>2. Total(k[n]) + Total(o[n]) = f[n]
      BY <1>5, <2>1, <2>2, <2>3, <2>4, <3>1 DEF p, q
    <3>3. Len(k[n]) + Len(o[n]) = n
      <4>1. Len(p) + Len(q) = n - 1
        BY <1>5 DEF p, q
      <4> QED BY <2>9, <3>1, <4>1
    <3> QED BY <3>2, <3>3
  <2> QED BY <2>5, <2>6
<1>6. \A n \in 1 .. Len(s) : Both(n - 1) => Both(n)
  BY <1>5
<1>7. Len(s) \in T
  <2> HIDE DEF Both
  <2>1. 0 \in T /\ \A n \in 1 .. Len(s) : n - 1 \in T => n \in T
    BY <1>0, <1>4, <1>6
  <2> HIDE DEF T
  <2> QED BY <1>0, <2>1, Prefixes
<1> QED BY <1>1, <1>2, <1>3, <1>7

LEMMA TotalOfBoth ==
  ASSUME NEW E, \A x \in E : x.bytes \in Nat, NEW s \in Seq(E), NEW t \in Seq(E)
  PROVE  Total(s \o t) = Total(s) + Total(t)
<1> DEFINE p(n) == SubSeq(t, 1, n)
           T == {n \in 0 .. Len(t) : Total(s \o p(n)) = Total(s) + Total(p(n))}
<1>0. Len(t) \in Nat
  OBVIOUS
<1>1. 0 \in T
  <2>1. p(0) = <<>> /\ s \o <<>> = s
    OBVIOUS
  <2>2. Total(s) \in Nat
    <3>1. CASE E = {}
      <4>1. s = <<>>
        BY <3>1
      <4> QED BY <4>1, TotalOfNone
    <3>2. CASE E # {}
      BY <3>2, TotalAppend
    <3> QED BY <3>1, <3>2
  <2>3. s \o p(0) = s /\ Total(p(0)) = 0
    <3> HIDE DEF p
    <3> QED BY <2>1, TotalOfNone
  <2> HIDE DEF p
  <2>4. Total(s \o p(0)) = Total(s) + Total(p(0))
    <3>1. Total(s \o p(0)) = Total(s) /\ Total(p(0)) = 0
      BY <2>3, Zenon
    <3>2. Total(s) = Total(s) + 0
      BY <2>2
    <3> QED BY <3>1, <3>2, Zenon
  <2>5. 0 \in 0 .. Len(t)
    BY <1>0
  <2> QED BY <2>4, <2>5
<1>2. ASSUME NEW n \in 1 .. Len(t), Total(s \o p(n - 1)) = Total(s) + Total(p(n - 1))
      PROVE  Total(s \o p(n)) = Total(s) + Total(p(n))
  <2> DEFINE b == t[n]
             q == p(n - 1)
             u == s \o q
  <2>1. b \in E /\ q \in Seq(E) /\ u \in Seq(E)
    OBVIOUS
  <2>2. p(n) = Append(q, b)
    OBVIOUS
  <2>3. s \o Append(q, b) = Append(u, b)
    <3> HIDE DEF q, b
    <3> QED BY <2>1
  <2> HIDE DEF b, q, u
  <2>4. Total(q) \in Nat /\ Total(Append(q, b)) = Total(q) + b.bytes
    BY <2>1, TotalAppend
  <2>5. Total(u) \in Nat /\ Total(Append(u, b)) = Total(u) + b.bytes
    BY <2>1, TotalAppend
  <2>6. Total(s) \in Nat
    BY <2>1, TotalAppend
  <2>7. Total(u) = Total(s) + Total(q) /\ b.bytes \in Nat
    BY <1>2, <2>1 DEF u, q
  <2>8. Total(s \o p(n)) = Total(Append(u, b)) /\ Total(p(n)) = Total(Append(q, b))
    BY <2>2, <2>3
  <2> HIDE DEF p
  <2> QED BY <2>4, <2>5, <2>6, <2>7, <2>8
<1>3. \A n \in 1 .. Len(t) : n - 1 \in T => n \in T
  BY <1>2
<1>4. Len(t) \in T
  <2> HIDE DEF T
  <2> QED BY <1>0, <1>1, <1>3, Prefixes
<1>5. p(Len(t)) = t
  OBVIOUS
<1> QED BY <1>4, <1>5

-----------------------------------------------------------------------------
(* Postman exports *)

\* No call of preview is known twice: it waits, is staged, is being confirmed or was imported.
ChoiceInv(c) ==
  /\ c.call <= exportCalls /\ exportImports[c.call] = 0
  /\ exportStaged.call # c.call
  /\ \A d \in exportChoices : d.call = c.call => d = c
  /\ \A d \in exportConfirms : d.entry.call # c.call

\* Confirming what is staged is confirming its call.
StagedInv ==
  exportStaged # Nothing =>
    /\ exportStaged.call <= exportCalls /\ exportImports[exportStaged.call] = 0
    /\ \A d \in exportConfirms : d.entry.call = exportStaged.call => d.entry = exportStaged

\* One call of confirm at a time for what a call of preview staged, and not imported yet.
ConfirmInv(c) ==
  /\ c.entry.call <= exportCalls /\ exportImports[c.entry.call] = 0
  /\ \A d \in exportConfirms : d.entry.call = c.entry.call => d = c

ExportInv ==
  /\ ExportTypeOK /\ StagedIsForThisView /\ ExportImportedOnce
  /\ \A c \in exportChoices : ChoiceInv(c)
  /\ StagedInv
  /\ \A c \in exportConfirms : ConfirmInv(c)
  /\ \A n \in ExportCalls : n > exportCalls => exportImports[n] = 0

LEMMA ExportStart == ExportInit => ExportInv
  BY ExportBounds DEF ExportInit, ExportInv, ExportTypeOK, StagedIsForThisView, ExportImportedOnce,
     ChoiceInv, StagedInv, ConfirmInv, ExportCalls, Nothing

\* The facts about types that every step uses.
LEMMA ExportTypes ==
  ASSUME ExportTypeOK
  PROVE  /\ exportView \in Nat /\ exportView >= 1 /\ exportCalls \in Nat
         /\ \A c \in exportChoices : c.call \in ExportCalls /\ c.call \in Nat /\ c.view \in 1 .. exportView
         /\ \A c \in exportConfirms : c.entry.call \in ExportCalls /\ c.entry.call \in Nat
         /\ exportStaged.call \in Nat /\ (exportStaged # Nothing => exportStaged.call \in ExportCalls)
  BY ExportBounds DEF ExportTypeOK, ExportCalls, Nothing

LEMMA ChooseExportKeeps == ExportInv /\ ChooseExport => ExportInv'
<1> SUFFICES ASSUME ExportInv, ChooseExport PROVE ExportInv'
  OBVIOUS
<1> USE DEF ExportInv, ChooseExport
<1>0. exportCalls \in Nat /\ exportCalls + 1 \in ExportCalls /\ exportCalls' = exportCalls + 1
  BY ExportBounds DEF ExportTypeOK, ExportCalls
<1>1. PICK new \in [call : ExportCalls, view : 1 .. exportView, content : Exports \cup {NoExport}, chosen : BOOLEAN] :
        new.call = exportCalls + 1 /\ exportChoices' = exportChoices \cup {new}
  <2> DEFINE n == [call |-> exportCalls + 1, view |-> exportView, content |-> NoExport, chosen |-> FALSE]
  <2>1. n \in [call : ExportCalls, view : 1 .. exportView, content : Exports \cup {NoExport}, chosen : BOOLEAN]
    BY <1>0, ExportBounds DEF ExportTypeOK
  <2>2. n.call = exportCalls + 1 /\ exportChoices' = exportChoices \cup {n}
    OBVIOUS
  <2> HIDE DEF n
  <2> QED BY <2>1, <2>2
<1>2. ExportTypeOK'
  <2>1. exportChoices' \subseteq [call : ExportCalls, view : 1 .. exportView',
                              content : Exports \cup {NoExport}, chosen : BOOLEAN]
    BY <1>1 DEF ExportTypeOK
  <2>2. exportCalls' \in 0 .. MaxExportCalls
    BY <1>0, ExportBounds DEF ExportCalls
  <2> QED BY <2>1, <2>2 DEF ExportTypeOK
<1>3. ChoiceInv(new)'
  <2>1. exportStaged.call # new.call
    BY <1>0, <1>1, ExportTypes DEF StagedInv, Nothing
  <2>2. exportImports[new.call] = 0
    BY <1>0, <1>1
  <2>3. \A d \in exportChoices : d.call # new.call
    BY <1>0, <1>1, ExportTypes DEF ChoiceInv
  <2>4. \A d \in exportConfirms : d.entry.call # new.call
    BY <1>0, <1>1, ExportTypes DEF ConfirmInv
  <2> QED BY <1>0, <1>1, <2>1, <2>2, <2>3, <2>4 DEF ChoiceInv
<1>4. ASSUME NEW c \in exportChoices PROVE ChoiceInv(c)'
  <2>1. ChoiceInv(c) /\ c.call \in Nat
    BY ExportTypes
  <2> QED BY <1>0, <1>1, <2>1 DEF ChoiceInv
<1>5. \A c \in exportChoices' : ChoiceInv(c)'
  BY <1>1, <1>3, <1>4
<1>6. StagedInv'
  BY <1>0, ExportTypes DEF StagedInv
<1>7. \A c \in exportConfirms' : ConfirmInv(c)'
  BY <1>0, ExportTypes DEF ConfirmInv
<1>8. StagedIsForThisView' /\ ExportImportedOnce' /\ \A n \in ExportCalls : n > exportCalls' => exportImports'[n] = 0
  BY <1>0, ExportTypes, ExportBounds DEF StagedIsForThisView, ExportImportedOnce, ExportCalls
<1> QED BY <1>2, <1>5, <1>6, <1>7, <1>8

LEMMA ExportChosenKeeps ==
  ASSUME ExportInv, NEW c \in exportChoices, ExportChosen(c)
  PROVE  ExportInv'
<1> USE DEF ExportInv, ExportChosen
<1>0. /\ exportChoices' \subseteq exportChoices \cup {[c EXCEPT !.chosen = TRUE, !.content = export]}
      /\ c \notin exportChoices'
  BY DEF ExportTypeOK
<1> DEFINE new == [c EXCEPT !.chosen = TRUE, !.content = export]
<1>1. new \in [call : ExportCalls, view : 1 .. exportView, content : Exports \cup {NoExport}, chosen : BOOLEAN]
      /\ new.call = c.call
  BY DEF ExportTypeOK
<1>2. ExportTypeOK'
  BY <1>0, <1>1, ExportBounds DEF ExportTypeOK
<1> HIDE DEF new
<1>a. exportChoices' \subseteq exportChoices \cup {new}
  BY DEF new
<1>3. \A d \in exportChoices' : ChoiceInv(d)'
  <2> TAKE d \in exportChoices'
  <2>1. CASE d = new
    <3>1. \A x \in exportChoices : x.call = c.call => x = c
      BY DEF ChoiceInv
    <3> QED BY <1>0, <1>1, <1>a, <2>1, <3>1 DEF ChoiceInv
  <2>2. CASE d \in exportChoices /\ d # new
    <3>1. d.call # c.call
      BY <1>0, <2>2 DEF ChoiceInv
    <3> QED BY <1>1, <1>a, <2>2, <3>1 DEF ChoiceInv
  <2> QED BY <2>1, <2>2, <1>a
<1>4. StagedInv' /\ \A d \in exportConfirms' : ConfirmInv(d)'
  BY DEF StagedInv, ConfirmInv
<1> QED BY <1>2, <1>3, <1>4 DEF StagedIsForThisView, ExportImportedOnce

LEMMA StageExportKeeps ==
  ASSUME ExportInv, NEW c \in exportChoices, StageExport(c)
  PROVE  ExportInv'
<1> USE DEF ExportInv, StageExport
<1>1. ExportTypeOK'
  BY ExportBounds DEF ExportTypeOK
<1>2. exportStaged' = exportStaged \/ exportStaged' = [call |-> c.call, content |-> c.content, view |-> c.view]
  OBVIOUS
<1>3. \A d \in exportChoices' : ChoiceInv(d)'
  BY <1>2 DEF ChoiceInv
<1>4. StagedInv'
  BY <1>2 DEF StagedInv, ChoiceInv
<1>5. \A d \in exportConfirms' : ConfirmInv(d)'
  BY DEF ConfirmInv
<1>6. StagedIsForThisView'
  BY DEF StagedIsForThisView, LatestCall
<1> QED BY <1>1, <1>3, <1>4, <1>5, <1>6 DEF ExportImportedOnce

LEMMA CancelExportKeeps == ExportInv /\ CancelExport => ExportInv'
<1> SUFFICES ASSUME ExportInv, CancelExport PROVE ExportInv'
  OBVIOUS
<1> USE DEF ExportInv, CancelExport
<1>1. \A d \in exportChoices' : ChoiceInv(d)'
  BY ExportTypes DEF ChoiceInv, Nothing, ExportCalls
<1>2. \A d \in exportConfirms' : ConfirmInv(d)'
  BY DEF ConfirmInv
<1> QED BY <1>1, <1>2, ExportBounds DEF ExportTypeOK, StagedInv, StagedIsForThisView, ExportImportedOnce

LEMMA ConfirmExportKeeps == ExportInv /\ ConfirmExport => ExportInv'
<1> SUFFICES ASSUME ExportInv, ConfirmExport PROVE ExportInv'
  OBVIOUS
<1> USE DEF ExportInv, ConfirmExport
<1> DEFINE new == [entry |-> exportStaged, view |-> exportView, importing |-> FALSE, number |-> exportCount + 1]
<1>1. new \in [entry : [call : ExportCalls, content : Exports, view : 1 .. exportView],
               view : 1 .. exportView, importing : BOOLEAN, number : ExportCalls]
  BY ExportBounds DEF ExportTypeOK, ExportCalls
<1>2. ExportTypeOK'
  <2>1. exportConfirms' \subseteq [entry : [call : ExportCalls, content : Exports, view : 1 .. exportView'],
                               view : 1 .. exportView', importing : BOOLEAN, number : ExportCalls]
    BY <1>1 DEF ExportTypeOK
  <2>2. exportCount' \in 0 .. MaxExportCalls
    BY ExportBounds DEF ExportTypeOK
  <2> QED BY <2>1, <2>2 DEF ExportTypeOK
<1>3. new.entry = exportStaged /\ exportConfirms' = exportConfirms \cup {new}
  OBVIOUS
<1> HIDE DEF new
<1>4. \A d \in exportChoices' : ChoiceInv(d)'
  BY <1>3 DEF ChoiceInv
<1>5. StagedInv'
  BY <1>3 DEF StagedInv
<1>6. \A d \in exportConfirms' : ConfirmInv(d)'
  BY <1>3 DEF ConfirmInv, StagedInv, NotBeingImported
<1> QED BY <1>2, <1>4, <1>5, <1>6 DEF StagedIsForThisView, ExportImportedOnce

LEMMA ExportRereadKeeps ==
  ASSUME ExportInv, NEW c \in exportConfirms, ExportReread(c)
  PROVE  ExportInv'
<1> USE DEF ExportInv, ExportReread
<1> DEFINE new == [c EXCEPT !.importing = TRUE]
<1>1. new \in [entry : [call : ExportCalls, content : Exports, view : 1 .. exportView],
               view : 1 .. exportView, importing : BOOLEAN, number : ExportCalls]
      /\ new.entry = c.entry
  BY DEF ExportTypeOK
<1>2. exportConfirms' \subseteq (exportConfirms \ {c}) \cup {new}
  OBVIOUS
<1>3. ExportTypeOK'
  BY <1>1, <1>2, ExportBounds DEF ExportTypeOK
<1> HIDE DEF new
<1>4. \A d \in exportChoices' : ChoiceInv(d)'
  BY <1>1, <1>2 DEF ChoiceInv
<1>5. StagedInv'
  BY <1>1, <1>2 DEF StagedInv
<1>6. \A d \in exportConfirms' : ConfirmInv(d)'
  BY <1>1, <1>2 DEF ConfirmInv
<1> QED BY <1>3, <1>4, <1>5, <1>6 DEF StagedIsForThisView, ExportImportedOnce

LEMMA ExportImportedKeeps ==
  ASSUME ExportInv, NEW c \in exportConfirms, ExportImported(c)
  PROVE  ExportInv'
<1> USE DEF ExportInv, ExportImported
<1>0. /\ c.entry.call \in ExportCalls /\ exportImports[c.entry.call] = 0
      /\ exportImports' \in [ExportCalls -> Nat] /\ exportImports'[c.entry.call] = 1
      /\ \A n \in ExportCalls : n # c.entry.call => exportImports'[n] = exportImports[n]
  BY DEF ExportTypeOK, ConfirmInv
<1>1. ExportTypeOK'
  BY <1>0, ExportBounds DEF ExportTypeOK
<1>2. \A d \in exportChoices' : ChoiceInv(d)'
  <2> TAKE d \in exportChoices'
  <2>1. d \in exportChoices /\ ChoiceInv(d) /\ d.call # c.entry.call /\ d.call \in ExportCalls
    BY ExportTypes DEF ChoiceInv
  <2>2. exportStaged'.call # d.call
    BY <2>1, ExportTypes DEF Nothing, ChoiceInv, ExportCalls
  <2> QED BY <1>0, <2>1, <2>2 DEF ChoiceInv
<1>3. StagedInv'
  BY <1>0, ExportTypes DEF StagedInv
<1>4. \A d \in exportConfirms' : ConfirmInv(d)'
  BY <1>0, ExportTypes DEF ConfirmInv
<1>5. ExportImportedOnce'
  BY <1>0 DEF ExportImportedOnce
<1>6. \A n \in ExportCalls : n > exportCalls' => exportImports'[n] = 0
  BY <1>0, ExportTypes DEF ConfirmInv
<1> QED BY <1>1, <1>2, <1>3, <1>4, <1>5, <1>6 DEF StagedIsForThisView

LEMMA ExportImportFailsKeeps ==
  ASSUME ExportInv, NEW c \in exportConfirms, ExportImportFails(c)
  PROVE  ExportInv'
  BY ExportBounds DEF ExportInv, ExportImportFails, ExportTypeOK, ChoiceInv, StagedInv, ConfirmInv,
     StagedIsForThisView, ExportImportedOnce

LEMMA ExportChangesKeeps ==
  ASSUME ExportInv, NEW v \in Exports \cup {NoExport}, ExportChanges(v)
  PROVE  ExportInv'
  BY ExportBounds DEF ExportInv, ExportChanges, ExportTypeOK, ChoiceInv, StagedInv, ConfirmInv,
     StagedIsForThisView, ExportImportedOnce

LEMMA ResetExportsKeeps == ExportInv /\ ResetExports => ExportInv'
<1> SUFFICES ASSUME ExportInv, ResetExports PROVE ExportInv'
  OBVIOUS
<1> USE DEF ExportInv, ResetExports
<1>0. exportView \in Nat /\ 1 .. exportView \subseteq 1 .. exportView + 1
      /\ exportView + 1 \in 1 .. MaxExportResets + 1 /\ 1 <= exportView
  BY ExportTypes, ExportBounds DEF ExportTypeOK
<1>1. ExportTypeOK'
  BY <1>0 DEF ExportTypeOK
<1>2. \A d \in exportChoices' : ChoiceInv(d)'
  BY ExportTypes DEF ChoiceInv, Nothing, ExportCalls
<1>3. \A d \in exportConfirms' : ConfirmInv(d)'
  BY DEF ConfirmInv
<1> QED BY <1>1, <1>2, <1>3 DEF StagedInv, StagedIsForThisView, ExportImportedOnce

LEMMA ExportStep == ExportInv /\ [ExportNext]_exportVars => ExportInv'
<1> SUFFICES ASSUME ExportInv, [ExportNext]_exportVars PROVE ExportInv'
  OBVIOUS
<1>1. CASE UNCHANGED exportVars
  BY <1>1 DEF exportVars, ExportInv, ExportTypeOK, ChoiceInv, StagedInv, ConfirmInv,
     StagedIsForThisView, ExportImportedOnce
<1>2. CASE ChooseExport \/ CancelExport \/ ConfirmExport \/ ResetExports
  BY <1>2, ChooseExportKeeps, CancelExportKeeps, ConfirmExportKeeps, ResetExportsKeeps
<1>3. CASE \E c \in exportChoices : ExportChosen(c) \/ StageExport(c)
  BY <1>3, ExportChosenKeeps, StageExportKeeps
<1>4. CASE \E c \in exportConfirms : ExportReread(c) \/ ExportImported(c) \/ ExportImportFails(c)
  BY <1>4, ExportRereadKeeps, ExportImportedKeeps, ExportImportFailsKeeps
<1>5. CASE \E v \in Exports \cup {NoExport} : ExportChanges(v)
  BY <1>5, ExportChangesKeeps
<1> QED BY <1>1, <1>2, <1>3, <1>4, <1>5 DEF ExportNext

LEMMA LaterStays ==
  ASSUME ExportInv, [ExportNext]_exportVars, exportStaged # Nothing, exportStaged' # Nothing
  PROVE  exportStaged'.call >= exportStaged.call
<1>1. CASE \E c \in exportChoices : StageExport(c)
  BY <1>1, ExportTypes DEF StageExport, LatestCall, ExportInv, StagedInv
<1>2. CASE ~\E c \in exportChoices : StageExport(c)
  <2>1. exportStaged' = exportStaged
    BY <1>2 DEF ExportNext, ChooseExport, CancelExport, ConfirmExport, ResetExports, ExportChosen,
       ExportReread, ExportImported, ExportImportFails, ExportChanges, exportVars
  <2> QED BY <2>1, ExportTypes DEF ExportInv
<1> QED BY <1>1, <1>2

-----------------------------------------------------------------------------
(* Response bodies *)

SavingInv ==
  /\ SavingTypeOK /\ BytesAreCounted
  /\ saving.stage \in {"written", "renaming"} => temporary = saving.body

\* The sizes of bodies are numbers, so totals of them are.
LEMMA Bytes == \A b \in BodyType : b.bytes \in Nat /\ b.sender \in Senders
  BY BodyLimits DEF BodyType

LEMMA BodyTotals ==
  ASSUME NEW s \in Seq(BodyType)
  PROVE  Total(s) \in Nat
<1>1. CASE BodyType = {}
  <2>1. s = <<>>
    BY <1>1
  <2> QED BY <2>1, TotalOfNone
<1>2. CASE BodyType # {}
  BY <1>2, Bytes, TotalAppend
<1> QED BY <1>1, <1>2

\* What releaseRequest leaves is counted.
LEMMA Released ==
  ASSUME NEW r, bodies \in Seq(BodyType), size = Total(bodies)
  PROVE  LET s == WithoutSender(r)
         IN /\ s.kept \in Seq(BodyType) /\ Len(s.kept) <= Len(bodies)
            /\ Range(s.kept) \subseteq Range(bodies) \ BodiesOf(r)
            /\ s.size = Total(s.kept) /\ s.size <= size
<1> DEFINE out == BodiesOf(r)
           in == Range(bodies) \ BodiesOf(r)
           o == Kept(bodies, out)
           i == Kept(bodies, in)
<1>1. WithoutSender(r).kept = i /\ WithoutSender(r).size = size - Total(o)
  BY DEF WithoutSender
<1>2. \A b \in Range(bodies) : b \in out <=> b \notin in
  BY DEF BodiesOf
<1> HIDE DEF out, in
<1>3. /\ i \in Seq(BodyType) /\ Len(i) <= Len(bodies) /\ Range(i) \subseteq Range(bodies) \cap in
      /\ o \in Seq(BodyType)
  BY KeptIsSome
<1>4. Total(i) + Total(o) = Total(bodies)
  <2>1. Total(o) + Total(i) = Total(bodies)
    BY <1>2, Bytes, TotalOfParts
  <2>2. Total(o) \in Nat /\ Total(i) \in Nat
    BY <1>3, BodyTotals
  <2> HIDE DEF o, i
  <2> QED BY <2>1, <2>2
<1>5. Total(o) \in Nat /\ Total(i) \in Nat
  BY <1>3, BodyTotals
<1>6. Range(i) \subseteq Range(bodies) \ BodiesOf(r)
  BY <1>3 DEF in
<1> HIDE DEF i, o
<1> QED BY <1>1, <1>3, <1>4, <1>5, <1>6

LEMMA SameEntries ==
  ASSUME NEW E, NEW s \in Seq(E), NEW t \in Seq(E), Len(t) = Len(s), \A n \in 1 .. Len(s) : t[n] = s[n]
  PROVE  s = t
  OBVIOUS

\* What is left when the k oldest are released is counted.
LEMMA EvictedIsCounted ==
  ASSUME NEW s, s.kept \in Seq(BodyType), s.size = Total(s.kept), NEW k \in 0 .. Len(s.kept)
  PROVE  LET t == Evicted(s, k)
         IN /\ t.kept \in Seq(BodyType) /\ Range(t.kept) \subseteq Range(s.kept)
            /\ Len(t.kept) = Len(s.kept) - k
            /\ t.size = Total(t.kept)
<1> DEFINE q == s.kept
           a == SubSeq(q, 1, k)
           b == SubSeq(q, k + 1, Len(q))
<1>1. Evicted(s, k).kept = b /\ Evicted(s, k).size = s.size - Total(a)
  BY DEF Evicted
<1>2. q \in Seq(BodyType) /\ k \in 0 .. Len(q) /\ Total(q) = s.size
  OBVIOUS
<1> HIDE DEF q
<1>3. a \in Seq(BodyType) /\ b \in Seq(BodyType) /\ Len(b) = Len(q) - k
  BY <1>2
<1>4. Range(b) \subseteq Range(q)
  <2> SUFFICES ASSUME NEW n \in DOMAIN b PROVE b[n] \in Range(q)
    BY DEF Range
  <2>1. n \in 1 .. Len(q) - k /\ b[n] = q[n + k] /\ n + k \in DOMAIN q
    BY <1>2, <1>3
  <2> QED BY <2>1 DEF Range
<1>5. q = a \o b
  <2>1. Len(a) = k /\ Len(q) \in Nat /\ k \in Nat /\ k <= Len(q)
    BY <1>2
  <2>2. (\A n \in 1 .. k : a[n] = q[n]) /\ (\A n \in 1 .. Len(q) - k : b[n] = q[n + k])
    BY <1>2
  <2> HIDE DEF a, b
  <2>3. a \o b \in Seq(BodyType) /\ Len(a \o b) = Len(q)
    <3>1. a \o b \in Seq(BodyType) /\ Len(a \o b) = Len(a) + Len(b)
      BY <1>3
    <3> QED BY <1>3, <2>1, <3>1
  <2>4. ASSUME NEW n \in 1 .. Len(q) PROVE (a \o b)[n] = q[n]
    <3>1. CASE n \in 1 .. k
      BY <1>3, <2>1, <2>2, <3>1
    <3>2. CASE n \notin 1 .. k
      <4>1. n - k \in 1 .. Len(q) - k /\ (n - k) + k = n
        BY <2>1, <3>2
      <4>2. (a \o b)[n] = b[n - k]
        BY <1>3, <2>1, <3>2
      <4>3. b[n - k] = q[(n - k) + k]
        BY <2>2, <4>1
      <4> QED BY <4>1, <4>2, <4>3
    <3> QED BY <3>1, <3>2
  <2> DEFINE c == a \o b
  <2>5. c \in Seq(BodyType) /\ Len(c) = Len(q) /\ \A n \in 1 .. Len(q) : c[n] = q[n]
    BY <2>3, <2>4
  <2> HIDE DEF c
  <2>6. q = c
    BY <1>2, <2>5, SameEntries
  <2> QED BY <2>6 DEF c
<1>6. Total(q) = Total(a) + Total(b)
  <2> HIDE DEF a, b
  <2> QED BY <1>3, <1>5, Bytes, TotalOfBoth
<1>7. Total(a) \in Nat /\ Total(b) \in Nat
  <2> HIDE DEF a, b
  <2> QED BY <1>3, BodyTotals
<1> HIDE DEF a, b
<1>8. Evicted(s, k).size = Total(b)
  BY <1>1, <1>2, <1>6, <1>7
<1> QED BY <1>1, <1>3, <1>4, <1>8 DEF q

\* The loop of retain ends with room for a body that is not larger than the limit.
LEMMA RoomIsMade ==
  ASSUME NEW s, s.kept \in Seq(BodyType), s.size = Total(s.kept),
         NEW bytes \in Nat, bytes <= MaximumBytes
  PROVE  LET t == MadeRoom(s, bytes)
         IN /\ t.kept \in Seq(BodyType) /\ Range(t.kept) \subseteq Range(s.kept)
            /\ t.size = Total(t.kept) /\ HasRoom(t, bytes)
<1> DEFINE N == Len(s.kept)
           Fits(k) == HasRoom(Evicted(s, k), bytes)
           K == {k \in 0 .. N : Fits(k)}
           First(k) == Fits(k) /\ \A j \in 0 .. k - 1 : ~Fits(j)
           k0 == CHOOSE k \in 0 .. N : First(k)
<1>0. MadeRoom(s, bytes) = Evicted(s, k0)
  BY DEF MadeRoom
<1>1. N \in Nat
  OBVIOUS
<1>2. Fits(N)
  <2> DEFINE t == Evicted(s, N)
  <2>1. t.kept \in Seq(BodyType) /\ Len(t.kept) = N - N /\ t.size = Total(t.kept)
    BY <1>1, EvictedIsCounted
  <2> HIDE DEF t
  <2>2. t.kept = <<>>
    BY <1>1, <2>1
  <2> QED BY <2>1, <2>2, TotalOfNone, BodyLimits DEF HasRoom, t
<1> HIDE DEF Fits
<1>3. K \subseteq Nat /\ K # {}
  BY <1>1, <1>2
<1>4. PICK m \in K : \A n \in K : m <= n
  <2> HIDE DEF K
  <2> QED BY <1>3, Least
<1>5. m \in 0 .. N /\ First(m)
  <2> HIDE DEF N
  <2>1. m \in 0 .. N /\ Fits(m)
    BY <1>4
  <2>2. ASSUME NEW j \in 0 .. m - 1 PROVE ~Fits(j)
    <3>1. j \in 0 .. N /\ ~(m <= j)
      BY <1>1, <2>1
    <3> QED BY <1>4, <3>1
  <2> QED BY <2>1, <2>2
<1>6. k0 \in 0 .. N /\ Fits(k0)
  <2>1. k0 \in 0 .. N /\ First(k0)
    <3> HIDE DEF First, N
    <3> QED BY <1>5
  <2> QED BY <2>1
<1> HIDE DEF k0
<1> DEFINE t == Evicted(s, k0)
<1>7. /\ t.kept \in Seq(BodyType) /\ Range(t.kept) \subseteq Range(s.kept) /\ t.size = Total(t.kept)
  BY <1>6, EvictedIsCounted
<1>8. HasRoom(t, bytes)
  BY <1>6 DEF Fits
<1> QED BY <1>0, <1>7, <1>8

LEMMA RangeAppend ==
  ASSUME NEW E, NEW s \in Seq(E), NEW b \in E
  PROVE  Range(Append(s, b)) = Range(s) \cup {b}
<1> DEFINE t == Append(s, b)
<1>1. DOMAIN s = 1 .. Len(s) /\ DOMAIN t = 1 .. Len(s) + 1 /\ Len(s) \in Nat
  OBVIOUS
<1>2. t[Len(s) + 1] = b /\ \A n \in 1 .. Len(s) : t[n] = s[n]
  OBVIOUS
<1>3. \A n \in DOMAIN t : n = Len(s) + 1 \/ n \in DOMAIN s
  BY <1>1
<1>4. Len(s) + 1 \in DOMAIN t /\ \A n \in DOMAIN s : n \in DOMAIN t
  BY <1>1
<1> HIDE DEF t
<1>5. Range(t) \subseteq Range(s) \cup {b}
  BY <1>1, <1>2, <1>3 DEF Range
<1>6. Range(s) \cup {b} \subseteq Range(t)
  BY <1>1, <1>2, <1>4 DEF Range
<1> QED BY <1>5, <1>6 DEF t

LEMMA SavingStart == SavingInit => SavingInv
<1> SUFFICES ASSUME SavingInit PROVE SavingInv
  OBVIOUS
<1>1. SavingTypeOK
  BY BodyBounds DEF SavingInit, SavingTypeOK, Idle, Partial
<1>2. BytesAreCounted
  BY BodyLimits, TotalOfNone DEF SavingInit, BytesAreCounted, Range
<1> QED BY <1>1, <1>2 DEF SavingInv, SavingInit, Idle

LEMMA RetainKeeps ==
  ASSUME SavingInv, NEW r \in Senders, NEW bytes \in Sizes, Retain(r, bytes)
  PROVE  SavingInv'
<1> DEFINE s == WithoutSender(r)
           room == MadeRoom(s, bytes)
           body == [id |-> bodyCount + 1, sender |-> r, bytes |-> bytes]
<1>0. bodies \in Seq(BodyType) /\ size = Total(bodies) /\ size <= MaximumBytes /\ Len(bodies) <= MaximumEntries
      /\ bytes \in Nat /\ size \in Nat /\ Len(bodies) \in Nat
  BY BodyLimits DEF SavingInv, SavingTypeOK, BytesAreCounted
<1>1. /\ s.kept \in Seq(BodyType) /\ Len(s.kept) <= Len(bodies)
      /\ Range(s.kept) \subseteq Range(bodies) \ BodiesOf(r)
      /\ s.size = Total(s.kept) /\ s.size <= size
  BY <1>0, Released
<1>2. body \in BodyType
  BY BodyBounds DEF Retain, SavingInv, SavingTypeOK, BodyType
<1>3. bodyCount' \in 0 .. MaxBodies
  BY BodyBounds DEF Retain, SavingInv, SavingTypeOK
<1>4. /\ bytes > MaximumBytes => bodies' = s.kept /\ size' = s.size
      /\ ~(bytes > MaximumBytes) => bodies' = Append(room.kept, body) /\ size' = room.size + bytes
      /\ bodyView' = bodyView /\ saving' = saving /\ temporary' = temporary /\ destination' = destination
  BY DEF Retain
<1> HIDE DEF s, room
<1>5. bodies' \in Seq(BodyType) /\ BytesAreCounted' /\ size' \in Nat
  <2>1. CASE bytes > MaximumBytes
    <3>1. s.size \in Nat /\ Len(s.kept) \in Nat
      BY <1>1, BodyTotals
    <3>2. s.size <= MaximumBytes /\ Len(s.kept) <= MaximumEntries
      BY <1>0, <1>1, <3>1, BodyLimits
    <3> QED BY <1>0, <1>1, <1>4, <2>1, <3>1, <3>2 DEF BytesAreCounted, SavingInv
  <2>2. CASE ~(bytes > MaximumBytes)
    <3>1. /\ room.kept \in Seq(BodyType) /\ Range(room.kept) \subseteq Range(s.kept)
          /\ room.size = Total(room.kept) /\ HasRoom(room, bytes)
      <4>1. bytes <= MaximumBytes
        BY <1>0, <2>2, BodyLimits
      <4> QED BY <1>0, <1>1, <4>1, RoomIsMade DEF room
    <3> DEFINE q == room.kept
               t == Append(q, body)
    <3>2. Total(q) \in Nat /\ Total(t) = Total(q) + bytes
      <4>1. body.bytes = bytes
        OBVIOUS
      <4> HIDE DEF body, q
      <4>2. q \in Seq(BodyType)
        BY <3>1 DEF q
      <4> QED BY <1>2, <4>1, <4>2, Bytes, TotalAppend
    <3>3. t \in Seq(BodyType) /\ Len(t) = Len(q) + 1 /\ Len(q) \in Nat
      <4> HIDE DEF body
      <4> QED BY <1>2, <3>1
    <3>4. Range(t) = Range(q) \cup {body}
      <4> HIDE DEF body
      <4> QED BY <1>2, <3>1, RangeAppend
    <3>5. \A b, c \in Range(t) : b.sender = c.sender => b = c
      <4>1. \A b \in Range(q) : b \in Range(bodies) /\ b.sender # r
        BY <1>1, <3>1 DEF BodiesOf
      <4>2. body.sender = r
        OBVIOUS
      <4> HIDE DEF body, q, t
      <4> QED BY <3>4, <4>1, <4>2 DEF SavingInv, BytesAreCounted
    <3>6. bodies' = t /\ size' = Total(t)
      BY <1>4, <2>2, <3>1, <3>2
    <3>7. size' <= MaximumBytes /\ Len(t) <= MaximumEntries /\ size' \in Nat
      <4>1. size' = room.size + bytes /\ room.size + bytes <= MaximumBytes
        BY <1>4, <2>2, <3>1 DEF HasRoom
      <4>2. room.size \in Nat
        BY <3>1, <3>2
      <4>3. Len(q) < MaximumEntries
        BY <3>1 DEF HasRoom
      <4> HIDE DEF t, q
      <4> QED BY <1>0, <3>3, <4>1, <4>2, <4>3, BodyLimits
    <3> HIDE DEF t
    <3> QED BY <3>3, <3>5, <3>6, <3>7 DEF BytesAreCounted
  <2> QED BY <2>1, <2>2
<1> QED BY <1>3, <1>4, <1>5 DEF SavingInv, SavingTypeOK

LEMMA ReleaseKeeps ==
  ASSUME SavingInv, NEW r \in Senders, ReleaseSender(r)
  PROVE  SavingInv'
<1> DEFINE s == WithoutSender(r)
<1>0. bodies \in Seq(BodyType) /\ size = Total(bodies) /\ size <= MaximumBytes /\ Len(bodies) <= MaximumEntries
      /\ size \in Nat /\ Len(bodies) \in Nat
  BY DEF SavingInv, SavingTypeOK, BytesAreCounted
<1>1. /\ s.kept \in Seq(BodyType) /\ Len(s.kept) <= Len(bodies)
      /\ Range(s.kept) \subseteq Range(bodies) \ BodiesOf(r)
      /\ s.size = Total(s.kept) /\ s.size <= size
  BY <1>0, Released
<1>2. s.size \in Nat /\ Len(s.kept) \in Nat
  BY <1>1, BodyTotals
<1>3. bodies' = s.kept /\ size' = s.size
  BY DEF ReleaseSender
<1> HIDE DEF s
<1>4. s.size <= MaximumBytes /\ Len(s.kept) <= MaximumEntries
  BY <1>0, <1>1, <1>2, BodyLimits
<1>5. BytesAreCounted'
  BY <1>1, <1>3, <1>4 DEF SavingInv, BytesAreCounted
<1> QED BY <1>1, <1>2, <1>3, <1>5 DEF SavingInv, SavingTypeOK, ReleaseSender

LEMMA ResetKeeps == SavingInv /\ ResetBodies => SavingInv'
<1> SUFFICES ASSUME SavingInv, ResetBodies PROVE SavingInv'
  OBVIOUS
<1>1. BytesAreCounted'
  BY BodyLimits, TotalOfNone DEF ResetBodies, BytesAreCounted, Range
<1>2. bodyView' \in 1 .. MaxBodyResets + 1 /\ 0 .. bodyView \subseteq 0 .. bodyView'
  BY BodyBounds DEF ResetBodies, SavingInv, SavingTypeOK
<1>3. SavingTypeOK'
  BY <1>2 DEF ResetBodies, SavingInv, SavingTypeOK
<1> QED BY <1>1, <1>3 DEF ResetBodies, SavingInv

\* The steps of a save before its end leave the bodies alone.
LEMMA SaveKeeps ==
  ASSUME SavingInv,
         \/ \E i \in 1 .. MaxBodies : Save(i)
         \/ DestinationPicked \/ PickerCancelled \/ TemporaryWritten \/ SaveFails \/ CheckBeforeCommit \/ CommitSave
  PROVE  SavingInv'
<1>1. bodies' = bodies /\ size' = size /\ bodyCount' = bodyCount /\ bodyView' = bodyView
  BY DEF Save, DestinationPicked, PickerCancelled, TemporaryWritten, SaveFails, CheckBeforeCommit, CommitSave
<1>2. BytesAreCounted'
  BY <1>1 DEF SavingInv, BytesAreCounted
<1> DEFINE Calls == [stage : {"idle", "picking", "writing", "written", "renaming", "renamed"}, body : 0 .. MaxBodies,
                     view : 0 .. bodyView, bytes : Sizes \cup {0}]
<1>0. saving \in Calls /\ temporary \in {Partial} \cup 0 .. MaxBodies /\ destination \in 0 .. MaxBodies
      /\ bodyView \in Nat /\ MaxBodies \in Nat /\ saving.body \in 0 .. MaxBodies
  BY BodyBounds DEF SavingInv, SavingTypeOK
<1>3. saving' \in Calls /\ temporary' \in {Partial} \cup 0 .. MaxBodies /\ destination' \in 0 .. MaxBodies
  <2>1. CASE \E i \in 1 .. MaxBodies : Save(i)
    BY <1>0, <2>1 DEF Save
  <2>2. CASE DestinationPicked
    <3>1. \A b \in BodyWith(saving.body) : b.bytes \in Sizes
      <4>1. \A b \in BodyWith(saving.body) : b \in BodyType
        BY DEF BodyWith, Range, SavingInv, SavingTypeOK
      <4> QED BY <4>1 DEF BodyType
    <3>2. CASE Current(saving)
      <4>1. PICK b \in BodyWith(saving.body) :
              saving' = [saving EXCEPT !.stage = "writing", !.bytes = b.bytes] /\ temporary' = Partial
        BY <2>2, <3>2 DEF DestinationPicked
      <4> QED BY <1>0, <2>2, <3>1, <4>1 DEF DestinationPicked
    <3>3. CASE ~Current(saving)
      BY <1>0, <2>2, <3>3 DEF DestinationPicked, Idle
    <3> QED BY <3>2, <3>3
  <2>3. CASE PickerCancelled \/ TemporaryWritten \/ SaveFails \/ CheckBeforeCommit \/ CommitSave
    <3>1. CASE PickerCancelled
      BY <1>0, <3>1 DEF PickerCancelled, Idle
    <3>2. CASE TemporaryWritten
      BY <1>0, <3>2 DEF TemporaryWritten
    <3>3. CASE SaveFails
      BY <1>0, <3>3 DEF SaveFails, Idle
    <3>4. CASE CommitSave
      BY <1>0, <3>4 DEF CommitSave, SavingInv
    <3>5. CASE CheckBeforeCommit
      BY <1>0, <3>5 DEF CheckBeforeCommit, Idle
    <3> QED BY <2>3, <3>1, <3>2, <3>3, <3>4, <3>5
  <2> QED BY <2>1, <2>2, <2>3
<1>4. saving'.stage \in {"written", "renaming"} => temporary' = saving'.body
  <2>1. CASE TemporaryWritten
    BY <1>0, <2>1 DEF TemporaryWritten
  <2>2. CASE CheckBeforeCommit
    <3>1. CASE Current(saving)
      BY <1>0, <2>2, <3>1 DEF CheckBeforeCommit, SavingInv
    <3>2. CASE ~Current(saving)
      BY <2>2, <3>2 DEF CheckBeforeCommit, Idle
    <3> QED BY <3>1, <3>2
  <2>3. CASE ~(TemporaryWritten \/ CheckBeforeCommit)
    <3>1. saving'.stage \notin {"written", "renaming"}
      <4>1. CASE \E i \in 1 .. MaxBodies : Save(i)
        BY <4>1 DEF Save
      <4>2. CASE DestinationPicked
        <5>1. CASE Current(saving)
          BY <1>0, <4>2, <5>1 DEF DestinationPicked
        <5>2. CASE ~Current(saving)
          BY <4>2, <5>2 DEF DestinationPicked, Idle
        <5> QED BY <5>1, <5>2
      <4>3. CASE PickerCancelled \/ SaveFails
        BY <4>3 DEF PickerCancelled, SaveFails, Idle
      <4>4. CASE CommitSave
        BY <1>0, <4>4 DEF CommitSave
      <4> QED BY <2>3, <4>1, <4>2, <4>3, <4>4
    <3> QED BY <3>1
  <2> QED BY <2>1, <2>2, <2>3
<1>5. SavingTypeOK'
  BY <1>1, <1>3 DEF SavingInv, SavingTypeOK
<1> QED BY <1>2, <1>4, <1>5 DEF SavingInv

LEMMA RefreshKeeps == SavingInv /\ Refresh => SavingInv'
<1> SUFFICES ASSUME SavingInv, Refresh PROVE SavingInv'
  OBVIOUS
<1>0. bodies \in Seq(BodyType) /\ size = Total(bodies) /\ Len(bodies) \in Nat
  BY DEF SavingInv, SavingTypeOK, BytesAreCounted
<1>1. bodies' \in Seq(BodyType) /\ Total(bodies') = Total(bodies) /\ Range(bodies') \subseteq Range(bodies)
      /\ Len(bodies') <= MaximumEntries
  <2>1. CASE ~Current(saving)
    BY <1>0, <2>1 DEF Refresh, SavingInv, BytesAreCounted
  <2>2. CASE Current(saving)
    <3> DEFINE it == BodyWith(saving.body)
               others == Range(bodies) \ it
               i == Kept(bodies, it)
               o == Kept(bodies, others)
    <3>1. bodies' = o \o i
      BY <2>2 DEF Refresh
    <3>2. \A b \in Range(bodies) : b \in it <=> b \notin others
      OBVIOUS
    <3> HIDE DEF it, others
    <3>3. /\ i \in Seq(BodyType) /\ Range(i) \subseteq Range(bodies)
          /\ o \in Seq(BodyType) /\ Range(o) \subseteq Range(bodies)
      BY <1>0, KeptIsSome
    <3>4. Total(o) + Total(i) = Total(bodies) /\ Len(o) + Len(i) = Len(bodies)
      BY <1>0, <3>2, Bytes, TotalOfParts
    <3> HIDE DEF i, o
    <3>5. Total(o \o i) = Total(o) + Total(i)
      BY <3>3, Bytes, TotalOfBoth
    <3>6. o \o i \in Seq(BodyType) /\ Len(o \o i) = Len(bodies)
      BY <3>3, <3>4
    <3>7. Range(o \o i) \subseteq Range(o) \cup Range(i)
      <4>1. \A n \in 1 .. Len(o) + Len(i) : n \in 1 .. Len(o) \/ n - Len(o) \in 1 .. Len(i)
        BY <3>3
      <4>2. \A n \in 1 .. Len(o) + Len(i) :
              (o \o i)[n] = IF n \in 1 .. Len(o) THEN o[n] ELSE i[n - Len(o)]
        BY <3>3
      <4>3. DOMAIN (o \o i) = 1 .. Len(o) + Len(i) /\ DOMAIN o = 1 .. Len(o) /\ DOMAIN i = 1 .. Len(i)
        BY <3>3
      <4> QED BY <4>1, <4>2, <4>3 DEF Range
    <3> QED BY <3>1, <3>3, <3>4, <3>5, <3>6, <3>7 DEF SavingInv, BytesAreCounted
  <2> QED BY <2>1, <2>2
<1>2. BytesAreCounted'
  BY <1>1 DEF SavingInv, BytesAreCounted, Refresh
<1>3. SavingTypeOK'
  BY <1>1, BodyBounds DEF SavingInv, SavingTypeOK, Refresh, Idle
<1> QED BY <1>2, <1>3 DEF SavingInv, Refresh, Idle

LEMMA SavingStep == SavingInv /\ [SavingNext]_savingVars => SavingInv'
<1> SUFFICES ASSUME SavingInv, [SavingNext]_savingVars PROVE SavingInv'
  OBVIOUS
<1>1. CASE UNCHANGED savingVars
  BY <1>1 DEF savingVars, SavingInv, SavingTypeOK, BytesAreCounted
<1>2. CASE \E r \in Senders : ReleaseSender(r) \/ \E bytes \in Sizes : Retain(r, bytes)
  BY <1>2, ReleaseKeeps, RetainKeeps
<1>3. CASE \/ \E i \in 1 .. MaxBodies : Save(i)
           \/ DestinationPicked \/ PickerCancelled \/ TemporaryWritten \/ SaveFails \/ CheckBeforeCommit \/ CommitSave
  BY <1>3, SaveKeeps
<1>4. CASE ResetBodies \/ Refresh
  BY <1>4, ResetKeeps, RefreshKeeps
<1> QED BY <1>1, <1>2, <1>3, <1>4 DEF SavingNext

\* Only the rename changes what is at the destination, to the whole body it was asked for.
LEMMA SavesWhole ==
  ASSUME SavingInv, [SavingNext]_savingVars, destination' # destination
  PROVE  saving.stage = "renaming" /\ destination' = saving.body
<1>1. CommitSave
  BY DEF SavingNext, savingVars, ReleaseSender, Retain, Save, ResetBodies, DestinationPicked, PickerCancelled,
     TemporaryWritten, SaveFails, CheckBeforeCommit, Refresh
<1> QED BY <1>1 DEF CommitSave, SavingInv

\* Only the check before it issues the rename, of a body that is kept.
LEMMA RenamesKept ==
  ASSUME SavingInv, [SavingNext]_savingVars, saving.stage # "renaming", saving'.stage = "renaming"
  PROVE  temporary = saving'.body /\ BodyWith(saving'.body) # {}
<1>0. saving = [saving EXCEPT !.stage = saving.stage]
      /\ \A x : [saving EXCEPT !.stage = x].body = saving.body /\ [saving EXCEPT !.stage = x].stage = x
  BY DEF SavingInv, SavingTypeOK
<1>1. CheckBeforeCommit
  <2>1. ~(UNCHANGED saving)
    OBVIOUS
  <2>2. ~\E i \in 1 .. MaxBodies : Save(i)
    BY DEF Save
  <2>3. ~DestinationPicked
    <3> SUFFICES ASSUME DestinationPicked PROVE FALSE
      OBVIOUS
    <3>1. CASE Current(saving)
      BY <3>1 DEF DestinationPicked, SavingInv, SavingTypeOK
    <3>2. CASE ~Current(saving)
      BY <3>2 DEF DestinationPicked, Idle
    <3> QED BY <3>1, <3>2
  <2>4. ~(PickerCancelled \/ SaveFails \/ Refresh)
    BY DEF PickerCancelled, SaveFails, Refresh, Idle
  <2>5. ~(TemporaryWritten \/ CommitSave)
    BY <1>0 DEF TemporaryWritten, CommitSave
  <2> QED BY <2>1, <2>2, <2>3, <2>4, <2>5 DEF SavingNext, savingVars, ReleaseSender, Retain, ResetBodies
<1>2. Current(saving)
  BY <1>1 DEF CheckBeforeCommit, Idle
<1>3. saving'.body = saving.body /\ saving.stage = "written"
  BY <1>0, <1>1, <1>2 DEF CheckBeforeCommit
<1> QED BY <1>2, <1>3 DEF Current, SavingInv

-----------------------------------------------------------------------------
(* Environments and their files *)

\* What the author of a draft, a preview or a write saw of an environment is what it holds,
\* unless the environment has a later revision.
Based(e, revision, seen) ==
  /\ sets[e].state # "unused" /\ revision <= sets[e].updated
  /\ revision = sets[e].updated => seen = sets[e].vars
BasedOn(x) == x.target # New => Based(x.target, x.revision, x.seen)
BasedInv ==
  /\ \A e \in Environments : drafts[e] # NoDraft => Based(e, drafts[e].revision, drafts[e].seen)
  /\ \A s \in staging : BasedOn(s)
  /\ \A p \in Range(previews) : BasedOn(p)
  /\ \A c \in confirms : BasedOn(c.preview)
  /\ \A n \in 1 .. Len(writes) :
       writes[n].kind \in {"update", "import"} /\ writes[n].env # New
         => Based(writes[n].env, writes[n].revision, writes[n].seen)

\* A preview that may still be imported was not imported, and is not what a watch came from.
Fresh(i) ==
  /\ imports[i] = 0
  /\ \A e \in Environments : watches[e].id # i
  /\ \A s \in staging : s.entry # i
ImportAt(n) == n \in 1 .. Len(writes) /\ writes[n].kind = "import"
ImportId(n) == writes[n].confirm.preview.id
\* At most one call of applyPreview, reading or writing, is about a preview.
IdInv ==
  /\ ImportedOnce
  /\ \A p \in Range(previews) : Fresh(p.id)
  /\ \A c \in confirms : /\ Fresh(c.preview.id)
                         /\ \A d \in confirms : d.preview.id = c.preview.id => d = c
                         /\ \A n \in 1 .. Len(writes) : ImportAt(n) => ImportId(n) # c.preview.id
  /\ \A n \in 1 .. Len(writes) : ImportAt(n) =>
       /\ Fresh(ImportId(n))
       /\ \A m \in 1 .. Len(writes) : ImportAt(m) /\ ImportId(m) = ImportId(n) => m = n

\* A read for a watch is of that watch and its page, and no newer than its newest; what that
\* one has read is current, unless a change is reported.
ReadInv(s) ==
  s.entry # NoId =>
    /\ s.target \in Environments
    /\ \A e \in Environments :
         watches[e].id = s.entry
           => e = s.target /\ s.view = watches[e].view /\ s.turn <= watches[e].turn
    /\ Offers(s) /\ s.value # Unread /\ s.target \notin notify => s.value = file
WatchInv ==
  /\ NothingOutlivesTheView /\ OnlyStoredAreWatched /\ WatchIsUpToDate
  /\ \A e, f \in Environments : watches[e] # NoWatch /\ watches[e].id = watches[f].id => e = f
  /\ \A e \in notify : watches[e] # NoWatch
  /\ \A s \in staging : ReadInv(s)

EnvInv == EnvTypeOK /\ BasedInv /\ IdInv /\ WatchInv

-----------------------------------------------------------------------------
(* Lemmas about the maps and the queue of environments *)

LEMMA Shorter ==
  ASSUME NEW E, NEW s \in Seq(E), s # <<>>
  PROVE  /\ Head(s) \in E /\ Head(s) = s[1] /\ 1 \in 1 .. Len(s)
         /\ Tail(s) \in Seq(E) /\ Len(Tail(s)) = Len(s) - 1
         /\ \A n \in 1 .. Len(Tail(s)) : n + 1 \in 1 .. Len(s) /\ Tail(s)[n] = s[n + 1]
  OBVIOUS

LEMMA Longer ==
  ASSUME NEW E, NEW s \in Seq(E), NEW b \in E
  PROVE  /\ Append(s, b) \in Seq(E) /\ Len(Append(s, b)) = Len(s) + 1
         /\ \A n \in 1 .. Len(Append(s, b)) :
              \/ n \in 1 .. Len(s) /\ Append(s, b)[n] = s[n]
              \/ n = Len(s) + 1 /\ Append(s, b)[n] = b
  OBVIOUS

LEMMA RangeTail ==
  ASSUME NEW E, NEW s \in Seq(E), s # <<>>
  PROVE  Range(Tail(s)) \subseteq Range(s)
<1> DEFINE t == Tail(s)
<1>1. /\ t \in Seq(E) /\ Len(t) = Len(s) - 1
      /\ \A n \in 1 .. Len(t) : n + 1 \in 1 .. Len(s) /\ t[n] = s[n + 1]
  BY Shorter
<1> HIDE DEF t
<1>2. DOMAIN t = 1 .. Len(t) /\ DOMAIN s = 1 .. Len(s)
  BY <1>1
<1>3. \A n \in DOMAIN t : n + 1 \in DOMAIN s /\ t[n] = s[n + 1]
  BY <1>1, <1>2
<1>4. Range(t) \subseteq Range(s)
  BY <1>3 DEF Range
<1> QED BY <1>4 DEF t

LEMMA InRange ==
  ASSUME NEW E, NEW s \in Seq(E)
  PROVE  /\ Range(s) \subseteq E
         /\ \A n \in 1 .. Len(s) : s[n] \in Range(s)
  BY DEF Range

\* remember keeps the limit, and nothing but what was there and the new preview.
LEMMA RememberedSome ==
  ASSUME NEW kept \in Seq(PreviewType), Len(kept) <= PreviewLimit, NEW p \in PreviewType
  PROVE  /\ Remembered(kept, p) \in Seq(PreviewType) /\ Len(Remembered(kept, p)) <= PreviewLimit
         /\ Range(Remembered(kept, p)) \subseteq Range(kept) \cup {p}
<1>1. CASE Len(kept) >= PreviewLimit
  <2> DEFINE t == Tail(kept)
  <2>1. kept # <<>> /\ Len(kept) \in Nat
    BY <1>1, PreviewsAreKept
  <2>2. t \in Seq(PreviewType) /\ Len(t) = Len(kept) - 1 /\ Range(t) \subseteq Range(kept)
    BY <2>1, Shorter, RangeTail
  <2>3. Remembered(kept, p) = Append(t, p)
    BY <1>1 DEF Remembered
  <2> HIDE DEF t
  <2>4. Len(Append(t, p)) = Len(t) + 1 /\ Append(t, p) \in Seq(PreviewType) /\ Range(Append(t, p)) = Range(t) \cup {p}
    BY <2>2, Longer, RangeAppend
  <2> QED BY <2>1, <2>2, <2>3, <2>4
<1>2. CASE ~(Len(kept) >= PreviewLimit)
  <2>1. Remembered(kept, p) = Append(kept, p) /\ Len(kept) \in Nat
    BY <1>2 DEF Remembered
  <2>2. Len(Append(kept, p)) = Len(kept) + 1 /\ Append(kept, p) \in Seq(PreviewType)
        /\ Range(Append(kept, p)) = Range(kept) \cup {p}
    BY Longer, RangeAppend
  <2> QED BY <1>2, <2>1, <2>2, PreviewsAreKept
<1> QED BY <1>1, <1>2

\* What is in the collections of the service.
LEMMA EnvTypes ==
  ASSUME EnvTypeOK
  PROVE  /\ \A e \in Environments : sets[e] \in SetType /\ watches[e] \in WatchType \cup {NoWatch}
                                    /\ drafts[e] \in [revision : Nat, seen : Seen]
         /\ \A p \in Range(previews) : p \in PreviewType
         /\ Len(writes) \in Nat
         /\ \A n \in 1 .. Len(writes) :
              /\ writes[n] \in PanelType \cup ImportType
              /\ ImportAt(n) => writes[n] \in ImportType /\ ImportId(n) \in PreviewIds
              /\ writes[n].kind # "import" => writes[n] \in PanelType
<1>1. Range(previews) \subseteq PreviewType
  BY InRange DEF EnvTypeOK
<1>2. \A n \in 1 .. Len(writes) : writes[n] \in PanelType \cup ImportType
  BY DEF EnvTypeOK
<1>3. ASSUME NEW n \in 1 .. Len(writes)
      PROVE  /\ ImportAt(n) => writes[n] \in ImportType /\ ImportId(n) \in PreviewIds
             /\ writes[n].kind # "import" => writes[n] \in PanelType
  BY <1>2 DEF ImportAt, ImportId, PanelType, ImportType, ConfirmType, PreviewType
<1> QED BY <1>1, <1>2, <1>3 DEF EnvTypeOK, Revisions

\* An environment keeps being one, and its variables change with its revision only.
Grows(e) ==
  sets[e].state # "unused" =>
    /\ sets'[e].state # "unused"
    /\ \/ sets'[e].updated = sets[e].updated /\ sets'[e].vars = sets[e].vars
       \/ sets'[e].updated > sets[e].updated

\* Based of the state a step leads to, for a revision and variables of any state.
StillBased(e, revision, seen) ==
  /\ sets'[e].state # "unused" /\ revision <= sets'[e].updated
  /\ revision = sets'[e].updated => seen = sets'[e].vars

LEMMA BasedStays ==
  ASSUME EnvTypeOK, EnvTypeOK', NEW e \in Environments, Grows(e), NEW revision \in Nat, NEW seen,
         Based(e, revision, seen)
  PROVE  StillBased(e, revision, seen)
<1>1. sets[e].updated \in Nat /\ sets'[e].updated \in Nat
  BY DEF EnvTypeOK, SetType, Revisions
<1> QED BY <1>1 DEF Based, StillBased, Grows

\* Dropping previews, confirmations and writes, and adding reads for watches, keeps ids apart.
LEMMA FewerIds ==
  ASSUME EnvTypeOK, IdInv, imports' = imports,
         \A e \in Environments : watches'[e].id = NoId \/ watches'[e].id = watches[e].id,
         \A s \in staging' : \/ s.entry = NoId \/ \E t \in staging : t.entry = s.entry
                             \/ \E e \in Environments : watches[e].id = s.entry,
         Range(previews') \subseteq Range(previews), confirms' \subseteq confirms,
         NEW k \in Nat, Len(writes') \in Nat,
         \A n \in 1 .. Len(writes') : ImportAt(n)' => n + k \in 1 .. Len(writes) /\ writes'[n] = writes[n + k]
  PROVE  IdInv'
<1>1. ASSUME NEW i \in PreviewIds, Fresh(i) PROVE Fresh(i)'
  BY <1>1, NamesAreProper DEF Fresh
<1>2. \A p \in Range(previews') : Fresh(p.id)'
  BY <1>1, EnvTypes DEF IdInv, PreviewType
<1>3. ASSUME NEW n \in 1 .. Len(writes'), ImportAt(n)'
      PROVE  ImportAt(n + k) /\ ImportId(n)' = ImportId(n + k) /\ n + k \in 1 .. Len(writes)
  BY <1>3 DEF ImportAt, ImportId
<1>4. \A c \in confirms' : /\ Fresh(c.preview.id)'
                           /\ \A d \in confirms' : d.preview.id = c.preview.id => d = c
                           /\ \A n \in 1 .. Len(writes') : ImportAt(n)' => ImportId(n)' # c.preview.id
  <2> TAKE c \in confirms'
  <2>1. c.preview.id \in PreviewIds
    BY DEF EnvTypeOK, ConfirmType, PreviewType
  <2>2. Fresh(c.preview.id)'
    BY <1>1, <2>1 DEF IdInv
  <2>3. \A d \in confirms' : d.preview.id = c.preview.id => d = c
    BY DEF IdInv
  <2>4. ASSUME NEW n \in 1 .. Len(writes'), ImportAt(n)' PROVE ImportId(n)' # c.preview.id
    BY <1>3, <2>4 DEF IdInv
  <2> QED BY <2>2, <2>3, <2>4
<1>5. ASSUME NEW n \in 1 .. Len(writes'), ImportAt(n)'
      PROVE  /\ Fresh(ImportId(n))'
             /\ \A m \in 1 .. Len(writes') : ImportAt(m)' /\ ImportId(m)' = ImportId(n)' => m = n
  <2>1. ImportAt(n + k) /\ ImportId(n)' = ImportId(n + k) /\ n + k \in 1 .. Len(writes)
    BY <1>3, <1>5
  <2>2. Fresh(ImportId(n + k)) /\ ImportId(n + k) \in PreviewIds
    BY <2>1, EnvTypes DEF IdInv
  <2>3. Fresh(ImportId(n))'
    BY <1>1, <2>1, <2>2
  <2>4. ASSUME NEW m \in 1 .. Len(writes'), ImportAt(m)', ImportId(m)' = ImportId(n)' PROVE m = n
    <3>1. ImportAt(m + k) /\ ImportId(m)' = ImportId(m + k) /\ m + k \in 1 .. Len(writes)
      BY <1>3, <2>4
    <3>2. m + k = n + k
      BY <2>1, <2>4, <3>1 DEF IdInv
    <3> QED BY <3>2
  <2> QED BY <2>3, <2>4
<1>6. ImportedOnce'
  BY DEF IdInv, ImportedOnce
<1> QED BY <1>2, <1>4, <1>5, <1>6 DEF IdInv

-----------------------------------------------------------------------------
(* Choosing and reading files *)

LEMMA EnvStart == EnvInit => EnvInv
<1> SUFFICES ASSUME EnvInit PROVE EnvInv
  OBVIOUS
<1>1. EnvTypeOK
  BY PreviewsAreKept DEF EnvInit, EnvTypeOK, SetType, Revisions, Seen, NoDraft
<1>2. BasedInv /\ IdInv /\ WatchInv
  BY DEF EnvInit, BasedInv, IdInv, ImportedOnce, WatchInv, NothingOutlivesTheView, OnlyStoredAreWatched,
     WatchIsUpToDate, Range
<1> QED BY <1>1, <1>2 DEF EnvInv

LEMMA ChooseFileKeeps ==
  ASSUME EnvInv, NEW e \in Targets, ChooseFile(e)
  PROVE  EnvInv'
<1>1. EnvTypeOK'
  BY DEF EnvInv, EnvTypeOK, ChooseFile, Stored
<1>2. BasedInv'
  BY DEF EnvInv, ChooseFile, BasedInv, BasedOn, Based
<1>3. IdInv'
  BY DEF EnvInv, ChooseFile, IdInv, ImportedOnce, Fresh, ImportAt, ImportId
<1>4. WatchInv'
  BY DEF EnvInv, ChooseFile, WatchInv, NothingOutlivesTheView, OnlyStoredAreWatched, Stored,
     WatchIsUpToDate, ReadInv, Offers
<1> QED BY <1>1, <1>2, <1>3, <1>4 DEF EnvInv

\* What stage takes of an environment on the page is what it holds.
LEMMA StagedIsBased ==
  ASSUME EnvTypeOK, NEW v \in Nat, NEW e \in Targets, CanStage(e),
         NEW entry \in PreviewIds \cup {NoId}, NEW turn \in Nat
  PROVE  /\ Stage(v, e, entry, turn) \in StageType /\ BasedOn(Stage(v, e, entry, turn))
         /\ Stage(v, e, entry, turn).entry = entry /\ Stage(v, e, entry, turn).turn = turn
         /\ Stage(v, e, entry, turn).view = v /\ Stage(v, e, entry, turn).target = e
         /\ Stage(v, e, entry, turn).value = Unread
<1>1. CASE e = New
  BY <1>1 DEF Stage, StageType, BasedOn, Seen, Revisions
<1>2. CASE e \in Stored /\ e # New
  <2>1. sets[e] \in SetType /\ e \in Environments /\ sets[e].state = "stored"
    BY <1>2 DEF EnvTypeOK, Stored
  <2> QED BY <1>2, <2>1 DEF Stage, StageType, BasedOn, Based, Seen, Revisions, SetType
<1> QED BY <1>1, <1>2 DEF CanStage

LEMMA FileChosenKeeps ==
  ASSUME EnvInv, NEW c \in choosing, FileChosen(c)
  PROVE  EnvInv'
<1> DEFINE new == Stage(c.view, c.target, NoId, 0)
<1>0. EnvTypeOK /\ c.view \in Nat /\ c.target \in Targets
  BY DEF EnvInv, EnvTypeOK
<1>1. staging' = staging \/ (CanStage(c.target) /\ staging' = staging \cup {new})
  <2> HIDE DEF new
  <2>1. staging' = IF c.view = view /\ CanStage(c.target) THEN staging \cup {new} ELSE staging
    BY DEF FileChosen, new
  <2> QED BY <2>1
<1>2. ASSUME CanStage(c.target) PROVE new \in StageType /\ BasedOn(new) /\ new.entry = NoId
  <2>1. 0 \in Nat /\ NoId \in PreviewIds \cup {NoId}
    OBVIOUS
  <2> QED BY <1>0, <1>2, <2>1, StagedIsBased
<1> HIDE DEF new
<1>3. EnvTypeOK'
  BY <1>0, <1>1, <1>2 DEF EnvInv, EnvTypeOK, FileChosen, Stored
<1>4. BasedInv'
  <2>1. \A s \in staging' : BasedOn(s)
    BY <1>1, <1>2 DEF EnvInv, BasedInv
  <2>2. sets' = sets
    BY DEF FileChosen
  <2>3. \A s \in staging' : BasedOn(s)'
    BY <2>1, <2>2 DEF BasedOn, Based
  <2> QED BY <2>2, <2>3 DEF EnvInv, FileChosen, BasedInv, BasedOn, Based
<1>5. IdInv'
  <2>1. \A s \in staging' : s.entry = NoId \/ s \in staging
    BY <1>1, <1>2
  <2>2. UNCHANGED <<previews, confirms, writes, watches, imports>>
    BY DEF FileChosen
  <2>3. Len(writes) \in Nat
    BY <1>0, EnvTypes
  <2>4. \A n \in 1 .. Len(writes') : ImportAt(n)' => n + 0 \in 1 .. Len(writes) /\ writes'[n] = writes[n + 0]
    BY <2>2, <2>3
  <2>5. \A t \in staging' : \/ t.entry = NoId \/ \E u \in staging : u.entry = t.entry
                            \/ \E e \in Environments : watches[e].id = t.entry
    BY <2>1
  <2> QED BY <1>0, <2>2, <2>3, <2>4, <2>5, FewerIds DEF EnvInv
<1>6. WatchInv'
  <2>1. \A s \in staging' : s.entry = NoId \/ s \in staging
    BY <1>1, <1>2
  <2>2. \A s \in staging' : ReadInv(s)'
    BY <2>1 DEF EnvInv, FileChosen, WatchInv, ReadInv, Offers
  <2>3. staging \subseteq staging'
    BY <1>1
  <2> QED BY <2>2, <2>3 DEF EnvInv, FileChosen, WatchInv, NothingOutlivesTheView, OnlyStoredAreWatched, Stored,
            WatchIsUpToDate
<1> QED BY <1>3, <1>4, <1>5, <1>6 DEF EnvInv

LEMMA ReadFileKeeps ==
  ASSUME EnvInv, NEW s \in staging, ReadFile(s)
  PROVE  EnvInv'
<1>1. PICK new \in StageType :
        /\ new.view = s.view /\ new.target = s.target /\ new.revision = s.revision /\ new.seen = s.seen
        /\ new.entry = s.entry /\ new.turn = s.turn /\ new.value = file
        /\ staging' = (staging \ {s}) \cup {new}
  <2> DEFINE n == [s EXCEPT !.value = file]
  <2>1. s \in StageType /\ file \in Seen
    BY DEF EnvInv, EnvTypeOK
  <2>2. /\ n \in StageType
        /\ n.view = s.view /\ n.target = s.target /\ n.revision = s.revision /\ n.seen = s.seen
        /\ n.entry = s.entry /\ n.turn = s.turn /\ n.value = file
    BY <2>1 DEF StageType
  <2>3. staging' = (staging \ {s}) \cup {n}
    BY DEF ReadFile
  <2> HIDE DEF n
  <2> QED BY <2>2, <2>3
<1>2. EnvTypeOK'
  BY <1>1 DEF EnvInv, EnvTypeOK, ReadFile, Stored
<1>3. BasedInv'
  <2>1. BasedOn(new)
    BY <1>1 DEF EnvInv, BasedInv, BasedOn
  <2>2. sets' = sets
    BY DEF ReadFile
  <2>3. \A t \in staging' : BasedOn(t)'
    BY <1>1, <2>1, <2>2 DEF EnvInv, BasedInv, BasedOn, Based
  <2> QED BY <2>2, <2>3 DEF EnvInv, ReadFile, BasedInv, BasedOn, Based
<1>4. IdInv'
  <2>1. \A t \in staging' : \E u \in staging : u.entry = t.entry
    BY <1>1
  <2> QED BY <2>1 DEF EnvInv, ReadFile, IdInv, ImportedOnce, Fresh, ImportAt, ImportId
<1>5. WatchInv'
  <2>1. \A t \in staging' : ReadInv(t)'
    BY <1>1 DEF EnvInv, ReadFile, WatchInv, ReadInv, Offers
  <2>2. \A u \in staging : \E t \in staging' : t.entry = u.entry /\ t.turn = u.turn
    BY <1>1
  <2>3. WatchIsUpToDate'
    BY <2>2 DEF EnvInv, ReadFile, WatchInv, WatchIsUpToDate
  <2> QED BY <2>1, <2>3 DEF EnvInv, ReadFile, WatchInv, NothingOutlivesTheView, OnlyStoredAreWatched, Stored
<1> QED BY <1>2, <1>3, <1>4, <1>5 DEF EnvInv

\* A preview that is offered has an id nothing refers to, and what the read got.
LEMMA OfferedSome ==
  ASSUME EnvTypeOK, NEW s \in staging, s.value \in Values,
         NEW kept \in Seq(PreviewType), Len(kept) <= PreviewLimit, Offered(kept, s)
  PROVE  \E p \in PreviewType :
           /\ Forgotten(p.id) /\ p.view = s.view /\ p.target = s.target /\ p.revision = s.revision
           /\ p.seen = s.seen
           /\ previews' \in Seq(PreviewType) /\ Len(previews') <= PreviewLimit
           /\ Range(previews') \subseteq Range(kept) \cup {p}
           /\ imports' = [imports EXCEPT ![p.id] = 0]
<1> DEFINE i == CHOOSE x \in PreviewIds : Forgotten(x)
           p == [id |-> i, view |-> s.view, target |-> s.target,
                 revision |-> s.revision, seen |-> s.seen, value |-> s.value]
<1>1. i \in PreviewIds /\ Forgotten(i)
  <2>1. \E x \in PreviewIds : Forgotten(x)
    BY DEF Offered
  <2> HIDE DEF Offered
  <2> QED BY <2>1
<1>2. previews' = Remembered(kept, p) /\ imports' = [imports EXCEPT ![i] = 0]
  BY DEF Offered
<1> HIDE DEF i
<1>3. p \in PreviewType
  BY <1>1 DEF EnvTypeOK, StageType, PreviewType
<1>4. p.id = i /\ p.view = s.view /\ p.target = s.target /\ p.revision = s.revision /\ p.seen = s.seen
  OBVIOUS
<1> HIDE DEF p
<1>5. /\ previews' \in Seq(PreviewType) /\ Len(previews') <= PreviewLimit
      /\ Range(previews') \subseteq Range(kept) \cup {p}
  BY <1>2, <1>3, RememberedSome
<1> QED BY <1>1, <1>2, <1>3, <1>4, <1>5

\* What a new preview does to the ids.
LEMMA OfferedIds ==
  ASSUME EnvTypeOK, IdInv, NEW p \in PreviewType, Forgotten(p.id),
         Range(previews') \subseteq Range(previews) \cup {p},
         imports' = [imports EXCEPT ![p.id] = 0],
         staging' \subseteq staging, \A e \in Environments : watches'[e].id = watches[e].id,
         confirms' = confirms, writes' = writes
  PROVE  IdInv'
<1>1. p.id \in PreviewIds /\ imports \in [PreviewIds -> Nat]
  BY DEF PreviewType, EnvTypeOK
<1>2. Fresh(p.id)'
  BY <1>1 DEF Forgotten, Fresh
<1>3. ASSUME NEW i \in PreviewIds, Fresh(i) PROVE Fresh(i)'
  BY <1>1, <1>3 DEF Fresh
<1>4. \A q \in Range(previews') : Fresh(q.id)'
  BY <1>2, <1>3, EnvTypes DEF IdInv, PreviewType
<1>5. \A c \in confirms : c.preview.id \in PreviewIds
  BY DEF EnvTypeOK, ConfirmType, PreviewType
<1>6. \A n \in 1 .. Len(writes) : ImportAt(n) => ImportId(n) \in PreviewIds
  BY EnvTypes
<1>7. ImportedOnce'
  BY <1>1 DEF IdInv, ImportedOnce
<1>8. \A n : ImportAt(n)' = ImportAt(n) /\ ImportId(n)' = ImportId(n)
  BY DEF ImportAt, ImportId
<1>9. \A c \in confirms' : /\ Fresh(c.preview.id)'
                           /\ \A d \in confirms' : d.preview.id = c.preview.id => d = c
                           /\ \A n \in 1 .. Len(writes') : ImportAt(n)' => ImportId(n)' # c.preview.id
  BY <1>3, <1>5, <1>8 DEF IdInv
<1>10. \A n \in 1 .. Len(writes') : ImportAt(n)' =>
         /\ Fresh(ImportId(n))'
         /\ \A m \in 1 .. Len(writes') : ImportAt(m)' /\ ImportId(m)' = ImportId(n)' => m = n
  <2> TAKE n \in 1 .. Len(writes')
  <2> HAVE ImportAt(n)'
  <2>1. ImportAt(n) /\ ImportId(n)' = ImportId(n) /\ n \in 1 .. Len(writes)
    BY <1>8
  <2>2. Fresh(ImportId(n))'
    BY <1>3, <1>6, <2>1 DEF IdInv
  <2>3. \A m \in 1 .. Len(writes) : ImportAt(m) /\ ImportId(m) = ImportId(n) => m = n
    BY <2>1 DEF IdInv
  <2> QED BY <1>8, <2>1, <2>2, <2>3
<1> QED BY <1>4, <1>7, <1>9, <1>10 DEF IdInv

LEMMA PreviewReadKeeps ==
  ASSUME EnvInv, NEW s \in staging, PreviewRead(s)
  PROVE  EnvInv'
<1>1. /\ EnvTypeOK /\ staging' = staging \ {s} /\ s.entry = NoId
      /\ s.value \in Values \cup {Unreadable} /\ s.target \in Targets
      /\ UNCHANGED <<sets, active, file, choosing, confirms, writes, watches, notify, view, drafts, events>>
  BY DEF EnvInv, PreviewRead, EnvTypeOK, StageType, Seen
<1>2. WatchIsUpToDate' /\ \A t \in staging' : ReadInv(t)'
  <2>1. \A e \in Environments : watches[e] # NoWatch => watches[e].id # NoId
    BY NamesAreProper DEF EnvInv, EnvTypeOK, WatchType
  <2>2. \A t \in staging' : ReadInv(t)'
    BY <1>1 DEF EnvInv, WatchInv, ReadInv, Offers
  <2> QED BY <1>1, <2>1, <2>2 DEF EnvInv, WatchInv, WatchIsUpToDate
<1>3. CASE UNCHANGED <<previews, imports>>
  <2>1. EnvTypeOK'
    BY <1>1, <1>3 DEF EnvTypeOK, Stored
  <2>2. BasedInv'
    BY <1>1, <1>3 DEF EnvInv, BasedInv, BasedOn, Based
  <2>3. IdInv'
    BY <1>1, <1>3 DEF EnvInv, IdInv, ImportedOnce, Fresh, ImportAt, ImportId
  <2>4. WatchInv'
    BY <1>1, <1>2, <1>3 DEF EnvInv, WatchInv, NothingOutlivesTheView, OnlyStoredAreWatched, Stored
  <2> QED BY <2>1, <2>2, <2>3, <2>4 DEF EnvInv
<1>4. CASE s.value # Unreadable /\ SameView(s) /\ Offered(previews, s)
  <2>1. PICK p \in PreviewType :
           /\ Forgotten(p.id) /\ p.view = s.view /\ p.target = s.target /\ p.revision = s.revision
           /\ p.seen = s.seen
           /\ previews' \in Seq(PreviewType) /\ Len(previews') <= PreviewLimit
           /\ Range(previews') \subseteq Range(previews) \cup {p}
           /\ imports' = [imports EXCEPT ![p.id] = 0]
    <3>1. s.value \in Values /\ previews \in Seq(PreviewType) /\ Len(previews) <= PreviewLimit
      BY <1>1, <1>4 DEF EnvTypeOK
    <3> QED BY <1>1, <1>4, <3>1, OfferedSome
  <2>2. EnvTypeOK'
    BY <1>1, <2>1 DEF EnvTypeOK, Stored
  <2>3. BasedInv'
    <3>1. BasedOn(p)'
      BY <1>1, <2>1 DEF EnvInv, BasedInv, BasedOn, Based
    <3> QED BY <1>1, <2>1, <3>1 DEF EnvInv, BasedInv, BasedOn, Based
  <2>4. IdInv'
    BY <1>1, <2>1, OfferedIds DEF EnvInv
  <2>5. WatchInv'
    BY <1>1, <1>2, <1>4, <2>1 DEF EnvInv, WatchInv, NothingOutlivesTheView, OnlyStoredAreWatched, Stored, SameView
  <2> QED BY <2>2, <2>3, <2>4, <2>5 DEF EnvInv
<1> QED BY <1>3, <1>4 DEF PreviewRead

\* The previews that are kept when those of an environment or with an id are dropped.
LEMMA FewerPreviews ==
  ASSUME EnvTypeOK, NEW S
  PROVE  /\ Kept(previews, S) \in Seq(PreviewType) /\ Len(Kept(previews, S)) <= PreviewLimit
         /\ Range(Kept(previews, S)) \subseteq Range(previews) \cap S
<1>1. previews \in Seq(PreviewType) /\ Len(previews) <= PreviewLimit /\ Len(previews) \in Nat
  BY DEF EnvTypeOK
<1> DEFINE k == Kept(previews, S)
<1>2. k \in Seq(PreviewType) /\ Len(k) <= Len(previews) /\ Range(k) \subseteq Range(previews) \cap S
  BY <1>1, KeptIsSome
<1> HIDE DEF k
<1>3. Len(k) <= PreviewLimit
  BY <1>1, <1>2, PreviewsAreKept
<1> QED BY <1>2, <1>3 DEF k

LEMMA ChangeReadKeeps ==
  ASSUME EnvInv, NEW s \in staging, ChangeRead(s)
  PROVE  EnvInv'
<1> DEFINE e == s.target
<1>1. /\ EnvTypeOK /\ staging' = staging \ {s} /\ s.entry # NoId /\ s.entry \in PreviewIds
      /\ s.value \in Values \cup {Unreadable} /\ s.value # Unread /\ e \in Environments
      /\ UNCHANGED <<sets, active, file, choosing, confirms, writes, notify, view, drafts, events>>
  BY DEF EnvInv, ChangeRead, EnvTypeOK, StageType, Seen, WatchInv, ReadInv
<1>2. CASE UNCHANGED <<watches, previews, imports>> /\ ~(s.value # Unreadable /\ Offers(s) /\ s.value # watches[e].value)
  <2>1. EnvTypeOK'
    BY <1>1, <1>2 DEF EnvTypeOK, Stored
  <2>2. BasedInv'
    BY <1>1, <1>2 DEF EnvInv, BasedInv, BasedOn, Based
  <2>3. IdInv'
    BY <1>1, <1>2 DEF EnvInv, IdInv, ImportedOnce, Fresh, ImportAt, ImportId
  <2>4. \A t \in staging' : ReadInv(t)'
    BY <1>1, <1>2 DEF EnvInv, WatchInv, ReadInv, Offers
  <2>5. WatchIsUpToDate'
    <3> SUFFICES ASSUME NEW f \in Environments, watches[f] # NoWatch, file # Unreadable, f \notin notify,
                        ~\E t \in staging \ {s} : t.entry = watches[f].id /\ t.turn = watches[f].turn
                 PROVE  watches[f].value = file
      BY <1>1, <1>2 DEF WatchIsUpToDate
    <3>1. CASE s.entry = watches[f].id /\ s.turn = watches[f].turn
      <4>1. f = e /\ Offers(s)
        BY <1>1, <3>1 DEF EnvInv, WatchInv, ReadInv, Offers
      <4>2. s.value = file
        BY <1>1, <4>1 DEF EnvInv, WatchInv, ReadInv
      <4> QED BY <1>2, <4>1, <4>2
    <3>2. CASE ~(s.entry = watches[f].id /\ s.turn = watches[f].turn)
      BY <3>2 DEF EnvInv, WatchInv, WatchIsUpToDate
    <3> QED BY <3>1, <3>2
  <2>6. WatchInv'
    BY <1>1, <1>2, <2>4, <2>5 DEF EnvInv, WatchInv, NothingOutlivesTheView, OnlyStoredAreWatched, Stored
  <2> QED BY <2>1, <2>2, <2>3, <2>6 DEF EnvInv
<1>3. CASE /\ s.value # Unreadable /\ Offers(s) /\ s.value # watches[e].value
           /\ watches' = [watches EXCEPT ![e].value = s.value]
           /\ Offered(PreviewsOfOthers(e), s)
  <2> DEFINE kept == PreviewsOfOthers(e)
  <2>1. kept \in Seq(PreviewType) /\ Len(kept) <= PreviewLimit /\ Range(kept) \subseteq Range(previews)
    BY <1>1, FewerPreviews DEF PreviewsOfOthers
  <2> HIDE DEF kept
  <2>2. PICK p \in PreviewType :
           /\ Forgotten(p.id) /\ p.view = s.view /\ p.target = s.target /\ p.revision = s.revision
           /\ p.seen = s.seen
           /\ previews' \in Seq(PreviewType) /\ Len(previews') <= PreviewLimit
           /\ Range(previews') \subseteq Range(kept) \cup {p}
           /\ imports' = [imports EXCEPT ![p.id] = 0]
    <3>1. s.value \in Values
      BY <1>1, <1>3
    <3>2. Offered(kept, s)
      BY <1>3 DEF kept
    <3> QED BY <1>1, <2>1, <3>1, <3>2, OfferedSome
  <2>3. /\ watches[e].id = s.entry /\ watches[e].turn = s.turn /\ watches[e] \in WatchType
        /\ watches[e] # NoWatch
    BY <1>1, <1>3, NamesAreProper DEF EnvTypeOK, Offers, NoWatch
  <2>4. /\ watches' \in [Environments -> WatchType \cup {NoWatch}]
        /\ \A f \in Environments : f # e => watches'[f] = watches[f]
        /\ watches'[e].id = watches[e].id /\ watches'[e].turn = watches[e].turn
        /\ watches'[e].view = watches[e].view /\ watches'[e].value = s.value /\ watches'[e] # NoWatch
    <3>1. s.value \in Values
      BY <1>1, <1>3
    <3> QED BY <1>1, <1>3, <2>3, <3>1, NamesAreProper DEF EnvTypeOK, WatchType, NoWatch
  <2>5. EnvTypeOK'
    BY <1>1, <2>2, <2>4 DEF EnvTypeOK, Stored
  <2>6. BasedInv'
    <3>1. BasedOn(p)'
      BY <1>1, <2>2 DEF EnvInv, BasedInv, BasedOn, Based
    <3> QED BY <1>1, <2>1, <2>2, <3>1 DEF EnvInv, BasedInv, BasedOn, Based
  <2>7. IdInv'
    <3>1. \A f \in Environments : watches'[f].id = watches[f].id
      BY <2>4
    <3>2. Range(previews') \subseteq Range(previews) \cup {p}
      BY <2>1, <2>2
    <3> QED BY <1>1, <2>2, <3>1, <3>2, OfferedIds DEF EnvInv
  <2>8. s.view = view
    BY <1>1, <2>3 DEF EnvInv, WatchInv, ReadInv, NothingOutlivesTheView
  <2>9. \A f \in Environments : /\ watches'[f].id = watches[f].id /\ watches'[f].turn = watches[f].turn
                                /\ watches'[f].view = watches[f].view
                                /\ (watches'[f] # NoWatch <=> watches[f] # NoWatch)
    BY <2>3, <2>4
  <2>10. \A t \in staging' : ReadInv(t)'
    BY <1>1, <2>9 DEF EnvInv, WatchInv, ReadInv, Offers
  <2>11. WatchIsUpToDate'
    <3> SUFFICES ASSUME NEW f \in Environments, watches'[f] # NoWatch, file # Unreadable, f \notin notify,
                        ~\E t \in staging \ {s} : t.entry = watches[f].id /\ t.turn = watches[f].turn
                 PROVE  watches'[f].value = file
      BY <1>1, <2>9 DEF WatchIsUpToDate
    <3>1. CASE f = e
      <4>1. s.value = file
        BY <1>1, <1>3, <3>1 DEF EnvInv, WatchInv, ReadInv
      <4> QED BY <2>4, <3>1, <4>1
    <3>2. CASE f # e
      <4>1. watches[f].id # s.entry
        <5>1. \A g \in Environments : watches[e].id = watches[g].id => e = g
          BY <1>1, <2>3 DEF EnvInv, WatchInv
        <5> QED BY <2>3, <3>2, <5>1
      <4>2. watches[f] # NoWatch /\ watches'[f] = watches[f]
        BY <2>4, <2>9, <3>2
      <4> QED BY <4>1, <4>2 DEF EnvInv, WatchInv, WatchIsUpToDate
    <3> QED BY <3>1, <3>2
  <2>12. NothingOutlivesTheView'
    BY <1>1, <2>1, <2>2, <2>8, <2>9 DEF EnvInv, WatchInv, NothingOutlivesTheView
  <2>13. OnlyStoredAreWatched'
    BY <1>1, <2>9 DEF EnvInv, WatchInv, OnlyStoredAreWatched, Stored
  <2>14. /\ \A f, g \in Environments : watches'[f] # NoWatch /\ watches'[f].id = watches'[g].id => f = g
         /\ \A f \in notify' : watches'[f] # NoWatch
    <3>1. notify \subseteq Environments
      BY <1>1 DEF EnvTypeOK
    <3> QED BY <1>1, <2>9, <3>1 DEF EnvInv, WatchInv
  <2>15. WatchInv'
    BY <2>10, <2>11, <2>12, <2>13, <2>14 DEF WatchInv
  <2> QED BY <2>5, <2>6, <2>7, <2>15 DEF EnvInv
<1> QED BY <1>2, <1>3 DEF ChangeRead

-----------------------------------------------------------------------------
(* Confirming previews and operations of the panel *)

LEMMA CancelImportKeeps ==
  ASSUME EnvInv, NEW i \in PreviewIds, CancelImport(i)
  PROVE  EnvInv'
<1>1. /\ EnvTypeOK /\ events' \in 0 .. MaxEvents
      /\ UNCHANGED <<sets, active, file, choosing, staging, confirms, writes, watches, notify, view, drafts, imports>>
  BY PreviewsAreKept DEF EnvInv, EnvTypeOK, CancelImport, Event
<1>2. previews' \in Seq(PreviewType) /\ Len(previews') <= PreviewLimit /\ Range(previews') \subseteq Range(previews)
  BY <1>1, FewerPreviews DEF CancelImport, Without
<1>3. EnvTypeOK'
  BY <1>1, <1>2 DEF EnvTypeOK, Stored
<1>4. BasedInv'
  BY <1>1, <1>2 DEF EnvInv, BasedInv, BasedOn, Based
<1>5. IdInv'
  BY <1>1, <1>2 DEF EnvInv, IdInv, ImportedOnce, Fresh, ImportAt, ImportId
<1>6. WatchInv'
  BY <1>1, <1>2 DEF EnvInv, WatchInv, NothingOutlivesTheView, OnlyStoredAreWatched, Stored,
     WatchIsUpToDate, ReadInv, Offers
<1> QED BY <1>3, <1>4, <1>5, <1>6 DEF EnvInv

LEMMA ConfirmImportKeeps ==
  ASSUME EnvInv, NEW p \in Range(previews), NEW watch \in BOOLEAN, ConfirmImport(p, watch)
  PROVE  EnvInv'
<1>1. /\ EnvTypeOK /\ events' \in 0 .. MaxEvents
      /\ UNCHANGED <<sets, active, file, choosing, staging, previews, writes, watches, notify, view, drafts, imports>>
  BY PreviewsAreKept DEF EnvInv, EnvTypeOK, ConfirmImport, Event
<1>2. p \in PreviewType
  BY <1>1, EnvTypes
<1>3. PICK new \in ConfirmType : new.preview = p /\ confirms' = confirms \cup {new}
  <2> DEFINE n == [preview |-> p, view |-> view, watch |-> watch]
  <2>1. n \in ConfirmType /\ n.preview = p
    BY <1>1, <1>2 DEF ConfirmType, EnvTypeOK
  <2>2. confirms' = confirms \cup {n}
    BY DEF ConfirmImport
  <2> HIDE DEF n
  <2> QED BY <2>1, <2>2
<1>4. EnvTypeOK'
  BY <1>1, <1>3 DEF EnvTypeOK, Stored
<1>5. BasedInv'
  BY <1>1, <1>3 DEF EnvInv, BasedInv, BasedOn, Based
<1>6. IdInv'
  <2>1. \A c \in confirms : c.preview.id # p.id
    BY DEF ConfirmImport, NotConfirming, Confirming
  <2>2. ASSUME NEW n \in 1 .. Len(writes), ImportAt(n) PROVE ImportId(n) # p.id
    <3>1. writes[n] \in Range(writes)
      BY <1>1, InRange DEF EnvTypeOK
    <3> QED BY <2>2, <3>1 DEF ConfirmImport, NotConfirming, Confirming, ImportAt, ImportId
  <2>3. Fresh(p.id)
    BY DEF EnvInv, IdInv
  <2> QED BY <1>1, <1>3, <2>1, <2>2, <2>3 DEF EnvInv, IdInv, ImportedOnce, Fresh, ImportAt, ImportId
<1>7. WatchInv'
  BY <1>1 DEF EnvInv, WatchInv, NothingOutlivesTheView, OnlyStoredAreWatched, Stored,
     WatchIsUpToDate, ReadInv, Offers
<1> QED BY <1>4, <1>5, <1>6, <1>7 DEF EnvInv

LEMMA ConfirmReadKeeps ==
  ASSUME EnvInv, NEW c \in confirms, ConfirmRead(c)
  PROVE  EnvInv'
<1>1. /\ EnvTypeOK /\ confirms' = confirms \ {c} /\ c \in ConfirmType
      /\ UNCHANGED <<sets, active, file, choosing, staging, previews, watches, notify, view, drafts, events, imports>>
  BY DEF EnvInv, EnvTypeOK, ConfirmRead
<1>2. WatchInv'
  BY <1>1 DEF EnvInv, WatchInv, NothingOutlivesTheView, OnlyStoredAreWatched, Stored,
     WatchIsUpToDate, ReadInv, Offers
<1>3. CASE writes' = writes
  <2>1. EnvTypeOK'
    BY <1>1, <1>3 DEF EnvTypeOK, Stored
  <2>2. BasedInv'
    BY <1>1, <1>3 DEF EnvInv, BasedInv, BasedOn, Based
  <2>3. IdInv'
    BY <1>1, <1>3 DEF EnvInv, IdInv, ImportedOnce, Fresh, ImportAt, ImportId
  <2> QED BY <1>2, <2>1, <2>2, <2>3 DEF EnvInv
<1>4. CASE writes' # writes
  <2>1. PICK w \in ImportType : /\ w.confirm = c /\ w.env = c.preview.target /\ w.revision = c.preview.revision
                                /\ w.seen = c.preview.seen /\ writes' = Append(writes, w)
    <3> DEFINE x == [kind |-> "import", env |-> c.preview.target, vars |-> c.preview.value,
                     revision |-> c.preview.revision, seen |-> c.preview.seen, confirm |-> c]
    <3>1. x \in ImportType
      BY <1>1 DEF ImportType, ConfirmType, PreviewType
    <3>2. writes' = Append(writes, x)
      BY <1>4 DEF ConfirmRead
    <3>3. x.confirm = c /\ x.env = c.preview.target /\ x.revision = c.preview.revision /\ x.seen = c.preview.seen
      OBVIOUS
    <3> HIDE DEF x
    <3> QED BY <3>1, <3>2, <3>3
  <2>2. /\ writes' \in Seq(PanelType \cup ImportType) /\ Len(writes) \in Nat /\ Len(writes') = Len(writes) + 1
        /\ \A n \in 1 .. Len(writes') : \/ n \in 1 .. Len(writes) /\ writes'[n] = writes[n]
                                        \/ n = Len(writes) + 1 /\ writes'[n] = w
    BY <1>1, <2>1, Longer DEF EnvTypeOK
  <2>3. EnvTypeOK'
    BY <1>1, <2>2 DEF EnvTypeOK, Stored
  <2>4. BasedInv'
    <3>1. w.env # New => Based(w.env, w.revision, w.seen)
      BY <2>1 DEF EnvInv, BasedInv, BasedOn
    <3>2. ASSUME NEW n \in 1 .. Len(writes'), writes'[n].kind \in {"update", "import"}, writes'[n].env # New
          PROVE  Based(writes'[n].env, writes'[n].revision, writes'[n].seen)
      BY <2>2, <3>1, <3>2 DEF EnvInv, BasedInv
    <3> QED BY <1>1, <3>2 DEF EnvInv, BasedInv, BasedOn, Based
  <2>5. IdInv'
    <3> DEFINE N == Len(writes) + 1
    <3>1. ASSUME NEW n \in 1 .. Len(writes'), ImportAt(n)'
          PROVE  \/ n \in 1 .. Len(writes) /\ ImportAt(n) /\ ImportId(n)' = ImportId(n)
                 \/ n = N /\ ImportId(n)' = c.preview.id
      BY <2>1, <2>2, <3>1 DEF ImportAt, ImportId
    <3>2. \A i : Fresh(i)' = Fresh(i)
      BY <1>1 DEF Fresh
    <3>3. \A d \in confirms' : /\ Fresh(d.preview.id)' /\ d.preview.id # c.preview.id
                               /\ \A x \in confirms' : x.preview.id = d.preview.id => x = d
      BY <1>1, <3>2 DEF EnvInv, IdInv
    <3>4. ASSUME NEW n \in 1 .. Len(writes'), ImportAt(n)'
          PROVE  Fresh(ImportId(n))' /\ \A d \in confirms' : ImportId(n)' # d.preview.id
      BY <1>1, <3>1, <3>2, <3>3, <3>4 DEF EnvInv, IdInv
    <3>5. ASSUME NEW n \in 1 .. Len(writes'), ImportAt(n)', NEW m \in 1 .. Len(writes'), ImportAt(m)',
                 ImportId(m)' = ImportId(n)'
          PROVE  m = n
      <4>1. \A k \in 1 .. Len(writes) : ImportAt(k) => ImportId(k) # c.preview.id
        BY DEF EnvInv, IdInv
      <4> QED BY <3>1, <3>5, <4>1 DEF EnvInv, IdInv
    <3> QED BY <1>1, <3>3, <3>4, <3>5 DEF EnvInv, IdInv, ImportedOnce, Fresh
  <2> QED BY <1>2, <2>3, <2>4, <2>5 DEF EnvInv
<1> QED BY <1>3, <1>4

LEMMA EditEnvironmentKeeps ==
  ASSUME EnvInv, NEW e \in Environments, EditEnvironment(e)
  PROVE  EnvInv'
<1>1. /\ EnvTypeOK /\ sets[e] \in SetType /\ sets[e].state = "stored"
      /\ drafts' = [drafts EXCEPT ![e] = [revision |-> sets[e].updated, seen |-> sets[e].vars]]
      /\ UNCHANGED <<sets, active, file, choosing, staging, previews, confirms, writes, watches, notify, view, events, imports>>
  BY DEF EnvInv, EnvTypeOK, EditEnvironment, Stored
<1>2. EnvTypeOK'
  BY <1>1 DEF EnvTypeOK, Stored, SetType, Seen, Revisions
<1>3. BasedInv'
  <2>1. \A f \in Environments : drafts'[f] = drafts[f] \/ (f = e /\ drafts'[f].revision = sets[f].updated
                                                              /\ drafts'[f].seen = sets[f].vars)
    BY <1>1 DEF EnvTypeOK
  <2>2. Based(e, sets[e].updated, sets[e].vars)
    BY <1>1 DEF Based, SetType, Revisions
  <2> QED BY <1>1, <2>1, <2>2 DEF EnvInv, BasedInv, BasedOn, Based
<1>4. IdInv'
  BY <1>1 DEF EnvInv, IdInv, ImportedOnce, Fresh, ImportAt, ImportId
<1>5. WatchInv'
  BY <1>1 DEF EnvInv, WatchInv, NothingOutlivesTheView, OnlyStoredAreWatched, Stored,
     WatchIsUpToDate, ReadInv, Offers
<1> QED BY <1>2, <1>3, <1>4, <1>5 DEF EnvInv

\* The panel asks for a write: an update of what was edited, or one that replaces no variables.
LEMMA PanelWriteKeeps ==
  ASSUME EnvInv, NEW w \in PanelType, Event, writes' = Append(writes, w),
         w.kind = "update" => Based(w.env, w.revision, w.seen),
         UNCHANGED <<sets, active, file, choosing, staging, previews, confirms, watches, notify, view, drafts, imports>>
  PROVE  EnvInv'
<1>1. EnvTypeOK /\ events' \in 0 .. MaxEvents
  BY PreviewsAreKept DEF EnvInv, EnvTypeOK, Event
<1>2. /\ writes' \in Seq(PanelType \cup ImportType) /\ Len(writes) \in Nat /\ Len(writes') = Len(writes) + 1
      /\ \A n \in 1 .. Len(writes') : \/ n \in 1 .. Len(writes) /\ writes'[n] = writes[n]
                                      \/ n = Len(writes) + 1 /\ writes'[n] = w
  BY <1>1, Longer DEF EnvTypeOK
<1>3. w.kind # "import"
  BY DEF PanelType
<1>4. EnvTypeOK'
  BY <1>1, <1>2 DEF EnvTypeOK, Stored
<1>5. BasedInv'
  <2>1. ASSUME NEW n \in 1 .. Len(writes'), writes'[n].kind \in {"update", "import"}, writes'[n].env # New
        PROVE  Based(writes'[n].env, writes'[n].revision, writes'[n].seen)
    BY <1>2, <1>3, <2>1 DEF EnvInv, BasedInv
  <2> QED BY <2>1 DEF EnvInv, BasedInv, BasedOn, Based
<1>6. IdInv'
  <2>1. \A n \in 1 .. Len(writes') : ImportAt(n)' => n + 0 \in 1 .. Len(writes) /\ writes'[n] = writes[n + 0]
    BY <1>2, <1>3 DEF ImportAt
  <2>2. Len(writes') \in Nat /\ 0 \in Nat
    BY <1>2
  <2> QED BY <1>1, <2>1, <2>2, FewerIds DEF EnvInv
<1>7. WatchInv'
  BY DEF EnvInv, WatchInv, NothingOutlivesTheView, OnlyStoredAreWatched, Stored,
     WatchIsUpToDate, ReadInv, Offers
<1> QED BY <1>4, <1>5, <1>6, <1>7 DEF EnvInv

LEMMA SaveEnvironmentKeeps ==
  ASSUME EnvInv, NEW e \in Environments, NEW v \in Values, SaveEnvironment(e, v)
  PROVE  EnvInv'
<1> DEFINE w == [PanelWrite("update", e) EXCEPT !.vars = v]
<1>1. /\ EnvTypeOK /\ drafts[e] \in [revision : Nat, seen : Seen] /\ sets[e] \in SetType
      /\ drafts[e] # NoDraft
  BY EnvTypes DEF EnvInv, SaveEnvironment
<1>2. /\ w \in PanelType /\ w.env = e /\ w.revision = drafts[e].revision /\ w.seen = drafts[e].seen
  BY <1>1 DEF PanelWrite, PanelType, SetType, Revisions
<1>3. Based(e, drafts[e].revision, drafts[e].seen)
  BY <1>1 DEF EnvInv, BasedInv
<1>4. /\ Event /\ writes' = Append(writes, w)
      /\ UNCHANGED <<sets, active, file, choosing, staging, previews, confirms, watches, notify, view, drafts, imports>>
  BY DEF SaveEnvironment, CanAsk
<1> HIDE DEF w
<1> QED BY <1>2, <1>3, <1>4, PanelWriteKeeps

LEMMA AskForKeeps ==
  ASSUME EnvInv, NEW e \in Environments, NEW kind \in {"select", "delete"}, AskFor(kind, e)
  PROVE  EnvInv'
<1> DEFINE w == PanelWrite(kind, e)
<1>1. drafts[e] \in [revision : Nat, seen : Seen] /\ sets[e] \in SetType
  BY EnvTypes DEF EnvInv
<1>2. w \in PanelType /\ w.kind # "update"
  BY <1>1 DEF PanelWrite, PanelType, SetType, Revisions
<1>3. /\ Event /\ writes' = Append(writes, w)
      /\ UNCHANGED <<sets, active, file, choosing, staging, previews, confirms, watches, notify, view, drafts, imports>>
  BY DEF AskFor, CanAsk
<1> HIDE DEF w
<1> QED BY <1>2, <1>3, PanelWriteKeeps

-----------------------------------------------------------------------------
(* The queue of writes *)

\* What a commit of the first write does to ids and to what writes are based on.
LEMMA QueueMoves ==
  ASSUME EnvTypeOK, writes # <<>>, writes' = Tail(writes)
  PROVE  /\ Head(writes) = writes[1] /\ 1 \in 1 .. Len(writes)
         /\ Head(writes) \in PanelType \cup ImportType
         /\ writes' \in Seq(PanelType \cup ImportType) /\ Len(writes') \in Nat /\ Len(writes) \in Nat
         /\ \A n \in 1 .. Len(writes') : n + 1 \in 1 .. Len(writes) /\ writes'[n] = writes[n + 1]
  BY Shorter DEF EnvTypeOK

\* Writes, drafts and reads stay based on what environments hold while these grow.
LEMMA BasedAfterCommit ==
  ASSUME EnvInv, EnvTypeOK', \A e \in Environments : Grows(e), writes # <<>>, writes' = Tail(writes),
         confirms' = confirms, Range(previews') \subseteq Range(previews),
         \A e \in Environments : drafts'[e] = drafts[e] \/ drafts'[e] = NoDraft,
         \A s \in staging' : s \in staging \/ BasedOn(s)'
  PROVE  BasedInv'
<1>1. EnvTypeOK
  BY DEF EnvInv
<1>2. ASSUME NEW x, x.target \in Targets, x.revision \in Nat, BasedOn(x) PROVE BasedOn(x)'
  <2>1. CASE x.target = New
    BY <2>1 DEF BasedOn
  <2>2. CASE x.target # New
    <3>1. x.target \in Environments /\ Based(x.target, x.revision, x.seen)
      BY <1>2, <2>2 DEF BasedOn, Targets
    <3>2. StillBased(x.target, x.revision, x.seen)
      BY <1>1, <1>2, <3>1, BasedStays
    <3> QED BY <3>2 DEF BasedOn, Based, StillBased
  <2> QED BY <2>1, <2>2
<1>3. ASSUME NEW e \in Environments, drafts'[e] # NoDraft
      PROVE  StillBased(e, drafts'[e].revision, drafts'[e].seen)
  <2>1. drafts'[e] = drafts[e] /\ drafts[e].revision \in Nat /\ drafts[e] # NoDraft
    BY <1>1, <1>3, EnvTypes
  <2>2. Based(e, drafts[e].revision, drafts[e].seen)
    BY <2>1 DEF EnvInv, BasedInv
  <2>3. StillBased(e, drafts[e].revision, drafts[e].seen)
    BY <1>1, <2>1, <2>2, BasedStays
  <2> QED BY <2>1, <2>3
<1>4. \A s \in staging' : BasedOn(s)'
  <2> TAKE s \in staging'
  <2>1. CASE s \in staging
    <3>1. s.target \in Targets /\ s.revision \in Nat /\ BasedOn(s)
      BY <1>1, <2>1 DEF EnvInv, EnvTypeOK, StageType, Revisions, BasedInv
    <3> QED BY <1>2, <3>1
  <2>2. CASE s \notin staging
    BY <2>2
  <2> QED BY <2>1, <2>2
<1>5. \A p \in Range(previews') : BasedOn(p)'
  <2> TAKE p \in Range(previews')
  <2>1. p \in PreviewType /\ BasedOn(p)
    BY <1>1, EnvTypes DEF EnvInv, BasedInv
  <2> QED BY <1>2, <2>1 DEF PreviewType, Revisions
<1>6. \A c \in confirms' : BasedOn(c.preview)'
  <2> TAKE c \in confirms'
  <2>1. c.preview \in PreviewType /\ BasedOn(c.preview)
    BY <1>1 DEF EnvInv, BasedInv, EnvTypeOK, ConfirmType
  <2> QED BY <1>2, <2>1 DEF PreviewType, Revisions
<1>7. ASSUME NEW n \in 1 .. Len(writes'), writes'[n].kind \in {"update", "import"}, writes'[n].env # New
      PROVE  StillBased(writes'[n].env, writes'[n].revision, writes'[n].seen)
  <2>1. n + 1 \in 1 .. Len(writes) /\ writes'[n] = writes[n + 1]
    BY <1>1, QueueMoves
  <2>2. PICK w : w = writes[n + 1]
    OBVIOUS
  <2>3. w \in PanelType \cup ImportType /\ w.kind \in {"update", "import"} /\ w.env # New
    BY <1>1, <1>7, <2>1, <2>2, EnvTypes
  <2>4. w.env \in Environments /\ w.revision \in Nat
    BY <2>3 DEF PanelType, ImportType, Targets, Revisions
  <2>5. Based(w.env, w.revision, w.seen)
    BY <2>1, <2>2, <2>3 DEF EnvInv, BasedInv
  <2>6. StillBased(w.env, w.revision, w.seen)
    BY <1>1, <2>4, <2>5, BasedStays
  <2> QED BY <2>1, <2>2, <2>6
<1>8. \A e \in Environments :
        drafts'[e] # NoDraft => Based(e, drafts[e].revision, drafts[e].seen)'
  BY <1>3 DEF Based, StillBased
<1>9. \A n \in 1 .. Len(writes') :
        writes'[n].kind \in {"update", "import"} /\ writes'[n].env # New
          => Based(writes[n].env, writes[n].revision, writes[n].seen)'
  BY <1>7 DEF Based, StillBased
<1> QED BY <1>4, <1>5, <1>6, <1>8, <1>9 DEF BasedInv

LEMMA WriteEndsInVainKeeps == EnvInv /\ WriteEndsInVain => EnvInv'
<1> SUFFICES ASSUME EnvInv, WriteEndsInVain PROVE EnvInv'
  OBVIOUS
<1>1. /\ EnvTypeOK /\ events' \in 0 .. MaxEvents /\ writes # <<>> /\ writes' = Tail(writes)
      /\ UNCHANGED <<sets, active, file, choosing, staging, confirms, watches, notify, view, drafts, previews, imports>>
  BY PreviewsAreKept DEF EnvInv, EnvTypeOK, WriteEndsInVain, Event
<1>2. EnvTypeOK'
  BY <1>1, QueueMoves DEF EnvTypeOK, Stored
<1>3. BasedInv'
  BY <1>1, <1>2, BasedAfterCommit DEF Grows
<1>4. IdInv'
  <2>1. \A n \in 1 .. Len(writes') : ImportAt(n)' => n + 1 \in 1 .. Len(writes) /\ writes'[n] = writes[n + 1]
    BY <1>1, QueueMoves
  <2>2. Len(writes') \in Nat /\ 1 \in Nat
    BY <1>1, QueueMoves
  <2> QED BY <1>1, <2>1, <2>2, FewerIds DEF EnvInv
<1>5. WatchInv'
  BY <1>1 DEF EnvInv, WatchInv, NothingOutlivesTheView, OnlyStoredAreWatched, Stored,
     WatchIsUpToDate, ReadInv, Offers
<1> QED BY <1>2, <1>3, <1>4, <1>5 DEF EnvInv

\* What a write of an environment's variables does to the environments.
LEMMA RevisedSet ==
  ASSUME EnvTypeOK, NEW e \in Stored, NEW v \in Values,
         sets' = [sets EXCEPT ![e] = Revised(sets[e], v)]
  PROVE  /\ sets' \in [Environments -> SetType] /\ Stored' = Stored
         /\ sets'[e].vars = v /\ sets'[e].updated = sets[e].updated + 1
         /\ \A f \in Environments : f # e => sets'[f] = sets[f]
         /\ \A f \in Environments : Grows(f)
<1>1. e \in Environments /\ \A f \in Environments : sets[f] \in SetType
  BY DEF Stored, EnvTypeOK
<1>2. \A f \in Environments : sets'[f] = IF f = e THEN Revised(sets[e], v) ELSE sets[f]
  BY DEF EnvTypeOK
<1>3. PICK r : r = Revised(sets[e], v)
  OBVIOUS
<1>4. /\ r \in SetType /\ r.vars = v /\ r.state = sets[e].state /\ sets[e].updated \in Nat
      /\ r.updated = sets[e].updated + 1
  <2>1. ASSUME NEW s \in SetType
        PROVE  LET t == Revised(s, v)
               IN /\ t \in SetType /\ t.vars = v /\ t.state = s.state /\ s.updated \in Nat
                  /\ t.updated = s.updated + 1
    BY DEF Revised, Touched, SetType, Revisions
  <2> QED BY <1>1, <1>3, <2>1
<1>5. sets' \in [Environments -> SetType]
  BY <1>3, <1>4 DEF EnvTypeOK
<1>6. Stored' = Stored
  BY <1>2, <1>3, <1>4 DEF Stored
<1>7. \A f \in Environments : Grows(f)
  BY <1>2, <1>3, <1>4 DEF Grows
<1> QED BY <1>1, <1>2, <1>3, <1>4, <1>5, <1>6, <1>7

\* Commits that change environments but no preview, watch or read.
LEMMA CommitUpdateKeeps ==
  ASSUME EnvInv, Commit, CommitUpdate(Head(writes))
  PROVE  EnvInv'
<1> DEFINE w == Head(writes)
<1>1. /\ EnvTypeOK /\ writes # <<>> /\ writes' = Tail(writes) /\ w \in PanelType /\ w.env \in Stored
      /\ UNCHANGED <<file, choosing, confirms, view, events>>
      /\ UNCHANGED <<active, staging, previews, watches, notify, imports>>
  <2>1. EnvTypeOK /\ writes # <<>> /\ writes' = Tail(writes)
    BY DEF EnvInv, Commit
  <2>2. w \in PanelType
    BY <2>1, QueueMoves DEF CommitUpdate, PanelType, ImportType
  <2> QED BY <2>1, <2>2 DEF Commit, CommitUpdate, Accepts
<1>2. /\ sets' = [sets EXCEPT ![w.env] = Revised(sets[w.env], w.vars)]
      /\ drafts' = [drafts EXCEPT ![w.env] = NoDraft]
  BY DEF CommitUpdate
<1> HIDE DEF w
<1>3. w.env \in Environments /\ sets[w.env] \in SetType /\ w.vars \in Values
  BY <1>1 DEF Stored, EnvTypeOK, PanelType
<1>4. /\ sets' \in [Environments -> SetType] /\ Stored' = Stored
      /\ \A e \in Environments : Grows(e)
  BY <1>1, <1>2, <1>3, RevisedSet
<1>5. EnvTypeOK'
  <2>1. drafts' \in [Environments -> [revision : Revisions, seen : Seen]]
    BY <1>1, <1>2 DEF EnvTypeOK, NoDraft, Revisions, Seen
  <2> QED BY <1>1, <1>4, <2>1, QueueMoves DEF EnvTypeOK
<1>6. BasedInv'
  <2>1. \A e \in Environments : drafts'[e] = drafts[e] \/ drafts'[e] = NoDraft
    BY <1>1, <1>2 DEF EnvTypeOK
  <2> QED BY <1>1, <1>4, <1>5, <2>1, BasedAfterCommit
<1>7. IdInv'
  <2>1. \A n \in 1 .. Len(writes') : ImportAt(n)' => n + 1 \in 1 .. Len(writes) /\ writes'[n] = writes[n + 1]
    BY <1>1, QueueMoves
  <2>2. Len(writes') \in Nat /\ 1 \in Nat
    BY <1>1, QueueMoves
  <2> QED BY <1>1, <2>1, <2>2, FewerIds DEF EnvInv
<1>8. WatchInv'
  BY <1>1, <1>4 DEF EnvInv, WatchInv, NothingOutlivesTheView, OnlyStoredAreWatched,
     WatchIsUpToDate, ReadInv, Offers
<1> QED BY <1>5, <1>6, <1>7, <1>8 DEF EnvInv

LEMMA CommitSelectKeeps ==
  ASSUME EnvInv, Commit, CommitSelect(Head(writes))
  PROVE  EnvInv'
<1> DEFINE w == Head(writes)
<1>1. /\ EnvTypeOK /\ writes # <<>> /\ writes' = Tail(writes) /\ w.env \in Stored
      /\ active' = IF active = w.env THEN None ELSE w.env
      /\ UNCHANGED <<file, choosing, confirms, view, events>>
      /\ UNCHANGED <<staging, previews, watches, notify, drafts, imports>>
      /\ sets' = [e \in Environments |-> IF e \in {active, w.env}
                 THEN [sets[e] EXCEPT !.updated = Touched(@)] ELSE sets[e]]
  BY DEF EnvInv, Commit, CommitSelect
<1> HIDE DEF w
<1>2. /\ sets' \in [Environments -> SetType] /\ Stored' = Stored
      /\ \A e \in Environments : Grows(e)
  <2>1. \A e \in Environments : sets[e] \in SetType
    BY <1>1 DEF EnvTypeOK
  <2>2. ASSUME NEW e \in Environments
        PROVE  sets'[e] \in SetType /\ sets'[e].state = sets[e].state /\ Grows(e)
    <3>1. CASE e \in {active, w.env}
      <4>1. sets'[e] = [sets[e] EXCEPT !.updated = Touched(@)]
        BY <1>1, <3>1
      <4>2. sets'[e].updated = sets[e].updated + 1 /\ sets[e].updated \in Nat /\ sets'[e].state = sets[e].state
        BY <2>1, <4>1 DEF SetType, Touched, Revisions
      <4>3. sets'[e] \in SetType
        BY <2>1, <4>1 DEF SetType, Touched, Revisions
      <4> QED BY <4>2, <4>3 DEF Grows
    <3>2. CASE e \notin {active, w.env}
      BY <1>1, <2>1, <3>2 DEF Grows
    <3> QED BY <3>1, <3>2
  <2>3. sets' \in [Environments -> SetType]
    BY <1>1, <2>2
  <2> QED BY <2>2, <2>3 DEF Stored
<1>5. EnvTypeOK'
  BY <1>1, <1>2, QueueMoves DEF EnvTypeOK
<1>6. BasedInv'
  BY <1>1, <1>2, <1>5, BasedAfterCommit
<1>7. IdInv'
  <2>1. \A n \in 1 .. Len(writes') : ImportAt(n)' => n + 1 \in 1 .. Len(writes) /\ writes'[n] = writes[n + 1]
    BY <1>1, QueueMoves
  <2>2. Len(writes') \in Nat /\ 1 \in Nat
    BY <1>1, QueueMoves
  <2> QED BY <1>1, <2>1, <2>2, FewerIds DEF EnvInv
<1>8. WatchInv'
  BY <1>1, <1>2 DEF EnvInv, WatchInv, NothingOutlivesTheView, OnlyStoredAreWatched,
     WatchIsUpToDate, ReadInv, Offers
<1> QED BY <1>5, <1>6, <1>7, <1>8 DEF EnvInv

\* A watch that goes, with no preview added.
LEMMA UnwatchedKeeps ==
  ASSUME EnvTypeOK, WatchInv, NEW e \in Environments,
         watches' = [watches EXCEPT ![e] = NoWatch], notify' = notify \ {e},
         Range(previews') \subseteq Range(previews), UNCHANGED <<file, staging, view>>,
         \A f \in Stored : f = e \/ f \in Stored'
  PROVE  /\ watches' \in [Environments -> WatchType \cup {NoWatch}] /\ notify' \subseteq Environments
         /\ \A f \in Environments : watches'[f].id = NoId \/ watches'[f].id = watches[f].id
         /\ WatchInv'
<1>1. /\ watches' \in [Environments -> WatchType \cup {NoWatch}] /\ notify' \subseteq Environments
      /\ watches'[e] = NoWatch /\ \A f \in Environments : f # e => watches'[f] = watches[f]
  BY DEF EnvTypeOK
<1>2. NothingOutlivesTheView' /\ OnlyStoredAreWatched'
  BY <1>1 DEF WatchInv, NothingOutlivesTheView, OnlyStoredAreWatched
<1>3. WatchIsUpToDate'
  BY <1>1 DEF WatchInv, WatchIsUpToDate
<1>4. \A s \in staging' : ReadInv(s)'
  <2> TAKE s \in staging'
  <2> SUFFICES ASSUME s.entry # NoId PROVE ReadInv(s)'
    BY DEF ReadInv
  <2>1. s \in staging /\ ReadInv(s) /\ s.target \in Environments
    BY DEF WatchInv, ReadInv
  <2>2. NoWatch.id = NoId
    BY DEF NoWatch
  <2>3. CASE s.target = e
    <3>1. ~Offers(s)'
      BY <1>1, <2>1, <2>2, <2>3 DEF Offers
    <3> QED BY <1>1, <2>1, <2>2, <3>1 DEF ReadInv
  <2>4. CASE s.target # e
    BY <1>1, <2>1, <2>2, <2>4 DEF ReadInv, Offers
  <2> QED BY <2>3, <2>4
<1>5. \A f, g \in Environments : watches'[f] # NoWatch /\ watches'[f].id = watches'[g].id => f = g
  <2> SUFFICES ASSUME NEW f \in Environments, NEW g \in Environments, watches'[f] # NoWatch,
                      watches'[f].id = watches'[g].id
               PROVE  f = g
    OBVIOUS
  <2>1. f # e /\ watches'[f] = watches[f] /\ watches[f] \in WatchType
    BY <1>1 DEF EnvTypeOK
  <2>2. watches[f].id # NoId
    BY <2>1, NamesAreProper DEF WatchType
  <2>3. g # e
    BY <1>1, <2>1, <2>2 DEF NoWatch
  <2> QED BY <1>1, <2>1, <2>3 DEF WatchInv
<1>6. \A f \in notify' : watches'[f] # NoWatch
  BY <1>1 DEF WatchInv, EnvTypeOK
<1>7. \A f \in Environments : watches'[f].id = NoId \/ watches'[f].id = watches[f].id
  BY <1>1 DEF NoWatch
<1> QED BY <1>1, <1>2, <1>3, <1>4, <1>5, <1>6, <1>7 DEF WatchInv

\* A watch that stops takes its previews along.
LEMMA StopsKeeps ==
  ASSUME EnvTypeOK, WatchInv, NEW e \in Environments, Stops(e), UNCHANGED <<file, staging, view>>,
         \A f \in Stored : f = e \/ f \in Stored'
  PROVE  /\ previews' \in Seq(PreviewType) /\ Len(previews') <= PreviewLimit
         /\ Range(previews') \subseteq Range(previews)
         /\ watches' \in [Environments -> WatchType \cup {NoWatch}] /\ notify' \subseteq Environments
         /\ \A f \in Environments : watches'[f].id = NoId \/ watches'[f].id = watches[f].id
         /\ WatchInv'
<1>1. watches' = [watches EXCEPT ![e] = NoWatch] /\ notify' = notify \ {e}
  BY DEF Stops
<1>2. previews' \in Seq(PreviewType) /\ Len(previews') <= PreviewLimit /\ Range(previews') \subseteq Range(previews)
  BY FewerPreviews DEF Stops, PreviewsOfOthers
<1> QED BY <1>1, <1>2, UnwatchedKeeps

LEMMA CommitDeleteKeeps ==
  ASSUME EnvInv, Commit, CommitDelete(Head(writes))
  PROVE  EnvInv'
<1> DEFINE w == Head(writes)
<1>1. /\ EnvTypeOK /\ WatchInv /\ writes # <<>> /\ writes' = Tail(writes) /\ w.env \in Stored
      /\ active' = IF active = w.env THEN None ELSE active
      /\ UNCHANGED <<file, choosing, confirms, view, events>> /\ UNCHANGED <<staging, imports>>
      /\ sets' = [sets EXCEPT ![w.env].state = "deleted"]
      /\ drafts' = [drafts EXCEPT ![w.env] = NoDraft] /\ Stops(w.env)
  BY DEF EnvInv, Commit, CommitDelete
<1> HIDE DEF w
<1>2. w.env \in Environments /\ sets[w.env] \in SetType
  BY <1>1 DEF Stored, EnvTypeOK
<1>3. /\ sets' \in [Environments -> SetType] /\ Stored' = Stored \ {w.env}
      /\ \A e \in Environments : Grows(e)
  <2>1. sets' \in [Environments -> SetType]
    BY <1>1, <1>2 DEF EnvTypeOK, SetType
  <2>2. \A e \in Environments : e # w.env => sets'[e] = sets[e]
    BY <1>1 DEF EnvTypeOK
  <2>3. /\ sets'[w.env].state = "deleted" /\ sets'[w.env].updated = sets[w.env].updated
        /\ sets'[w.env].vars = sets[w.env].vars
    BY <1>1, <1>2 DEF EnvTypeOK, SetType
  <2> QED BY <1>2, <2>1, <2>2, <2>3 DEF Stored, Grows
<1>4. \A f \in Stored : f = w.env \/ f \in Stored'
  BY <1>3
<1>5. /\ previews' \in Seq(PreviewType) /\ Len(previews') <= PreviewLimit
      /\ Range(previews') \subseteq Range(previews)
      /\ watches' \in [Environments -> WatchType \cup {NoWatch}] /\ notify' \subseteq Environments
      /\ \A f \in Environments : watches'[f].id = NoId \/ watches'[f].id = watches[f].id
      /\ WatchInv'
  BY <1>1, <1>2, <1>4, StopsKeeps
<1>6. EnvTypeOK'
  <2>1. drafts' \in [Environments -> [revision : Revisions, seen : Seen]]
    BY <1>1 DEF EnvTypeOK, NoDraft, Revisions, Seen
  <2>2. active' \in Stored' \cup {None}
    BY <1>1, <1>3 DEF EnvTypeOK
  <2> QED BY <1>1, <1>3, <1>5, <2>1, <2>2, QueueMoves DEF EnvTypeOK
<1>7. BasedInv'
  <2>1. \A e \in Environments : drafts'[e] = drafts[e] \/ drafts'[e] = NoDraft
    BY <1>1 DEF EnvTypeOK
  <2> QED BY <1>1, <1>3, <1>5, <1>6, <2>1, BasedAfterCommit
<1>8. IdInv'
  <2>1. \A n \in 1 .. Len(writes') : ImportAt(n)' => n + 1 \in 1 .. Len(writes) /\ writes'[n] = writes[n + 1]
    BY <1>1, QueueMoves
  <2>2. Len(writes') \in Nat /\ 1 \in Nat
    BY <1>1, QueueMoves
  <2> QED BY <1>1, <1>5, <2>1, <2>2, FewerIds DEF EnvInv
<1> QED BY <1>5, <1>6, <1>7, <1>8 DEF EnvInv

-----------------------------------------------------------------------------
(* Imports, the file and the page *)

\* An import that is stored spends the id of its preview.
LEMMA ImportIds ==
  ASSUME EnvTypeOK, IdInv, writes # <<>>, writes' = Tail(writes), confirms' = confirms,
         NEW i, ImportAt(1), i = ImportId(1), imports' = [imports EXCEPT ![i] = @ + 1],
         Range(previews') \subseteq {p \in Range(previews) : p.id # i},
         \A e \in Environments : watches'[e].id \in {NoId, i, watches[e].id},
         \A s \in staging' : s \in staging \/ s.entry = i
  PROVE  IdInv'
<1>1. i \in PreviewIds /\ imports \in [PreviewIds -> Nat] /\ imports[i] = 0 /\ 1 \in 1 .. Len(writes)
  BY EnvTypes, QueueMoves DEF IdInv, EnvTypeOK, Fresh
<1>2. ASSUME NEW j \in PreviewIds, j # i, Fresh(j) PROVE Fresh(j)'
  BY <1>1, <1>2, NamesAreProper DEF Fresh
<1>3. \A p \in Range(previews') : Fresh(p.id)'
  BY <1>2, EnvTypes DEF IdInv, PreviewType
<1>4. \A c \in confirms : c.preview.id \in PreviewIds /\ c.preview.id # i
  BY <1>1 DEF EnvTypeOK, ConfirmType, PreviewType, IdInv
<1>5. ASSUME NEW n \in 1 .. Len(writes'), ImportAt(n)'
      PROVE  /\ n + 1 \in 1 .. Len(writes) /\ ImportAt(n + 1) /\ ImportId(n)' = ImportId(n + 1)
             /\ ImportId(n + 1) \in PreviewIds /\ ImportId(n + 1) # i
  <2>1. n + 1 \in 1 .. Len(writes) /\ writes'[n] = writes[n + 1] /\ n \in Nat
    BY QueueMoves
  <2>2. ImportAt(n + 1) /\ ImportId(n)' = ImportId(n + 1)
    BY <1>5, <2>1 DEF ImportAt, ImportId
  <2>3. ImportId(n + 1) \in PreviewIds
    BY <2>1, <2>2, EnvTypes
  <2>4. n + 1 # 1
    BY <2>1
  <2>5. ImportId(n + 1) # i
    BY <1>1, <2>1, <2>2, <2>4 DEF IdInv
  <2> QED BY <2>1, <2>2, <2>3, <2>5
<1>6. ImportedOnce'
  BY <1>1 DEF IdInv, ImportedOnce
<1>7. \A c \in confirms' : /\ Fresh(c.preview.id)'
                           /\ \A d \in confirms' : d.preview.id = c.preview.id => d = c
                           /\ \A n \in 1 .. Len(writes') : ImportAt(n)' => ImportId(n)' # c.preview.id
  <2> TAKE c \in confirms'
  <2>1. Fresh(c.preview.id)'
    BY <1>2, <1>4 DEF IdInv
  <2>2. \A d \in confirms' : d.preview.id = c.preview.id => d = c
    BY DEF IdInv
  <2>3. ASSUME NEW n \in 1 .. Len(writes'), ImportAt(n)' PROVE ImportId(n)' # c.preview.id
    BY <1>5, <2>3 DEF IdInv
  <2> QED BY <2>1, <2>2, <2>3
<1>8. ASSUME NEW n \in 1 .. Len(writes'), ImportAt(n)'
      PROVE  /\ Fresh(ImportId(n))'
             /\ \A m \in 1 .. Len(writes') : ImportAt(m)' /\ ImportId(m)' = ImportId(n)' => m = n
  <2>1. /\ n + 1 \in 1 .. Len(writes) /\ ImportAt(n + 1) /\ ImportId(n)' = ImportId(n + 1)
        /\ ImportId(n + 1) \in PreviewIds /\ ImportId(n + 1) # i
    BY <1>5, <1>8
  <2>2. Fresh(ImportId(n + 1))
    BY <2>1 DEF IdInv
  <2>3. Fresh(ImportId(n))'
    <3>1. PICK j \in PreviewIds : j = ImportId(n + 1)
      BY <2>1
    <3>2. Fresh(j)'
      BY <1>2, <2>1, <2>2, <3>1
    <3> QED BY <2>1, <3>1, <3>2
  <2>4. ASSUME NEW m \in 1 .. Len(writes'), ImportAt(m)', ImportId(m)' = ImportId(n)' PROVE m = n
    <3>1. m + 1 \in 1 .. Len(writes) /\ ImportAt(m + 1) /\ ImportId(m)' = ImportId(m + 1)
      BY <1>5, <2>4
    <3>2. m + 1 = n + 1
      BY <2>1, <2>4, <3>1 DEF IdInv
    <3> QED BY <3>2
  <2> QED BY <2>3, <2>4
<1> QED BY <1>3, <1>6, <1>7, <1>8 DEF IdInv

\* A watch that is installed: its id is one that nothing else refers to, and the file is read
\* for it.
LEMMA WatchedKeeps ==
  ASSUME EnvTypeOK, WatchInv, NEW e \in Environments, NEW n \in WatchType, NEW s \in StageType,
         watches' = [watches EXCEPT ![e] = n], notify' = notify \ {e}, staging' = staging \cup {s},
         n.view = view, s.view = view, s.target = e, s.entry = n.id, s.turn = n.turn, s.value = Unread,
         \A f \in Environments : watches[f].id # n.id, \A t \in staging : t.entry # n.id,
         Range(previews') \subseteq Range(previews), UNCHANGED <<file, view>>,
         e \in Stored', Stored \subseteq Stored'
  PROVE  WatchInv'
<1>1. /\ watches'[e] = n /\ \A f \in Environments : f # e => watches'[f] = watches[f]
      /\ notify \subseteq Environments /\ n # NoWatch
  BY NamesAreProper DEF EnvTypeOK, WatchType, NoWatch
<1>2. NothingOutlivesTheView' /\ OnlyStoredAreWatched'
  BY <1>1 DEF WatchInv, NothingOutlivesTheView, OnlyStoredAreWatched
<1>3. WatchIsUpToDate'
  <2> SUFFICES ASSUME NEW f \in Environments, watches'[f] # NoWatch, file # Unreadable, f \notin notify',
                      ~\E t \in staging' : t.entry = watches'[f].id /\ t.turn = watches'[f].turn
               PROVE  watches'[f].value = file
    BY DEF WatchIsUpToDate
  <2>1. f # e
    BY <1>1
  <2> QED BY <1>1, <2>1 DEF WatchInv, WatchIsUpToDate
<1>4. \A f, g \in Environments : watches'[f] # NoWatch /\ watches'[f].id = watches'[g].id => f = g
  <2> SUFFICES ASSUME NEW f \in Environments, NEW g \in Environments, watches'[f] # NoWatch,
                      watches'[f].id = watches'[g].id
               PROVE  f = g
    OBVIOUS
  <2>1. CASE f = e \/ g = e
    BY <1>1, <2>1
  <2>2. CASE f # e /\ g # e
    BY <1>1, <2>2 DEF WatchInv
  <2> QED BY <2>1, <2>2
<1>5. \A f \in notify' : watches'[f] # NoWatch
  BY <1>1 DEF WatchInv
<1>6. ASSUME NEW t \in staging' PROVE ReadInv(t)'
  <2>1. CASE t = s
    BY <1>1, <2>1, NamesAreProper DEF ReadInv, Offers, WatchType
  <2>2. CASE t \in staging /\ t # s
    BY <1>1, <2>2 DEF WatchInv, ReadInv, Offers
  <2> QED BY <2>1, <2>2
<1> QED BY <1>2, <1>3, <1>4, <1>5, <1>6 DEF WatchInv

\* An import into an environment that is stored then.
LEMMA ImportedKeeps ==
  ASSUME EnvInv, writes # <<>>, writes' = Tail(writes), Head(writes) \in ImportType,
         NEW e \in Environments, NEW c, c = Head(writes).confirm, Imported(e, c),
         sets' \in [Environments -> SetType], Stored' = Stored \cup {e},
         \A f \in Environments : Grows(f),
         UNCHANGED <<active, drafts, file, choosing, confirms, view, events>>
  PROVE  EnvInv'
<1> DEFINE i == c.preview.id
<1>1. EnvTypeOK /\ IdInv /\ WatchInv
  BY DEF EnvInv
<1>2. /\ c \in ConfirmType /\ i \in PreviewIds /\ c.preview.value \in Values /\ c.view \in Nat
      /\ ImportAt(1) /\ i = ImportId(1) /\ 1 \in 1 .. Len(writes)
  BY <1>1, QueueMoves DEF ImportType, ConfirmType, PreviewType, ImportAt, ImportId
<1>3. Fresh(i)
  BY <1>1, <1>2 DEF IdInv
<1>4. previews' = Kept(previews, {p \in Range(previews) : p.id # i /\ p.target # e})
      /\ imports' = [imports EXCEPT ![i] = @ + 1] /\ notify' = notify \ {e}
  BY DEF Imported
<1>5. /\ previews' \in Seq(PreviewType) /\ Len(previews') <= PreviewLimit
      /\ Range(previews') \subseteq {p \in Range(previews) : p.id # i}
  <2>1. PICK S : S = {p \in Range(previews) : p.id # i /\ p.target # e}
    OBVIOUS
  <2>2. previews' = Kept(previews, S)
    BY <1>4, <2>1
  <2>3. /\ Kept(previews, S) \in Seq(PreviewType) /\ Len(Kept(previews, S)) <= PreviewLimit
        /\ Range(Kept(previews, S)) \subseteq Range(previews) \cap S
    BY <1>1, FewerPreviews
  <2> QED BY <2>1, <2>2, <2>3
<1>6. /\ imports' \in [PreviewIds -> Nat] /\ notify' \subseteq Environments
      /\ active' \in Stored' \cup {None} /\ e \in Stored' /\ Stored \subseteq Stored'
      /\ e # New
  BY <1>1, <1>2, <1>4, NamesAreProper DEF EnvTypeOK
<1>7. CASE ~WatchesFile(c)
  <2>1. watches' = [watches EXCEPT ![e] = NoWatch] /\ staging' = staging
    BY <1>7 DEF Imported
  <2>2. /\ watches' \in [Environments -> WatchType \cup {NoWatch}]
        /\ \A f \in Environments : watches'[f].id = NoId \/ watches'[f].id = watches[f].id
        /\ WatchInv'
    BY <1>1, <1>4, <1>5, <1>6, <2>1, UnwatchedKeeps
  <2>3. EnvTypeOK'
    BY <1>1, <1>5, <1>6, <2>1, <2>2, QueueMoves DEF EnvTypeOK
  <2>4. BasedInv'
    BY <1>5, <2>1, <2>3, BasedAfterCommit
  <2>5. IdInv'
    <3> HIDE DEF i
    <3> QED BY <1>1, <1>2, <1>4, <1>5, <2>1, <2>2, ImportIds
  <2> QED BY <2>2, <2>3, <2>4, <2>5 DEF EnvInv
<1>8. CASE WatchesFile(c)
  <2>1. PICK n \in WatchType, s \in StageType :
          /\ watches' = [watches EXCEPT ![e] = n] /\ staging' = staging \cup {s}
          /\ n.id = i /\ n.view = c.view /\ n.turn = 1
          /\ s.view = c.view /\ s.target = e /\ s.entry = i /\ s.turn = 1 /\ s.value = Unread
          /\ s.revision = sets'[e].updated /\ s.seen = sets'[e].vars
    <3> DEFINE entry == [id |-> i, view |-> c.view, value |-> c.preview.value, turn |-> 0]
               n == [entry EXCEPT !.turn = @ + 1]
               s == [view |-> c.view, target |-> e, entry |-> entry.id, turn |-> 1, value |-> Unread,
                     revision |-> sets'[e].updated, seen |-> sets'[e].vars]
    <3>1. watches' = [watches EXCEPT ![e] = n] /\ staging' = staging \cup {s}
      BY <1>8 DEF Imported, Installs, Watching
    <3>2. n \in WatchType /\ n.id = i /\ n.view = c.view /\ n.turn = 1
      BY <1>2 DEF WatchType
    <3>3. /\ s \in StageType
          /\ s.view = c.view /\ s.target = e /\ s.entry = i /\ s.turn = 1 /\ s.value = Unread
          /\ s.revision = sets'[e].updated /\ s.seen = sets'[e].vars
      BY <1>2 DEF StageType, Targets, SetType, Seen
    <3> HIDE DEF n, s
    <3> QED BY <3>1, <3>2, <3>3
  <2>2. c.view = view
    BY <1>8 DEF WatchesFile
  <2>3. watches' \in [Environments -> WatchType \cup {NoWatch}]
    BY <1>1, <2>1 DEF EnvTypeOK
  <2>4. EnvTypeOK'
    BY <1>1, <1>5, <1>6, <2>1, <2>3, QueueMoves DEF EnvTypeOK
  <2>5. BasedInv'
    <3>1. BasedOn(s)'
      <4>1. sets'[e] \in SetType /\ sets'[e].state = "stored"
        BY <1>6 DEF Stored
      <4> QED BY <2>1, <4>1 DEF BasedOn, Based, SetType, Revisions
    <3>2. \A t \in staging' : t \in staging \/ BasedOn(t)'
      BY <2>1, <3>1
    <3> QED BY <1>5, <2>4, <3>2, BasedAfterCommit
  <2>6. IdInv'
    <3> HIDE DEF i
    <3>1. \A f \in Environments : watches'[f].id \in {NoId, i, watches[f].id}
      BY <1>1, <2>1 DEF EnvTypeOK
    <3>2. \A t \in staging' : t \in staging \/ t.entry = i
      BY <2>1
    <3> QED BY <1>1, <1>2, <1>4, <1>5, <3>1, <3>2, ImportIds
  <2>7. WatchInv'
    <3>1. /\ \A f \in Environments : watches[f].id # n.id
          /\ \A t \in staging : t.entry # n.id
      BY <1>3, <2>1 DEF Fresh
    <3>2. n.view = view /\ s.view = view /\ s.target = e /\ s.entry = n.id /\ s.turn = n.turn /\ s.value = Unread
      BY <2>1, <2>2
    <3> QED BY <1>1, <1>4, <1>5, <1>6, <2>1, <3>1, <3>2, WatchedKeeps
  <2> QED BY <2>4, <2>5, <2>6, <2>7 DEF EnvInv
<1> QED BY <1>7, <1>8

LEMMA CommitImportKeeps ==
  ASSUME EnvInv, Commit, CommitImport(Head(writes))
  PROVE  EnvInv'
<1> DEFINE w == Head(writes)
<1>1. /\ EnvTypeOK /\ writes # <<>> /\ writes' = Tail(writes) /\ w.kind = "import"
      /\ UNCHANGED <<active, drafts, file, choosing, confirms, view, events>>
  BY DEF EnvInv, Commit, CommitImport
<1>2. w \in ImportType
  BY <1>1, QueueMoves DEF PanelType
<1>3. CASE w.env = New
  <2>1. PICK e \in Environments :
          /\ sets[e].state = "unused"
          /\ sets' = [sets EXCEPT ![e] = [state |-> "stored", vars |-> w.vars, updated |-> 0]]
          /\ Imported(e, w.confirm)
    BY <1>3 DEF CommitImport
  <2>2. /\ sets' \in [Environments -> SetType] /\ sets'[e].state = "stored"
        /\ \A f \in Environments : f # e => sets'[f] = sets[f]
    BY <1>1, <1>2, <2>1 DEF EnvTypeOK, SetType, ImportType, Revisions
  <2>3. Stored' = Stored \cup {e} /\ \A f \in Environments : Grows(f)
    BY <2>1, <2>2 DEF Stored, Grows
  <2>4. PICK c : c = w.confirm
    OBVIOUS
  <2> QED BY <1>1, <1>2, <2>1, <2>2, <2>3, <2>4, ImportedKeeps
<1>4. CASE w.env # New
  <2>1. /\ w.env \in Stored /\ sets' = [sets EXCEPT ![w.env] = Revised(sets[w.env], w.vars)]
        /\ Imported(w.env, w.confirm) /\ w.vars \in Values
    BY <1>2, <1>4 DEF CommitImport, Accepts, ImportType
  <2>2. PICK e \in Environments, c \in {w.confirm} : e = w.env /\ c = w.confirm
    BY <2>1 DEF Stored
  <2>3. sets' \in [Environments -> SetType] /\ Stored' = Stored /\ \A f \in Environments : Grows(f)
    <3> HIDE DEF w
    <3> QED BY <1>1, <2>1, RevisedSet
  <2>4. Stored' = Stored \cup {e} /\ Imported(e, c)
    BY <2>1, <2>2, <2>3
  <2> QED BY <1>1, <1>2, <2>2, <2>3, <2>4, ImportedKeeps
<1> QED BY <1>3, <1>4

LEMMA FileChangesKeeps ==
  ASSUME EnvInv, NEW v \in Values \cup {Unreadable}, FileChanges(v)
  PROVE  EnvInv'
<1>1. /\ EnvTypeOK /\ events' \in 0 .. MaxEvents /\ file' = v
      /\ notify' = {e \in Environments : watches[e] # NoWatch}
      /\ UNCHANGED <<sets, active, choosing, staging, previews, confirms, writes, watches, view, drafts, imports>>
  BY PreviewsAreKept DEF EnvInv, EnvTypeOK, FileChanges, Event
<1>2. EnvTypeOK'
  BY <1>1 DEF EnvTypeOK, Stored, Seen
<1>3. BasedInv'
  BY <1>1 DEF EnvInv, BasedInv, BasedOn, Based
<1>4. IdInv'
  BY <1>1 DEF EnvInv, IdInv, ImportedOnce, Fresh, ImportAt, ImportId
<1>5. WatchIsUpToDate'
  BY <1>1 DEF WatchIsUpToDate
<1>6. ASSUME NEW s \in staging' PROVE ReadInv(s)'
  <2>1. ReadInv(s)
    BY <1>1 DEF EnvInv, WatchInv
  <2>2. ASSUME s.entry # NoId, Offers(s)' PROVE s.target \in notify'
    <3>1. s.target \in Environments /\ watches[s.target].id = s.entry
      BY <1>1, <2>1, <2>2 DEF ReadInv, Offers
    <3>2. watches[s.target] # NoWatch
      BY <2>2, <3>1 DEF NoWatch
    <3> QED BY <1>1, <3>1, <3>2
  <2> QED BY <1>1, <2>1, <2>2 DEF ReadInv
<1>7. WatchInv'
  BY <1>1, <1>5, <1>6 DEF EnvInv, WatchInv, NothingOutlivesTheView, OnlyStoredAreWatched, Stored
<1> QED BY <1>2, <1>3, <1>4, <1>7 DEF EnvInv

LEMMA StopWatchKeeps ==
  ASSUME EnvInv, NEW e \in Environments, StopWatch(e)
  PROVE  EnvInv'
<1>1. /\ EnvTypeOK /\ WatchInv /\ events' \in 0 .. MaxEvents /\ Stops(e)
      /\ UNCHANGED <<sets, active, file, choosing, staging, confirms, writes, view, drafts, imports>>
  BY PreviewsAreKept DEF EnvInv, EnvTypeOK, StopWatch, Event
<1>2. /\ previews' \in Seq(PreviewType) /\ Len(previews') <= PreviewLimit
      /\ Range(previews') \subseteq Range(previews)
      /\ watches' \in [Environments -> WatchType \cup {NoWatch}] /\ notify' \subseteq Environments
      /\ \A f \in Environments : watches'[f].id = NoId \/ watches'[f].id = watches[f].id
      /\ WatchInv'
  BY <1>1, StopsKeeps DEF Stored
<1>3. EnvTypeOK'
  BY <1>1, <1>2 DEF EnvTypeOK, Stored
<1>4. BasedInv'
  BY <1>1, <1>2 DEF EnvInv, BasedInv, BasedOn, Based
<1>5. IdInv'
  <2>1. Len(writes) \in Nat /\ 0 \in Nat
    BY <1>1, EnvTypes
  <2>2. \A n \in 1 .. Len(writes') : ImportAt(n)' => n + 0 \in 1 .. Len(writes) /\ writes'[n] = writes[n + 0]
    BY <1>1, <2>1
  <2> QED BY <1>1, <1>2, <2>1, <2>2, FewerIds DEF EnvInv
<1> QED BY <1>2, <1>3, <1>4, <1>5 DEF EnvInv

LEMMA NewViewKeeps ==
  ASSUME EnvInv, NewView
  PROVE  EnvInv'
<1>1. /\ EnvTypeOK /\ events' \in 0 .. MaxEvents /\ view' = view + 1 /\ previews' = <<>>
      /\ watches' = [e \in Environments |-> NoWatch] /\ notify' = {}
      /\ drafts' = [e \in Environments |-> NoDraft]
      /\ UNCHANGED <<sets, active, file, choosing, staging, confirms, writes, imports>>
  BY PreviewsAreKept DEF EnvInv, EnvTypeOK, NewView, Event
<1>2. Range(previews') = {}
  BY <1>1 DEF Range
<1>3. EnvTypeOK'
  <2>1. view' \in Nat /\ previews' \in Seq(PreviewType) /\ Len(previews') <= PreviewLimit
    BY <1>1, PreviewsAreKept DEF EnvTypeOK
  <2>2. drafts' \in [Environments -> [revision : Revisions, seen : Seen]]
    BY <1>1 DEF NoDraft, Revisions, Seen
  <2> QED BY <1>1, <2>1, <2>2 DEF EnvTypeOK, Stored
<1>4. BasedInv'
  BY <1>1, <1>2 DEF EnvInv, BasedInv, BasedOn, Based
<1>5. IdInv'
  <2>1. Len(writes) \in Nat /\ 0 \in Nat
    BY <1>1, EnvTypes
  <2>2. \A n \in 1 .. Len(writes') : ImportAt(n)' => n + 0 \in 1 .. Len(writes) /\ writes'[n] = writes[n + 0]
    BY <1>1, <2>1
  <2>3. \A e \in Environments : watches'[e].id = NoId \/ watches'[e].id = watches[e].id
    BY <1>1 DEF NoWatch
  <2> QED BY <1>1, <1>2, <2>1, <2>2, <2>3, FewerIds DEF EnvInv
<1>6. WatchInv'
  <2>1. \A e \in Environments : watches'[e].id = NoId /\ watches'[e] = NoWatch
    BY <1>1 DEF NoWatch
  <2>2. \A s \in staging' : ReadInv(s)'
    BY <1>1, <2>1 DEF EnvInv, WatchInv, ReadInv, Offers
  <2> QED BY <1>1, <1>2, <2>1, <2>2 DEF WatchInv, NothingOutlivesTheView, OnlyStoredAreWatched, WatchIsUpToDate
<1> QED BY <1>3, <1>4, <1>5, <1>6 DEF EnvInv

LEMMA WatchFiresKeeps ==
  ASSUME EnvInv, NEW e \in Environments, WatchFires(e)
  PROVE  EnvInv'
<1>1. /\ EnvTypeOK /\ e \in notify /\ notify' = notify \ {e}
      /\ UNCHANGED <<sets, active, file, choosing, previews, confirms, writes, view, drafts, events, imports>>
  BY DEF EnvInv, WatchFires
<1>2. watches[e] # NoWatch /\ e \in Stored /\ CanStage(e) /\ watches[e] \in WatchType /\ watches[e].id \in PreviewIds
  BY <1>1 DEF EnvInv, WatchInv, OnlyStoredAreWatched, CanStage, EnvTypeOK, WatchType
<1>3. PICK n \in WatchType, s \in StageType :
        /\ watches' = [watches EXCEPT ![e] = n] /\ staging' = staging \cup {s} /\ BasedOn(s)
        /\ n.id = watches[e].id /\ n.view = watches[e].view /\ n.value = watches[e].value
        /\ n.turn = watches[e].turn + 1
        /\ s.view = n.view /\ s.target = e /\ s.entry = n.id /\ s.turn = n.turn /\ s.value = Unread
  <2> DEFINE w == watches[e]
             n == [w EXCEPT !.turn = @ + 1]
             s == Stage(w.view, e, w.id, w.turn + 1)
  <2>1. watches' = [watches EXCEPT ![e] = n] /\ staging' = staging \cup {s}
    BY <1>2 DEF WatchFires, Watching, Reread
  <2>2. n \in WatchType /\ n.id = w.id /\ n.view = w.view /\ n.value = w.value /\ n.turn = w.turn + 1
    BY <1>2 DEF WatchType
  <2>3. w.view \in Nat /\ e \in Targets /\ w.id \in PreviewIds \cup {NoId} /\ w.turn + 1 \in Nat
    BY <1>2 DEF WatchType, Targets
  <2>4. /\ s \in StageType /\ BasedOn(s) /\ s.view = w.view /\ s.target = e /\ s.entry = w.id
        /\ s.turn = w.turn + 1 /\ s.value = Unread
    <3>1. PICK v \in Nat, i \in PreviewIds \cup {NoId}, t \in Nat : v = w.view /\ i = w.id /\ t = w.turn + 1
      BY <2>3
    <3>2. /\ Stage(v, e, i, t) \in StageType /\ BasedOn(Stage(v, e, i, t))
          /\ Stage(v, e, i, t).entry = i /\ Stage(v, e, i, t).turn = t
          /\ Stage(v, e, i, t).view = v /\ Stage(v, e, i, t).target = e
          /\ Stage(v, e, i, t).value = Unread
      BY <1>1, <1>2, <2>3, StagedIsBased
    <3>3. s = Stage(v, e, i, t)
      BY <3>1
    <3> HIDE DEF s
    <3> QED BY <3>1, <3>2, <3>3
  <2> HIDE DEF n, s
  <2> QED BY <2>1, <2>2, <2>4
<1>4. /\ watches' \in [Environments -> WatchType \cup {NoWatch}]
      /\ watches'[e] = n /\ \A f \in Environments : f # e => watches'[f] = watches[f]
      /\ n # NoWatch /\ n.id # NoId /\ notify \subseteq Environments
  BY <1>1, <1>2, <1>3, NamesAreProper DEF EnvTypeOK, WatchType, NoWatch
<1>5. EnvTypeOK'
  BY <1>1, <1>3, <1>4 DEF EnvTypeOK, Stored
<1>6. BasedInv'
  <2>1. sets' = sets
    BY <1>1
  <2>2. \A t \in staging' : BasedOn(t)
    BY <1>3 DEF EnvInv, BasedInv
  <2>3. \A t \in staging' : BasedOn(t)'
    BY <2>1, <2>2 DEF BasedOn, Based
  <2> QED BY <1>1, <2>3 DEF EnvInv, BasedInv, BasedOn, Based
<1>7. IdInv'
  <2>1. Len(writes) \in Nat /\ 0 \in Nat
    BY <1>1, EnvTypes
  <2>2. \A m \in 1 .. Len(writes') : ImportAt(m)' => m + 0 \in 1 .. Len(writes) /\ writes'[m] = writes[m + 0]
    BY <1>1, <2>1
  <2>3. \A f \in Environments : watches'[f].id = NoId \/ watches'[f].id = watches[f].id
    BY <1>3, <1>4
  <2>4. \A t \in staging' : \/ t.entry = NoId \/ \E u \in staging : u.entry = t.entry
                            \/ \E f \in Environments : watches[f].id = t.entry
    <3> TAKE t \in staging'
    <3>1. t \in staging \/ t.entry = watches[e].id
      BY <1>3
    <3> QED BY <3>1
  <2> QED BY <1>1, <2>1, <2>2, <2>3, <2>4, FewerIds DEF EnvInv
<1>8. WatchInv'
  <2>1. NothingOutlivesTheView' /\ OnlyStoredAreWatched'
    BY <1>1, <1>2, <1>3, <1>4 DEF EnvInv, WatchInv, NothingOutlivesTheView, OnlyStoredAreWatched, Stored
  <2>2. WatchIsUpToDate'
    <3> SUFFICES ASSUME NEW f \in Environments, watches'[f] # NoWatch, file # Unreadable, f \notin notify',
                        ~\E t \in staging' : t.entry = watches'[f].id /\ t.turn = watches'[f].turn
                 PROVE  watches'[f].value = file
      BY <1>1 DEF WatchIsUpToDate
    <3>1. f # e
      BY <1>3, <1>4
    <3> QED BY <1>1, <1>3, <1>4, <3>1 DEF EnvInv, WatchInv, WatchIsUpToDate
  <2>3. \A f, g \in Environments : watches'[f] # NoWatch /\ watches'[f].id = watches'[g].id => f = g
    <3>1. \A f \in Environments : watches'[f].id = watches[f].id /\ (watches'[f] # NoWatch => watches[f] # NoWatch)
      BY <1>2, <1>3, <1>4
    <3> QED BY <3>1 DEF EnvInv, WatchInv
  <2>4. \A f \in notify' : watches'[f] # NoWatch
    BY <1>1, <1>4 DEF EnvInv, WatchInv
  <2>5. ASSUME NEW t \in staging' PROVE ReadInv(t)'
    <3>1. CASE t = s
      <4>1. \A f \in Environments : watches'[f].id = s.entry => f = e
        BY <1>2, <1>3, <1>4 DEF EnvInv, WatchInv
      <4> QED BY <1>3, <1>4, <3>1, <4>1 DEF ReadInv, WatchType
    <3>2. CASE t \in staging /\ t # s
      <4> SUFFICES ASSUME t.entry # NoId PROVE ReadInv(t)'
        BY DEF ReadInv
      <4>1. /\ t.target \in Environments
            /\ \A f \in Environments :
                 watches[f].id = t.entry
                   => f = t.target /\ t.view = watches[f].view /\ t.turn <= watches[f].turn
            /\ Offers(t) /\ t.value # Unread /\ t.target \notin notify => t.value = file
        BY <3>2 DEF EnvInv, WatchInv, ReadInv
      <4>2. t.turn \in Nat /\ watches[e].turn \in Nat
        BY <1>1, <1>2, <3>2 DEF EnvTypeOK, StageType, WatchType
      <4>3. \A f \in Environments :
              watches'[f].id = t.entry
                => f = t.target /\ t.view = watches'[f].view /\ t.turn <= watches'[f].turn
        BY <1>3, <1>4, <4>1, <4>2
      <4>4. Offers(t)' => t.target # e
        BY <1>3, <1>4, <4>1, <4>2 DEF Offers
      <4>5. t.target # e => (Offers(t)' <=> Offers(t))
        BY <1>4, <4>1 DEF Offers
      <4> QED BY <1>1, <4>1, <4>3, <4>4, <4>5 DEF ReadInv
    <3> QED BY <1>3, <3>1, <3>2
  <2> QED BY <2>1, <2>2, <2>3, <2>4, <2>5 DEF WatchInv
<1> QED BY <1>5, <1>6, <1>7, <1>8 DEF EnvInv

LEMMA EnvStep == EnvInv /\ [EnvNext]_envVars => EnvInv'
<1> SUFFICES ASSUME EnvInv, [EnvNext]_envVars PROVE EnvInv'
  OBVIOUS
<1>1. CASE \E e \in Targets : ChooseFile(e)
  BY <1>1, ChooseFileKeeps
<1>2. CASE \E c \in choosing : FileChosen(c)
  BY <1>2, FileChosenKeeps
<1>3. CASE \E s \in staging : ReadFile(s) \/ PreviewRead(s) \/ ChangeRead(s)
  BY <1>3, ReadFileKeeps, PreviewReadKeeps, ChangeReadKeeps
<1>4. CASE \E i \in PreviewIds : CancelImport(i)
  BY <1>4, CancelImportKeeps
<1>5. CASE \E p \in Range(previews), watch \in BOOLEAN : ConfirmImport(p, watch)
  BY <1>5, ConfirmImportKeeps
<1>6. CASE \E c \in confirms : ConfirmRead(c)
  BY <1>6, ConfirmReadKeeps
<1>7. CASE \E e \in Environments : EditEnvironment(e) \/ StopWatch(e) \/ WatchFires(e)
  BY <1>7, EditEnvironmentKeeps, StopWatchKeeps, WatchFiresKeeps
<1>8. CASE \E e \in Environments, v \in Values : SaveEnvironment(e, v)
  BY <1>8, SaveEnvironmentKeeps
<1>9. CASE \E e \in Environments, kind \in {"select", "delete"} : AskFor(kind, e)
  BY <1>9, AskForKeeps
<1>10. CASE Commit
  BY <1>10, CommitImportKeeps, CommitUpdateKeeps, CommitSelectKeeps, CommitDeleteKeeps DEF Commit
<1>11. CASE WriteEndsInVain
  BY <1>11, WriteEndsInVainKeeps
<1>12. CASE \E v \in Values \cup {Unreadable} : FileChanges(v)
  BY <1>12, FileChangesKeeps
<1>13. CASE NewView
  BY <1>13, NewViewKeeps
<1>14. CASE UNCHANGED envVars
  <2>1. EnvTypeOK'
    BY <1>14 DEF envVars, EnvInv, EnvTypeOK, Stored
  <2>2. BasedInv'
    BY <1>14 DEF envVars, EnvInv, BasedInv, BasedOn, Based
  <2>3. IdInv'
    BY <1>14 DEF envVars, EnvInv, IdInv, ImportedOnce, Fresh, ImportAt, ImportId
  <2>4. WatchInv'
    BY <1>14 DEF envVars, EnvInv, WatchInv, NothingOutlivesTheView, OnlyStoredAreWatched, Stored,
       WatchIsUpToDate, ReadInv, Offers
  <2> QED BY <2>1, <2>2, <2>3, <2>4 DEF EnvInv
<1> QED BY <1>1, <1>2, <1>3, <1>4, <1>5, <1>6, <1>7, <1>8, <1>9, <1>10, <1>11, <1>12, <1>13, <1>14
         DEF EnvNext

\* A stored environment that holds other variables after a step and stays stored: the first write
\* was based on what it held.
LEMMA SeenStays ==
  ASSUME EnvInv, [EnvNext]_envVars, NEW e \in Stored, sets[e].state = sets'[e].state,
         sets'[e].vars # sets[e].vars
  PROVE  Head(writes).seen = sets[e].vars
<1>1. EnvTypeOK /\ e \in Environments /\ sets[e].state = "stored"
  BY DEF EnvInv, Stored
<1>2. Commit
  BY DEF EnvNext, envVars, ChooseFile, FileChosen, ReadFile, PreviewRead, ChangeRead, CancelImport,
     ConfirmImport, ConfirmRead, EditEnvironment, StopWatch, WatchFires, SaveEnvironment, AskFor,
     WriteEndsInVain, FileChanges, NewView
<1> DEFINE w == Head(writes)
<1>3. writes # <<>> /\ w = writes[1] /\ 1 \in 1 .. Len(writes) /\ w \in PanelType \cup ImportType
  BY <1>1, <1>2, QueueMoves DEF Commit
<1>4. w.kind \in {"update", "import"} /\ w.env = e /\ Accepts(w)
  <2>1. CASE CommitImport(w)
    <3>1. CASE w.env = New
      <4>1. PICK f \in Environments : /\ sets[f].state = "unused"
                                      /\ \E x : sets' = [sets EXCEPT ![f] = x]
        BY <2>1, <3>1 DEF CommitImport
      <4> QED BY <1>1, <4>1 DEF EnvTypeOK
    <3>2. CASE w.env # New
      <4>1. PICK x : sets' = [sets EXCEPT ![w.env] = x]
        BY <2>1, <3>2 DEF CommitImport
      <4>2. w.env = e
        BY <1>1, <4>1 DEF EnvTypeOK
      <4> QED BY <2>1, <3>2, <4>2 DEF CommitImport
    <3> QED BY <3>1, <3>2
  <2>2. CASE CommitUpdate(w)
    <3>1. PICK x : sets' = [sets EXCEPT ![w.env] = x]
      BY <2>2 DEF CommitUpdate
    <3>2. w.env = e
      BY <1>1, <3>1 DEF EnvTypeOK
    <3> QED BY <2>2, <3>2 DEF CommitUpdate
  <2>3. CASE CommitSelect(w)
    <3>1. sets'[e] = IF e \in {active, w.env} THEN [sets[e] EXCEPT !.updated = Touched(@)] ELSE sets[e]
      BY <1>1, <2>3 DEF CommitSelect
    <3>2. sets[e] \in SetType
      BY <1>1 DEF EnvTypeOK
    <3>3. sets'[e].vars = sets[e].vars
      BY <3>1, <3>2 DEF SetType
    <3> QED BY <3>3
  <2>4. CASE CommitDelete(w)
    <3>1. sets' = [sets EXCEPT ![w.env].state = "deleted"]
      BY <2>4 DEF CommitDelete
    <3>2. sets[e] \in SetType /\ sets \in [Environments -> SetType]
      BY <1>1 DEF EnvTypeOK
    <3>3. sets'[e].vars = sets[e].vars
      BY <1>1, <3>1, <3>2 DEF SetType
    <3> QED BY <3>3
  <2> QED BY <1>2, <2>1, <2>2, <2>3, <2>4 DEF Commit
<1> HIDE DEF w
<1>5. e # New
  BY <1>1, NamesAreProper
<1>6. Based(e, w.revision, w.seen)
  BY <1>3, <1>4, <1>5 DEF EnvInv, BasedInv
<1>7. w.revision = sets[e].updated
  BY <1>4 DEF Accepts
<1> QED BY <1>6, <1>7 DEF Based, w

-----------------------------------------------------------------------------
(* The library *)

IInv == EnvInv /\ ExportInv /\ SavingInv

LEMMA LibraryInductive == LibrarySpec => []IInv
<1>1. LibraryInit => IInv
  BY EnvStart, ExportStart, SavingStart DEF LibraryInit, IInv
<1>2. IInv /\ [LibraryNext]_libraryVars => IInv'
  <2> SUFFICES ASSUME IInv, [LibraryNext]_libraryVars PROVE IInv'
    OBVIOUS
  <2>1. [EnvNext]_envVars /\ [ExportNext]_exportVars /\ [SavingNext]_savingVars
    BY DEF LibraryNext, UsesEnvironments, UsesExports, UsesBodies, libraryVars
  <2> QED
    BY <2>1, EnvStep, ExportStep, SavingStep DEF IInv
<1> QED
  BY <1>1, <1>2, PTL DEF LibrarySpec

(***************************************************************************)
(* Environments, previews, writes, watches, exports and bodies stay of     *)
(* their types, the limits of previews and bodies included                 *)
(* (LibraryTypeOK).                                                        *)
(***************************************************************************)
THEOREM TypeCorrect == LibrarySpec => []LibraryTypeOK
<1>1. IInv => LibraryTypeOK
  BY DEF IInv, EnvInv, ExportInv, SavingInv, LibraryTypeOK
<1> QED
  BY <1>1, LibraryInductive, PTL

(***************************************************************************)
(* What was reviewed once, a preview of an .env file or a staged export,   *)
(* is imported at most once, however often it is confirmed                 *)
(* (ImportedAtMostOnce).                                                   *)
(***************************************************************************)
THEOREM ImportsHappenOnce == LibrarySpec => []ImportedAtMostOnce
<1>1. IInv => ImportedAtMostOnce
  BY DEF IInv, EnvInv, IdInv, ExportInv, ImportedAtMostOnce
<1> QED
  BY <1>1, LibraryInductive, PTL

(***************************************************************************)
(* Previews, staged exports and watches are of the page that is there,     *)
(* only stored environments are watched, a watch with no report or read    *)
(* under way has seen what the file holds, and the count of bytes is that  *)
(* of the bodies kept and within the limit (KeptIsCurrent).                *)
(***************************************************************************)
THEOREM NothingKeptIsStale == LibrarySpec => []KeptIsCurrent
<1>1. IInv => KeptIsCurrent
  BY DEF IInv, EnvInv, WatchInv, ExportInv, SavingInv, KeptIsCurrent
<1> QED
  BY <1>1, LibraryInductive, PTL

(***************************************************************************)
(* Variables are only replaced by a write whose author saw them, and what  *)
(* is staged of an export only by a later choice (NothingNewerIsReplaced). *)
(***************************************************************************)
THEOREM NewerStays == LibrarySpec => NothingNewerIsReplaced
<1> DEFINE Unseen == \A e \in Environments :
             e \in Stored /\ sets[e].state = sets'[e].state /\ sets'[e].vars # sets[e].vars
               => Head(writes).seen = sets[e].vars
           Later == exportStaged # Nothing /\ exportStaged' # Nothing
                      => exportStaged'.call >= exportStaged.call
<1>1. IInv /\ [LibraryNext]_libraryVars => [Unseen]_envVars /\ [Later]_exportVars
  <2> SUFFICES ASSUME IInv, [LibraryNext]_libraryVars PROVE Unseen /\ Later
    OBVIOUS
  <2>1. [EnvNext]_envVars /\ [ExportNext]_exportVars
    BY DEF LibraryNext, UsesEnvironments, UsesExports, UsesBodies, libraryVars
  <2>2. EnvInv /\ ExportInv
    BY DEF IInv
  <2>3. Unseen
    BY <2>1, <2>2, SeenStays
  <2>4. Later
    BY <2>1, <2>2, LaterStays
  <2> QED
    BY <2>3, <2>4
<1> QED
  BY <1>1, LibraryInductive, PTL
     DEF LibrarySpec, NothingNewerIsReplaced, NothingUnseenIsReplaced, LaterChoiceStays

(***************************************************************************)
(* The destination of a save only changes to the whole body that was asked *)
(* for, by a rename that is issued while that body is kept                 *)
(* (SavesWhatIsKept).                                                      *)
(***************************************************************************)
THEOREM OnlyKeptIsSaved == LibrarySpec => SavesWhatIsKept
<1> DEFINE Whole == /\ destination' # destination => saving.stage = "renaming" /\ destination' = saving.body
                    /\ (saving.stage # "renaming" /\ saving'.stage = "renaming") =>
                         temporary = saving'.body /\ BodyWith(saving'.body) # {}
<1>1. IInv /\ [LibraryNext]_libraryVars => [Whole]_savingVars
  <2>1. ASSUME IInv, [LibraryNext]_libraryVars PROVE Whole
    <3>1. [SavingNext]_savingVars /\ SavingInv
      BY <2>1 DEF LibraryNext, UsesEnvironments, UsesExports, UsesBodies, libraryVars, IInv
    <3> QED
      BY <3>1, SavesWhole, RenamesKept
  <2> QED
    BY <2>1
<1> QED
  BY <1>1, LibraryInductive, PTL DEF LibrarySpec, SavesWhatIsKept
=============================================================================
