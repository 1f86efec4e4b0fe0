--------------------------- MODULE ContentProofs ---------------------------
(***************************************************************************)
(* Proofs about Content: that the tree of collections stays whole, for any *)
(* ids; that a Postman export is converted to what it says, for exports of *)
(* any size and folders nested however deep; that a sample sends what the  *)
(* request would, and nothing unconfirmed is shown, for any request; and   *)
(* that a request is sent with its variables replaced or refused, whatever *)
(* the variables.                                                          *)
(***************************************************************************)
EXTENDS Content, SequenceTheorems, FiniteSetTheorems, WellFoundedInduction, TLAPS
-----------------------------------------------------------------------------
(* Sequences from which an item is taken, or into which one is put *)

Distinct(s) == \A i, j \in DOMAIN s : s[i] = s[j] => i = j

LEMMA RemoveAtFacts ==
  ASSUME NEW X, NEW s \in Seq(X), NEW n \in 1 .. Len(s)
  PROVE  /\ RemoveAt(s, n) \in Seq(X) /\ Len(RemoveAt(s, n)) = Len(s) - 1
         /\ \A i \in 1 .. Len(s) - 1 : RemoveAt(s, n)[i] = IF i < n THEN s[i] ELSE s[i + 1]
<1> DEFINE a == SubSeq(s, 1, n - 1)
           b == SubSeq(s, n + 1, Len(s))
<1>0. Len(s) \in Nat /\ n \in Nat /\ 1 <= n /\ n <= Len(s)
  OBVIOUS
<1>1. /\ a \in Seq(X) /\ Len(a) = n - 1 /\ \A i \in 1 .. n - 1 : a[i] = s[i]
  BY SMT
<1>2. /\ b \in Seq(X) /\ Len(b) = Len(s) - n /\ \A i \in 1 .. Len(s) - n : b[i] = s[n + i]
  BY SMT
<1> HIDE DEF a, b
<1>3. RemoveAt(s, n) = a \o b
  BY DEF RemoveAt, a, b
<1>4. /\ a \o b \in Seq(X) /\ Len(a \o b) = Len(a) + Len(b)
      /\ \A i \in 1 .. Len(a) + Len(b) : (a \o b)[i] = IF i <= Len(a) THEN a[i] ELSE b[i - Len(a)]
  BY <1>1, <1>2, ConcatProperties
<1>5. Len(a) + Len(b) = Len(s) - 1
  BY <1>0, <1>1, <1>2
<1>6. ASSUME NEW i \in 1 .. Len(s) - 1
      PROVE  (a \o b)[i] = IF i < n THEN s[i] ELSE s[i + 1]
  <2>0. i \in Nat /\ (a \o b)[i] = IF i <= n - 1 THEN a[i] ELSE b[i - (n - 1)]
    BY <1>1, <1>4, <1>5
  <2>1. CASE i < n
    <3>1. i \in 1 .. n - 1
      BY <1>0, <2>0, <2>1
    <3> QED
      BY <1>0, <1>1, <2>0, <2>1, <3>1
  <2>2. CASE i >= n
    <3>1. i - (n - 1) \in 1 .. Len(s) - n /\ n + (i - (n - 1)) = i + 1
      BY <1>0, <2>0, <2>2
    <3>2. b[i - (n - 1)] = s[i + 1]
      BY <1>2, <3>1
    <3> QED
      BY <1>0, <2>0, <2>2, <3>2
  <2> QED
    BY <1>0, <2>0, <2>1, <2>2
<1> QED
  BY <1>3, <1>4, <1>5, <1>6

LEMMA InsertAtFacts ==
  ASSUME NEW X, NEW s \in Seq(X), NEW n \in 1 .. Len(s) + 1, NEW x \in X
  PROVE  /\ InsertAt(s, n, x) \in Seq(X) /\ Len(InsertAt(s, n, x)) = Len(s) + 1
         /\ \A i \in 1 .. Len(s) + 1 :
              InsertAt(s, n, x)[i] = IF i < n THEN s[i] ELSE IF i = n THEN x ELSE s[i - 1]
<1> DEFINE a == SubSeq(s, 1, n - 1)
           b == SubSeq(s, n, Len(s))
           am == a \o <<x>>
<1>0. Len(s) \in Nat /\ n \in Nat /\ 1 <= n /\ n <= Len(s) + 1
  OBVIOUS
<1>1. /\ a \in Seq(X) /\ Len(a) = n - 1 /\ \A i \in 1 .. n - 1 : a[i] = s[i]
  BY SMT
<1>2. /\ b \in Seq(X) /\ Len(b) = Len(s) - n + 1 /\ \A i \in 1 .. Len(s) - n + 1 : b[i] = s[n + i - 1]
  BY SMT
<1> HIDE DEF a, b
<1>3. am \in Seq(X) /\ Len(am) = n /\ \A i \in 1 .. n : am[i] = IF i < n THEN s[i] ELSE x
  BY <1>1
<1> HIDE DEF am
<1>4. InsertAt(s, n, x) = am \o b
  BY DEF InsertAt, a, b, am
<1>5. /\ am \o b \in Seq(X) /\ Len(am \o b) = Len(am) + Len(b)
      /\ \A i \in 1 .. Len(am) + Len(b) : (am \o b)[i] = IF i <= Len(am) THEN am[i] ELSE b[i - Len(am)]
  BY <1>2, <1>3, ConcatProperties
<1>6. Len(am) + Len(b) = Len(s) + 1
  BY <1>0, <1>2, <1>3
<1>7. ASSUME NEW i \in 1 .. Len(s) + 1
      PROVE  (am \o b)[i] = IF i < n THEN s[i] ELSE IF i = n THEN x ELSE s[i - 1]
  <2>0. i \in Nat /\ (am \o b)[i] = IF i <= n THEN am[i] ELSE b[i - n]
    BY <1>3, <1>5, <1>6
  <2>1. CASE i <= n
    <3>1. i \in 1 .. n
      BY <1>0, <2>0, <2>1
    <3> QED
      BY <1>0, <1>3, <2>0, <2>1, <3>1
  <2>2. CASE i > n
    <3>1. i - n \in 1 .. Len(s) - n + 1 /\ n + (i - n) - 1 = i - 1
      BY <1>0, <2>0, <2>2
    <3>2. b[i - n] = s[i - 1]
      BY <1>2, <3>1
    <3> QED
      BY <1>0, <2>0, <2>2, <3>2
  <2> QED
    BY <1>0, <2>0, <2>1, <2>2
<1> QED
  BY <1>4, <1>5, <1>6, <1>7

(***************************************************************************)
(* Taking an item out of a sequence without repetitions leaves the others. *)
(***************************************************************************)
LEMMA SplicedFacts ==
  ASSUME NEW X, NEW s \in Seq(X), Distinct(s), NEW x
  PROVE  /\ Spliced(s, x) \in Seq(X) /\ Distinct(Spliced(s, x))
         /\ ToSet(Spliced(s, x)) = ToSet(s) \ {x}
<1>1. CASE x \notin ToSet(s)
  BY <1>1 DEF Spliced
<1>2. CASE x \in ToSet(s)
  <2> DEFINE n == CHOOSE i \in DOMAIN s : s[i] = x
             r == RemoveAt(s, n)
  <2>1. n \in 1 .. Len(s) /\ s[n] = x /\ Len(s) \in Nat
    BY <1>2 DEF ToSet
  <2> HIDE DEF n
  <2>2. /\ r \in Seq(X) /\ Len(r) = Len(s) - 1
        /\ \A i \in 1 .. Len(s) - 1 : r[i] = IF i < n THEN s[i] ELSE s[i + 1]
    BY <2>1, RemoveAtFacts
  <2> HIDE DEF r
  <2>3. DOMAIN r = 1 .. Len(s) - 1 /\ DOMAIN s = 1 .. Len(s)
    BY <2>2
  <2>4. Distinct(r)
    <3> SUFFICES ASSUME NEW i \in 1 .. Len(s) - 1, NEW j \in 1 .. Len(s) - 1, r[i] = r[j] PROVE i = j
      BY <2>3 DEF Distinct
    <3> DEFINE p == IF i < n THEN i ELSE i + 1
               q == IF j < n THEN j ELSE j + 1
    <3>1. p \in 1 .. Len(s) /\ q \in 1 .. Len(s) /\ r[i] = s[p] /\ r[j] = s[q]
      BY <2>1, <2>2
    <3>2. p = q
      BY <3>1, <2>3 DEF Distinct
    <3> QED
      BY <2>1, <3>2
  <2>5. ASSUME NEW y \in ToSet(r) PROVE y \in ToSet(s) \ {x}
    <3>1. PICK i \in 1 .. Len(s) - 1 : y = r[i]
      BY <2>3, <2>5 DEF ToSet
    <3> DEFINE p == IF i < n THEN i ELSE i + 1
    <3>2. p \in 1 .. Len(s) /\ p # n /\ y = s[p]
      BY <2>1, <2>2, <3>1
    <3> HIDE DEF p
    <3>3. y # x
      BY <3>2, <2>1, <2>3 DEF Distinct
    <3> QED
      BY <3>2, <3>3, <2>3 DEF ToSet
  <2>6. ASSUME NEW y \in ToSet(s) \ {x} PROVE y \in ToSet(r)
    <3>1. PICK p \in 1 .. Len(s) : y = s[p]
      BY <2>3, <2>6 DEF ToSet
    <3>2. p # n
      BY <2>1, <3>1
    <3> DEFINE i == IF p < n THEN p ELSE p - 1
    <3>3. i \in 1 .. Len(s) - 1 /\ r[i] = y
      BY <2>1, <2>2, <3>1, <3>2
    <3> HIDE DEF i
    <3> QED
      BY <3>3, <2>3 DEF ToSet
  <2>7. Spliced(s, x) = r
    BY <1>2 DEF Spliced, r, n
  <2> QED
    BY <2>2, <2>4, <2>5, <2>6, <2>7
<1> QED
  BY <1>1, <1>2

(***************************************************************************)
(* Putting a new item into a sequence without repetitions adds it.         *)
(***************************************************************************)
LEMMA InsertedFacts ==
  ASSUME NEW X, NEW s \in Seq(X), Distinct(s), NEW x \in X, x \notin ToSet(s), NEW n \in 1 .. Len(s) + 1
  PROVE  /\ InsertAt(s, n, x) \in Seq(X) /\ Distinct(InsertAt(s, n, x))
         /\ ToSet(InsertAt(s, n, x)) = ToSet(s) \cup {x}
<1> DEFINE r == InsertAt(s, n, x)
<1>1. n \in Nat /\ 1 <= n /\ n <= Len(s) + 1 /\ Len(s) \in Nat
  OBVIOUS
<1>0. n \in 1 .. Len(s) + 1 /\ s \in Seq(X) /\ x \in X
  OBVIOUS
<1>2. /\ r \in Seq(X) /\ Len(r) = Len(s) + 1
      /\ \A i \in 1 .. Len(s) + 1 : r[i] = IF i < n THEN s[i] ELSE IF i = n THEN x ELSE s[i - 1]
  <2> HIDE DEF r
  <2>1. /\ InsertAt(s, n, x) \in Seq(X) /\ Len(InsertAt(s, n, x)) = Len(s) + 1
        /\ \A i \in 1 .. Len(s) + 1 :
             InsertAt(s, n, x)[i] = IF i < n THEN s[i] ELSE IF i = n THEN x ELSE s[i - 1]
    BY <1>0, InsertAtFacts, SMTT(30)
  <2> QED
    BY <2>1 DEF r
<1> HIDE DEF r
<1>3. DOMAIN r = 1 .. Len(s) + 1 /\ DOMAIN s = 1 .. Len(s)
  BY <1>2
<1>e. \A i \in 1 .. Len(s) : s[i] # x
  BY <1>3 DEF ToSet
<1>4. Distinct(r)
  <2> SUFFICES ASSUME NEW i \in 1 .. Len(s) + 1, NEW j \in 1 .. Len(s) + 1, r[i] = r[j] PROVE i = j
    BY <1>3 DEF Distinct
  <2> DEFINE p == IF i < n THEN i ELSE i - 1
             q == IF j < n THEN j ELSE j - 1
  <2>1. (i # n => p \in 1 .. Len(s) /\ r[i] = s[p]) /\ (j # n => q \in 1 .. Len(s) /\ r[j] = s[q])
    BY <1>1, <1>2
  <2>2. (i = n => r[i] = x) /\ (j = n => r[j] = x)
    BY <1>2
  <2>3. CASE i = n \/ j = n
    <3>1. i # n => r[i] # x
      BY <2>1, <1>e
    <3>2. j # n => r[j] # x
      BY <2>1, <1>e
    <3> QED
      BY <2>2, <2>3, <3>1, <3>2
  <2>4. CASE i # n /\ j # n
    <3>1. p = q
      BY <2>1, <2>4, <1>3 DEF Distinct
    <3> QED
      BY <1>1, <2>4, <3>1
  <2> QED
    BY <2>3, <2>4
<1>5. ASSUME NEW y \in ToSet(r) PROVE y \in ToSet(s) \cup {x}
  <2>1. PICK i \in 1 .. Len(s) + 1 : y = r[i]
    BY <1>3, <1>5 DEF ToSet
  <2> DEFINE p == IF i < n THEN i ELSE i - 1
  <2>2. y = x \/ (p \in 1 .. Len(s) /\ y = s[p])
    BY <1>1, <1>2, <2>1
  <2> HIDE DEF p
  <2> QED
    BY <2>2, <1>3 DEF ToSet
<1>6. ASSUME NEW y \in ToSet(s) \cup {x} PROVE y \in ToSet(r)
  <2>1. CASE y = x
    <3>1. n \in 1 .. Len(s) + 1 /\ r[n] = x
      BY <1>1, <1>2
    <3> QED
      BY <2>1, <3>1, <1>3 DEF ToSet
  <2>2. CASE y \in ToSet(s)
    <3>1. PICK p \in 1 .. Len(s) : y = s[p]
      BY <1>3, <2>2 DEF ToSet
    <3> DEFINE i == IF p < n THEN p ELSE p + 1
    <3>2. i \in 1 .. Len(s) + 1 /\ r[i] = y
      BY <1>1, <1>2, <3>1
    <3> HIDE DEF i
    <3> QED
      BY <3>2, <1>3 DEF ToSet
  <2> QED
    BY <1>6, <2>1, <2>2
<1> QED
  BY <1>2, <1>4, <1>5, <1>6 DEF r

-----------------------------------------------------------------------------
(* What is below a node *)

Kids(t, c) == ToSet(t.children[c])

Trees == [collections : SUBSET Collections, children : [Containers -> Seq(Items)],
          label : [Requests -> Names \cup {None}], stored : [Requests -> Names \cup {None}]]

LEMMA TreeShape ==
  ASSUME NEW t \in Trees
  PROVE  /\ t.collections \subseteq Collections /\ t.collections \subseteq Containers
         /\ t.children \in [Containers -> Seq(Items)]
         /\ t.label \in [Requests -> Names \cup {None}]
         /\ t.stored \in [Requests -> Names \cup {None}]
         /\ \A c \in Containers : Kids(t, c) \subseteq Items
<1>1. \A s \in Seq(Items) : ToSet(s) \subseteq Items
  BY DEF ToSet
<1> QED
  BY <1>1 DEF Trees, Kids, Containers

LEMMA InWithin ==
  ASSUME NEW t, NEW nodes, NEW x
  PROVE  x \in Within(t, nodes) <=> \E c \in Containers : c \in nodes /\ x \in Kids(t, c)
BY DEF Within, Kids

(***************************************************************************)
(* What is below nodes holds the items of the nodes and its own.           *)
(***************************************************************************)
LEMMA BelowClosed ==
  ASSUME NEW t \in Trees, NEW nodes, NEW c \in Containers, c \in nodes \cup Below(t, nodes)
  PROVE  Kids(t, c) \subseteq Below(t, nodes)
<1> DEFINE closed == {F \in SUBSET Folders : HoldsItsFolders(t, nodes, F)}
           E == Entered(t, nodes)
<1>1. \A f : f \in E <=> f \in Folders /\ \A F \in closed : f \in F
  BY DEF Entered
<1>2. ASSUME NEW f \in Within(t, nodes \cup E) \cap Folders PROVE f \in E
  <2> SUFFICES ASSUME NEW F \in closed PROVE f \in F
    BY <1>1
  <2>1. PICK d \in Containers : d \in nodes \cup E /\ f \in Kids(t, d)
    BY InWithin
  <2>2. d \in nodes \cup F
    BY <1>1, <2>1
  <2>3. f \in Within(t, nodes \cup F)
    BY <2>1, <2>2, InWithin
  <2> QED
    BY <2>3 DEF HoldsItsFolders
<1> HIDE DEF closed, E
<1>3. Below(t, nodes) = Within(t, nodes \cup E)
  BY DEF Below, E
<1>4. c \in nodes \cup E
  <2>1. CASE c \in Below(t, nodes)
    <3>1. PICK d \in Containers : d \in nodes \cup E /\ c \in Kids(t, d)
      BY <1>3, <2>1, InWithin
    <3>2. c \in Items /\ c \in Folders
      BY <3>1, TreeShape, IdsAreApart DEF Items, Containers
    <3> QED
      BY <1>2, <1>3, <2>1, <3>2
  <2> QED
    BY <2>1
<1> QED
  BY <1>3, <1>4, InWithin

(***************************************************************************)
(* It is the least such set.                                               *)
(***************************************************************************)
LEMMA BelowLeast ==
  ASSUME NEW t, NEW nodes, NEW S,
         \A c \in Containers : c \in nodes \cup S => Kids(t, c) \subseteq S
  PROVE  Below(t, nodes) \subseteq S
<1> DEFINE F == S \cap Folders
<1>1. Within(t, nodes \cup F) \subseteq S
  BY InWithin
<1>2. F \in SUBSET Folders /\ HoldsItsFolders(t, nodes, F)
  BY <1>1 DEF HoldsItsFolders
<1>3. Entered(t, nodes) \subseteq F
  BY <1>2 DEF Entered
<1>4. ASSUME NEW x \in Below(t, nodes) PROVE x \in S
  <2>1. PICK d \in Containers : d \in nodes \cup Entered(t, nodes) /\ x \in Kids(t, d)
    BY <1>4, InWithin DEF Below
  <2> QED
    BY <1>3, <2>1
<1> QED
  BY <1>4

(***************************************************************************)
(* Each item of it is in one of the nodes or in a folder of it.            *)
(***************************************************************************)
LEMMA BelowHeld ==
  ASSUME NEW t \in Trees, NEW nodes, NEW x \in Below(t, nodes)
  PROVE  x \in Items /\ \E c \in Containers : c \in nodes \cup Below(t, nodes) /\ x \in Kids(t, c)
<1> DEFINE S == {y \in Below(t, nodes) :
                   \E c \in Containers : c \in nodes \cup Below(t, nodes) /\ y \in Kids(t, c)}
<1>1. ASSUME NEW c \in Containers, c \in nodes \cup S PROVE Kids(t, c) \subseteq S
  BY <1>1, BelowClosed
<1> HIDE DEF S
<1>2. Below(t, nodes) \subseteq S
  BY <1>1, BelowLeast
<1> QED
  BY <1>2, TreeShape DEF S

LEMMA BelowNothing ==
  ASSUME NEW t, NEW x, x \in Containers => t.children[x] = <<>>
  PROVE  Below(t, {x}) = {}
<1>1. ASSUME NEW c \in Containers, c \in {x} \cup {} PROVE Kids(t, c) \subseteq {}
  BY <1>1 DEF Kids, ToSet
<1> QED
  BY <1>1, BelowLeast

(***************************************************************************)
(* Equal children, equally far down.                                       *)
(***************************************************************************)
LEMMA BelowSame ==
  ASSUME NEW t \in Trees, NEW u \in Trees, NEW nodes,
         \A c \in Containers : c \in nodes \cup Below(t, nodes) => Kids(u, c) = Kids(t, c)
  PROVE  Below(u, nodes) = Below(t, nodes)
<1>1. Below(u, nodes) \subseteq Below(t, nodes)
  <2>1. ASSUME NEW c \in Containers, c \in nodes \cup Below(t, nodes) PROVE Kids(u, c) \subseteq Below(t, nodes)
    BY <2>1, BelowClosed
  <2> QED
    BY <2>1, BelowLeast
<1>2. Below(t, nodes) \subseteq Below(u, nodes) \cap Below(t, nodes)
  <2> DEFINE S == Below(u, nodes) \cap Below(t, nodes)
  <2>1. ASSUME NEW c \in Containers, c \in nodes \cup S PROVE Kids(t, c) \subseteq S
    <3>1. Kids(t, c) \subseteq Below(t, nodes) /\ Kids(u, c) \subseteq Below(u, nodes)
      BY <2>1, BelowClosed
    <3> QED
      BY <2>1, <3>1
  <2> HIDE DEF S
  <2>2. Below(t, nodes) \subseteq S
    BY <2>1, BelowLeast
  <2> QED
    BY <2>2 DEF S
<1> QED
  BY <1>1, <1>2

(***************************************************************************)
(* Where each item has one place, taking one away takes away what is below *)
(* it, and nothing else.                                                   *)
(***************************************************************************)
Unique(t) ==
  /\ \A c \in Containers : Distinct(t.children[c])
  /\ \A c, d \in Containers : \A x \in Kids(t, c) : x \in Kids(t, d) => c = d

LEMMA ReachTaken ==
  ASSUME NEW t \in Trees, NEW u \in Trees, u.collections = t.collections, Unique(t), NEW x \in Items,
         \A c \in Containers : Kids(u, c) = Kids(t, c) \ {x}
  PROVE  Reachable(u) = Reachable(t) \ ({x} \cup Below(t, {x}))
<1> DEFINE B == {x} \cup Below(t, {x})
           N == t.collections
           S == Reachable(t) \ B
<1>1. \A c \in Containers : c \in B => Kids(t, c) \subseteq B
  BY BelowClosed
<1>2. \A c \in Containers : c \in N \cup Reachable(t) => Kids(t, c) \subseteq Reachable(t)
  BY BelowClosed DEF Reachable
<1>3. \A c \in Containers : c \in N \cup Reachable(u) => Kids(u, c) \subseteq Reachable(u)
  BY BelowClosed DEF Reachable
<1>4. N \cap B = {}
  <2>1. B \subseteq Items
    BY BelowHeld
  <2> QED
    BY <2>1, TreeShape, IdsAreApart DEF Items
<1>5. ASSUME NEW c \in Containers, c \in N \cup S PROVE Kids(u, c) \subseteq S
  <2> SUFFICES ASSUME NEW z \in Kids(t, c), z # x, z \in Below(t, {x}) PROVE FALSE
    BY <1>2, <1>5
  <2>1. PICK d \in Containers : d \in B /\ z \in Kids(t, d)
    BY BelowHeld
  <2>2. d = c
    BY <2>1 DEF Unique
  <2> QED
    BY <1>4, <1>5, <2>1, <2>2
<1> DEFINE T == Reachable(u) \cup B
<1>6. ASSUME NEW c \in Containers, c \in N \cup T PROVE Kids(t, c) \subseteq T
  BY <1>1, <1>3, <1>6
<1> HIDE DEF B, S, T
<1>7. Reachable(u) \subseteq S
  BY <1>5, BelowLeast DEF Reachable
<1>8. Reachable(t) \subseteq T
  BY <1>6, BelowLeast DEF Reachable
<1> QED
  BY <1>7, <1>8 DEF S, B, T

(***************************************************************************)
(* An item put where the tree holds it, and not below itself, brings what  *)
(* is below it, and nothing is lost.                                       *)
(***************************************************************************)
LEMMA ReachPut ==
  ASSUME NEW t \in Trees, NEW u \in Trees, u.collections = t.collections, NEW x \in Items,
         NEW p \in Containers, p \in t.collections \cup Reachable(t), p # x, p \notin Below(t, {x}),
         \A c \in Containers : Kids(u, c) = IF c = p THEN Kids(t, c) \cup {x} ELSE Kids(t, c) \ {x}
  PROVE  Reachable(u) = Reachable(t) \cup {x} \cup Below(t, {x})
<1> DEFINE B == {x} \cup Below(t, {x})
           N == t.collections
<1>1. \A c \in Containers : c \in B => Kids(t, c) \subseteq B
  BY BelowClosed
<1>2. \A c \in Containers : c \in N \cup Reachable(t) => Kids(t, c) \subseteq Reachable(t)
  BY BelowClosed DEF Reachable
<1>3. \A c \in Containers : c \in N \cup Reachable(u) => Kids(u, c) \subseteq Reachable(u)
  BY BelowClosed DEF Reachable
<1>4. Reachable(u) \subseteq Reachable(t) \cup B
  <2> DEFINE T == Reachable(t) \cup B
  <2>1. ASSUME NEW c \in Containers, c \in N \cup T PROVE Kids(u, c) \subseteq T
    BY <1>1, <1>2, <2>1
  <2> HIDE DEF B, T
  <2>2. Reachable(u) \subseteq T
    BY <2>1, BelowLeast DEF Reachable
  <2> QED
    BY <2>2 DEF T
<1>5. Reachable(t) \subseteq Reachable(u) \cup B
  <2> DEFINE T == Reachable(u) \cup B
  <2>1. ASSUME NEW c \in Containers, c \in N \cup T PROVE Kids(t, c) \subseteq T
    BY <1>1, <1>3, <2>1
  <2> HIDE DEF B, T
  <2>2. Reachable(t) \subseteq T
    BY <2>1, BelowLeast DEF Reachable
  <2> QED
    BY <2>2 DEF T
<1>6. x \in Reachable(u)
  <2>1. p \in N \cup Reachable(u)
    BY <1>5
  <2> QED
    BY <1>3, <2>1
<1>7. Reachable(t) \subseteq Reachable(u)
  <2>1. ASSUME NEW c \in Containers, c \in N \cup Reachable(u) PROVE Kids(t, c) \subseteq Reachable(u)
    BY <1>3, <1>6, <2>1
  <2> QED
    BY <2>1, BelowLeast DEF Reachable
<1>8. Below(t, {x}) \subseteq Reachable(u)
  <2>1. ASSUME NEW c \in Containers, c \in {x} \cup Reachable(u) PROVE Kids(t, c) \subseteq Reachable(u)
    BY <1>3, <1>6, <2>1
  <2> QED
    BY <2>1, BelowLeast
<1> QED
  BY <1>4, <1>6, <1>7, <1>8

(***************************************************************************)
(* What is below an item or a collection of the tree is in the tree.       *)
(***************************************************************************)
LEMMA BelowWithin ==
  ASSUME NEW t \in Trees, NEW x \in t.collections \cup Reachable(t)
  PROVE  Below(t, {x}) \subseteq Reachable(t)
<1>1. ASSUME NEW c \in Containers, c \in {x} \cup Reachable(t) PROVE Kids(t, c) \subseteq Reachable(t)
  BY <1>1, BelowClosed DEF Reachable
<1> QED
  BY <1>1, BelowLeast

(***************************************************************************)
(* A collection that goes takes what is below it, and nothing else.        *)
(***************************************************************************)
LEMMA ReachDropped ==
  ASSUME NEW t \in Trees, NEW u \in Trees, Unique(t), NEW k \in t.collections,
         u.collections = t.collections \ {k}, u.children = t.children
  PROVE  Reachable(u) = Reachable(t) \ Below(t, {k})
<1> DEFINE S == Reachable(t) \ Below(t, {k})
           T == Reachable(u) \cup Below(t, {k})
<1>0. t.collections \cap Items = {} /\ \A c : Kids(u, c) = Kids(t, c)
  BY TreeShape, IdsAreApart DEF Items, Kids
<1>1. ASSUME NEW c \in Containers, c \in u.collections \cup S PROVE Kids(t, c) \subseteq S
  <2> SUFFICES ASSUME NEW z \in Kids(t, c), z \in Below(t, {k}) PROVE FALSE
    BY <1>1, BelowClosed DEF Reachable
  <2>1. PICK d \in Containers : d \in {k} \cup Below(t, {k}) /\ z \in Kids(t, d)
    BY BelowHeld
  <2>2. d = c
    BY <2>1 DEF Unique
  <2>3. S \subseteq Items /\ Below(t, {k}) \subseteq Items
    BY BelowHeld DEF Reachable
  <2> QED
    BY <1>0, <1>1, <2>1, <2>2, <2>3
<1>2. ASSUME NEW c \in Containers, c \in t.collections \cup T PROVE Kids(t, c) \subseteq T
  <2>1. c \in u.collections \cup Reachable(u) => Kids(u, c) \subseteq Reachable(u)
    BY BelowClosed DEF Reachable
  <2>2. c \in {k} \cup Below(t, {k}) => Kids(t, c) \subseteq Below(t, {k})
    BY BelowClosed
  <2> QED
    BY <1>0, <1>2, <2>1, <2>2
<1> HIDE DEF S, T
<1>3. Reachable(u) \subseteq S
  BY <1>0, <1>1, BelowLeast DEF Reachable
<1>4. Reachable(t) \subseteq T
  BY <1>2, BelowLeast DEF Reachable
<1> QED
  BY <1>3, <1>4 DEF S, T

-----------------------------------------------------------------------------
(* The tree between operations *)

Sound(t) == t \in Trees /\ Unique(t) /\ Reachable(t) \cap Requests = Documents(t)

Clean(t) == \A c \in Containers : c \notin t.collections \cup Reachable(t) => t.children[c] = <<>>

(***************************************************************************)
(* Why no commit is refused but for a limit: each item has one place, the  *)
(* requests below the collections are those with a document, and ids that  *)
(* were given up have left no items behind that a new owner would inherit. *)
(***************************************************************************)
TreeInv == Sound(tree) /\ Clean(tree) /\ TreeStaysWhole

LEMMA TreeFields ==
  /\ tree.collections = collections /\ tree.children = children
  /\ tree.label = label /\ tree.stored = stored
BY DEF tree

LEMMA SoundIsOwnedOnce ==
  ASSUME NEW t, Sound(t)
  PROVE  OwnedOnce(t)
<1>1. ASSUME NEW c \in Containers, NEW d \in Containers,
             NEW i \in DOMAIN t.children[c], NEW j \in DOMAIN t.children[d], t.children[c][i] = t.children[d][j]
      PROVE  c = d /\ i = j
  <2>1. c = d
    BY <1>1 DEF Sound, Unique, Kids, ToSet
  <2> QED
    BY <1>1, <2>1 DEF Sound, Unique, Distinct
<1>2. t.collections \cup (Reachable(t) \cap Folders) \subseteq Containers
  BY TreeShape DEF Sound, Containers
<1> QED
  BY <1>1, <1>2 DEF OwnedOnce, Sound

LEMMA WrittenFacts ==
  ASSUME NEW t, Sound(t)
  PROVE  Sound(Written(t)) /\ Clean(Written(t)) /\ Reachable(Written(t)) = Reachable(t)
<1> DEFINE w == Written(t)
           rest == t.collections \cup Reachable(t)
           kids == [c \in Containers |-> IF c \in rest THEN t.children[c] ELSE <<>>]
           names == [r \in Requests |-> IF t.stored[r] = None THEN None ELSE t.label[r]]
<1>0. t \in Trees
  BY DEF Sound
<1>a. w = [t EXCEPT !.children = kids, !.label = names]
  BY DEF Written
<1> HIDE DEF w
<1>1. /\ w.collections = t.collections /\ w.stored = t.stored
      /\ w.children = [c \in Containers |-> IF c \in rest THEN t.children[c] ELSE <<>>]
      /\ w.label = [r \in Requests |-> IF t.stored[r] = None THEN None ELSE t.label[r]]
      /\ w = [collections |-> w.collections, children |-> w.children, label |-> w.label, stored |-> w.stored]
  BY <1>0, <1>a DEF Trees
<1>2. w \in Trees
  <2>1. w.children \in [Containers -> Seq(Items)] /\ w.label \in [Requests -> Names \cup {None}]
    BY <1>0, <1>1, TreeShape
  <2> QED
    BY <1>0, <1>1, <2>1, TreeShape DEF Trees
<1>3. Reachable(w) = Reachable(t)
  <2>1. \A c \in Containers : c \in t.collections \cup Below(t, t.collections) => Kids(w, c) = Kids(t, c)
    BY <1>1 DEF Kids, Reachable
  <2> QED
    BY <1>0, <1>1, <1>2, <2>1, BelowSame DEF Reachable
<1>4. Unique(w)
  <2>1. \A c \in Containers : w.children[c] = t.children[c] \/ w.children[c] = <<>>
    BY <1>1
  <2>2. Distinct(<<>>) /\ ToSet(<<>>) = {}
    BY DEF Distinct, ToSet
  <2> QED
    BY <2>1, <2>2 DEF Sound, Unique, Kids
<1>5. Documents(w) = Documents(t)
  BY <1>1 DEF Documents
<1>6. Clean(w)
  BY <1>1, <1>3 DEF Clean
<1> QED
  BY <1>2, <1>3, <1>4, <1>5, <1>6 DEF Sound, w

(***************************************************************************)
(* A commit of a sound tree with all that was not to go keeps the tree     *)
(* whole.                                                                  *)
(***************************************************************************)
LEMMA CommitKeeps ==
  ASSUME NEW t, NEW gone, TreeInv, Sound(t), Reachable(tree) \ gone \subseteq Reachable(t), Removing(t, gone)
  PROVE  TreeInv'
<1>1. OwnedOnce(t)
  BY SoundIsOwnedOnce
<1>2. TreeStaysWhole'
  BY <1>1 DEF Removing, TreeInv, TreeStaysWhole, NeverMangled, NothingIsLost, treeVars
<1>3. CASE ~WithinLimits(t)
  <2>1. tree' = tree
    BY <1>3 DEF Removing, tree, treeVars
  <2> QED
    BY <1>2, <2>1 DEF TreeInv
<1>4. CASE WithinLimits(t)
  <2> DEFINE w == Written(t)
  <2>1. Sound(w) /\ Clean(w)
    BY WrittenFacts
  <2>2. collections' = t.collections /\ children' = w.children /\ label' = w.label /\ stored' = t.stored
    BY <1>1, <1>4 DEF Removing
  <2>a. w.collections = t.collections /\ w.stored = t.stored
    BY DEF Sound, Trees, Written
  <2> HIDE DEF w
  <2>3. tree' = w
    BY <2>1, <2>2, <2>a DEF tree, Sound, Trees
  <2> QED
    BY <1>2, <2>1, <2>3 DEF TreeInv
<1> QED
  BY <1>3, <1>4

LEMMA KidsAreReached ==
  ASSUME NEW t, Sound(t), Clean(t), NEW c \in Containers
  PROVE  Kids(t, c) \subseteq Reachable(t)
<1>1. CASE c \in t.collections \cup Reachable(t)
  BY <1>1, BelowClosed DEF Sound, Reachable
<1>2. CASE c \notin t.collections \cup Reachable(t)
  BY <1>2 DEF Clean, Kids, ToSet
<1> QED
  BY <1>1, <1>2

-----------------------------------------------------------------------------
(* Taking, putting and targets, in the tree as it is *)

LEMMA DetachedFacts ==
  ASSUME Sound(tree), NEW x
  PROVE  /\ Detached(x) \in [Containers -> Seq(Items)]
         /\ \A c \in Containers : Distinct(Detached(x)[c]) /\ ToSet(Detached(x)[c]) = Kids(tree, c) \ {x}
<1>1. ASSUME NEW c \in Containers
      PROVE  /\ Detached(x)[c] = Spliced(children[c], x) /\ Spliced(children[c], x) \in Seq(Items)
             /\ Distinct(Spliced(children[c], x)) /\ ToSet(Spliced(children[c], x)) = Kids(tree, c) \ {x}
  <2>1. children[c] \in Seq(Items) /\ Distinct(children[c])
    BY TreeFields, TreeShape DEF Sound, Unique
  <2>2. Kids(tree, c) = ToSet(children[c])
    BY TreeFields DEF Kids
  <2> QED
    BY <2>1, <2>2, SplicedFacts DEF Detached
<1> QED
  BY <1>1 DEF Detached

PutAt(kids, x, p) ==
  \A c \in Containers :
    /\ Distinct(kids[c])
    /\ ToSet(kids[c]) = IF c = p THEN Kids(tree, c) \cup {x} ELSE Kids(tree, c) \ {x}

LEMMA InsertedAtFacts ==
  ASSUME Sound(tree), NEW x \in Items, NEW p \in Containers, NEW i \in 1 .. Len(Detached(x)[p]) + 1
  PROVE  /\ InsertedAt(x, p, i) \in [Containers -> Seq(Items)]
         /\ PutAt(InsertedAt(x, p, i), x, p)
<1> DEFINE s == Detached(x)[p]
           r == InsertAt(s, i, x)
<1>1. /\ Detached(x) \in [Containers -> Seq(Items)]
      /\ \A c \in Containers : Distinct(Detached(x)[c]) /\ ToSet(Detached(x)[c]) = Kids(tree, c) \ {x}
  BY DetachedFacts
<1>2. s \in Seq(Items) /\ Distinct(s) /\ ToSet(s) = Kids(tree, p) \ {x}
  BY <1>1
<1>3. InsertedAt(x, p, i) = [Detached(x) EXCEPT ![p] = r]
  BY DEF InsertedAt
<1>4. i \in 1 .. Len(s) + 1 /\ x \notin ToSet(s)
  BY <1>2
<1> HIDE DEF s, r
<1>5. r \in Seq(Items) /\ Distinct(r) /\ ToSet(r) = ToSet(s) \cup {x}
  BY <1>2, <1>4, InsertedFacts, SMTT(30) DEF r
<1> QED
  BY <1>1, <1>2, <1>3, <1>5 DEF PutAt

LEMMA TargetFacts ==
  ASSUME Sound(tree), NEW parent, NEW c, IsTarget(parent, c)
  PROVE  /\ TargetItems(parent, c) \in Containers
         /\ TargetItems(parent, c) \in tree.collections \cup Reachable(tree)
         /\ parent = None => TargetItems(parent, c) \in Collections
         /\ parent # None => TargetItems(parent, c) = parent /\ parent \in Folders
         /\ c \in collections /\ c \in Collections
<1>1. c \in tree.collections /\ c \in Containers /\ c \in Collections
  BY TreeFields, TreeShape DEF IsTarget, Sound
<1>2. Below(tree, {c}) \subseteq Reachable(tree)
  BY <1>1, BelowWithin DEF Sound
<1> QED
  BY <1>1, <1>2, TreeFields DEF IsTarget, IsIn, TargetItems, Containers

LEMMA InFacts ==
  ASSUME Sound(tree), NEW x, NEW c, IsIn(x, c)
  PROVE  x \in Reachable(tree) /\ x \in Items
<1>1. c \in tree.collections
  BY TreeFields DEF IsIn
<1>2. x \in Below(tree, {c}) /\ Below(tree, {c}) \subseteq Reachable(tree)
  BY <1>1, BelowWithin DEF IsIn, Sound
<1> QED
  BY <1>2, BelowHeld DEF Sound

(***************************************************************************)
(* What an item put into a target makes of a sound tree.                   *)
(***************************************************************************)
LEMMA PutSound ==
  ASSUME Sound(tree), NEW x \in Items, NEW p \in Containers, NEW i \in 1 .. Len(Detached(x)[p]) + 1,
         p \in tree.collections \cup Reachable(tree), p # x, p \notin Below(tree, {x}),
         NEW u \in Trees, u.collections = collections, u.children = InsertedAt(x, p, i),
         Documents(u) = (Reachable(tree) \cup {x} \cup Below(tree, {x})) \cap Requests
  PROVE  Sound(u) /\ Reachable(tree) \subseteq Reachable(u)
<1>1. \A c \in Containers :
        /\ Distinct(u.children[c])
        /\ Kids(u, c) = IF c = p THEN Kids(tree, c) \cup {x} ELSE Kids(tree, c) \ {x}
  <2>1. PutAt(InsertedAt(x, p, i), x, p)
    BY InsertedAtFacts
  <2>2. \A c : Kids(u, c) = ToSet(InsertedAt(x, p, i)[c])
    BY DEF Kids
  <2> QED
    BY <2>1, <2>2 DEF PutAt
<1>2. Unique(u)
  BY <1>1 DEF Sound, Unique
<1>3. tree \in Trees /\ u.collections = tree.collections
  BY TreeFields DEF Sound
<1>4. Reachable(u) = Reachable(tree) \cup {x} \cup Below(tree, {x})
  BY <1>1, <1>3, ReachPut
<1> QED
  BY <1>2, <1>4 DEF Sound

(***************************************************************************)
(* What an item taken away makes of a sound tree.                          *)
(***************************************************************************)
LEMMA TakenSound ==
  ASSUME Sound(tree), NEW x \in Items, NEW u \in Trees, u.collections = collections, u.children = Detached(x),
         Documents(u) = (Reachable(tree) \ ({x} \cup Below(tree, {x}))) \cap Requests
  PROVE  Sound(u) /\ Reachable(u) = Reachable(tree) \ ({x} \cup Below(tree, {x}))
<1>1. \A c \in Containers : Distinct(u.children[c]) /\ Kids(u, c) = Kids(tree, c) \ {x}
  BY DetachedFacts DEF Kids
<1>2. Unique(u)
  BY <1>1 DEF Sound, Unique
<1>3. tree \in Trees /\ u.collections = tree.collections /\ Unique(tree)
  BY TreeFields DEF Sound
<1>4. Reachable(u) = Reachable(tree) \ ({x} \cup Below(tree, {x}))
  BY <1>1, <1>3, ReachTaken
<1> QED
  BY <1>2, <1>4 DEF Sound
-----------------------------------------------------------------------------
(* The operations *)

LEMMA MoveKeeps ==
  ASSUME TreeInv, NEW x \in Items, NEW from \in Collections, NEW c \in Collections, NEW parent \in Parents,
         MoveItem(x, from, c, parent)
  PROVE  TreeInv'
<1> DEFINE p == TargetItems(parent, c)
<1>i. PICK i \in 1 .. Len(Detached(x)[p]) + 1 : Removing([tree EXCEPT !.children = InsertedAt(x, p, i)], {})
  BY DEF MoveItem, Commit
<1> DEFINE u == [tree EXCEPT !.children = InsertedAt(x, p, i)]
<1>0. Sound(tree)
  BY DEF TreeInv
<1>1. IsIn(x, from) /\ IsTarget(parent, c) /\ ~ContainsItem(x, parent) /\ i \in 1 .. Len(Detached(x)[p]) + 1
      /\ Removing(u, {})
  BY <1>i DEF MoveItem
<1>2. x \in Reachable(tree)
  BY <1>0, <1>1, InFacts
<1>3. /\ p \in Containers /\ p \in tree.collections \cup Reachable(tree)
      /\ parent = None => p \in Collections
      /\ parent # None => p = parent
  BY <1>0, <1>1, TargetFacts
<1>4. p # x /\ p \notin Below(tree, {x})
  <2>1. Below(tree, {x}) \subseteq Items
    BY <1>0, BelowHeld DEF Sound
  <2>2. CASE parent = None
    BY <1>3, <2>1, <2>2, IdsAreApart DEF Items
  <2>3. CASE parent # None
    BY <1>1, <1>3, <2>3 DEF ContainsItem
  <2> QED
    BY <2>2, <2>3
<1> HIDE DEF p
<1>5. InsertedAt(x, p, i) \in [Containers -> Seq(Items)]
  BY <1>0, <1>1, <1>3, InsertedAtFacts
<1>6. /\ u \in Trees /\ u.collections = collections /\ u.children = InsertedAt(x, p, i) /\ u.stored = stored
  BY <1>0, <1>5, TreeFields DEF Sound, Trees
<1> HIDE DEF u
<1>7. Documents(u) = Documents(tree)
  BY <1>6, TreeFields DEF Documents
<1>8. Below(tree, {x}) \subseteq Reachable(tree)
  BY <1>0, <1>2, BelowWithin DEF Sound
<1>9. Documents(u) = (Reachable(tree) \cup {x} \cup Below(tree, {x})) \cap Requests
  BY <1>0, <1>2, <1>7, <1>8 DEF Sound
<1>10. Sound(u) /\ Reachable(tree) \ {} \subseteq Reachable(u)
  BY <1>0, <1>1, <1>3, <1>4, <1>6, <1>9, PutSound
<1> QED
  BY <1>1, <1>10, CommitKeeps

LEMMA AddFolderKeeps ==
  ASSUME TreeInv, NEW f \in Folders, NEW c \in Collections, NEW parent \in Parents,
         AddFolder(f, c, parent)
  PROVE  TreeInv'
<1> DEFINE p == TargetItems(parent, c)
<1>i. PICK i \in 1 .. Len(children[p]) + 1 : Removing([tree EXCEPT !.children = InsertedAt(f, p, i)], {})
  BY DEF AddFolder, Commit
<1> DEFINE u == [tree EXCEPT !.children = InsertedAt(f, p, i)]
<1>0. Sound(tree) /\ Clean(tree) /\ f \in Items /\ f \in Containers
  BY DEF TreeInv, Items, Containers
<1>1. f \notin Reachable(tree) /\ IsTarget(parent, c) /\ i \in 1 .. Len(children[p]) + 1 /\ Removing(u, {})
  BY <1>i DEF AddFolder, FreshFolder
<1>2. p \in Containers /\ p \in tree.collections \cup Reachable(tree) /\ tree.collections \subseteq Collections
  BY <1>0, <1>1, TargetFacts, TreeShape DEF Sound
<1>3. f \notin tree.collections
  BY <1>2, IdsAreApart
<1>4. Below(tree, {f}) = {}
  BY <1>0, <1>1, <1>3, BelowNothing DEF Clean
<1> HIDE DEF p
<1>5. Detached(f)[p] = children[p]
  <2>1. f \notin ToSet(children[p])
    BY <1>0, <1>1, <1>2, KidsAreReached, TreeFields DEF Kids
  <2> QED
    BY <1>2, <2>1 DEF Detached, Spliced
<1>6. i \in 1 .. Len(Detached(f)[p]) + 1
  BY <1>1, <1>5
<1>7. InsertedAt(f, p, i) \in [Containers -> Seq(Items)]
  BY <1>0, <1>2, <1>6, InsertedAtFacts
<1>8. /\ u \in Trees /\ u.collections = collections /\ u.children = InsertedAt(f, p, i) /\ u.stored = stored
  BY <1>0, <1>7, TreeFields DEF Sound, Trees
<1> HIDE DEF u
<1>9. Documents(u) = Documents(tree) /\ f \notin Requests
  BY <1>8, TreeFields, IdsAreApart DEF Documents
<1>10. Documents(u) = (Reachable(tree) \cup {f} \cup Below(tree, {f})) \cap Requests
  BY <1>0, <1>4, <1>9 DEF Sound
<1>11. Sound(u) /\ Reachable(tree) \ {} \subseteq Reachable(u)
  BY <1>0, <1>1, <1>2, <1>3, <1>4, <1>6, <1>8, <1>10, PutSound
<1> QED
  BY <1>1, <1>11, CommitKeeps

LEMMA SaveRequestKeeps ==
  ASSUME TreeInv, NEW r \in Requests, NEW name \in Names, NEW c \in Collections, NEW parent \in Parents,
         SaveRequest(r, name, c, parent)
  PROVE  TreeInv'
<1> DEFINE p == TargetItems(parent, c)
           kids == IF Stays(r, c, parent) THEN children ELSE Appended(r, p)
           docs == [stored EXCEPT ![r] = name]
           u == [tree EXCEPT !.children = kids, !.label = Named(r, name), !.stored = docs]
<1>0. Sound(tree) /\ Clean(tree) /\ r \in Items /\ r \notin Containers /\ name # None
  BY IdsAreApart DEF TreeInv, Items, Containers, None
<1>1. IsTarget(parent, c) /\ Removing(u, {})
  BY TreeFields DEF SaveRequest, Commit
<1>2. p \in Containers /\ p \in tree.collections \cup Reachable(tree)
  BY <1>0, <1>1, TargetFacts
<1>3. Below(tree, {r}) = {}
  BY <1>0, BelowNothing
<1> HIDE DEF p
<1> DEFINE i == Len(Detached(r)[p]) + 1
<1>4. Appended(r, p) = InsertedAt(r, p, i) /\ i \in 1 .. i
  <2>1. Detached(r)[p] \in Seq(Items)
    BY <1>0, <1>2, DetachedFacts
  <2> QED
    BY <2>1 DEF Appended
<1> HIDE DEF i
<1>5. Appended(r, p) \in [Containers -> Seq(Items)]
  BY <1>0, <1>2, <1>4, InsertedAtFacts DEF i
<1>6. kids \in [Containers -> Seq(Items)]
  BY <1>0, <1>5, TreeFields, TreeShape DEF Sound
<1>7. Named(r, name) \in [Requests -> Names \cup {None}] /\ docs \in [Requests -> Names \cup {None}]
  BY <1>0, TreeFields, TreeShape DEF Named, Sound
<1>8. docs[r] = name /\ \A q \in Requests : q # r => docs[q] = stored[q]
  BY <1>0, TreeFields, TreeShape DEF Sound
<1> HIDE DEF kids, docs
<1>9. u \in Trees /\ u.collections = collections /\ u.children = kids /\ u.stored = docs
  BY <1>0, <1>6, <1>7, TreeFields DEF Sound, Trees
<1> HIDE DEF u
<1>10. Documents(u) = Documents(tree) \cup {r}
  BY <1>0, <1>8, <1>9, TreeFields DEF Documents
<1>11. CASE Stays(r, c, parent)
  <2>1. r \in Reachable(tree)
    BY <1>0, <1>11, InFacts DEF Stays
  <2>2. \A d : Kids(u, d) = Kids(tree, d)
    BY <1>9, <1>11, TreeFields DEF Kids, kids
  <2>3. Reachable(u) = Reachable(tree)
    BY <1>0, <1>9, <2>2, TreeFields, BelowSame DEF Reachable, Sound
  <2>4. Unique(u)
    BY <1>0, <1>9, <1>11, <2>2, TreeFields DEF Sound, Unique, kids
  <2>5. Sound(u) /\ Reachable(tree) \ {} \subseteq Reachable(u)
    BY <1>0, <1>9, <1>10, <2>1, <2>3, <2>4 DEF Sound
  <2> QED
    BY <1>1, <2>5, CommitKeeps
<1>12. CASE ~Stays(r, c, parent)
  <2>1. u.children = InsertedAt(r, p, i)
    BY <1>4, <1>9, <1>12 DEF kids
  <2>2. Documents(u) = (Reachable(tree) \cup {r} \cup Below(tree, {r})) \cap Requests
    BY <1>0, <1>3, <1>10 DEF Sound
  <2>3. i \in 1 .. Len(Detached(r)[p]) + 1 /\ p # r /\ p \notin Below(tree, {r})
    BY <1>0, <1>2, <1>3, <1>4 DEF i
  <2>4. Sound(u) /\ Reachable(tree) \ {} \subseteq Reachable(u)
    BY <1>0, <1>2, <1>9, <2>1, <2>2, <2>3, PutSound
  <2> QED
    BY <1>1, <2>4, CommitKeeps
<1> QED
  BY <1>11, <1>12

LEMMA DeleteRequestKeeps ==
  ASSUME TreeInv, NEW r \in Requests, NEW c \in Collections, DeleteRequest(r, c)
  PROVE  TreeInv'
<1> DEFINE docs == [stored EXCEPT ![r] = None]
           u == [tree EXCEPT !.children = Detached(r), !.stored = docs]
<1>0. Sound(tree) /\ r \in Items /\ r \notin Containers
  BY IdsAreApart DEF TreeInv, Items, Containers
<1>1. r \in Reachable(tree) /\ Removing(u, {r})
  BY <1>0, TreeFields, InFacts DEF DeleteRequest
<1>2. Below(tree, {r}) = {}
  BY <1>0, BelowNothing
<1>3. docs \in [Requests -> Names \cup {None}] /\ docs[r] = None /\ \A q \in Requests : q # r => docs[q] = stored[q]
  BY <1>0, TreeFields, TreeShape DEF Sound
<1> HIDE DEF docs
<1>4. Detached(r) \in [Containers -> Seq(Items)]
  BY <1>0, DetachedFacts
<1>5. u \in Trees /\ u.collections = collections /\ u.children = Detached(r) /\ u.stored = docs
  BY <1>0, <1>3, <1>4, TreeFields DEF Sound, Trees
<1> HIDE DEF u
<1>6. Documents(u) = (Reachable(tree) \ ({r} \cup Below(tree, {r}))) \cap Requests
  <2>1. Documents(u) = Documents(tree) \ {r}
    BY <1>3, <1>5, TreeFields DEF Documents
  <2> QED
    BY <1>0, <1>2, <2>1 DEF Sound
<1>7. Sound(u) /\ Reachable(tree) \ {r} \subseteq Reachable(u)
  BY <1>0, <1>2, <1>5, <1>6, TakenSound
<1> QED
  BY <1>1, <1>7, CommitKeeps

LEMMA WithoutRequestsFacts ==
  ASSUME Sound(tree), NEW top
  PROVE  /\ WithoutRequests(top) \in [Requests -> Names \cup {None}]
         /\ \A q \in Requests : WithoutRequests(top)[q] = IF q \in Below(tree, {top}) THEN None ELSE stored[q]
BY TreeFields, TreeShape DEF WithoutRequests, Sound

LEMMA DeleteFolderKeeps ==
  ASSUME TreeInv, NEW f \in Folders, NEW c \in Collections, DeleteFolder(f, c)
  PROVE  TreeInv'
<1> DEFINE u == [tree EXCEPT !.children = Detached(f), !.stored = WithoutRequests(f)]
           gone == {f} \cup Below(tree, {f})
<1>0. Sound(tree) /\ f \in Items /\ f \notin Requests
  BY IdsAreApart DEF TreeInv, Items
<1>1. Removing(u, gone)
  BY TreeFields DEF DeleteFolder
<1>2. Detached(f) \in [Containers -> Seq(Items)]
  BY <1>0, DetachedFacts
<1>3. /\ WithoutRequests(f) \in [Requests -> Names \cup {None}]
      /\ \A q \in Requests : WithoutRequests(f)[q] = IF q \in Below(tree, {f}) THEN None ELSE stored[q]
  BY <1>0, WithoutRequestsFacts
<1>4. u \in Trees /\ u.collections = collections /\ u.children = Detached(f) /\ u.stored = WithoutRequests(f)
  BY <1>0, <1>2, <1>3, TreeFields DEF Sound, Trees
<1> HIDE DEF u
<1>5. Documents(u) = (Reachable(tree) \ ({f} \cup Below(tree, {f}))) \cap Requests
  <2>1. Documents(u) = Documents(tree) \ Below(tree, {f})
    BY <1>3, <1>4, TreeFields DEF Documents
  <2> QED
    BY <1>0, <2>1 DEF Sound
<1>6. Sound(u) /\ Reachable(tree) \ gone \subseteq Reachable(u)
  BY <1>0, <1>4, <1>5, TakenSound
<1> QED
  BY <1>1, <1>6, CommitKeeps

LEMMA DeleteCollectionKeeps ==
  ASSUME TreeInv, NEW c \in Collections, DeleteCollection(c)
  PROVE  TreeInv'
<1> DEFINE u == [tree EXCEPT !.collections = collections \ {c}, !.stored = WithoutRequests(c)]
           gone == Below(tree, {c})
<1>0. Sound(tree)
  BY DEF TreeInv
<1>1. c \in tree.collections /\ Removing(u, gone)
  BY TreeFields DEF DeleteCollection
<1>3. /\ WithoutRequests(c) \in [Requests -> Names \cup {None}]
      /\ \A q \in Requests : WithoutRequests(c)[q] = IF q \in Below(tree, {c}) THEN None ELSE stored[q]
  BY <1>0, WithoutRequestsFacts
<1>4. /\ u \in Trees /\ u.collections = tree.collections \ {c} /\ u.children = tree.children
      /\ u.stored = WithoutRequests(c)
  BY <1>0, <1>3, TreeFields DEF Sound, Trees
<1> HIDE DEF u
<1>5. Reachable(u) = Reachable(tree) \ gone
  BY <1>0, <1>1, <1>4, ReachDropped DEF Sound
<1>6. Documents(u) = Documents(tree) \ gone
  BY <1>3, <1>4, TreeFields DEF Documents
<1>7. Unique(u)
  BY <1>0, <1>4 DEF Sound, Unique, Kids
<1>8. Sound(u) /\ Reachable(tree) \ gone \subseteq Reachable(u)
  BY <1>0, <1>4, <1>5, <1>6, <1>7 DEF Sound
<1> QED
  BY <1>1, <1>8, CommitKeeps

LEMMA CreateCollectionKeeps ==
  ASSUME TreeInv, NEW c \in Collections, CreateCollection(c)
  PROVE  TreeInv'
<1> DEFINE u == [tree EXCEPT !.collections = collections \cup {c}]
<1>0. Sound(tree) /\ Clean(tree)
  BY DEF TreeInv
<1>1. c \notin tree.collections /\ c \in Containers /\ Removing(u, {})
  BY TreeFields DEF CreateCollection, Commit, Containers
<1>2. /\ u \in Trees /\ u.collections = tree.collections \cup {c} /\ u.children = tree.children
      /\ u.stored = tree.stored
  BY <1>0, TreeFields DEF Sound, Trees
<1> HIDE DEF u
<1>3. Kids(tree, c) = {} /\ \A d : Kids(u, d) = Kids(tree, d)
  <2>1. Reachable(tree) \subseteq Items
    BY <1>0, BelowHeld DEF Sound, Reachable
  <2>2. c \notin Reachable(tree)
    BY <2>1, IdsAreApart DEF Items
  <2> QED
    BY <1>0, <1>1, <1>2, <2>2 DEF Clean, Kids, ToSet
<1>4. Reachable(u) \subseteq Reachable(tree)
  <2>1. ASSUME NEW d \in Containers, d \in u.collections \cup Reachable(tree) PROVE Kids(u, d) \subseteq Reachable(tree)
    BY <1>0, <1>2, <1>3, <2>1, BelowClosed DEF Reachable, Sound
  <2> QED
    BY <2>1, BelowLeast DEF Reachable
<1>5. Reachable(tree) \subseteq Reachable(u)
  <2>1. ASSUME NEW d \in Containers, d \in tree.collections \cup Reachable(u) PROVE Kids(tree, d) \subseteq Reachable(u)
    BY <1>2, <1>3, <2>1, BelowClosed DEF Reachable
  <2> QED
    BY <2>1, BelowLeast DEF Reachable
<1>6. Documents(u) = Documents(tree) /\ Unique(u)
  BY <1>0, <1>2, <1>3 DEF Documents, Sound, Unique
<1>7. Sound(u) /\ Reachable(tree) \ {} \subseteq Reachable(u)
  BY <1>0, <1>2, <1>4, <1>5, <1>6 DEF Sound
<1> QED
  BY <1>1, <1>7, CommitKeeps

LEMMA SingleFacts ==
  ASSUME NEW x
  PROVE  ToSet(<<x>>) = {x} /\ Distinct(<<x>>)
<1>1. DOMAIN <<x>> = {1} /\ <<x>>[1] = x
  OBVIOUS
<1> HIDE DEF Distinct
<1>2. \A s : DOMAIN s = {1} => ToSet(s) = {s[1]} /\ Distinct(s)
  BY DEF ToSet, Distinct
<1> QED
  BY <1>1, <1>2

LEMMA ImportCollectionKeeps ==
  ASSUME TreeInv, NEW c \in Collections, NEW f \in Folders, NEW r \in Requests, NEW name \in Names,
         ImportCollection(c, f, r, name)
  PROVE  TreeInv'
<1> DEFINE kids == [children EXCEPT ![c] = <<f>>, ![f] = <<r>>]
           names == [label EXCEPT ![r] = name]
           docs == [stored EXCEPT ![r] = name]
           u == [tree EXCEPT !.collections = collections \cup {c}, !.children = kids, !.label = names, !.stored = docs]
<1>0. /\ Sound(tree) /\ Clean(tree) /\ c \in Containers /\ f \in Containers /\ c # f /\ f # r /\ name # None
      /\ f \in Items /\ r \in Items /\ f \notin Requests
  BY IdsAreApart DEF TreeInv, Items, Containers, None
<1>1. c \notin tree.collections /\ f \notin Reachable(tree) /\ r \notin Documents(tree) /\ Removing(u, {})
  BY TreeFields DEF ImportCollection, Commit, Unused, FreshFolder, FreshRequest
<1>2. r \notin Reachable(tree)
  BY <1>0, <1>1 DEF Sound
<1>3. Kids(tree, c) = {} /\ Kids(tree, f) = {}
  <2>1. Reachable(tree) \subseteq Items /\ tree.collections \subseteq Collections
    BY <1>0, BelowHeld, TreeShape DEF Sound, Reachable
  <2>2. c \notin Reachable(tree) /\ f \notin tree.collections
    BY <2>1, IdsAreApart DEF Items
  <2> QED
    BY <1>0, <1>1, <2>2 DEF Clean, Kids, ToSet
<1>4. /\ kids \in [Containers -> Seq(Items)] /\ kids[c] = <<f>> /\ kids[f] = <<r>>
      /\ \A d \in Containers : d \notin {c, f} => kids[d] = children[d]
  <2>1. children \in [Containers -> Seq(Items)]
    BY <1>0, TreeFields, TreeShape DEF Sound
  <2> DEFINE a == <<f>>
             b == <<r>>
  <2>2. a \in Seq(Items) /\ b \in Seq(Items)
    BY <1>0
  <2>3. kids = [[children EXCEPT ![c] = a] EXCEPT ![f] = b]
    OBVIOUS
  <2> HIDE DEF kids, a, b
  <2>4. /\ kids \in [Containers -> Seq(Items)] /\ kids[c] = a /\ kids[f] = b
        /\ \A d \in Containers : d \notin {c, f} => kids[d] = children[d]
    BY <1>0, <2>1, <2>2, <2>3
  <2> QED
    BY <2>4 DEF a, b
<1>5. /\ names \in [Requests -> Names \cup {None}] /\ docs \in [Requests -> Names \cup {None}]
      /\ docs[r] = name /\ \A q \in Requests : q # r => docs[q] = stored[q]
  BY <1>0, TreeFields, TreeShape DEF Sound
<1> HIDE DEF kids, names, docs
<1>6. /\ u \in Trees /\ u.collections = tree.collections \cup {c} /\ u.children = kids /\ u.stored = docs
  BY <1>0, <1>4, <1>5, TreeFields DEF Sound, Trees
<1> HIDE DEF u
<1>7. \A d \in Containers : Kids(u, d) = IF d = c THEN {f} ELSE IF d = f THEN {r} ELSE Kids(tree, d)
  <2>1. ToSet(<<f>>) = {f} /\ ToSet(<<r>>) = {r}
    BY SingleFacts
  <2> QED
    BY <1>0, <1>4, <1>6, <2>1, TreeFields DEF Kids
<1>8. Unique(u)
  <2>1. \A d \in Containers : Distinct(u.children[d])
    <3>1. Distinct(<<f>>) /\ Distinct(<<r>>)
      BY SingleFacts
    <3> QED
      BY <1>0, <1>4, <1>6, <3>1, TreeFields DEF Sound, Unique
  <2>2. \A d \in Containers : f \notin Kids(tree, d) /\ r \notin Kids(tree, d)
    BY <1>0, <1>1, <1>2, KidsAreReached
  <2> QED
    BY <1>0, <1>7, <2>1, <2>2 DEF Sound, Unique
<1>9. Reachable(u) \subseteq Reachable(tree) \cup {f, r}
  <2> DEFINE S == Reachable(tree) \cup {f, r}
  <2>1. ASSUME NEW d \in Containers, d \in u.collections \cup S PROVE Kids(u, d) \subseteq S
    BY <1>0, <1>7, KidsAreReached
  <2> HIDE DEF S
  <2>2. Reachable(u) \subseteq S
    BY <2>1, BelowLeast DEF Reachable
  <2> QED
    BY <2>2 DEF S
<1>10. \A d \in Containers : d \in u.collections \cup Reachable(u) => Kids(u, d) \subseteq Reachable(u)
  BY <1>6, BelowClosed DEF Reachable
<1>11. Reachable(tree) \subseteq Reachable(u)
  <2>1. ASSUME NEW d \in Containers, d \in tree.collections \cup Reachable(u) PROVE Kids(tree, d) \subseteq Reachable(u)
    BY <1>3, <1>6, <1>7, <1>10, <2>1
  <2> QED
    BY <2>1, BelowLeast DEF Reachable
<1>12. f \in Reachable(u) /\ r \in Reachable(u)
  <2>1. f \in Reachable(u)
    BY <1>0, <1>6, <1>7, <1>10
  <2> QED
    BY <1>0, <1>7, <1>10, <2>1
<1>13. Documents(u) = Documents(tree) \cup {r}
  BY <1>0, <1>5, <1>6, TreeFields DEF Documents
<1>14. Sound(u) /\ Reachable(tree) \ {} \subseteq Reachable(u)
  BY <1>0, <1>6, <1>8, <1>9, <1>11, <1>12, <1>13 DEF Sound
<1> QED
  BY <1>1, <1>14, CommitKeeps

(***************************************************************************)
(* Giving each item of a sequence another id.                              *)
(***************************************************************************)
Renamed(s, id) == [i \in DOMAIN s |-> id[s[i]]]

Images(S, id) == {id[x] : x \in S}

LEMMA CopiedFacts ==
  ASSUME NEW X, NEW s \in Seq(X), Distinct(s), NEW id, \A x \in ToSet(s) : id[x] \in X,
         \A x, y \in ToSet(s) : id[x] = id[y] => x = y
  PROVE  /\ Renamed(s, id) \in Seq(X) /\ Distinct(Renamed(s, id))
         /\ ToSet(Renamed(s, id)) = Images(ToSet(s), id)
<1>1. DOMAIN s = 1 .. Len(s) /\ Len(s) \in Nat
  OBVIOUS
<1>2. \A i \in DOMAIN s : s[i] \in ToSet(s)
  BY DEF ToSet
<1>3. Renamed(s, id) \in Seq(X)
  BY <1>1, <1>2 DEF Renamed
<1>4. Distinct(Renamed(s, id))
  BY <1>2 DEF Distinct, Renamed
<1>5. ToSet(Renamed(s, id)) = Images(ToSet(s), id)
  BY DEF ToSet, Renamed, Images
<1> QED
  BY <1>3, <1>4, <1>5

LEMMA DuplicateCollectionKeeps ==
  ASSUME TreeInv, NEW c \in Collections, NEW copy \in Collections, DuplicateCollection(c, copy)
  PROVE  TreeInv'
<1> DEFINE items == Below(tree, {c})
           Duplicated(id) ==
             LET Original(x) == CHOOSE y \in items : id[y] = x
                 Copied(s) == Renamed(s, id)
                 copies == {id[x] : x \in items}
             IN [collections |-> collections \cup {copy},
                 children |-> [d \in Containers |->
                   IF d = copy THEN Copied(children[c])
                   ELSE IF d \in copies THEN Copied(children[Original(d)]) ELSE children[d]],
                 label |-> [r \in Requests |-> IF r \in copies THEN stored[Original(r)] ELSE label[r]],
                 stored |-> [r \in Requests |-> IF r \in copies THEN stored[Original(r)] ELSE stored[r]]]
<1>i. PICK id \in FreshIds(items) : Removing(Duplicated(id), {})
  BY DEF DuplicateCollection, Commit, Renamed
<1> HIDE DEF Duplicated
<1> DEFINE Original(x) == CHOOSE y \in items : id[y] = x
           Copied(s) == Renamed(s, id)
           copies == {id[x] : x \in items}
           kids == [d \in Containers |->
                      IF d = copy THEN Copied(children[c])
                      ELSE IF d \in copies THEN Copied(children[Original(d)]) ELSE children[d]]
           names == [r \in Requests |-> IF r \in copies THEN stored[Original(r)] ELSE label[r]]
           docs == [r \in Requests |-> IF r \in copies THEN stored[Original(r)] ELSE stored[r]]
           u == [collections |-> collections \cup {copy}, children |-> kids, label |-> names, stored |-> docs]
<1>0. Sound(tree) /\ Clean(tree) /\ tree \in Trees
  BY DEF TreeInv, Sound
<1>f. \A x \in items : id[x] \in Items /\ (FreshFolder(id[x]) \/ FreshRequest(id[x])) /\ (x \in Folders <=> id[x] \in Folders)
  BY DEF FreshIds
<1>1. /\ c \in tree.collections /\ copy \notin tree.collections /\ Removing(u, {})
      /\ \A x \in items : IF x \in Folders THEN id[x] \in Folders /\ id[x] \notin Reachable(tree)
                          ELSE id[x] \in Requests /\ id[x] \notin Documents(tree)
      /\ \A x, y \in items : id[x] = id[y] => x = y
  <2>1. Removing(u, {})
    BY <1>i DEF Duplicated
  <2>2. c \in tree.collections /\ copy \notin tree.collections
    BY TreeFields DEF DuplicateCollection
  <2>3. \A x \in items : IF x \in Folders THEN id[x] \in Folders /\ id[x] \notin Reachable(tree)
                         ELSE id[x] \in Requests /\ id[x] \notin Documents(tree)
    BY <1>f, IdsAreApart DEF FreshFolder, FreshRequest
  <2>4. \A x, y \in items : id[x] = id[y] => x = y
    BY DEF FreshIds
  <2> QED
    BY <2>1, <2>2, <2>3, <2>4
<1>2. /\ items \subseteq Reachable(tree) /\ items \subseteq Items /\ Reachable(tree) \subseteq Items
      /\ Reachable(tree) \cap Requests = Documents(tree)
  BY <1>0, <1>1, BelowWithin, BelowHeld DEF Sound, Reachable
<1>3. \A x \in items : id[x] \in Items /\ id[x] \notin Reachable(tree) /\ (x \in Folders <=> id[x] \in Folders)
  BY <1>1, <1>2, IdsAreApart DEF Items
<1>a. \A d \in Containers : d \in {c} \cup items => Kids(tree, d) \subseteq items
  BY <1>0, BelowClosed
<1>u. u \in [collections : {collections \cup {copy}}, children : {kids}, label : {names}, stored : {docs}]
  OBVIOUS
<1> HIDE DEF items
<1>4. \A x \in items : id[x] \in copies /\ Original(id[x]) = x
  BY <1>1
<1>5. \A d \in copies : Original(d) \in items /\ id[Original(d)] = d
  BY <1>4
<1> HIDE DEF Original
<1>6. copies \subseteq Items /\ copies \cap Reachable(tree) = {} /\ copies \cap Collections = {}
  BY <1>3, IdsAreApart DEF Items
<1> DEFINE New(d) == d \in Containers /\ (d = copy \/ d \in copies)
           Source(d) == IF d = copy THEN c ELSE Original(d)
<1>7. ASSUME NEW d, New(d)
      PROVE  /\ Source(d) \in Containers /\ Source(d) \in {c} \cup items
             /\ Kids(tree, Source(d)) \subseteq items /\ Kids(tree, d) = {}
  <2>1. Source(d) \in Containers /\ Source(d) \in {c} \cup items
    BY <1>2, <1>3, <1>5, <1>6, <1>7, IdsAreApart DEF Items, Containers
  <2>2. d \notin tree.collections \cup Reachable(tree)
    <3>1. tree.collections \subseteq Collections /\ copy \notin Reachable(tree)
      BY <1>0, <1>2, TreeShape, IdsAreApart DEF Items
    <3> QED
      BY <1>1, <1>6, <1>7, <3>1
  <2>3. Kids(tree, d) = {}
    BY <1>0, <1>7, <2>2 DEF Clean, Kids, ToSet
  <2> QED
    BY <1>a, <2>1, <2>3
<1>8. ASSUME NEW d, NEW e, New(d), New(e), Source(d) = Source(e) PROVE d = e
  <2>1. c \notin items
    BY <1>2, IdsAreApart DEF Items
  <2> QED
    BY <1>5, <1>8, <2>1
<1> HIDE DEF copies
<1>9. ASSUME NEW d \in Containers
      PROVE  /\ kids[d] \in Seq(Items) /\ Distinct(kids[d])
             /\ ToSet(kids[d]) = IF New(d) THEN {id[x] : x \in Kids(tree, Source(d))} ELSE Kids(tree, d)
  <2>1. \A k \in Containers : children[k] \in Seq(Items) /\ Distinct(children[k]) /\ Kids(tree, k) = ToSet(children[k])
    BY <1>0, TreeFields, TreeShape DEF Sound, Unique, Kids
  <2>2. CASE New(d)
    <3>1. kids[d] = Copied(children[Source(d)])
      BY <2>2
    <3> DEFINE s == children[Source(d)]
    <3>2. s \in Seq(Items) /\ Distinct(s) /\ ToSet(s) = Kids(tree, Source(d)) /\ ToSet(s) \subseteq items
      BY <1>7, <2>1, <2>2
    <3> HIDE DEF s, Source
    <3>3. (\A x \in ToSet(s) : id[x] \in Items) /\ \A x, y \in ToSet(s) : id[x] = id[y] => x = y
      BY <1>1, <1>3, <3>2
    <3>4. Copied(s) \in Seq(Items) /\ Distinct(Copied(s)) /\ ToSet(Copied(s)) = Images(ToSet(s), id)
      BY <3>2, <3>3, CopiedFacts
    <3>5. kids[d] = Copied(s)
      BY <3>1 DEF s
    <3> HIDE DEF kids, New
    <3> QED
      BY <2>2, <3>2, <3>4, <3>5 DEF Images
  <2>3. CASE ~New(d)
    <3>1. kids[d] = children[d]
      BY <2>3
    <3> HIDE DEF kids
    <3> QED
      BY <2>1, <2>3, <3>1
  <2> QED
    BY <2>2, <2>3
<1>10. /\ names \in [Requests -> Names \cup {None}] /\ docs \in [Requests -> Names \cup {None}]
       /\ \A r \in Requests : docs[r] # None <=> r \in copies \/ r \in Documents(tree)
  <2>1. stored \in [Requests -> Names \cup {None}] /\ label \in [Requests -> Names \cup {None}]
    BY <1>0, TreeFields, TreeShape
  <2>2. ASSUME NEW r \in Requests, r \in copies
        PROVE  Original(r) \in Requests /\ stored[Original(r)] # None
    <3>1. Original(r) \in items /\ id[Original(r)] = r /\ r \notin Folders
      BY <1>5, <2>2, IdsAreApart
    <3>2. Original(r) \in Requests /\ Original(r) \in Documents(tree)
      BY <1>2, <1>3, <3>1 DEF Items
    <3> QED
      BY <3>2, TreeFields DEF Documents
  <2>3. \A r \in Requests : stored[r] # None <=> r \in Documents(tree)
    BY TreeFields DEF Documents
  <2> QED
    BY <2>1, <2>2, <2>3
<1>11. kids \in [Containers -> Seq(Items)]
  BY <1>9
<1> HIDE DEF kids, names, docs, Source, New
<1>12. /\ u \in Trees /\ u.collections = tree.collections \cup {copy} /\ u.children = kids /\ u.stored = docs
  BY <1>0, <1>10, <1>11, TreeFields DEF Trees
<1> HIDE DEF u
<1>13. \A d \in Containers :
         Kids(u, d) = IF New(d) THEN {id[x] : x \in Kids(tree, Source(d))} ELSE Kids(tree, d)
  BY <1>9, <1>12 DEF Kids
<1>14. Unique(u)
  <2>1. ASSUME NEW d \in Containers, NEW e \in Containers, NEW x \in Kids(u, d), x \in Kids(u, e) PROVE d = e
    <3>1. CASE New(d) /\ New(e)
      <4>1. PICK y \in Kids(tree, Source(d)) : x = id[y]
        BY <1>13, <3>1, <2>1
      <4>2. PICK z \in Kids(tree, Source(e)) : x = id[z]
        BY <1>13, <3>1, <2>1
      <4>3. y = z
        BY <1>1, <1>7, <3>1, <4>1, <4>2
      <4>4. Source(d) = Source(e)
        BY <1>0, <1>7, <3>1, <4>3 DEF Sound, Unique
      <4> QED
        BY <1>8, <3>1, <4>4
    <3>2. ASSUME NEW k \in Containers, NEW l \in Containers, New(k), ~New(l), x \in Kids(u, k), x \in Kids(u, l)
          PROVE  FALSE
      <4>1. x \in Reachable(tree)
        BY <1>0, <1>13, <3>2, KidsAreReached
      <4>2. PICK y \in Kids(tree, Source(k)) : x = id[y]
        BY <1>13, <3>2
      <4> QED
        BY <1>3, <1>7, <3>2, <4>1, <4>2
    <3>3. CASE ~New(d) /\ ~New(e)
      BY <1>0, <1>13, <2>1, <3>3 DEF Sound, Unique
    <3> QED
      BY <2>1, <3>1, <3>2, <3>3
  <2> QED
    BY <1>9, <1>12, <2>1 DEF Unique
<1>15. \A d \in Containers : d \in u.collections \cup Reachable(u) => Kids(u, d) \subseteq Reachable(u)
  BY <1>12, BelowClosed DEF Reachable
<1>16. Reachable(u) \subseteq Reachable(tree) \cup copies
  <2> DEFINE S == Reachable(tree) \cup copies
  <2>1. ASSUME NEW d \in Containers, d \in u.collections \cup S PROVE Kids(u, d) \subseteq S
    BY <1>0, <1>4, <1>7, <1>13, KidsAreReached
  <2> HIDE DEF S
  <2>2. Reachable(u) \subseteq S
    BY <2>1, BelowLeast DEF Reachable
  <2> QED
    BY <2>2 DEF S
<1>17. Reachable(tree) \subseteq Reachable(u)
  <2>1. ASSUME NEW d \in Containers, d \in tree.collections \cup Reachable(u) PROVE Kids(tree, d) \subseteq Reachable(u)
    BY <1>7, <1>12, <1>13, <1>15, <2>1
  <2> QED
    BY <2>1, BelowLeast DEF Reachable
<1>18. copies \subseteq Reachable(u)
  <2> DEFINE S == {x \in items : id[x] \in Reachable(u)}
  <2>1. ASSUME NEW d \in Containers, d \in {c} \cup S PROVE Kids(tree, d) \subseteq S
    <3> DEFINE e == IF d = c THEN copy ELSE id[d]
    <3>1. e \in Containers /\ New(e) /\ Source(e) = d /\ e \in u.collections \cup Reachable(u)
      <4>1. CASE d = c
        BY <1>12, <4>1 DEF New, Source, Containers
      <4>2. CASE d # c
        <5>1. d \in items /\ d \in Folders
          BY <1>2, <2>1, <4>2, IdsAreApart DEF Items, Containers
        <5>2. id[d] \in Folders /\ id[d] # copy
          BY <1>3, <5>1, IdsAreApart
        <5> QED
          BY <1>4, <2>1, <4>2, <5>1, <5>2 DEF New, Source, Containers
      <4> QED
        BY <4>1, <4>2
    <3> HIDE DEF e
    <3>2. Kids(tree, d) \subseteq items /\ \A x \in Kids(tree, d) : id[x] \in Kids(u, e)
      BY <1>7, <1>13, <3>1
    <3> QED
      BY <1>15, <3>1, <3>2
  <2> HIDE DEF S
  <2>2. items \subseteq S
    BY <2>1, BelowLeast DEF items
  <2> QED
    BY <1>5, <2>2 DEF S
<1>19. Documents(u) = Documents(tree) \cup (copies \cap Requests)
  BY <1>10, <1>12 DEF Documents
<1>20. Sound(u) /\ Reachable(tree) \ {} \subseteq Reachable(u)
  BY <1>2, <1>12, <1>14, <1>16, <1>17, <1>18, <1>19 DEF Sound
<1>21. Removing(u, {})
  BY <1>1
<1> QED
  BY <1>20, <1>21, CommitKeeps
-----------------------------------------------------------------------------
(* The tree of every behaviour *)

LEMMA TreeStarts ==
  ASSUME TreeInit
  PROVE  TreeInv
<1>1. tree = [collections |-> {}, children |-> [c \in Containers |-> <<>>],
              label |-> [r \in Requests |-> None], stored |-> [r \in Requests |-> None]]
  BY DEF TreeInit, tree
<1>2. tree \in Trees
  BY <1>1 DEF Trees
<1>3. \A c \in Containers : Kids(tree, c) = {} /\ tree.children[c] = <<>>
  BY <1>1 DEF Kids, ToSet
<1>4. Reachable(tree) = {}
  BY <1>3, BelowLeast DEF Reachable
<1>5. Documents(tree) = {} /\ Unique(tree) /\ Clean(tree)
  <2>1. Distinct(<<>>)
    BY DEF Distinct
  <2> QED
    BY <1>1, <1>3, <2>1 DEF Documents, Unique, Clean
<1> QED
  BY <1>2, <1>4, <1>5 DEF TreeInv, Sound, TreeStaysWhole, NeverMangled, NothingIsLost, TreeInit

LEMMA TreeInductive == ContentSpec => []TreeInv
<1>1. ContentInit => TreeInv
  BY TreeStarts DEF ContentInit
<1>2. ASSUME TreeInv, [ContentNext]_contentVars PROVE TreeInv'
  <2>1. CASE UNCHANGED treeVars
    BY <1>2, <2>1 DEF treeVars, TreeInv, Sound, Clean, tree, TreeStaysWhole, NeverMangled, NothingIsLost
  <2>2. CASE TreeNext
    <3>1. CASE Deletion
      BY <1>2, <3>1, DeleteCollectionKeeps, DeleteFolderKeeps, DeleteRequestKeeps DEF Deletion
    <3>2. CASE Addition
      BY <1>2, <3>2, CreateCollectionKeeps, AddFolderKeeps, ImportCollectionKeeps, DuplicateCollectionKeeps DEF Addition
    <3>3. CASE Saving
      BY <1>2, <3>3, SaveRequestKeeps DEF Saving
    <3>4. CASE Moving
      BY <1>2, <3>4, MoveKeeps DEF Moving
    <3> QED
      BY <2>2, <3>1, <3>2, <3>3, <3>4 DEF TreeNext
  <2> QED
    BY <1>2, <2>1, <2>2 DEF ContentNext, contentVars, EditsTree, ParsesCurl, ReadsWords, ResolvesVariables,
                            MakesDerivative, ConvertsPostman
<1> QED
  BY <1>1, <1>2, PTL DEF ContentSpec

(***************************************************************************)
(* Whatever sequence of operations is run on the collections, with         *)
(* whatever ids, a commit is refused for a limit or not at all, and no     *)
(* operation loses an item it was not to remove.                           *)
(***************************************************************************)
THEOREM TreeIsWhole == ContentSpec => []TreeStaysWhole
<1>1. TreeInv => TreeStaysWhole
  BY DEF TreeInv
<1> QED
  BY <1>1, TreeInductive, PTL
-----------------------------------------------------------------------------
(* Numbers *)

LEMMA Least ==
  ASSUME NEW T, T \subseteq Nat, T # {}
  PROVE  \E m \in T : \A n \in T : m <= n
<1> DEFINE Family == {0 .. n : n \in T}
           Smaller == StrictSubsetOrdering(Nat)
<1>1. IsWellFoundedOn(Smaller, FiniteSubsetsOf(Nat))
  BY FS_StrictSubsetOrderingWellFounded
<1>2. Family \subseteq FiniteSubsetsOf(Nat) /\ Family # {}
  <2>1. \A n \in T : IsFiniteSet(0 .. n) /\ 0 .. n \subseteq Nat
    BY FS_Interval
  <2> QED
    BY <2>1 DEF FiniteSubsetsOf
<1>3. PICK F \in Family : \A G \in Family : <<G, F>> \notin Smaller
  <2> HIDE DEF Family, Smaller
  <2> QED
    BY <1>1, <1>2, WFMin
<1>4. PICK m \in T : F = 0 .. m
  BY <1>3
<1>5. \A n \in T : m <= n
  <2> SUFFICES ASSUME NEW n \in T, n < m PROVE FALSE
    OBVIOUS
  <2>1. 0 .. n \subseteq 0 .. m /\ 0 .. n # 0 .. m
    <3>1. m \in 0 .. m /\ m \notin 0 .. n
      OBVIOUS
    <3> QED
      BY <3>1
  <2>2. 0 .. n \in SUBSET Nat /\ 0 .. m \in SUBSET Nat
    OBVIOUS
  <2>3. <<0 .. n, 0 .. m>> \in Smaller
    BY <2>1, <2>2 DEF StrictSubsetOrdering
  <2> QED
    BY <2>3, <1>3, <1>4
<1> QED
  BY <1>5

-----------------------------------------------------------------------------
(* The walk over a Postman export *)

(***************************************************************************)
(* The folders an item of depth d is in, when it comes after the first v.  *)
(***************************************************************************)
EnclosingAt(c, v, d) ==
  {j \in 1 .. v : c.items[j].depth < d /\ \A k \in j + 1 .. v : c.items[k].depth > c.items[j].depth}

(***************************************************************************)
(* What folders hand down: the authentication of the innermost that says   *)
(* something, and for each name the variable of the innermost that has it. *)
(***************************************************************************)
SpeakingIn(c, S) == {j \in S : Given(c.items[j].auth)}
SaidBy(c, S) ==
  IF SpeakingIn(c, S) = {} THEN <<c.auth, 0>>
  ELSE <<c.items[Innermost(SpeakingIn(c, S))].auth, Innermost(SpeakingIn(c, S))>>
Defines(c, j, n) ==
  \E x \in DOMAIN c.items[j].variables :
    c.items[j].variables[x].name = n /\ c.items[j].variables[x].type = "plain"
DefiningIn(c, S, n) == {j \in S : Defines(c, j, n)}
OnesNamed(vars, n) == {v \in vars : v.name = n}
Origins(vars, n) == {v.from : v \in OnesNamed(vars, n)}
OriginOf(c, S, n) == IF DefiningIn(c, S, n) = {} THEN {} ELSE {Innermost(DefiningIn(c, S, n))}
VariablesAre(c, vars, S) == (\A v \in vars : v.type = "plain") /\ \A n : Origins(vars, n) = OriginOf(c, S, n)

(***************************************************************************)
(* Of the requests imported so far: one credential at most, that which the *)
(* export says, the variables of the innermost folders, and no secret.     *)
(***************************************************************************)
Enclosers(c, i) == EnclosingAt(c, i - 1, c.items[i].depth)
SaidOf(c, i) == SaidBy(c, Enclosers(c, i) \cup {i})
InputsOf(inputs, i) == {x.credential : x \in {y \in inputs : y.item = i}}
AuthIsSaid(c, found, i) ==
  /\ SaidOf(c, i)[1] = "bearer" => found = {<<"auth", SaidOf(c, i)[2]>>}
  /\ SaidOf(c, i)[1] # "bearer" => \A x \in found : x[1] # "auth"
  /\ \A x, y \in found : x = y
Converted(c, inputs, r) ==
  /\ AuthIsSaid(c, InputsOf(inputs, r.item), r.item)
  /\ VariablesAre(c, r.variables, Enclosers(c, r.item))
  /\ r.header = "none" /\ ~r.userinfo

HandsDown(c, v, down) ==
  /\ \E X : down \in Seq(X)
  /\ Len(down) > Reach(c.items, v)
  /\ \A d \in 0 .. Reach(c.items, v) :
       /\ down[d + 1].auth = SaidBy(c, EnclosingAt(c, v, d))
       /\ VariablesAre(c, down[d + 1].variables, EnclosingAt(c, v, d))

PostmanInv ==
  /\ WellFormed(collection) /\ visited \in 0 .. Len(collection.items)
  /\ HandsDown(collection, visited, handed)
  /\ \A r \in requests : Converted(collection, authInputs, r)
  /\ \A x \in authInputs : x.item \in 1 .. visited
  /\ {r.item : r \in requests} \cup skipped = {i \in 1 .. visited : collection.items[i].kind = "request"}
  /\ \A i \in skipped : [code |-> "REQUEST_SKIPPED", item |-> i] \in notes
  /\ result = "converted" =>
       visited = Len(collection.items) /\ \A x \in authInputs : \E r \in requests : r.item = x.item

LEMMA EntryShape ==
  ASSUME NEW c, WellFormed(c)
  PROVE  /\ c.items \in Seq(PostmanItems) /\ Len(c.items) \in Nat /\ DOMAIN c.items = 1 .. Len(c.items)
         /\ \A i \in 1 .. Len(c.items) :
              /\ c.items[i].kind \in {"folder", "request"} /\ c.items[i].depth \in Nat /\ c.items[i].auth \in Auths
              /\ c.items[i].header \in {"none", "bearer", "placeholder", "disabled", "malformed"}
              /\ c.items[i].userinfo \in {"none", "credential", "placeholder"}
              /\ c.items[i].variables \in Seq([name : STRING, type : {"plain", "secret", "malformed"}])
              /\ c.items[i].depth <= Reach(c.items, i - 1)
         /\ c.auth \in Auths
<1>1. c.auth \in Auths /\ c.items \in Seq(PostmanItems)
  BY DEF WellFormed
<1>2. \A i \in 1 .. Len(c.items) : c.items[i] \in PostmanItems /\ c.items[i].depth <= Reach(c.items, i - 1)
  BY <1>1 DEF WellFormed
<1> QED
  BY <1>1, <1>2 DEF PostmanItems

(***************************************************************************)
(* What the properties say is in these terms.                              *)
(***************************************************************************)
LEMMA InTheseTerms ==
  /\ \A i \in Nat \ {0} : Said(i) = SaidOf(collection, i) /\ Enclosing(i) = Enclosers(collection, i)
  /\ \A i : InputOf(i) = InputsOf(authInputs, i)
  /\ \A i \in Nat \ {0} : \A n : Defining(i, n) = DefiningIn(collection, Enclosers(collection, i), n)
<1>1. \A i : InputOf(i) = InputsOf(authInputs, i)
  BY DEF InputOf, InputsOf
<1>2. ASSUME NEW i \in Nat \ {0} PROVE Enclosing(i) = Enclosers(collection, i)
  <2>1. \A j \in 1 .. i - 1 : j + 1 .. i = (j + 1 .. i - 1) \cup {i}
    OBVIOUS
  <2>2. \A j, k : Entries[k].depth > Entries[j].depth <=> Entries[j].depth < Entries[k].depth
    OBVIOUS
  <2> QED
    BY <2>1, <2>2 DEF Enclosing, Enclosers, EnclosingAt, Entries
<1>3. ASSUME NEW i \in Nat \ {0} PROVE Said(i) = SaidOf(collection, i)
  BY <1>2 DEF Said, SaidOf, SaidBy, Speaking, SpeakingIn, Entries
<1>4. ASSUME NEW i \in Nat \ {0}, NEW n PROVE Defining(i, n) = DefiningIn(collection, Enclosers(collection, i), n)
  BY <1>2 DEF Defining, DefiningIn, Defines, Entries
<1> QED
  BY <1>1, <1>2, <1>3, <1>4

(***************************************************************************)
(* The innermost of a set with a new last member.                          *)
(***************************************************************************)
LEMMA InnermostLast ==
  ASSUME NEW S, NEW i \in Int, \A j \in S : j \in Int /\ j <= i, i \in S
  PROVE  Innermost(S) = i
<1>1. i \in S /\ \A k \in S : k <= i
  OBVIOUS
<1>2. \A j \in S : (\A k \in S : k <= j) => j = i
  BY <1>1
<1> QED
  BY <1>1, <1>2 DEF Innermost

LEMMA SaidNext ==
  ASSUME NEW c, NEW i \in Nat, NEW S, \A j \in S : j \in Nat /\ j < i
  PROVE  SaidBy(c, S \cup {i}) = Inherit(<<c.items[i].auth, i>>, SaidBy(c, S))
<1>1. CASE Given(c.items[i].auth)
  <2> DEFINE T == SpeakingIn(c, S \cup {i})
  <2>1. i \in T /\ \A j \in T : j \in Int /\ j <= i
    BY <1>1 DEF SpeakingIn
  <2> HIDE DEF T
  <2>2. Innermost(T) = i
    BY <2>1, InnermostLast
  <2>3. T # {}
    BY <2>1
  <2> QED
    BY <1>1, <2>2, <2>3 DEF SaidBy, T, Inherit
<1>2. CASE ~Given(c.items[i].auth)
  <2>1. SpeakingIn(c, S \cup {i}) = SpeakingIn(c, S)
    BY <1>2 DEF SpeakingIn
  <2> QED
    BY <1>2, <2>1 DEF SaidBy, Inherit
<1> QED
  BY <1>1, <1>2

(***************************************************************************)
(* variables keeps one of each name a folder defines.                      *)
(***************************************************************************)
LEMMA OwnVariables ==
  ASSUME NEW c, WellFormed(c), NEW i \in 1 .. Len(c.items)
  PROVE  /\ \A v \in Variables(c.items[i].variables, i) : v.type = "plain" /\ v.from = i /\ Defines(c, i, v.name)
         /\ \A n : Defines(c, i, n) => \E v \in Variables(c.items[i].variables, i) : v.name = n
<1> DEFINE list == c.items[i].variables
<1>1. Len(list) \in Nat /\ DOMAIN list = 1 .. Len(list)
  BY EntryShape
<1>2. ASSUME NEW v \in Variables(list, i) PROVE v.type = "plain" /\ v.from = i /\ Defines(c, i, v.name)
  <2>1. PICK x \in DOMAIN list : Usable(list, x) /\ v = [name |-> list[x].name, from |-> i, type |-> list[x].type]
    BY <1>2 DEF Variables
  <2> QED
    BY <2>1 DEF Usable, Defines
<1>3. ASSUME NEW n, Defines(c, i, n) PROVE \E v \in Variables(list, i) : v.name = n
  <2> DEFINE T == {x \in DOMAIN list : list[x].name = n /\ list[x].type = "plain"}
  <2>1. T \subseteq Nat /\ T # {}
    BY <1>1, <1>3 DEF Defines
  <2>2. PICK m \in T : \A x \in T : m <= x
    <3> HIDE DEF T
    <3> QED
      BY <2>1, Least
  <2>3. m \in DOMAIN list /\ m \in Nat /\ list[m].name = n /\ list[m].type = "plain"
    BY <1>1, <2>2
  <2>4. \A j \in 1 .. m - 1 : j \in DOMAIN list /\ j < m
    BY <1>1, <2>3
  <2>5. \A j \in 1 .. m - 1 : list[j].type = "plain" => list[j].name # n
    BY <2>1, <2>2, <2>4
  <2> HIDE DEF T
  <2>6. Usable(list, m)
    BY <2>3, <2>5 DEF Usable
  <2>7. [name |-> list[m].name, from |-> i, type |-> list[m].type] \in Variables(list, i)
    BY <2>3, <2>6 DEF Variables
  <2> QED
    BY <2>3, <2>7
<1> QED
  BY <1>2, <1>3

LEMMA VariablesNext ==
  ASSUME NEW c, WellFormed(c), NEW i \in 1 .. Len(c.items), NEW S, \A j \in S : j \in Nat /\ j < i,
         NEW old, VariablesAre(c, old, S)
  PROVE  VariablesAre(c, MergedVariables(old, Variables(c.items[i].variables, i)), S \cup {i})
<1> DEFINE own == Variables(c.items[i].variables, i)
           vars == MergedVariables(old, own)
<1>1. /\ \A v \in own : v.type = "plain" /\ v.from = i /\ Defines(c, i, v.name)
      /\ \A n : Defines(c, i, n) => \E v \in own : v.name = n
  BY OwnVariables
<1> HIDE DEF own
<1>2. \A v : v \in vars <=> v \in own \/ (v \in old /\ \A w \in own : w.name # v.name)
  BY DEF MergedVariables
<1> HIDE DEF vars
<1>3. \A v \in vars : v.type = "plain"
  BY <1>1, <1>2 DEF VariablesAre
<1>4. ASSUME NEW n PROVE Origins(vars, n) = OriginOf(c, S \cup {i}, n)
  <2>1. CASE Defines(c, i, n)
    <3>1. \A v \in OnesNamed(vars, n) : v.from = i
      BY <1>1, <1>2, <2>1 DEF OnesNamed
    <3>2. OnesNamed(vars, n) # {}
      BY <1>1, <1>2, <2>1 DEF OnesNamed
    <3>3. Origins(vars, n) = {i}
      BY <3>1, <3>2 DEF Origins
    <3> DEFINE T == DefiningIn(c, S \cup {i}, n)
    <3>4. i \in T /\ \A j \in T : j \in Int /\ j <= i
      BY <2>1 DEF DefiningIn
    <3> HIDE DEF T
    <3>5. Innermost(T) = i /\ T # {}
      BY <3>4, InnermostLast
    <3> QED
      BY <3>3, <3>5 DEF OriginOf, T
  <2>2. CASE ~Defines(c, i, n)
    <3>1. \A w \in own : w.name # n
      BY <1>1, <2>2
    <3>2. OnesNamed(vars, n) = OnesNamed(old, n)
      BY <1>2, <3>1 DEF OnesNamed
    <3>3. DefiningIn(c, S \cup {i}, n) = DefiningIn(c, S, n)
      BY <2>2 DEF DefiningIn
    <3> QED
      BY <3>2, <3>3 DEF Origins, OriginOf, VariablesAre
  <2> QED
    BY <2>1, <2>2
<1> QED
  BY <1>3, <1>4 DEF VariablesAre, vars, own

(***************************************************************************)
(* What the next item adds to what a later one is in.                      *)
(***************************************************************************)
LEMMA EnclosingNext ==
  ASSUME NEW c, WellFormed(c), NEW i \in 1 .. Len(c.items), NEW d \in Nat
  PROVE  /\ d <= c.items[i].depth => EnclosingAt(c, i, d) = EnclosingAt(c, i - 1, d)
         /\ d = c.items[i].depth + 1 => EnclosingAt(c, i, d) = EnclosingAt(c, i - 1, c.items[i].depth) \cup {i}
<1>1. \A j \in 1 .. i : c.items[j].depth \in Nat
  BY EntryShape
<1>2. \A k : k \in 1 .. i <=> k \in 1 .. i - 1 \/ k = i
  OBVIOUS
<1>3. ASSUME NEW j \in 1 .. i - 1
      PROVE  /\ j + 1 .. i = (j + 1 .. i - 1) \cup {i} /\ j \in 1 .. i /\ j # i
             /\ \A k \in j + 1 .. i - 1 : k \in 1 .. i
  BY <1>3
<1>4. CASE d <= c.items[i].depth
  <2>1. ASSUME NEW j \in EnclosingAt(c, i, d) PROVE j \in EnclosingAt(c, i - 1, d)
    BY <1>1, <1>2, <1>3, <1>4, <2>1 DEF EnclosingAt
  <2>2. ASSUME NEW j \in EnclosingAt(c, i - 1, d) PROVE j \in EnclosingAt(c, i, d)
    <3>0. j \in 1 .. i - 1 /\ c.items[j].depth < d /\ c.items[j].depth \in Nat /\ c.items[i].depth \in Nat
      BY <1>1, <1>3, <2>2 DEF EnclosingAt
    <3>1. j \in 1 .. i - 1 /\ c.items[i].depth > c.items[j].depth
      BY <1>4, <3>0
    <3> QED
      BY <1>3, <2>2, <3>1 DEF EnclosingAt
  <2> QED
    <3>1. EnclosingAt(c, i, d) = EnclosingAt(c, i - 1, d)
      BY <2>1, <2>2
    <3>2. d # c.items[i].depth + 1
      BY <1>1, <1>4
    <3> QED
      BY <3>1, <3>2
<1>5. CASE d = c.items[i].depth + 1
  <2>1. ASSUME NEW j \in EnclosingAt(c, i, d), j # i PROVE j \in EnclosingAt(c, i - 1, c.items[i].depth)
    <3>1. j \in 1 .. i - 1 /\ c.items[i].depth > c.items[j].depth
      BY <1>2, <1>3, <2>1 DEF EnclosingAt
    <3> QED
      BY <1>1, <1>3, <2>1, <3>1 DEF EnclosingAt
  <2>2. ASSUME NEW j \in EnclosingAt(c, i - 1, c.items[i].depth) PROVE j \in EnclosingAt(c, i, d)
    <3>1. j \in 1 .. i - 1 /\ c.items[i].depth > c.items[j].depth
      BY <1>1, <1>3, <2>2 DEF EnclosingAt
    <3>2. c.items[j].depth < d
      BY <1>1, <1>3, <1>5, <3>1
    <3> QED
      BY <1>3, <2>2, <3>1, <3>2 DEF EnclosingAt
  <2>3. i \in EnclosingAt(c, i, d)
    BY <1>1, <1>5 DEF EnclosingAt
  <2> QED
    BY <1>1, <1>5, <2>1, <2>2, <2>3
<1> QED
  BY <1>4, <1>5

(***************************************************************************)
(* Down to the depth the next item may have, a request changes nothing of  *)
(* what is handed down, and a folder adds itself one deeper.               *)
(***************************************************************************)
LEMMA HandedOn ==
  ASSUME NEW c, WellFormed(c), NEW i \in 1 .. Len(c.items), NEW down, HandsDown(c, i - 1, down)
  PROVE  /\ c.items[i].depth \in 0 .. Reach(c.items, i - 1) /\ Reach(c.items, i - 1) \in Nat
         /\ down[c.items[i].depth + 1].auth = SaidBy(c, Enclosers(c, i))
         /\ VariablesAre(c, down[c.items[i].depth + 1].variables, Enclosers(c, i))
         /\ \A d \in 0 .. c.items[i].depth :
              /\ d \in 0 .. Reach(c.items, i - 1)
              /\ down[d + 1].auth = SaidBy(c, EnclosingAt(c, i, d))
              /\ VariablesAre(c, down[d + 1].variables, EnclosingAt(c, i, d))
<1>1. c.items[i].depth \in Nat /\ c.items[i].depth <= Reach(c.items, i - 1)
  BY EntryShape
<1>2. Reach(c.items, i - 1) \in Nat
  <2>1. i # 1 => i - 1 \in 1 .. Len(c.items)
    OBVIOUS
  <2> QED
    BY <2>1, EntryShape DEF Reach
<1>3. \A d \in 0 .. Reach(c.items, i - 1) :
        /\ down[d + 1].auth = SaidBy(c, EnclosingAt(c, i - 1, d))
        /\ VariablesAre(c, down[d + 1].variables, EnclosingAt(c, i - 1, d))
  BY DEF HandsDown
<1>4. ASSUME NEW d \in 0 .. c.items[i].depth
      PROVE  d \in 0 .. Reach(c.items, i - 1) /\ EnclosingAt(c, i, d) = EnclosingAt(c, i - 1, d)
  <2>1. d \in Nat /\ d <= c.items[i].depth
    BY <1>1
  <2> QED
    BY <1>1, <1>2, <2>1, EnclosingNext
<1>5. c.items[i].depth \in 0 .. Reach(c.items, i - 1)
  BY <1>1, <1>2
<1> QED
  BY <1>2, <1>3, <1>4, <1>5 DEF Enclosers

LEMMA EnclosersBefore ==
  ASSUME NEW c, NEW i \in Nat
  PROVE  \A j \in Enclosers(c, i) : j \in Nat /\ j < i /\ j \in 1 .. i
BY DEF Enclosers, EnclosingAt

LEMMA HandedByRequest ==
  ASSUME NEW c, WellFormed(c), NEW i \in 1 .. Len(c.items), NEW down, HandsDown(c, i - 1, down),
         c.items[i].kind = "request"
  PROVE  HandsDown(c, i, down)
<1>1. Reach(c.items, i) = c.items[i].depth
  BY DEF Reach
<1>2. /\ c.items[i].depth \in 0 .. Reach(c.items, i - 1) /\ Reach(c.items, i - 1) \in Nat
      /\ \A d \in 0 .. c.items[i].depth :
           /\ down[d + 1].auth = SaidBy(c, EnclosingAt(c, i, d))
           /\ VariablesAre(c, down[d + 1].variables, EnclosingAt(c, i, d))
  BY HandedOn
<1>3. (\E X : down \in Seq(X)) /\ Len(down) > Reach(c.items, i - 1)
  BY DEF HandsDown
<1>4. Len(down) > Reach(c.items, i)
  BY <1>1, <1>2, <1>3
<1> QED
  BY <1>1, <1>2, <1>3, <1>4 DEF HandsDown

LEMMA HandedByFolder ==
  ASSUME NEW c, WellFormed(c), NEW i \in 1 .. Len(c.items), NEW down, HandsDown(c, i - 1, down),
         c.items[i].kind = "folder", NEW new,
         new.auth = Inherit(<<c.items[i].auth, i>>, down[c.items[i].depth + 1].auth),
         new.variables = MergedVariables(down[c.items[i].depth + 1].variables, Variables(c.items[i].variables, i))
  PROVE  HandsDown(c, i, SubSeq(down, 1, c.items[i].depth + 1) \o <<new>>)
<1> DEFINE e == c.items[i].depth
           a == SubSeq(down, 1, e + 1)
           b == a \o <<new>>
<1>1. Reach(c.items, i) = e + 1 /\ e \in Nat
  BY EntryShape DEF Reach
<1>2. /\ e \in 0 .. Reach(c.items, i - 1) /\ Reach(c.items, i - 1) \in Nat
      /\ down[e + 1].auth = SaidBy(c, Enclosers(c, i))
      /\ VariablesAre(c, down[e + 1].variables, Enclosers(c, i))
      /\ \A d \in 0 .. e :
           /\ down[d + 1].auth = SaidBy(c, EnclosingAt(c, i, d))
           /\ VariablesAre(c, down[d + 1].variables, EnclosingAt(c, i, d))
  BY HandedOn
<1>3. PICK X : down \in Seq(X)
  BY DEF HandsDown
<1>4. Len(down) > Reach(c.items, i - 1) /\ Len(down) \in Nat
  BY <1>3 DEF HandsDown
<1>5. /\ EnclosingAt(c, i, e + 1) = Enclosers(c, i) \cup {i}
      /\ \A j \in Enclosers(c, i) : j \in Nat /\ j < i
  <2>1. e + 1 \in Nat /\ e + 1 = c.items[i].depth + 1
    BY <1>1
  <2>2. EnclosingAt(c, i, e + 1) = EnclosingAt(c, i - 1, c.items[i].depth) \cup {i}
    BY <2>1, EnclosingNext
  <2> QED
    BY <2>2, EnclosersBefore DEF Enclosers
<1> DEFINE S == Enclosers(c, i)
<1>s. i \in Nat /\ \A j \in S : j \in Nat /\ j < i
  BY <1>5
<1> HIDE DEF S
<1>6. new.auth = SaidBy(c, EnclosingAt(c, i, e + 1))
  <2>1. SaidBy(c, S \cup {i}) = Inherit(<<c.items[i].auth, i>>, SaidBy(c, S))
    BY <1>s, SaidNext
  <2> QED
    BY <1>2, <1>5, <2>1 DEF S
<1>7. VariablesAre(c, new.variables, EnclosingAt(c, i, e + 1))
  <2> DEFINE old == down[c.items[i].depth + 1].variables
  <2>1. VariablesAre(c, old, S)
    BY <1>2 DEF S
  <2> HIDE DEF old
  <2>2. VariablesAre(c, MergedVariables(old, Variables(c.items[i].variables, i)), S \cup {i})
    BY <1>s, <2>1, VariablesNext
  <2> QED
    BY <1>5, <2>2 DEF S, old
<1> HIDE DEF e
<1>8. a \in Seq(X) /\ Len(a) = e + 1 /\ \A k \in 1 .. e + 1 : a[k] = down[k]
  <2>1. e + 1 \in 1 .. Len(down)
    BY <1>1, <1>2, <1>4
  <2> QED
    BY <1>1, <1>3, <2>1
<1> HIDE DEF a
<1>9. b \in Seq(X \cup {new}) /\ Len(b) = e + 2 /\ b[e + 2] = new /\ \A k \in 1 .. e + 1 : b[k] = down[k]
  <2>1. a \in Seq(X \cup {new}) /\ <<new>> \in Seq(X \cup {new}) /\ Len(<<new>>) = 1 /\ <<new>>[1] = new
    BY <1>8
  <2>2. /\ b \in Seq(X \cup {new}) /\ Len(b) = Len(a) + 1
        /\ \A k \in 1 .. Len(a) + 1 : b[k] = IF k <= Len(a) THEN a[k] ELSE <<new>>[k - Len(a)]
    BY <2>1, ConcatProperties
  <2> QED
    BY <1>1, <1>8, <2>1, <2>2
<1> HIDE DEF b
<1>10. ASSUME NEW d \in 0 .. e + 1
       PROVE  /\ b[d + 1].auth = SaidBy(c, EnclosingAt(c, i, d))
              /\ VariablesAre(c, b[d + 1].variables, EnclosingAt(c, i, d))
  <2>1. CASE d = e + 1
    BY <1>1, <1>6, <1>7, <1>9, <2>1
  <2>2. CASE d # e + 1
    <3>1. d \in 0 .. e /\ d + 1 \in 1 .. e + 1
      BY <1>1, <2>2
    <3> QED
      BY <1>2, <1>9, <3>1
  <2> QED
    BY <2>1, <2>2
<1>11. Len(b) > Reach(c.items, i)
  BY <1>1, <1>9
<1>12. HandsDown(c, i, b)
  BY <1>1, <1>9, <1>10, <1>11 DEF HandsDown
<1> QED
  BY <1>12 DEF b, a, e

(***************************************************************************)
(* What a request inherits when it is its turn is what the export says.    *)
(***************************************************************************)
LEMMA InheritsTheSaid ==
  ASSUME PostmanInv, NEW i, i = visited + 1, i \in DOMAIN Entries
  PROVE  /\ AuthAt(i) = SaidOf(collection, i) /\ VariablesAre(collection, Around(i).variables, Enclosers(collection, i))
         /\ SaidOf(collection, i)[1] \in Auths
<1> DEFINE c == collection
<1>0. c.auth \in Auths /\ \A j \in 1 .. Len(c.items) : c.items[j].auth \in Auths
  BY EntryShape DEF PostmanInv
<1>1. WellFormed(c) /\ HandsDown(c, i - 1, handed) /\ i \in 1 .. Len(c.items)
  <2>1. Len(c.items) \in Nat /\ DOMAIN Entries = 1 .. Len(c.items)
    BY EntryShape DEF PostmanInv, Entries
  <2> QED
    BY <2>1 DEF PostmanInv
<1>2. /\ handed[c.items[i].depth + 1].auth = SaidBy(c, Enclosers(c, i))
      /\ VariablesAre(c, handed[c.items[i].depth + 1].variables, Enclosers(c, i))
  BY <1>1, HandedOn
<1>3. \A j \in Enclosers(c, i) : j \in Nat /\ j < i /\ j \in 1 .. Len(c.items)
  BY <1>1, EnclosersBefore
<1>4. SaidOf(c, i) = Inherit(<<c.items[i].auth, i>>, SaidBy(c, Enclosers(c, i)))
  <2> DEFINE S == Enclosers(c, i)
  <2>1. i \in Nat /\ \A j \in S : j \in Nat /\ j < i
    BY <1>1, <1>3
  <2> HIDE DEF S
  <2>2. SaidBy(c, S \cup {i}) = Inherit(<<c.items[i].auth, i>>, SaidBy(c, S))
    BY <2>1, SaidNext
  <2> QED
    BY <2>2 DEF S, SaidOf
<1>5. SaidBy(c, Enclosers(c, i))[1] \in Auths
  <2> DEFINE T == SpeakingIn(c, Enclosers(c, i))
  <2>1. CASE T = {}
    BY <1>0, <2>1 DEF SaidBy
  <2>2. CASE T # {}
    <3>1. T \subseteq 1 .. i /\ \A j \in T : j \in 1 .. Len(c.items)
      BY <1>1, <1>3 DEF SpeakingIn
    <3> HIDE DEF T
    <3>2. PICK m \in T : \A k \in T : k <= m
      <4> DEFINE U == {i - k : k \in T}
      <4>0. i \in Nat /\ \A k \in T : k \in Nat /\ i - k \in Nat
        <5>1. i \in Nat
          BY <1>1
        <5>2. \A k \in T : k \in 1 .. i
          BY <3>1
        <5> QED
          BY <5>1, <5>2
      <4>1. U \subseteq Nat /\ U # {}
        BY <2>2, <4>0
      <4>2. PICK u \in U : \A w \in U : u <= w
        <5> HIDE DEF U
        <5> QED
          BY <4>1, Least
      <4>3. PICK m \in T : u = i - m
        BY <4>2
      <4>4. ASSUME NEW k \in T PROVE k <= m
        <5>1. i - k \in U
          OBVIOUS
        <5> QED
          <6>1. u <= i - k
            BY <4>2, <5>1
          <6> HIDE DEF U
          <6> QED
            BY <4>0, <4>3, <6>1
      <4> QED
        BY <4>4
    <3>3. Innermost(T) \in T
      BY <3>2 DEF Innermost
    <3>4. SaidBy(c, Enclosers(c, i)) = <<c.items[Innermost(T)].auth, Innermost(T)>>
      BY <2>2 DEF SaidBy, T
    <3> QED
      BY <1>0, <3>1, <3>3, <3>4
  <2> QED
    BY <2>1, <2>2
<1>6. SaidOf(c, i)[1] \in Auths
  BY <1>0, <1>1, <1>4, <1>5 DEF Inherit
<1> QED
  BY <1>2, <1>4, <1>6 DEF AuthAt, Around, Entries

(***************************************************************************)
(* A request that is not refused gets the credential that is said of it,   *)
(* and has no other left in its headers.                                   *)
(***************************************************************************)
LEMMA CredentialIsSaid ==
  ASSUME PostmanInv, NEW i, i = visited + 1, i \in DOMAIN Entries, Credential(i) # Refused
  PROVE  /\ AuthAt(i)[1] = "bearer" => Credential(i) = <<"auth", AuthAt(i)[2]>> /\ Credential(i) # NoAuth
         /\ AuthAt(i)[1] # "bearer" => Credential(i)[1] # "auth"
         /\ Entries[i].header \in {"none", "bearer", "placeholder"}
<1>1. AuthAt(i)[1] \in Auths
  BY InheritsTheSaid
<1>2. /\ Entries[i].header \in {"none", "bearer", "placeholder", "disabled", "malformed"}
      /\ Entries[i].userinfo \in {"none", "credential", "placeholder"}
  BY EntryShape DEF PostmanInv, Entries
<1>3. Refused # NoAuth /\ \A x : <<"auth", x>> # Refused /\ <<"auth", x>> # NoAuth /\ <<"header", x>> # Refused
      /\ <<"header", x>>[1] # "auth" /\ <<"url", x>>[1] # "auth" /\ NoAuth[1] # "auth"
      /\ <<"header", x>> # NoAuth
  BY DEF Refused, NoAuth
<1> DEFINE fa == FromAuth(i)
           fh == FromHeader(i)
           cr == Credential(i)
<1>4. CASE AuthAt(i)[1] = "bearer"
  <2>1. fa = IF HeaderOn(i) THEN Refused ELSE <<"auth", AuthAt(i)[2]>>
    BY <1>4 DEF FromAuth
  <2>2. fh = IF fa = Refused \/ Entries[i].header \in {"none", "placeholder"} THEN fa ELSE Refused
    BY <1>3, <2>1 DEF FromHeader
  <2>3. fh = Refused \/ (fh = <<"auth", AuthAt(i)[2]>> /\ Entries[i].header \in {"none", "placeholder"})
    BY <2>1, <2>2, <1>3
  <2>4. cr = Refused \/ cr = fh
    BY <1>2, <1>3, <2>3 DEF Credential
  <2>5. fh # Refused
    <3>1. fh = Refused => cr = Refused
      BY <1>2, <1>3 DEF Credential
    <3> QED
      BY <3>1
  <2> QED
    BY <1>3, <1>4, <2>3, <2>4, <2>5
<1>5. CASE AuthAt(i)[1] # "bearer"
  <2>1. fa \in {NoAuth, Refused}
    BY <1>1, <1>5 DEF FromAuth, Auths
  <2>2. /\ fh \in {NoAuth, Refused, <<"header", i>>}
        /\ fh # Refused => Entries[i].header \in {"none", "bearer", "placeholder"}
    BY <2>1 DEF FromHeader
  <2>3. fh # Refused /\ cr \in {fh, Refused, NoAuth, <<"url", i>>}
    BY <1>2, <1>3, <2>2 DEF Credential
  <2> QED
    BY <1>3, <1>5, <2>2, <2>3
<1> QED
  BY <1>4, <1>5

LEMMA InputsElsewhere ==
  ASSUME NEW inputs, NEW x, NEW k, x.item # k
  PROVE  InputsOf(inputs \cup {x}, k) = InputsOf(inputs, k)
BY DEF InputsOf

LEMMA PostmanStarts ==
  ASSUME NEW from, \A c \in from : WellFormed(c), PostmanInit(from)
  PROVE  PostmanInv
<1> DEFINE c == collection
           first == [auth |-> <<c.auth, 0>>, variables |-> {}]
<1>1. WellFormed(c) /\ handed = <<first>> /\ visited = 0
  BY DEF PostmanInit
<1>2. Len(c.items) \in Nat
  BY <1>1, EntryShape
<1>3. Reach(c.items, 0) = 0
  BY DEF Reach
<1>4. EnclosingAt(c, 0, 0) = {} /\ SaidBy(c, {}) = first.auth /\ VariablesAre(c, first.variables, {})
  BY DEF EnclosingAt, SaidBy, SpeakingIn, VariablesAre, Origins, OriginOf, OnesNamed, DefiningIn
<1>5. HandsDown(c, 0, handed)
  <2>1. handed \in Seq({first}) /\ Len(handed) = 1 /\ handed[1] = first
    BY <1>1
  <2>2. \A d \in 0 .. 0 : d = 0 /\ d + 1 = 1
    OBVIOUS
  <2> HIDE DEF first
  <2>3. \A d \in 0 .. 0 : /\ handed[d + 1].auth = SaidBy(c, EnclosingAt(c, 0, d))
                          /\ VariablesAre(c, handed[d + 1].variables, EnclosingAt(c, 0, d))
    BY <1>4, <2>1, <2>2
  <2>4. \E X : handed \in Seq(X)
    BY <2>1
  <2> QED
    BY <1>3, <2>1, <2>3, <2>4 DEF HandsDown
<1> QED
  BY <1>1, <1>2, <1>5 DEF PostmanInit, PostmanInv

LEMMA EntryIsNext ==
  ASSUME PostmanInv, Entry \in DOMAIN Entries
  PROVE  /\ Entry \in 1 .. Len(collection.items) /\ Entry - 1 = visited /\ visited \in Nat
         /\ 1 .. Entry = 1 .. visited \cup {Entry} /\ Entry \notin 1 .. visited
<1>1. Len(collection.items) \in Nat /\ DOMAIN Entries = 1 .. Len(collection.items)
  BY EntryShape DEF PostmanInv, Entries
<1> QED
  BY <1>1 DEF Entry, PostmanInv

LEMMA VisitFolderKeeps ==
  ASSUME PostmanInv, VisitFolder
  PROVE  PostmanInv'
<1> DEFINE c == collection
           e == c.items[Entry].depth
           new == [auth |-> AuthAt(Entry),
                   variables |-> MergedVariables(Around(Entry).variables, Variables(c.items[Entry].variables, Entry))]
           down == SubSeq(handed, 1, e + 1) \o <<new>>
<1>1. Entry \in DOMAIN Entries /\ c.items[Entry].kind = "folder" /\ handed' = down /\ visited' = Entry
      /\ notes \subseteq notes' /\ result = "walking"
      /\ UNCHANGED <<collection, requests, authInputs, skipped, result>>
  BY DEF VisitFolder, AtItem, Entries, Note
<1>2. /\ Entry \in 1 .. Len(c.items) /\ Entry - 1 = visited /\ visited \in Nat
      /\ 1 .. Entry = 1 .. visited \cup {Entry} /\ Entry \notin 1 .. visited
  BY <1>1, EntryIsNext
<1>3. WellFormed(c) /\ HandsDown(c, Entry - 1, handed)
  BY <1>2 DEF PostmanInv
<1>4. /\ new.auth = Inherit(<<c.items[Entry].auth, Entry>>, handed[c.items[Entry].depth + 1].auth)
      /\ new.variables = MergedVariables(handed[c.items[Entry].depth + 1].variables,
                                         Variables(c.items[Entry].variables, Entry))
  BY DEF AuthAt, Around, Entries
<1> HIDE DEF new
<1>5. HandsDown(c, Entry, down)
  BY <1>1, <1>2, <1>3, <1>4, HandedByFolder
<1>6. {i \in 1 .. Entry : c.items[i].kind = "request"} = {i \in 1 .. visited : c.items[i].kind = "request"}
  BY <1>1, <1>2
<1> HIDE DEF down
<1>7. visited' \in 0 .. Len(c.items) /\ \A x \in authInputs : x.item \in 1 .. Entry
  BY <1>1, <1>2 DEF PostmanInv
<1> QED
  BY <1>1, <1>3, <1>5, <1>6, <1>7 DEF PostmanInv

LEMMA ImportRequestKeeps ==
  ASSUME PostmanInv, ImportRequest
  PROVE  PostmanInv'
<1> DEFINE c == collection
           new == [item |-> Entry, variables |-> Around(Entry).variables,
                   header |-> IF Entries[Entry].header \in {"bearer", "placeholder"} THEN "none"
                              ELSE Entries[Entry].header,
                   userinfo |-> FALSE]
           found == IF Credential(Entry) = NoAuth THEN {} ELSE {Credential(Entry)}
<1>1. Entry \in DOMAIN Entries /\ c.items[Entry].kind = "request" /\ visited' = Entry
      /\ requests' = requests \cup {new} /\ Credential(Entry) # Refused
      /\ notes \subseteq notes' /\ result = "walking"
      /\ UNCHANGED <<collection, handed, skipped, result>>
  BY DEF ImportRequest, AtItem, Entries, Note
<1>a. authInputs' = IF Credential(Entry) = NoAuth THEN authInputs
                    ELSE authInputs \cup {[item |-> Entry, credential |-> Credential(Entry)]}
  BY DEF ImportRequest
<1>2. /\ Entry \in 1 .. Len(c.items) /\ Entry - 1 = visited /\ visited \in Nat
      /\ 1 .. Entry = 1 .. visited \cup {Entry} /\ Entry \notin 1 .. visited
  BY <1>1, EntryIsNext
<1>3. WellFormed(c) /\ HandsDown(c, Entry - 1, handed)
  BY <1>2 DEF PostmanInv
<1>4. HandsDown(c, Entry, handed)
  BY <1>1, <1>2, <1>3, HandedByRequest
<1>5. /\ \A x \in authInputs : x.item \in 1 .. visited
      /\ \A r \in requests : Converted(c, authInputs, r) /\ r.item \in 1 .. visited
  BY DEF PostmanInv
<1>6. /\ \A x \in authInputs' : x.item \in 1 .. Entry
      /\ InputsOf(authInputs', Entry) = found
      /\ \A k : k # Entry => InputsOf(authInputs', k) = InputsOf(authInputs, k)
  <2>0. InputsOf(authInputs, Entry) = {}
    BY <1>2, <1>5 DEF InputsOf
  <2>1. CASE Credential(Entry) = NoAuth
    BY <1>2, <1>5, <1>a, <2>0, <2>1
  <2>2. CASE Credential(Entry) # NoAuth
    <3> DEFINE add == [item |-> Entry, credential |-> Credential(Entry)]
    <3>1. authInputs' = authInputs \cup {add}
      BY <1>a, <2>2
    <3>2. \A k : k # Entry => InputsOf(authInputs', k) = InputsOf(authInputs, k)
      <4>1. add.item = Entry
        OBVIOUS
      <4> HIDE DEF add
      <4> QED
        BY <3>1, <4>1, InputsElsewhere
    <3>3. InputsOf(authInputs', Entry) = found
      <4>1. \A x \in authInputs' : x.item = Entry <=> x = add
        BY <1>2, <1>5, <3>1
      <4>2. add.credential = Credential(Entry) /\ add \in authInputs' /\ add.item = Entry
        BY <3>1
      <4> HIDE DEF add
      <4> QED
        BY <2>2, <4>1, <4>2 DEF InputsOf
    <3>4. \A x \in authInputs' : x.item \in 1 .. Entry
      BY <1>2, <1>5, <3>1
    <3> QED
      BY <3>2, <3>3, <3>4
  <2> QED
    BY <2>1, <2>2
<1>7. /\ AuthAt(Entry) = SaidOf(c, Entry) /\ VariablesAre(c, Around(Entry).variables, Enclosers(c, Entry))
  BY <1>1, InheritsTheSaid DEF Entry
<1>8. /\ AuthAt(Entry)[1] = "bearer" => Credential(Entry) = <<"auth", AuthAt(Entry)[2]>> /\ Credential(Entry) # NoAuth
      /\ AuthAt(Entry)[1] # "bearer" => Credential(Entry)[1] # "auth"
      /\ Entries[Entry].header \in {"none", "bearer", "placeholder"}
  BY <1>1, CredentialIsSaid DEF Entry
<1>9. AuthIsSaid(c, found, Entry)
  BY <1>7, <1>8 DEF AuthIsSaid
<1> HIDE DEF found
<1>10. Converted(c, authInputs', new)
  BY <1>6, <1>7, <1>8, <1>9 DEF Converted
<1>11. \A r \in requests : Converted(c, authInputs', r)
  BY <1>2, <1>5, <1>6 DEF Converted
<1>12. {r.item : r \in requests'} \cup skipped' = {i \in 1 .. Entry : c.items[i].kind = "request"}
  <2>1. {r.item : r \in requests'} = {r.item : r \in requests} \cup {Entry}
    <3>1. new.item = Entry
      OBVIOUS
    <3>2. requests' = requests \cup {new}
      BY <1>1
    <3> HIDE DEF new
    <3> QED
      BY <3>1, <3>2
  <2>2. {r.item : r \in requests} \cup skipped = {i \in 1 .. visited : c.items[i].kind = "request"}
    BY DEF PostmanInv
  <2> QED
    BY <1>1, <1>2, <2>1, <2>2
<1> HIDE DEF new
<1>13. visited' \in 0 .. Len(c.items)
  BY <1>1, <1>2
<1> QED
  BY <1>1, <1>3, <1>4, <1>6, <1>10, <1>11, <1>12, <1>13 DEF PostmanInv

LEMMA SkipRequestKeeps ==
  ASSUME PostmanInv, SkipRequest
  PROVE  PostmanInv'
<1> DEFINE c == collection
<1>1. Entry \in DOMAIN Entries /\ c.items[Entry].kind = "request" /\ visited' = Entry
      /\ skipped' = skipped \cup {Entry} /\ [code |-> "REQUEST_SKIPPED", item |-> Entry] \in notes'
      /\ notes \subseteq notes' /\ result = "walking"
      /\ UNCHANGED <<collection, handed, requests, result>>
  BY DEF SkipRequest, AtItem, Entries, Note
<1>a. authInputs' = IF Noted(Entry) = NoAuth THEN authInputs
                    ELSE authInputs \cup {[item |-> Entry, credential |-> Noted(Entry)]}
  BY DEF SkipRequest
<1>2. /\ Entry \in 1 .. Len(c.items) /\ Entry - 1 = visited /\ visited \in Nat
      /\ 1 .. Entry = 1 .. visited \cup {Entry} /\ Entry \notin 1 .. visited
  BY <1>1, EntryIsNext
<1>3. WellFormed(c) /\ HandsDown(c, Entry - 1, handed)
  BY <1>2 DEF PostmanInv
<1>4. HandsDown(c, Entry, handed)
  BY <1>1, <1>2, <1>3, HandedByRequest
<1>5. /\ \A x \in authInputs : x.item \in 1 .. visited
      /\ \A r \in requests : Converted(c, authInputs, r) /\ r.item \in 1 .. visited
  BY DEF PostmanInv
<1>6. /\ \A x \in authInputs' : x.item \in 1 .. Entry
      /\ \A k : k # Entry => InputsOf(authInputs', k) = InputsOf(authInputs, k)
  <2>1. CASE Noted(Entry) = NoAuth
    BY <1>2, <1>5, <1>a, <2>1
  <2>2. CASE Noted(Entry) # NoAuth
    <3> DEFINE add == [item |-> Entry, credential |-> Noted(Entry)]
    <3>1. authInputs' = authInputs \cup {add} /\ add.item = Entry
      BY <1>a, <2>2
    <3> HIDE DEF add
    <3> QED
      BY <1>2, <1>5, <3>1, InputsElsewhere
  <2> QED
    BY <2>1, <2>2
<1>11. \A r \in requests : Converted(c, authInputs', r)
  BY <1>2, <1>5, <1>6 DEF Converted
<1>12. {r.item : r \in requests'} \cup skipped' = {i \in 1 .. Entry : c.items[i].kind = "request"}
  <2>2. {r.item : r \in requests} \cup skipped = {i \in 1 .. visited : c.items[i].kind = "request"}
    BY DEF PostmanInv
  <2> QED
    BY <1>1, <1>2, <2>2
<1>13. visited' \in 0 .. Len(c.items)
  BY <1>1, <1>2
<1>14. \A i \in skipped' : [code |-> "REQUEST_SKIPPED", item |-> i] \in notes'
  BY <1>1 DEF PostmanInv
<1> QED
  BY <1>1, <1>3, <1>4, <1>6, <1>11, <1>12, <1>13, <1>14 DEF PostmanInv

LEMMA ConvertKeeps ==
  ASSUME PostmanInv, Convert
  PROVE  PostmanInv'
<1>1. authInputs' = OfImported(authInputs) /\ visited = Len(collection.items)
      /\ UNCHANGED <<collection, visited, handed, requests, skipped, notes>>
  BY DEF Convert, Entries
<1>2. \A r \in requests : InputsOf(authInputs', r.item) = InputsOf(authInputs, r.item)
  BY <1>1 DEF InputsOf, OfImported
<1>3. \A r \in requests : Converted(collection, authInputs', r)
  BY <1>2 DEF Converted, PostmanInv
<1>4. \A x \in authInputs' : x \in authInputs /\ \E r \in requests : r.item = x.item
  BY <1>1 DEF OfImported
<1> QED
  BY <1>1, <1>3, <1>4 DEF PostmanInv

LEMMA PostmanInductive == ContentSpec => []PostmanInv
<1>1. ContentInit => PostmanInv
  <2>1. \A c \in AnyExport : WellFormed(c)
    BY ExportsAreWellFormed DEF AnyExport
  <2> QED
    BY <2>1, PostmanStarts, ExportsAreWellFormed DEF ContentInit
<1>2. ASSUME PostmanInv, [ContentNext]_contentVars PROVE PostmanInv'
  <2>1. CASE UNCHANGED postmanVars
    BY <1>2, <2>1 DEF postmanVars, PostmanInv
  <2>2. CASE PostmanNext
    <3>1. CASE FoldersTooDeep
      BY <1>2, <3>1 DEF FoldersTooDeep, PostmanInv
    <3> QED
      BY <1>2, <2>2, <3>1, VisitFolderKeeps, ImportRequestKeeps, SkipRequestKeeps, ConvertKeeps DEF PostmanNext
  <2> QED
    BY <1>2, <2>1, <2>2 DEF ContentNext, contentVars, EditsTree, ParsesCurl, ReadsWords, ResolvesVariables,
                            MakesDerivative, ConvertsPostman
<1> QED
  BY <1>1, <1>2, PTL DEF ContentSpec

(***************************************************************************)
(* A Postman export of whatever folders, nested however deep, is converted *)
(* to what it says, with its credentials apart: a request inherits from    *)
(* the innermost folder, and nothing secret stays in the documents.        *)
(***************************************************************************)
THEOREM ConversionFaithful == ContentSpec => []ConversionIsFaithful
<1>1. ASSUME PostmanInv PROVE ConversionIsFaithful
  <2> DEFINE c == collection
  <2>0. Len(c.items) \in Nat /\ DOMAIN Entries = 1 .. Len(c.items)
    BY <1>1, EntryShape DEF PostmanInv, Entries
  <2>1. ASSUME NEW r \in requests
        PROVE  /\ r.item \in Nat \ {0} /\ Converted(c, authInputs, r)
               /\ InputOf(r.item) = InputsOf(authInputs, r.item)
    <3>1. r.item \in 1 .. visited /\ visited \in Nat
      BY <1>1, <2>0 DEF PostmanInv
    <3> QED
      BY <1>1, <3>1, InTheseTerms DEF PostmanInv
  <2>2. ASSUME NEW r \in requests
        PROVE  /\ Said(r.item)[1] = "bearer" => InputOf(r.item) = {<<"auth", Said(r.item)[2]>>}
               /\ Said(r.item)[1] # "bearer" => \A x \in InputOf(r.item) : x[1] # "auth"
    BY <2>1, InTheseTerms DEF Converted, AuthIsSaid
  <2>3. ASSUME NEW r \in requests, NEW n
        PROVE  {v.from : v \in {w \in r.variables : w.name = n}}
                 = IF Defining(r.item, n) = {} THEN {} ELSE {Innermost(Defining(r.item, n))}
    <3>1. Origins(r.variables, n) = OriginOf(c, Enclosers(c, r.item), n)
      BY <2>1 DEF Converted, VariablesAre
    <3>2. Defining(r.item, n) = DefiningIn(c, Enclosers(c, r.item), n)
      BY <2>1, InTheseTerms
    <3> QED
      BY <3>1, <3>2 DEF Origins, OnesNamed, OriginOf
  <2>4. InheritedFromTheInnermost
    BY <2>2, <2>3 DEF InheritedFromTheInnermost
  <2>5. ASSUME NEW r \in requests PROVE Cardinality(InputOf(r.item)) <= 1
    <3>1. \A x, y \in InputOf(r.item) : x = y
      BY <2>1 DEF Converted, AuthIsSaid
    <3>2. CASE InputOf(r.item) = {}
      BY <3>2, FS_EmptySet
    <3>3. CASE InputOf(r.item) # {}
      <4>1. PICK x \in InputOf(r.item) : TRUE
        BY <3>3
      <4>2. InputOf(r.item) = {x}
        BY <3>1, <4>1
      <4>3. Cardinality({x}) = 1
        BY FS_Singleton
      <4> QED
        BY <4>2, <4>3
    <3> QED
      BY <3>2, <3>3
  <2>6. SecretsAreHandedOver
    <3> SUFFICES ASSUME result = "converted" PROVE SecretsAreHandedOver
      BY DEF SecretsAreHandedOver
    <3>1. visited = Len(c.items) /\ \A x \in authInputs : \E r \in requests : r.item = x.item
      BY <1>1 DEF PostmanInv
    <3>2. {r.item : r \in requests} \cup skipped = {i \in DOMAIN Entries : Entries[i].kind = "request"}
      BY <1>1, <2>0, <3>1 DEF PostmanInv, Entries
    <3>3. \A r \in requests : r.header = "none" /\ ~r.userinfo /\ \A v \in r.variables : v.type = "plain"
      BY <2>1 DEF Converted, VariablesAre
    <3>4. \A i \in skipped : [code |-> "REQUEST_SKIPPED", item |-> i] \in notes
      BY <1>1 DEF PostmanInv
    <3> QED
      BY <2>5, <3>1, <3>2, <3>3, <3>4 DEF SecretsAreHandedOver
  <2> QED
    BY <2>4, <2>6 DEF ConversionIsFaithful
<1> QED
  BY <1>1, PostmanInductive, PTL

-----------------------------------------------------------------------------
(* Induction and recursion along a sequence *)

LEMMA Induction ==
  ASSUME NEW T, 0 \in T, \A n \in Nat : n \in T => n + 1 \in T
  PROVE  Nat \subseteq T
<1> SUFFICES ASSUME NEW x \in Nat, x \notin T PROVE FALSE
  OBVIOUS
<1> DEFINE U == Nat \ T
<1>1. PICK m \in U : \A n \in U : m <= n
  <2>1. U \subseteq Nat /\ U # {}
    OBVIOUS
  <2> HIDE DEF U
  <2> QED
    BY <2>1, Least
<1>2. m \in Nat /\ m # 0 /\ m - 1 \in Nat /\ m - 1 \notin U
  BY <1>1
<1> QED
  BY <1>1, <1>2

IsIteration(f, N, S, a, step) ==
  f \in [0 .. N -> S] /\ f[0] = a /\ \A n \in 1 .. N : f[n] = step[n][f[n - 1]]

(***************************************************************************)
(* Steps that are functions on a set can be taken one after the other.     *)
(***************************************************************************)
LEMMA Recursion ==
  ASSUME NEW N \in Nat, NEW S, NEW a \in S, NEW step \in [1 .. N -> [S -> S]]
  PROVE  \E f : IsIteration(f, N, S, a, step)
<1> USE DEF IsIteration
<1> DEFINE Upto(k) == \E f \in [0 .. k -> S] : f[0] = a /\ \A n \in 1 .. k : f[n] = step[n][f[n - 1]]
           T == {k \in Nat : k <= N => Upto(k)}
<1>1. 0 \in T
  <2>1. Upto(0)
    <3> DEFINE f == [n \in 0 .. 0 |-> a]
    <3>1. f \in [0 .. 0 -> S] /\ f[0] = a
      OBVIOUS
    <3>2. \A n \in 1 .. 0 : FALSE
      OBVIOUS
    <3> QED BY <3>1, <3>2
  <2> QED BY <2>1
<1>2. ASSUME NEW k \in Nat, Upto(k), k + 1 <= N PROVE Upto(k + 1)
  <2>1. PICK f \in [0 .. k -> S] : f[0] = a /\ \A n \in 1 .. k : f[n] = step[n][f[n - 1]]
    BY <1>2
  <2> DEFINE g == [n \in 0 .. k + 1 |-> IF n = k + 1 THEN step[k + 1][f[k]] ELSE f[n]]
  <2>2. k + 1 \in 1 .. N /\ f[k] \in S
    BY <2>1, <1>2
  <2>3. step[k + 1][f[k]] \in S
    BY <2>2
  <2>4. g \in [0 .. k + 1 -> S]
    BY <2>3, <2>1
  <2>5. g[0] = a
    BY <2>1
  <2>6. \A n \in 1 .. k + 1 : g[n] = step[n][g[n - 1]]
    BY <2>1
  <2> HIDE DEF g
  <2> QED BY <2>4, <2>5, <2>6
<1>3. \A k \in Nat : k \in T => k + 1 \in T
  <2> HIDE DEF Upto
  <2> QED BY <1>2
<1>4. N \in T
  <2> HIDE DEF T
  <2> QED BY <1>1, <1>3, Induction
<1> QED BY <1>4

LEMMA Recursive ==
  ASSUME NEW N \in Nat, NEW S, NEW a \in S, NEW h, h[0] = a,
         \A n \in 1 .. N : h[n - 1] \in S => h[n] \in S
  PROVE  \A n \in 0 .. N : h[n] \in S
<1> DEFINE T == {k \in Nat : k <= N => h[k] \in S}
<1>1. 0 \in T
  OBVIOUS
<1>2. ASSUME NEW k \in Nat, k \in T PROVE k + 1 \in T
  <2> SUFFICES ASSUME k + 1 <= N PROVE h[k + 1] \in S
    OBVIOUS
  <2>1. k + 1 \in 1 .. N /\ (k + 1) - 1 = k /\ h[k] \in S
    BY <1>2
  <2> QED BY <2>1
<1> HIDE DEF T
<1>3. Nat \subseteq T
  BY <1>1, <1>2, Induction
<1> USE DEF T
<1> QED BY <1>3

(***************************************************************************)
(* What holds of no elements, and of one more, holds of any sequence.      *)
(***************************************************************************)
LEMMA SequenceInduction ==
  ASSUME NEW E, NEW T, <<>> \in T, \A s \in Seq(E), x \in E : s \in T => Append(s, x) \in T
  PROVE  Seq(E) \subseteq T
<1> SUFFICES ASSUME NEW s \in Seq(E) PROVE s \in T
  OBVIOUS
<1> DEFINE U == {n \in Nat : n <= Len(s) => SubSeq(s, 1, n) \in T}
<1>0. Len(s) \in Nat
  OBVIOUS
<1>1. SubSeq(s, 1, 0) = <<>>
  OBVIOUS
<1>2. 0 \in U
  BY <1>1
<1>3. ASSUME NEW n \in Nat, n \in U PROVE n + 1 \in U
  <2> SUFFICES ASSUME n + 1 <= Len(s) PROVE SubSeq(s, 1, n + 1) \in T
    OBVIOUS
  <2>1. SubSeq(s, 1, n) \in T /\ SubSeq(s, 1, n) \in Seq(E) /\ s[n + 1] \in E
    BY <1>0, <1>3
  <2>2. SubSeq(s, 1, n + 1) = Append(SubSeq(s, 1, n), s[n + 1])
    BY <1>0
  <2> QED
    BY <2>1, <2>2
<1>4. Nat \subseteq U
  <2> HIDE DEF U
  <2> QED
    BY <1>2, <1>3, Induction
<1>5. SubSeq(s, 1, Len(s)) = s
  BY <1>0
<1>6. Len(s) \in U
  BY <1>0, <1>4
<1>7. SubSeq(s, 1, Len(s)) \in T
  <2> DEFINE n == Len(s)
  <2>1. n \in U /\ n <= Len(s)
    BY <1>0, <1>6
  <2> HIDE DEF n
  <2>2. SubSeq(s, 1, n) \in T
    BY <2>1
  <2> QED
    BY <2>2 DEF n
<1> QED
  BY <1>5, <1>7

-----------------------------------------------------------------------------
(* Filters of sequences *)

LEMMA EachIn ==
  ASSUME NEW E, NEW F, NEW s \in Seq(E), NEW t, t = [i \in DOMAIN s |-> t[i]], \A i \in DOMAIN s : t[i] \in F
  PROVE  t \in Seq(F)
<1>1. DOMAIN s = 1 .. Len(s) /\ Len(s) \in Nat
  OBVIOUS
<1>2. t = [i \in 1 .. Len(s) |-> t[i]] /\ \A i \in 1 .. Len(s) : t[i] \in F
  BY <1>1
<1>3. t \in [1 .. Len(s) -> F]
  BY <1>2
<1> QED
  BY <1>1, <1>3

(***************************************************************************)
(* What Kept gives is what is left after the last element of taking the    *)
(* elements one after the other.                                           *)
(***************************************************************************)
LEMMA KeptFunction ==
  ASSUME NEW E, NEW s \in Seq(E), NEW S
  PROVE  \E f :
           /\ f[0] = <<>>
           /\ \A n \in 1 .. Len(s) : f[n] = IF s[n] \in S THEN Append(f[n - 1], s[n]) ELSE f[n - 1]
           /\ \A n \in 0 .. Len(s) : f[n] \in Seq(E)
           /\ Kept(s, S) = f[Len(s)]
<1> DEFINE step == [n \in 1 .. Len(s) |-> [t \in Seq(E) |-> IF s[n] \in S THEN Append(t, s[n]) ELSE t]]
<1>1. step \in [1 .. Len(s) -> [Seq(E) -> Seq(E)]]
  OBVIOUS
<1>a. <<>> \in Seq(E) /\ Len(s) \in Nat
  OBVIOUS
<1>2. PICK f \in [0 .. Len(s) -> Seq(E)] : f[0] = <<>> /\ \A n \in 1 .. Len(s) : f[n] = step[n][f[n - 1]]
  <2> HIDE DEF step
  <2> DEFINE N == Len(s)
             Q == Seq(E)
             a == <<>>
  <2>2. N \in Nat /\ a \in Q /\ step \in [1 .. N -> [Q -> Q]]
    BY <1>1, <1>a
  <2> HIDE DEF N, Q, a
  <2>3. \E f : IsIteration(f, N, Q, a, step)
    BY <2>2, Recursion
  <2> USE DEF N, Q, a
  <2> QED BY <2>3 DEF IsIteration
<1>3. \A n \in 1 .. Len(s) : f[n] = IF s[n] \in S THEN Append(f[n - 1], s[n]) ELSE f[n - 1]
  <2> TAKE n \in 1 .. Len(s)
  <2>1. f[n - 1] \in Seq(E)
    BY <1>2, <1>a
  <2>2. step[n][f[n - 1]] = IF s[n] \in S THEN Append(f[n - 1], s[n]) ELSE f[n - 1]
    BY <2>1
  <2> HIDE DEF step
  <2> QED BY <1>2, <2>2
<1> HIDE DEF step
<1> DEFINE Is(g) == g = [n \in 0 .. Len(s) |-> IF n = 0 THEN <<>> ELSE IF s[n] \in S THEN Append(g[n - 1], s[n]) ELSE g[n - 1]]
<1> DEFINE h == CHOOSE g : Is(g)
<1>4. Is(f)
  <2> DEFINE k == [n \in 0 .. Len(s) |-> IF n = 0 THEN <<>> ELSE IF s[n] \in S THEN Append(f[n - 1], s[n]) ELSE f[n - 1]]
  <2>1. \A n \in 0 .. Len(s) : f[n] = k[n]
    <3> TAKE n \in 0 .. Len(s)
    <3>1. n = 0 \/ n \in 1 .. Len(s)
      BY <1>a
    <3> QED BY <1>2, <1>3, <3>1
  <2>2. f = [n \in 0 .. Len(s) |-> f[n]] /\ k = [n \in 0 .. Len(s) |-> k[n]]
    BY <1>2, <1>a
  <2>3. f = k
    <3> HIDE DEF k
    <3> QED BY <2>1, <2>2
  <2> QED BY <2>3
<1>5. Is(h)
  <2> HIDE DEF Is
  <2> QED BY <1>4
<1>6. Kept(s, S) = h[Len(s)]
  BY DEF Kept
<1> HIDE DEF h
<1>7. h[0] = <<>> /\ \A n \in 1 .. Len(s) : h[n] = IF s[n] \in S THEN Append(h[n - 1], s[n]) ELSE h[n - 1]
  <2> DEFINE e(g, n) == IF n = 0 THEN <<>> ELSE IF s[n] \in S THEN Append(g[n - 1], s[n]) ELSE g[n - 1]
  <2>1. h = [n \in 0 .. Len(s) |-> e(h, n)]
    BY <1>5
  <2>2. \A n \in 0 .. Len(s) : h[n] = e(h, n)
    <3> HIDE DEF e
    <3> QED BY <2>1
  <2>3. h[0] = e(h, 0)
    BY <2>2, <1>a
  <2>4. ASSUME NEW n \in 1 .. Len(s) PROVE h[n] = IF s[n] \in S THEN Append(h[n - 1], s[n]) ELSE h[n - 1]
    <3>1. n \in 0 .. Len(s) /\ n # 0
      OBVIOUS
    <3>2. h[n] = e(h, n)
      BY <2>2, <3>1
    <3> QED BY <3>1, <3>2
  <2> QED BY <2>3, <2>4
<1>8. \A n \in 0 .. Len(s) : h[n] \in Seq(E)
  <2>1. ASSUME NEW n \in 1 .. Len(s), h[n - 1] \in Seq(E) PROVE h[n] \in Seq(E)
    <3>1. s[n] \in E
      OBVIOUS
    <3>2. Append(h[n - 1], s[n]) \in Seq(E)
      BY <2>1, <3>1
    <3> QED BY <1>7, <2>1, <3>2
  <2> DEFINE N == Len(s)
             Q == Seq(E)
             a == <<>>
  <2>2. N \in Nat /\ a \in Q /\ h[0] = a /\ \A n \in 1 .. N : h[n - 1] \in Q => h[n] \in Q
    BY <1>7, <1>a, <2>1
  <2> HIDE DEF N, Q, a
  <2>3. \A n \in 0 .. N : h[n] \in Q
    BY <2>2, Recursive
  <2> USE DEF N, Q, a
  <2> QED BY <2>3
<1> QED BY <1>6, <1>7, <1>8

LEMMA KeptOfEmpty ==
  ASSUME NEW E, NEW s \in Seq(E), NEW S
  PROVE  Len(s) = 0 => Kept(s, S) = <<>>
<1>1. PICK f :
        /\ f[0] = <<>>
        /\ \A n \in 1 .. Len(s) : f[n] = IF s[n] \in S THEN Append(f[n - 1], s[n]) ELSE f[n - 1]
        /\ \A n \in 0 .. Len(s) : f[n] \in Seq(E)
        /\ Kept(s, S) = f[Len(s)]
  BY KeptFunction
<1> QED
  BY <1>1

LEMMA KeptNone == ASSUME NEW S PROVE Kept(<<>>, S) = <<>>
<1>1. <<>> \in Seq({}) /\ Len(<<>>) = 0
  OBVIOUS
<1>2. \A s \in Seq({}) : Len(s) = 0 => Kept(s, S) = <<>>
  BY KeptOfEmpty
<1> QED
  BY <1>1, <1>2

(***************************************************************************)
(* An element more is kept at the end if it is one of those to keep.       *)
(***************************************************************************)
LEMMA KeptAppend ==
  ASSUME NEW E, NEW s \in Seq(E), NEW x \in E, NEW S
  PROVE  Kept(Append(s, x), S) = IF x \in S THEN Append(Kept(s, S), x) ELSE Kept(s, S)
<1> DEFINE t == Append(s, x)
<1>0. /\ t \in Seq(E) /\ Len(s) \in Nat /\ Len(t) = Len(s) + 1 /\ t[Len(s) + 1] = x
      /\ \A n \in 1 .. Len(s) : t[n] = s[n]
  OBVIOUS
<1> HIDE DEF t
<1>1. PICK f : /\ f[0] = <<>>
               /\ \A n \in 1 .. Len(s) : f[n] = IF s[n] \in S THEN Append(f[n - 1], s[n]) ELSE f[n - 1]
               /\ Kept(s, S) = f[Len(s)]
  BY KeptFunction
<1>2. PICK g : /\ g[0] = <<>>
               /\ \A n \in 1 .. Len(t) : g[n] = IF t[n] \in S THEN Append(g[n - 1], t[n]) ELSE g[n - 1]
               /\ Kept(t, S) = g[Len(t)]
  BY <1>0, KeptFunction
<1> DEFINE T == {n \in Nat : n <= Len(s) => g[n] = f[n]}
<1>3. 0 \in T
  BY <1>1, <1>2
<1>4. ASSUME NEW n \in Nat, n \in T PROVE n + 1 \in T
  <2> SUFFICES ASSUME n + 1 <= Len(s) PROVE g[n + 1] = f[n + 1]
    OBVIOUS
  <2>1. n + 1 \in 1 .. Len(s) /\ n + 1 \in 1 .. Len(t) /\ (n + 1) - 1 = n /\ g[n] = f[n]
    BY <1>0, <1>4
  <2>2. t[n + 1] = s[n + 1]
    BY <1>0, <2>1
  <2> QED
    BY <1>1, <1>2, <2>1, <2>2
<1>5. Nat \subseteq T
  <2> HIDE DEF T
  <2> QED
    BY <1>3, <1>4, Induction
<1>6. g[Len(s)] = f[Len(s)]
  BY <1>0, <1>5
<1>7. Len(t) \in 1 .. Len(t) /\ Len(t) - 1 = Len(s) /\ t[Len(t)] = x
  BY <1>0
<1> QED
  BY <1>1, <1>2, <1>6, <1>7 DEF t

LEMMA SetOfNone == ToSet(<<>>) = {}
BY DEF ToSet

LEMMA SetOfAppend ==
  ASSUME NEW E, NEW s \in Seq(E), NEW x \in E
  PROVE  ToSet(Append(s, x)) = ToSet(s) \cup {x}
<1>1. /\ Len(s) \in Nat /\ Len(Append(s, x)) = Len(s) + 1 /\ Append(s, x)[Len(s) + 1] = x
      /\ \A n \in 1 .. Len(s) : Append(s, x)[n] = s[n]
      /\ DOMAIN s = 1 .. Len(s) /\ DOMAIN Append(s, x) = 1 .. Len(s) + 1
  OBVIOUS
<1>2. 1 .. Len(s) + 1 = 1 .. Len(s) \cup {Len(s) + 1}
  BY <1>1
<1> QED
  BY <1>1, <1>2 DEF ToSet

(***************************************************************************)
(* What is kept are the elements that are in the set.                      *)
(***************************************************************************)
LEMMA KeptFacts ==
  ASSUME NEW E, NEW S, NEW s \in Seq(E)
  PROVE  Kept(s, S) \in Seq(E) /\ ToSet(Kept(s, S)) = ToSet(s) \cap S
<1> DEFINE T == {t \in Seq(E) : Kept(t, S) \in Seq(E) /\ ToSet(Kept(t, S)) = ToSet(t) \cap S}
<1>0. <<>> \in Seq(E)
  OBVIOUS
<1>1. <<>> \in T
  BY <1>0, KeptNone, SetOfNone
<1>2. ASSUME NEW t \in Seq(E), NEW x \in E, t \in T PROVE Append(t, x) \in T
  <2>0. Append(t, x) \in Seq(E)
    OBVIOUS
  <2>1. Kept(Append(t, x), S) = IF x \in S THEN Append(Kept(t, S), x) ELSE Kept(t, S)
    BY KeptAppend
  <2>2. ToSet(Append(t, x)) = ToSet(t) \cup {x} /\ ToSet(Append(Kept(t, S), x)) = ToSet(Kept(t, S)) \cup {x}
    BY <1>2, SetOfAppend
  <2>3. Append(Kept(t, S), x) \in Seq(E)
    BY <1>2
  <2>4. CASE x \in S
    BY <2>0, <1>2, <2>1, <2>2, <2>3, <2>4
  <2>5. CASE x \notin S
    BY <2>0, <1>2, <2>1, <2>2, <2>5
  <2> QED
    BY <2>4, <2>5
<1>3. Seq(E) \subseteq T
  <2> HIDE DEF T
  <2> QED
    BY <1>1, <1>2, SequenceInduction
<1>4. s \in T
  BY <1>3
<1> QED
  BY <1>4

(***************************************************************************)
(* Where all are to keep nothing changes, where none is nothing is left.   *)
(***************************************************************************)
LEMMA KeptAll ==
  ASSUME NEW E, NEW S, NEW s \in Seq(E), ToSet(s) \subseteq S
  PROVE  Kept(s, S) = s
<1> DEFINE T == {t \in Seq(E) : ToSet(t) \subseteq S => Kept(t, S) = t}
<1>0. <<>> \in Seq(E)
  OBVIOUS
<1>1. <<>> \in T
  BY <1>0, KeptNone
<1>2. ASSUME NEW t \in Seq(E), NEW x \in E, t \in T PROVE Append(t, x) \in T
  <2>0. Append(t, x) \in Seq(E)
    OBVIOUS
  <2> SUFFICES ASSUME ToSet(Append(t, x)) \subseteq S PROVE Kept(Append(t, x), S) = Append(t, x)
    BY <2>0
  <2>1. Kept(Append(t, x), S) = IF x \in S THEN Append(Kept(t, S), x) ELSE Kept(t, S)
    BY KeptAppend
  <2>2. ToSet(Append(t, x)) = ToSet(t) \cup {x}
    BY SetOfAppend
  <2>3. ToSet(t) \subseteq S /\ x \in S
    BY <2>2
  <2>4. Kept(t, S) = t
    BY <1>2, <2>3
  <2> QED
    BY <2>1, <2>3, <2>4
<1>3. Seq(E) \subseteq T
  <2> HIDE DEF T
  <2> QED
    BY <1>1, <1>2, SequenceInduction
<1>4. s \in T
  BY <1>3
<1> QED
  BY <1>4

LEMMA KeptNothing ==
  ASSUME NEW E, NEW S, NEW s \in Seq(E), ToSet(s) \cap S = {}
  PROVE  Kept(s, S) = <<>>
<1> DEFINE T == {t \in Seq(E) : ToSet(t) \cap S = {} => Kept(t, S) = <<>>}
<1>0. <<>> \in Seq(E)
  OBVIOUS
<1>1. <<>> \in T
  BY <1>0, KeptNone
<1>2. ASSUME NEW t \in Seq(E), NEW x \in E, t \in T PROVE Append(t, x) \in T
  <2>0. Append(t, x) \in Seq(E)
    OBVIOUS
  <2> SUFFICES ASSUME ToSet(Append(t, x)) \cap S = {} PROVE Kept(Append(t, x), S) = <<>>
    BY <2>0
  <2>1. Kept(Append(t, x), S) = IF x \in S THEN Append(Kept(t, S), x) ELSE Kept(t, S)
    BY KeptAppend
  <2>2. ToSet(Append(t, x)) = ToSet(t) \cup {x}
    BY SetOfAppend
  <2>3. ToSet(t) \cap S = {} /\ x \notin S
    BY <2>2
  <2>4. Kept(t, S) = <<>>
    BY <1>2, <2>3
  <2> QED
    BY <2>1, <2>3, <2>4
<1>3. Seq(E) \subseteq T
  <2> HIDE DEF T
  <2> QED
    BY <1>1, <1>2, SequenceInduction
<1>4. s \in T
  BY <1>3
<1> QED
  BY <1>4

LEMMA AppendToConcat ==
  ASSUME NEW E, NEW a \in Seq(E), NEW b \in Seq(E), NEW x \in E
  PROVE  a \o Append(b, x) = Append(a \o b, x) /\ a \o b \in Seq(E)
OBVIOUS

(***************************************************************************)
(* What is kept of two sequences is what is kept of each.                  *)
(***************************************************************************)
LEMMA KeptOfBoth ==
  ASSUME NEW E, NEW S, NEW a \in Seq(E), NEW b \in Seq(E)
  PROVE  Kept(a \o b, S) = Kept(a, S) \o Kept(b, S)
<1> DEFINE T == {t \in Seq(E) : Kept(a \o t, S) = Kept(a, S) \o Kept(t, S)}
<1>0. <<>> \in Seq(E)
  OBVIOUS
<1>1. <<>> \in T
  <2>1. Kept(a, S) \in Seq(E) /\ a \o <<>> = a
    BY KeptFacts
  <2>2. Kept(a, S) \o <<>> = Kept(a, S)
    BY <2>1
  <2> QED
    BY <1>0, <2>1, <2>2, KeptNone
<1>2. ASSUME NEW t \in Seq(E), NEW x \in E, t \in T PROVE Append(t, x) \in T
  <2>0. Append(t, x) \in Seq(E)
    OBVIOUS
  <2>1. Kept(Append(t, x), S) = IF x \in S THEN Append(Kept(t, S), x) ELSE Kept(t, S)
    BY KeptAppend
  <2>2. a \o Append(t, x) = Append(a \o t, x) /\ a \o t \in Seq(E)
    BY AppendToConcat
  <2>3. Kept(Append(a \o t, x), S) = IF x \in S THEN Append(Kept(a \o t, S), x) ELSE Kept(a \o t, S)
    BY <2>2, KeptAppend
  <2>4. Kept(a, S) \in Seq(E) /\ Kept(t, S) \in Seq(E)
    BY KeptFacts
  <2>5. Kept(a, S) \o Append(Kept(t, S), x) = Append(Kept(a, S) \o Kept(t, S), x)
    BY <2>4, AppendToConcat
  <2>6. Kept(a \o t, S) = Kept(a, S) \o Kept(t, S)
    BY <1>2
  <2> QED
    BY <2>0, <2>1, <2>2, <2>3, <2>5, <2>6
<1>3. Seq(E) \subseteq T
  <2> HIDE DEF T
  <2> QED
    BY <1>1, <1>2, SequenceInduction
<1> QED
  BY <1>3

LEMMA SetOfBoth ==
  ASSUME NEW E, NEW a \in Seq(E), NEW b \in Seq(E)
  PROVE  a \o b \in Seq(E) /\ ToSet(a \o b) = ToSet(a) \cup ToSet(b)
<1> DEFINE T == {t \in Seq(E) : ToSet(a \o t) = ToSet(a) \cup ToSet(t)}
<1>0. <<>> \in Seq(E)
  OBVIOUS
<1>1. <<>> \in T
  BY <1>0, SetOfNone
<1>2. ASSUME NEW t \in Seq(E), NEW x \in E, t \in T PROVE Append(t, x) \in T
  <2>0. Append(t, x) \in Seq(E)
    OBVIOUS
  <2>1. a \o Append(t, x) = Append(a \o t, x) /\ a \o t \in Seq(E)
    BY AppendToConcat
  <2>2. ToSet(Append(t, x)) = ToSet(t) \cup {x}
    BY SetOfAppend
  <2>3. ToSet(Append(a \o t, x)) = ToSet(a \o t) \cup {x}
    <3> DEFINE u == a \o t
    <3>1. u \in Seq(E)
      BY <2>1
    <3> HIDE DEF u
    <3>2. ToSet(Append(u, x)) = ToSet(u) \cup {x}
      BY <3>1, SetOfAppend
    <3> QED
      BY <3>2 DEF u
  <2> QED
    BY <2>0, <1>2, <2>1, <2>2, <2>3
<1>3. Seq(E) \subseteq T
  <2> HIDE DEF T
  <2> QED
    BY <1>1, <1>2, SequenceInduction
<1> QED
  BY <1>3, AppendToConcat

(***************************************************************************)
(* Only which elements are to keep matters.                                *)
(***************************************************************************)
LEMMA KeptSame ==
  ASSUME NEW E, NEW R, NEW S, NEW s \in Seq(E), ToSet(s) \cap R = ToSet(s) \cap S
  PROVE  Kept(s, R) = Kept(s, S)
<1> DEFINE T == {t \in Seq(E) : ToSet(t) \cap R = ToSet(t) \cap S => Kept(t, R) = Kept(t, S)}
<1>0. <<>> \in Seq(E)
  OBVIOUS
<1>1. <<>> \in T
  BY <1>0, KeptNone
<1>2. ASSUME NEW t \in Seq(E), NEW x \in E, t \in T PROVE Append(t, x) \in T
  <2>0. Append(t, x) \in Seq(E)
    OBVIOUS
  <2> SUFFICES ASSUME ToSet(Append(t, x)) \cap R = ToSet(Append(t, x)) \cap S
               PROVE  Kept(Append(t, x), R) = Kept(Append(t, x), S)
    BY <2>0
  <2>1. /\ Kept(Append(t, x), R) = IF x \in R THEN Append(Kept(t, R), x) ELSE Kept(t, R)
        /\ Kept(Append(t, x), S) = IF x \in S THEN Append(Kept(t, S), x) ELSE Kept(t, S)
    BY KeptAppend
  <2>2. ToSet(Append(t, x)) = ToSet(t) \cup {x}
    BY SetOfAppend
  <2>3. (x \in R <=> x \in S) /\ ToSet(t) \cap R = ToSet(t) \cap S
    BY <2>2
  <2>4. Kept(t, R) = Kept(t, S)
    BY <1>2, <2>3
  <2> QED
    BY <2>1, <2>3, <2>4
<1>3. Seq(E) \subseteq T
  <2> HIDE DEF T
  <2> QED
    BY <1>1, <1>2, SequenceInduction
<1>4. s \in T
  BY <1>3
<1> QED
  BY <1>4

(***************************************************************************)
(* The lines that give headers: of the headers that are kept, the lines.   *)
(***************************************************************************)
LinesGiving(hs) == [i \in DOMAIN hs |-> [kind |-> "header", about |-> hs[i]]]

LEMMA LinesGivingAppend ==
  ASSUME NEW E, NEW s \in Seq(E), NEW x \in E
  PROVE  LinesGiving(Append(s, x)) = Append(LinesGiving(s), [kind |-> "header", about |-> x])
<1> DEFINE t == Append(s, x)
           l == [kind |-> "header", about |-> x]
<1>0. /\ t \in Seq(E) /\ Len(s) \in Nat /\ Len(t) = Len(s) + 1 /\ t[Len(s) + 1] = x
      /\ DOMAIN s = 1 .. Len(s) /\ DOMAIN t = 1 .. Len(s) + 1
      /\ \A n \in 1 .. Len(s) : t[n] = s[n]
  OBVIOUS
<1> HIDE DEF t
<1>1. /\ DOMAIN LinesGiving(s) = 1 .. Len(s)
      /\ LinesGiving(s) \in Seq([kind : {"header"}, about : E]) /\ Len(LinesGiving(s)) = Len(s)
      /\ \A n \in 1 .. Len(s) : LinesGiving(s)[n] = [kind |-> "header", about |-> s[n]]
  BY <1>0 DEF LinesGiving
<1>2. /\ DOMAIN LinesGiving(t) = 1 .. Len(s) + 1
      /\ LinesGiving(t) \in Seq([kind : {"header"}, about : E]) /\ Len(LinesGiving(t)) = Len(s) + 1
      /\ \A n \in 1 .. Len(s) + 1 : LinesGiving(t)[n] = [kind |-> "header", about |-> t[n]]
  BY <1>0 DEF LinesGiving
<1> DEFINE a == LinesGiving(s)
           b == LinesGiving(t)
<1> HIDE DEF a, b
<1>3. /\ Append(a, l) \in Seq([kind : {"header"}, about : E]) /\ Len(Append(a, l)) = Len(s) + 1
      /\ \A n \in 1 .. Len(s) : Append(a, l)[n] = a[n]
      /\ Append(a, l)[Len(s) + 1] = l
  BY <1>0, <1>1 DEF a
<1>4. \A n \in 1 .. Len(s) + 1 : b[n] = Append(a, l)[n]
  <2> TAKE n \in 1 .. Len(s) + 1
  <2>1. n \in 1 .. Len(s) \/ n = Len(s) + 1
    BY <1>0
  <2> QED
    BY <1>0, <1>1, <1>2, <1>3, <2>1 DEF a, b
<1>5. b \in Seq([kind : {"header"}, about : E]) /\ Len(b) = Len(s) + 1
  BY <1>2 DEF b
<1>6. b = Append(a, l)
  BY <1>0, <1>3, <1>4, <1>5, SeqEqual
<1> QED
  BY <1>6 DEF a, b, t

LEMMA KeptLines ==
  ASSUME NEW E, NEW S, NEW R, NEW s \in Seq(E),
         \A x \in E : [kind |-> "header", about |-> x] \in R <=> x \in S
  PROVE  Kept(LinesGiving(s), R) = LinesGiving(Kept(s, S))
<1> DEFINE T == {t \in Seq(E) : Kept(LinesGiving(t), R) = LinesGiving(Kept(t, S))}
<1>0. <<>> \in Seq(E) /\ LinesGiving(<<>>) = <<>>
  BY DEF LinesGiving
<1>1. <<>> \in T
  BY <1>0, KeptNone
<1>2. ASSUME NEW t \in Seq(E), NEW x \in E, t \in T PROVE Append(t, x) \in T
  <2> DEFINE l == [kind |-> "header", about |-> x]
             L == [kind : {"header"}, about : E]
  <2>a. Append(t, x) \in Seq(E) /\ l \in L /\ LinesGiving(t) \in Seq(L)
    <3>1. Append(t, x) \in Seq(E) /\ l \in L
      OBVIOUS
    <3>2. LinesGiving(t) = [i \in DOMAIN t |-> LinesGiving(t)[i]] /\ \A i \in DOMAIN t : LinesGiving(t)[i] \in L
      BY DEF LinesGiving
    <3> DEFINE u == LinesGiving(t)
    <3> HIDE DEF u, L, l
    <3>3. u = [i \in DOMAIN t |-> u[i]] /\ \A i \in DOMAIN t : u[i] \in L
      BY <3>2 DEF u
    <3>4. u \in Seq(L)
      BY <3>3, EachIn
    <3> QED
      BY <3>1, <3>4 DEF u
  <2>b. Kept(t, S) \in Seq(E)
    BY KeptFacts
  <2>0. Append(t, x) \in Seq(E) /\ l \in L /\ LinesGiving(t) \in Seq(L) /\ Kept(t, S) \in Seq(E)
    BY <2>a, <2>b
  <2>1. Kept(Append(t, x), S) = IF x \in S THEN Append(Kept(t, S), x) ELSE Kept(t, S)
    BY KeptAppend
  <2>2. LinesGiving(Append(t, x)) = Append(LinesGiving(t), l)
    BY LinesGivingAppend
  <2>3. LinesGiving(Append(Kept(t, S), x)) = Append(LinesGiving(Kept(t, S)), l)
    BY <2>0, LinesGivingAppend
  <2> HIDE DEF l, L
  <2>4. Kept(Append(LinesGiving(t), l), R)
          = IF l \in R THEN Append(Kept(LinesGiving(t), R), l) ELSE Kept(LinesGiving(t), R)
    BY <2>0, KeptAppend
  <2>5. l \in R <=> x \in S
    BY DEF l
  <2>6. Kept(LinesGiving(t), R) = LinesGiving(Kept(t, S))
    BY <1>2
  <2>7. Kept(LinesGiving(Append(t, x)), R) = LinesGiving(Kept(Append(t, x), S))
    BY <2>1, <2>2, <2>3, <2>4, <2>5, <2>6
  <2> QED
    BY <2>0, <2>7
<1>3. Seq(E) \subseteq T
  <2> HIDE DEF T
  <2> QED
    BY <1>1, <1>2, SequenceInduction
<1>4. s \in T
  BY <1>3
<1> QED
  BY <1>4

-----------------------------------------------------------------------------
(* What a request amounts to *)

NamesApart(ps) == \A i, j \in DOMAIN ps : ps[i].name = ps[j].name => i = j

LEMMA PutFacts ==
  ASSUME NEW E, \A h \in E : h.enabled, NEW ps \in Seq(E), NamesApart(ps), NEW h \in E
  PROVE  Put(ps, h) \in Seq(E) /\ NamesApart(Put(ps, h))
<1>1. CASE Has(ps, h.name)
  <2> DEFINE m == [i \in DOMAIN ps |-> IF ps[i].name = h.name THEN h ELSE ps[i]]
  <2>1. m \in Seq(E) /\ DOMAIN m = DOMAIN ps
    OBVIOUS
  <2>2. \A i \in DOMAIN ps : m[i].name = ps[i].name
    OBVIOUS
  <2>3. NamesApart(m)
    BY <2>1, <2>2 DEF NamesApart
  <2> QED
    BY <1>1, <2>1, <2>3 DEF Put
<1>2. CASE ~Has(ps, h.name)
  <2> DEFINE m == Append(ps, h)
  <2>1. /\ m \in Seq(E) /\ Len(ps) \in Nat /\ DOMAIN ps = 1 .. Len(ps) /\ DOMAIN m = 1 .. Len(ps) + 1
        /\ m[Len(ps) + 1] = h /\ \A i \in 1 .. Len(ps) : m[i] = ps[i]
    OBVIOUS
  <2>2. \A i \in 1 .. Len(ps) : ps[i] \in E /\ ps[i].name # h.name
    BY <1>2, <2>1 DEF Has
  <2>3. \A i \in 1 .. Len(ps) + 1 : i \in 1 .. Len(ps) \/ i = Len(ps) + 1
    BY <2>1
  <2> HIDE DEF m
  <2>4. NamesApart(m)
    BY <2>1, <2>2, <2>3 DEF NamesApart
  <2> QED
    BY <1>2, <2>1, <2>4 DEF Put, m
<1> QED
  BY <1>1, <1>2

LEMMA MapFacts ==
  ASSUME NEW E, \A h \in E : h.enabled, NEW s \in Seq(E)
  PROVE  Map(s) \in Seq(E) /\ NamesApart(Map(s))
<1> DEFINE Maps == {m \in Seq(E) : NamesApart(m)}
           step == [n \in 1 .. Len(s) |-> [m \in Maps |-> Put(m, s[n])]]
<1>a. <<>> \in Maps /\ Len(s) \in Nat
  BY DEF NamesApart
<1>b. \A n \in 1 .. Len(s) : s[n] \in E
  OBVIOUS
<1>1. step \in [1 .. Len(s) -> [Maps -> Maps]]
  <2>1. ASSUME NEW n \in 1 .. Len(s), NEW m \in Maps PROVE Put(m, s[n]) \in Maps
    BY <1>b, PutFacts
  <2> QED
    BY <2>1
<1>2. PICK f : IsIteration(f, Len(s), Maps, <<>>, step)
  <2> DEFINE N == Len(s)
             a == <<>>
  <2>1. N \in Nat /\ a \in Maps /\ step \in [1 .. N -> [Maps -> Maps]]
    BY <1>1, <1>a
  <2> HIDE DEF N, a, Maps, step
  <2>2. \E f : IsIteration(f, N, Maps, a, step)
    BY <2>1, Recursion
  <2> QED
    BY <2>2 DEF N, a
<1>3. /\ f \in [0 .. Len(s) -> Maps] /\ f[0] = <<>> /\ \A n \in 1 .. Len(s) : f[n] = Put(f[n - 1], s[n])
  <2>1. f \in [0 .. Len(s) -> Maps] /\ f[0] = <<>> /\ \A n \in 1 .. Len(s) : f[n] = step[n][f[n - 1]]
    BY <1>2 DEF IsIteration
  <2>2. ASSUME NEW n \in 1 .. Len(s) PROVE step[n][f[n - 1]] = Put(f[n - 1], s[n])
    <3> HIDE DEF Maps
    <3>1. n - 1 \in 0 .. Len(s)
      BY <1>a
    <3> QED
      BY <2>1, <3>1
  <2> HIDE DEF Maps, step
  <2> QED
    BY <2>1, <2>2
<1> HIDE DEF step, Maps
<1> DEFINE Is(g) == g = [n \in 0 .. Len(s) |-> IF n = 0 THEN <<>> ELSE Put(g[n - 1], s[n])]
<1> DEFINE h == CHOOSE g : Is(g)
<1>4. Is(f)
  <2> DEFINE k == [n \in 0 .. Len(s) |-> IF n = 0 THEN <<>> ELSE Put(f[n - 1], s[n])]
  <2>1. \A n \in 0 .. Len(s) : f[n] = k[n]
    <3> TAKE n \in 0 .. Len(s)
    <3>1. n = 0 \/ n \in 1 .. Len(s)
      BY <1>a
    <3> QED
      BY <1>3, <3>1
  <2>2. f = [n \in 0 .. Len(s) |-> f[n]] /\ k = [n \in 0 .. Len(s) |-> k[n]]
    BY <1>3, <1>a
  <2>3. f = k
    <3> HIDE DEF k
    <3> QED
      BY <2>1, <2>2
  <2> QED
    BY <2>3
<1>5. Is(h)
  <2> HIDE DEF Is
  <2> QED
    BY <1>4
<1>6. Map(s) = h[Len(s)]
  BY DEF Map
<1> HIDE DEF h
<1>7. h[0] = <<>> /\ \A n \in 1 .. Len(s) : h[n] = Put(h[n - 1], s[n])
  <2> DEFINE e(g, n) == IF n = 0 THEN <<>> ELSE Put(g[n - 1], s[n])
  <2>1. h = [n \in 0 .. Len(s) |-> e(h, n)]
    BY <1>5
  <2>2. \A n \in 0 .. Len(s) : h[n] = e(h, n)
    <3> HIDE DEF e
    <3> QED
      BY <2>1
  <2>3. h[0] = e(h, 0)
    BY <2>2, <1>a
  <2>4. ASSUME NEW n \in 1 .. Len(s) PROVE h[n] = Put(h[n - 1], s[n])
    <3>1. n \in 0 .. Len(s) /\ n # 0
      OBVIOUS
    <3>2. h[n] = e(h, n)
      BY <2>2, <3>1
    <3> QED
      BY <3>1, <3>2
  <2> QED
    BY <2>3, <2>4
<1>8. \A n \in 0 .. Len(s) : h[n] \in Maps
  <2>1. ASSUME NEW n \in 1 .. Len(s), h[n - 1] \in Maps PROVE h[n] \in Maps
    BY <1>7, <1>b, <2>1, PutFacts DEF Maps
  <2> DEFINE N == Len(s)
             a == <<>>
  <2>2. N \in Nat /\ a \in Maps /\ h[0] = a /\ \A n \in 1 .. N : h[n - 1] \in Maps => h[n] \in Maps
    BY <1>7, <1>a, <2>1
  <2> HIDE DEF N, a
  <2>3. \A n \in 0 .. N : h[n] \in Maps
    BY <2>2, Recursive
  <2> USE DEF N, a
  <2> QED
    BY <2>3
<1>9. h[Len(s)] \in Maps
  BY <1>8, <1>a
<1> QED
  BY <1>6, <1>9 DEF Maps

LEMMA EnabledFacts ==
  ASSUME NEW ps \in Seq(Pairs)
  PROVE  Enabled(ps) \in Seq(Pairs) /\ ToSet(Enabled(ps)) = {p \in ToSet(ps) : p.enabled}
<1>1. /\ Kept(ps, {p \in ToSet(ps) : p.enabled}) \in Seq(Pairs)
      /\ ToSet(Kept(ps, {p \in ToSet(ps) : p.enabled})) = ToSet(ps) \cap {p \in ToSet(ps) : p.enabled}
  BY KeptFacts
<1> QED
  BY <1>1 DEF Enabled

LEMMA WithoutFacts ==
  ASSUME NEW ps \in Seq(Pairs), NEW n
  PROVE  Without(ps, n) \in Seq(Pairs) /\ ToSet(Without(ps, n)) = {p \in ToSet(ps) : p.name # n}
<1>1. /\ Kept(ps, {p \in ToSet(ps) : p.name # n}) \in Seq(Pairs)
      /\ ToSet(Kept(ps, {p \in ToSet(ps) : p.name # n})) = ToSet(ps) \cap {p \in ToSet(ps) : p.name # n}
  BY KeptFacts
<1> QED
  BY <1>1 DEF Without

LEMMA InPairs ==
  ASSUME NEW E, NEW ps \in Seq(E)
  PROVE  /\ ToSet(ps) \subseteq E /\ ps \in Seq(ToSet(ps))
         /\ \A i \in DOMAIN ps : ps[i] \in ToSet(ps) /\ ps[i] \in E
         /\ \A p \in ToSet(ps) : \E i \in DOMAIN ps : ps[i] = p
<1>1. /\ DOMAIN ps = 1 .. Len(ps) /\ Len(ps) \in Nat /\ \A i \in 1 .. Len(ps) : ps[i] \in E
      /\ ps = [i \in 1 .. Len(ps) |-> ps[i]]
  OBVIOUS
<1>2. \A i \in DOMAIN ps : ps[i] \in ToSet(ps)
  BY DEF ToSet
<1>3. ps \in Seq(ToSet(ps))
  <2> DEFINE T == ToSet(ps)
  <2>1. \A i \in 1 .. Len(ps) : ps[i] \in T
    BY <1>1, <1>2
  <2> HIDE DEF T
  <2>2. ps \in [1 .. Len(ps) -> T]
    BY <1>1, <2>1
  <2> QED
    BY <1>1, <2>2 DEF T
<1> QED
  BY <1>1, <1>2, <1>3 DEF ToSet

(***************************************************************************)
(* The headers that are sent are enabled ones of the request, each name    *)
(* once, and a type of the body.                                           *)
(***************************************************************************)
LEMMA HeadersFacts ==
  ASSUME NEW r \in StoredRequests
  PROVE  /\ HeadersOf(r) \in Seq(Pairs)
         /\ ToSet(HeadersOf(r)) \subseteq {h \in ToSet(r.headers) : h.enabled} \cup {Pair("content-type", "plain")}
         /\ Cardinality(Matches(HeadersOf(r), "content-type")) <= 1
         /\ r.body = "form-data" => Matches(HeadersOf(r), "content-type") = {}
<1> DEFINE used == Without(Enabled(r.headers), "content-length")
           own == Map(used)
           E == ToSet(used)
<1>1. r.headers \in Seq(Pairs)
  BY DEF StoredRequests
<1>2. Enabled(r.headers) \in Seq(Pairs) /\ ToSet(Enabled(r.headers)) = {p \in ToSet(r.headers) : p.enabled}
  BY <1>1, EnabledFacts
<1>3. used \in Seq(Pairs) /\ ToSet(used) \subseteq {p \in ToSet(r.headers) : p.enabled}
  BY <1>2, WithoutFacts
<1> HIDE DEF used
<1>4. used \in Seq(E) /\ E \subseteq Pairs /\ E \subseteq {h \in ToSet(r.headers) : h.enabled}
  BY <1>3, InPairs
<1> HIDE DEF E
<1>5. own \in Seq(E) /\ NamesApart(own)
  BY <1>4, MapFacts
<1> HIDE DEF own
<1>6. own \in Seq(Pairs) /\ ToSet(own) \subseteq E /\ \A i \in DOMAIN own : own[i] \in E
  <2>1. ToSet(own) \subseteq E /\ \A i \in DOMAIN own : own[i] \in E
    BY <1>5, InPairs
  <2>2. own \in Seq(Pairs)
    BY <1>4, <1>5
  <2> QED
    BY <2>1, <2>2
<1>7. HeadersOf(r) = IF r.body = "form-data" THEN Without(own, "content-type")
                     ELSE IF r.body # "none" /\ ~Has(own, "content-type")
                            THEN Append(own, Pair("content-type", "plain")) ELSE own
  BY DEF HeadersOf, own, used
<1>8. ASSUME NEW ps \in Seq(Pairs), NamesApart(ps) PROVE Cardinality(Matches(ps, "content-type")) <= 1
  <2> DEFINE M == Matches(ps, "content-type")
  <2>1. \A i, j \in M : i = j
    BY <1>8 DEF Matches, NamesApart
  <2> HIDE DEF M
  <2>2. M = {} \/ \E i : M = {i}
    <3> SUFFICES ASSUME NEW i \in M PROVE M = {i}
      OBVIOUS
    <3> QED
      BY <2>1
  <2>3. CASE M = {}
    <3>1. Cardinality(M) = 0
      BY <2>3, FS_EmptySet
    <3> QED
      BY <3>1 DEF M
  <2>4. CASE \E i : M = {i}
    <3>1. Cardinality(M) = 1
      BY <2>4, FS_Singleton
    <3> QED
      BY <3>1 DEF M
  <2> QED
    BY <2>2, <2>3, <2>4
<1>9. CASE r.body = "form-data"
  <2> DEFINE ps == Without(own, "content-type")
  <2>1. ps \in Seq(Pairs) /\ ToSet(ps) = {p \in ToSet(own) : p.name # "content-type"}
    BY <1>6, WithoutFacts
  <2> HIDE DEF ps
  <2>2. \A i \in DOMAIN ps : ps[i].name # "content-type"
    BY <2>1 DEF ToSet
  <2>3. Matches(ps, "content-type") = {}
    BY <2>2 DEF Matches
  <2>4. HeadersOf(r) = ps
    BY <1>7, <1>9 DEF ps
  <2>5. Cardinality(Matches(ps, "content-type")) = 0
    BY <2>3, FS_EmptySet
  <2> QED
    BY <1>4, <1>6, <2>1, <2>3, <2>4, <2>5
<1>10. CASE r.body # "form-data" /\ r.body # "none" /\ ~Has(own, "content-type")
  <2> DEFINE p == Pair("content-type", "plain")
             ps == Append(own, p)
  <2>1. p \in Pairs /\ p.name = "content-type"
    BY NamesInUse DEF Pairs, Pair
  <2> HIDE DEF p
  <2>2. /\ ps \in Seq(Pairs) /\ Len(own) \in Nat /\ DOMAIN own = 1 .. Len(own) /\ DOMAIN ps = 1 .. Len(own) + 1
        /\ ps[Len(own) + 1] = p /\ \A i \in 1 .. Len(own) : ps[i] = own[i]
    BY <1>6, <2>1
  <2>3. ToSet(ps) = ToSet(own) \cup {p}
    BY <1>6, <2>1, SetOfAppend
  <2> HIDE DEF ps
  <2>4. \A i \in 1 .. Len(own) : ps[i].name # "content-type"
    BY <1>4, <1>6, <1>10, <2>2 DEF Has
  <2>5. \A i \in 1 .. Len(own) + 1 : i \in 1 .. Len(own) \/ i = Len(own) + 1
    BY <2>2
  <2>6. NamesApart(ps)
    BY <1>5, <2>1, <2>2, <2>4, <2>5 DEF NamesApart
  <2>7. HeadersOf(r) = ps
    BY <1>7, <1>10 DEF ps, p
  <2> QED
    BY <1>4, <1>6, <1>8, <1>10, <2>2, <2>3, <2>6, <2>7 DEF p
<1>11. CASE r.body = "none" \/ (r.body # "form-data" /\ Has(own, "content-type"))
  <2>1. HeadersOf(r) = own
    BY <1>7, <1>11
  <2> QED
    BY <1>4, <1>5, <1>6, <1>8, <1>11, <2>1
<1> QED
  BY <1>9, <1>10, <1>11

Bodies == {"none", "text", "x-www-form-urlencoded", "form-data", "file"}

IsEffective(e) ==
  /\ e.headers \in Seq(Pairs) /\ e.fields \in Seq(Pairs) /\ e.files \in Nat /\ e.body \in Bodies
  /\ ~Fields(e) => e.fields = <<>>
  /\ Cardinality(Matches(e.headers, "content-type")) <= 1
  /\ e.body = "form-data" => Matches(e.headers, "content-type") = {}
  /\ e.files > 0 => e.body \in {"form-data", "file"}

LEMMA EffectiveFacts ==
  ASSUME NEW r \in StoredRequests
  PROVE  IsEffective(Effective(r))
<1> DEFINE e == Effective(r)
<1>1. /\ e.headers = HeadersOf(r) /\ e.body = EffectiveBody(r) /\ e.fields = FieldsOf(r) /\ e.files = FilesOf(r)
  BY DEF Effective
<1> HIDE DEF e
<1>2. /\ r.body \in Bodies /\ r.files \in Nat /\ r.fields \in Seq(Pairs)
  BY DEF StoredRequests, Bodies
<1>3. /\ EffectiveBody(r) \in Bodies
      /\ EffectiveBody(r) = "form-data" <=> r.body = "form-data"
      /\ EffectiveBody(r) = "file" <=> r.body = "file"
  BY <1>2 DEF EffectiveBody, Bodies
<1>4. FilesOf(r) \in Nat /\ (FilesOf(r) > 0 => r.body \in {"form-data", "file"})
  BY <1>2 DEF FilesOf, Bodies
<1>5. FieldsOf(r) \in Seq(Pairs) /\ (FieldsOf(r) = <<>> \/ EffectiveBody(r) \in {"form-data", "x-www-form-urlencoded"})
  <2>1. Enabled(r.fields) \in Seq(Pairs) /\ <<>> \in Seq(Pairs)
    BY <1>2, EnabledFacts
  <2> QED
    BY <2>1 DEF FieldsOf
<1> QED
  BY <1>1, <1>3, <1>4, <1>5, HeadersFacts DEF IsEffective, Fields, e

-----------------------------------------------------------------------------
(* The statements of a sample, and those of one kind *)

Kinds == {"url", "header", "field", "file", "content", "redirects", "verifies", "note", "type", "timeout"}
Subjects(e) ==
  {[query |-> e.query, userinfo |-> e.userinfo]} \cup ToSet(e.headers) \cup PairNames
    \cup {"<LOCAL_FILE>", "fields", "body", "follow", "stop", "yes", "no", "stays-on", "set", "multipart"}
Statements(e) == [kind : Kinds, about : Subjects(e)]
Pick(e, s, k) == Kept(s, {l \in Statements(e) : l.kind = k})

LEMMA PickIs ==
  ASSUME NEW e, NEW s \in Seq(Statements(e)), NEW k
  PROVE  Kept(s, {l \in ToSet(s) : l.kind = k}) = Pick(e, s, k)
<1>1. ToSet(s) \subseteq Statements(e)
  BY InPairs
<1>2. ToSet(s) \cap {l \in ToSet(s) : l.kind = k} = ToSet(s) \cap {l \in Statements(e) : l.kind = k}
  BY <1>1
<1> QED
  BY <1>2, KeptSame DEF Pick

LEMMA PickPure ==
  ASSUME NEW e, NEW s \in Seq(Statements(e)), NEW k, \A i \in DOMAIN s : s[i].kind = k
  PROVE  \A j : Pick(e, s, j) = IF j = k THEN s ELSE <<>>
<1> TAKE j
<1> DEFINE S == {l \in Statements(e) : l.kind = j}
<1>1. ToSet(s) \subseteq Statements(e) /\ \A l \in ToSet(s) : l.kind = k
  BY InPairs DEF ToSet
<1>2. CASE j = k
  <2>1. ToSet(s) \subseteq S
    BY <1>1, <1>2
  <2> HIDE DEF S
  <2>2. Kept(s, S) = s
    BY <2>1, KeptAll
  <2> QED
    BY <1>2, <2>2 DEF Pick, S
<1>3. CASE j # k
  <2>1. ToSet(s) \cap S = {}
    BY <1>1, <1>3
  <2> HIDE DEF S
  <2>2. Kept(s, S) = <<>>
    BY <2>1, KeptNothing
  <2> QED
    BY <1>3, <2>2 DEF Pick, S
<1> QED
  BY <1>2, <1>3

LEMMA PickLine ==
  ASSUME NEW e, NEW k \in Kinds, NEW a \in Subjects(e)
  PROVE  Line(k, a) \in Seq(Statements(e)) /\ \A j : Pick(e, Line(k, a), j) = IF j = k THEN Line(k, a) ELSE <<>>
<1>1. [kind |-> k, about |-> a] \in Statements(e)
  BY DEF Statements
<1>2. Line(k, a) \in Seq(Statements(e))
  BY <1>1 DEF Line
<1>3. \A i \in DOMAIN Line(k, a) : Line(k, a)[i].kind = k
  BY DEF Line
<1> QED
  BY <1>2, <1>3, PickPure

LEMMA PickNone ==
  ASSUME NEW e
  PROVE  <<>> \in Seq(Statements(e)) /\ \A j : Pick(e, <<>>, j) = <<>>
BY KeptNone DEF Pick

LEMMA PickIn ==
  ASSUME NEW e, NEW s \in Seq(Statements(e)), NEW k
  PROVE  Pick(e, s, k) \in Seq(Statements(e))
BY KeptFacts DEF Pick

LEMMA PickBoth ==
  ASSUME NEW e, NEW a \in Seq(Statements(e)), NEW b \in Seq(Statements(e))
  PROVE  a \o b \in Seq(Statements(e)) /\ \A k : Pick(e, a \o b, k) = Pick(e, a, k) \o Pick(e, b, k)
<1>1. a \o b \in Seq(Statements(e))
  BY AppendToConcat
<1>2. ASSUME NEW k PROVE Pick(e, a \o b, k) = Pick(e, a, k) \o Pick(e, b, k)
  BY KeptOfBoth DEF Pick
<1> QED
  BY <1>1, <1>2

LEMMA Alone ==
  ASSUME NEW E, NEW s \in Seq(E)
  PROVE  <<>> \o s = s /\ s \o <<>> = s
OBVIOUS

(***************************************************************************)
(* Where at most one of two has statements of a kind, both have those.     *)
(***************************************************************************)
LEMMA PickOne ==
  ASSUME NEW e, NEW a \in Seq(Statements(e)), NEW b \in Seq(Statements(e))
  PROVE  /\ a \o b \in Seq(Statements(e))
         /\ \A k : Pick(e, b, k) = <<>> => Pick(e, a \o b, k) = Pick(e, a, k)
         /\ \A k : Pick(e, a, k) = <<>> => Pick(e, a \o b, k) = Pick(e, b, k)
<1>1. a \o b \in Seq(Statements(e)) /\ \A k : Pick(e, a \o b, k) = Pick(e, a, k) \o Pick(e, b, k)
  BY PickBoth
<1>2. ASSUME NEW k
      PROVE  /\ Pick(e, a, k) \o <<>> = Pick(e, a, k)
             /\ <<>> \o Pick(e, b, k) = Pick(e, b, k)
  <2>1. Pick(e, a, k) \in Seq(Statements(e)) /\ Pick(e, b, k) \in Seq(Statements(e))
    BY PickIn
  <2> QED
    BY <2>1, Alone
<1> QED
  BY <1>1, <1>2

LEMMA Parts ==
  ASSUME NEW e, IsEffective(e)
  PROVE  /\ Url(e) \in Seq(Statements(e)) /\ \A k : Pick(e, Url(e), k) = IF k = "url" THEN Url(e) ELSE <<>>
         /\ HeaderLines(e) \in Seq(Statements(e))
         /\ \A k : Pick(e, HeaderLines(e), k) = IF k = "header" THEN HeaderLines(e) ELSE <<>>
         /\ FieldLines(e) \in Seq(Statements(e))
         /\ \A k : Pick(e, FieldLines(e), k) = IF k = "field" THEN FieldLines(e) ELSE <<>>
         /\ FileLines(e) \in Seq(Statements(e))
         /\ \A k : Pick(e, FileLines(e), k) = IF k = "file" THEN FileLines(e) ELSE <<>>
         /\ Redirects(e) \in Seq(Statements(e))
         /\ \A k : Pick(e, Redirects(e), k) = IF k = "redirects" THEN Redirects(e) ELSE <<>>
         /\ Verifies(e) \in Seq(Statements(e))
         /\ \A k : Pick(e, Verifies(e), k) = IF k = "verifies" THEN Verifies(e) ELSE <<>>
         /\ ContentLine(e) \in Seq(Statements(e))
         /\ \A k : Pick(e, ContentLine(e), k) = IF k = "content" THEN ContentLine(e) ELSE <<>>
         /\ Multipart(e) \in Seq(Statements(e))
         /\ \A k : Pick(e, Multipart(e), k) = IF k = "type" THEN Multipart(e) ELSE <<>>
<1>1. \A k \in Kinds, a \in Subjects(e) :
        Line(k, a) \in Seq(Statements(e)) /\ \A j : Pick(e, Line(k, a), j) = IF j = k THEN Line(k, a) ELSE <<>>
  BY PickLine
<1>2. <<>> \in Seq(Statements(e)) /\ \A j : Pick(e, <<>>, j) = <<>>
  BY PickNone
<1>3. /\ Kinds = {"url", "header", "field", "file", "content", "redirects", "verifies", "note", "type", "timeout"}
      /\ [query |-> e.query, userinfo |-> e.userinfo] \in Subjects(e) /\ ToSet(e.headers) \subseteq Subjects(e)
      /\ PairNames \subseteq Subjects(e)
      /\ {"<LOCAL_FILE>", "fields", "body", "follow", "stop", "yes", "no", "stays-on", "set", "multipart"}
           \subseteq Subjects(e)
  BY DEF Kinds, Subjects
<1>4. Url(e) \in Seq(Statements(e)) /\ \A k : Pick(e, Url(e), k) = IF k = "url" THEN Url(e) ELSE <<>>
  BY <1>1, <1>3 DEF Url
<1>5. /\ Redirects(e) \in Seq(Statements(e))
      /\ \A k : Pick(e, Redirects(e), k) = IF k = "redirects" THEN Redirects(e) ELSE <<>>
  BY <1>1, <1>3 DEF Redirects
<1>6. /\ Verifies(e) \in Seq(Statements(e))
      /\ \A k : Pick(e, Verifies(e), k) = IF k = "verifies" THEN Verifies(e) ELSE <<>>
  BY <1>1, <1>3 DEF Verifies
<1>7. /\ ContentLine(e) \in Seq(Statements(e))
      /\ \A k : Pick(e, ContentLine(e), k) = IF k = "content" THEN ContentLine(e) ELSE <<>>
  BY <1>1, <1>2, <1>3 DEF ContentLine, OnlyIf
<1>8. /\ Multipart(e) \in Seq(Statements(e))
      /\ \A k : Pick(e, Multipart(e), k) = IF k = "type" THEN Multipart(e) ELSE <<>>
  BY <1>1, <1>2, <1>3 DEF Multipart, OnlyIf
<1>9. /\ e.headers \in Seq(Pairs) /\ e.fields \in Seq(Pairs) /\ e.files \in Nat
      /\ \A i \in DOMAIN e.headers : e.headers[i] \in ToSet(e.headers)
  BY InPairs DEF IsEffective
<1>10. /\ HeaderLines(e) \in Seq(Statements(e))
       /\ \A k : Pick(e, HeaderLines(e), k) = IF k = "header" THEN HeaderLines(e) ELSE <<>>
  <2>1. \A i \in DOMAIN e.headers : [kind |-> "header", about |-> e.headers[i]] \in Statements(e)
    BY <1>3, <1>9 DEF Statements
  <2>2. HeaderLines(e) \in Seq(Statements(e))
    BY <1>9, <2>1 DEF HeaderLines
  <2>3. \A i \in DOMAIN HeaderLines(e) : HeaderLines(e)[i].kind = "header"
    BY DEF HeaderLines
  <2> QED
    BY <2>2, <2>3, PickPure
<1>11. /\ FieldLines(e) \in Seq(Statements(e))
       /\ \A k : Pick(e, FieldLines(e), k) = IF k = "field" THEN FieldLines(e) ELSE <<>>
  <2>a. \A i \in DOMAIN e.fields : e.fields[i] \in Pairs
    BY <1>9
  <2>0. \A i \in DOMAIN e.fields : e.fields[i].name \in PairNames
    BY <2>a DEF Pairs
  <2>1. \A i \in DOMAIN e.fields : [kind |-> "field", about |-> e.fields[i].name] \in Statements(e)
    BY <1>3, <2>0 DEF Statements
  <2>2. FieldLines(e) \in Seq(Statements(e))
    <3> DEFINE n == Len(e.fields)
               l == [i \in 1 .. n |-> [kind |-> "field", about |-> e.fields[i].name]]
    <3>1. n \in Nat /\ DOMAIN e.fields = 1 .. n
      BY <1>9
    <3> HIDE DEF n
    <3>2. l \in [1 .. n -> Statements(e)]
      BY <2>1, <3>1
    <3>3. FieldLines(e) = l
      BY <3>1 DEF FieldLines
    <3> HIDE DEF l
    <3> QED
      BY <3>1, <3>2, <3>3
  <2>3. \A i \in DOMAIN FieldLines(e) : FieldLines(e)[i].kind = "field"
    BY DEF FieldLines
  <2> QED
    BY <2>2, <2>3, PickPure
<1>12. /\ FileLines(e) \in Seq(Statements(e))
       /\ \A k : Pick(e, FileLines(e), k) = IF k = "file" THEN FileLines(e) ELSE <<>>
  <2>1. [kind |-> "file", about |-> "<LOCAL_FILE>"] \in Statements(e)
    BY <1>3 DEF Statements
  <2>2. FileLines(e) \in Seq(Statements(e))
    BY <1>9, <2>1 DEF FileLines
  <2>3. \A i \in DOMAIN FileLines(e) : FileLines(e)[i].kind = "file"
    BY DEF FileLines
  <2> QED
    BY <2>2, <2>3, PickPure
<1> QED
  BY <1>4, <1>5, <1>6, <1>7, <1>8, <1>10, <1>11, <1>12

-----------------------------------------------------------------------------
(* The samples of each language *)

LEMMA AlwaysVerifiesOrSays ==
  ASSUME NEW e
  PROVE  /\ AlwaysVerifies(e) \in Seq(Statements(e))
         /\ \A k : k # "verifies" /\ k # "note" => Pick(e, AlwaysVerifies(e), k) = <<>>
         /\ \/ Pick(e, AlwaysVerifies(e), "note") # <<>>
            \/ Pick(e, AlwaysVerifies(e), "verifies") = Verifies(e)
<1> DEFINE a == Line("verifies", "yes")
           n == Line("note", "stays-on")
           b == OnlyIf(~e.verifySSL, n)
<1>1. "verifies" \in Kinds /\ "note" \in Kinds /\ "yes" \in Subjects(e) /\ "stays-on" \in Subjects(e)
  BY DEF Kinds, Subjects
<1>2. a \in Seq(Statements(e)) /\ \A j : Pick(e, a, j) = IF j = "verifies" THEN a ELSE <<>>
  BY <1>1, PickLine
<1>3. n \in Seq(Statements(e)) /\ \A j : Pick(e, n, j) = IF j = "note" THEN n ELSE <<>>
  BY <1>1, PickLine
<1>4. n # <<>>
  BY DEF Line
<1> HIDE DEF n
<1>5. b = (IF e.verifySSL THEN <<>> ELSE n)
  BY DEF OnlyIf
<1>6. <<>> \in Seq(Statements(e)) /\ \A j : Pick(e, <<>>, j) = <<>>
  BY PickNone
<1>7. e.verifySSL => a = Verifies(e)
  BY DEF Verifies
<1>8. AlwaysVerifies(e) = a \o b
  BY DEF AlwaysVerifies, n
<1> HIDE DEF a, b
<1>9. b \in Seq(Statements(e)) /\ (\A j : j # "note" => Pick(e, b, j) = <<>>) /\ (e.verifySSL \/ Pick(e, b, "note") = n)
  BY <1>3, <1>5, <1>6
<1>10. /\ a \o b \in Seq(Statements(e))
       /\ \A k : Pick(e, b, k) = <<>> => Pick(e, a \o b, k) = Pick(e, a, k)
       /\ \A k : Pick(e, a, k) = <<>> => Pick(e, a \o b, k) = Pick(e, b, k)
  BY <1>2, <1>9, PickOne
<1>11. ASSUME NEW k, k # "verifies", k # "note" PROVE Pick(e, a \o b, k) = <<>>
  BY <1>2, <1>9, <1>10, <1>11
<1>12. ~e.verifySSL => Pick(e, a \o b, "note") # <<>>
  BY <1>2, <1>4, <1>9, <1>10
<1>13. e.verifySSL => Pick(e, a \o b, "verifies") = Verifies(e)
  BY <1>2, <1>7, <1>9, <1>10
<1> QED
  BY <1>8, <1>10, <1>11, <1>12, <1>13

CheckedPart(e, v) ==
  /\ v \in Seq(Statements(e))
  /\ \A k : k # "verifies" /\ k # "note" => Pick(e, v, k) = <<>>
  /\ Pick(e, v, "note") # <<>> \/ Pick(e, v, "verifies") = Verifies(e)

BodyPart(e, b) ==
  /\ b \in Seq(Statements(e))
  /\ \A k : k # "field" /\ k # "content" => Pick(e, b, k) = <<>>
  /\ Pick(e, b, "content") = Line("content", "fields") \/ Pick(e, b, "field") = FieldLines(e)
  /\ Fields(e) \/ e.files > 0 \/ Pick(e, b, "content") = ContentLine(e)

LEMMA BodyParts ==
  ASSUME NEW e, IsEffective(e)
  PROVE  /\ Fields(e) => BodyPart(e, FieldLines(e)) /\ BodyPart(e, Line("content", "fields"))
         /\ ~Fields(e) => BodyPart(e, ContentLine(e))
         /\ e.files > 0 => BodyPart(e, FieldLines(e))
<1>1. /\ FieldLines(e) \in Seq(Statements(e))
      /\ \A k : Pick(e, FieldLines(e), k) = IF k = "field" THEN FieldLines(e) ELSE <<>>
      /\ ContentLine(e) \in Seq(Statements(e))
      /\ \A k : Pick(e, ContentLine(e), k) = IF k = "content" THEN ContentLine(e) ELSE <<>>
  BY Parts
<1>2. "content" \in Kinds /\ "fields" \in Subjects(e)
  BY DEF Kinds, Subjects
<1>3. /\ Line("content", "fields") \in Seq(Statements(e))
      /\ \A k : Pick(e, Line("content", "fields"), k) = IF k = "content" THEN Line("content", "fields") ELSE <<>>
  BY <1>2, PickLine
<1>4. ~Fields(e) => FieldLines(e) = <<>>
  BY DEF IsEffective, FieldLines
<1> QED
  BY <1>1, <1>3, <1>4 DEF BodyPart

(***************************************************************************)
(* The statements of the kinds K are those of a sample, and there are no   *)
(* others.                                                                 *)
(***************************************************************************)
IsPart(e, s, hs, K) ==
  /\ s \in Seq(Statements(e))
  /\ \A k : k \notin K => Pick(e, s, k) = <<>>
  /\ "url" \in K => Pick(e, s, "url") = Url(e)
  /\ "header" \in K => Pick(e, s, "header") = hs
  /\ "redirects" \in K => Pick(e, s, "redirects") = Redirects(e)
  /\ "file" \in K => Pick(e, s, "file") = FileLines(e)
  /\ "content" \in K =>
       /\ "field" \in K
       /\ Pick(e, s, "content") = Line("content", "fields") \/ Pick(e, s, "field") = FieldLines(e)
       /\ Fields(e) \/ e.files > 0 \/ Pick(e, s, "content") = ContentLine(e)
  /\ "verifies" \in K => "note" \in K /\ (Pick(e, s, "note") # <<>> \/ Pick(e, s, "verifies") = Verifies(e))
  /\ "type" \in K => Pick(e, s, "type") = <<>> \/ Pick(e, s, "type") = Multipart(e)

LEMMA PartsTogether ==
  ASSUME NEW e, NEW hs, NEW K, NEW L, NEW a, NEW b, IsPart(e, a, hs, K), IsPart(e, b, hs, L),
         \A k \in K : k \notin L
  PROVE  IsPart(e, a \o b, hs, K \cup L)
<1> DEFINE s == a \o b
<1>1. a \in Seq(Statements(e)) /\ b \in Seq(Statements(e))
  BY DEF IsPart
<1>2. /\ s \in Seq(Statements(e))
      /\ \A k : Pick(e, b, k) = <<>> => Pick(e, s, k) = Pick(e, a, k)
      /\ \A k : Pick(e, a, k) = <<>> => Pick(e, s, k) = Pick(e, b, k)
  BY <1>1, PickOne
<1> HIDE DEF s
<1>3. /\ \A k : k \notin K => Pick(e, a, k) = <<>>
      /\ \A k : k \notin L => Pick(e, b, k) = <<>>
  BY DEF IsPart
<1>4. \A k \in K : Pick(e, s, k) = Pick(e, a, k)
  BY <1>2, <1>3
<1>5. \A k \in L : Pick(e, s, k) = Pick(e, b, k)
  BY <1>2, <1>3
<1>6. \A k : k \notin K \cup L => Pick(e, s, k) = <<>>
  BY <1>2, <1>3
<1>7. "url" \in K \cup L => Pick(e, s, "url") = Url(e)
  BY <1>4, <1>5 DEF IsPart
<1>8. "header" \in K \cup L => Pick(e, s, "header") = hs
  BY <1>4, <1>5 DEF IsPart
<1>9. "redirects" \in K \cup L => Pick(e, s, "redirects") = Redirects(e)
  BY <1>4, <1>5 DEF IsPart
<1>10. "file" \in K \cup L => Pick(e, s, "file") = FileLines(e)
  BY <1>4, <1>5 DEF IsPart
<1>11. "content" \in K \cup L =>
         /\ "field" \in K \cup L
         /\ Pick(e, s, "content") = Line("content", "fields") \/ Pick(e, s, "field") = FieldLines(e)
         /\ Fields(e) \/ e.files > 0 \/ Pick(e, s, "content") = ContentLine(e)
  BY <1>4, <1>5 DEF IsPart
<1>12. "verifies" \in K \cup L =>
         "note" \in K \cup L /\ (Pick(e, s, "note") # <<>> \/ Pick(e, s, "verifies") = Verifies(e))
  BY <1>4, <1>5 DEF IsPart
<1>13. "type" \in K \cup L => Pick(e, s, "type") = <<>> \/ Pick(e, s, "type") = Multipart(e)
  BY <1>4, <1>5 DEF IsPart
<1>14. IsPart(e, s, hs, K \cup L)
  BY <1>2, <1>6, <1>7, <1>8, <1>9, <1>10, <1>11, <1>12, <1>13 DEF IsPart
<1> QED
  BY <1>14 DEF s

(***************************************************************************)
(* The parts samples are made of.                                          *)
(***************************************************************************)
LEMMA SampleParts ==
  ASSUME NEW e, IsEffective(e), NEW hs
  PROVE  /\ IsPart(e, Url(e), hs, {"url"})
         /\ IsPart(e, Redirects(e), hs, {"redirects"})
         /\ IsPart(e, FileLines(e), hs, {"file"})
         /\ IsPart(e, Verifies(e), hs, {"verifies", "note"})
         /\ IsPart(e, AlwaysVerifies(e), hs, {"verifies", "note"})
         /\ IsPart(e, Multipart(e), hs, {"type"})
         /\ IsPart(e, Line("timeout", "set"), hs, {"timeout"})
         /\ \A b : BodyPart(e, b) => IsPart(e, b, hs, {"field", "content"})
<1>1. "timeout" \in Kinds /\ "set" \in Subjects(e)
  BY DEF Kinds, Subjects
<1>2. /\ Line("timeout", "set") \in Seq(Statements(e))
      /\ \A k : Pick(e, Line("timeout", "set"), k) = IF k = "timeout" THEN Line("timeout", "set") ELSE <<>>
  BY <1>1, PickLine
<1>3. IsPart(e, AlwaysVerifies(e), hs, {"verifies", "note"})
  BY AlwaysVerifiesOrSays DEF IsPart
<1>4. IsPart(e, Url(e), hs, {"url"})
  BY Parts DEF IsPart
<1>5. IsPart(e, FileLines(e), hs, {"file"})
  BY Parts DEF IsPart
<1>6. IsPart(e, Redirects(e), hs, {"redirects"})
  BY Parts DEF IsPart
<1>7. IsPart(e, Verifies(e), hs, {"verifies", "note"})
  BY Parts DEF IsPart
<1>8. IsPart(e, Multipart(e), hs, {"type"})
  BY Parts DEF IsPart
<1>9. IsPart(e, Line("timeout", "set"), hs, {"timeout"})
  BY <1>2 DEF IsPart
<1>10. ASSUME NEW b, BodyPart(e, b) PROVE IsPart(e, b, hs, {"field", "content"})
  BY <1>10 DEF IsPart, BodyPart
<1> QED
  BY <1>3, <1>4, <1>5, <1>6, <1>7, <1>8, <1>9, <1>10

LEMMA HeadersPart ==
  ASSUME NEW e, IsEffective(e)
  PROVE  IsPart(e, HeaderLines(e), HeaderLines(e), {"header"})
<1>1. /\ HeaderLines(e) \in Seq(Statements(e))
      /\ \A k : Pick(e, HeaderLines(e), k) = IF k = "header" THEN HeaderLines(e) ELSE <<>>
  BY Parts
<1> QED
  BY <1>1 DEF IsPart

LEMMA FetchParts ==
  ASSUME NEW e, IsEffective(e), ~(e.files > 0)
  PROVE  IsPart(e, Fetch(e), HeaderLines(e),
                {"url", "header", "field", "content", "redirects", "verifies", "note"})
<1> DEFINE u == Url(e)
           h == HeaderLines(e)
           b == FetchBody(e)
           r == Redirects(e)
           v == AlwaysVerifies(e)
           s1 == u \o h
           s2 == s1 \o b
           s3 == s2 \o r
           s4 == s3 \o v
<1>1. BodyPart(e, b)
  BY BodyParts DEF FetchBody
<1>2. Fetch(e) = s4
  BY DEF Fetch
<1>3. /\ IsPart(e, u, HeaderLines(e), {"url"})
      /\ IsPart(e, b, HeaderLines(e), {"field", "content"})
      /\ IsPart(e, r, HeaderLines(e), {"redirects"})
      /\ IsPart(e, v, HeaderLines(e), {"verifies", "note"})
  BY <1>1, SampleParts
<1>4. IsPart(e, h, HeaderLines(e), {"header"})
  BY HeadersPart
<1> DEFINE hs == HeaderLines(e)
<1> HIDE DEF hs, u, h, b, r, v
<1>5. IsPart(e, s1, hs, {"url"} \cup {"header"})
  BY <1>3, <1>4, PartsTogether DEF hs
<1> HIDE DEF s1
<1>6. IsPart(e, s2, hs, ({"url"} \cup {"header"}) \cup {"field", "content"})
  BY <1>3, <1>4, <1>5, PartsTogether DEF hs
<1> HIDE DEF s2
<1>7. IsPart(e, s3, hs, (({"url"} \cup {"header"}) \cup {"field", "content"}) \cup {"redirects"})
  BY <1>3, <1>4, <1>6, PartsTogether DEF hs
<1> HIDE DEF s3
<1>8. IsPart(e, s4, hs, ((({"url"} \cup {"header"}) \cup {"field", "content"}) \cup {"redirects"}) \cup {"verifies", "note"})
  BY <1>3, <1>4, <1>7, PartsTogether DEF hs
<1>9. ((({"url"} \cup {"header"}) \cup {"field", "content"}) \cup {"redirects"}) \cup {"verifies", "note"}
       = {"url", "header", "field", "content", "redirects", "verifies", "note"}
  OBVIOUS
<1> QED
  BY <1>2, <1>8, <1>9 DEF hs

LEMMA PythonParts ==
  ASSUME NEW e, IsEffective(e), ~(e.files > 0)
  PROVE  IsPart(e, Python(e), HeaderLines(e),
                {"url", "header", "field", "content", "redirects", "verifies", "note", "timeout"})
<1> DEFINE u == Url(e)
           h == HeaderLines(e)
           b == IF Fields(e) THEN FieldLines(e) ELSE ContentLine(e)
           r == Redirects(e)
           v == Verifies(e)
           t == Line("timeout", "set")
           s1 == u \o h
           s2 == s1 \o b
           s3 == s2 \o r
           s4 == s3 \o v
           s5 == s4 \o t
<1>1. BodyPart(e, b)
  BY BodyParts
<1>2. Python(e) = s5
  BY DEF Python
<1>3. /\ IsPart(e, u, HeaderLines(e), {"url"})
      /\ IsPart(e, b, HeaderLines(e), {"field", "content"})
      /\ IsPart(e, r, HeaderLines(e), {"redirects"})
      /\ IsPart(e, v, HeaderLines(e), {"verifies", "note"})
      /\ IsPart(e, t, HeaderLines(e), {"timeout"})
  BY <1>1, SampleParts
<1>4. IsPart(e, h, HeaderLines(e), {"header"})
  BY HeadersPart
<1> DEFINE hs == HeaderLines(e)
<1> HIDE DEF hs, u, h, b, r, v, t
<1>5. IsPart(e, s1, hs, {"url"} \cup {"header"})
  BY <1>3, <1>4, PartsTogether DEF hs
<1> HIDE DEF s1
<1>6. IsPart(e, s2, hs, ({"url"} \cup {"header"}) \cup {"field", "content"})
  BY <1>3, <1>4, <1>5, PartsTogether DEF hs
<1> HIDE DEF s2
<1>7. IsPart(e, s3, hs, (({"url"} \cup {"header"}) \cup {"field", "content"}) \cup {"redirects"})
  BY <1>3, <1>4, <1>6, PartsTogether DEF hs
<1> HIDE DEF s3
<1>8. IsPart(e, s4, hs, ((({"url"} \cup {"header"}) \cup {"field", "content"}) \cup {"redirects"}) \cup {"verifies", "note"})
  BY <1>3, <1>4, <1>7, PartsTogether DEF hs
<1> HIDE DEF s4
<1>9. IsPart(e, s5, hs, (((({"url"} \cup {"header"}) \cup {"field", "content"}) \cup {"redirects"}) \cup {"verifies", "note"}) \cup {"timeout"})
  BY <1>3, <1>4, <1>8, PartsTogether DEF hs
<1>10. (((({"url"} \cup {"header"}) \cup {"field", "content"}) \cup {"redirects"}) \cup {"verifies", "note"}) \cup {"timeout"}
       = {"url", "header", "field", "content", "redirects", "verifies", "note", "timeout"}
  OBVIOUS
<1> QED
  BY <1>2, <1>9, <1>10 DEF hs

LEMMA CurlParts ==
  ASSUME NEW e, IsEffective(e), ~(e.files > 0)
  PROVE  IsPart(e, CurlSample(e), HeaderLines(e),
                {"url", "header", "field", "content", "redirects", "verifies", "note"})
<1> DEFINE u == Url(e)
           r == Redirects(e)
           v == Verifies(e)
           h == HeaderLines(e)
           b == IF e.body = "form-data" THEN FieldLines(e)
                ELSE OnlyIf(e.body # "none",
                            Line("content", IF e.body = "x-www-form-urlencoded" THEN "fields" ELSE "body"))
           s1 == u \o r
           s2 == s1 \o v
           s3 == s2 \o h
           s4 == s3 \o b
<1>1. BodyPart(e, b)
  BY BodyParts DEF Fields, ContentLine, OnlyIf
<1>2. CurlSample(e) = s4
  BY DEF CurlSample
<1>3. /\ IsPart(e, u, HeaderLines(e), {"url"})
      /\ IsPart(e, r, HeaderLines(e), {"redirects"})
      /\ IsPart(e, v, HeaderLines(e), {"verifies", "note"})
      /\ IsPart(e, b, HeaderLines(e), {"field", "content"})
  BY <1>1, SampleParts
<1>4. IsPart(e, h, HeaderLines(e), {"header"})
  BY HeadersPart
<1> DEFINE hs == HeaderLines(e)
<1> HIDE DEF hs, u, r, v, h, b
<1>5. IsPart(e, s1, hs, {"url"} \cup {"redirects"})
  BY <1>3, <1>4, PartsTogether DEF hs
<1> HIDE DEF s1
<1>6. IsPart(e, s2, hs, ({"url"} \cup {"redirects"}) \cup {"verifies", "note"})
  BY <1>3, <1>4, <1>5, PartsTogether DEF hs
<1> HIDE DEF s2
<1>7. IsPart(e, s3, hs, (({"url"} \cup {"redirects"}) \cup {"verifies", "note"}) \cup {"header"})
  BY <1>3, <1>4, <1>6, PartsTogether DEF hs
<1> HIDE DEF s3
<1>8. IsPart(e, s4, hs, ((({"url"} \cup {"redirects"}) \cup {"verifies", "note"}) \cup {"header"}) \cup {"field", "content"})
  BY <1>3, <1>4, <1>7, PartsTogether DEF hs
<1>9. ((({"url"} \cup {"redirects"}) \cup {"verifies", "note"}) \cup {"header"}) \cup {"field", "content"}
       = {"url", "header", "field", "content", "redirects", "verifies", "note"}
  OBVIOUS
<1> QED
  BY <1>2, <1>8, <1>9 DEF hs

LEMMA JavaParts ==
  ASSUME NEW e, IsEffective(e), ~(e.files > 0)
  PROVE  IsPart(e, Java(e), HeaderLines(e),
                {"url", "header", "field", "content", "redirects", "verifies", "note", "timeout", "type"})
<1> DEFINE r == Redirects(e)
           v == AlwaysVerifies(e)
           u == Url(e)
           b == JavaBody(e)
           t == Line("timeout", "set")
           h == HeaderLines(e)
           m == Multipart(e)
           s1 == r \o v
           s2 == s1 \o u
           s3 == s2 \o b
           s4 == s3 \o t
           s5 == s4 \o h
           s6 == s5 \o m
<1>1. BodyPart(e, b)
  BY BodyParts DEF JavaBody, Fields
<1>2. Java(e) = s6
  BY DEF Java
<1>3. /\ IsPart(e, r, HeaderLines(e), {"redirects"})
      /\ IsPart(e, v, HeaderLines(e), {"verifies", "note"})
      /\ IsPart(e, u, HeaderLines(e), {"url"})
      /\ IsPart(e, b, HeaderLines(e), {"field", "content"})
      /\ IsPart(e, t, HeaderLines(e), {"timeout"})
      /\ IsPart(e, m, HeaderLines(e), {"type"})
  BY <1>1, SampleParts
<1>4. IsPart(e, h, HeaderLines(e), {"header"})
  BY HeadersPart
<1> DEFINE hs == HeaderLines(e)
<1> HIDE DEF hs, r, v, u, b, t, h, m
<1>5. IsPart(e, s1, hs, {"redirects"} \cup {"verifies", "note"})
  BY <1>3, <1>4, PartsTogether DEF hs
<1> HIDE DEF s1
<1>6. IsPart(e, s2, hs, ({"redirects"} \cup {"verifies", "note"}) \cup {"url"})
  BY <1>3, <1>4, <1>5, PartsTogether DEF hs
<1> HIDE DEF s2
<1>7. IsPart(e, s3, hs, (({"redirects"} \cup {"verifies", "note"}) \cup {"url"}) \cup {"field", "content"})
  BY <1>3, <1>4, <1>6, PartsTogether DEF hs
<1> HIDE DEF s3
<1>8. IsPart(e, s4, hs, ((({"redirects"} \cup {"verifies", "note"}) \cup {"url"}) \cup {"field", "content"}) \cup {"timeout"})
  BY <1>3, <1>4, <1>7, PartsTogether DEF hs
<1> HIDE DEF s4
<1>9. IsPart(e, s5, hs, (((({"redirects"} \cup {"verifies", "note"}) \cup {"url"}) \cup {"field", "content"}) \cup {"timeout"}) \cup {"header"})
  BY <1>3, <1>4, <1>8, PartsTogether DEF hs
<1> HIDE DEF s5
<1>10. IsPart(e, s6, hs, ((((({"redirects"} \cup {"verifies", "note"}) \cup {"url"}) \cup {"field", "content"}) \cup {"timeout"}) \cup {"header"}) \cup {"type"})
  BY <1>3, <1>4, <1>9, PartsTogether DEF hs
<1>11. ((((({"redirects"} \cup {"verifies", "note"}) \cup {"url"}) \cup {"field", "content"}) \cup {"timeout"}) \cup {"header"}) \cup {"type"}
       = {"url", "header", "field", "content", "redirects", "verifies", "note", "timeout", "type"}
  OBVIOUS
<1> QED
  BY <1>2, <1>10, <1>11 DEF hs

LEMMA GoParts ==
  ASSUME NEW e, IsEffective(e), ~(e.files > 0)
  PROVE  IsPart(e, Go(e), HeaderLines(e),
                {"url", "header", "field", "content", "redirects", "verifies", "note", "timeout", "type"})
<1> DEFINE u == Url(e)
           b == GoBody(e)
           h == HeaderLines(e)
           m == Multipart(e)
           t == Line("timeout", "set")
           v == Verifies(e)
           r == Redirects(e)
           s1 == u \o b
           s2 == s1 \o h
           s3 == s2 \o m
           s4 == s3 \o t
           s5 == s4 \o v
           s6 == s5 \o r
<1>1. BodyPart(e, b)
  BY BodyParts DEF GoBody, Fields
<1>2. Go(e) = s6
  BY DEF Go
<1>3. /\ IsPart(e, u, HeaderLines(e), {"url"})
      /\ IsPart(e, b, HeaderLines(e), {"field", "content"})
      /\ IsPart(e, m, HeaderLines(e), {"type"})
      /\ IsPart(e, t, HeaderLines(e), {"timeout"})
      /\ IsPart(e, v, HeaderLines(e), {"verifies", "note"})
      /\ IsPart(e, r, HeaderLines(e), {"redirects"})
  BY <1>1, SampleParts
<1>4. IsPart(e, h, HeaderLines(e), {"header"})
  BY HeadersPart
<1> DEFINE hs == HeaderLines(e)
<1> HIDE DEF hs, u, b, h, m, t, v, r
<1>5. IsPart(e, s1, hs, {"url"} \cup {"field", "content"})
  BY <1>3, <1>4, PartsTogether DEF hs
<1> HIDE DEF s1
<1>6. IsPart(e, s2, hs, ({"url"} \cup {"field", "content"}) \cup {"header"})
  BY <1>3, <1>4, <1>5, PartsTogether DEF hs
<1> HIDE DEF s2
<1>7. IsPart(e, s3, hs, (({"url"} \cup {"field", "content"}) \cup {"header"}) \cup {"type"})
  BY <1>3, <1>4, <1>6, PartsTogether DEF hs
<1> HIDE DEF s3
<1>8. IsPart(e, s4, hs, ((({"url"} \cup {"field", "content"}) \cup {"header"}) \cup {"type"}) \cup {"timeout"})
  BY <1>3, <1>4, <1>7, PartsTogether DEF hs
<1> HIDE DEF s4
<1>9. IsPart(e, s5, hs, (((({"url"} \cup {"field", "content"}) \cup {"header"}) \cup {"type"}) \cup {"timeout"}) \cup {"verifies", "note"})
  BY <1>3, <1>4, <1>8, PartsTogether DEF hs
<1> HIDE DEF s5
<1>10. IsPart(e, s6, hs, ((((({"url"} \cup {"field", "content"}) \cup {"header"}) \cup {"type"}) \cup {"timeout"}) \cup {"verifies", "note"}) \cup {"redirects"})
  BY <1>3, <1>4, <1>9, PartsTogether DEF hs
<1>11. ((((({"url"} \cup {"field", "content"}) \cup {"header"}) \cup {"type"}) \cup {"timeout"}) \cup {"verifies", "note"}) \cup {"redirects"}
       = {"url", "header", "field", "content", "redirects", "verifies", "note", "timeout", "type"}
  OBVIOUS
<1> QED
  BY <1>2, <1>10, <1>11 DEF hs

(***************************************************************************)
(* A C# sample leaves the type of a body it does not have.                 *)
(***************************************************************************)
Expressed(e, language) ==
  IF language = "csharp" /\ e.body = "none" THEN Without(e.headers, "content-type") ELSE e.headers

LEMMA CSharpHeaders ==
  ASSUME NEW e, IsEffective(e)
  PROVE  IsPart(e, Kept(HeaderLines(e), {l \in ToSet(HeaderLines(e)) : l.about.name = "content-type" => e.body # "none"}),
                LinesGiving(Expressed(e, "csharp")), {"header"})
<1> DEFINE E == ToSet(e.headers)
           R == {l \in ToSet(HeaderLines(e)) : l.about.name = "content-type" => e.body # "none"}
           S == {p \in E : p.name = "content-type" => e.body # "none"}
           k == Kept(HeaderLines(e), R)
<1>1. e.headers \in Seq(Pairs) /\ e.headers \in Seq(E) /\ E \subseteq Pairs
  BY InPairs DEF IsEffective
<1>2. HeaderLines(e) = LinesGiving(e.headers)
  BY DEF HeaderLines, LinesGiving
<1>3. ASSUME NEW x \in E PROVE [kind |-> "header", about |-> x] \in R <=> x \in S
  <2>1. PICK i \in DOMAIN e.headers : e.headers[i] = x
    BY <1>1, InPairs
  <2>2. i \in DOMAIN HeaderLines(e) /\ HeaderLines(e)[i] = [kind |-> "header", about |-> x]
    BY <2>1 DEF HeaderLines
  <2>3. [kind |-> "header", about |-> x] \in ToSet(HeaderLines(e))
    BY <2>2 DEF ToSet
  <2> QED
    BY <2>3
<1>4. k = LinesGiving(Kept(e.headers, S))
  <2> HIDE DEF E, R, S
  <2>1. Kept(LinesGiving(e.headers), R) = LinesGiving(Kept(e.headers, S))
    BY <1>1, <1>3, KeptLines
  <2> QED
    BY <1>2, <2>1
<1>5. Kept(e.headers, S) = Expressed(e, "csharp")
  <2>1. CASE e.body = "none"
    <3>1. S = {p \in ToSet(e.headers) : p.name # "content-type"}
      BY <2>1
    <3> QED
      BY <2>1, <3>1 DEF Expressed, Without
  <2>2. CASE e.body # "none"
    <3>1. ToSet(e.headers) \subseteq S
      BY <2>2
    <3> HIDE DEF S
    <3>2. Kept(e.headers, S) = e.headers
      BY <1>1, <3>1, KeptAll
    <3> QED
      BY <2>2, <3>2 DEF Expressed
  <2> QED
    BY <2>1, <2>2
<1>6. k \in Seq(Statements(e)) /\ ToSet(k) = ToSet(HeaderLines(e)) \cap R
  <2>1. HeaderLines(e) \in Seq(Statements(e))
    BY Parts
  <2> HIDE DEF R
  <2> QED
    BY <2>1, KeptFacts
<1>7. \A i \in DOMAIN k : k[i].kind = "header"
  <2>0. \A i \in DOMAIN HeaderLines(e) : HeaderLines(e)[i].kind = "header"
    BY DEF HeaderLines
  <2>1. \A l \in ToSet(HeaderLines(e)) : l.kind = "header"
    BY <2>0 DEF ToSet
  <2> HIDE DEF k
  <2> QED
    BY <1>6, <2>1, InPairs
<1> HIDE DEF k
<1>8. \A j : Pick(e, k, j) = IF j = "header" THEN k ELSE <<>>
  BY <1>6, <1>7, PickPure
<1>9. IsPart(e, k, k, {"header"})
  BY <1>6, <1>8 DEF IsPart
<1> QED
  BY <1>4, <1>5, <1>9 DEF k

LEMMA CSharpParts ==
  ASSUME NEW e, IsEffective(e), ~(e.files > 0)
  PROVE  IsPart(e, CSharp(e), LinesGiving(Expressed(e, "csharp")),
                {"url", "header", "field", "content", "redirects", "verifies", "note", "timeout"})
<1> DEFINE r == Redirects(e)
           v == Verifies(e)
           t == Line("timeout", "set")
           u == Url(e)
           b == IF Fields(e) THEN FieldLines(e) ELSE ContentLine(e)
           h == Kept(HeaderLines(e), {l \in ToSet(HeaderLines(e)) : l.about.name = "content-type" => e.body # "none"})
           s1 == r \o v
           s2 == s1 \o t
           s3 == s2 \o u
           s4 == s3 \o b
           s5 == s4 \o h
<1>1. BodyPart(e, b)
  BY BodyParts
<1>2. CSharp(e) = s5
  BY DEF CSharp
<1>3. /\ IsPart(e, r, LinesGiving(Expressed(e, "csharp")), {"redirects"})
      /\ IsPart(e, v, LinesGiving(Expressed(e, "csharp")), {"verifies", "note"})
      /\ IsPart(e, t, LinesGiving(Expressed(e, "csharp")), {"timeout"})
      /\ IsPart(e, u, LinesGiving(Expressed(e, "csharp")), {"url"})
      /\ IsPart(e, b, LinesGiving(Expressed(e, "csharp")), {"field", "content"})
  BY <1>1, SampleParts
<1>4. IsPart(e, h, LinesGiving(Expressed(e, "csharp")), {"header"})
  BY CSharpHeaders
<1> DEFINE hs == LinesGiving(Expressed(e, "csharp"))
<1> HIDE DEF hs, r, v, t, u, b, h
<1>5. IsPart(e, s1, hs, {"redirects"} \cup {"verifies", "note"})
  BY <1>3, <1>4, PartsTogether DEF hs
<1> HIDE DEF s1
<1>6. IsPart(e, s2, hs, ({"redirects"} \cup {"verifies", "note"}) \cup {"timeout"})
  BY <1>3, <1>4, <1>5, PartsTogether DEF hs
<1> HIDE DEF s2
<1>7. IsPart(e, s3, hs, (({"redirects"} \cup {"verifies", "note"}) \cup {"timeout"}) \cup {"url"})
  BY <1>3, <1>4, <1>6, PartsTogether DEF hs
<1> HIDE DEF s3
<1>8. IsPart(e, s4, hs, ((({"redirects"} \cup {"verifies", "note"}) \cup {"timeout"}) \cup {"url"}) \cup {"field", "content"})
  BY <1>3, <1>4, <1>7, PartsTogether DEF hs
<1> HIDE DEF s4
<1>9. IsPart(e, s5, hs, (((({"redirects"} \cup {"verifies", "note"}) \cup {"timeout"}) \cup {"url"}) \cup {"field", "content"}) \cup {"header"})
  BY <1>3, <1>4, <1>8, PartsTogether DEF hs
<1>10. (((({"redirects"} \cup {"verifies", "note"}) \cup {"timeout"}) \cup {"url"}) \cup {"field", "content"}) \cup {"header"}
       = {"url", "header", "field", "content", "redirects", "verifies", "note", "timeout"}
  OBVIOUS
<1> QED
  BY <1>2, <1>9, <1>10 DEF hs

LEMMA UploadParts ==
  ASSUME NEW e, IsEffective(e), e.files > 0, NEW language
  PROVE  IsPart(e, Upload(e, language), HeaderLines(e),
                {"url", "header", "field", "content", "redirects", "verifies", "note", "timeout", "type", "file"})
<1> DEFINE h == HeaderLines(e)
           b == FieldLines(e)
           f == FileLines(e)
           t == Line("timeout", "set")
           u == Url(e)
           r == Redirects(e)
           v == IF language \in {"javascript", "typescript", "java"} THEN AlwaysVerifies(e) ELSE Verifies(e)
           m == IF language \in {"java", "go"} THEN Multipart(e) ELSE <<>>
           s1 == h \o b
           s2 == s1 \o f
           s3 == s2 \o t
           s4 == s3 \o u
           s5 == s4 \o r
           s6 == s5 \o v
           s7 == s6 \o m
<1>2. Upload(e, language) = s7
  BY DEF Upload
<1>1. BodyPart(e, b)
  BY BodyParts
<1>a. /\ IsPart(e, b, HeaderLines(e), {"field", "content"}) /\ IsPart(e, f, HeaderLines(e), {"file"})
      /\ IsPart(e, t, HeaderLines(e), {"timeout"}) /\ IsPart(e, u, HeaderLines(e), {"url"})
      /\ IsPart(e, r, HeaderLines(e), {"redirects"})
  BY <1>1, SampleParts
<1>b. IsPart(e, v, HeaderLines(e), {"verifies", "note"})
  BY SampleParts
<1>c. IsPart(e, <<>>, HeaderLines(e), {"type"})
  BY PickNone DEF IsPart
<1>d. IsPart(e, m, HeaderLines(e), {"type"})
  BY <1>c, SampleParts
<1>3. /\ IsPart(e, b, HeaderLines(e), {"field", "content"}) /\ IsPart(e, f, HeaderLines(e), {"file"})
      /\ IsPart(e, t, HeaderLines(e), {"timeout"}) /\ IsPart(e, u, HeaderLines(e), {"url"})
      /\ IsPart(e, r, HeaderLines(e), {"redirects"}) /\ IsPart(e, v, HeaderLines(e), {"verifies", "note"})
      /\ IsPart(e, m, HeaderLines(e), {"type"})
  BY <1>a, <1>b, <1>d
<1>4. IsPart(e, h, HeaderLines(e), {"header"})
  BY HeadersPart
<1> DEFINE hs == HeaderLines(e)
<1> HIDE DEF hs, h, b, f, t, u, r, v, m
<1>5. IsPart(e, s1, hs, {"header"} \cup {"field", "content"})
  BY <1>3, <1>4, PartsTogether DEF hs
<1> HIDE DEF s1
<1>6. IsPart(e, s2, hs, ({"header"} \cup {"field", "content"}) \cup {"file"})
  BY <1>3, <1>4, <1>5, PartsTogether DEF hs
<1> HIDE DEF s2
<1>7. IsPart(e, s3, hs, (({"header"} \cup {"field", "content"}) \cup {"file"}) \cup {"timeout"})
  BY <1>3, <1>4, <1>6, PartsTogether DEF hs
<1> HIDE DEF s3
<1>8. IsPart(e, s4, hs, ((({"header"} \cup {"field", "content"}) \cup {"file"}) \cup {"timeout"}) \cup {"url"})
  BY <1>3, <1>4, <1>7, PartsTogether DEF hs
<1> HIDE DEF s4
<1>9. IsPart(e, s5, hs, (((({"header"} \cup {"field", "content"}) \cup {"file"}) \cup {"timeout"}) \cup {"url"}) \cup {"redirects"})
  BY <1>3, <1>4, <1>8, PartsTogether DEF hs
<1> HIDE DEF s5
<1>10. IsPart(e, s6, hs, ((((({"header"} \cup {"field", "content"}) \cup {"file"}) \cup {"timeout"}) \cup {"url"}) \cup {"redirects"}) \cup {"verifies", "note"})
  BY <1>3, <1>4, <1>9, PartsTogether DEF hs
<1> HIDE DEF s6
<1>11. IsPart(e, s7, hs, (((((({"header"} \cup {"field", "content"}) \cup {"file"}) \cup {"timeout"}) \cup {"url"}) \cup {"redirects"}) \cup {"verifies", "note"}) \cup {"type"})
  BY <1>3, <1>4, <1>10, PartsTogether DEF hs
<1>12. (((((({"header"} \cup {"field", "content"}) \cup {"file"}) \cup {"timeout"}) \cup {"url"}) \cup {"redirects"}) \cup {"verifies", "note"}) \cup {"type"}
       = {"url", "header", "field", "content", "redirects", "verifies", "note", "timeout", "type", "file"}
  OBVIOUS
<1> QED
  BY <1>2, <1>11, <1>12 DEF hs

(***************************************************************************)
(* A sample in any language has the statements it should have.             *)
(***************************************************************************)
IsSample(e, s, hs) ==
  /\ s \in Seq(Statements(e))
  /\ Pick(e, s, "url") = Url(e) /\ Pick(e, s, "header") = hs /\ Pick(e, s, "redirects") = Redirects(e)
  /\ Pick(e, s, "file") = FileLines(e)
  /\ Pick(e, s, "content") = Line("content", "fields") \/ Pick(e, s, "field") = FieldLines(e)
  /\ Fields(e) \/ e.files > 0 \/ Pick(e, s, "content") = ContentLine(e)
  /\ Pick(e, s, "note") # <<>> \/ Pick(e, s, "verifies") = Verifies(e)
  /\ Pick(e, s, "type") = <<>> \/ Pick(e, s, "type") = Multipart(e)

LEMMA SampleOfParts ==
  ASSUME NEW e, IsEffective(e), NEW s, NEW hs, NEW K, IsPart(e, s, hs, K),
         \A k \in {"url", "header", "redirects", "content", "verifies"} : k \in K, e.files > 0 => "file" \in K
  PROVE  IsSample(e, s, hs)
<1>1. Pick(e, s, "file") = FileLines(e)
  <2>1. CASE e.files > 0
    BY <2>1 DEF IsPart
  <2>2. CASE ~(e.files > 0)
    <3>1. e.files = 0
      BY <2>2 DEF IsEffective
    <3>2. FileLines(e) = <<>>
      BY <3>1 DEF FileLines
    <3> QED
      BY <3>2 DEF IsPart
  <2> QED
    BY <2>1, <2>2
<1>2. Pick(e, s, "type") = <<>> \/ Pick(e, s, "type") = Multipart(e)
  BY DEF IsPart
<1> QED
  BY <1>1, <1>2 DEF IsPart, IsSample

LEMMA SampleIsWhole ==
  ASSUME NEW e, IsEffective(e), NEW language \in Languages
  PROVE  IsSample(e, Sample(e, language), LinesGiving(Expressed(e, language)))
<1> DEFINE s == Sample(e, language)
<1>1. HeaderLines(e) = LinesGiving(e.headers)
  BY DEF HeaderLines, LinesGiving
<1>2. CASE e.files > 0
  <2>1. Expressed(e, language) = e.headers
    BY <1>2 DEF Expressed, IsEffective
  <2>2. IsPart(e, Upload(e, language), HeaderLines(e),
               {"url", "header", "field", "content", "redirects", "verifies", "note", "timeout", "type", "file"})
    BY <1>2, UploadParts
  <2>3. IsSample(e, Upload(e, language), HeaderLines(e))
    BY <2>2, SampleOfParts
  <2>4. s = Upload(e, language)
    BY <1>2 DEF Sample
  <2> QED
    BY <1>1, <2>1, <2>3, <2>4
<1>3. CASE ~(e.files > 0) /\ language = "csharp"
  <2>1. IsPart(e, CSharp(e), LinesGiving(Expressed(e, "csharp")),
               {"url", "header", "field", "content", "redirects", "verifies", "note", "timeout"})
    BY <1>3, CSharpParts
  <2>2. IsSample(e, CSharp(e), LinesGiving(Expressed(e, "csharp")))
    BY <1>3, <2>1, SampleOfParts
  <2>3. s = CSharp(e)
    BY <1>3 DEF Sample
  <2> QED
    BY <1>3, <2>2, <2>3
<1>4. CASE ~(e.files > 0) /\ language # "csharp"
  <2>1. Expressed(e, language) = e.headers
    BY <1>4 DEF Expressed
  <2>2. IsSample(e, Fetch(e), HeaderLines(e))
    BY <1>4, FetchParts, SampleOfParts
  <2>3. IsSample(e, Python(e), HeaderLines(e))
    BY <1>4, PythonParts, SampleOfParts
  <2>4. IsSample(e, CurlSample(e), HeaderLines(e))
    BY <1>4, CurlParts, SampleOfParts
  <2>5. IsSample(e, Java(e), HeaderLines(e))
    BY <1>4, JavaParts, SampleOfParts
  <2>6. IsSample(e, Go(e), HeaderLines(e))
    BY <1>4, GoParts, SampleOfParts
  <2>7. s \in {Fetch(e), Python(e), CurlSample(e), Java(e), Go(e)}
    BY <1>4 DEF Sample, Languages
  <2> HIDE DEF s
  <2>8. IsSample(e, s, HeaderLines(e))
    BY <2>2, <2>3, <2>4, <2>5, <2>6, <2>7
  <2> QED
    BY <1>1, <2>1, <2>8 DEF s
<1> QED
  BY <1>2, <1>3, <1>4

(***************************************************************************)
(* So it reflects the request, statement by statement.                     *)
(***************************************************************************)
LEMMA SampleReflects ==
  ASSUME NEW e, IsEffective(e), product \in Seq(Statements(e)),
         IsSample(e, product, LinesGiving(Expressed(e, job.language)))
  PROVE  /\ Abouts("url") = <<[query |-> e.query, userinfo |-> e.userinfo]>>
         /\ Abouts("header") = Expressible(e)
         /\ Len(Lines("file")) = e.files
         /\ <<"fields">> = Abouts("content") \/ Abouts("field") = [i \in DOMAIN e.fields |-> e.fields[i].name]
         /\ Fields(e) \/ e.files > 0 \/ Abouts("content") = IF e.body = "none" THEN <<>> ELSE <<"body">>
         /\ Abouts("redirects") = <<IF e.followRedirects THEN "follow" ELSE "stop">>
         /\ Abouts("note") # <<>> \/ Abouts("verifies") = <<IF e.verifySSL THEN "yes" ELSE "no">>
         /\ Len(Lines("type")) + Cardinality(Matches(e.headers, "content-type")) <= 1
<1>1. \A k : Lines(k) = Pick(e, product, k)
  BY PickIs DEF Lines
<1>2. \A k, a : Lines(k) = Line(k, a) => Abouts(k) = <<a>>
  BY DEF Abouts, Line
<1>3. \A k : Lines(k) = <<>> => Abouts(k) = <<>>
  BY DEF Abouts
<1>4. Abouts("url") = <<[query |-> e.query, userinfo |-> e.userinfo]>>
  BY <1>1, <1>2 DEF IsSample, Url
<1>5. Abouts("redirects") = <<IF e.followRedirects THEN "follow" ELSE "stop">>
  BY <1>1, <1>2 DEF IsSample, Redirects
<1>6. Lines("note") # <<>> => Abouts("note") # <<>>
  <2>1. Lines("note") \in Seq(Statements(e))
    BY <1>1, PickIn
  <2>2. ASSUME Lines("note") # <<>> PROVE 1 \in DOMAIN Lines("note")
    BY <2>1, <2>2
  <2>3. DOMAIN Abouts("note") = DOMAIN Lines("note")
    BY DEF Abouts
  <2> QED
    BY <2>2, <2>3
<1>7. Abouts("note") # <<>> \/ Abouts("verifies") = <<IF e.verifySSL THEN "yes" ELSE "no">>
  BY <1>1, <1>2, <1>6 DEF IsSample, Verifies
<1>8. Abouts("header") = Expressible(e)
  <2>1. Expressible(e) = Expressed(e, job.language)
    BY DEF Expressible, Expressed
  <2>2. e.headers \in Seq(Pairs)
    BY DEF IsEffective
  <2>3. Without(e.headers, "content-type") \in Seq(Pairs)
    BY <2>2, WithoutFacts
  <2>4. Expressible(e) \in Seq(Pairs)
    BY <2>2, <2>3 DEF Expressible
  <2>5. Lines("header") = LinesGiving(Expressible(e))
    BY <1>1, <2>1 DEF IsSample
  <2> DEFINE x == Expressible(e)
  <2>6. Abouts("header") = [i \in DOMAIN x |-> x[i]]
    <3> HIDE DEF x
    <3>1. DOMAIN LinesGiving(x) = DOMAIN x /\ \A i \in DOMAIN x : LinesGiving(x)[i].about = x[i]
      BY DEF LinesGiving
    <3>2. Abouts("header") = [i \in DOMAIN LinesGiving(x) |-> LinesGiving(x)[i].about]
      BY <2>5 DEF Abouts, x
    <3> QED
      BY <3>1, <3>2
  <2> HIDE DEF x
  <2>7. x \in Seq(Pairs)
    BY <2>4 DEF x
  <2>8. x = [i \in DOMAIN x |-> x[i]]
    BY <2>7
  <2> QED
    BY <2>6, <2>8 DEF x
<1>9. Len(Lines("file")) = e.files
  <2>1. e.files \in Nat
    BY DEF IsEffective
  <2>2. Lines("file") = [i \in 1 .. e.files |-> [kind |-> "file", about |-> "<LOCAL_FILE>"]]
    BY <1>1 DEF IsSample, FileLines
  <2> QED
    BY <2>1, <2>2
<1>10. <<"fields">> = Abouts("content") \/ Abouts("field") = [i \in DOMAIN e.fields |-> e.fields[i].name]
  <2>1. Lines("field") = FieldLines(e) => Abouts("field") = [i \in DOMAIN e.fields |-> e.fields[i].name]
    BY DEF FieldLines, Abouts
  <2> QED
    BY <1>1, <1>2, <2>1 DEF IsSample
<1>11. Fields(e) \/ e.files > 0 \/ Abouts("content") = IF e.body = "none" THEN <<>> ELSE <<"body">>
  BY <1>1, <1>2, <1>3 DEF IsSample, ContentLine, OnlyIf
<1>12. Len(Lines("type")) + Cardinality(Matches(e.headers, "content-type")) <= 1
  <2> DEFINE n == Cardinality(Matches(e.headers, "content-type"))
  <2>1. n \in {0, 1}
    <3> DEFINE M == Matches(e.headers, "content-type")
    <3>1. Cardinality(M) <= 1
      BY DEF IsEffective
    <3>2. DOMAIN e.headers = 1 .. Len(e.headers) /\ Len(e.headers) \in Nat
      BY DEF IsEffective
    <3>3. M \subseteq 1 .. Len(e.headers)
      BY <3>2 DEF Matches
    <3> HIDE DEF M
    <3>4. IsFiniteSet(M)
      <4>1. IsFiniteSet(1 .. Len(e.headers))
        BY <3>2, FS_Interval
      <4> QED
        BY <3>3, <4>1, FS_Subset
    <3>5. Cardinality(M) \in Nat
      BY <3>4, FS_CardinalityType
    <3> QED
      BY <3>1, <3>5 DEF M
  <2>2. e.body = "form-data" => n = 0
    BY FS_EmptySet DEF IsEffective
  <2>3. Lines("type") = <<>> \/ (Lines("type") = Multipart(e))
    BY <1>1 DEF IsSample
  <2>4. Len(Lines("type")) = 0 \/ (Len(Lines("type")) = 1 /\ e.body = "form-data")
    BY <2>3 DEF Multipart, OnlyIf, Line
  <2> DEFINE m == Len(Lines("type"))
  <2>5. m = 0 \/ (m = 1 /\ n = 0)
    BY <2>2, <2>4
  <2> HIDE DEF m, n
  <2>6. m + n <= 1
    BY <2>1, <2>5
  <2> QED
    BY <2>6 DEF m, n
<1> QED
  BY <1>4, <1>5, <1>7, <1>8, <1>9, <1>10, <1>11, <1>12

-----------------------------------------------------------------------------
(* A request stays a request *)

LEMMA PairShape ==
  ASSUME NEW p \in Pairs
  PROVE  /\ p.name \in PairNames /\ p.enabled \in BOOLEAN /\ p.value \in {"plain", "secret", "credential"} \cup Placeholders
         /\ \A n \in PairNames : [p EXCEPT !.name = n] \in Pairs
         /\ \A v \in {"plain", "secret", "credential"} \cup Placeholders : [p EXCEPT !.value = v] \in Pairs
BY DEF Pairs

LEMMA PairIs ==
  ASSUME NEW n \in PairNames, NEW v \in {"plain", "secret", "credential"} \cup Placeholders
  PROVE  Pair(n, v) \in Pairs
BY DEF Pair, Pairs

LEMMA RequestShape ==
  ASSUME NEW r \in StoredRequests
  PROVE  /\ r.headers \in Seq(Pairs) /\ r.urlQuery \in Seq(Pairs) /\ r.query \in Seq(Pairs)
         /\ r.authName \in PairNames /\ AuthName(r) \in PairNames
         /\ \A h \in Seq(Pairs) : [r EXCEPT !.headers = h] \in StoredRequests
         /\ \A q \in Seq(Pairs) : [r EXCEPT !.query = q] \in StoredRequests
<1>1. /\ r.headers \in Seq(Pairs) /\ r.urlQuery \in Seq(Pairs) /\ r.query \in Seq(Pairs) /\ r.authName \in PairNames
  BY DEF StoredRequests
<1>2. AuthName(r) \in PairNames
  BY <1>1, NamesInUse DEF AuthName, GivenNames
<1>3. \A h \in Seq(Pairs) : [r EXCEPT !.headers = h] \in StoredRequests
  BY DEF StoredRequests
<1>4. \A q \in Seq(Pairs) : [r EXCEPT !.query = q] \in StoredRequests
  BY DEF StoredRequests
<1> QED
  BY <1>1, <1>2, <1>3, <1>4

LEMMA RenamedIs ==
  ASSUME NEW ps \in Seq(Pairs), variable \in GivenNames
  PROVE  /\ NamesResolved(ps) \in Seq(Pairs)
         /\ (\A p \in ToSet(ps) : p.value # "credential") => \A p \in ToSet(NamesResolved(ps)) : p.value # "credential"
<1> DEFINE t == NamesResolved(ps)
<1>1. variable \in PairNames
  BY NamesInUse
<1>2. \A i \in DOMAIN ps : ps[i] \in Pairs /\ ps[i] \in ToSet(ps)
  BY InPairs
<1>3. \A i \in DOMAIN ps : /\ [ps[i] EXCEPT !.name = variable] \in Pairs
                           /\ [ps[i] EXCEPT !.name = variable].value = ps[i].value
  BY <1>1, <1>2 DEF Pairs
<1>4. DOMAIN t = DOMAIN ps /\ t = [i \in DOMAIN ps |-> t[i]]
      /\ \A i \in DOMAIN ps : t[i] \in {ps[i], [ps[i] EXCEPT !.name = variable]}
  BY DEF NamesResolved
<1> HIDE DEF t
<1>5. \A i \in DOMAIN ps : t[i] \in Pairs /\ t[i].value = ps[i].value
  <2> TAKE i \in DOMAIN ps
  <2>1. CASE t[i] = ps[i]
    BY <1>2, <2>1
  <2>2. CASE t[i] = [ps[i] EXCEPT !.name = variable]
    <3> DEFINE p == [ps[i] EXCEPT !.name = variable]
    <3>1. p \in Pairs /\ p.value = ps[i].value
      BY <1>3
    <3>2. t[i] = p
      BY <2>2
    <3> HIDE DEF p
    <3> QED
      BY <3>1, <3>2
  <2> QED
    BY <1>4, <2>1, <2>2
<1>6. t \in Seq(Pairs)
  BY <1>4, <1>5, EachIn
<1>7. ASSUME \A p \in ToSet(ps) : p.value # "credential" PROVE \A p \in ToSet(t) : p.value # "credential"
  <2>1. \A i \in DOMAIN t : t[i].value # "credential"
    BY <1>2, <1>4, <1>5, <1>7
  <2> QED
    BY <2>1 DEF ToSet
<1> QED
  BY <1>6, <1>7 DEF t

LEMMA ResolvedIs ==
  ASSUME NEW r \in StoredRequests, variable \in GivenNames
  PROVE  /\ Resolved(r) \in StoredRequests
         /\ KeepsCredentialsApart(r) => KeepsCredentialsApart(Resolved(r))
<1> DEFINE h == NamesResolved(r.headers)
           u == NamesResolved(r.urlQuery)
           q == NamesResolved(r.query)
           f == IF r.body \in {"form-data", "x-www-form-urlencoded"} THEN NamesResolved(r.fields) ELSE r.fields
           n == IF r.auth = "apiKey" /\ r.authName = "named" THEN variable ELSE r.authName
           t == [r EXCEPT !.headers = h, !.urlQuery = u, !.query = q, !.fields = f, !.authName = n]
<1>1. /\ r.headers \in Seq(Pairs) /\ r.urlQuery \in Seq(Pairs) /\ r.query \in Seq(Pairs) /\ r.fields \in Seq(Pairs)
      /\ r.authName \in PairNames /\ variable \in PairNames
  BY NamesInUse DEF StoredRequests
<1>2. h \in Seq(Pairs) /\ u \in Seq(Pairs) /\ q \in Seq(Pairs) /\ f \in Seq(Pairs) /\ n \in PairNames
  BY <1>1, RenamedIs
<1>3. Resolved(r) = t
  BY DEF Resolved, StoredRequests
<1>4. ASSUME KeepsCredentialsApart(r)
      PROVE  \A p \in ToSet(h) \cup ToSet(u) \cup ToSet(q) : p.value # "credential"
  BY <1>1, <1>4, RenamedIs DEF KeepsCredentialsApart
<1> HIDE DEF h, u, q, f, n
<1>5. t \in StoredRequests
  BY <1>2 DEF StoredRequests
<1>6. t.headers = h /\ t.urlQuery = u /\ t.query = q
  BY DEF StoredRequests
<1> HIDE DEF t
<1> QED
  BY <1>3, <1>4, <1>5, <1>6 DEF KeepsCredentialsApart

LEMMA HiddenHeaders ==
  ASSUME NEW hs \in Seq(Pairs)
  PROVE  HideHeaders(hs) \in Seq(Pairs)
<1>1. \A i \in DOMAIN hs : hs[i] \in Pairs
  OBVIOUS
<1>2. "<REDACTED>" \in {"plain", "secret", "credential"} \cup Placeholders
  BY DEF Placeholders
<1>3. \A i \in DOMAIN hs : [hs[i] EXCEPT !.value = "<REDACTED>"] \in Pairs
  BY <1>1, <1>2, PairShape
<1> QED
  BY <1>1, <1>3 DEF HideHeaders

LEMMA HiddenUrlQuery ==
  ASSUME NEW r \in StoredRequests
  PROVE  HideUrlQuery(r) \in Seq(Pairs)
<1> DEFINE first == CHOOSE i \in DOMAIN r.urlQuery : r.urlQuery[i].name = r.authName
                                      /\ \A j \in 1 .. i - 1 : r.urlQuery[j].name # r.authName
           shown == [r.urlQuery EXCEPT ![first].value = "<CREDENTIAL>"]
<1>1. r.urlQuery \in Seq(Pairs)
  BY RequestShape
<1>2. HideUrlQuery(r) \in {r.urlQuery, Kept(shown, {p \in ToSet(shown) : p.name # r.authName \/ p.value = "<CREDENTIAL>"})}
  BY DEF HideUrlQuery
<1>3. shown \in Seq(Pairs)
  <2> HIDE DEF first
  <2>1. \A i \in DOMAIN r.urlQuery : r.urlQuery[i] \in Pairs
    BY <1>1
  <2>2. "<CREDENTIAL>" \in {"plain", "secret", "credential"} \cup Placeholders
    BY DEF Placeholders
  <2>3. \A i \in DOMAIN r.urlQuery : [r.urlQuery[i] EXCEPT !.value = "<CREDENTIAL>"] \in Pairs
    BY <2>1, <2>2, PairShape
  <2>4. \A i \in DOMAIN r.urlQuery : shown[i] \in Pairs
    BY <2>1, <2>3
  <2>5. shown = [i \in DOMAIN r.urlQuery |-> shown[i]]
    OBVIOUS
  <2> HIDE DEF shown
  <2> QED
    BY <1>1, <2>4, <2>5, EachIn
<1> HIDE DEF shown
<1>4. Kept(shown, {p \in ToSet(shown) : p.name # r.authName \/ p.value = "<CREDENTIAL>"}) \in Seq(Pairs)
  BY <1>3, KeptFacts
<1> QED
  BY <1>1, <1>2, <1>4

LEMMA RecognizedIs ==
  ASSUME NEW r \in StoredRequests
  PROVE  Recognized(r) \in StoredRequests
<1> DEFINE hidden == HideHeaders(r.headers)
           hs == IF r.userinfo /\ r.auth = "none" /\ ~Has(hidden, "authorization")
                 THEN Append(hidden, Pair("authorization", "<CREDENTIAL>")) ELSE hidden
           q == HideUrlQuery(r)
           u == HideUserInfo(r)
<1>1. hidden \in Seq(Pairs) /\ Pair("authorization", "<CREDENTIAL>") \in Pairs
  BY RequestShape, HiddenHeaders, PairIs, NamesInUse DEF Placeholders, GivenNames
<1>2. Recognized(r) = [r EXCEPT !.urlQuery = q, !.userinfo = u, !.headers = hs]
  BY DEF Recognized
<1>3. u \in BOOLEAN /\ q \in Seq(Pairs)
  BY HiddenUrlQuery DEF HideUserInfo
<1> HIDE DEF hidden
<1>4. hs \in Seq(Pairs)
  BY <1>1
<1> HIDE DEF hs, q, u
<1>5. [r EXCEPT !.urlQuery = q, !.userinfo = u, !.headers = hs] \in StoredRequests
  BY <1>3, <1>4 DEF StoredRequests
<1> QED
  BY <1>2, <1>5

LEMMA PlacedIs ==
  ASSUME NEW ps \in Seq(Pairs), NEW n \in PairNames, NEW mark \in Placeholders
  PROVE  Placed(ps, n, mark) \in Seq(Pairs)
<1> DEFINE first == CHOOSE i \in DOMAIN ps : /\ ps[i].enabled /\ Lower(ps[i].name) = Lower(n)
                                        /\ \A j \in 1 .. i - 1 : ~(ps[j].enabled /\ Lower(ps[j].name) = Lower(n))
           v == IF ps[first].value = "<CREDENTIAL>" THEN mark ELSE "<AUTH_CONFLICT>"
           m == [ps EXCEPT ![first].value = v]
<1>1. Marked(ps, n, mark) = m
  BY DEF Marked
<1>2. v \in {"plain", "secret", "credential"} \cup Placeholders
  BY DEF Placeholders
<1> HIDE DEF first, v
<1>3. m \in Seq(Pairs)
  <2>1. \A i \in DOMAIN ps : ps[i] \in Pairs
    OBVIOUS
  <2>2. \A i \in DOMAIN ps : [ps[i] EXCEPT !.value = v] \in Pairs
    BY <1>2, <2>1, PairShape
  <2>3. \A i \in DOMAIN ps : m[i] \in Pairs
    BY <2>1, <2>2
  <2>4. m = [i \in DOMAIN ps |-> m[i]]
    OBVIOUS
  <2> HIDE DEF m
  <2> QED
    BY <2>3, <2>4, EachIn
<1>4. Pair(n, "<CREDENTIAL>") \in Pairs
  BY PairIs DEF Placeholders
<1> HIDE DEF m
<1> QED
  BY <1>1, <1>3, <1>4 DEF Placed

LEMMA WithPlaceholderIs ==
  ASSUME NEW r \in StoredRequests, NEW mark \in Placeholders
  PROVE  WithPlaceholder(r, mark) \in StoredRequests
<1> DEFINE q == Placed(r.query, AuthName(r), mark)
           h == Placed(r.headers, AuthName(r), mark)
<1>1. q \in Seq(Pairs) /\ h \in Seq(Pairs)
  BY RequestShape, PlacedIs
<1>2. WithPlaceholder(r, mark) \in {r, [r EXCEPT !.query = q], [r EXCEPT !.headers = h]}
  BY DEF WithPlaceholder
<1> HIDE DEF q, h
<1> QED
  BY <1>1, <1>2, RequestShape

LEMMA RedactedIs ==
  ASSUME NEW r \in StoredRequests
  PROVE  Redacted(r) \in StoredRequests
BY RecognizedIs, WithPlaceholderIs DEF Redacted, Placeholders

LEMMA RedactedAgainIs ==
  ASSUME NEW r \in StoredRequests
  PROVE  RedactedAgain(r) \in StoredRequests
<1> DEFINE hidden == Recognized(r)
           hs == [i \in DOMAIN hidden.headers |->
                   IF hidden.headers[i].enabled /\ hidden.headers[i].name \in CredentialHeaders
                        /\ hidden.headers[i].value \notin Placeholders
                   THEN [hidden.headers[i] EXCEPT !.value = "<REDACTED>"] ELSE hidden.headers[i]]
<1>1. RedactedAgain(r) = WithPlaceholder([hidden EXCEPT !.headers = hs], "<CREDENTIAL>")
  BY DEF RedactedAgain
<1>2. hidden \in StoredRequests /\ "<CREDENTIAL>" \in Placeholders /\ "<REDACTED>" \in Placeholders
  BY RecognizedIs DEF Placeholders
<1> HIDE DEF hidden
<1>3. hidden.headers \in Seq(Pairs)
  BY <1>2, RequestShape
<1>4. \A i \in DOMAIN hidden.headers : hidden.headers[i] \in Pairs
  BY <1>3
<1>5. \A i \in DOMAIN hidden.headers : [hidden.headers[i] EXCEPT !.value = "<REDACTED>"] \in Pairs
  BY <1>2, <1>4, PairShape
<1>6. hs \in Seq(Pairs)
  <2>1. hs = [i \in DOMAIN hidden.headers |-> hs[i]] /\ \A i \in DOMAIN hidden.headers : hs[i] \in Pairs
    BY <1>4, <1>5
  <2> HIDE DEF hs
  <2> QED
    BY <1>3, <2>1, EachIn
<1> HIDE DEF hs
<1>7. [hidden EXCEPT !.headers = hs] \in StoredRequests
  BY <1>2, <1>6, RequestShape
<1> QED
  BY <1>1, <1>2, <1>7, WithPlaceholderIs

LEMMA InjectedIs ==
  ASSUME NEW r \in StoredRequests
  PROVE  Injected(r) \in StoredRequests
<1> DEFINE p == Pair(AuthName(r), "credential")
           q == Append(r.query, p)
           h == Append(r.headers, p)
<1>1. p \in Pairs
  BY RequestShape, PairIs
<1> HIDE DEF p
<1>a. r.query \in Seq(Pairs) /\ r.headers \in Seq(Pairs)
  BY RequestShape
<1>2. q \in Seq(Pairs) /\ h \in Seq(Pairs)
  BY <1>1, <1>a
<1>3. Injected(r) \in {r, [r EXCEPT !.query = q], [r EXCEPT !.headers = h]}
  BY DEF Injected, p
<1> HIDE DEF q, h
<1> QED
  BY <1>2, <1>3, RequestShape

-----------------------------------------------------------------------------
(* A sample is made of the request as it was prepared *)

DerivativeInv ==
  /\ WellFormedJob(job) /\ variable \in GivenNames
  /\ resolved \in StoredRequests /\ prepared \in StoredRequests
  /\ (stage = "made" /\ job.kind = "sample") => product = Sample(Effective(Final), job.language)

LEMMA DerivativeStarts ==
  ASSUME NEW from, \A j \in from : WellFormedJob(j), DerivativeInit(from)
  PROVE  DerivativeInv
<1>1. WellFormedJob(job) /\ resolved = job.request /\ prepared = job.request /\ stage = "asked"
      /\ variable \in GivenNames
  BY DEF DerivativeInit
<1>2. job.request \in StoredRequests
  BY <1>1 DEF WellFormedJob
<1> QED
  BY <1>1, <1>2 DEF DerivativeInv

LEMMA DerivativeKeeps ==
  ASSUME DerivativeInv, DerivativeNext
  PROVE  DerivativeInv'
<1>1. /\ WellFormedJob(job) /\ job.request \in StoredRequests /\ resolved \in StoredRequests
      /\ prepared \in StoredRequests /\ variable \in GivenNames
  BY DEF DerivativeInv, WellFormedJob
<1>2. Resolved(job.request) \in StoredRequests
  BY <1>1, ResolvedIs
<1>3. CASE Preview
  <2>1. job' = job /\ variable' = variable /\ job.kind = "preview" /\ resolved' = Resolved(job.request)
        /\ prepared' = Redacted(resolved')
    BY <1>3 DEF Preview
  <2>2. prepared' \in StoredRequests
    BY <1>2, <2>1, RedactedIs
  <2> QED
    BY <1>1, <1>2, <2>1, <2>2 DEF DerivativeInv
<1>4. CASE CheckFirst
  <2>1. job' = job /\ variable' = variable /\ prepared' = prepared /\ resolved' = Resolved(job.request)
        /\ stage' # "made"
    BY <1>4 DEF CheckFirst
  <2> QED
    BY <1>1, <1>2, <2>1 DEF DerivativeInv
<1>5. CASE Ask \/ DoNotAsk \/ Answer
  <2>1. job' = job /\ variable' = variable /\ prepared' = prepared /\ resolved' = resolved /\ stage' # "made"
    BY <1>5 DEF Ask, DoNotAsk, Answer
  <2> QED
    BY <1>1, <2>1 DEF DerivativeInv
<1>6. CASE Meanwhile
  <2>1. /\ job' = job /\ variable' \in GivenNames /\ prepared' = prepared /\ resolved' = resolved
        /\ stage' # "made"
    BY <1>1, <1>6 DEF Meanwhile
  <2> QED
    BY <1>1, <2>1 DEF DerivativeInv
<1>7. CASE PrepareDisclosed
  <2> DEFINE again == IF job.kind = "sample" THEN Resolved(job.request) ELSE job.request
  <2>1. /\ job' = job /\ variable' = variable /\ resolved' = resolved /\ stage' # "made"
        /\ prepared' \in {Injected(again), prepared}
    BY <1>7 DEF PrepareDisclosed
  <2>2. again \in StoredRequests
    BY <1>1, <1>2
  <2> HIDE DEF again
  <2>3. prepared' \in StoredRequests
    BY <1>1, <2>1, <2>2, InjectedIs
  <2> QED
    BY <1>1, <2>1, <2>3 DEF DerivativeInv
<1>8. CASE PrepareMasked
  <2>1. /\ job' = job /\ variable' = variable /\ resolved' = resolved /\ stage' # "made"
        /\ prepared' = Redacted(resolved)
    BY <1>8 DEF PrepareMasked, Masked
  <2> QED
    BY <1>1, <2>1, RedactedIs DEF DerivativeInv
<1>9. CASE Generate
  <2>1. /\ job' = job /\ variable' = variable /\ resolved' = resolved /\ prepared' = prepared
        /\ disclosed' = disclosed /\ product' = Sample(Effective(Final), job.language)
    BY <1>9 DEF Generate
  <2>2. Final' = Final
    BY <2>1 DEF Final
  <2> QED
    BY <1>1, <2>1, <2>2 DEF DerivativeInv
<1>10. CASE Export \/ Import
  <2>1. /\ job' = job /\ variable' = variable /\ resolved' = resolved /\ prepared' = prepared
        /\ job.kind = "export"
    BY <1>10 DEF Export, Import
  <2> QED
    BY <1>1, <2>1 DEF DerivativeInv
<1> QED
  BY <1>3, <1>4, <1>5, <1>6, <1>7, <1>8, <1>9, <1>10 DEF DerivativeNext

LEMMA DerivativeInductive == ContentSpec => []DerivativeInv
<1>1. ContentInit => DerivativeInv
  <2>1. \A j \in AnyJob : WellFormedJob(j)
    BY JobsAreWellFormed DEF AnyJob
  <2>2. \A j \in Jobs : WellFormedJob(j)
    BY JobsAreWellFormed
  <2> QED
    BY <2>1, <2>2, DerivativeStarts DEF ContentInit
<1>2. ASSUME DerivativeInv, [ContentNext]_contentVars PROVE DerivativeInv'
  <2>1. CASE UNCHANGED derivativeVars
    BY <1>2, <2>1 DEF derivativeVars, DerivativeInv, Final
  <2>2. CASE DerivativeNext
    BY <1>2, <2>2, DerivativeKeeps
  <2> QED
    BY <1>2, <2>1, <2>2 DEF ContentNext, contentVars, EditsTree, ParsesCurl, ReadsWords, ResolvesVariables,
                            MakesDerivative, ConvertsPostman
<1> QED
  BY <1>1, <1>2, PTL DEF ContentSpec

(***************************************************************************)
(* Whatever a request is made of, a sample in any language sends what      *)
(* would be sent, credentials aside (CodeGenerator.ts): the address, every *)
(* header once, every part of the body, whether redirects are followed and *)
(* certificates verified, or a note, and one type of a multipart body.     *)
(***************************************************************************)
THEOREM SamplesReflect == ContentSpec => []SampleReflectsRequest
<1>1. ASSUME DerivativeInv PROVE SampleReflectsRequest
  <2> SUFFICES ASSUME stage = "made", job.kind = "sample" PROVE SampleReflectsRequest
    BY DEF SampleReflectsRequest
  <2> DEFINE e == Effective(Final)
  <2>1. Final \in StoredRequests
    BY <1>1, RedactedAgainIs DEF DerivativeInv, Final
  <2>2. IsEffective(e)
    BY <2>1, EffectiveFacts
  <2>3. job.language \in Languages /\ product = Sample(e, job.language)
    BY <1>1 DEF DerivativeInv, WellFormedJob
  <2> HIDE DEF e
  <2>4. IsSample(e, product, LinesGiving(Expressed(e, job.language)))
    BY <2>2, <2>3, SampleIsWhole
  <2>5. product \in Seq(Statements(e))
    BY <2>4 DEF IsSample
  <2>6. /\ Abouts("url") = <<[query |-> e.query, userinfo |-> e.userinfo]>>
        /\ Abouts("header") = Expressible(e)
        /\ Len(Lines("file")) = e.files
        /\ <<"fields">> = Abouts("content") \/ Abouts("field") = [i \in DOMAIN e.fields |-> e.fields[i].name]
        /\ Fields(e) \/ e.files > 0 \/ Abouts("content") = IF e.body = "none" THEN <<>> ELSE <<"body">>
        /\ Abouts("redirects") = <<IF e.followRedirects THEN "follow" ELSE "stop">>
        /\ Abouts("note") # <<>> \/ Abouts("verifies") = <<IF e.verifySSL THEN "yes" ELSE "no">>
        /\ Len(Lines("type")) + Cardinality(Matches(e.headers, "content-type")) <= 1
    BY <2>2, <2>4, <2>5, SampleReflects
  <2> QED
    BY <2>6 DEF SampleReflectsRequest, e
<1> QED
  BY <1>1, DerivativeInductive, PTL

-----------------------------------------------------------------------------
(* What hiding leaves *)

SameAuth(r, t) == r.auth = t.auth /\ r.authIn = t.authIn /\ r.authName = t.authName

\* A request that can be shown.
Masks(r) ==
  /\ ~r.userinfo
  /\ \A p \in ToSet(r.headers) : ~Reveals(p)
  /\ \A p \in ToSet(r.urlQuery) : ~RevealsQuery(r, p)
  /\ \A p \in ToSet(r.query) : p.value # "credential"

\* Pairs are as they were or hold placeholders.
OnlyHides(ps, qs) == \A p \in ToSet(ps) : p \in ToSet(qs) \/ p.value \in Placeholders
Hides(r, t) == SameAuth(r, t) /\ OnlyHides(r.headers, t.headers) /\ OnlyHides(r.query, t.query)

\* The first enabled pair of the name of the authentication is a placeholder.
HoldsItsPlaceholder(r) == r.auth # "none" => HoldsPlaceholder(PlaceOf(r), AuthName(r))

LEMMA PlaceholdersReveal ==
  ASSUME NEW p, p.value \in Placeholders
  PROVE  ~Reveals(p) /\ p.value # "credential" /\ \A r : ~RevealsQuery(r, p)
BY DEF Placeholders, Reveals, RevealsQuery

LEMMA RevealsAlike ==
  ASSUME NEW r, NEW t, SameAuth(r, t), NEW p
  PROVE  RevealsQuery(r, p) <=> RevealsQuery(t, p)
BY DEF SameAuth, RevealsQuery, InQuery

LEMMA HidesTwice ==
  ASSUME NEW r, NEW t, NEW u, Hides(r, t), Hides(t, u)
  PROVE  Hides(r, u)
BY DEF Hides, OnlyHides, SameAuth

LEMMA MaskedKeepsApart ==
  ASSUME NEW r, Masks(r)
  PROVE  KeepsCredentialsApart(r)
BY DEF Masks, KeepsCredentialsApart, Reveals, RevealsQuery

(***************************************************************************)
(* A header is hidden, or is not one of credentials.                       *)
(***************************************************************************)
LEMMA HiddenHeadersMask ==
  ASSUME NEW hs \in Seq(Pairs), \A p \in ToSet(hs) : p.value # "credential"
  PROVE  (\A p \in ToSet(HideHeaders(hs)) : ~Reveals(p)) /\ OnlyHides(HideHeaders(hs), hs)
<1> DEFINE t == HideHeaders(hs)
<1>1. \A i \in DOMAIN hs : hs[i] \in Pairs /\ hs[i] \in ToSet(hs)
  BY InPairs
<1>2. ASSUME NEW i \in DOMAIN hs PROVE ~Reveals(t[i]) /\ (t[i] \in ToSet(hs) \/ t[i].value \in Placeholders)
  <2>1. CASE hs[i].name \in CredentialHeaders /\ hs[i].value \notin Placeholders
    <3>1. t[i] = [hs[i] EXCEPT !.value = "<REDACTED>"]
      BY <2>1 DEF HideHeaders
    <3>2. t[i].value = "<REDACTED>"
      BY <1>1, <3>1 DEF Pairs
    <3> QED
      BY <3>2, PlaceholdersReveal DEF Placeholders
  <2>2. CASE ~(hs[i].name \in CredentialHeaders /\ hs[i].value \notin Placeholders)
    <3>1. t[i] = hs[i] /\ hs[i].value # "credential"
      BY <1>1, <2>2 DEF HideHeaders
    <3>2. ~Reveals(t[i])
      BY <2>2, <3>1 DEF Reveals, Placeholders
    <3> QED
      BY <1>1, <3>1, <3>2
  <2> QED
    BY <2>1, <2>2
<1>3. DOMAIN t = DOMAIN hs
  BY DEF HideHeaders
<1> HIDE DEF t
<1>4. \A p \in ToSet(t) : ~Reveals(p) /\ (p \in ToSet(hs) \/ p.value \in Placeholders)
  BY <1>2, <1>3 DEF ToSet
<1> QED
  BY <1>4 DEF t, OnlyHides

LEMMA HiddenUrlQueryMasks ==
  ASSUME NEW r \in StoredRequests, KeepsCredentialsApart(r)
  PROVE  \A p \in ToSet(HideUrlQuery(r)) : ~RevealsQuery(r, p)
<1> DEFINE first == CHOOSE i \in DOMAIN r.urlQuery : r.urlQuery[i].name = r.authName
                                      /\ \A j \in 1 .. i - 1 : r.urlQuery[j].name # r.authName
           shown == [r.urlQuery EXCEPT ![first].value = "<CREDENTIAL>"]
           S == {p \in ToSet(shown) : p.name # r.authName \/ p.value = "<CREDENTIAL>"}
<1>1. r.urlQuery \in Seq(Pairs)
  BY RequestShape
<1>2. \A i \in DOMAIN r.urlQuery : r.urlQuery[i] \in Pairs /\ r.urlQuery[i] \in ToSet(r.urlQuery)
  BY <1>1, InPairs
<1>3. \A i \in DOMAIN r.urlQuery : r.urlQuery[i].value # "credential"
  BY <1>2 DEF KeepsCredentialsApart
<1>4. CASE InQuery(r) /\ \E i \in DOMAIN r.urlQuery : r.urlQuery[i].name = r.authName
  <2>1. HideUrlQuery(r) = Kept(shown, S)
    BY <1>4 DEF HideUrlQuery
  <2> HIDE DEF first
  <2>2. DOMAIN shown = DOMAIN r.urlQuery
        /\ \A i \in DOMAIN r.urlQuery : shown[i] = r.urlQuery[i] \/ shown[i] = [r.urlQuery[i] EXCEPT !.value = "<CREDENTIAL>"]
    OBVIOUS
  <2>3. \A i \in DOMAIN r.urlQuery :
          /\ [r.urlQuery[i] EXCEPT !.value = "<CREDENTIAL>"] \in Pairs
          /\ [r.urlQuery[i] EXCEPT !.value = "<CREDENTIAL>"].value = "<CREDENTIAL>"
    BY <1>2 DEF Pairs, Placeholders
  <2>4. shown = [i \in DOMAIN r.urlQuery |-> shown[i]]
    OBVIOUS
  <2> HIDE DEF shown
  <2>5. \A i \in DOMAIN r.urlQuery : shown[i] \in Pairs /\ shown[i].value # "credential"
    BY <1>2, <1>3, <2>2, <2>3
  <2>6. shown \in Seq(Pairs)
    BY <1>1, <2>4, <2>5, EachIn
  <2>7. \A p \in ToSet(shown) : p.value # "credential"
    BY <2>2, <2>5 DEF ToSet
  <2> HIDE DEF S
  <2>8. ToSet(Kept(shown, S)) = ToSet(shown) \cap S
    BY <2>6, KeptFacts
  <2>9. \A p \in ToSet(HideUrlQuery(r)) : p.value # "credential" /\ (p.name # r.authName \/ p.value = "<CREDENTIAL>")
    BY <2>1, <2>7, <2>8 DEF S
  <2> QED
    BY <2>9 DEF RevealsQuery
<1>5. CASE ~(InQuery(r) /\ \E i \in DOMAIN r.urlQuery : r.urlQuery[i].name = r.authName)
  <2>1. HideUrlQuery(r) = r.urlQuery
    BY <1>5 DEF HideUrlQuery
  <2>2. \A i \in DOMAIN r.urlQuery : ~RevealsQuery(r, r.urlQuery[i])
    BY <1>3, <1>5 DEF RevealsQuery
  <2> QED
    BY <2>1, <2>2 DEF ToSet
<1> QED
  BY <1>4, <1>5

LEMMA RecognizedMasks ==
  ASSUME NEW r \in StoredRequests, KeepsCredentialsApart(r)
  PROVE  Masks(Recognized(r)) /\ Hides(Recognized(r), r)
<1> DEFINE hidden == HideHeaders(r.headers)
           p == Pair("authorization", "<CREDENTIAL>")
           hs == IF r.userinfo /\ r.auth = "none" /\ ~Has(hidden, "authorization") THEN Append(hidden, p) ELSE hidden
           t == Recognized(r)
<1>1. r.headers \in Seq(Pairs) /\ hidden \in Seq(Pairs) /\ p \in Pairs
  BY RequestShape, HiddenHeaders, PairIs, NamesInUse DEF Placeholders, GivenNames
<1>2. /\ t.urlQuery = HideUrlQuery(r) /\ t.userinfo = FALSE /\ t.headers = hs /\ t.query = r.query
      /\ t.auth = r.auth /\ t.authIn = r.authIn /\ t.authName = r.authName
  BY DEF Recognized, HideUserInfo, StoredRequests
<1>3. SameAuth(t, r)
  BY <1>2 DEF SameAuth
<1>4. ~Reveals(p) /\ p.value \in Placeholders
  BY PlaceholdersReveal DEF Pair, Placeholders
<1>5. (\A q \in ToSet(hidden) : ~Reveals(q)) /\ OnlyHides(hidden, r.headers)
  BY <1>1, HiddenHeadersMask DEF KeepsCredentialsApart
<1> HIDE DEF hidden, p
<1>6. ToSet(hs) \subseteq ToSet(hidden) \cup {p}
  BY <1>1, SetOfAppend
<1> HIDE DEF hs, t
<1>7. (\A q \in ToSet(t.headers) : ~Reveals(q)) /\ OnlyHides(t.headers, r.headers)
  BY <1>2, <1>4, <1>5, <1>6 DEF OnlyHides
<1>8. \A q \in ToSet(t.urlQuery) : ~RevealsQuery(r, q)
  BY <1>2, HiddenUrlQueryMasks
<1>9. \A q \in ToSet(t.urlQuery) : ~RevealsQuery(t, q)
  BY <1>3, <1>8, RevealsAlike
<1>10. \A q \in ToSet(t.query) : q.value # "credential"
  BY <1>2 DEF KeepsCredentialsApart
<1>11. Masks(t)
  BY <1>2, <1>7, <1>9, <1>10 DEF Masks
<1>12. Hides(t, r)
  BY <1>2, <1>3, <1>7 DEF Hides, OnlyHides
<1> QED
  BY <1>11, <1>12 DEF t

(***************************************************************************)
(* A placeholder put in its place adds nothing else.                       *)
(***************************************************************************)
LEMMA PlacedSet ==
  ASSUME NEW ps \in Seq(Pairs), NEW n \in PairNames, NEW mark \in Placeholders
  PROVE  OnlyHides(Placed(ps, n, mark), ps)
<1> DEFINE first == CHOOSE i \in DOMAIN ps : /\ ps[i].enabled /\ Lower(ps[i].name) = Lower(n)
                                        /\ \A j \in 1 .. i - 1 : ~(ps[j].enabled /\ Lower(ps[j].name) = Lower(n))
           v == IF ps[first].value = "<CREDENTIAL>" THEN mark ELSE "<AUTH_CONFLICT>"
           m == [ps EXCEPT ![first].value = v]
           new == Pair(n, "<CREDENTIAL>")
<1>1. \A i \in DOMAIN ps : ps[i] \in Pairs /\ ps[i] \in ToSet(ps)
  BY InPairs
<1>2. Marked(ps, n, mark) = m
  BY DEF Marked
<1>3. v \in Placeholders
  BY DEF Placeholders
<1>4. \A p \in ToSet(m) : p \in ToSet(ps) \/ p.value \in Placeholders
  <2> HIDE DEF first, v
  <2>1. DOMAIN m = DOMAIN ps /\ \A i \in DOMAIN ps : m[i] = ps[i] \/ m[i] = [ps[i] EXCEPT !.value = v]
    OBVIOUS
  <2>2. \A i \in DOMAIN ps : [ps[i] EXCEPT !.value = v].value = v
    BY <1>1 DEF Pairs
  <2> HIDE DEF m
  <2>3. \A i \in DOMAIN m : m[i] \in ToSet(ps) \/ m[i].value \in Placeholders
    BY <1>1, <1>3, <2>1, <2>2
  <2> QED
    BY <2>3 DEF ToSet
<1>5. new \in Pairs /\ new.value \in Placeholders
  BY PairIs DEF Placeholders, Pair
<1> HIDE DEF m, new
<1>6. ToSet(Append(ps, new)) = ToSet(ps) \cup {new}
  BY <1>5, SetOfAppend
<1>7. Placed(ps, n, mark) \in {m, Append(ps, new)}
  BY <1>2 DEF Placed, new
<1> QED
  BY <1>4, <1>5, <1>6, <1>7 DEF OnlyHides

(***************************************************************************)
(* The first enabled pair of the name is the one that is marked.           *)
(***************************************************************************)
LEMMA PlacedFirst ==
  ASSUME NEW ps \in Seq(Pairs), NEW n \in PairNames, NEW mark \in Placeholders
  PROVE  HoldsPlaceholder(Placed(ps, n, mark), n)
<1> DEFINE OfName(j) == ps[j].enabled /\ Lower(ps[j].name) = Lower(n)
           Of == {j \in DOMAIN ps : OfName(j)}
           first == CHOOSE i \in DOMAIN ps : /\ ps[i].enabled /\ Lower(ps[i].name) = Lower(n)
                                        /\ \A j \in 1 .. i - 1 : ~(ps[j].enabled /\ Lower(ps[j].name) = Lower(n))
           v == IF ps[first].value = "<CREDENTIAL>" THEN mark ELSE "<AUTH_CONFLICT>"
           m == [ps EXCEPT ![first].value = v]
           new == Pair(n, "<CREDENTIAL>")
<1>1. /\ DOMAIN ps = 1 .. Len(ps) /\ Len(ps) \in Nat
      /\ \A i \in DOMAIN ps : ps[i] \in Pairs
  BY InPairs
<1>2. v \in Placeholders
  BY DEF Placeholders
<1>3. CASE Of # {}
  <2>1. PICK k \in Of : \A j \in Of : k <= j
    <3>1. Of \subseteq Nat
      BY <1>1
    <3> HIDE DEF Of
    <3> QED
      BY <1>3, <3>1, Least
  <2>2. k \in DOMAIN ps /\ OfName(k) /\ \A j \in 1 .. k - 1 : ~OfName(j)
    <3>1. k \in 1 .. Len(ps) /\ \A j \in 1 .. Len(ps) : OfName(j) => k <= j
      BY <1>1, <2>1
    <3> HIDE DEF OfName
    <3> QED
      BY <1>1, <2>1, <3>1
  <2>3. first \in DOMAIN ps /\ OfName(first) /\ \A j \in 1 .. first - 1 : ~OfName(j)
    BY <2>2
  <2>4. Placed(ps, n, mark) = m
    BY <2>2 DEF Placed, Marked, HasAnyCase
  <2> HIDE DEF first, v
  <2>5. /\ DOMAIN m = DOMAIN ps /\ m[first] = [ps[first] EXCEPT !.value = v]
        /\ \A i \in DOMAIN ps : i # first => m[i] = ps[i]
    BY <2>3
  <2> DEFINE placed == [ps[first] EXCEPT !.value = v]
  <2>6. placed.value = v /\ placed.enabled = ps[first].enabled /\ placed.name = ps[first].name
    BY <1>1, <2>3 DEF Pairs
  <2> HIDE DEF m, placed
  <2>7. m[first].enabled /\ Lower(m[first].name) = Lower(n) /\ m[first].value \in Placeholders
    BY <1>2, <2>3, <2>5, <2>6 DEF placed
  <2>8. \A j \in 1 .. first - 1 : j \in DOMAIN ps /\ j # first
    BY <1>1, <2>3
  <2>9. \A j \in 1 .. first - 1 : ~(m[j].enabled /\ Lower(m[j].name) = Lower(n))
    BY <2>3, <2>5, <2>8
  <2>10. HoldsPlaceholder(m, n)
    BY <2>3, <2>5, <2>7, <2>9 DEF HoldsPlaceholder
  <2> QED
    BY <2>4, <2>10
<1>4. CASE Of = {}
  <2> DEFINE t == Append(ps, new)
             k == Len(ps) + 1
  <2>1. Placed(ps, n, mark) = t
    BY <1>4 DEF Placed, HasAnyCase
  <2>2. new \in Pairs /\ new.name = n /\ new.enabled /\ new.value \in Placeholders
    BY PairIs DEF Placeholders, Pair
  <2> HIDE DEF new
  <2>3. DOMAIN t = 1 .. k /\ t[k] = new /\ (\A j \in 1 .. Len(ps) : t[j] = ps[j]) /\ k \in DOMAIN t /\ k - 1 = Len(ps)
    BY <1>1
  <2> HIDE DEF t, k
  <2>4. \A j \in 1 .. k - 1 : ~(t[j].enabled /\ Lower(t[j].name) = Lower(n))
    BY <1>1, <1>4, <2>3
  <2>5. HoldsPlaceholder(t, n)
    BY <2>2, <2>3, <2>4 DEF HoldsPlaceholder
  <2> QED
    BY <2>1, <2>5
<1> QED
  BY <1>3, <1>4

LEMMA WithPlaceholderMasks ==
  ASSUME NEW r \in StoredRequests, Masks(r), NEW mark \in Placeholders
  PROVE  /\ Masks(WithPlaceholder(r, mark)) /\ Hides(WithPlaceholder(r, mark), r)
         /\ HoldsItsPlaceholder(WithPlaceholder(r, mark))
<1> DEFINE n == AuthName(r)
           q == Placed(r.query, n, mark)
           h == Placed(r.headers, n, mark)
           rq == [r EXCEPT !.query = q]
           rh == [r EXCEPT !.headers = h]
<1>0. r.query \in Seq(Pairs) /\ r.headers \in Seq(Pairs) /\ n \in PairNames
  BY RequestShape
<1> HIDE DEF n
<1>1. /\ OnlyHides(q, r.query) /\ OnlyHides(h, r.headers) /\ HoldsPlaceholder(q, n) /\ HoldsPlaceholder(h, n)
  BY <1>0, PlacedSet, PlacedFirst
<1>2. WithPlaceholder(r, mark) = IF r.auth = "none" THEN r ELSE IF InQuery(r) THEN rq ELSE rh
  BY DEF WithPlaceholder, n
<1> HIDE DEF q, h
<1>3. /\ rq.query = q /\ rq.headers = r.headers /\ rq.urlQuery = r.urlQuery /\ rq.userinfo = r.userinfo
      /\ SameAuth(rq, r)
  BY DEF StoredRequests, SameAuth
<1>4. /\ rh.headers = h /\ rh.query = r.query /\ rh.urlQuery = r.urlQuery /\ rh.userinfo = r.userinfo
      /\ SameAuth(rh, r)
  BY DEF StoredRequests, SameAuth
<1> HIDE DEF rq, rh
<1>5. OnlyHides(r.query, r.query) /\ OnlyHides(r.headers, r.headers) /\ SameAuth(r, r)
  BY DEF OnlyHides, SameAuth
<1>6. Hides(rq, r) /\ Hides(rh, r) /\ Hides(r, r)
  BY <1>1, <1>3, <1>4, <1>5 DEF Hides
<1>7. /\ ~r.userinfo /\ (\A p \in ToSet(r.headers) : ~Reveals(p)) /\ (\A p \in ToSet(r.query) : p.value # "credential")
      /\ \A p \in ToSet(r.urlQuery) : ~RevealsQuery(r, p)
  BY DEF Masks
<1>8. (\A p \in ToSet(h) : ~Reveals(p)) /\ \A p \in ToSet(q) : p.value # "credential"
  BY <1>1, <1>7, PlaceholdersReveal DEF OnlyHides
<1>9. \A p \in ToSet(rq.urlQuery) : ~RevealsQuery(rq, p)
  BY <1>3, <1>7, RevealsAlike
<1>10. \A p \in ToSet(rh.urlQuery) : ~RevealsQuery(rh, p)
  BY <1>4, <1>7, RevealsAlike
<1>11. Masks(rq) /\ Masks(rh)
  BY <1>3, <1>4, <1>7, <1>8, <1>9, <1>10 DEF Masks
<1>12. ASSUME InQuery(r) PROVE HoldsItsPlaceholder(rq)
  <2>1. PlaceOf(rq) = q /\ AuthName(rq) = n
    BY <1>3, <1>12 DEF PlaceOf, InQuery, SameAuth, AuthName, n
  <2> QED
    BY <1>1, <2>1 DEF HoldsItsPlaceholder, q, h
<1>13. ASSUME ~InQuery(r) PROVE HoldsItsPlaceholder(rh)
  <2>1. PlaceOf(rh) = h /\ AuthName(rh) = n
    BY <1>4, <1>13 DEF PlaceOf, InQuery, SameAuth, AuthName, n
  <2> QED
    BY <1>1, <2>1 DEF HoldsItsPlaceholder, q, h
<1>14. r.auth = "none" => HoldsItsPlaceholder(r)
  BY DEF HoldsItsPlaceholder
<1> QED
  BY <1>2, <1>6, <1>11, <1>12, <1>13, <1>14

LEMMA RedactedMasks ==
  ASSUME NEW r \in StoredRequests, KeepsCredentialsApart(r)
  PROVE  Masks(Redacted(r)) /\ Hides(Redacted(r), r) /\ HoldsItsPlaceholder(Redacted(r))
<1> DEFINE t == Recognized(r)
           u == Redacted(r)
<1>1. t \in StoredRequests /\ Masks(t) /\ Hides(t, r) /\ "<AUTH_CONFLICT>" \in Placeholders
  BY RecognizedIs, RecognizedMasks DEF Placeholders
<1>2. u = WithPlaceholder(t, "<AUTH_CONFLICT>")
  BY DEF Redacted
<1> HIDE DEF t, u
<1>3. Masks(u) /\ Hides(u, t) /\ HoldsItsPlaceholder(u)
  BY <1>1, <1>2, WithPlaceholderMasks
<1> QED
  BY <1>1, <1>3, HidesTwice DEF u

LEMMA RedactedAgainMasks ==
  ASSUME NEW r \in StoredRequests, Masks(r)
  PROVE  Masks(RedactedAgain(r)) /\ Hides(RedactedAgain(r), r)
<1> DEFINE hidden == Recognized(r)
           hs == [i \in DOMAIN hidden.headers |->
                   IF hidden.headers[i].enabled /\ hidden.headers[i].name \in CredentialHeaders
                        /\ hidden.headers[i].value \notin Placeholders
                   THEN [hidden.headers[i] EXCEPT !.value = "<REDACTED>"] ELSE hidden.headers[i]]
           t == [hidden EXCEPT !.headers = hs]
<1>1. RedactedAgain(r) = WithPlaceholder(t, "<CREDENTIAL>")
  BY DEF RedactedAgain
<1>2. /\ hidden \in StoredRequests /\ Masks(hidden) /\ Hides(hidden, r)
      /\ "<CREDENTIAL>" \in Placeholders /\ "<REDACTED>" \in Placeholders
  BY RecognizedIs, RecognizedMasks, MaskedKeepsApart DEF Placeholders
<1> HIDE DEF hidden
<1>3. hidden.headers \in Seq(Pairs)
  BY <1>2, RequestShape
<1>4. \A i \in DOMAIN hidden.headers : hidden.headers[i] \in Pairs /\ hidden.headers[i] \in ToSet(hidden.headers)
  BY <1>3, InPairs
<1>5. \A i \in DOMAIN hidden.headers :
        /\ [hidden.headers[i] EXCEPT !.value = "<REDACTED>"] \in Pairs
        /\ [hidden.headers[i] EXCEPT !.value = "<REDACTED>"].value = "<REDACTED>"
  BY <1>2, <1>4 DEF Pairs
<1>6. hs = [i \in DOMAIN hidden.headers |-> hs[i]] /\ \A i \in DOMAIN hidden.headers : hs[i] \in Pairs
  BY <1>4, <1>5
<1>7. /\ DOMAIN hs = DOMAIN hidden.headers
      /\ \A i \in DOMAIN hidden.headers : hs[i] = hidden.headers[i] \/ hs[i] = [hidden.headers[i] EXCEPT !.value = "<REDACTED>"]
  OBVIOUS
<1> HIDE DEF hs
<1>8. hs \in Seq(Pairs)
  BY <1>3, <1>6, EachIn
<1>9. \A i \in DOMAIN hs : hs[i] \in ToSet(hidden.headers) \/ hs[i].value \in Placeholders
  <2> TAKE i \in DOMAIN hs
  <2>1. CASE hs[i] = hidden.headers[i]
    BY <1>4, <1>7, <2>1
  <2>2. CASE hs[i] = [hidden.headers[i] EXCEPT !.value = "<REDACTED>"]
    <3>1. hs[i].value = "<REDACTED>"
      BY <1>5, <1>7, <2>2
    <3> QED
      BY <1>2, <3>1
  <2> QED
    BY <1>7, <2>1, <2>2
<1>10. OnlyHides(hs, hidden.headers)
  BY <1>9 DEF ToSet, OnlyHides
<1>11. \A p \in ToSet(hs) : ~Reveals(p)
  BY <1>2, <1>10, PlaceholdersReveal DEF Masks, OnlyHides
<1>12. t \in StoredRequests
  BY <1>2, <1>8, RequestShape
<1>13. /\ t.headers = hs /\ t.query = hidden.query /\ t.urlQuery = hidden.urlQuery /\ t.userinfo = hidden.userinfo
       /\ SameAuth(t, hidden)
  BY <1>2 DEF StoredRequests, SameAuth
<1> HIDE DEF t
<1>14. \A p \in ToSet(t.urlQuery) : ~RevealsQuery(t, p)
  BY <1>2, <1>13, RevealsAlike DEF Masks
<1>15. Masks(t) /\ Hides(t, hidden)
  BY <1>2, <1>10, <1>11, <1>13, <1>14 DEF Masks, Hides, OnlyHides
<1>16. Masks(RedactedAgain(r)) /\ Hides(RedactedAgain(r), t)
  BY <1>1, <1>2, <1>12, <1>15, WithPlaceholderMasks
<1> QED
  BY <1>2, <1>15, <1>16, HidesTwice

-----------------------------------------------------------------------------
(* Only a confirmed product discloses *)

PreviewOf(e) == Url(e) \o HeaderLines(e) \o FieldLines(e)

\* The request a product is made of without its credentials.
Undisclosed(r) == Masks(r) /\ Hides(r, resolved) /\ HoldsItsPlaceholder(r)

CredentialInv ==
  /\ DerivativeInv
  /\ KeepsCredentialsApart(resolved)
  /\ disclosed => answer = "yes" /\ stage \in {"prepared", "made", "imported", "refused"}
  /\ stage = "confirmed" => answer = "yes"
  /\ (stage \in {"prepared", "made"} /\ ~disclosed) => Undisclosed(prepared)
  /\ (job.kind = "sample" /\ stage \notin {"asked", "refused"}) => ~Conflict(resolved)
  /\ (stage = "made" /\ job.kind = "preview") => product = PreviewOf(Effective(prepared))

LEMMA CredentialsStart ==
  ASSUME NEW from, \A j \in from : WellFormedJob(j), DerivativeInit(from)
  PROVE  CredentialInv
<1>1. /\ job \in from /\ resolved = job.request /\ stage = "asked" /\ disclosed = FALSE
  BY DEF DerivativeInit
<1>2. DerivativeInv
  BY DerivativeStarts
<1>3. KeepsCredentialsApart(resolved)
  BY <1>1 DEF WellFormedJob
<1> QED
  BY <1>1, <1>2, <1>3 DEF CredentialInv

LEMMA CredentialsKept ==
  ASSUME CredentialInv, DerivativeNext
  PROVE  CredentialInv'
<1>1. /\ DerivativeInv' /\ job.request \in StoredRequests /\ resolved \in StoredRequests
      /\ KeepsCredentialsApart(job.request) /\ variable \in GivenNames
  BY DerivativeKeeps DEF CredentialInv, DerivativeInv, WellFormedJob
<1>2. /\ KeepsCredentialsApart(resolved)
      /\ (disclosed => answer = "yes" /\ stage \in {"prepared", "made", "imported", "refused"})
      /\ (stage = "confirmed" => answer = "yes")
      /\ (job.kind = "sample" /\ stage \notin {"asked", "refused"} => ~Conflict(resolved))
  BY DEF CredentialInv
<1> DEFINE found == Resolved(job.request)
<1>3. KeepsCredentialsApart(found) /\ found \in StoredRequests
  BY <1>1, ResolvedIs
<1> HIDE DEF found
<1>4. CASE Preview
  <2>1. /\ job' = job /\ resolved' = found /\ prepared' = Redacted(found) /\ stage' = "made"
        /\ disclosed' = disclosed /\ answer' = answer /\ job.kind = "preview"
        /\ product' = PreviewOf(Effective(prepared')) /\ stage = "asked"
    BY <1>4 DEF Preview, PreviewOf, found
  <2>2. Undisclosed(prepared)'
    BY <1>3, <2>1, RedactedMasks DEF Undisclosed
  <2> QED
    BY <1>1, <1>2, <1>3, <2>1, <2>2 DEF CredentialInv
<1>5. CASE CheckFirst
  <2>1. /\ job' = job /\ resolved' = found /\ disclosed' = disclosed /\ answer' = answer /\ stage = "asked"
        /\ stage' \in {"checked", "refused"} /\ (stage' = "checked" => ~Conflict(resolved'))
    BY <1>5 DEF CheckFirst, found
  <2>2. Conflict(resolved') <=> Conflict(resolved)'
    BY DEF Conflict
  <2> QED
    BY <1>1, <1>2, <1>3, <2>1, <2>2 DEF CredentialInv
<1>6. CASE Ask \/ DoNotAsk \/ Meanwhile
  <2>1. /\ job' = job /\ resolved' = resolved /\ disclosed' = disclosed /\ answer' = answer
        /\ stage' \notin {"confirmed", "prepared", "made"} /\ stage \in {"asked", "checked", "asking"}
        /\ (job.kind = "sample" => stage # "asked")
    BY <1>6 DEF Ask, DoNotAsk, Meanwhile, ReadyToAsk
  <2>2. Conflict(resolved)' <=> Conflict(resolved)
    BY <2>1
  <2> QED
    BY <1>1, <1>2, <2>1, <2>2 DEF CredentialInv
<1>7. CASE Answer
  <2>1. /\ job' = job /\ resolved' = resolved /\ disclosed' = disclosed /\ stage = "asking"
        /\ stage' \notin {"prepared", "made"} /\ (stage' = "confirmed" => answer' = "yes")
    BY <1>7 DEF Answer
  <2>2. ~disclosed
    BY <1>2, <2>1
  <2>3. Conflict(resolved)' <=> Conflict(resolved)
    BY <2>1
  <2> QED
    BY <1>1, <1>2, <2>1, <2>2, <2>3 DEF CredentialInv
<1>8. CASE PrepareDisclosed
  <2>1. /\ job' = job /\ resolved' = resolved /\ answer' = answer /\ stage = "confirmed"
        /\ stage' \in {"prepared", "refused"} /\ (stage' = "prepared" <=> disclosed')
    BY <1>8 DEF PrepareDisclosed, Disclosed
  <2>2. Conflict(resolved)' <=> Conflict(resolved)
    BY <2>1
  <2> QED
    BY <1>1, <1>2, <2>1, <2>2 DEF CredentialInv
<1>9. CASE PrepareMasked
  <2>1. /\ job' = job /\ resolved' = resolved /\ disclosed' = disclosed /\ answer' = answer
        /\ stage = "declined" /\ stage' = "prepared" /\ prepared' = Redacted(resolved)
    BY <1>9 DEF PrepareMasked, Masked
  <2>2. Undisclosed(prepared)'
    BY <1>1, <1>2, <2>1, RedactedMasks DEF Undisclosed
  <2>3. Conflict(resolved)' <=> Conflict(resolved)
    BY <2>1
  <2> QED
    BY <1>1, <1>2, <2>1, <2>2, <2>3 DEF CredentialInv
<1>10. CASE Generate \/ Export
  <2>1. /\ job' = job /\ resolved' = resolved /\ disclosed' = disclosed /\ answer' = answer /\ prepared' = prepared
        /\ stage = "prepared" /\ stage' = "made" /\ job.kind # "preview"
    BY <1>10 DEF Generate, Export
  <2>2. ~disclosed => Undisclosed(prepared)
    BY <2>1 DEF CredentialInv
  <2>3. (Conflict(resolved)' <=> Conflict(resolved)) /\ (Undisclosed(prepared)' <=> Undisclosed(prepared))
    BY <2>1 DEF Undisclosed
  <2> QED
    BY <1>1, <1>2, <2>1, <2>2, <2>3 DEF CredentialInv
<1>11. CASE Import
  <2>1. /\ job' = job /\ resolved' = resolved /\ disclosed' = disclosed /\ answer' = answer
        /\ stage' \in {"imported", "refused"} /\ job.kind = "export"
    BY <1>11 DEF Import
  <2> QED
    BY <1>1, <1>2, <2>1 DEF CredentialInv
<1> QED
  BY <1>4, <1>5, <1>6, <1>7, <1>8, <1>9, <1>10, <1>11 DEF DerivativeNext

LEMMA CredentialsInductive == ContentSpec => []CredentialInv
<1>1. ContentInit => CredentialInv
  <2>1. \A j \in Jobs \cup AnyJob : WellFormedJob(j)
    BY JobsAreWellFormed DEF AnyJob
  <2> QED
    BY <2>1, CredentialsStart DEF ContentInit
<1>2. ASSUME CredentialInv, [ContentNext]_contentVars PROVE CredentialInv'
  <2>1. CASE UNCHANGED derivativeVars
    BY <1>2, <2>1 DEF derivativeVars, CredentialInv, DerivativeInv, Final, Undisclosed, Conflict
  <2>2. CASE DerivativeNext
    BY <1>2, <2>2, CredentialsKept
  <2> QED
    BY <1>2, <2>1, <2>2 DEF ContentNext, contentVars, EditsTree, ParsesCurl, ReadsWords, ResolvesVariables,
                            MakesDerivative, ConvertsPostman
<1> QED
  BY <1>1, <1>2, PTL DEF ContentSpec

(***************************************************************************)
(* Statements about a request that is masked show nothing.                 *)
(***************************************************************************)
LEMMA EffectiveMasks ==
  ASSUME NEW r \in StoredRequests, Masks(r)
  PROVE  /\ ~Effective(r).userinfo
         /\ \A p \in ToSet(Effective(r).headers) : ~Reveals(p) /\ (p.value = "secret" => p \in ToSet(r.headers) /\ p.enabled)
         /\ \A p \in ToSet(Effective(r).query) :
              p.value # "credential" /\ (p \in ToSet(r.urlQuery) \/ (p \in ToSet(r.query) /\ p.enabled))
<1> DEFINE e == Effective(r)
           c == Pair("content-type", "plain")
<1>1. e.userinfo = r.userinfo /\ e.query = r.urlQuery \o Enabled(r.query) /\ e.headers = HeadersOf(r)
  BY DEF Effective
<1> HIDE DEF e
<1>2. ToSet(e.headers) \subseteq {h \in ToSet(r.headers) : h.enabled} \cup {c}
  BY <1>1, HeadersFacts
<1>3. ~Reveals(c) /\ c.value # "secret"
  BY DEF Reveals, Pair
<1> HIDE DEF c
<1>4. \A p \in ToSet(e.headers) : ~Reveals(p) /\ (p.value = "secret" => p \in ToSet(r.headers) /\ p.enabled)
  BY <1>2, <1>3 DEF Masks
<1>5. /\ r.urlQuery \in Seq(Pairs) /\ Enabled(r.query) \in Seq(Pairs)
      /\ ToSet(Enabled(r.query)) = {p \in ToSet(r.query) : p.enabled}
  BY RequestShape, EnabledFacts
<1>6. ToSet(e.query) = ToSet(r.urlQuery) \cup {p \in ToSet(r.query) : p.enabled}
  BY <1>1, <1>5, SetOfBoth
<1>7. \A p \in ToSet(r.urlQuery) \cup ToSet(r.query) : p.value # "credential"
  BY DEF Masks, RevealsQuery
<1> QED
  BY <1>1, <1>4, <1>6, <1>7 DEF e, Masks

LEMMA PreviewLines ==
  ASSUME NEW e, IsEffective(e)
  PROVE  /\ PreviewOf(e) \in Seq(Statements(e))
         /\ Pick(e, PreviewOf(e), "url") = Url(e) /\ Pick(e, PreviewOf(e), "header") = HeaderLines(e)
<1> DEFINE u == Url(e)
           h == HeaderLines(e)
           f == FieldLines(e)
           s1 == u \o h
           s2 == s1 \o f
<1>1. IsPart(e, u, h, {"url"}) /\ IsPart(e, h, h, {"header"})
  BY SampleParts, HeadersPart
<1>2. IsPart(e, f, h, {"field"})
  BY Parts DEF IsPart
<1>3. PreviewOf(e) = s2 /\ u = Url(e)
  BY DEF PreviewOf
<1> HIDE DEF u, h, f
<1>4. IsPart(e, s1, h, {"url"} \cup {"header"})
  BY <1>1, PartsTogether
<1> HIDE DEF s1
<1>5. IsPart(e, s2, h, ({"url"} \cup {"header"}) \cup {"field"})
  BY <1>2, <1>4, PartsTogether
<1> HIDE DEF s2
<1>6. s2 \in Seq(Statements(e)) /\ Pick(e, s2, "url") = Url(e) /\ Pick(e, s2, "header") = h
  BY <1>5 DEF IsPart
<1> QED
  BY <1>3, <1>6 DEF h

LEMMA ShowsNothing ==
  ASSUME NEW r \in StoredRequests, Masks(r), Hides(r, resolved),
         NEW hs, LinesGiving(hs) = Lines("header"), \A i \in DOMAIN hs : hs[i] \in ToSet(Effective(r).headers),
         Lines("url") = Url(Effective(r))
  PROVE  ~Shown /\ (~Conflict(resolved) => ~KeyShown)
<1> DEFINE e == Effective(r)
<1>1. /\ ~e.userinfo
      /\ \A p \in ToSet(e.headers) : ~Reveals(p) /\ (p.value = "secret" => p \in ToSet(r.headers) /\ p.enabled)
      /\ \A p \in ToSet(e.query) :
           p.value # "credential" /\ (p \in ToSet(r.urlQuery) \/ (p \in ToSet(r.query) /\ p.enabled))
  BY EffectiveMasks
<1> HIDE DEF e
<1>2. HeadersShown \subseteq ToSet(e.headers)
  <2>1. DOMAIN LinesGiving(hs) = DOMAIN hs /\ \A i \in DOMAIN hs : LinesGiving(hs)[i].about = hs[i]
    BY DEF LinesGiving
  <2> QED
    BY <2>1 DEF HeadersShown, e
<1>3. \A a \in AddressesShown : a = [query |-> e.query, userinfo |-> e.userinfo]
  <2>1. Lines("url") = <<[kind |-> "url", about |-> [query |-> e.query, userinfo |-> e.userinfo]]>>
    BY DEF Url, Line, e
  <2> QED
    BY <2>1 DEF AddressesShown
<1>4. \A a \in AddressesShown : a.query = e.query /\ a.userinfo = e.userinfo
  BY <1>3
<1>5. ~Shown
  BY <1>1, <1>2, <1>4 DEF Shown
<1>6. ASSUME ~Conflict(resolved) PROVE ~KeyShown
  <2>1. SameAuth(r, resolved) /\ OnlyHides(r.headers, resolved.headers) /\ OnlyHides(r.query, resolved.query)
    BY DEF Hides
  <2>2. CASE ~InQuery(resolved)
    <3> SUFFICES ASSUME NEW h \in HeadersShown, h.name = AuthName(resolved), h.value = "secret" PROVE FALSE
      BY <2>2 DEF KeyShown
    <3>1. h \in ToSet(resolved.headers) /\ h.enabled /\ ~Reveals(h)
      BY <1>1, <1>2, <2>1 DEF OnlyHides, Placeholders
    <3>2. resolved.auth # "none"
      BY <3>1 DEF Reveals, AuthName, CredentialHeaders
    <3>3. Has(resolved.headers, AuthName(resolved))
      BY <3>1 DEF Has, ToSet
    <3> QED
      BY <1>6, <2>2, <3>2, <3>3 DEF Conflict
  <2>3. CASE InQuery(resolved)
    <3> SUFFICES ASSUME NEW p \in ToSet(e.query), p.name = AuthName(resolved), p.value = "secret" PROVE FALSE
      BY <1>4, <2>3 DEF KeyShown
    <3>1. AuthName(resolved) = r.authName /\ InQuery(r) /\ resolved.auth # "none"
      BY <2>1, <2>3 DEF SameAuth, AuthName, InQuery
    <3>2. p \notin ToSet(r.urlQuery)
      BY <3>1 DEF Masks, RevealsQuery
    <3>3. p \in ToSet(resolved.query) /\ p.enabled
      BY <1>1, <2>1, <3>2 DEF OnlyHides, Placeholders
    <3>4. Has(resolved.query, AuthName(resolved))
      BY <3>3 DEF Has, ToSet
    <3> QED
      BY <1>6, <2>3, <3>1, <3>4 DEF Conflict
  <2> QED
    BY <2>2, <2>3
<1> QED
  BY <1>5, <1>6

(***************************************************************************)
(* Whatever headers, parameters and authentication a request has, and      *)
(* whichever variables name them, unless the person was asked for this     *)
(* product and said yes no preview, sample or export holds the stored      *)
(* credential, user information or a typed header of credentials, by the   *)
(* names resolved in previews and samples and as stored in exports; the    *)
(* first enabled pair of the authentication's name holds a placeholder,    *)
(* and a sample shows nothing typed under it (CredentialRedaction.ts,      *)
(* AuthService.ts:244-264 and 480-487, CollectionService.ts:202-206).      *)
(* Nothing need be known of what happens behind the open question.         *)
(***************************************************************************)
THEOREM NothingUnconfirmed == ContentSpec => []NoUnconfirmedCredential
<1>1. ASSUME CredentialInv PROVE NoUnconfirmedCredential
  <2> SUFFICES ASSUME stage = "made", answer # "yes"
               PROVE  /\ ~Leaks(prepared)
                      /\ prepared.auth # "none" => HoldsPlaceholder(PlaceOf(prepared), AuthName(prepared))
                      /\ job.kind # "export" => ~Shown
                      /\ job.kind = "sample" => ~KeyShown
    BY DEF NoUnconfirmedCredential
  <2>1. /\ ~disclosed /\ Masks(prepared) /\ Hides(prepared, resolved) /\ HoldsItsPlaceholder(prepared)
        /\ prepared \in StoredRequests /\ job.kind \in {"preview", "sample", "export"}
    BY <1>1 DEF CredentialInv, DerivativeInv, WellFormedJob, Undisclosed
  <2>2. ~Leaks(prepared)
    BY <2>1 DEF Leaks, Masks
  <2>3. prepared.auth # "none" => HoldsPlaceholder(PlaceOf(prepared), AuthName(prepared))
    BY <2>1 DEF HoldsItsPlaceholder
  <2>4. ASSUME job.kind = "preview" PROVE ~Shown
    <3> DEFINE e == Effective(prepared)
    <3>1. IsEffective(e)
      BY <2>1, EffectiveFacts
    <3>2. product = PreviewOf(e)
      BY <1>1, <2>4 DEF CredentialInv
    <3> HIDE DEF e
    <3>3. product \in Seq(Statements(e)) /\ Pick(e, product, "url") = Url(e) /\ Pick(e, product, "header") = HeaderLines(e)
      BY <3>1, <3>2, PreviewLines
    <3>4. Lines("url") = Url(e) /\ Lines("header") = HeaderLines(e)
      BY <3>3, PickIs DEF Lines
    <3>5. HeaderLines(e) = LinesGiving(e.headers)
      BY DEF HeaderLines, LinesGiving
    <3>6. \A i \in DOMAIN e.headers : e.headers[i] \in ToSet(e.headers)
      BY DEF ToSet
    <3> QED
      BY <2>1, <3>4, <3>5, <3>6, ShowsNothing DEF e
  <2>5. ASSUME job.kind = "sample" PROVE ~Shown /\ ~KeyShown
    <3> DEFINE r == RedactedAgain(prepared)
               e == Effective(r)
               hs == Expressed(e, job.language)
    <3>1. r \in StoredRequests /\ Masks(r) /\ Hides(r, prepared)
      BY <2>1, RedactedAgainIs, RedactedAgainMasks
    <3>2. product = Sample(e, job.language) /\ job.language \in Languages
      BY <1>1, <2>1, <2>5 DEF CredentialInv, DerivativeInv, Final, WellFormedJob
    <3> HIDE DEF r
    <3>3. Hides(r, resolved)
      BY <2>1, <3>1, HidesTwice
    <3>4. IsEffective(e)
      BY <3>1, EffectiveFacts
    <3> HIDE DEF e
    <3>5. IsSample(e, product, LinesGiving(hs))
      BY <3>2, <3>4, SampleIsWhole
    <3>6. product \in Seq(Statements(e)) /\ Pick(e, product, "url") = Url(e) /\ Pick(e, product, "header") = LinesGiving(hs)
      BY <3>5 DEF IsSample
    <3>7. Lines("url") = Url(e) /\ Lines("header") = LinesGiving(hs)
      BY <3>6, PickIs DEF Lines
    <3>8. \A i \in DOMAIN hs : hs[i] \in ToSet(e.headers)
      <4>1. e.headers \in Seq(Pairs)
        BY <3>4 DEF IsEffective
      <4>2. Without(e.headers, "content-type") \in Seq(Pairs) /\ ToSet(Without(e.headers, "content-type")) \subseteq ToSet(e.headers)
        BY <4>1, WithoutFacts
      <4>3. hs \in Seq(Pairs) /\ ToSet(hs) \subseteq ToSet(e.headers)
        BY <4>1, <4>2 DEF Expressed
      <4> HIDE DEF hs
      <4> QED
        BY <4>3, InPairs
    <3> HIDE DEF hs
    <3>9. ~Conflict(resolved)
      BY <1>1, <2>5 DEF CredentialInv
    <3> QED
      BY <3>1, <3>3, <3>7, <3>8, <3>9, ShowsNothing DEF e
  <2> QED
    BY <2>1, <2>2, <2>3, <2>4, <2>5
<1> QED
  BY <1>1, CredentialsInductive, PTL

-----------------------------------------------------------------------------
(* Sequences put together *)

(***************************************************************************)
(* What FlattenSeq gives is what is left after the last sequence of        *)
(* putting one after the other.                                            *)
(***************************************************************************)
LEMMA FlattenFunction ==
  ASSUME NEW E, NEW ss \in Seq(Seq(E)), Len(ss) # 0
  PROVE  \E f :
           /\ f[1] = ss[1]
           /\ \A n \in 2 .. Len(ss) : f[n] = f[n - 1] \o ss[n]
           /\ \A n \in 1 .. Len(ss) : f[n] \in Seq(E)
           /\ FlattenSeq(ss) = f[Len(ss)]
<1> DEFINE N == Len(ss)
           Q == Seq(E)
           step == [n \in 1 .. N - 1 |-> [t \in Q |-> t \o ss[n + 1]]]
<1>a. N \in Nat /\ N - 1 \in Nat /\ \A n \in 1 .. N : ss[n] \in Q
  OBVIOUS
<1>b. \A t, u \in Q : t \o u \in Q
  OBVIOUS
<1>1. step \in [1 .. N - 1 -> [Q -> Q]] /\ ss[1] \in Q
  <2> HIDE DEF N, Q
  <2>1. \A n \in 1 .. N - 1 : n + 1 \in 1 .. N
    BY <1>a
  <2>2. 1 \in 1 .. N
    BY <1>a DEF N
  <2> QED
    BY <1>a, <1>b, <2>1, <2>2
<1>2. PICK g : IsIteration(g, N - 1, Q, ss[1], step)
  <2> DEFINE M == N - 1
             a == ss[1]
  <2>1. M \in Nat /\ a \in Q /\ step \in [1 .. M -> [Q -> Q]]
    BY <1>1, <1>a
  <2> HIDE DEF M, a, Q, step
  <2>2. \E g : IsIteration(g, M, Q, a, step)
    BY <2>1, Recursion
  <2> QED
    BY <2>2 DEF M, a
<1>3. g \in [0 .. N - 1 -> Q] /\ g[0] = ss[1] /\ \A n \in 1 .. N - 1 : g[n] = g[n - 1] \o ss[n + 1]
  <2>1. g \in [0 .. N - 1 -> Q] /\ g[0] = ss[1] /\ \A n \in 1 .. N - 1 : g[n] = step[n][g[n - 1]]
    BY <1>2 DEF IsIteration
  <2> HIDE DEF Q
  <2>2. ASSUME NEW n \in 1 .. N - 1 PROVE step[n][g[n - 1]] = g[n - 1] \o ss[n + 1]
    <3>1. n - 1 \in 0 .. N - 1
      BY <1>a
    <3> QED
      BY <2>1, <3>1
  <2> HIDE DEF step
  <2> QED
    BY <2>1, <2>2
<1> HIDE DEF step, Q
<1> DEFINE f == [n \in 1 .. N |-> g[n - 1]]
           Is(h) == h = [n \in 1 .. N |-> IF n = 1 THEN ss[n] ELSE h[n - 1] \o ss[n]]
           h == CHOOSE x : Is(x)
<1>4. Is(f)
  <2> DEFINE k == [n \in 1 .. N |-> IF n = 1 THEN ss[n] ELSE f[n - 1] \o ss[n]]
  <2>1. ASSUME NEW n \in 1 .. N PROVE f[n] = k[n]
    <3>1. CASE n = 1
      BY <1>3, <3>1
    <3>2. CASE n # 1
      <4>1. n - 1 \in 1 .. N - 1 /\ n - 1 \in 1 .. N /\ (n - 1) + 1 = n
        BY <1>a, <3>2
      <4>2. g[n - 1] = g[(n - 1) - 1] \o ss[n]
        BY <1>3, <4>1
      <4> QED
        BY <3>2, <4>1, <4>2
    <3> QED
      BY <3>1, <3>2
  <2>2. f = [n \in 1 .. N |-> f[n]] /\ k = [n \in 1 .. N |-> k[n]]
    OBVIOUS
  <2>3. f = k
    <3> HIDE DEF k, f
    <3> QED
      BY <2>1, <2>2
  <2> QED
    BY <2>3
<1>5. Is(h)
  <2> HIDE DEF Is
  <2> QED
    BY <1>4
<1>6. FlattenSeq(ss) = h[N]
  BY DEF FlattenSeq
<1> HIDE DEF h, f
<1>7. \A n \in 1 .. N : h[n] = IF n = 1 THEN ss[n] ELSE h[n - 1] \o ss[n]
  <2> DEFINE e(x, n) == IF n = 1 THEN ss[n] ELSE x[n - 1] \o ss[n]
  <2>1. h = [n \in 1 .. N |-> e(h, n)]
    BY <1>5
  <2>2. \A n \in 1 .. N : h[n] = e(h, n)
    <3> HIDE DEF e
    <3> QED
      BY <2>1
  <2> QED
    BY <2>2
<1>8. h[1] = ss[1] /\ \A n \in 2 .. N : h[n] = h[n - 1] \o ss[n]
  <2>1. 1 \in 1 .. N /\ \A n \in 2 .. N : n \in 1 .. N /\ n # 1
    BY <1>a
  <2> QED
    BY <1>7, <2>1
<1>9. \A n \in 1 .. N : h[n] \in Q
  <2> DEFINE T == {n \in Nat : n + 1 <= N => h[n + 1] \in Q}
  <2>1. 0 \in T
    BY <1>1, <1>8
  <2>2. ASSUME NEW n \in Nat, n \in T PROVE n + 1 \in T
    <3> SUFFICES ASSUME (n + 1) + 1 <= N PROVE h[(n + 1) + 1] \in Q
      OBVIOUS
    <3>1. /\ n + 2 \in 2 .. N /\ n + 2 \in 1 .. N /\ (n + 2) - 1 = n + 1 /\ h[n + 1] \in Q
          /\ (n + 1) + 1 = n + 2
      BY <1>a, <2>2
    <3>2. h[n + 2] = h[n + 1] \o ss[n + 2]
      BY <1>8, <3>1
    <3> QED
      BY <1>a, <1>b, <3>1, <3>2
  <2>3. Nat \subseteq T
    <3> HIDE DEF T
    <3> QED
      BY <2>1, <2>2, Induction
  <2>4. ASSUME NEW n \in 1 .. N PROVE n - 1 \in Nat /\ (n - 1) + 1 = n /\ n <= N
    BY <1>a
  <2> QED
    BY <2>3, <2>4
<1> QED
  BY <1>6, <1>8, <1>9 DEF Q

LEMMA FlattenNone ==
  ASSUME NEW E, NEW ss \in Seq(Seq(E)), Len(ss) = 0
  PROVE  FlattenSeq(ss) = <<>> /\ ss = <<>>
BY DEF FlattenSeq

LEMMA FlattenAppend ==
  ASSUME NEW E, NEW ss \in Seq(Seq(E)), NEW x \in Seq(E)
  PROVE  FlattenSeq(Append(ss, x)) = FlattenSeq(ss) \o x /\ FlattenSeq(ss) \in Seq(E)
<1> DEFINE t == Append(ss, x)
           n == Len(ss)
<1>0. /\ t \in Seq(Seq(E)) /\ n \in Nat /\ Len(t) = n + 1 /\ Len(t) # 0 /\ t[n + 1] = x
      /\ \A i \in 1 .. n : t[i] = ss[i]
  OBVIOUS
<1> HIDE DEF t
<1>1. PICK g : /\ g[1] = t[1]
               /\ \A i \in 2 .. Len(t) : g[i] = g[i - 1] \o t[i]
               /\ FlattenSeq(t) = g[Len(t)]
  BY <1>0, FlattenFunction
<1>2. CASE n = 0
  <2>1. FlattenSeq(ss) = <<>>
    BY <1>2, FlattenNone
  <2>2. FlattenSeq(t) = x
    BY <1>0, <1>1, <1>2
  <2>3. <<>> \o x = x /\ <<>> \in Seq(E)
    OBVIOUS
  <2> QED
    BY <2>1, <2>2, <2>3 DEF t
<1>3. CASE n # 0
  <2>1. PICK f : /\ f[1] = ss[1]
                 /\ \A i \in 2 .. n : f[i] = f[i - 1] \o ss[i]
                 /\ \A i \in 1 .. n : f[i] \in Seq(E)
                 /\ FlattenSeq(ss) = f[n]
    BY <1>3, FlattenFunction
  <2> HIDE DEF n
  <2> DEFINE T == {i \in Nat : i + 1 <= n => g[i + 1] = f[i + 1]}
  <2>2. 0 \in T
    BY <1>0, <1>1, <2>1
  <2>3. ASSUME NEW i \in Nat, i \in T PROVE i + 1 \in T
    <3> SUFFICES ASSUME (i + 1) + 1 <= n PROVE g[(i + 1) + 1] = f[(i + 1) + 1]
      OBVIOUS
    <3>1. /\ i + 2 \in 2 .. n /\ i + 2 \in 2 .. Len(t) /\ i + 2 \in 1 .. n /\ (i + 2) - 1 = i + 1 /\ g[i + 1] = f[i + 1]
          /\ (i + 1) + 1 = i + 2
      BY <1>0, <2>3
    <3>2. g[i + 2] = g[i + 1] \o t[i + 2] /\ f[i + 2] = f[i + 1] \o ss[i + 2] /\ t[i + 2] = ss[i + 2]
      BY <1>0, <1>1, <2>1, <3>1
    <3> QED
      BY <3>1, <3>2
  <2>4. Nat \subseteq T
    <3> HIDE DEF T
    <3> QED
      BY <2>2, <2>3, Induction
  <2>5. n - 1 \in Nat /\ (n - 1) + 1 = n
    BY <1>0, <1>3
  <2>6. g[n] = f[n]
    BY <2>4, <2>5
  <2>7. g[n + 1] = g[n] \o x
    <3>1. n + 1 \in 2 .. Len(t) /\ (n + 1) - 1 = n
      BY <1>0, <1>3
    <3> QED
      BY <1>0, <1>1, <3>1
  <2>8. f[n] \in Seq(E)
    BY <1>0, <1>3, <2>1
  <2> QED
    BY <1>0, <1>1, <2>1, <2>6, <2>7, <2>8 DEF t
<1> QED
  BY <1>2, <1>3

(***************************************************************************)
(* What is put together has the elements of each.                          *)
(***************************************************************************)
LEMMA ElementsTogether ==
  ASSUME NEW E, NEW ss \in Seq(Seq(E))
  PROVE  ToSet(FlattenSeq(ss)) = UNION {ToSet(s) : s \in ToSet(ss)}
<1> DEFINE T == {t \in Seq(Seq(E)) : ToSet(FlattenSeq(t)) = UNION {ToSet(s) : s \in ToSet(t)}}
<1>1. <<>> \in T
  <2>1. <<>> \in Seq(Seq(E)) /\ Len(<<>>) = 0
    OBVIOUS
  <2>2. FlattenSeq(<<>>) = <<>>
    BY DEF FlattenSeq
  <2> QED
    BY <2>1, <2>2, SetOfNone
<1>2. ASSUME NEW t \in Seq(Seq(E)), NEW x \in Seq(E), t \in T PROVE Append(t, x) \in T
  <2>1. Append(t, x) \in Seq(Seq(E))
    OBVIOUS
  <2>2. FlattenSeq(Append(t, x)) = FlattenSeq(t) \o x /\ FlattenSeq(t) \in Seq(E)
    BY FlattenAppend
  <2>3. ToSet(FlattenSeq(t) \o x) = ToSet(FlattenSeq(t)) \cup ToSet(x)
    BY <2>2, SetOfBoth
  <2>4. ToSet(Append(t, x)) = ToSet(t) \cup {x}
    BY SetOfAppend
  <2>5. ToSet(FlattenSeq(t)) = UNION {ToSet(s) : s \in ToSet(t)}
    BY <1>2
  <2>6. UNION {ToSet(s) : s \in ToSet(t) \cup {x}} = (UNION {ToSet(s) : s \in ToSet(t)}) \cup ToSet(x)
    OBVIOUS
  <2> QED
    BY <2>1, <2>2, <2>3, <2>4, <2>5, <2>6
<1>3. Seq(Seq(E)) \subseteq T
  <2> DEFINE F == Seq(E)
  <2>1. <<>> \in T /\ \A t \in Seq(F), x \in F : t \in T => Append(t, x) \in T
    BY <1>1, <1>2
  <2> HIDE DEF T, F
  <2>2. Seq(F) \subseteq T
    BY <2>1, SequenceInduction
  <2> QED
    BY <2>2 DEF F
<1>4. ss \in T
  BY <1>3
<1> QED
  BY <1>4

(***************************************************************************)
(* The first of what is put together comes first.                          *)
(***************************************************************************)
LEMMA FlattenHead ==
  ASSUME NEW E, NEW ss \in Seq(Seq(E)), NEW x \in Seq(E)
  PROVE  FlattenSeq(<<x>> \o ss) = x \o FlattenSeq(ss)
<1> DEFINE F == Seq(E)
           T == {t \in Seq(F) : FlattenSeq(<<x>> \o t) = x \o FlattenSeq(t)}
<1>0. x \in F /\ <<x>> \in Seq(F) /\ ss \in Seq(F)
  OBVIOUS
<1>1. <<>> \in T
  <2>1. <<>> \in Seq(F) /\ <<x>> \o <<>> = Append(<<>>, x) /\ Len(<<>>) = 0
    BY <1>0
  <2>2. FlattenSeq(Append(<<>>, x)) = FlattenSeq(<<>>) \o x
    BY <2>1, FlattenAppend
  <2>3. FlattenSeq(<<>>) = <<>>
    BY <2>1, FlattenNone
  <2>4. <<>> \o x = x /\ x \o <<>> = x
    BY ConcatEmptySeq
  <2> QED
    BY <2>1, <2>2, <2>3, <2>4
<1>2. ASSUME NEW t \in Seq(F), NEW y \in F, t \in T PROVE Append(t, y) \in T
  <2>1. <<x>> \o Append(t, y) = Append(<<x>> \o t, y) /\ <<x>> \o t \in Seq(F)
    <3> HIDE DEF F, T
    <3> QED
      BY <1>0, AppendToConcat
  <2>2. FlattenSeq(Append(<<x>> \o t, y)) = FlattenSeq(<<x>> \o t) \o y
    BY <2>1, FlattenAppend
  <2>3. FlattenSeq(Append(t, y)) = FlattenSeq(t) \o y /\ FlattenSeq(t) \in Seq(E)
    BY FlattenAppend
  <2>4. FlattenSeq(<<x>> \o t) = x \o FlattenSeq(t)
    BY <1>2
  <2>5. (x \o FlattenSeq(t)) \o y = x \o (FlattenSeq(t) \o y)
    BY <2>3, ConcatAssociative
  <2>6. Append(t, y) \in Seq(F)
    OBVIOUS
  <2> QED
    BY <2>1, <2>2, <2>3, <2>4, <2>5, <2>6
<1>3. Seq(F) \subseteq T
  <2> HIDE DEF T, F
  <2> QED
    BY <1>1, <1>2, SequenceInduction
<1> QED
  BY <1>0, <1>3
-----------------------------------------------------------------------------
(* Variables substituted *)

MeantParts == TemplateParts \cup {Broken}
NameMeanings == [VariableNames -> Seq(MeantParts)]

LEMMA PartMeaningIs ==
  ASSUME NEW p \in TemplateParts, NEW values \in NameMeanings
  PROVE  PartMeaning(p, values) \in Seq(MeantParts)
<1>1. p \in MeantParts /\ Broken \in MeantParts
  BY DEF MeantParts
<1>2. CASE p.kind = "ref"
  <2>1. p.name \in VariableNames
    BY <1>2 DEF TemplateParts, Text, Invalid, Unclosed, Ref, Escaped
  <2> QED
    BY <1>2, <2>1 DEF PartMeaning, Literal, NameMeanings
<1>3. CASE p.kind # "ref"
  BY <1>1, <1>3 DEF PartMeaning
<1> QED
  BY <1>2, <1>3

(***************************************************************************)
(* What a value spells is what its parts mean, one after the other.        *)
(***************************************************************************)
LEMMA SpelledIs ==
  ASSUME NEW values \in NameMeanings
  PROVE  /\ Spelled(<<>>, values) = <<>>
         /\ \A s \in Seq(TemplateParts) :
              /\ Spelled(s, values) \in Seq(MeantParts)
              /\ \A p \in ToSet(s) : ToSet(PartMeaning(p, values)) \subseteq ToSet(Spelled(s, values))
              /\ s # <<>> => Spelled(s, values) = PartMeaning(Head(s), values) \o Spelled(Tail(s), values)
<1> DEFINE E == MeantParts
           m(s) == [i \in DOMAIN s |-> PartMeaning(s[i], values)]
<1>1. ASSUME NEW s \in Seq(TemplateParts) PROVE m(s) \in Seq(Seq(E))
  <2> DEFINE t == m(s)
             F == Seq(E)
  <2>1. \A i \in DOMAIN s : s[i] \in TemplateParts
    OBVIOUS
  <2>2. \A i \in DOMAIN s : t[i] \in F
    BY <2>1, PartMeaningIs
  <2>3. t = [i \in DOMAIN s |-> t[i]]
    OBVIOUS
  <2> HIDE DEF t, F
  <2>4. t \in Seq(F)
    BY <2>2, <2>3, EachIn
  <2> QED
    BY <2>4 DEF t, F
<1>2. ASSUME NEW s \in Seq(TemplateParts) PROVE Spelled(s, values) = FlattenSeq(m(s))
  BY DEF Spelled
<1>3. Spelled(<<>>, values) = <<>>
  <2>1. <<>> \in Seq(TemplateParts) /\ m(<<>>) = <<>> /\ Len(<<>>) = 0
    OBVIOUS
  <2>2. FlattenSeq(m(<<>>)) = <<>>
    BY <2>1, <1>1, FlattenNone
  <2> QED
    BY <2>1, <2>2, <1>2
<1>4. ASSUME NEW s \in Seq(TemplateParts) PROVE Spelled(s, values) \in Seq(MeantParts)
  <2> DEFINE t == m(s)
  <2>1. t \in Seq(Seq(E)) /\ <<>> \in Seq(E)
    BY <1>1
  <2>2. Spelled(s, values) = FlattenSeq(t)
    BY <1>2
  <2> HIDE DEF t
  <2>3. FlattenSeq(t) \in Seq(E)
    BY <2>1, FlattenAppend
  <2> QED
    BY <2>2, <2>3
<1>5. ASSUME NEW s \in Seq(TemplateParts), NEW p \in ToSet(s)
      PROVE  ToSet(PartMeaning(p, values)) \subseteq ToSet(Spelled(s, values))
  <2> DEFINE t == m(s)
  <2>1. t \in Seq(Seq(E))
    BY <1>1
  <2>2. PICK i \in DOMAIN s : s[i] = p
    BY InPairs
  <2>3. t[i] = PartMeaning(p, values) /\ i \in DOMAIN t
    BY <2>2
  <2>4. Spelled(s, values) = FlattenSeq(t)
    BY <1>2
  <2> HIDE DEF t, E
  <2>5. t[i] \in ToSet(t)
    BY <2>3 DEF ToSet
  <2>6. ToSet(FlattenSeq(t)) = UNION {ToSet(u) : u \in ToSet(t)}
    BY <2>1, ElementsTogether
  <2>7. ToSet(t[i]) \subseteq ToSet(FlattenSeq(t))
    BY <2>5, <2>6
  <2> QED
    BY <2>3, <2>4, <2>7
<1>6. ASSUME NEW s \in Seq(TemplateParts), s # <<>>
      PROVE  Spelled(s, values) = PartMeaning(Head(s), values) \o Spelled(Tail(s), values)
  <2> DEFINE x == PartMeaning(Head(s), values)
             t == m(Tail(s))
  <2>1. Head(s) \in TemplateParts /\ Tail(s) \in Seq(TemplateParts)
    BY <1>6
  <2>2. x \in Seq(E)
    BY <2>1, PartMeaningIs
  <2>3. t \in Seq(Seq(E))
    BY <1>1, <2>1
  <2>4. m(s) = <<x>> \o t
    <3> DEFINE n == Len(s)
               u == m(s)
               w == <<x>> \o t
    <3>1. n \in Nat /\ n # 0 /\ DOMAIN s = 1 .. n /\ DOMAIN Tail(s) = 1 .. n - 1 /\ s[1] = Head(s)
      BY <1>6
    <3>2. \A i \in 1 .. n - 1 : Tail(s)[i] = s[i + 1]
      BY <1>6
    <3>3. Len(t) = n - 1 /\ \A i \in 1 .. n - 1 : t[i] = PartMeaning(s[i + 1], values)
      BY <3>1, <3>2, <2>3
    <3>4. u \in Seq(Seq(E)) /\ Len(u) = n /\ \A i \in 1 .. n : u[i] = PartMeaning(s[i], values)
      <4>1. DOMAIN u = 1 .. n /\ \A i \in 1 .. n : u[i] = PartMeaning(s[i], values)
        BY <3>1
      <4>2. u \in Seq(Seq(E))
        BY <1>1
      <4> HIDE DEF u, n, E
      <4> QED
        BY <4>1, <4>2, <3>1
    <3> HIDE DEF t, u
    <3>5. /\ w \in Seq(Seq(E)) /\ Len(w) = n /\ w[1] = x
          /\ \A i \in 2 .. n : w[i] = t[i - 1]
      <4> HIDE DEF E, x, n
      <4>1. <<x>> \in Seq(Seq(E)) /\ Len(<<x>>) = 1 /\ <<x>>[1] = x
        BY <2>2
      <4>2. /\ w \in Seq(Seq(E)) /\ Len(w) = 1 + Len(t)
            /\ \A i \in 1 .. 1 + Len(t) : w[i] = IF i <= 1 THEN <<x>>[i] ELSE t[i - 1]
        <5> HIDE DEF w
        <5> DEFINE F == Seq(E)
        <5>1. <<x>> \in Seq(F) /\ t \in Seq(F)
          BY <4>1, <2>3
        <5> HIDE DEF F
        <5>2. /\ w \in Seq(F) /\ Len(w) = Len(<<x>>) + Len(t)
              /\ \A i \in 1 .. Len(<<x>>) + Len(t) : w[i] = IF i <= Len(<<x>>) THEN <<x>>[i] ELSE t[i - Len(<<x>>)]
          BY <5>1, ConcatProperties DEF w
        <5> QED
          BY <5>2, <4>1 DEF F
      <4> QED
        BY <4>1, <4>2, <3>1, <3>3
    <3> HIDE DEF w
    <3>6. \A i \in 1 .. n : u[i] = w[i]
      <4> TAKE i \in 1 .. n
      <4>1. CASE i = 1
        BY <4>1, <3>1, <3>4, <3>5 DEF x
      <4>2. CASE i # 1
        <5>1. i \in 2 .. n /\ i - 1 \in 1 .. n - 1 /\ (i - 1) + 1 = i
          BY <3>1, <4>2
        <5> QED
          BY <5>1, <3>3, <3>4, <3>5
      <4> QED
        BY <4>1, <4>2
    <3>7. u = w
      <4> DEFINE F == Seq(E)
      <4>1. u \in Seq(F) /\ w \in Seq(F) /\ Len(u) = Len(w) /\ \A i \in 1 .. Len(u) : u[i] = w[i]
        BY <3>4, <3>5, <3>6
      <4> HIDE DEF F
      <4> QED
        BY <4>1, SeqEqual
    <3> QED
      BY <3>7 DEF u, w
  <2> HIDE DEF x, t, E
  <2>5. FlattenSeq(<<x>> \o t) = x \o FlattenSeq(t)
    BY <2>2, <2>3, FlattenHead
  <2> QED
    BY <1>2, <2>1, <2>4, <2>5 DEF x, t
<1> QED
  BY <1>3, <1>4, <1>5, <1>6

LEMMA WinnersAre ==
  ASSUME variables \subseteq ContextVariables, NEW n \in VariableNames
  PROVE  /\ Winners(n) \subseteq variables
         /\ Cardinality(Winners(n)) = 1 =>
              (CHOOSE v \in Winners(n) : TRUE) \in Winners(n) /\ (CHOOSE v \in Winners(n) : TRUE).value \in Seq(TemplateParts)
<1>1. Winners(n) \subseteq variables
  BY DEF Winners
<1>2. ASSUME Cardinality(Winners(n)) = 1 PROVE Winners(n) # {}
  BY <1>2, FS_EmptySet
<1>3. \A v \in variables : v.value \in Seq(TemplateParts)
  <2>1. \A v \in ContextVariables : v.value \in Seq(TemplateParts)
    BY DEF ContextVariables
  <2> QED
    BY <2>1
<1> QED
  BY <1>1, <1>2, <1>3

(***************************************************************************)
(* What the names mean, by the substitutions still allowed: the recursion  *)
(* the model writes has the values its equation gives.                     *)
(***************************************************************************)
LEMMA MeaningsAre ==
  ASSUME variables \subseteq ContextVariables
  PROVE  /\ \A d \in 0 .. MaxNesting : Meanings[d] \in NameMeanings
         /\ \A d \in 0 .. MaxNesting, n \in VariableNames :
              Meanings[d][n] = IF d = 0 \/ Cardinality(Winners(n)) # 1 THEN <<Broken>>
                               ELSE Spelled((CHOOSE v \in Winners(n) : TRUE).value, Meanings[d - 1])
<1> DEFINE N == MaxNesting
           S == NameMeanings
           V == VariableNames
           unsure(n) == Cardinality(Winners(n)) # 1
           one(n) == (CHOOSE v \in Winners(n) : TRUE).value
           next(w) == [n \in V |-> IF unsure(n) THEN <<Broken>> ELSE Spelled(one(n), w)]
           a == [n \in V |-> <<Broken>>]
           step == [d \in 1 .. N |-> [w \in S |-> next(w)]]
<1>a. N \in Nat /\ N # 0
  BY NestingAssumption
<1>b. \A n \in V : ~unsure(n) => one(n) \in Seq(TemplateParts)
  BY WinnersAre
<1>c. <<Broken>> \in Seq(MeantParts)
  BY DEF MeantParts
<1>1. a \in S
  BY <1>c DEF NameMeanings
<1>2. \A w \in S : next(w) \in S
  <2> HIDE DEF unsure, one
  <2> TAKE w \in S
  <2>1. \A n \in V : ~unsure(n) => Spelled(one(n), w) \in Seq(MeantParts)
    BY <1>b, SpelledIs
  <2> QED
    BY <2>1, <1>c DEF NameMeanings
<1> HIDE DEF next
<1>3. step \in [1 .. N -> [S -> S]]
  BY <1>2
<1>4. PICK f : IsIteration(f, N, S, a, step)
  <2> HIDE DEF N, a, S, step
  <2> QED
    BY <1>a, <1>1, <1>3, Recursion
<1>5. /\ f \in [0 .. N -> S] /\ f[0] = a /\ \A d \in 1 .. N : f[d] = next(f[d - 1])
  <2>1. f \in [0 .. N -> S] /\ f[0] = a /\ \A d \in 1 .. N : f[d] = step[d][f[d - 1]]
    <3> HIDE DEF S, a, step, N
    <3> QED
      BY <1>4 DEF IsIteration
  <2>2. ASSUME NEW d \in 1 .. N PROVE step[d][f[d - 1]] = next(f[d - 1])
    <3> HIDE DEF S, a
    <3>1. d - 1 \in 0 .. N
      BY <1>a
    <3> QED
      BY <2>1, <3>1
  <2> HIDE DEF S, a, step
  <2> QED
    BY <2>1, <2>2
<1> HIDE DEF step
<1> DEFINE e(g, d) == [n \in V |-> IF d = 0 \/ unsure(n) THEN <<Broken>> ELSE Spelled(one(n), g[d - 1])]
           Is(g) == g = [d \in 0 .. N |-> e(g, d)]
           h == CHOOSE g : Is(g)
<1>6. Is(f)
  <2> DEFINE k == [d \in 0 .. N |-> e(f, d)]
  <2>1. \A d \in 0 .. N : f[d] = e(f, d)
    <3> TAKE d \in 0 .. N
    <3>1. CASE d = 0
      BY <3>1, <1>5
    <3>2. CASE d # 0
      <4>1. d \in 1 .. N
        BY <1>a, <3>2
      <4>2. next(f[d - 1]) = e(f, d)
        BY <3>2 DEF next
      <4> QED
        BY <1>5, <4>1, <4>2
    <3> QED
      BY <3>1, <3>2
  <2>2. f = [d \in 0 .. N |-> f[d]]
    <3> HIDE DEF S, N
    <3> QED
      BY <1>5
  <2>3. k = [d \in 0 .. N |-> k[d]] /\ \A d \in 0 .. N : k[d] = e(f, d)
    <3> HIDE DEF e
    <3> QED
      OBVIOUS
  <2>4. f = k
    <3> HIDE DEF k, e
    <3> QED
      BY <2>1, <2>2, <2>3
  <2> QED
    BY <2>4
<1>7. Is(h)
  <2> HIDE DEF Is
  <2> QED
    BY <1>6
<1>8. Meanings = h
  BY DEF Meanings
<1> HIDE DEF h
<1>9. \A d \in 0 .. N : h[d] = e(h, d)
  <2>1. h = [d \in 0 .. N |-> e(h, d)]
    BY <1>7
  <2> HIDE DEF e
  <2> QED
    BY <2>1
<1>10. \A d \in 0 .. N : h[d] \in S
  <2>1. h[0] = a
    <3>1. 0 \in 0 .. N
      BY <1>a
    <3> QED
      BY <3>1, <1>9
  <2>2. ASSUME NEW d \in 1 .. N, h[d - 1] \in S PROVE h[d] \in S
    <3>1. d \in 0 .. N /\ d # 0
      BY <1>a
    <3>2. e(h, d) = next(h[d - 1])
      BY <3>1 DEF next
    <3>3. h[d] = next(h[d - 1])
      <4> HIDE DEF e
      <4> QED
        BY <3>1, <3>2, <1>9
    <3> HIDE DEF S
    <3> QED
      BY <3>3, <2>2, <1>2
  <2> HIDE DEF N, a, S
  <2> QED
    BY <1>a, <1>1, <2>1, <2>2, Recursive
<1>11. ASSUME NEW d \in 0 .. N, NEW n \in V
       PROVE  h[d][n] = IF d = 0 \/ unsure(n) THEN <<Broken>> ELSE Spelled(one(n), h[d - 1])
  <2>1. h[d] = e(h, d)
    BY <1>9
  <2>2. e(h, d)[n] = IF d = 0 \/ unsure(n) THEN <<Broken>> ELSE Spelled(one(n), h[d - 1])
    OBVIOUS
  <2> HIDE DEF e
  <2> QED
    BY <2>1, <2>2
<1> QED
  BY <1>8, <1>10, <1>11

(***************************************************************************)
(* What buildSymbolTable gives is what the narrowest scope with an enabled *)
(* variable of the name gives, where there is just one.                    *)
(***************************************************************************)
LEMMA SymbolIs ==
  ASSUME variables \subseteq ContextVariables, IsFiniteSet(variables), NEW n \in VariableNames
  PROVE  /\ ~Defined(variables, n) => Cardinality(Winners(n)) # 1
         /\ Defined(variables, n) =>
              /\ Symbol(variables, n).value \in Seq(TemplateParts)
              /\ Symbol(variables, n).duplicate <=> Cardinality(Winners(n)) # 1
              /\ ~Symbol(variables, n).duplicate =>
                    Symbol(variables, n).value = (CHOOSE v \in Winners(n) : TRUE).value
<1> DEFINE S == ScopesOf(variables, n)
           top == WinningScope(variables, n)
           group == EnabledAt(variables, n, top)
<1>1. S \subseteq 1 .. 5 /\ \A s : s \in S <=> \E v \in variables : v.key = n /\ v.enabled /\ v.scope = s
  <2>1. \A v \in variables : v.scope \in 1 .. 5
    BY DEF ContextVariables
  <2> QED
    BY <2>1 DEF ScopesOf
<1>2. CASE ~Defined(variables, n)
  <2>1. Winners(n) = {}
    BY <1>1, <1>2 DEF Winners, Defined
  <2> QED
    BY <1>2, <2>1, FS_EmptySet
<1>3. CASE Defined(variables, n)
  <2>1. top \in S /\ \A t \in S : t <= top
    <3>1. S # {}
      BY <1>3 DEF Defined
    <3> HIDE DEF S
    <3>2. \E s \in S : \A t \in S : t <= s
      <4> DEFINE T == {5 - s : s \in S}
      <4>1. T \subseteq Nat /\ T # {}
        <5>1. \A s \in S : s \in 1 .. 5
          BY <1>1
        <5>2. \A s \in 1 .. 5 : 5 - s \in Nat
          OBVIOUS
        <5> QED
          BY <3>1, <5>1, <5>2
      <4>2. PICK m \in T : \A k \in T : m <= k
        <5> HIDE DEF T
        <5> QED
          BY <4>1, Least
      <4>3. PICK s \in S : m = 5 - s
        BY <4>2
      <4>4. \A t \in S : 5 - s <= 5 - t
        BY <4>2, <4>3
      <4> QED
        BY <4>4, <1>1
    <3> QED
      BY <3>2 DEF WinningScope, S
  <2> HIDE DEF top
  <2>2. group = Winners(n)
    <3>1. \A v \in variables : v.key = n /\ v.enabled /\ v.scope = top =>
            \A w \in variables : w.key = n /\ w.enabled => w.scope <= v.scope
      BY <2>1, <1>1
    <3>2. \A v \in variables : (v.key = n /\ v.enabled /\ \A w \in variables : w.key = n /\ w.enabled => w.scope <= v.scope)
            => v.scope = top
      <4> TAKE v \in variables
      <4> HAVE v.key = n /\ v.enabled /\ \A w \in variables : w.key = n /\ w.enabled => w.scope <= v.scope
      <4>1. PICK w \in variables : w.key = n /\ w.enabled /\ w.scope = top
        BY <2>1, <1>1
      <4>2. top <= v.scope /\ v.scope \in S
        BY <4>1, <1>1
      <4>3. v.scope <= top /\ v.scope \in 1 .. 5 /\ top \in 1 .. 5
        BY <4>2, <2>1, <1>1
      <4> HIDE DEF S
      <4> QED
        BY <4>2, <4>3
    <3> QED
      BY <3>1, <3>2 DEF EnabledAt, Winners
  <2>3. group # {} /\ group \subseteq variables
    BY <2>1, <1>1 DEF EnabledAt
  <2> HIDE DEF group
  <2>4. \A v \in group : v.id \in Nat /\ v.value \in Seq(TemplateParts)
    <3>1. \A v \in ContextVariables : v.id \in Nat /\ v.value \in Seq(TemplateParts)
      BY DEF ContextVariables
    <3> QED
      BY <3>1, <2>3
  <2> DEFINE first == CHOOSE v \in group : \A w \in group : v.id <= w.id
  <2>5. first \in group
    <3> DEFINE T == {v.id : v \in group}
    <3>1. T \subseteq Nat /\ T # {}
      BY <2>3, <2>4
    <3>2. PICK m \in T : \A k \in T : m <= k
      <4> HIDE DEF T
      <4> QED
        BY <3>1, Least
    <3>3. \E v \in group : \A w \in group : v.id <= w.id
      BY <3>2
    <3> QED
      BY <3>3
  <2> HIDE DEF first
  <2>6. Symbol(variables, n) = [value |-> first.value, duplicate |-> Cardinality(group) > 1]
    BY DEF Symbol, group, first, top
  <2>7. IsFiniteSet(group) /\ Cardinality(group) \in Nat /\ Cardinality(group) # 0
    <3>1. IsFiniteSet(group)
      BY <2>3, FS_Subset
    <3> QED
      BY <3>1, <2>3, FS_CardinalityType, FS_EmptySet
  <2>8. ASSUME Cardinality(group) = 1 PROVE first = (CHOOSE v \in Winners(n) : TRUE)
    <3>1. \E x : group = {x}
      BY <2>7, <2>8, FS_Singleton
    <3> QED
      BY <3>1, <2>2, <2>5
  <2>9. Symbol(variables, n).duplicate <=> Cardinality(group) # 1
    <3> DEFINE several == Cardinality(group) > 1
    <3>0. Symbol(variables, n) = [value |-> first.value, duplicate |-> several]
      BY <2>6
    <3> HIDE DEF several
    <3>a. Symbol(variables, n).duplicate = several
      BY <3>0
    <3>1. Symbol(variables, n).duplicate = (Cardinality(group) > 1)
      BY <3>a DEF several
    <3>2. Cardinality(group) > 1 <=> Cardinality(group) # 1
      BY <2>7
    <3> QED
      BY <3>1, <3>2, Zenon
  <2>10. Symbol(variables, n).value = first.value /\ first.value \in Seq(TemplateParts)
    BY <2>4, <2>5, <2>6
  <2> QED
    BY <1>3, <2>2, <2>8, <2>9, <2>10, Zenon
<1> QED
  BY <1>2, <1>3

LEMMA TailIn ==
  ASSUME NEW E, NEW s \in Seq(E), s # <<>>
  PROVE  Head(s) \in ToSet(s) /\ ToSet(Tail(s)) \subseteq ToSet(s)
<1> DEFINE t == Tail(s)
<1>1. t \in Seq(E) /\ Len(t) = Len(s) - 1 /\ Len(s) \in Nat /\ Len(s) # 0 /\ \A i \in 1 .. Len(t) : t[i] = s[i + 1]
  OBVIOUS
<1> HIDE DEF t
<1>2. \A i \in 1 .. Len(t) : i + 1 \in 1 .. Len(s)
  BY <1>1
<1>3. \A i \in 1 .. Len(s) : s[i] \in ToSet(s)
  BY DEF ToSet
<1>4. Head(s) = s[1] /\ 1 \in 1 .. Len(s)
  BY <1>1
<1>5. \A x \in ToSet(t) : \E i \in 1 .. Len(t) : x = t[i]
  BY <1>1 DEF ToSet
<1> QED
  BY <1>1, <1>2, <1>3, <1>4, <1>5 DEF t

LEMMA MeantTogether ==
  \A a, b, c \in Seq(MeantParts) : (a \o b) \o c = a \o (b \o c)
<1> DEFINE E == MeantParts
<1> HIDE DEF E
<1>1. \A a, b, c \in Seq(E) : (a \o b) \o c = a \o (b \o c)
  BY ConcatAssociative
<1> QED
  BY <1>1 DEF E

Certain(n) == Cardinality(Winners(n)) = 1
ValueGiven(n) == (CHOOSE v \in Winners(n) : TRUE).value
Literals == {p \in TemplateParts : Literal(p)}
Calls ==
  [name : VariableNames \cup {NoName}, rest : Seq(TemplateParts), out : Seq(TemplateParts)]

\* What the i-th call has to give, and what of it is still to be read; a call deeper down has one substitution
\* less.
Owed(fs, i) == IF i = 1 THEN Meaning ELSE Meanings[MaxNesting - i + 2][fs[i].name]
Due(fs, i) == Spelled(fs[i].rest, Meanings[MaxNesting - i + 1])
OnCourse(fs, i) ==
  /\ fs[i].out \in Seq(Literals)
  /\ Owed(fs, i) = fs[i].out \o (IF i = Len(fs) THEN Due(fs, i) ELSE Owed(fs, i + 1) \o Due(fs, i))
  /\ i > 1 => /\ fs[i].name \in VariableNames /\ Certain(fs[i].name)
              /\ ToSet(fs[i].rest) \subseteq ToSet(ValueGiven(fs[i].name))
              /\ i < Len(fs) => Ref(fs[i + 1].name) \in ToSet(ValueGiven(fs[i].name))
AllOnCourse(fs) == \A i \in 1 .. Len(fs) : OnCourse(fs, i)

Stands ==
  /\ phase \in {"start", "resolving", "resolved", "unlocking", "sent", "refused"}
  /\ phase = "start" => frames = <<>> /\ diagnostics = {}
  /\ phase = "resolving" =>
       (frames = <<>> <=> ~Substituted(draft)) /\ (~Substituted(draft) => diagnostics = {})
  /\ phase = "resolved" => /\ frames = <<>> /\ diagnostics = {}
                           /\ Substituted(draft) => Meaningful /\ outcome = Meaning
  /\ phase = "unlocking" => frames # <<>> /\ draft.place = "credential" /\ draft.auth # "none"
  /\ phase = "sent" => SentIsSubstituted
  /\ phase = "refused" => RefusedWithReason

(* Nothing reported: every call has given a part of what it owes.  Something reported: the template has no
   meaning. *)
ResolutionInv ==
  /\ WellFormedCase([variables |-> variables, draft |-> draft, template |-> template])
  /\ frames \in Seq(Calls) /\ Len(frames) <= MaxNesting + 1
  /\ diagnostics = {} => AllOnCourse(frames)
  /\ diagnostics # {} => ~Meaningful
  /\ Stands

\* The context and the template of a request, which resolution only reads.
Context ==
  /\ variables \subseteq ContextVariables /\ IsFiniteSet(variables) /\ template \in Seq(TemplateParts)

LEMMA ContextFacts ==
  ASSUME Context
  PROVE  /\ Meaning \in Seq(MeantParts)
         /\ \A d \in 0 .. MaxNesting : Meanings[d] \in NameMeanings
         /\ \A d \in 0 .. MaxNesting, n \in VariableNames : Meanings[d][n] \in Seq(MeantParts)
         /\ MaxNesting \in Nat /\ MaxNesting >= 1
<1>1. \A d \in 0 .. MaxNesting : Meanings[d] \in NameMeanings
  BY MeaningsAre DEF Context
<1>2. MaxNesting \in Nat /\ MaxNesting >= 1
  BY NestingAssumption
<1>3. MaxNesting \in 0 .. MaxNesting
  BY <1>2
<1>4. Meaning \in Seq(MeantParts)
  BY <1>1, <1>3, SpelledIs DEF Meaning, Context
<1> QED
  BY <1>1, <1>2, <1>4 DEF NameMeanings

LEMMA CallFacts ==
  ASSUME Context, NEW fs \in Seq(Calls), Len(fs) <= MaxNesting + 1, AllOnCourse(fs), NEW i \in 1 .. Len(fs)
  PROVE  /\ i \in Nat /\ 1 <= i /\ i <= MaxNesting + 1 /\ MaxNesting - i + 1 \in 0 .. MaxNesting
         /\ fs[i].rest \in Seq(TemplateParts) /\ fs[i].out \in Seq(Literals) /\ fs[i].out \in Seq(MeantParts)
         /\ Meanings[MaxNesting - i + 1] \in NameMeanings
         /\ Owed(fs, i) \in Seq(MeantParts) /\ Due(fs, i) \in Seq(MeantParts)
<1>1. /\ i \in Nat /\ 1 <= i /\ i <= MaxNesting + 1 /\ MaxNesting - i + 1 \in 0 .. MaxNesting
  BY ContextFacts
<1>2. fs[i] \in Calls
  OBVIOUS
<1>3. fs[i].rest \in Seq(TemplateParts) /\ fs[i].out \in Seq(Literals)
  BY <1>2 DEF Calls, AllOnCourse, OnCourse
<1>4. Literals \subseteq MeantParts
  BY DEF Literals, MeantParts
<1>5. fs[i].out \in Seq(MeantParts)
  BY <1>3, <1>4
<1>6. Meanings[MaxNesting - i + 1] \in NameMeanings
  BY <1>1, ContextFacts
<1>7. Due(fs, i) \in Seq(MeantParts)
  BY <1>3, <1>6, SpelledIs DEF Due
<1>8. Owed(fs, i) \in Seq(MeantParts)
  <2>1. CASE i = 1
    BY <2>1, ContextFacts DEF Owed
  <2>2. CASE i # 1
    <3>1. i > 1 /\ MaxNesting - i + 2 \in 0 .. MaxNesting
      BY <1>1, <2>2, ContextFacts
    <3>2. fs[i].name \in VariableNames
      BY <3>1 DEF AllOnCourse, OnCourse
    <3> QED
      BY <2>2, <3>1, <3>2, ContextFacts DEF Owed
  <2> QED
    BY <2>1, <2>2
<1> QED
  BY <1>1, <1>3, <1>5, <1>6, <1>7, <1>8

(***************************************************************************)
(* A call that only reads on, the calls around it being as they were, is   *)
(* on course if it was.                                                    *)
(***************************************************************************)
LEMMA SameCall ==
  ASSUME NEW fs, NEW gs, NEW i \in Nat, OnCourse(fs, i), gs[i] = fs[i],
         i < Len(fs), i < Len(gs), Len(fs) \in Nat, Len(gs) \in Nat, gs[i + 1].name = fs[i + 1].name
  PROVE  OnCourse(gs, i)
<1>1. Owed(gs, i) = Owed(fs, i) /\ Due(gs, i) = Due(fs, i)
  BY DEF Owed, Due
<1>2. Owed(gs, i + 1) = Owed(fs, i + 1)
  <2>1. (i + 1) = 1 \/ (i + 1) # 1
    OBVIOUS
  <2> QED
    BY <2>1 DEF Owed
<1>3. i # Len(fs) /\ i # Len(gs)
  OBVIOUS
<1> QED
  BY <1>1, <1>2, <1>3 DEF OnCourse

LEMMA CallStarts ==
  ASSUME Context
  PROVE  LET fs == <<[name |-> NoName, rest |-> template, out |-> <<>>]>>
         IN fs \in Seq(Calls) /\ Len(fs) <= MaxNesting + 1 /\ AllOnCourse(fs)
<1> DEFINE c == [name |-> NoName, rest |-> template, out |-> <<>>]
           fs == <<c>>
<1>1. c \in Calls /\ c.rest = template /\ c.out = <<>>
  BY DEF Calls, Context
<1> HIDE DEF c
<1>2. fs \in Seq(Calls) /\ Len(fs) = 1 /\ fs[1] = c
  BY <1>1
<1> HIDE DEF fs
<1>3. Meaning \in Seq(MeantParts) /\ MaxNesting - 1 + 1 = MaxNesting /\ Len(fs) <= MaxNesting + 1
  BY <1>2, ContextFacts
<1>4. Due(fs, 1) = Meaning
  BY <1>1, <1>2, <1>3 DEF Due, Meaning
<1>5. Owed(fs, 1) = Meaning
  BY DEF Owed
<1>6. <<>> \o Meaning = Meaning /\ <<>> \in Seq(Literals)
  BY <1>3, ConcatEmptySeq
<1>7. OnCourse(fs, 1)
  <2>1. Owed(fs, 1) = <<>> \o Due(fs, 1)
    BY <1>4, <1>5, <1>6
  <2>2. 1 = Len(fs) /\ ~(1 > 1) /\ fs[1].out = <<>>
    BY <1>1, <1>2
  <2> QED
    BY <1>6, <2>1, <2>2 DEF OnCourse
<1> QED
  BY <1>2, <1>3, <1>7 DEF AllOnCourse, fs, c

(***************************************************************************)
(* Text and escaped references are copied.                                 *)
(***************************************************************************)
LEMMA CallCopies ==
  ASSUME Context, NEW fs \in Seq(Calls), Len(fs) <= MaxNesting + 1, AllOnCourse(fs), fs # <<>>,
         fs[Len(fs)].rest # <<>>, Literal(Head(fs[Len(fs)].rest)),
         NEW gs \in Seq(Calls), Len(gs) = Len(fs), \A i \in 1 .. Len(fs) - 1 : gs[i] = fs[i],
         gs[Len(fs)].name = fs[Len(fs)].name, gs[Len(fs)].rest = Tail(fs[Len(fs)].rest),
         gs[Len(fs)].out = fs[Len(fs)].out \o <<Head(fs[Len(fs)].rest)>>
  PROVE  AllOnCourse(gs)
<1> DEFINE k == Len(fs)
           p == Head(fs[k].rest)
           values == Meanings[MaxNesting - k + 1]
<1>1. k \in Nat /\ k \in 1 .. k /\ Len(gs) = k
  OBVIOUS
<1>2. /\ fs[k].rest \in Seq(TemplateParts) /\ fs[k].out \in Seq(Literals) /\ fs[k].out \in Seq(MeantParts)
      /\ values \in NameMeanings
  BY <1>1, CallFacts
<1>3. ASSUME NEW i \in 1 .. k, i # k PROVE OnCourse(gs, i)
  <2>1. i \in Nat /\ i < k /\ i \in 1 .. k - 1 /\ OnCourse(fs, i)
    BY <1>1, <1>3 DEF AllOnCourse
  <2>2. gs[i + 1].name = fs[i + 1].name
    <3>1. i + 1 = k \/ i + 1 \in 1 .. k - 1
      BY <2>1, <1>1
    <3> QED
      BY <3>1
  <2>3. gs[i] = fs[i]
    BY <2>1
  <2> QED
    <3>1. Len(fs) \in Nat /\ Len(gs) \in Nat /\ i < Len(fs) /\ i < Len(gs)
      BY <1>1, <2>1
    <3> QED
      BY <2>1, <2>2, <2>3, <3>1, SameCall, Zenon
<1>4. OnCourse(gs, k)
  <2>1. OnCourse(fs, k)
    BY <1>1 DEF AllOnCourse
  <2>2. p \in TemplateParts /\ p \in Literals /\ Tail(fs[k].rest) \in Seq(TemplateParts)
    BY <1>2 DEF Literals
  <2> DEFINE t == Spelled(Tail(fs[k].rest), values)
  <2>3. t \in Seq(MeantParts) /\ Spelled(fs[k].rest, values) = <<p>> \o t
    <3>1. PartMeaning(p, values) = <<p>>
      BY DEF PartMeaning
    <3> QED
      BY <1>2, <2>2, <3>1, SpelledIs
  <2> HIDE DEF t, values
  <2>4. <<p>> \in Seq(MeantParts) /\ <<p>> \in Seq(Literals)
    BY <2>2 DEF MeantParts
  <2>5. fs[k].out \o (<<p>> \o t) = (fs[k].out \o <<p>>) \o t
    BY <1>2, <2>3, <2>4, MeantTogether, Zenon
  <2>6. fs[k].out \o <<p>> \in Seq(Literals)
    BY <1>2, <2>4
  <2>7. Owed(gs, k) = Owed(fs, k)
    BY DEF Owed
  <2>8. Due(gs, k) = t /\ Due(fs, k) = <<p>> \o t
    BY <2>3 DEF Due, t, values
  <2>9. Owed(fs, k) = fs[k].out \o Due(fs, k)
    BY <2>1 DEF OnCourse
  <2>10. Owed(gs, k) = gs[k].out \o Due(gs, k)
    <3> HIDE DEF p
    <3>1. gs[k].out = fs[k].out \o <<p>>
      BY DEF p
    <3> QED
      BY <2>5, <2>7, <2>8, <2>9, <3>1, Zenon
  <2>11. ToSet(Tail(fs[k].rest)) \subseteq ToSet(fs[k].rest)
    BY <1>2, TailIn
  <2> QED
    BY <1>1, <2>1, <2>6, <2>10, <2>11 DEF OnCourse
<1> QED
  BY <1>1, <1>3, <1>4 DEF AllOnCourse

(***************************************************************************)
(* A reference is replaced by the value of its name, in a call of its own. *)
(***************************************************************************)
LEMMA CallEnters ==
  ASSUME Context, NEW fs \in Seq(Calls), Len(fs) < MaxNesting + 1, AllOnCourse(fs), fs # <<>>,
         NEW n \in VariableNames, Certain(n),
         fs[Len(fs)].rest # <<>>, Head(fs[Len(fs)].rest) = Ref(n),
         NEW gs \in Seq(Calls), Len(gs) = Len(fs) + 1, \A i \in 1 .. Len(fs) - 1 : gs[i] = fs[i],
         gs[Len(fs)].name = fs[Len(fs)].name, gs[Len(fs)].rest = Tail(fs[Len(fs)].rest),
         gs[Len(fs)].out = fs[Len(fs)].out,
         gs[Len(fs) + 1] = [name |-> n, rest |-> ValueGiven(n), out |-> <<>>]
  PROVE  AllOnCourse(gs)
<1> DEFINE k == Len(fs)
           values == Meanings[MaxNesting - k + 1]
           owed == values[n]
<1>1. k \in Nat /\ k \in 1 .. k /\ Len(gs) = k + 1 /\ k # 0
  OBVIOUS
<1>0. MaxNesting \in Nat /\ k < MaxNesting + 1 /\ k <= MaxNesting + 1
  BY <1>1, ContextFacts
<1>2. /\ fs[k].rest \in Seq(TemplateParts) /\ fs[k].out \in Seq(Literals) /\ fs[k].out \in Seq(MeantParts)
      /\ values \in NameMeanings /\ MaxNesting - k + 1 \in 0 .. MaxNesting
  BY <1>0, <1>1, CallFacts
<1>3. MaxNesting \in Nat /\ MaxNesting - (k + 1) + 2 = MaxNesting - k + 1 /\ MaxNesting - k + 1 # 0
      /\ (MaxNesting - k + 1) - 1 = MaxNesting - (k + 1) + 1 /\ MaxNesting - (k + 1) + 1 \in 0 .. MaxNesting
  BY <1>0, <1>1
<1>a. Owed(gs, k + 1) = owed
  BY <1>1, <1>3 DEF Owed
<1>b. ValueGiven(n) \in Seq(TemplateParts)
  BY WinnersAre DEF Context, Certain, ValueGiven
<1>c. owed = Spelled(ValueGiven(n), Meanings[MaxNesting - (k + 1) + 1])
  BY <1>2, <1>3, MeaningsAre DEF Context, Certain, ValueGiven
<1>d. owed \in Seq(MeantParts)
  BY <1>2 DEF NameMeanings
<1>4. ASSUME NEW i \in 1 .. k, i # k PROVE OnCourse(gs, i)
  <2>1. i \in Nat /\ i < k /\ i < Len(gs) /\ i \in 1 .. k - 1 /\ OnCourse(fs, i)
    BY <1>1, <1>4 DEF AllOnCourse
  <2>2. gs[i + 1].name = fs[i + 1].name
    <3>1. i + 1 = k \/ i + 1 \in 1 .. k - 1
      BY <2>1, <1>1
    <3> QED
      BY <3>1
  <2>3. gs[i] = fs[i]
    BY <2>1
  <2> QED
    <3>1. Len(fs) \in Nat /\ Len(gs) \in Nat /\ i < Len(fs) /\ i < Len(gs)
      BY <1>1, <2>1
    <3> QED
      BY <2>1, <2>2, <2>3, <3>1, SameCall, Zenon
<1>5. OnCourse(gs, k)
  <2>1. OnCourse(fs, k)
    BY <1>1 DEF AllOnCourse
  <2>2. Tail(fs[k].rest) \in Seq(TemplateParts) /\ Ref(n) \in TemplateParts /\ Ref(n).kind = "ref" /\ Ref(n).name = n
    BY <1>2 DEF TemplateParts, Ref
  <2> DEFINE t == Spelled(Tail(fs[k].rest), values)
  <2>3. t \in Seq(MeantParts) /\ Spelled(fs[k].rest, values) = owed \o t
    <3>1. PartMeaning(Ref(n), values) = owed
      BY <2>2 DEF PartMeaning, Literal
    <3> DEFINE s == fs[k].rest
    <3>2. s \in Seq(TemplateParts) /\ s # <<>> /\ Head(s) = Ref(n) /\ values \in NameMeanings
      BY <1>2
    <3> HIDE DEF s, values
    <3>3. Spelled(s, values) = PartMeaning(Head(s), values) \o Spelled(Tail(s), values)
      BY <3>2, SpelledIs
    <3>4. Tail(s) \in Seq(TemplateParts)
      BY <3>2
    <3>5. Spelled(Tail(s), values) \in Seq(MeantParts)
      BY <3>2, <3>4, SpelledIs
    <3> QED
      BY <3>1, <3>2, <3>3, <3>5, Zenon DEF s
  <2>4. Due(gs, k) = t /\ Due(fs, k) = owed \o t
    BY <2>3 DEF Due
  <2> HIDE DEF t, values, owed
  <2>5. Owed(gs, k) = Owed(fs, k)
    BY DEF Owed
  <2>6. Owed(fs, k) = fs[k].out \o Due(fs, k)
    BY <2>1 DEF OnCourse
  <2>7. Owed(gs, k) = gs[k].out \o (Owed(gs, k + 1) \o Due(gs, k))
    BY <1>a, <2>4, <2>5, <2>6
  <2>8. Head(fs[k].rest) \in ToSet(fs[k].rest) /\ ToSet(Tail(fs[k].rest)) \subseteq ToSet(fs[k].rest)
    BY <1>2, TailIn
  <2>9. k # Len(gs) /\ k < Len(gs) /\ gs[k + 1].name = n
    BY <1>1
  <2>10. gs[k].out \in Seq(Literals)
    BY <1>2
  <2>11. k > 1 => /\ gs[k].name \in VariableNames /\ Certain(gs[k].name)
                  /\ ToSet(gs[k].rest) \subseteq ToSet(ValueGiven(gs[k].name))
                  /\ Ref(gs[k + 1].name) \in ToSet(ValueGiven(gs[k].name))
    BY <2>1, <2>8, <2>9 DEF OnCourse
  <2> QED
    BY <2>7, <2>9, <2>10, <2>11 DEF OnCourse
<1>6. OnCourse(gs, k + 1)
  <2>1. Due(gs, k + 1) = owed
    <3> HIDE DEF owed
    <3> QED
      BY <1>c DEF Due
  <2> HIDE DEF owed
  <2>2. <<>> \o owed = owed /\ <<>> \in Seq(Literals)
    BY <1>d, ConcatEmptySeq
  <2>3. gs[k + 1].out = <<>> /\ gs[k + 1].name = n /\ gs[k + 1].rest = ValueGiven(n) /\ k + 1 = Len(gs) /\ ~(k + 1 < Len(gs))
    BY <1>1
  <2>4. Owed(gs, k + 1) = gs[k + 1].out \o Due(gs, k + 1)
    BY <1>a, <2>1, <2>2, <2>3
  <2> QED
    BY <1>1, <2>2, <2>3, <2>4 DEF OnCourse
<1>7. \A i \in 1 .. Len(gs) : i = k \/ i = k + 1 \/ (i \in 1 .. k /\ i # k)
  BY <1>1
<1> QED
  BY <1>4, <1>5, <1>6, <1>7 DEF AllOnCourse

(***************************************************************************)
(* A value read to its end is what its name means, and stands where its    *)
(* reference stood.                                                        *)
(***************************************************************************)
LEMMA CallReturns ==
  ASSUME Context, NEW fs \in Seq(Calls), Len(fs) <= MaxNesting + 1, AllOnCourse(fs), Len(fs) > 1,
         fs[Len(fs)].rest = <<>>,
         NEW gs \in Seq(Calls), Len(gs) = Len(fs) - 1, \A i \in 1 .. Len(fs) - 2 : gs[i] = fs[i],
         gs[Len(fs) - 1].name = fs[Len(fs) - 1].name, gs[Len(fs) - 1].rest = fs[Len(fs) - 1].rest,
         gs[Len(fs) - 1].out = fs[Len(fs) - 1].out \o fs[Len(fs)].out
  PROVE  AllOnCourse(gs)
<1> DEFINE k == Len(fs)
           j == k - 1
<1>1. k \in Nat /\ k \in 1 .. k /\ j \in Nat /\ j \in 1 .. k /\ j + 1 = k /\ Len(gs) = j /\ j # k /\ k - 2 = j - 1
  OBVIOUS
<1>2. /\ fs[k].out \in Seq(Literals) /\ fs[k].out \in Seq(MeantParts)
      /\ Meanings[MaxNesting - k + 1] \in NameMeanings /\ OnCourse(fs, k)
  BY <1>1, CallFacts DEF AllOnCourse
<1>3. /\ fs[j].out \in Seq(Literals) /\ fs[j].out \in Seq(MeantParts) /\ Due(fs, j) \in Seq(MeantParts) /\ OnCourse(fs, j)
  BY <1>1, CallFacts DEF AllOnCourse
<1>4. Owed(fs, k) = fs[k].out
  <2>1. Due(fs, k) = <<>>
    BY <1>2, SpelledIs DEF Due
  <2>2. fs[k].out \o <<>> = fs[k].out
    BY <1>2, ConcatEmptySeq
  <2> QED
    BY <1>2, <2>1, <2>2 DEF OnCourse
<1>5. ASSUME NEW i \in 1 .. j, i # j PROVE OnCourse(gs, i)
  <2>1. i \in Nat /\ i < k /\ i < Len(gs) /\ i \in 1 .. k - 2 /\ i \in 1 .. k
    BY <1>1, <1>5
  <2>2. OnCourse(fs, i)
    BY <2>1 DEF AllOnCourse
  <2>3. gs[i + 1].name = fs[i + 1].name
    <3>1. i + 1 = j \/ i + 1 \in 1 .. k - 2
      BY <2>1, <1>1
    <3> QED
      BY <3>1
  <2>4. gs[i] = fs[i]
    BY <2>1
  <2> QED
    <3>1. Len(fs) \in Nat /\ Len(gs) \in Nat /\ i < Len(fs) /\ i < Len(gs)
      BY <1>1, <2>1
    <3> QED
      BY <2>1, <2>2, <2>3, <2>4, <3>1, SameCall, Zenon
<1>6. OnCourse(gs, j)
  <2>1. Owed(fs, j) = fs[j].out \o (fs[k].out \o Due(fs, j))
    BY <1>1, <1>3, <1>4 DEF OnCourse
  <2>2. Owed(gs, j) = Owed(fs, j) /\ Due(gs, j) = Due(fs, j)
    BY DEF Owed, Due
  <2>3. (fs[j].out \o fs[k].out) \o Due(fs, j) = fs[j].out \o (fs[k].out \o Due(fs, j))
    BY <1>2, <1>3, MeantTogether, Zenon
  <2>4. fs[j].out \o fs[k].out \in Seq(Literals)
    BY <1>2, <1>3
  <2>5. Owed(gs, j) = gs[j].out \o Due(gs, j)
    <3>1. gs[j].out = fs[j].out \o fs[k].out
      OBVIOUS
    <3> QED
      BY <2>1, <2>2, <2>3, <3>1, Zenon
  <2>6. j = Len(gs) /\ ~(j < Len(gs))
    BY <1>1
  <2>7. j > 1 => /\ fs[j].name \in VariableNames /\ Certain(fs[j].name)
                 /\ ToSet(fs[j].rest) \subseteq ToSet(ValueGiven(fs[j].name))
    BY <1>3 DEF OnCourse
  <2> QED
    BY <2>4, <2>5, <2>6, <2>7 DEF OnCourse
<1> QED
  BY <1>1, <1>5, <1>6 DEF AllOnCourse

(***************************************************************************)
(* What the innermost call still reads is part of what the template means. *)
(***************************************************************************)
LEMMA StillToCome ==
  ASSUME Context, NEW fs \in Seq(Calls), Len(fs) <= MaxNesting + 1, AllOnCourse(fs), fs # <<>>
  PROVE  ToSet(Due(fs, Len(fs))) \subseteq ToSet(Meaning)
<1> DEFINE k == Len(fs)
           T == {n \in Nat : n + 1 <= k => ToSet(Owed(fs, n + 1)) \subseteq ToSet(Meaning)}
<1>1. k \in Nat /\ k # 0 /\ k \in 1 .. k
  OBVIOUS
<1>2. 0 \in T
  BY DEF Owed
<1>3. ASSUME NEW n \in Nat, n \in T PROVE n + 1 \in T
  <2> SUFFICES ASSUME (n + 1) + 1 <= k PROVE ToSet(Owed(fs, (n + 1) + 1)) \subseteq ToSet(Meaning)
    OBVIOUS
  <2> DEFINE i == n + 1
  <2>1. i \in 1 .. k /\ i + 1 \in 1 .. k /\ i # k /\ ToSet(Owed(fs, i)) \subseteq ToSet(Meaning)
    BY <1>1, <1>3
  <2> HIDE DEF i
  <2>2. OnCourse(fs, i) /\ fs[i].out \in Seq(MeantParts) /\ Due(fs, i) \in Seq(MeantParts)
    BY <2>1, CallFacts DEF AllOnCourse
  <2>3. Owed(fs, i + 1) \in Seq(MeantParts)
    BY <2>1, CallFacts
  <2>4. Owed(fs, i) = fs[i].out \o (Owed(fs, i + 1) \o Due(fs, i))
    BY <2>1, <2>2 DEF OnCourse
  <2>5. /\ Owed(fs, i + 1) \o Due(fs, i) \in Seq(MeantParts)
        /\ ToSet(Owed(fs, i + 1) \o Due(fs, i)) = ToSet(Owed(fs, i + 1)) \cup ToSet(Due(fs, i))
    BY <2>2, <2>3, SetOfBoth
  <2>6. ToSet(Owed(fs, i)) = ToSet(fs[i].out) \cup ToSet(Owed(fs, i + 1) \o Due(fs, i))
    <3> DEFINE a == fs[i].out
               b == Owed(fs, i + 1) \o Due(fs, i)
    <3>1. a \in Seq(MeantParts) /\ b \in Seq(MeantParts) /\ Owed(fs, i) = a \o b
      BY <2>2, <2>4, <2>5
    <3> HIDE DEF a, b
    <3>2. ToSet(a \o b) = ToSet(a) \cup ToSet(b)
      BY <3>1, SetOfBoth
    <3> QED
      BY <3>1, <3>2 DEF a, b
  <2>7. ToSet(Owed(fs, i + 1)) \subseteq ToSet(Meaning)
    BY <2>1, <2>5, <2>6
  <2> QED
    BY <2>7 DEF i
<1>4. Nat \subseteq T
  <2> HIDE DEF T
  <2> QED
    BY <1>2, <1>3, Induction
<1>5. k - 1 \in Nat /\ (k - 1) + 1 = k
  BY <1>1
<1>6. ToSet(Owed(fs, k)) \subseteq ToSet(Meaning)
  <2>1. k - 1 \in T
    <3> HIDE DEF T
    <3> QED
      BY <1>4, <1>5
  <2>2. (k - 1) + 1 <= k => ToSet(Owed(fs, (k - 1) + 1)) \subseteq ToSet(Meaning)
    BY <2>1
  <2>3. (k - 1) + 1 <= k
    BY <1>1, <1>5
  <2> QED
    BY <1>5, <2>2, <2>3
<1>7. OnCourse(fs, k) /\ fs[k].out \in Seq(MeantParts) /\ Due(fs, k) \in Seq(MeantParts)
  BY <1>1, CallFacts DEF AllOnCourse
<1>8. Owed(fs, k) = fs[k].out \o Due(fs, k)
  BY <1>7 DEF OnCourse
<1>9. ToSet(Owed(fs, k)) = ToSet(fs[k].out) \cup ToSet(Due(fs, k))
  BY <1>7, <1>8, SetOfBoth
<1> QED
  BY <1>6, <1>9

\* A part without a meaning that a call is about to read leaves the template without one.
LEMMA BrokenPart ==
  ASSUME Context, NEW fs \in Seq(Calls), Len(fs) <= MaxNesting + 1, AllOnCourse(fs), fs # <<>>,
         fs[Len(fs)].rest # <<>>,
         Broken \in ToSet(PartMeaning(Head(fs[Len(fs)].rest), Meanings[MaxNesting - Len(fs) + 1]))
  PROVE  Broken \in ToSet(Meaning)
<1> DEFINE k == Len(fs)
<1>1. k \in 1 .. k
  OBVIOUS
<1>2. fs[k].rest \in Seq(TemplateParts) /\ Meanings[MaxNesting - k + 1] \in NameMeanings
  BY <1>1, CallFacts
<1>3. Head(fs[k].rest) \in ToSet(fs[k].rest)
  BY <1>2, TailIn
<1>4. ToSet(PartMeaning(Head(fs[k].rest), Meanings[MaxNesting - k + 1])) \subseteq ToSet(Due(fs, k))
  BY <1>2, <1>3, SpelledIs DEF Due
<1> QED
  BY <1>4, StillToCome

(***************************************************************************)
(* A name whose value leads back to it has no meaning, however many        *)
(* substitutions are allowed.                                              *)
(***************************************************************************)
LEMMA CycleHasNoMeaning ==
  ASSUME Context, NEW fs \in Seq(Calls), Len(fs) <= MaxNesting + 1, AllOnCourse(fs),
         NEW j \in 2 .. Len(fs),
         fs[Len(fs)].rest # <<>>, Head(fs[Len(fs)].rest) = Ref(fs[j].name)
  PROVE  \A d \in 0 .. MaxNesting : Broken \in ToSet(Meanings[d][fs[j].name])
<1> DEFINE k == Len(fs)
           Lost(d) == \A i \in j .. k : Broken \in ToSet(Meanings[d][fs[i].name])
           T == {d \in Nat : d <= MaxNesting => Lost(d)}
<1>1. k \in Nat /\ j \in Nat /\ j >= 2 /\ j <= k /\ MaxNesting \in Nat /\ k \in 1 .. k /\ k > 1
  BY ContextFacts
<1>2. ASSUME NEW i \in j .. k
      PROVE  /\ fs[i].name \in VariableNames /\ Certain(fs[i].name)
             /\ \E m \in j .. k : Ref(fs[m].name) \in ToSet(ValueGiven(fs[i].name))
  <2>1. i \in 1 .. k /\ i > 1 /\ i \in Nat
    BY <1>1
  <2>2. OnCourse(fs, i)
    BY <2>1 DEF AllOnCourse
  <2>3. CASE i = k
    <3>1. ToSet(fs[k].rest) \subseteq ToSet(ValueGiven(fs[k].name))
      BY <2>1, <2>2, <2>3 DEF OnCourse
    <3>2. fs[k].rest \in Seq(TemplateParts)
      BY <1>1, CallFacts
    <3>3. Ref(fs[j].name) \in ToSet(fs[k].rest)
      BY <3>2, TailIn
    <3>4. j \in j .. k
      BY <1>1
    <3> QED
      BY <2>1, <2>2, <2>3, <3>1, <3>3, <3>4 DEF OnCourse
  <2>4. CASE i # k
    <3>1. i < k /\ i + 1 \in j .. k
      BY <1>1, <2>1, <2>4
    <3> QED
      BY <2>1, <2>2, <3>1 DEF OnCourse
  <2> QED
    BY <2>3, <2>4
<1>3. 0 \in T
  <2>1. ASSUME NEW i \in j .. k PROVE Broken \in ToSet(Meanings[0][fs[i].name])
    <3>1. Meanings[0][fs[i].name] = <<Broken>>
      <4>1. 0 \in 0 .. MaxNesting
        BY <1>1
      <4> QED
        BY <1>2, <4>1, MeaningsAre DEF Context
    <3> QED
      BY <3>1 DEF ToSet
  <2> QED
    BY <2>1
<1>4. ASSUME NEW d \in Nat, d \in T PROVE d + 1 \in T
  <2> SUFFICES ASSUME d + 1 <= MaxNesting, NEW i \in j .. k
               PROVE  Broken \in ToSet(Meanings[d + 1][fs[i].name])
    OBVIOUS
  <2>1. d \in 0 .. MaxNesting /\ d + 1 \in 0 .. MaxNesting /\ d + 1 # 0 /\ (d + 1) - 1 = d /\ Lost(d)
    BY <1>1, <1>4
  <2> DEFINE n == fs[i].name
  <2>2. n \in VariableNames /\ Certain(n)
    BY <1>2
  <2>3. PICK m \in j .. k : Ref(fs[m].name) \in ToSet(ValueGiven(n))
    BY <1>2
  <2> DEFINE o == fs[m].name
  <2>4. o \in VariableNames /\ Broken \in ToSet(Meanings[d][o])
    BY <1>2, <2>1
  <2> HIDE DEF n, o
  <2>5. ValueGiven(n) \in Seq(TemplateParts)
    BY <2>2, WinnersAre DEF Context, Certain, ValueGiven
  <2>6. Meanings[d + 1][n] = Spelled(ValueGiven(n), Meanings[d])
    BY <2>1, <2>2, MeaningsAre DEF Context, Certain, ValueGiven
  <2>7. PartMeaning(Ref(o), Meanings[d]) = Meanings[d][o]
    BY DEF PartMeaning, Literal, Ref
  <2>8. Meanings[d] \in NameMeanings
    BY <2>1, ContextFacts
  <2>9. ToSet(PartMeaning(Ref(o), Meanings[d])) \subseteq ToSet(Spelled(ValueGiven(n), Meanings[d]))
    BY <2>3, <2>5, <2>8, SpelledIs DEF o
  <2> QED
    BY <2>4, <2>6, <2>7, <2>9 DEF n
<1>5. Nat \subseteq T
  <2> HIDE DEF T
  <2> QED
    BY <1>3, <1>4, Induction
<1>6. j \in j .. k /\ \A d \in 0 .. MaxNesting : d \in Nat /\ d <= MaxNesting
  BY <1>1
<1> QED
  BY <1>5, <1>6

LEMMA NoMeaning ==
  ASSUME Context
  PROVE  Meaningful <=> Broken \notin ToSet(Meaning)
<1>1. Meaning \in Seq(MeantParts)
  BY ContextFacts
<1> QED
  BY <1>1, InPairs DEF Meaningful

LEMMA NameOf ==
  ASSUME NEW p \in TemplateParts, p.kind = "ref"
  PROVE  p.name \in VariableNames /\ p = Ref(p.name)
BY DEF TemplateParts, Text, Invalid, Unclosed, Ref, Escaped

LEMMA CaseFacts ==
  ASSUME ResolutionInv
  PROVE  Context /\ draft \in RequestDrafts /\ (draft.place = "field" => ~draft.encoded)
BY DEF ResolutionInv, WellFormedCase, Context

\* What stays of the invariant when the request, its context and the template do.
LEMMA SameMeaning ==
  ASSUME variables' = variables, template' = template, draft' = draft
  PROVE  /\ Meaningful' <=> Meaningful
         /\ Meaning' = Meaning
         /\ (AllOnCourse(frames))' <=> AllOnCourse(frames')
         /\ WellFormedCase([variables |-> variables, draft |-> draft, template |-> template]) =>
              (WellFormedCase([variables |-> variables, draft |-> draft, template |-> template]))'
<1>1. Meanings' = Meanings
  BY DEF Winners, Meanings
<1>2. Meaning' = Meaning
  BY <1>1, Zenon DEF Meaning
<1>3. \A n : (Winners(n))' = Winners(n)
  BY DEF Winners
<1>4. (AllOnCourse(frames))' <=> AllOnCourse(frames')
  <2>1. \A i : (Owed(frames, i))' = Owed(frames', i) /\ (Due(frames, i))' = Due(frames', i)
    BY <1>1, <1>2 DEF Owed, Due
  <2>2. \A n : ((Certain(n))' <=> Certain(n)) /\ (ValueGiven(n))' = ValueGiven(n)
    BY <1>3, Zenon DEF Certain, ValueGiven
  <2>3. \A i : (OnCourse(frames, i))' <=> OnCourse(frames', i)
    BY <2>1, <2>2, Zenon DEF OnCourse
  <2> QED
    BY <2>3, Zenon DEF AllOnCourse
<1>5. Meaningful' <=> Meaningful
  BY <1>2, Zenon DEF Meaningful
<1> QED
  BY <1>2, <1>4, <1>5 DEF WellFormedCase

LEMMA OutputsGive ==
  ASSUME frames \in Seq(Calls), frames # <<>>, NEW parts \in Seq(TemplateParts), NEW rest \in Seq(TemplateParts),
         Outputs(parts, rest)
  PROVE  /\ frames' \in Seq(Calls) /\ Len(frames') = Len(frames) /\ frames' # <<>>
         /\ \A i \in 1 .. Len(frames) - 1 : frames'[i] = frames[i]
         /\ frames'[Len(frames)].name = frames[Len(frames)].name
         /\ frames'[Len(frames)].rest = rest
         /\ frames'[Len(frames)].out = frames[Len(frames)].out \o parts
<1> DEFINE k == Len(frames)
           c == [frames[k] EXCEPT !.out = @ \o parts, !.rest = rest]
<1>1. k \in Nat /\ k # 0 /\ k \in 1 .. k /\ frames[k] \in Calls
  OBVIOUS
<1>2. frames[k].out \o parts \in Seq(TemplateParts)
  BY <1>1 DEF Calls
<1>3. c \in Calls /\ c.name = frames[k].name /\ c.rest = rest /\ c.out = frames[k].out \o parts
  BY <1>1, <1>2 DEF Calls
<1>4. frames' = [frames EXCEPT ![k] = c]
  BY <1>1 DEF Outputs
<1> HIDE DEF c
<1>5. frames' \in Seq(Calls) /\ Len(frames') = k /\ frames'[k] = c /\ \A i \in 1 .. k - 1 : frames'[i] = frames[i]
  BY <1>1, <1>3, <1>4
<1> QED
  BY <1>1, <1>3, <1>5

\* A call that has something to read, in a state of the invariant.
LEMMA ReadingOn ==
  ASSUME ResolutionInv, NEW kind, Calling(kind)
  PROVE  /\ frames \in Seq(Calls) /\ frames # <<>> /\ Len(frames) \in Nat /\ Len(frames) <= MaxNesting + 1
         /\ Len(frames) \in 1 .. Len(frames) /\ MaxNesting - Len(frames) + 1 \in 0 .. MaxNesting
         /\ Top = frames[Len(frames)] /\ Top.rest \in Seq(TemplateParts) /\ Top.rest # <<>>
         /\ NextPart = Head(frames[Len(frames)].rest) /\ NextPart \in TemplateParts /\ NextPart.kind = kind
         /\ Tail(Top.rest) \in Seq(TemplateParts) /\ <<NextPart>> \in Seq(TemplateParts)
<1>1. /\ frames \in Seq(Calls) /\ frames # <<>> /\ Len(frames) <= MaxNesting + 1
      /\ Top.rest # <<>> /\ NextPart.kind = kind
  BY DEF ResolutionInv, Calling
<1>2. Len(frames) \in Nat /\ Len(frames) \in 1 .. Len(frames) /\ frames[Len(frames)] \in Calls
  BY <1>1
<1>3. Top = frames[Len(frames)] /\ Top.rest \in Seq(TemplateParts)
  BY <1>2 DEF Top, Calls
<1>4. MaxNesting - Len(frames) + 1 \in 0 .. MaxNesting
  BY <1>1, <1>2, NestingAssumption
<1>5. NextPart = Head(frames[Len(frames)].rest) /\ NextPart \in TemplateParts /\ Tail(Top.rest) \in Seq(TemplateParts)
  BY <1>1, <1>3 DEF NextPart
<1>6. <<NextPart>> \in Seq(TemplateParts)
  BY <1>5
<1> QED
  BY <1>1, <1>2, <1>3, <1>4, <1>5, <1>6

(***************************************************************************)
(* What is reported the first time has no meaning, and the template none   *)
(* because of it.                                                          *)
(***************************************************************************)
LEMMA ReportedHasNoMeaning ==
  ASSUME ResolutionInv, NEW kind, Calling(kind),
         diagnostics = {} => Broken \in ToSet(PartMeaning(NextPart, Meanings[MaxNesting - Len(frames) + 1]))
  PROVE  ~Meaningful
<1>1. Context
  BY CaseFacts
<1>2. CASE diagnostics # {}
  BY <1>2 DEF ResolutionInv
<1>3. CASE diagnostics = {}
  <2>1. AllOnCourse(frames)
    BY <1>3 DEF ResolutionInv
  <2>2. /\ frames \in Seq(Calls) /\ frames # <<>> /\ Len(frames) <= MaxNesting + 1
        /\ frames[Len(frames)].rest # <<>> /\ NextPart = Head(frames[Len(frames)].rest)
    BY ReadingOn
  <2>3. Broken \in ToSet(PartMeaning(Head(frames[Len(frames)].rest), Meanings[MaxNesting - Len(frames) + 1]))
    BY <1>3, <2>2
  <2>4. Broken \in ToSet(Meaning)
    BY <1>1, <2>1, <2>2, <2>3, BrokenPart
  <2> QED
    BY <1>1, <2>4, NoMeaning
<1> QED
  BY <1>2, <1>3

\* A step of the engine that leaves it on course, or reports that the template has no meaning, keeps the
\* invariant: the phase goes on.
LEMMA EngineGoesOn ==
  ASSUME ResolutionInv, Resolving, frames # <<>>,
         UNCHANGED <<variables, draft, template, outcome, phase>>,
         frames' \in Seq(Calls), frames' # <<>>, Len(frames') <= MaxNesting + 1,
         diagnostics' = {} => diagnostics = {} /\ AllOnCourse(frames'),
         diagnostics' # {} => ~Meaningful
  PROVE  ResolutionInv'
<1>1. /\ Meaningful' <=> Meaningful
      /\ (AllOnCourse(frames))' <=> AllOnCourse(frames')
      /\ (WellFormedCase([variables |-> variables, draft |-> draft, template |-> template]))'
  BY SameMeaning DEF ResolutionInv
<1>2. Stands'
  <2>1. phase' = phase /\ draft' = draft /\ phase \in {"resolving", "unlocking"} /\ Stands
    BY DEF Resolving, ResolutionInv
  <2>2. phase = "resolving" => Substituted(draft)
    BY <2>1 DEF Stands
  <2>3. phase = "unlocking" => draft.place = "credential" /\ draft.auth # "none"
    BY <2>1 DEF Stands
  <2>4. (phase = "resolving" \/ phase = "unlocking")
    BY <2>1
  <2>5. CASE phase = "resolving"
    BY <2>1, <2>2, <2>5 DEF Stands
  <2>6. CASE phase = "unlocking"
    BY <2>1, <2>3, <2>6 DEF Stands
  <2> QED
    BY <2>4, <2>5, <2>6
<1> QED
  BY <1>1, <1>2 DEF ResolutionInv

LEMMA CopyKeeps ==
  ASSUME ResolutionInv, CopyText \/ CopyEscaped
  PROVE  ResolutionInv'
<1>1. PICK kind \in {"text", "escaped"} : Calling(kind) /\ Outputs(<<NextPart>>, Tail(Top.rest))
  BY DEF CopyText, CopyEscaped
<1>2. UNCHANGED <<variables, draft, template, diagnostics, outcome, phase>> /\ Resolving
  BY DEF CopyText, CopyEscaped, Calling
<1> DEFINE k == Len(frames)
<1>3. /\ frames \in Seq(Calls) /\ frames # <<>> /\ Len(frames) <= MaxNesting + 1
      /\ Top = frames[k] /\ Top.rest # <<>> /\ NextPart = Head(frames[k].rest) /\ NextPart.kind = kind
      /\ Tail(Top.rest) \in Seq(TemplateParts) /\ <<NextPart>> \in Seq(TemplateParts)
  BY <1>1, ReadingOn
<1>4. /\ frames' \in Seq(Calls) /\ Len(frames') = k /\ frames' # <<>>
      /\ \A i \in 1 .. k - 1 : frames'[i] = frames[i]
      /\ frames'[k].name = frames[k].name /\ frames'[k].rest = Tail(frames[k].rest)
      /\ frames'[k].out = frames[k].out \o <<Head(frames[k].rest)>>
  BY <1>1, <1>3, OutputsGive
<1>5. Literal(Head(frames[k].rest))
  BY <1>3 DEF Literal
<1>6. Context
  BY CaseFacts
<1>7. ASSUME diagnostics' = {} PROVE AllOnCourse(frames')
  <2>1. AllOnCourse(frames)
    BY <1>2, <1>7 DEF ResolutionInv
  <2> QED
    BY <1>3, <1>4, <1>5, <1>6, <2>1, CallCopies
<1>8. diagnostics' # {} => ~Meaningful
  BY <1>2 DEF ResolutionInv
<1> QED
  BY <1>2, <1>3, <1>4, <1>7, <1>8, EngineGoesOn

LEMMA BrokenHere ==
  ASSUME NEW p \in TemplateParts, p.kind \in {"unclosed", "invalid"}, NEW values
  PROVE  Broken \in ToSet(PartMeaning(p, values))
<1>1. PartMeaning(p, values) = <<Broken>>
  BY DEF PartMeaning, Literal
<1> QED
  BY <1>1 DEF ToSet

LEMMA MalformedKeeps ==
  ASSUME ResolutionInv, NotClosed \/ NotAName
  PROVE  ResolutionInv'
<1>1. PICK kind \in {"unclosed", "invalid"}, parts \in Seq(TemplateParts), rest \in Seq(TemplateParts) :
        Calling(kind) /\ Outputs(parts, rest)
  <2>1. CASE NotClosed
    <3>1. Calling("unclosed") /\ Outputs(Top.rest, <<>>)
      BY <2>1 DEF NotClosed
    <3>2. Top.rest \in Seq(TemplateParts) /\ <<>> \in Seq(TemplateParts)
      BY <3>1, ReadingOn
    <3> QED
      BY <3>1, <3>2, Zenon
  <2>2. CASE NotAName
    <3>1. Calling("invalid") /\ Outputs(<<NextPart>>, Tail(Top.rest))
      BY <2>2 DEF NotAName
    <3>2. <<NextPart>> \in Seq(TemplateParts) /\ Tail(Top.rest) \in Seq(TemplateParts)
      BY <3>1, ReadingOn
    <3> QED
      BY <3>1, <3>2
  <2> QED
    BY <2>1, <2>2
<1>2. UNCHANGED <<variables, draft, template, outcome, phase>> /\ Resolving /\ diagnostics' # {}
  BY DEF NotClosed, NotAName, Calling, Report
<1>3. /\ frames \in Seq(Calls) /\ frames # <<>> /\ Len(frames) <= MaxNesting + 1
      /\ NextPart \in TemplateParts /\ NextPart.kind = kind
  BY <1>1, ReadingOn
<1>4. frames' \in Seq(Calls) /\ Len(frames') = Len(frames) /\ frames' # <<>>
  BY <1>1, <1>3, OutputsGive
<1>5. Broken \in ToSet(PartMeaning(NextPart, Meanings[MaxNesting - Len(frames) + 1]))
  BY <1>3, BrokenHere
<1>6. ~Meaningful
  BY <1>1, <1>5, ReportedHasNoMeaning
<1> QED
  BY <1>2, <1>3, <1>4, <1>6, EngineGoesOn

\* A name that is not given exactly once means nothing.
LEMMA UncertainHasNoMeaning ==
  ASSUME Context, NEW n \in VariableNames, ~Certain(n), NEW d \in 0 .. MaxNesting
  PROVE  Broken \in ToSet(PartMeaning(Ref(n), Meanings[d]))
<1>1. PartMeaning(Ref(n), Meanings[d]) = Meanings[d][n]
  BY DEF PartMeaning, Literal, Ref
<1>2. Meanings[d][n] = <<Broken>>
  BY MeaningsAre DEF Context, Certain
<1> QED
  BY <1>1, <1>2 DEF ToSet

LEMMA MissingKeeps ==
  ASSUME ResolutionInv, Missing
  PROVE  ResolutionInv'
<1>1. Calling("ref") /\ Outputs(<<NextPart>>, Tail(Top.rest)) /\ ~Defined(variables, NextPart.name)
  BY DEF Missing
<1>2. UNCHANGED <<variables, draft, template, outcome, phase>> /\ Resolving /\ diagnostics' # {}
  BY DEF Missing, Calling, Report
<1>3. /\ frames \in Seq(Calls) /\ frames # <<>> /\ Len(frames) <= MaxNesting + 1
      /\ MaxNesting - Len(frames) + 1 \in 0 .. MaxNesting
      /\ NextPart \in TemplateParts /\ NextPart.kind = "ref"
      /\ Tail(Top.rest) \in Seq(TemplateParts) /\ <<NextPart>> \in Seq(TemplateParts)
  BY <1>1, ReadingOn
<1>4. frames' \in Seq(Calls) /\ Len(frames') = Len(frames) /\ frames' # <<>>
  BY <1>1, <1>3, OutputsGive
<1>5. NextPart = Ref(NextPart.name) /\ NextPart.name \in VariableNames
  BY <1>3, NameOf
<1>6. Context
  BY CaseFacts
<1>7. ~Certain(NextPart.name)
  BY <1>1, <1>5, <1>6, SymbolIs DEF Context, Certain
<1>8. Broken \in ToSet(PartMeaning(NextPart, Meanings[MaxNesting - Len(frames) + 1]))
  BY <1>3, <1>5, <1>6, <1>7, UncertainHasNoMeaning
<1>9. ~Meaningful
  BY <1>1, <1>8, ReportedHasNoMeaning
<1> QED
  BY <1>2, <1>3, <1>4, <1>9, EngineGoesOn

LEMMA NotEnteredKeeps ==
  ASSUME ResolutionInv, NotEntered
  PROVE  ResolutionInv'
<1> DEFINE k == Len(frames)
           n == NextPart.name
           d == MaxNesting - k + 1
<1>1. Calling("ref") /\ Outputs(<<NextPart>>, Tail(Top.rest)) /\ (OnStack(n) \/ Len(Stack) >= MaxNesting)
  BY DEF NotEntered
<1>2. UNCHANGED <<variables, draft, template, outcome, phase>> /\ Resolving /\ diagnostics' # {}
  BY DEF NotEntered, Calling
<1>3. /\ frames \in Seq(Calls) /\ frames # <<>> /\ k \in Nat /\ k <= MaxNesting + 1 /\ d \in 0 .. MaxNesting
      /\ frames[k].rest # <<>> /\ NextPart = Head(frames[k].rest) /\ NextPart \in TemplateParts /\ NextPart.kind = "ref"
      /\ Tail(Top.rest) \in Seq(TemplateParts) /\ <<NextPart>> \in Seq(TemplateParts)
  BY <1>1, ReadingOn
<1>4. frames' \in Seq(Calls) /\ Len(frames') = k /\ frames' # <<>>
  BY <1>1, <1>3, OutputsGive
<1>5. NextPart = Ref(n) /\ n \in VariableNames
  BY <1>3, NameOf
<1>6. Context
  BY CaseFacts
<1>a. k # 0 /\ MaxNesting \in Nat
  BY <1>3, NestingAssumption
<1> HIDE DEF n
<1>7. ASSUME diagnostics = {} PROVE Broken \in ToSet(PartMeaning(NextPart, Meanings[d]))
  <2>1. AllOnCourse(frames)
    BY <1>7 DEF ResolutionInv
  <2>2. PartMeaning(NextPart, Meanings[d]) = Meanings[d][n]
    BY <1>5 DEF PartMeaning, Literal, Ref
  <2>3. CASE OnStack(n)
    <3>1. PICK i \in 1 .. k - 1 : frames[i + 1].name = n
      BY <1>3, <2>3 DEF OnStack, Stack
    <3>2. i + 1 \in 2 .. k
      BY <1>3, <1>a
    <3>3. Broken \in ToSet(Meanings[d][n])
      <4> HIDE DEF d
      <4>1. Head(frames[k].rest) = Ref(frames[i + 1].name)
        BY <1>3, <1>5, <3>1
      <4> DEFINE j == i + 1
      <4>2. j \in 2 .. k /\ Head(frames[k].rest) = Ref(frames[j].name) /\ frames[j].name = n
        BY <3>1, <3>2, <4>1
      <4> HIDE DEF j
      <4>3. \A e \in 0 .. MaxNesting : Broken \in ToSet(Meanings[e][frames[j].name])
        BY <1>3, <1>6, <2>1, <4>2, CycleHasNoMeaning
      <4> QED
        BY <1>3, <4>2, <4>3
    <3> QED
      BY <2>2, <3>3
  <2>4. CASE Len(Stack) >= MaxNesting
    <3>1. Len(Stack) = k - 1
      <4>1. k - 1 \in Nat
        BY <1>3, <1>a
      <4> QED
        BY <4>1 DEF Stack
    <3>2. d = 0
      BY <1>3, <1>a, <2>4, <3>1
    <3>3. Meanings[d][n] = <<Broken>>
      BY <1>3, <1>5, <1>6, <3>2, MeaningsAre DEF Context
    <3> QED
      BY <2>2, <3>3 DEF ToSet
  <2> QED
    BY <1>1, <2>3, <2>4 DEF n
<1>8. ~Meaningful
  BY <1>1, <1>7, ReportedHasNoMeaning
<1> QED
  BY <1>2, <1>3, <1>4, <1>8, EngineGoesOn

LEMMA EnterKeeps ==
  ASSUME ResolutionInv, EnterValue
  PROVE  ResolutionInv'
<1> DEFINE k == Len(frames)
           n == NextPart.name
           s == Symbol(variables, n)
           c == [frames[k] EXCEPT !.rest = Tail(@)]
           new == [name |-> n, rest |-> s.value, out |-> <<>>]
<1>1. /\ Calling("ref") /\ Defined(variables, n) /\ Len(Stack) < MaxNesting
      /\ frames' = Append([frames EXCEPT ![k] = c], new)
      /\ diagnostics' = diagnostics \cup Duplicates(n)
  BY DEF EnterValue
<1>2. UNCHANGED <<variables, draft, template, outcome, phase>> /\ Resolving
  BY DEF EnterValue, Calling
<1>3. /\ frames \in Seq(Calls) /\ frames # <<>> /\ k \in Nat /\ k <= MaxNesting + 1 /\ k \in 1 .. k
      /\ MaxNesting - k + 1 \in 0 .. MaxNesting
      /\ frames[k].rest # <<>> /\ NextPart = Head(frames[k].rest) /\ NextPart \in TemplateParts /\ NextPart.kind = "ref"
      /\ Tail(frames[k].rest) \in Seq(TemplateParts)
  BY <1>1, ReadingOn
<1>4. NextPart = Ref(n) /\ n \in VariableNames
  BY <1>3, NameOf
<1>5. Context
  BY CaseFacts
<1>6. s.value \in Seq(TemplateParts) /\ (s.duplicate <=> ~Certain(n)) /\ (~s.duplicate => s.value = ValueGiven(n))
  BY <1>1, <1>4, <1>5, SymbolIs DEF Context, Certain, ValueGiven
<1>7. k < MaxNesting + 1
  <2>1. k - 1 \in Nat /\ MaxNesting \in Nat
    BY <1>3, NestingAssumption
  <2>2. Len(Stack) = k - 1
    BY <2>1 DEF Stack
  <2> QED
    BY <1>1, <1>3, <2>1, <2>2
<1>8. new \in Calls
  BY <1>4, <1>6 DEF Calls
<1>9. /\ frames[k] \in Calls /\ c \in Calls
      /\ c.name = frames[k].name /\ c.rest = Tail(frames[k].rest) /\ c.out = frames[k].out
  <2>1. frames[k] \in Calls
    BY <1>3
  <2> QED
    BY <1>3, <2>1 DEF Calls
<1>10. (Duplicates(n) = {}) <=> ~s.duplicate
  BY DEF Duplicates
<1> HIDE DEF c, new, s, n
<1>11. /\ frames' \in Seq(Calls) /\ Len(frames') = k + 1 /\ frames'[k] = c /\ frames'[k + 1] = new /\ frames' # <<>>
       /\ \A i \in 1 .. k - 1 : frames'[i] = frames[i]
  BY <1>1, <1>3, <1>8, <1>9
<1>12. Len(frames') <= MaxNesting + 1
  BY <1>3, <1>7, <1>11, NestingAssumption
<1>13. ASSUME diagnostics' = {} PROVE diagnostics = {} /\ AllOnCourse(frames')
  <2>1. diagnostics = {} /\ Duplicates(n) = {}
    BY <1>1, <1>13
  <2>2. AllOnCourse(frames)
    BY <2>1 DEF ResolutionInv
  <2>3. Certain(n) /\ new = [name |-> n, rest |-> ValueGiven(n), out |-> <<>>]
    BY <1>6, <1>10, <2>1 DEF new
  <2>4. Head(frames[k].rest) = Ref(n)
    BY <1>3, <1>4
  <2> QED
    BY <1>3, <1>4, <1>5, <1>7, <1>9, <1>11, <2>1, <2>2, <2>3, <2>4, CallEnters
<1>14. ASSUME diagnostics' # {} PROVE ~Meaningful
  <2>1. CASE diagnostics # {}
    BY <2>1 DEF ResolutionInv
  <2>2. CASE diagnostics = {}
    <3>1. ~Certain(n)
      BY <1>1, <1>6, <1>10, <1>14, <2>2
    <3>2. Broken \in ToSet(PartMeaning(NextPart, Meanings[MaxNesting - k + 1]))
      BY <1>3, <1>4, <1>5, <3>1, UncertainHasNoMeaning
    <3> QED
      BY <1>1, <3>2, ReportedHasNoMeaning
  <2> QED
    BY <2>1, <2>2
<1> QED
  BY <1>2, <1>3, <1>11, <1>12, <1>13, <1>14, EngineGoesOn

LEMMA LeaveKeeps ==
  ASSUME ResolutionInv, LeaveValue
  PROVE  ResolutionInv'
<1> DEFINE k == Len(frames)
           j == k - 1
           c == [frames[j] EXCEPT !.out = @ \o frames[k].out]
<1>1. Resolving /\ k > 1 /\ frames[k].rest = <<>> /\ frames' = [i \in 1 .. j |-> IF i = j THEN c ELSE frames[i]]
  <2>1. frames' = [i \in 1 .. j |-> IF i = j THEN [frames[i] EXCEPT !.out = @ \o Top.out] ELSE frames[i]]
    BY DEF LeaveValue
  <2> QED
    BY <2>1 DEF LeaveValue, Top
<1>2. UNCHANGED <<variables, draft, template, diagnostics, outcome, phase>>
  BY DEF LeaveValue
<1>3. frames \in Seq(Calls) /\ k \in Nat /\ k <= MaxNesting + 1 /\ frames # <<>> /\ MaxNesting \in Nat
  BY <1>1, NestingAssumption DEF ResolutionInv
<1>4. j \in Nat /\ j \in 1 .. k /\ k \in 1 .. k /\ frames[j] \in Calls /\ frames[k] \in Calls
  BY <1>1, <1>3
<1>5. c \in Calls /\ c.name = frames[j].name /\ c.rest = frames[j].rest /\ c.out = frames[j].out \o frames[k].out
  <2>1. frames[j].out \o frames[k].out \in Seq(TemplateParts)
    BY <1>4 DEF Calls
  <2> QED
    BY <1>4, <2>1 DEF Calls
<1>6. \A i \in 1 .. j : frames[i] \in Calls
  BY <1>3, <1>4
<1> HIDE DEF c
<1>7. /\ frames' \in Seq(Calls) /\ Len(frames') = j /\ frames'[j] = c /\ frames' # <<>>
      /\ \A i \in 1 .. k - 2 : frames'[i] = frames[i]
  <2>1. j \in 1 .. j /\ \A i \in 1 .. k - 2 : i \in 1 .. j /\ i # j
    BY <1>1, <1>3
  <2> HIDE DEF j
  <2>2. frames' \in Seq(Calls) /\ Len(frames') = j
    BY <1>1, <1>4, <1>5, <1>6
  <2> QED
    BY <1>1, <2>1, <2>2
<1>8. Len(frames') <= MaxNesting + 1
  BY <1>3, <1>7
<1>9. ASSUME diagnostics' = {} PROVE diagnostics = {} /\ AllOnCourse(frames')
  <2>1. diagnostics = {} /\ AllOnCourse(frames)
    BY <1>2, <1>9 DEF ResolutionInv
  <2>2. Context
    BY CaseFacts
  <2> QED
    BY <1>1, <1>3, <1>5, <1>7, <2>1, <2>2, CallReturns
<1>10. diagnostics' # {} => ~Meaningful
  BY <1>2 DEF ResolutionInv
<1> QED
  BY <1>1, <1>2, <1>3, <1>7, <1>8, <1>9, <1>10, EngineGoesOn

(***************************************************************************)
(* A resolution without a report gives what the template means, and that   *)
(* has nothing left to substitute.                                         *)
(***************************************************************************)
LEMMA EngineGives ==
  ASSUME ResolutionInv, EngineDone, frames # <<>>, diagnostics = {}
  PROVE  Top.out = Meaning /\ Meaningful
<1>1. /\ frames \in Seq(Calls) /\ Len(frames) = 1 /\ Top = frames[1] /\ frames[1].rest = <<>>
      /\ AllOnCourse(frames) /\ Len(frames) <= MaxNesting + 1
  BY DEF ResolutionInv, EngineDone, Top
<1>2. Context
  BY CaseFacts
<1>3. /\ OnCourse(frames, 1) /\ frames[1].out \in Seq(Literals) /\ frames[1].out \in Seq(MeantParts)
      /\ Meanings[MaxNesting - 1 + 1] \in NameMeanings
  <2>1. 1 \in 1 .. Len(frames)
    BY <1>1
  <2>2. OnCourse(frames, 1)
    BY <1>1, <2>1 DEF AllOnCourse
  <2>3. /\ frames[1].out \in Seq(Literals) /\ frames[1].out \in Seq(MeantParts)
        /\ Meanings[MaxNesting - 1 + 1] \in NameMeanings
    BY <1>1, <1>2, <2>1, CallFacts
  <2> QED
    BY <2>2, <2>3
<1>4. Due(frames, 1) = <<>>
  BY <1>1, <1>3, SpelledIs DEF Due
<1>5. Meaning = frames[1].out \o <<>>
  <2>1. Owed(frames, 1) = Meaning
    BY DEF Owed
  <2>2. Owed(frames, 1) = frames[1].out \o Due(frames, 1)
    BY <1>1, <1>3 DEF OnCourse
  <2> QED
    BY <1>4, <2>1, <2>2
<1>6. Meaning = frames[1].out
  BY <1>3, <1>5, ConcatEmptySeq
<1>7. Broken \notin Literals
  BY DEF Literals, Literal, Broken
<1>8. Meaningful
  BY <1>3, <1>6, <1>7 DEF Meaningful
<1> QED
  BY <1>1, <1>6, <1>8

\* The steps around the engine.
LEMMA PhaseChanges ==
  ASSUME ResolutionInv, UNCHANGED <<variables, draft, template, diagnostics>>,
         frames' = <<>> \/ (frames' = <<[name |-> NoName, rest |-> template, out |-> <<>>]>>),
         Stands'
  PROVE  ResolutionInv'
<1>1. /\ Meaningful' <=> Meaningful
      /\ (AllOnCourse(frames))' <=> AllOnCourse(frames')
      /\ (WellFormedCase([variables |-> variables, draft |-> draft, template |-> template]))'
  BY SameMeaning DEF ResolutionInv
<1>2. Context
  BY CaseFacts
<1>3. frames' \in Seq(Calls) /\ Len(frames') <= MaxNesting + 1 /\ AllOnCourse(frames')
  <2>1. CASE frames' = <<>>
    BY <2>1, NestingAssumption DEF AllOnCourse
  <2>2. CASE frames' = <<[name |-> NoName, rest |-> template, out |-> <<>>]>>
    BY <1>2, <2>2, CallStarts
  <2> QED
    BY <2>1, <2>2
<1> QED
  BY <1>1, <1>3 DEF ResolutionInv

LEMMA NeededIsUsed ==
  ASSUME NEW d \in RequestDrafts, d.place = "field" => ~d.encoded
  PROVE  /\ Substituted(d) => d.place # "credential" /\ (Used(d) \/ ~d.named)
         /\ Used(d) => Substituted(d) \/ (d.place = "credential" /\ d.auth # "none")
<1>1. /\ d.place \in {"url", "path", "header", "query", "content", "field", "fileField", "fileType", "authName",
                      "credential"}
      /\ d.body \in {"none", "json", "text", "xml", "binary", "x-www-form-urlencoded", "form-data", "file"}
  BY DEF RequestDrafts
<1>2. CASE d.place \in {"url", "path"}
  BY <1>2 DEF Substituted, Used
<1>3. CASE d.place \in {"header", "query"}
  BY <1>3 DEF Substituted, Used
<1>4. CASE d.place = "content"
  BY <1>1, <1>4 DEF Substituted, Used, HasContent
<1>5. CASE d.place = "field"
  BY <1>5 DEF Substituted, Used, FieldBody
<1>6. CASE d.place \in {"fileField", "fileType", "authName"}
  BY <1>6 DEF Substituted, Used
<1>7. CASE d.place = "credential"
  BY <1>7 DEF Substituted, Used
<1> QED
  BY <1>1, <1>2, <1>3, <1>4, <1>5, <1>6, <1>7

LEMMA BeginKeeps ==
  ASSUME ResolutionInv, Begin
  PROVE  ResolutionInv'
<1>1. /\ phase = "start" /\ phase' = "resolving" /\ UNCHANGED <<variables, draft, template, diagnostics>>
      /\ frames' = IF Substituted(draft) THEN <<[name |-> NoName, rest |-> template, out |-> <<>>]>> ELSE <<>>
  BY DEF Begin
<1>2. diagnostics = {}
  BY <1>1 DEF ResolutionInv, Stands
<1>3. frames' = <<>> <=> ~Substituted(draft)
  BY <1>1
<1>4. Stands'
  BY <1>1, <1>2, <1>3 DEF Stands
<1> QED
  BY <1>1, <1>4, PhaseChanges

LEMMA PreflightKeeps ==
  ASSUME ResolutionInv, Preflight
  PROVE  ResolutionInv'
<1>1. /\ phase = "resolving" /\ EngineDone /\ frames' = <<>> /\ UNCHANGED <<variables, draft, template, diagnostics>>
      /\ outcome' = IF frames = <<>> THEN template ELSE Top.out
      /\ phase' = IF diagnostics = {} /\ draft.fits /\ draft.filesFit THEN "resolved" ELSE "refused"
  BY DEF Preflight
<1>2. (frames = <<>> <=> ~Substituted(draft)) /\ (~Substituted(draft) => diagnostics = {})
  BY <1>1 DEF ResolutionInv, Stands
<1>3. draft \in RequestDrafts /\ (draft.place = "field" => ~draft.encoded)
  BY CaseFacts
<1>4. /\ Meaningful' <=> Meaningful
      /\ Meaning' = Meaning
  BY <1>1, SameMeaning
<1>5. CASE phase' = "resolved"
  <2>1. diagnostics = {}
    BY <1>1, <1>5
  <2>2. Substituted(draft) => Meaningful /\ outcome' = Meaning
    BY <1>1, <1>2, <2>1, EngineGives
  <2>3. Stands'
    BY <1>1, <1>4, <1>5, <2>1, <2>2 DEF Stands
  <2> QED
    BY <1>1, <2>3, PhaseChanges
<1>6. CASE phase' = "refused"
  <2>1. (draft.fits /\ draft.filesFit) => diagnostics # {}
    BY <1>1, <1>6
  <2>2. diagnostics # {} => ~Meaningful /\ Substituted(draft)
    BY <1>2 DEF ResolutionInv
  <2>3. Substituted(draft) => Used(draft) \/ ~draft.named
    BY <1>3, NeededIsUsed
  <2>4. RefusedWithReason'
    BY <1>1, <1>4, <2>1, <2>2, <2>3 DEF RefusedWithReason
  <2>5. Stands'
    BY <1>6, <2>4 DEF Stands
  <2> QED
    BY <1>1, <2>5, PhaseChanges
<1> QED
  BY <1>1, <1>5, <1>6

LEMMA ReadCredentialKeeps ==
  ASSUME ResolutionInv, ReadCredential
  PROVE  ResolutionInv'
<1>1. /\ draft.auth # "none" /\ draft.place = "credential" /\ phase' = "unlocking"
      /\ frames' = <<[name |-> NoName, rest |-> template, out |-> <<>>]>>
      /\ UNCHANGED <<variables, draft, template, diagnostics>>
  BY DEF ReadCredential
<1>2. frames' # <<>>
  BY <1>1
<1>3. Stands'
  BY <1>1, <1>2 DEF Stands
<1> QED
  BY <1>1, <1>3, PhaseChanges

LEMMA UnlockKeeps ==
  ASSUME ResolutionInv, Unlock
  PROVE  ResolutionInv'
<1>1. /\ phase = "unlocking" /\ EngineDone /\ frames' = <<>> /\ UNCHANGED <<variables, draft, template, diagnostics>>
      /\ outcome' = Top.out /\ phase' = IF diagnostics = {} THEN "sent" ELSE "refused"
  BY DEF Unlock
<1>2. frames # <<>> /\ draft.place = "credential" /\ draft.auth # "none"
  BY <1>1 DEF ResolutionInv, Stands
<1>3. /\ Meaningful' <=> Meaningful
      /\ Meaning' = Meaning
  BY <1>1, SameMeaning
<1>4. CASE diagnostics = {}
  <2>1. Top.out = Meaning /\ Meaningful
    BY <1>1, <1>2, <1>4, EngineGives
  <2>2. SentIsSubstituted'
    BY <1>1, <1>3, <2>1 DEF SentIsSubstituted
  <2>3. Stands'
    BY <1>1, <1>4, <2>2 DEF Stands
  <2> QED
    BY <1>1, <2>3, PhaseChanges
<1>5. CASE diagnostics # {}
  <2>1. ~Meaningful
    BY <1>5 DEF ResolutionInv
  <2>2. Used(draft)
    BY <1>2 DEF Used
  <2>3. RefusedWithReason'
    BY <1>1, <1>3, <2>1, <2>2 DEF RefusedWithReason
  <2>4. Stands'
    BY <1>1, <1>5, <2>3 DEF Stands
  <2> QED
    BY <1>1, <2>4, PhaseChanges
<1> QED
  BY <1>4, <1>5

LEMMA SendKeeps ==
  ASSUME ResolutionInv, Send
  PROVE  ResolutionInv'
<1>1. /\ phase = "resolved" /\ (draft.auth = "none" \/ draft.place # "credential") /\ phase' = "sent"
      /\ UNCHANGED <<variables, draft, template, frames, diagnostics, outcome>>
  BY DEF Send
<1>2. frames = <<>> /\ (Substituted(draft) => Meaningful /\ outcome = Meaning)
  BY <1>1 DEF ResolutionInv, Stands
<1>3. Used(draft) => Substituted(draft)
  BY <1>1, CaseFacts, NeededIsUsed
<1>4. /\ Meaningful' <=> Meaningful
      /\ Meaning' = Meaning
  BY <1>1, SameMeaning
<1>5. SentIsSubstituted'
  BY <1>1, <1>2, <1>3, <1>4 DEF SentIsSubstituted
<1>6. Stands'
  BY <1>1, <1>5 DEF Stands
<1> QED
  BY <1>1, <1>2, <1>6, PhaseChanges

LEMMA ResolutionKeeps ==
  ASSUME ResolutionInv, ResolutionNext
  PROVE  ResolutionInv'
BY CopyKeeps, MalformedKeeps, MissingKeeps, NotEnteredKeeps, EnterKeeps, LeaveKeeps, BeginKeeps, PreflightKeeps,
   ReadCredentialKeeps, UnlockKeeps, SendKeeps DEF ResolutionNext

LEMMA ResolutionStarts ==
  ASSUME NEW from, \A c \in from : WellFormedCase(c), ResolutionInit(from)
  PROVE  ResolutionInv
<1>1. PICK c \in from : variables = c.variables /\ draft = c.draft /\ template = c.template
  BY DEF ResolutionInit
<1>2. WellFormedCase(c)
  BY <1>1
<1>3. WellFormedCase([variables |-> variables, draft |-> draft, template |-> template])
  BY <1>1, <1>2 DEF WellFormedCase
<1>4. frames = <<>> /\ diagnostics = {} /\ phase = "start"
  BY DEF ResolutionInit
<1>5. frames \in Seq(Calls) /\ Len(frames) <= MaxNesting + 1 /\ AllOnCourse(frames)
  BY <1>4, NestingAssumption DEF AllOnCourse
<1>6. Stands
  BY <1>4 DEF Stands
<1> QED
  BY <1>3, <1>4, <1>5, <1>6 DEF ResolutionInv

LEMMA ResolutionUnmoved ==
  ASSUME ResolutionInv, UNCHANGED resolutionVars
  PROVE  ResolutionInv'
<1>1. /\ variables' = variables /\ draft' = draft /\ template' = template /\ frames' = frames
      /\ diagnostics' = diagnostics /\ outcome' = outcome /\ phase' = phase
  BY DEF resolutionVars
<1>2. /\ Meaningful' <=> Meaningful
      /\ Meaning' = Meaning
      /\ (AllOnCourse(frames))' <=> AllOnCourse(frames')
      /\ (WellFormedCase([variables |-> variables, draft |-> draft, template |-> template]))'
  BY <1>1, SameMeaning DEF ResolutionInv
<1>3. AllOnCourse(frames') <=> AllOnCourse(frames)
  BY <1>1
<1>4. Stands'
  BY <1>1, <1>2 DEF ResolutionInv, Stands, SentIsSubstituted, RefusedWithReason
<1> QED
  BY <1>1, <1>2, <1>3, <1>4 DEF ResolutionInv

LEMMA ResolutionInductive == ContentSpec => []ResolutionInv
<1>1. ContentInit => ResolutionInv
  <2>1. \A c \in AnyCase : WellFormedCase(c)
    BY CasesAreWellFormed DEF AnyCase
  <2>2. \A c \in Cases : WellFormedCase(c)
    BY CasesAreWellFormed
  <2> QED
    BY <2>1, <2>2, ResolutionStarts DEF ContentInit
<1>2. ASSUME ResolutionInv, [ContentNext]_contentVars PROVE ResolutionInv'
  <2>1. CASE UNCHANGED resolutionVars
    BY <1>2, <2>1, ResolutionUnmoved
  <2>2. CASE ResolutionNext
    BY <1>2, <2>2, ResolutionKeeps
  <2> QED
    BY <1>2, <2>1, <2>2 DEF ContentNext, contentVars, EditsTree, ParsesCurl, ReadsWords, ResolvesVariables,
                            MakesDerivative, ConvertsPostman
<1> QED
  BY <1>1, <1>2, PTL DEF ContentSpec

(***************************************************************************)
(* Whatever variables there are, in whatever scopes, with values that lead *)
(* to one another in any way, and wherever the template stands: a request  *)
(* is sent only with every part that counts substituted to the end, and    *)
(* refused for its variables only where such a part has no meaning         *)
(* (VariableEngine.ts:88-345, RequestPreparationService.ts:50-110).        *)
(***************************************************************************)
THEOREM ResolvedOrRefused == ContentSpec => []SentOrRefusedWithReason
<1>1. ASSUME ResolutionInv PROVE SentOrRefusedWithReason
  <2>1. CASE phase = "sent"
    <3>1. SentIsSubstituted
      BY <1>1, <2>1 DEF ResolutionInv, Stands
    <3> QED
      BY <2>1, <3>1 DEF SentOrRefusedWithReason, RefusedWithReason
  <2>2. CASE phase = "refused"
    <3>1. RefusedWithReason
      BY <1>1, <2>2 DEF ResolutionInv, Stands
    <3> QED
      BY <2>2, <3>1 DEF SentOrRefusedWithReason, SentIsSubstituted
  <2>3. CASE phase # "sent" /\ phase # "refused"
    BY <2>3 DEF SentOrRefusedWithReason, SentIsSubstituted, RefusedWithReason
  <2> QED
    BY <2>1, <2>2, <2>3
<1> QED
  BY <1>1, ResolutionInductive, PTL
=============================================================================
