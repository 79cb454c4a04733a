----------------------------- MODULE MvccProofs -----------------------------
(***************************************************************************)
(* Facts about the operators of the store, for every set of keys.          *)
(***************************************************************************)
EXTENDS Mvcc, SequenceTheorems, FiniteSetTheorems, WellFoundedInduction, TLAPS

-----------------------------------------------------------------------------
(* Numbers *)

\* The least-number principle, by which the lemmas below go from n to n + 1.
LEMMA Least ==
    ASSUME NEW T \in SUBSET Nat, T # {}
    PROVE  \E x \in T : \A y \in T : x <= y
<1> DEFINE R == {ss \in Nat \X Nat : ss[1] < ss[2]}
<1>1. IsWellFoundedOn(R, Nat)
  BY NatLessThanWellFounded DEF OpToRel
<1> HIDE DEF R
<1>2. PICK x \in T : \A y \in T : ~ (<<y, x>> \in R)
  BY <1>1, WFMin
<1>3. ASSUME NEW y \in T PROVE x <= y
  <2>1. <<y, x>> \in Nat \X Nat /\ <<y, x>> \notin R
    BY <1>2
  <2>2. <<y, x>>[1] = y /\ <<y, x>>[2] = x
    OBVIOUS
  <2> QED BY <2>1, <2>2, x \in Nat, y \in Nat DEF R
<1> QED BY <1>3

\* Induction up to a bound, on a set: it holds all of 0 .. z.
LEMMA UpTo ==
    ASSUME NEW z \in Nat, NEW T, 0 \in T, \A n \in 0 .. z - 1 : n \in T => n + 1 \in T
    PROVE  0 .. z \subseteq T
<1> DEFINE Bad == {n \in 0 .. z : n \notin T}
<1> SUFFICES ASSUME Bad # {} PROVE FALSE
  OBVIOUS
<1>1. PICK x \in Bad : \A y \in Bad : x <= y
  BY Least, Bad \subseteq Nat
<1>2. x # 0 /\ x \in 0 .. z /\ x \notin T
  OBVIOUS
<1>3. x - 1 \in 0 .. z - 1 /\ x - 1 \in T
  BY <1>1, <1>2
<1> QED BY <1>2, <1>3, x - 1 + 1 = x
-----------------------------------------------------------------------------
(* Kept *)

\* The function Kept unfolds does what its equation says.
IsKept(f, q, T) ==
    f = [n \in 0 .. Len(q) |->
            IF n = 0 THEN <<>>
            ELSE IF q[n] \in T THEN Append(f[n - 1], q[n])
            ELSE f[n - 1]]


\* A part of that function, up to n.
Step(q, T, g, n) == IF q[n] \in T THEN Append(g[n - 1], q[n]) ELSE g[n - 1]
PartOf(q, T, S, n, g) ==
    /\ g \in [0 .. n -> Seq(S)] /\ g[0] = <<>>
    /\ \A k \in 1 .. n : g[k] = Step(q, T, g, k)

LEMMA PartGrows ==
    ASSUME NEW S, NEW q \in Seq(S), NEW T, NEW n \in 0 .. Len(q) - 1,
           NEW g, PartOf(q, T, S, n, g)
    PROVE  \E h : PartOf(q, T, S, n + 1, h)
<1>0. Len(q) \in Nat /\ q[n + 1] \in S
  BY LenProperties, ElementOfSeq
<1> DEFINE next == IF q[n + 1] \in T THEN Append(g[n], q[n + 1]) ELSE g[n]
           h == [k \in 0 .. n + 1 |-> IF k = n + 1 THEN next ELSE g[k]]
<1>2. g[n] \in Seq(S) /\ next \in Seq(S)
  BY <1>0, AppendProperties DEF PartOf
<1> HIDE DEF next
<1>3. h \in [0 .. n + 1 -> Seq(S)] /\ h[0] = <<>>
  BY <1>0, <1>2 DEF PartOf
<1>4. \A k \in 0 .. n : h[k] = g[k]
  OBVIOUS
<1>5. h[n + 1] = next
  OBVIOUS
<1> HIDE DEF h
<1>6. ASSUME NEW k \in 1 .. n + 1 PROVE h[k] = Step(q, T, h, k)
  <2>1. CASE k = n + 1
    BY <1>0, <1>4, <1>5, <2>1 DEF next, Step
  <2>2. CASE k # n + 1
    <3>1. k \in 1 .. n /\ k - 1 \in 0 .. n /\ k \in 0 .. n
      BY <1>0, <2>2
    <3> QED BY <1>4, <3>1 DEF PartOf, Step
  <2> QED BY <2>1, <2>2
<1> QED BY <1>3, <1>6 DEF PartOf

LEMMA KeptExists ==
    ASSUME NEW S, NEW q \in Seq(S), NEW T
    PROVE  \E f : IsKept(f, q, T)
<1> DEFINE z == Len(q)
           Good == {n \in 0 .. z : \E g : PartOf(q, T, S, n, g)}
<1>0. z \in Nat
  BY LenProperties
<1>1. 0 \in Good
  <2> DEFINE g == [n \in 0 .. 0 |-> <<>>]
  <2>1. g \in [0 .. 0 -> Seq(S)] /\ g[0] = <<>>
    BY EmptySeq
  <2> HIDE DEF g
  <2>2. PartOf(q, T, S, 0, g)
    BY <2>1 DEF PartOf
  <2> QED BY <1>0, <2>2
<1>2. ASSUME NEW n \in 0 .. z - 1, n \in Good PROVE n + 1 \in Good
  <2>1. PICK g : PartOf(q, T, S, n, g)
    BY <1>2
  <2>2. \E h : PartOf(q, T, S, n + 1, h)
    BY <2>1, PartGrows
  <2>3. n + 1 \in 0 .. z
    BY <1>0
  <2> QED BY <2>2, <2>3
<1>3. z \in Good
  <2> HIDE DEF Good, z
  <2>1. 0 .. z \subseteq Good
    BY <1>0, <1>1, <1>2, UpTo
  <2> QED BY <1>0, <2>1
<1>4. PICK g : PartOf(q, T, S, z, g)
  BY <1>3
<1>5. g = [n \in 0 .. z |-> IF n = 0 THEN <<>> ELSE Step(q, T, g, n)]
  <2>1. \A n \in 0 .. z : g[n] = IF n = 0 THEN <<>> ELSE Step(q, T, g, n)
    <3> TAKE n \in 0 .. z
    <3>1. n = 0 \/ n \in 1 .. z
      BY <1>0
    <3> QED BY <1>4, <3>1 DEF PartOf
  <2>2. g \in [0 .. z -> Seq(S)]
    BY <1>4 DEF PartOf
  <2> HIDE DEF z
  <2> QED BY <2>1, <2>2
<1> QED BY <1>5 DEF IsKept, Step

LEMMA KeptUnfolds ==
    ASSUME NEW S, NEW q \in Seq(S), NEW T
    PROVE  \E f : IsKept(f, q, T) /\ Kept(q, T) = f[Len(q)]
<1> DEFINE f == CHOOSE f : IsKept(f, q, T)
<1>1. IsKept(f, q, T)
  BY KeptExists
<1>2. Kept(q, T) = f[Len(q)]
  BY DEF Kept, IsKept
<1> QED BY <1>1, <1>2

Ascends(q) == \A m, n \in 1 .. Len(q) : m < n => q[m] < q[n]

\* What Kept(q, T) holds: the elements of q in T, in ascending order if q is.
LEMMA KeptFacts ==
    ASSUME NEW S \in SUBSET Nat, NEW q \in Seq(S), NEW T
    PROVE  /\ Kept(q, T) \in Seq(S)
           /\ Elements(Kept(q, T)) = Elements(q) \cap T
           /\ Ascends(q) => Ascends(Kept(q, T))
<1> DEFINE z == Len(q)
<1>1. PICK f : IsKept(f, q, T) /\ Kept(q, T) = f[z]
  BY KeptUnfolds
<1>2. /\ z \in Nat /\ f[0] = <<>>
      /\ \A n \in 1 .. z : f[n] = IF q[n] \in T THEN Append(f[n - 1], q[n]) ELSE f[n - 1]
      /\ \A n \in 1 .. z : q[n] \in S
  <2>1. z \in Nat /\ \A n \in 1 .. z : q[n] \in S
    BY LenProperties, ElementOfSeq
  <2>2. \A n \in 0 .. z : f[n] = IF n = 0 THEN <<>>
                               ELSE IF q[n] \in T THEN Append(f[n - 1], q[n])
                               ELSE f[n - 1]
    <3> HIDE DEF z
    <3> QED BY <1>1 DEF IsKept, z
  <2> QED BY <2>1, <2>2
<1> DEFINE First(n) == {q[k] : k \in 1 .. n}
           P(n) == /\ f[n] \in Seq(S)
                   /\ Elements(f[n]) = First(n) \cap T
                   /\ Ascends(q) => Ascends(f[n])
           Good == {n \in 0 .. z : P(n)}
<1>3. 0 \in Good
  <2>1. f[0] \in Seq(S) /\ Len(f[0]) = 0
    BY <1>2, EmptySeq
  <2>2. Elements(f[0]) = {} /\ First(0) = {} /\ Ascends(f[0])
    BY <2>1 DEF Elements, Ascends
  <2>3. P(0) /\ 0 \in 0 .. z
    BY <1>2, <2>1, <2>2
  <2> HIDE DEF P
  <2> QED BY <2>3
<1>4. ASSUME NEW n \in 0 .. z - 1, n \in Good PROVE n + 1 \in Good
  <2> DEFINE x == q[n + 1]
             g == f[n]
  <2>1. /\ g \in Seq(S) /\ Elements(g) = First(n) \cap T /\ (Ascends(q) => Ascends(g))
        /\ x \in S /\ n + 1 \in 1 .. z
    BY <1>2, <1>4
  <2>2. f[n + 1] = IF x \in T THEN Append(g, x) ELSE g
    BY <1>2, <2>1
  <2>3. First(n + 1) = First(n) \cup {x}
    <3>1. 1 .. n + 1 = 1 .. n \cup {n + 1}
      BY <1>2
    <3> QED BY <3>1
  <2>4. Ascends(q) => \A y \in First(n) : y < x
    <3> SUFFICES ASSUME Ascends(q), NEW k \in 1 .. n PROVE q[k] < q[n + 1]
      OBVIOUS
    <3>1. k \in 1 .. Len(q) /\ n + 1 \in 1 .. Len(q) /\ k < n + 1
      BY <1>2
    <3> QED BY <3>1 DEF Ascends
  <2> DEFINE a == First(n)
             b == First(n + 1)
             h == f[n + 1]
  <2> HIDE DEF x, g, First, a, b, h
  <2>5. CASE x \in T
    <3>1. /\ h = Append(g, x) /\ h \in Seq(S) /\ Len(h) = Len(g) + 1 /\ Len(g) \in Nat
          /\ \A k \in 1 .. Len(g) : h[k] = g[k]
          /\ h[Len(g) + 1] = x
      BY <2>1, <2>2, <2>5, AppendProperties, LenProperties DEF h
    <3>2. Elements(h) = Elements(g) \cup {x}
      <4>1. 1 .. Len(h) = 1 .. Len(g) \cup {Len(g) + 1}
        BY <3>1
      <4> QED BY <3>1, <4>1 DEF Elements
    <3>3. Ascends(q) => Ascends(h)
      <4> SUFFICES ASSUME Ascends(q), NEW i \in 1 .. Len(h), NEW j \in 1 .. Len(h), i < j
                   PROVE  h[i] < h[j]
        BY DEF Ascends
      <4>1. i \in 1 .. Len(g) /\ h[i] = g[i]
        BY <3>1
      <4>2. CASE j = Len(g) + 1
        <5>1. g[i] \in Elements(g)
          BY <4>1 DEF Elements
        <5>2. g[i] \in First(n)
          BY <2>1, <5>1
        <5> QED BY <2>4, <3>1, <4>1, <4>2, <5>2
      <4>3. CASE j # Len(g) + 1
        <5>1. j \in 1 .. Len(g)
          <6>1. Len(h) = Len(g) + 1 /\ Len(g) \in Nat
            BY <3>1
          <6> QED BY <4>3, <6>1
        <5>2. h[j] = g[j]
          BY <3>1, <5>1
        <5> QED BY <2>1, <4>1, <5>1, <5>2 DEF Ascends
      <4> QED BY <4>2, <4>3
    <3>4. Elements(h) = b \cap T
      BY <2>1, <2>3, <2>5, <3>2 DEF b
    <3>5. P(n + 1)
      BY <3>1, <3>3, <3>4 DEF h, b
    <3>6. n + 1 \in 0 .. z
      BY <1>2
    <3> HIDE DEF P
    <3> QED BY <3>5, <3>6
  <2>6. CASE x \notin T
    <3>1. h = g
      BY <2>2, <2>6 DEF h
    <3>2. Elements(h) = b \cap T
      BY <2>1, <2>3, <2>6, <3>1 DEF b
    <3>3. P(n + 1)
      BY <2>1, <3>1, <3>2 DEF h, b
    <3>4. n + 1 \in 0 .. z
      BY <1>2
    <3> HIDE DEF P
    <3> QED BY <3>3, <3>4
  <2> QED BY <2>5, <2>6
<1>5. z \in Good
  <2> HIDE DEF Good, z
  <2>1. 0 .. z \subseteq Good
    BY <1>2, <1>3, <1>4, UpTo
  <2> QED BY <1>2, <2>1
<1>6. First(z) = Elements(q)
  BY DEF Elements
<1> HIDE DEF First
<1> QED BY <1>1, <1>5, <1>6
-----------------------------------------------------------------------------
(* findLE *)

\* One call of the search between two places.
Middle(left, right) == left + ((right - left) \div 2)
Search(f, revs, target, left, right) ==
    IF left > right THEN 0
    ELSE IF revs[Middle(left, right)] > target THEN f[<<left, Middle(left, right) - 1>>]
    ELSE IF f[<<Middle(left, right) + 1, right>>] = 0 THEN revs[Middle(left, right)]
    ELSE f[<<Middle(left, right) + 1, right>>]

\* The function FindLE unfolds.
IsSearch(f, revs, target) ==
    f = [p \in (1 .. Len(revs) + 1) \X (0 .. Len(revs)) |->
            Search(f, revs, target, p[1], p[2])]

LEMMA MiddleBetween ==
    ASSUME NEW left \in Nat, NEW right \in Nat, left <= right
    PROVE  Middle(left, right) \in left .. right
BY DEF Middle

\* The search as far as intervals of n places.
Places(revs) == (1 .. Len(revs) + 1) \X (0 .. Len(revs))
SearchesTo(g, revs, target, n) ==
    /\ g \in [Places(revs) -> Nat]
    /\ \A left \in 1 .. Len(revs) + 1, right \in 0 .. Len(revs) :
          right - left + 1 <= n => g[<<left, right>>] = Search(g, revs, target, left, right)

LEMMA SearchTyped ==
    ASSUME NEW revs \in Seq(Nat), NEW target \in Int, NEW g \in [Places(revs) -> Nat],
           NEW left \in 1 .. Len(revs) + 1, NEW right \in 0 .. Len(revs)
    PROVE  Search(g, revs, target, left, right) \in Nat
<1>0. Len(revs) \in Nat
  BY LenProperties
<1>1. CASE left > right
  BY <1>1 DEF Search
<1>2. CASE left <= right
  <2> DEFINE mid == Middle(left, right)
  <2>1. mid \in left .. right
    BY <1>0, <1>2, MiddleBetween
  <2> HIDE DEF mid
  <2>2. mid - 1 \in 0 .. Len(revs) /\ mid + 1 \in 1 .. Len(revs) + 1 /\ mid \in 1 .. Len(revs)
    BY <1>0, <2>1
  <2>3. revs[mid] \in Nat
    BY <2>2, ElementOfSeq
  <2>4. g[<<left, mid - 1>>] \in Nat /\ g[<<mid + 1, right>>] \in Nat
    BY <2>2 DEF Places
  <2> QED BY <2>3, <2>4 DEF Search, mid
<1> QED BY <1>0, <1>1, <1>2

LEMMA SearchExists ==
    ASSUME NEW revs \in Seq(Nat), NEW target \in Int
    PROVE  \E f : IsSearch(f, revs, target) /\ f \in [Places(revs) -> Nat]
<1> DEFINE z == Len(revs)
           Good == {n \in 0 .. z : \E g : SearchesTo(g, revs, target, n)}
<1>0. z \in Nat
  BY LenProperties
<1>1. 0 \in Good
  <2> DEFINE g == [p \in Places(revs) |-> 0]
  <2>1. g \in [Places(revs) -> Nat]
    OBVIOUS
  <2>2. ASSUME NEW l \in 1 .. z + 1, NEW r \in 0 .. z, r - l + 1 <= 0
        PROVE  g[<<l, r>>] = Search(g, revs, target, l, r)
    <3>1. l > r /\ <<l, r>> \in Places(revs)
      BY <1>0, <2>2 DEF Places
    <3> QED BY <3>1 DEF Search
  <2> HIDE DEF g
  <2>3. SearchesTo(g, revs, target, 0)
    BY <2>1, <2>2 DEF SearchesTo
  <2> QED BY <1>0, <2>3
<1>2. ASSUME NEW n \in 0 .. z - 1, n \in Good PROVE n + 1 \in Good
  <2>1. PICK g : SearchesTo(g, revs, target, n)
    BY <1>2
  <2>2. g \in [Places(revs) -> Nat]
    BY <2>1 DEF SearchesTo
  <2> DEFINE Value(l, r) == Search(g, revs, target, l, r)
             h == [p \in Places(revs) |->
                      IF p[2] - p[1] + 1 <= n THEN g[p]
                      ELSE IF p[2] - p[1] + 1 = n + 1 THEN Value(p[1], p[2])
                      ELSE 0]
  <2>3. ASSUME NEW l \in 1 .. z + 1, NEW r \in 0 .. z
        PROVE  /\ r - l + 1 <= n => h[<<l, r>>] = g[<<l, r>>]
               /\ r - l + 1 = n + 1 => h[<<l, r>>] = Value(l, r)
    <3>1. <<l, r>> \in Places(revs) /\ <<l, r>>[1] = l /\ <<l, r>>[2] = r
      BY DEF Places
    <3>2. n \in Nat /\ l \in Int /\ r \in Int
      BY <1>0
    <3> HIDE DEF Value
    <3> QED BY <3>1, <3>2
  <2>4. h \in [Places(revs) -> Nat]
    <3>1. ASSUME NEW p \in Places(revs) PROVE h[p] \in Nat
      <4>1. PICK l \in 1 .. z + 1, r \in 0 .. z : p = <<l, r>>
        BY DEF Places
      <4>2. g[p] \in Nat /\ p[1] = l /\ p[2] = r
        BY <2>2, <4>1
      <4>3. r - l + 1 = n + 1 => Value(l, r) \in Nat
        <5>1. Search(g, revs, target, l, r) \in Nat
          BY <2>2, SearchTyped
        <5> QED BY <5>1
      <4> HIDE DEF Value
      <4> QED BY <4>2, <4>3
    <3>2. h = [p \in Places(revs) |-> h[p]]
      OBVIOUS
    <3> HIDE DEF h
    <3> QED BY <3>1, <3>2
  <2> HIDE DEF h
  <2>5. ASSUME NEW l \in 1 .. z + 1, NEW r \in 0 .. z, r - l + 1 <= n + 1
        PROVE  h[<<l, r>>] = Search(h, revs, target, l, r)
    <3>1. Search(h, revs, target, l, r) = Value(l, r)
      <4>1. \A i \in 1 .. Len(revs) + 1, j \in 0 .. Len(revs) :
               j - i + 1 <= n => h[<<i, j>>] = g[<<i, j>>]
        BY <2>3
      <4>2. /\ n \in Nat /\ l \in 1 .. Len(revs) + 1 /\ r \in 0 .. Len(revs)
            /\ r - l + 1 <= n + 1
        BY <1>0, <2>5
      <4>3. Search(h, revs, target, l, r) = Search(g, revs, target, l, r)
        <5> HIDE DEF z, Good, Value
        <5> DEFINE mid == Middle(l, r)
        <5>1. CASE l > r
          BY <5>1 DEF Search
        <5>2. CASE l <= r
          <6>1. mid \in l .. r /\ l \in Nat /\ r \in Nat
            BY <4>2, <5>2, MiddleBetween, LenProperties
          <6> HIDE DEF mid
          <6>2. /\ mid - 1 \in 0 .. Len(revs) /\ mid + 1 \in 1 .. Len(revs) + 1
                /\ (mid - 1) - l + 1 <= n /\ r - (mid + 1) + 1 <= n
            BY <4>2, <6>1, LenProperties
          <6>3. h[<<l, mid - 1>>] = g[<<l, mid - 1>>] /\ h[<<mid + 1, r>>] = g[<<mid + 1, r>>]
            BY <4>1, <4>2, <6>2
          <6> QED BY <6>3 DEF Search, mid
        <5>3. l > r \/ l <= r
          BY <4>2
        <5> QED BY <5>1, <5>2, <5>3
      <4> QED BY <4>3
    <3>2. CASE r - l + 1 = n + 1
      BY <2>3, <3>1, <3>2
    <3>3. CASE r - l + 1 <= n
      <4>1. g[<<l, r>>] = Value(l, r)
        BY <2>1, <3>3 DEF SearchesTo
      <4> QED BY <2>3, <3>1, <3>3, <4>1
    <3>4. r - l + 1 = n + 1 \/ r - l + 1 <= n
      BY <1>0, <2>5
    <3> QED BY <3>2, <3>3, <3>4
  <2>6. SearchesTo(h, revs, target, n + 1)
    BY <2>4, <2>5 DEF SearchesTo
  <2> QED BY <1>0, <2>6
<1>3. z \in Good
  <2> HIDE DEF Good, z
  <2>1. 0 .. z \subseteq Good
    BY <1>0, <1>1, <1>2, UpTo
  <2> QED BY <1>0, <2>1
<1>4. PICK f : SearchesTo(f, revs, target, z)
  BY <1>3
<1>5. ASSUME NEW l \in 1 .. z + 1, NEW r \in 0 .. z
      PROVE  f[<<l, r>>] = Search(f, revs, target, l, r)
  BY <1>0, <1>4, r - l + 1 <= z DEF SearchesTo
<1>6. f \in [Places(revs) -> Nat]
  BY <1>4 DEF SearchesTo
<1>7. IsSearch(f, revs, target)
  <2> HIDE DEF z
  <2> QED BY <1>5, <1>6 DEF IsSearch, Places, z
<1> QED BY <1>6, <1>7

LEMMA FindLEUnfolds ==
    ASSUME NEW revs \in Seq(Nat), NEW target \in Int
    PROVE  \E f : /\ IsSearch(f, revs, target)
                  /\ FindLE(revs, target) = f[<<1, Len(revs)>>]
<1> DEFINE f == CHOOSE f : IsSearch(f, revs, target)
<1>1. IsSearch(f, revs, target)
  BY SearchExists
<1>2. FindLE(revs, target) = f[<<1, Len(revs)>>]
  BY DEF FindLE, IsSearch, Search, Middle
<1> QED BY <1>1, <1>2

\* v is the last of the revisions from place l to r that is not beyond target, 0 if all are.
IsLastUpTo(v, revs, target, l, r) ==
    \/ v = 0 /\ \A k \in l .. r : revs[k] > target
    \/ \E k \in l .. r :
          v = revs[k] /\ v <= target /\ \A j \in l .. r : revs[j] <= target => revs[j] <= v

\* One call of the search is right if the calls it makes are.
LEMMA SearchRight ==
    ASSUME NEW revs, NEW target \in Int, NEW l \in Nat, NEW r \in Nat, NEW mid \in Nat,
           l <= mid, mid <= r,
           \A k \in l .. r : revs[k] \in Nat /\ revs[k] # 0,
           \A j, k \in l .. r : j < k => revs[j] < revs[k],
           NEW below, IsLastUpTo(below, revs, target, l, mid - 1),
           NEW above, IsLastUpTo(above, revs, target, mid + 1, r),
           NEW v, v = IF revs[mid] > target THEN below ELSE IF above = 0 THEN revs[mid] ELSE above
    PROVE  IsLastUpTo(v, revs, target, l, r)
<1>1. /\ \A k \in l .. r : k \in Nat /\ (k \in l .. mid - 1 \/ k = mid \/ k \in mid + 1 .. r)
      /\ \A k \in l .. mid - 1 : k \in l .. r /\ k < mid
      /\ \A k \in mid + 1 .. r : k \in l .. r /\ mid < k
      /\ mid \in l .. r
  OBVIOUS
<1>2. CASE revs[mid] > target
  <2>1. \A k \in mid + 1 .. r : revs[k] > target
    BY <1>1, <1>2
  <2>2. v = below
    BY <1>2
  <2>3. CASE v = 0 /\ \A k \in l .. mid - 1 : revs[k] > target
    BY <1>1, <1>2, <2>1, <2>3 DEF IsLastUpTo
  <2>4. ASSUME NEW k \in l .. mid - 1, v = revs[k], v <= target,
               \A j \in l .. mid - 1 : revs[j] <= target => revs[j] <= v
        PROVE  IsLastUpTo(v, revs, target, l, r)
    <3>1. k \in l .. r
      BY <1>1
    <3>2. \A j \in l .. r : revs[j] <= target => revs[j] <= v
      BY <1>1, <1>2, <2>1, <2>4
    <3> QED BY <2>4, <3>1, <3>2 DEF IsLastUpTo
  <2> QED BY <2>2, <2>3, <2>4 DEF IsLastUpTo
<1>3. CASE ~(revs[mid] > target)
  <2>1. revs[mid] <= target /\ v = IF above = 0 THEN revs[mid] ELSE above
    BY <1>1, <1>3
  <2>2. CASE above = 0 /\ \A k \in mid + 1 .. r : revs[k] > target
    <3>1. \A j \in l .. r : revs[j] <= target => revs[j] <= revs[mid]
      BY <1>1, <2>2
    <3> QED BY <1>1, <2>1, <2>2, <3>1 DEF IsLastUpTo
  <2>3. ASSUME NEW k \in mid + 1 .. r, above = revs[k], above <= target,
               \A j \in mid + 1 .. r : revs[j] <= target => revs[j] <= above
        PROVE  IsLastUpTo(v, revs, target, l, r)
    <3>1. k \in l .. r /\ mid < k
      BY <1>1
    <3>2. above # 0 /\ v = above
      BY <2>1, <2>3, <3>1
    <3>3. \A j \in l .. r : revs[j] <= target => revs[j] <= above
      <4> TAKE j \in l .. r
      <4>1. CASE j \in mid + 1 .. r
        BY <2>3, <4>1
      <4>2. CASE j \notin mid + 1 .. r
        <5>1. j < k
          BY <1>1, <3>1, <4>2
        <5> QED BY <2>3, <3>1, <5>1
      <4> QED BY <4>1, <4>2
    <3> QED BY <2>3, <3>1, <3>2, <3>3 DEF IsLastUpTo
  <2> QED BY <2>2, <2>3 DEF IsLastUpTo
<1> QED BY <1>2, <1>3

\* findLE (mvcc.go) returns the last revision of an ascending list that is not beyond the
\* target, and 0 if there is none, whatever the list and the target are.
THEOREM FindLECorrect ==
    ASSUME NEW revs \in Seq(Nat \ {0}), Ascends(revs), NEW target \in Int
    PROVE  IsLastUpTo(FindLE(revs, target), revs, target, 1, Len(revs))
<1> DEFINE z == Len(revs)
<1>0. z \in Nat /\ revs \in Seq(Nat)
  BY LenProperties, SeqMonotonic, Nat \ {0} \subseteq Nat
<1>1. PICK f : IsSearch(f, revs, target) /\ FindLE(revs, target) = f[<<1, z>>]
  BY <1>0, FindLEUnfolds
<1>2. ASSUME NEW l \in 1 .. z + 1, NEW r \in 0 .. z
      PROVE  f[<<l, r>>] = Search(f, revs, target, l, r)
  BY <1>1 DEF IsSearch
<1> DEFINE Right(l, r) == IsLastUpTo(f[<<l, r>>], revs, target, l, r)
           Good == {n \in 0 .. z : \A l \in 1 .. z + 1, r \in 0 .. z :
                                      r - l + 1 <= n => Right(l, r)}
<1>3. 0 \in Good
  <2>1. ASSUME NEW l \in 1 .. z + 1, NEW r \in 0 .. z, r - l + 1 <= 0
        PROVE  Right(l, r)
    <3>1. l > r /\ l .. r = {}
      BY <1>0, <2>1
    <3>2. f[<<l, r>>] = 0
      BY <1>2, <3>1 DEF Search
    <3> QED BY <3>1, <3>2 DEF IsLastUpTo
  <2> HIDE DEF Right
  <2> QED BY <1>0, <2>1
<1>4. ASSUME NEW n \in 0 .. z - 1, n \in Good PROVE n + 1 \in Good
  <2>1. ASSUME NEW l \in 1 .. z + 1, NEW r \in 0 .. z, r - l + 1 <= n + 1
        PROVE  Right(l, r)
    <3>1. CASE l > r
      <4>1. f[<<l, r>>] = 0
        BY <1>2, <3>1 DEF Search
      <4>2. l .. r = {}
        BY <1>0, <3>1
      <4> QED BY <4>1, <4>2 DEF IsLastUpTo
    <3>2. CASE l <= r
      <4> DEFINE mid == Middle(l, r)
      <4>1. mid \in l .. r
        BY <1>0, <3>2, MiddleBetween
      <4>2. f[<<l, r>>] = IF revs[mid] > target THEN f[<<l, mid - 1>>]
                          ELSE IF f[<<mid + 1, r>>] = 0 THEN revs[mid]
                          ELSE f[<<mid + 1, r>>]
        BY <1>0, <1>2, <3>2 DEF Search
      <4> HIDE DEF mid
      <4>3. /\ mid - 1 \in 0 .. z /\ mid + 1 \in 1 .. z + 1
            /\ (mid - 1) - l + 1 <= n /\ r - (mid + 1) + 1 <= n
        BY <1>0, <2>1, <4>1
      <4>4. Right(l, mid - 1) /\ Right(mid + 1, r)
        <5> HIDE DEF Right
        <5> QED BY <1>4, <4>3
      <4>5. /\ \A k \in l .. r : revs[k] \in Nat /\ revs[k] # 0
            /\ \A j, k \in l .. r : j < k => revs[j] < revs[k]
        <5>1. \A k \in l .. r : k \in 1 .. Len(revs)
          BY <1>0
        <5> QED BY <5>1, ElementOfSeq DEF Ascends
      <4>6. l \in Nat /\ r \in Nat /\ mid \in Nat /\ l <= mid /\ mid <= r
        BY <1>0, <4>1
      <4> DEFINE below == f[<<l, mid - 1>>]
                 above == f[<<mid + 1, r>>]
                 v == f[<<l, r>>]
      <4>7. /\ v = IF revs[mid] > target THEN below ELSE IF above = 0 THEN revs[mid] ELSE above
            /\ IsLastUpTo(below, revs, target, l, mid - 1)
            /\ IsLastUpTo(above, revs, target, mid + 1, r)
        BY <4>2, <4>4
      <4>8. IsLastUpTo(v, revs, target, l, r)
        <5> HIDE DEF below, above, v
        <5> QED BY <4>5, <4>6, <4>7, SearchRight
      <4> QED BY <4>8
    <3> QED BY <1>0, <3>1, <3>2
  <2> HIDE DEF Right
  <2> QED BY <1>0, <2>1
<1>5. z \in Good
  <2> HIDE DEF Good, z
  <2>1. 0 .. z \subseteq Good
    BY <1>0, <1>3, <1>4, UpTo
  <2> QED BY <1>0, <2>1
<1>6. Right(1, z)
  <2> HIDE DEF Right
  <2> QED BY <1>0, <1>5, 1 \in 1 .. z + 1, z \in 0 .. z, z - 1 + 1 <= z
<1> QED BY <1>1, <1>6

-----------------------------------------------------------------------------
(* The store *)

\* A record with the fields of a store.
IsStore(s) ==
    s \in [currentRev : {s.currentRev}, latest : {s.latest}, history : {s.history},
           revisions : {s.revisions}, compactrev : {s.compactrev}, disk : {s.disk}]

\* A store whose indexes know every version on the disk.
Indexed(s) ==
    /\ IsStore(s) /\ s.currentRev \in Nat /\ DOMAIN s.history = Key
    /\ \A k \in Key : /\ s.history[k] \in Seq(Nat \ {0}) /\ Ascends(s.history[k])
                      /\ \A v \in Elements(s.history[k]) : v <= s.currentRev
    /\ \A d \in s.disk : d.key \in Key /\ d.version \in Elements(s.history[d.key])

LEMMA NewIndexed == Indexed(NewStore) /\ NewStore.currentRev = 0 /\ NewStore.disk = {}
<1> DEFINE s == NewStore
<1>1. <<>> \in Seq(Nat \ {0}) /\ Ascends(<<>>) /\ Elements(<<>>) = {}
  BY EmptySeq DEF Ascends, Elements
<1>2. /\ s.currentRev = 0 /\ s.disk = {} /\ s.history = [k \in Key |-> <<>>]
      /\ IsStore(s)
  BY DEF NewStore, IsStore
<1> HIDE DEF s
<1>3. DOMAIN s.history = Key /\ \A k \in Key : s.history[k] = <<>>
  BY <1>2
<1>4. Indexed(s)
  BY <1>1, <1>2, <1>3 DEF Indexed
<1> QED BY <1>2, <1>4 DEF s

\* A list that a greater revision is appended to.
LEMMA AppendAscends ==
    ASSUME NEW q \in Seq(Nat \ {0}), Ascends(q), NEW x \in Nat \ {0},
           \A v \in Elements(q) : v < x
    PROVE  /\ Append(q, x) \in Seq(Nat \ {0}) /\ Ascends(Append(q, x))
           /\ Elements(Append(q, x)) = Elements(q) \cup {x}
<1>0. Len(q) \in Nat /\ \A k \in 1 .. Len(q) : q[k] \in Nat
  BY LenProperties, ElementOfSeq
<1> DEFINE h == Append(q, x)
<1>1. /\ h \in Seq(Nat \ {0}) /\ Len(h) = Len(q) + 1
      /\ \A k \in 1 .. Len(q) : h[k] = q[k]
      /\ h[Len(q) + 1] = x
  BY AppendProperties
<1> HIDE DEF h
<1>2. 1 .. Len(h) = 1 .. Len(q) \cup {Len(q) + 1}
  BY <1>0, <1>1
<1>3. Elements(h) = Elements(q) \cup {x}
  BY <1>1, <1>2 DEF Elements
<1>4. \A k \in 1 .. Len(q) : q[k] < x
  BY DEF Elements
<1>5. Ascends(h)
  <2> SUFFICES ASSUME NEW i \in 1 .. Len(h), NEW j \in 1 .. Len(h), i < j PROVE h[i] < h[j]
    BY DEF Ascends
  <2>1. i \in 1 .. Len(q) /\ h[i] = q[i]
    BY <1>0, <1>1
  <2>2. CASE j \in 1 .. Len(q)
    BY <1>1, <2>1, <2>2 DEF Ascends
  <2>3. CASE j = Len(q) + 1
    BY <1>1, <1>4, <2>1, <2>3
  <2> QED BY <1>2, <2>2, <2>3
<1> QED BY <1>1, <1>3, <1>5 DEF h

\* Put and Delete take a revision of their own.
LEMMA WrittenIndexed ==
    ASSUME NEW s, Indexed(s), NEW key \in Key, NEW writer, NEW deleted
    PROVE  LET t == Written(s, key, writer, deleted)
           IN  /\ Indexed(t) /\ t.currentRev = s.currentRev + 1
               /\ \A d \in t.disk : d \in s.disk \/ d.version = t.currentRev
<1> DEFINE t == Written(s, key, writer, deleted)
           rev == s.currentRev + 1
           entry == [key |-> key, version |-> rev, writer |-> writer, deleted |-> deleted]
<1>1. /\ IsStore(s) /\ s.currentRev \in Nat /\ DOMAIN s.history = Key
      /\ rev \in Nat \ {0} /\ entry.key = key /\ entry.version = rev
  BY DEF Indexed
<1>2. t = [s EXCEPT !.currentRev = rev, !.disk = Stored(@, entry), !.latest[key] = rev,
                    !.history[key] = Append(@, rev),
                    !.revisions = Append(@, [key |-> key, revision |-> rev])]
  BY DEF Written
<1> HIDE DEF t, entry
<1>3. /\ t.currentRev = rev /\ t.disk = Stored(s.disk, entry) /\ IsStore(t)
      /\ t.history = [s.history EXCEPT ![key] = Append(@, rev)]
  BY <1>1, <1>2 DEF IsStore
<1> HIDE DEF rev
<1>4. t.disk \subseteq s.disk \cup {entry}
  BY <1>3 DEF Stored
<1>5. /\ DOMAIN t.history = Key
      /\ \A k \in Key : t.history[k] = IF k = key THEN Append(s.history[key], rev) ELSE s.history[k]
  BY <1>1, <1>3
<1>6. \A k \in Key : \A v \in Elements(s.history[k]) : v \in Nat /\ v < rev
  <2> TAKE k \in Key
  <2> TAKE v \in Elements(s.history[k])
  <2>1. v <= s.currentRev /\ s.history[k] \in Seq(Nat \ {0})
    BY DEF Indexed
  <2>2. v \in Nat
    BY <2>1, ElementOfSeq DEF Elements
  <2> QED BY <1>1, <2>1, <2>2 DEF rev
<1>7. ASSUME NEW k \in Key
      PROVE  /\ t.history[k] \in Seq(Nat \ {0}) /\ Ascends(t.history[k])
             /\ Elements(t.history[k]) =
                   IF k = key THEN Elements(s.history[k]) \cup {rev} ELSE Elements(s.history[k])
  <2>1. s.history[k] \in Seq(Nat \ {0}) /\ Ascends(s.history[k])
    BY DEF Indexed
  <2>2. CASE k = key
    <3> DEFINE q == s.history[k]
    <3>1. q \in Seq(Nat \ {0}) /\ Ascends(q) /\ \A v \in Elements(q) : v < rev
      BY <1>6, <2>1
    <3> HIDE DEF q
    <3>2. /\ Append(q, rev) \in Seq(Nat \ {0}) /\ Ascends(Append(q, rev))
          /\ Elements(Append(q, rev)) = Elements(q) \cup {rev}
      BY <1>1, <3>1, AppendAscends
    <3> QED BY <1>5, <2>2, <3>2 DEF q
  <2>3. CASE k # key
    BY <1>5, <2>1, <2>3
  <2> QED BY <2>2, <2>3
<1>8. \A k \in Key : \A v \in Elements(t.history[k]) : v <= t.currentRev
  <2> TAKE k \in Key
  <2> TAKE v \in Elements(t.history[k])
  <2>1. v = rev \/ v \in Elements(s.history[k])
    BY <1>7
  <2>2. CASE v \in Elements(s.history[k])
    <3>1. v \in Nat /\ v < rev /\ t.currentRev = rev /\ rev \in Nat
      BY <1>1, <1>3, <1>6, <2>2
    <3> QED BY <3>1
  <2> QED BY <1>1, <1>3, <2>1, <2>2
<1>9. \A d \in t.disk : d.key \in Key /\ d.version \in Elements(t.history[d.key])
  <2> TAKE d \in t.disk
  <2>1. CASE d = entry
    BY <1>1, <1>7, <2>1
  <2>2. CASE d \in s.disk
    BY <1>7, <2>2 DEF Indexed
  <2> QED BY <1>4, <2>1, <2>2
<1>10. Indexed(t)
  <2>1. IsStore(t) /\ t.currentRev \in Nat /\ DOMAIN t.history = Key
    BY <1>1, <1>3, <1>5
  <2>2. \A k \in Key : t.history[k] \in Seq(Nat \ {0}) /\ Ascends(t.history[k])
    BY <1>7
  <2> QED BY <1>8, <1>9, <2>1, <2>2 DEF Indexed
<1> QED BY <1>1, <1>3, <1>4, <1>10 DEF t, rev

\* A store that lost the superseded versions of some keys.
Compacts(s, t, c, keys, index) ==
    t = [s EXCEPT
            !.history    = [k \in Key |->
                Kept(@[k], {v \in Elements(@[k]) : ~(k \in keys /\ Superseded(s, k, v, c))})],
            !.disk       = {d \in @ : ~(d.key \in keys /\ Superseded(s, d.key, d.version, c))},
            !.revisions  = SubSeq(@, index + 1, Len(@)),
            !.compactrev = c]

\* Compact takes versions out of the disk and out of the history alike, whichever keys it
\* takes for changed.
LEMMA CompactsIndexed ==
    ASSUME NEW s, Indexed(s), NEW t, NEW c, NEW keys, NEW index, Compacts(s, t, c, keys, index)
    PROVE  Indexed(t) /\ t.currentRev = s.currentRev /\ t.disk \subseteq s.disk
<1> DEFINE Drop(k, v) == k \in keys /\ Superseded(s, k, v, c)
           Left(k) == {v \in Elements(s.history[k]) : ~Drop(k, v)}
<1>2. t = [s EXCEPT !.history    = [k \in Key |-> Kept(s.history[k], Left(k))],
                    !.disk       = {d \in s.disk : ~Drop(d.key, d.version)},
                    !.revisions  = SubSeq(@, index + 1, Len(@)),
                    !.compactrev = c]
  BY DEF Compacts
<1> HIDE DEF Drop
<1>3. /\ t.currentRev = s.currentRev /\ IsStore(t)
      /\ t.history = [k \in Key |-> Kept(s.history[k], Left(k))]
      /\ t.disk = {d \in s.disk : ~Drop(d.key, d.version)}
  <2> DEFINE h == [k \in Key |-> Kept(s.history[k], Left(k))]
             e == {d \in s.disk : ~Drop(d.key, d.version)}
  <2>1. IsStore(s) /\ t = [s EXCEPT !.history = h, !.disk = e,
                                    !.revisions = SubSeq(@, index + 1, Len(@)), !.compactrev = c]
    BY <1>2 DEF Indexed
  <2> HIDE DEF h, e
  <2>2. t.currentRev = s.currentRev /\ IsStore(t) /\ t.history = h /\ t.disk = e
    BY <2>1 DEF IsStore
  <2> QED BY <2>2 DEF h, e
<1>4. ASSUME NEW k \in Key
      PROVE  /\ t.history[k] \in Seq(Nat \ {0}) /\ Ascends(t.history[k])
             /\ Elements(t.history[k]) = Left(k)
  <2> DEFINE q == s.history[k]
             T == Left(k)
  <2>1. q \in Seq(Nat \ {0}) /\ Ascends(q)
    BY DEF Indexed
  <2>2. Elements(q) \cap T = T
    OBVIOUS
  <2>3. t.history[k] = Kept(q, T)
    BY <1>3
  <2> HIDE DEF q, T
  <2>4. /\ Kept(q, T) \in Seq(Nat \ {0}) /\ Ascends(Kept(q, T))
        /\ Elements(Kept(q, T)) = Elements(q) \cap T
    BY <2>1, KeptFacts, Nat \ {0} \in SUBSET Nat
  <2> QED BY <2>2, <2>3, <2>4 DEF T
<1>5. DOMAIN t.history = Key
  BY <1>3
<1>6. \A d \in t.disk : d.key \in Key /\ d.version \in Elements(t.history[d.key])
  BY <1>3, <1>4 DEF Indexed
<1>7. \A k \in Key : \A v \in Elements(t.history[k]) : v <= t.currentRev
  BY <1>3, <1>4 DEF Indexed
<1>8. t.currentRev \in Nat
  BY <1>3 DEF Indexed
<1>9. Indexed(t)
  BY <1>3, <1>4, <1>5, <1>6, <1>7, <1>8 DEF Indexed
<1> QED BY <1>3, <1>9

\* Get at its own revision finds a version that is on the disk.
LEMMA GetFinds ==
    ASSUME NEW s, Indexed(s), NEW d \in s.disk, ~d.deleted
    PROVE  d \in Get(s, d.key, d.version)
<1> DEFINE revs == s.history[d.key]
           v == d.version
           w == FindLE(revs, v)
<1>1. revs \in Seq(Nat \ {0}) /\ Ascends(revs) /\ v \in Elements(revs)
  BY DEF Indexed
<1>2. PICK j \in 1 .. Len(revs) : v = revs[j]
  BY <1>1 DEF Elements
<1>3. v \in Nat \ {0} /\ v \in Int
  BY <1>1, <1>2, ElementOfSeq
<1> HIDE DEF revs, v
<1>4. IsLastUpTo(w, revs, v, 1, Len(revs))
  BY <1>1, <1>3, FindLECorrect
<1> HIDE DEF w
<1>5. PICK k \in 1 .. Len(revs) : w = revs[k] /\ w <= v /\ revs[j] <= w
  <2>1. revs[j] <= v /\ ~(revs[j] > v)
    BY <1>2, <1>3
  <2> QED BY <1>2, <1>4, <2>1 DEF IsLastUpTo
<1>6. w \in Nat
  BY <1>1, <1>5, ElementOfSeq
<1>7. w = v
  BY <1>2, <1>3, <1>5, <1>6
<1> QED BY <1>3, <1>7 DEF Get, w, v, revs

-----------------------------------------------------------------------------
(* A set of numbers in ascending order *)

\* How many elements are below x.
Below(S, x) == {y \in S : y < x}

LEMMA BelowFacts ==
    ASSUME NEW S \in SUBSET Nat, IsFiniteSet(S)
    PROVE  /\ \A x \in S : Cardinality(Below(S, x)) \in 0 .. Cardinality(S) - 1
           /\ \A x, y \in S : x < y => Cardinality(Below(S, x)) < Cardinality(Below(S, y))
<1>1. Cardinality(S) \in Nat
  BY FS_CardinalityType
<1>2. ASSUME NEW x \in S PROVE Cardinality(Below(S, x)) \in 0 .. Cardinality(S) - 1
  <2>1. Below(S, x) \in SUBSET S /\ x \notin Below(S, x)
    BY DEF Below
  <2>2. /\ IsFiniteSet(Below(S, x)) /\ Cardinality(Below(S, x)) <= Cardinality(S)
        /\ Cardinality(S) = Cardinality(Below(S, x)) => S = Below(S, x)
    BY <2>1, FS_Subset
  <2>3. Cardinality(Below(S, x)) \in Nat
    BY <2>2, FS_CardinalityType
  <2> QED BY <1>1, <2>1, <2>2, <2>3
<1>3. ASSUME NEW x \in S, NEW y \in S, x < y
      PROVE  Cardinality(Below(S, x)) < Cardinality(Below(S, y))
  <2> DEFINE A == Below(S, x)
             B == Below(S, y)
  <2>1. A \in SUBSET B /\ x \in B /\ x \notin A /\ B \in SUBSET S
    <3>1. x \in Nat /\ y \in Nat /\ \A e \in S : e \in Nat
      OBVIOUS
    <3>2. \A e \in S : e < x => e < y
      BY <1>3, <3>1
    <3>3. x \in B /\ x \notin A
      BY <1>3, <3>1 DEF Below
    <3>4. A \subseteq B /\ B \subseteq S
      BY <3>2 DEF Below
    <3> QED BY <3>3, <3>4
  <2>2. IsFiniteSet(B)
    BY <2>1, FS_Subset
  <2> HIDE DEF A, B
  <2>3. /\ IsFiniteSet(A) /\ Cardinality(A) <= Cardinality(B)
        /\ Cardinality(B) = Cardinality(A) => B = A
    BY <2>1, <2>2, FS_Subset
  <2>4. Cardinality(A) \in Nat /\ Cardinality(B) \in Nat
    BY <2>2, <2>3, FS_CardinalityType
  <2> QED BY <2>1, <2>3, <2>4 DEF A, B
<1> QED BY <1>2, <1>3

LEMMA AscendingFacts ==
    ASSUME NEW S \in SUBSET Nat, IsFiniteSet(S)
    PROVE  /\ Ascending(S) \in Seq(S) /\ Len(Ascending(S)) = Cardinality(S)
           /\ Ascends(Ascending(S)) /\ Elements(Ascending(S)) = S
<1> DEFINE z == Cardinality(S)
           T == 0 .. z - 1
           r(x) == Cardinality(Below(S, x))
           f == [x \in S |-> r(x)]
           a == Ascending(S)
<1>1. z \in Nat
  BY FS_CardinalityType
<1>2. /\ \A x \in S : r(x) \in T
      /\ \A x, y \in S : x < y => r(x) < r(y)
  BY BelowFacts
<1>3. \A x, y \in S : r(x) = r(y) => x = y
  <2> SUFFICES ASSUME NEW x \in S, NEW y \in S, x # y PROVE r(x) # r(y)
    OBVIOUS
  <2>1. x < y \/ y < x
    OBVIOUS
  <2>2. r(x) \in Nat /\ r(y) \in Nat
    BY <1>1, <1>2
  <2> HIDE DEF r
  <2> QED BY <1>2, <2>1, <2>2
<1> HIDE DEF r
<1>4. f \in Injection(S, T)
  <2>1. f \in [S -> T]
    BY <1>2
  <2>2. IsInjective(f)
    BY <1>3 DEF IsInjective
  <2> QED BY <2>1, <2>2 DEF Injection
<1>5. IsFiniteSet(T) /\ Cardinality(T) = z
  <2>1. IsFiniteSet(0 .. z - 1)
        /\ Cardinality(0 .. z - 1) = IF 0 > z - 1 THEN 0 ELSE z - 1 - 0 + 1
    BY <1>1, FS_Interval
  <2> QED BY <1>1, <2>1
<1>6. f \in Surjection(S, T)
  <2> HIDE DEF f
  <2>1. Cardinality(S) = Cardinality(T)
    BY <1>5
  <2> HIDE DEF T, z
  <2> QED BY <1>4, <1>5, <2>1, FS_Injection
<1>7. \A n \in 1 .. z : \E x \in S : r(x) = n - 1
  <2> SUFFICES ASSUME NEW n \in 1 .. z PROVE \E x \in S : r(x) = n - 1
    OBVIOUS
  <2>1. n - 1 \in T
    BY <1>1
  <2> HIDE DEF T
  <2>2. PICK x \in S : f[x] = n - 1
    BY <1>6, <2>1 DEF Surjection
  <2> QED BY <2>2
<1>8. a = [n \in 1 .. z |-> CHOOSE x \in S : r(x) = n - 1]
  BY DEF Ascending, r, Below
<1>9. \A n \in 1 .. z : a[n] \in S /\ r(a[n]) = n - 1
  <2> TAKE n \in 1 .. z
  <2>1. a[n] = CHOOSE x \in S : r(x) = n - 1
    BY <1>8
  <2>2. \E x \in S : r(x) = n - 1
    BY <1>7
  <2> QED BY <2>1, <2>2
<1>10. a \in [1 .. z -> S]
  BY <1>8, <1>9
<1> HIDE DEF a
<1>11. a \in Seq(S) /\ Len(a) = z
  <2> HIDE DEF z
  <2>1. a \in Seq(S)
    BY <1>1, <1>10, SeqDef
  <2> QED BY <1>1, <1>10, <2>1, LenProperties
<1>12. Ascends(a)
  <2> SUFFICES ASSUME NEW m \in 1 .. z, NEW n \in 1 .. z, m < n PROVE a[m] < a[n]
    BY <1>11 DEF Ascends
  <2>1. a[m] \in S /\ a[n] \in S /\ r(a[m]) = m - 1 /\ r(a[n]) = n - 1
    BY <1>9
  <2> DEFINE x == a[m]
             y == a[n]
  <2>2. x \in S /\ y \in S /\ r(x) = m - 1 /\ r(y) = n - 1 /\ x \in Nat /\ y \in Nat
    BY <2>1
  <2> HIDE DEF x, y
  <2>3. y < x => r(y) < r(x)
    BY <1>2, <2>2
  <2>4. ~ (y < x) /\ y # x
    BY <1>1, <2>2, <2>3
  <2>5. x < y
    BY <2>2, <2>4
  <2> QED BY <2>5 DEF x, y
<1>13. Elements(a) = S
  <2>1. ASSUME NEW x \in S PROVE x \in Elements(a)
    <3>1. r(x) + 1 \in 1 .. z
      BY <1>1, <1>2
    <3>2. a[r(x) + 1] = x
      <4> DEFINE n == r(x) + 1
      <4>1. r(a[n]) = n - 1 /\ a[n] \in S /\ r(x) \in Nat
        BY <1>1, <1>2, <1>9, <3>1
      <4>2. r(a[n]) = r(x)
        BY <4>1
      <4> QED BY <1>3, <4>1, <4>2
    <3> QED BY <1>11, <3>1, <3>2 DEF Elements
  <2>2. Elements(a) \subseteq S
    BY <1>9, <1>11 DEF Elements
  <2> QED BY <2>1, <2>2
<1> QED BY <1>11, <1>12, <1>13 DEF a

-----------------------------------------------------------------------------
(* The newest of the versions on a disk *)

\* v is the newest version among D, 0 if there is none.
IsNewest(D, v) ==
    IF D = {} THEN v = 0 ELSE (\E d \in D : d.version = v) /\ \A d \in D : d.version <= v

LEMMA NewestFacts ==
    ASSUME NEW D, NEW b \in Nat, \A d \in D : d.version \in Nat /\ d.version <= b
    PROVE  /\ IsNewest(D, Newest(D)) /\ Newest(D) \in Nat
           /\ \A v : IsNewest(D, v) => v = Newest(D)
<1>1. CASE D = {}
  BY <1>1 DEF IsNewest, Newest
<1>2. CASE D # {}
  <2> DEFINE T == {n \in Nat : \A d \in D : d.version <= n}
  <2>1. PICK x \in T : \A y \in T : x <= y
    <3>1. T \in SUBSET Nat /\ b \in T
      OBVIOUS
    <3> HIDE DEF T
    <3> QED BY <3>1, Least
  <2>2. \E d \in D : d.version = x
    <3> SUFFICES ASSUME \A d \in D : d.version # x PROVE FALSE
      OBVIOUS
    <3>1. \A d \in D : d.version <= x - 1 /\ d.version \in Nat
      BY <2>1
    <3>2. x - 1 \in T
      BY <1>2, <2>1, <3>1
    <3> QED BY <2>1, <3>2
  <2>3. \E d \in D : \A e \in D : e.version <= d.version
    BY <2>1, <2>2
  <2> DEFINE top == CHOOSE d \in D : \A e \in D : e.version <= d.version
  <2>4. top \in D /\ \A e \in D : e.version <= top.version
    BY <2>3
  <2>5. Newest(D) = top.version
    BY <1>2 DEF Newest
  <2> HIDE DEF top
  <2>6. \A v : IsNewest(D, v) => v = top.version
    <3> SUFFICES ASSUME NEW v, IsNewest(D, v) PROVE v = top.version
      OBVIOUS
    <3>1. PICK d \in D : d.version = v /\ \A e \in D : e.version <= v
      BY <1>2 DEF IsNewest
    <3> QED BY <2>4, <3>1
  <2> QED BY <1>2, <2>4, <2>5, <2>6 DEF IsNewest
<1> QED BY <1>1, <1>2
-----------------------------------------------------------------------------
(* A store that lost nothing but what a compaction takes *)

\* A store whose indexes name what is on the disk and no more, with the last write on it.
Whole(s) ==
    /\ Indexed(s) /\ s.latest \in [Key -> Nat] /\ s.compactrev \in Int
    /\ s.history \in [Key -> Seq(Nat)] /\ s.revisions \in Seq([key : Key, revision : Nat])
    /\ \A k \in Key : \A v \in Elements(s.history[k]) : \E d \in s.disk : d.key = k /\ d.version = v
    /\ \A d, e \in s.disk : d.version = e.version => d = e
    /\ s.currentRev # 0 => \E d \in s.disk : d.version = s.currentRev

\* The versions of a key.
Of(s, k) == {d \in s.disk : d.key = k}

\* The index names the newest version of a key.
Current(s, k) == IsNewest(Of(s, k), s.latest[k])

\* The newest version of a key is a tombstone.
Buried(s, k) == \E d \in Of(s, k) : d.deleted /\ \A e \in Of(s, k) : e.version <= d.version

LEMMA DiskFacts ==
    ASSUME NEW s, Indexed(s), NEW d \in s.disk
    PROVE  /\ d.key \in Key /\ d.version \in Nat \ {0} /\ d.version <= s.currentRev
           /\ d.version \in Elements(s.history[d.key]) /\ s.currentRev \in Nat
<1>1. d.key \in Key /\ d.version \in Elements(s.history[d.key])
  BY DEF Indexed
<1>2. s.history[d.key] \in Seq(Nat \ {0})
  BY <1>1 DEF Indexed
<1>3. d.version \in Nat \ {0}
  BY <1>1, <1>2, ElementOfSeq DEF Elements
<1> QED BY <1>1, <1>3 DEF Indexed

LEMMA NewWhole == Whole(NewStore)
<1> DEFINE s == NewStore
<1>1. <<>> \in Seq([key : Key, revision : Nat])
  BY EmptySeq
<1>2. /\ s.latest = [k \in Key |-> 0] /\ s.compactrev = 0 /\ s.revisions = <<>>
      /\ s.history = [k \in Key |-> <<>>]
  BY DEF NewStore
<1>3. \A k \in Key : Elements(s.history[k]) = {}
  BY <1>2, EmptySeq DEF Elements
<1>4. s.history \in [Key -> Seq(Nat)]
  BY <1>2, EmptySeq
<1> QED BY <1>1, <1>2, <1>3, <1>4, NewIndexed DEF Whole

\* Put and Delete: the new version is the newest of all.
LEMMA WrittenWhole ==
    ASSUME NEW s, Whole(s), NEW key \in Key, NEW writer, NEW deleted
    PROVE  LET t == Written(s, key, writer, deleted)
               entry == [key |-> key, version |-> s.currentRev + 1, writer |-> writer,
                         deleted |-> deleted]
           IN  /\ Whole(t) /\ t.currentRev = s.currentRev + 1
               /\ t.disk = s.disk \cup {entry}
               /\ \A k \in Key : Current(s, k) \/ k = key => Current(t, k)
               /\ \A k \in Key \ {key} : Buried(s, k) => Buried(t, k)
<1> DEFINE t == Written(s, key, writer, deleted)
           rev == s.currentRev + 1
           entry == [key |-> key, version |-> rev, writer |-> writer, deleted |-> deleted]
           note == [key |-> key, revision |-> rev]
<1>1. /\ Indexed(s) /\ IsStore(s) /\ s.currentRev \in Nat /\ DOMAIN s.history = Key
      /\ rev \in Nat \ {0} /\ entry.key = key /\ entry.version = rev
      /\ note \in [key : Key, revision : Nat]
  BY DEF Whole, Indexed
<1>2. t = [s EXCEPT !.currentRev = rev, !.disk = Stored(@, entry), !.latest[key] = rev,
                    !.history[key] = Append(@, rev), !.revisions = Append(@, note)]
  BY DEF Written
<1>3. Indexed(t) /\ t.currentRev = rev
  BY <1>1, WrittenIndexed
<1> HIDE DEF t, entry, note
<1>4. /\ t.disk = Stored(s.disk, entry) /\ t.latest = [s.latest EXCEPT ![key] = rev]
      /\ t.history = [s.history EXCEPT ![key] = Append(@, rev)]
      /\ t.revisions = Append(s.revisions, note) /\ t.compactrev = s.compactrev
  BY <1>1, <1>2 DEF IsStore
<1>5. \A d \in s.disk : d.version \in Nat /\ d.version < rev
  BY <1>1, DiskFacts
<1> HIDE DEF rev
<1>6. t.disk = s.disk \cup {entry}
  BY <1>1, <1>4, <1>5 DEF Stored
<1>7. /\ t.latest \in [Key -> Nat] /\ t.latest[key] = rev
      /\ \A k \in Key : k # key => t.latest[k] = s.latest[k]
  BY <1>1, <1>4 DEF Whole
<1>8. t.revisions \in Seq([key : Key, revision : Nat])
  BY <1>1, <1>4, AppendProperties DEF Whole
<1>9. \A k \in Key : \A v \in Elements(t.history[k]) : \E d \in t.disk : d.key = k /\ d.version = v
  <2> SUFFICES ASSUME NEW k \in Key, NEW v \in Elements(t.history[k])
               PROVE  \E d \in t.disk : d.key = k /\ d.version = v
    OBVIOUS
  <2>1. CASE k # key
    <3>1. t.history[k] = s.history[k]
      BY <1>1, <1>4, <2>1
    <3>2. PICK d \in s.disk : d.key = k /\ d.version = v
      BY <3>1 DEF Whole
    <3> QED BY <1>6, <3>2
  <2>2. CASE k = key
    <3> DEFINE q == s.history[key]
    <3>1. q \in Seq(Nat \ {0}) /\ t.history[k] = Append(q, rev)
      BY <1>1, <1>4, <2>2 DEF Indexed
    <3> HIDE DEF q
    <3>2. PICK j \in 1 .. Len(Append(q, rev)) : v = Append(q, rev)[j]
      BY <3>1 DEF Elements
    <3>3. Len(q) \in Nat /\ Len(Append(q, rev)) = Len(q) + 1 /\ Append(q, rev)[Len(q) + 1] = rev
          /\ \A n \in 1 .. Len(q) : Append(q, rev)[n] = q[n]
      BY <1>1, <3>1, AppendProperties, LenProperties
    <3>4. v = rev \/ v \in Elements(q)
      BY <3>2, <3>3 DEF Elements
    <3>5. CASE v = rev
      BY <1>1, <1>6, <2>2, <3>5
    <3>6. CASE v \in Elements(q)
      <4>1. v \in Elements(s.history[key])
        BY <3>6 DEF q
      <4>2. PICK d \in s.disk : d.key = key /\ d.version = v
        BY <4>1 DEF Whole
      <4> QED BY <1>6, <2>2, <4>2
    <3> QED BY <3>4, <3>5, <3>6
  <2> QED BY <2>1, <2>2
<1>10. \A d, e \in t.disk : d.version = e.version => d = e
  BY <1>1, <1>5, <1>6 DEF Whole
<1>10a. t.history \in [Key -> Seq(Nat)]
  <2>1. Append(s.history[key], rev) \in Seq(Nat)
    BY <1>1, AppendProperties DEF Whole
  <2> QED BY <1>4, <2>1 DEF Whole
<1>11. Whole(t)
  BY <1>1, <1>3, <1>4, <1>6, <1>7, <1>8, <1>9, <1>10, <1>10a DEF Whole
<1>12. \A k \in Key \ {key} : Of(t, k) = Of(s, k)
  BY <1>1, <1>6 DEF Of
<1>13. Current(t, key)
  <2>1. entry \in Of(t, key) /\ \A d \in Of(t, key) : d.version <= rev
    BY <1>1, <1>5, <1>6 DEF Of
  <2> QED BY <1>1, <1>7, <2>1 DEF Current, IsNewest
<1>14. \A k \in Key : Current(s, k) \/ k = key => Current(t, k)
  BY <1>7, <1>12, <1>13 DEF Current
<1>15. \A k \in Key \ {key} : Buried(s, k) => Buried(t, k)
  BY <1>12 DEF Buried
<1> QED BY <1>3, <1>6, <1>11, <1>14, <1>15 DEF t, rev, entry

\* The newest version of a key is never superseded.
LEMMA NewestStays ==
    ASSUME NEW s, Whole(s), NEW t, NEW c, NEW keys, NEW index, Compacts(s, t, c, keys, index),
           NEW d \in s.disk, \A e \in Of(s, d.key) : e.version <= d.version
    PROVE  d \in t.disk
<1>1. Indexed(s) /\ IsStore(s)
  BY DEF Whole, Indexed
<1>2. t.disk = {x \in s.disk : ~(x.key \in keys /\ Superseded(s, x.key, x.version, c))}
  <2> DEFINE e == {x \in s.disk : ~(x.key \in keys /\ Superseded(s, x.key, x.version, c))}
             h == [k \in Key |->
                Kept(s.history[k], {v \in Elements(s.history[k]) : ~(k \in keys /\ Superseded(s, k, v, c))})]
  <2>1. t = [s EXCEPT !.history = h, !.disk = e, !.revisions = SubSeq(@, index + 1, Len(@)),
                      !.compactrev = c]
    BY DEF Compacts
  <2> HIDE DEF h, e
  <2>2. t.disk = e
    BY <1>1, <2>1 DEF IsStore
  <2> QED BY <2>2 DEF e
<1>3. ~Superseded(s, d.key, d.version, c)
  <2> SUFFICES ASSUME NEW w \in Elements(s.history[d.key]), d.version < w PROVE FALSE
    BY DEF Superseded
  <2>1. d.key \in Key /\ d.version \in Nat
    BY <1>1, DiskFacts
  <2>2. PICK e \in s.disk : e.key = d.key /\ e.version = w
    <3>1. \A k \in Key : \A v \in Elements(s.history[k]) : \E e \in s.disk : e.key = k /\ e.version = v
      BY DEF Whole
    <3> QED BY <2>1, <3>1
  <2>3. e.version \in Nat /\ e.version <= d.version
    BY <1>1, <2>2, DiskFacts DEF Of
  <2> QED BY <2>1, <2>2, <2>3
<1> QED BY <1>2, <1>3

-----------------------------------------------------------------------------
(* Reads of a compacted store *)

\* v is the last number of E that is not beyond target, 0 if there is none.
IsLastOf(v, E, target) ==
    \/ v = 0 /\ \A x \in E : x > target
    \/ v \in E /\ v <= target /\ \A x \in E : x <= target => x <= v

LEMMA FindIsLast ==
    ASSUME NEW q \in Seq(Nat \ {0}), Ascends(q), NEW target \in Int
    PROVE  IsLastOf(FindLE(q, target), Elements(q), target)
<1> DEFINE v == FindLE(q, target)
<1>1. IsLastUpTo(v, q, target, 1, Len(q))
  BY FindLECorrect
<1> HIDE DEF v
<1>2. IsLastOf(v, Elements(q), target)
  BY <1>1 DEF IsLastUpTo, IsLastOf, Elements
<1> QED BY <1>2 DEF v

\* A list that only lost elements that the target lies beyond gives the same answer.
LEMMA FindKept ==
    ASSUME NEW q \in Seq(Nat \ {0}), Ascends(q), NEW h \in Seq(Nat \ {0}), Ascends(h),
           NEW target \in Int, Elements(h) \subseteq Elements(q),
           \A x \in Elements(q) \ Elements(h) : \E w \in Elements(q) : x < w /\ w <= target
    PROVE  FindLE(h, target) = FindLE(q, target)
<1> DEFINE E == Elements(q)
           F == Elements(h)
           f == FindLE(h, target)
           g == FindLE(q, target)
<1>1. IsLastOf(g, E, target) /\ IsLastOf(f, F, target)
  BY FindIsLast
<1>2. E \subseteq Nat \ {0} /\ F \subseteq E
  <2>1. \A n \in 1 .. Len(q) : q[n] \in Nat \ {0}
    BY ElementOfSeq
  <2> QED BY <2>1 DEF Elements
<1>3. \A x \in E \ F : \E w \in E : x < w /\ w <= target
  OBVIOUS
<1> SUFFICES f = g
  OBVIOUS
<1> HIDE DEF E, F, f, g
<1>4. CASE g = 0 /\ \A x \in E : x > target
  <2>1. \A x \in F : ~ (x <= target)
    BY <1>2, <1>4
  <2> QED BY <1>1, <1>4, <2>1 DEF IsLastOf
<1>5. CASE g \in E /\ g <= target /\ \A x \in E : x <= target => x <= g
  <2>1. g \in F
    <3> SUFFICES ASSUME g \notin F PROVE FALSE
      OBVIOUS
    <3>1. PICK w \in E : g < w /\ w <= target
      BY <1>3, <1>5
    <3>2. w <= g /\ w \in Nat /\ g \in Nat
      BY <1>2, <1>5, <3>1
    <3> QED BY <3>1, <3>2
  <2>2. f \in F /\ f <= target /\ g <= f
    <3>1. g \in Nat
      BY <1>2, <1>5
    <3> QED BY <1>1, <1>5, <2>1, <3>1 DEF IsLastOf
  <2>3. f <= g /\ f \in Nat /\ g \in Nat
    BY <1>2, <1>5, <2>2
  <2> QED BY <2>2, <2>3
<1> QED BY <1>1, <1>4, <1>5 DEF IsLastOf

\* What a compaction at c leaves.
LEMMA CompactsParts ==
    ASSUME NEW s, Whole(s), NEW t, NEW c, NEW keys, NEW index, Compacts(s, t, c, keys, index)
    PROVE  /\ t.disk = {d \in s.disk : ~(d.key \in keys /\ Superseded(s, d.key, d.version, c))}
           /\ \A k \in Key : Elements(t.history[k]) =
                 {v \in Elements(s.history[k]) : ~(k \in keys /\ Superseded(s, k, v, c))}
           /\ t.latest = s.latest /\ t.currentRev = s.currentRev /\ t.compactrev = c
           /\ t.revisions = SubSeq(s.revisions, index + 1, Len(s.revisions))
           /\ t.history \in [Key -> Seq(Nat)]
<1>1. Indexed(s) /\ IsStore(s)
  BY DEF Whole, Indexed
<1> DEFINE T(k) == {v \in Elements(s.history[k]) : ~(k \in keys /\ Superseded(s, k, v, c))}
           h == [k \in Key |-> Kept(s.history[k], T(k))]
           e == {x \in s.disk : ~(x.key \in keys /\ Superseded(s, x.key, x.version, c))}
           r == SubSeq(s.revisions, index + 1, Len(s.revisions))
<1>2. t = [s EXCEPT !.history = h, !.disk = e, !.revisions = r, !.compactrev = c]
  BY DEF Compacts
<1> HIDE DEF h, e, r
<1>3. /\ t.disk = e /\ t.history = h /\ t.revisions = r /\ t.compactrev = c
      /\ t.latest = s.latest /\ t.currentRev = s.currentRev
  BY <1>1, <1>2 DEF IsStore
<1>4. ASSUME NEW k \in Key PROVE Elements(t.history[k]) = T(k)
  <2>1. t.history[k] = Kept(s.history[k], T(k))
    BY <1>3 DEF h
  <2>2. s.history[k] \in Seq(Nat \ {0})
    BY <1>1 DEF Indexed
  <2> HIDE DEF T
  <2>3. Elements(Kept(s.history[k], T(k))) = Elements(s.history[k]) \cap T(k)
    BY <2>2, KeptFacts, Nat \ {0} \in SUBSET Nat
  <2> QED BY <2>1, <2>3 DEF T
<1>5. t.history \in [Key -> Seq(Nat)]
  <2>1. Indexed(t)
    BY <1>1, CompactsIndexed
  <2>2. \A k \in Key : t.history[k] \in Seq(Nat)
    BY <2>1, SeqMonotonic, Nat \ {0} \subseteq Nat DEF Indexed
  <2> QED BY <1>3, <2>2 DEF h
<1> QED BY <1>3, <1>4, <1>5 DEF e, r

\* Compact leaves a store whole.
LEMMA CompactedWhole ==
    ASSUME NEW s, Whole(s), NEW t, NEW c \in Int, NEW keys, NEW index \in 0 .. Len(s.revisions),
           Compacts(s, t, c, keys, index)
    PROVE  /\ Whole(t) /\ t.currentRev = s.currentRev /\ t.disk \subseteq s.disk
           /\ t.latest = s.latest /\ t.compactrev = c
<1>1. Indexed(s) /\ IsStore(s)
  BY DEF Whole, Indexed
<1>2. /\ t.disk = {d \in s.disk : ~(d.key \in keys /\ Superseded(s, d.key, d.version, c))}
      /\ \A k \in Key : Elements(t.history[k]) =
            {v \in Elements(s.history[k]) : ~(k \in keys /\ Superseded(s, k, v, c))}
      /\ t.latest = s.latest /\ t.currentRev = s.currentRev /\ t.compactrev = c
      /\ t.revisions = SubSeq(s.revisions, index + 1, Len(s.revisions))
      /\ t.history \in [Key -> Seq(Nat)]
  BY CompactsParts
<1>3. Indexed(t)
  BY <1>1, CompactsIndexed
<1>4. t.revisions \in Seq([key : Key, revision : Nat])
  <2> DEFINE R == [key : Key, revision : Nat]
             q == s.revisions
  <2>1. q \in Seq(R)
    BY DEF Whole
  <2> HIDE DEF R, q
  <2>2. Len(q) \in Nat /\ \A n \in 1 .. Len(q) : q[n] \in R
    BY <2>1, LenProperties, ElementOfSeq
  <2>3. index \in 0 .. Len(q)
    BY DEF q
  <2>4. SubSeq(q, index + 1, Len(q)) \in Seq(R)
    <3>1. \A n \in index + 1 .. Len(q) : q[n] \in R
      BY <2>2, <2>3
    <3>2. index + 1 \in 1 .. Len(q) + 1 /\ Len(q) \in index .. Len(q)
      BY <2>2, <2>3
    <3> QED BY <2>1, <2>2, <2>3, <3>1, <3>2, SubSeqProperties
  <2> QED BY <1>2, <2>4 DEF R, q
<1>5. ASSUME NEW k \in Key, NEW v \in Elements(t.history[k])
      PROVE  \E d \in t.disk : d.key = k /\ d.version = v
  <2>1. v \in Elements(s.history[k]) /\ ~(k \in keys /\ Superseded(s, k, v, c))
    BY <1>2
  <2>2. PICK d \in s.disk : d.key = k /\ d.version = v
    BY <2>1 DEF Whole
  <2> QED BY <1>2, <2>1, <2>2
<1>6. \A d, e \in t.disk : d.version = e.version => d = e
  BY <1>2 DEF Whole
<1>7. t.currentRev # 0 => \E d \in t.disk : d.version = t.currentRev
  <2> SUFFICES ASSUME s.currentRev # 0 PROVE \E d \in t.disk : d.version = s.currentRev
    BY <1>2
  <2>1. PICK d \in s.disk : d.version = s.currentRev
    BY DEF Whole
  <2>2. \A e \in Of(s, d.key) : e.version <= d.version
    BY <1>1, <2>1, DiskFacts DEF Of
  <2>3. d \in t.disk
    BY <2>2, NewestStays
  <2> QED BY <2>1, <2>3
<1>8. t.latest \in [Key -> Nat] /\ t.compactrev \in Int
  BY <1>2 DEF Whole
<1>9. Whole(t)
  BY <1>2, <1>3, <1>4, <1>5, <1>6, <1>7, <1>8 DEF Whole
<1> QED BY <1>2, <1>9

\* Compact does not change what is the newest version of a key.
LEMMA CompactedNewest ==
    ASSUME NEW s, Whole(s), NEW t, NEW c, NEW keys, NEW index, Compacts(s, t, c, keys, index),
           NEW k \in Key
    PROVE  /\ Current(s, k) => Current(t, k)
           /\ Buried(s, k) => Buried(t, k)
<1>1. t.disk \subseteq s.disk /\ t.latest = s.latest
  BY CompactsParts
<1>2. Of(t, k) \subseteq Of(s, k)
  BY <1>1 DEF Of
<1>3. ASSUME NEW d \in Of(s, k), \A e \in Of(s, k) : e.version <= d.version
      PROVE  d \in Of(t, k)
  <2>1. d \in s.disk /\ d.key = k
    BY DEF Of
  <2> QED BY <1>3, <2>1, NewestStays DEF Of
<1>4. ASSUME Current(s, k) PROVE Current(t, k)
  <2>1. CASE Of(s, k) = {}
    BY <1>1, <1>2, <1>4, <2>1 DEF Current, IsNewest
  <2>2. CASE Of(s, k) # {}
    <3>1. PICK d \in Of(s, k) : d.version = s.latest[k] /\ \A e \in Of(s, k) : e.version <= d.version
      BY <1>4, <2>2 DEF Current, IsNewest
    <3> QED BY <1>1, <1>2, <1>3, <3>1 DEF Current, IsNewest
  <2> QED BY <2>1, <2>2
<1>5. ASSUME Buried(s, k) PROVE Buried(t, k)
  BY <1>2, <1>3, <1>5 DEF Buried
<1> QED BY <1>4, <1>5

\* Compact at c: reads at versions from c on, and of the latest version, find what they found.
LEMMA CompactedReads ==
    ASSUME NEW s, Whole(s), NEW t, NEW c \in Int, NEW keys, NEW index,
           Compacts(s, t, c, keys, index), NEW k \in Key, NEW v \in Nat,
           IF v = 0 THEN Current(s, k) ELSE v >= c
    PROVE  Get(t, k, v) = Get(s, k, v)
<1>1. Indexed(s) /\ IsStore(s)
  BY DEF Whole, Indexed
<1>2. /\ t.disk = {d \in s.disk : ~(d.key \in keys /\ Superseded(s, d.key, d.version, c))}
      /\ Elements(t.history[k]) =
            {x \in Elements(s.history[k]) : ~(k \in keys /\ Superseded(s, k, x, c))}
      /\ t.latest = s.latest
  BY CompactsParts
<1>3. CASE v = 0
  <2>1. ASSUME NEW d \in s.disk, d.key = k, d.version = s.latest[k] PROVE d \in t.disk
    <3>1. d \in Of(s, k) /\ \A e \in Of(s, k) : e.version <= d.version
      BY <1>3, <2>1 DEF Current, IsNewest, Of
    <3> QED BY <2>1, <3>1, NewestStays
  <2> QED BY <1>2, <1>3, <2>1 DEF Get
<1>4. CASE v # 0
  <2> DEFINE q == s.history[k]
             h == t.history[k]
             E == Elements(q)
             r == FindLE(q, v)
  <2>1. /\ q \in Seq(Nat \ {0}) /\ Ascends(q) /\ h \in Seq(Nat \ {0}) /\ Ascends(h)
        /\ v \in Int /\ v >= c
    BY <1>1, <1>4, CompactsIndexed DEF Indexed
  <2>2. E \subseteq Nat
    BY <2>1, ElementOfSeq DEF Elements
  <2>3. Elements(h) \subseteq Elements(q)
    BY <1>2
  <2>4. \A x \in Elements(q) \ Elements(h) : \E w \in Elements(q) : x < w /\ w <= v
    <3> SUFFICES ASSUME NEW x \in Elements(q) \ Elements(h)
                 PROVE  \E w \in Elements(q) : x < w /\ w <= v
      OBVIOUS
    <3>1. PICK w \in Elements(q) : x < w /\ w <= c
      BY <1>2 DEF Superseded
    <3> QED BY <2>1, <2>2, <3>1
  <2> HIDE DEF q, h
  <2>5. FindLE(h, v) = r
    BY <2>1, <2>3, <2>4, FindKept
  <2>6. IsLastOf(r, E, v)
    BY <2>1, FindIsLast
  <2> HIDE DEF r, E
  <2>7. ASSUME NEW d \in s.disk, d.key = k, d.version = r PROVE d \in t.disk
    <3>1. d.version \in E /\ r \in Nat \ {0}
      BY <1>1, <2>7, DiskFacts DEF E, q
    <3>2. ~Superseded(s, k, r, c)
      <4> SUFFICES ASSUME NEW w \in E, r < w, w <= c PROVE FALSE
        BY DEF Superseded, E, q
      <4> QED BY <2>1, <2>2, <2>6, <3>1 DEF IsLastOf
    <3> QED BY <1>2, <2>7, <3>2
  <2>8. /\ Get(t, k, v) = {d \in t.disk : d.key = k /\ d.version = r /\ ~d.deleted}
        /\ Get(s, k, v) = {d \in s.disk : d.key = k /\ d.version = r /\ ~d.deleted}
    BY <1>4, <2>5 DEF Get, r, q, h
  <2> QED BY <1>2, <2>7, <2>8
<1> QED BY <1>3, <1>4

\* PrefixScan and Get agree on the latest version of a key whose newest version is the latest.
LEMMA ScanFinds ==
    ASSUME NEW s, Whole(s), NEW k \in Key, Current(s, k)
    PROVE  PrefixScan(s, {k}) = Get(s, k, 0)
<1>1. PrefixScan(s, {k}) = {d \in Of(s, k) : ~d.deleted /\ \A e \in Of(s, k) : e.version <= d.version}
  BY DEF PrefixScan, Of
<1>2. Get(s, k, 0) = {d \in Of(s, k) : d.version = s.latest[k] /\ ~d.deleted}
  BY DEF Get, Of
<1>3. CASE Of(s, k) = {}
  BY <1>1, <1>2, <1>3
<1>4. CASE Of(s, k) # {}
  <2>1. PICK top \in Of(s, k) :
           top.version = s.latest[k] /\ \A e \in Of(s, k) : e.version <= top.version
    BY <1>4 DEF Current, IsNewest
  <2>2. \A d \in Of(s, k) : d.version \in Nat
    BY DiskFacts DEF Whole, Of
  <2>3. \A d \in Of(s, k) :
           (\A e \in Of(s, k) : e.version <= d.version) <=> d.version = s.latest[k]
    BY <2>1, <2>2
  <2> QED BY <1>1, <1>2, <2>3
<1> QED BY <1>3, <1>4

-----------------------------------------------------------------------------
(* A restart *)

\* A finite set of versions.
LEMMA VersionsFinite ==
    ASSUME NEW s, Indexed(s), NEW D \in SUBSET s.disk
    PROVE  /\ {d.version : d \in D} \in SUBSET (Nat \ {0})
           /\ IsFiniteSet({d.version : d \in D})
<1> DEFINE V == {d.version : d \in D}
           U == 0 .. s.currentRev
<1>1. \A d \in D : d.version \in Nat \ {0} /\ d.version <= s.currentRev /\ s.currentRev \in Nat
  BY DiskFacts
<1>2. V \in SUBSET (Nat \ {0}) /\ V \in SUBSET U
  BY <1>1
<1>3. IsFiniteSet(U)
  <2>1. s.currentRev \in Int /\ 0 \in Int
    BY DEF Indexed
  <2> QED BY <2>1, FS_Interval
<1> HIDE DEF U, V
<1>4. IsFiniteSet(V)
  BY <1>2, <1>3, FS_Subset
<1> QED BY <1>2, <1>4 DEF V

\* New and Recover rebuild the indexes of a store as they were, but for the latest version of
\* a key whose newest version is a tombstone.
LEMMA RecoveredWhole ==
    ASSUME NEW s, Whole(s)
    PROVE  LET t == Recovered(s.disk)
           IN  /\ Whole(t) /\ t.currentRev = s.currentRev /\ t.disk = s.disk
               /\ \A k \in Key : Current(t, k) \/ Buried(t, k)
<1> DEFINE t == Recovered(s.disk)
           Versions(k) == {d.version : d \in {e \in s.disk : e.key = k}}
           All == {d.version : d \in s.disk}
           all == Ascending(All)
<1>1. Indexed(s) /\ s.currentRev \in Nat
  BY DEF Whole, Indexed
<1>2. /\ t.currentRev = Newest(s.disk) /\ t.disk = s.disk /\ t.compactrev = 0
      /\ t.latest = [k \in Key |-> LatestLive(s.disk, k)]
      /\ t.history = [k \in Key |-> Ascending(Versions(k))]
      /\ t.revisions = [n \in 1 .. Len(all) |->
                            [key |-> (CHOOSE d \in s.disk : d.version = all[n]).key,
                             revision |-> all[n]]]
      /\ IsStore(t)
  BY DEF Recovered, RecoveredRev, IsStore
<1> HIDE DEF t
<1>3. \A d \in s.disk : d.key \in Key /\ d.version \in Nat \ {0} /\ d.version <= s.currentRev
  BY <1>1, DiskFacts
<1>4. t.currentRev = s.currentRev
  <2>1. IsNewest(s.disk, s.currentRev)
    <3>1. CASE s.disk = {}
      BY <3>1 DEF Whole, IsNewest
    <3>2. CASE s.disk # {}
      <4>1. s.currentRev # 0
        BY <1>1, <1>3, <3>2
      <4> QED BY <1>3, <3>2, <4>1 DEF Whole, IsNewest
    <3> QED BY <3>1, <3>2
  <2>2. \A d \in s.disk : d.version \in Nat /\ d.version <= s.currentRev
    BY <1>3
  <2>3. s.currentRev = Newest(s.disk)
    BY <1>1, <2>1, <2>2, NewestFacts
  <2> QED BY <1>2, <2>3
<1>5. ASSUME NEW k \in Key
      PROVE  /\ t.history[k] \in Seq(Nat \ {0}) /\ Ascends(t.history[k])
             /\ Elements(t.history[k]) = Versions(k)
  <2> DEFINE S == Versions(k)
  <2>1. S \in SUBSET (Nat \ {0}) /\ IsFiniteSet(S)
    <3> DEFINE D == {e \in s.disk : e.key = k}
    <3>1. D \in SUBSET s.disk
      OBVIOUS
    <3> HIDE DEF D
    <3>2. {d.version : d \in D} \in SUBSET (Nat \ {0}) /\ IsFiniteSet({d.version : d \in D})
      BY <1>1, <3>1, VersionsFinite
    <3> QED BY <3>2 DEF D
  <2>2. t.history[k] = Ascending(S)
    BY <1>2
  <2> HIDE DEF S
  <2>3. /\ Ascending(S) \in Seq(S) /\ Ascends(Ascending(S)) /\ Elements(Ascending(S)) = S
    BY <2>1, AscendingFacts, Nat \ {0} \subseteq Nat
  <2>4. Ascending(S) \in Seq(Nat \ {0})
    BY <2>1, <2>3, SeqMonotonic
  <2> QED BY <2>2, <2>3, <2>4 DEF S
<1>6. Indexed(t)
  <2>1. DOMAIN t.history = Key
    BY <1>2
  <2>2. \A k \in Key : \A v \in Elements(t.history[k]) : v <= t.currentRev
    <3> TAKE k \in Key
    <3> TAKE v \in Elements(t.history[k])
    <3>0. v \in Versions(k)
      <4> HIDE DEF Versions
      <4> QED BY <1>5
    <3>1. PICK d \in s.disk : v = d.version
      BY <3>0
    <3> QED BY <1>3, <1>4, <3>1
  <2>3. \A d \in t.disk : d.key \in Key /\ d.version \in Elements(t.history[d.key])
    <3> TAKE d \in t.disk
    <3>1. d.key \in Key /\ d \in s.disk
      BY <1>2, <1>3
    <3>2. Elements(t.history[d.key]) = Versions(d.key)
      BY <1>5, <3>1
    <3> QED BY <3>1, <3>2
  <2> HIDE DEF Versions
  <2> QED BY <1>1, <1>2, <1>4, <1>5, <2>1, <2>2, <2>3 DEF Indexed
<1>7. ASSUME NEW k \in Key
      PROVE  LatestLive(s.disk, k) \in Nat /\ (Current(t, k) \/ Buried(t, k))
  <2> DEFINE D == Of(s, k)
             live == {d \in s.disk : d.key = k /\ ~d.deleted}
  <2>1. /\ \A d \in D : d.version \in Nat /\ d.version <= s.currentRev
        /\ \A d \in live : d.version \in Nat /\ d.version <= s.currentRev
    BY <1>3 DEF Of
  <2>2. t.latest[k] = Newest(live) /\ Of(t, k) = D
    BY <1>2 DEF LatestLive, Of
  <2>3. live = {d \in D : ~d.deleted}
    BY DEF Of
  <2>3a. LatestLive(s.disk, k) = Newest(live)
    BY DEF LatestLive
  <2> HIDE DEF live, D
  <2>4. IsNewest(live, Newest(live)) /\ Newest(live) \in Nat
        /\ \A v : IsNewest(live, v) => v = Newest(live)
    BY <1>1, <2>1, NewestFacts
  <2>5. CASE D = {}
    <3>1. live = {}
      BY <2>3, <2>5
    <3> QED BY <2>2, <2>3a, <2>4, <2>5, <3>1 DEF Current, IsNewest
  <2>6. CASE D # {}
    <3>1. IsNewest(D, Newest(D))
      BY <1>1, <2>1, NewestFacts
    <3>2. PICK top \in D : \A e \in D : e.version <= top.version
      BY <2>6, <3>1 DEF IsNewest
    <3>3. CASE top.deleted
      BY <2>2, <2>3a, <2>4, <3>2, <3>3 DEF Buried
    <3>4. CASE ~top.deleted
      <4>1. IsNewest(live, top.version)
        BY <2>3, <3>2, <3>4 DEF IsNewest
      <4>2. t.latest[k] = top.version
        BY <2>2, <2>4, <4>1
      <4>3. Current(t, k)
        BY <2>2, <2>6, <3>2, <4>2 DEF Current, IsNewest
      <4> QED BY <2>3a, <2>4, <4>3
    <3> QED BY <3>3, <3>4
  <2> QED BY <2>5, <2>6
<1>8. t.revisions \in Seq([key : Key, revision : Nat])
  <2>1. All \in SUBSET (Nat \ {0}) /\ IsFiniteSet(All)
    BY <1>1, VersionsFinite
  <2>2. \A x \in All : \E d \in s.disk : d.version = x
    OBVIOUS
  <2> HIDE DEF All
  <2>3. all \in Seq(All)
    BY <2>1, AscendingFacts, Nat \ {0} \subseteq Nat
  <2> HIDE DEF all
  <2>4. Len(all) \in Nat /\ \A n \in 1 .. Len(all) : all[n] \in All
    BY <2>3, LenProperties, ElementOfSeq
  <2>5. ASSUME NEW n \in 1 .. Len(all)
        PROVE  [key |-> (CHOOSE d \in s.disk : d.version = all[n]).key, revision |-> all[n]]
                  \in [key : Key, revision : Nat]
    <3> DEFINE d == CHOOSE d \in s.disk : d.version = all[n]
    <3>1. d \in s.disk /\ all[n] \in Nat
      BY <2>1, <2>2, <2>4
    <3>2. d.key \in Key
      BY <1>3, <3>1
    <3> QED BY <3>1, <3>2
  <2> DEFINE R == [key : Key, revision : Nat]
  <2>6. t.revisions \in [1 .. Len(all) -> R]
    BY <1>2, <2>5
  <2> HIDE DEF R
  <2>7. t.revisions \in Seq(R)
    BY <2>4, <2>6, SeqDef
  <2> QED BY <2>7 DEF R
<1>9. \A k \in Key : \A v \in Elements(t.history[k]) : \E d \in t.disk : d.key = k /\ d.version = v
  BY <1>2, <1>5
<1>10. /\ \A d, e \in t.disk : d.version = e.version => d = e
       /\ t.currentRev # 0 => \E d \in t.disk : d.version = t.currentRev
  BY <1>2, <1>4 DEF Whole
<1>11. t.latest \in [Key -> Nat] /\ t.compactrev \in Int
  BY <1>2, <1>7
<1>12. t.history \in [Key -> Seq(Nat)]
  <2>1. \A k \in Key : t.history[k] \in Seq(Nat)
    BY <1>6, SeqMonotonic, Nat \ {0} \subseteq Nat DEF Indexed
  <2> QED BY <1>2, <2>1
<1>13. Whole(t)
  BY <1>6, <1>8, <1>9, <1>10, <1>11, <1>12 DEF Whole
<1> QED BY <1>2, <1>4, <1>7, <1>13 DEF t
=============================================================================
