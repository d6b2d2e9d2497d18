----------------------------- MODULE ListProofs -----------------------------
(***************************************************************************)
(* Theorems about List.                                                    *)
(***************************************************************************)
EXTENDS List, FiniteSetTheorems, SequenceTheorems, WellFoundedInduction, TLAPS

(***************************************************************************)
(* Induction, and what is done repeatedly                                  *)
(***************************************************************************)

\* A set of natural numbers that is not empty has a least element.
LEMMA LeastNumber ==
  ASSUME NEW T, T \subseteq Nat, T # {}
  PROVE  \E m \in T : \A k \in T : m <= k
<1> DEFINE R == OpToRel(<, Nat)
<1>1. \A x, y \in Nat : <<x, y>> \in R <=> x < y
  BY DEF OpToRel
<1> HIDE DEF R
<1>2. IsWellFoundedOn(R, Nat)
  BY NatLessThanWellFounded DEF R
<1>3. PICK x \in T : \A y \in T : ~ (<<y, x>> \in R)
  BY <1>2, WFMin
<1>4. \A y \in T : ~ (y < x)
  BY <1>1, <1>3
<1> QED
  BY <1>4

\* Induction over 0..n, for a set in place of a predicate.
LEMMA UpTo ==
  ASSUME NEW n \in Nat, NEW S, 0 \in S, \A k \in 1..n : k - 1 \in S => k \in S
  PROVE  \A k \in 0..n : k \in S
<1> DEFINE B == {k \in 0..n : k \notin S}
<1> SUFFICES ASSUME B # {} PROVE FALSE
  OBVIOUS
<1>1. PICK m \in B : \A k \in B : m <= k
  <2>1. B \subseteq Nat
    OBVIOUS
  <2> HIDE DEF B
  <2> QED
    BY <2>1, LeastNumber
<1>2. m \in 1..n /\ m - 1 \in 0..n /\ m - 1 \notin B
  BY <1>1
<1> QED
  BY <1>2

\* The values that the steps in F take x through.
Steps(F, n, S) == F \in [1..n -> [S -> S]]
IsChain(g, F, n, S, x) ==
    /\ g \in [0..n -> S] /\ g[0] = x
    /\ \A k \in 1..n : g[k] = F[k][g[k - 1]]

\* The recursion in Repeated does define a function.
LEMMA ChainExists ==
  ASSUME NEW n \in Nat, NEW S, NEW x, x \in S, NEW F, Steps(F, n, S)
  PROVE  \E g : IsChain(g, F, n, S, x)
<1> USE DEF Steps
<1> DEFINE IsShort(g, m) == g[0] = x /\ \A k \in 1..m : g[k] = F[k][g[k - 1]]
           D == {m \in 0..n : \E g \in [0..m -> S] : IsShort(g, m)}
<1>1. 0 \in D
  <2> DEFINE h == [k \in 0..0 |-> x]
  <2>1. h \in [0..0 -> S] /\ IsShort(h, 0)
    OBVIOUS
  <2> HIDE DEF h, IsShort
  <2>2. \E g \in [0..0 -> S] : IsShort(g, 0)
    BY <2>1
  <2> QED
    BY <2>2
<1>2. ASSUME NEW m \in 1..n, m - 1 \in D
      PROVE  m \in D
  <2>1. PICK g \in [0..(m - 1) -> S] : IsShort(g, m - 1)
    BY <1>2
  <2> DEFINE y == F[m][g[m - 1]]
             h == [k \in 0..m |-> IF k = m THEN y ELSE g[k]]
  <2>2. y \in S
    <3>1. g[m - 1] \in S
      OBVIOUS
    <3> QED
      BY <3>1
  <2>3. h[m] = y /\ \A k \in 0..(m - 1) : h[k] = g[k]
    OBVIOUS
  <2>4. h \in [0..m -> S]
    BY <2>2
  <2> HIDE DEF h
  <2>5. h[0] = x
    BY <2>1, <2>3
  <2>6. ASSUME NEW k \in 1..m
        PROVE  h[k] = F[k][h[k - 1]]
    <3>1. CASE k = m
      BY <2>3, <3>1
    <3>2. CASE k # m
      BY <2>1, <2>3, <3>2
    <3> QED
      BY <3>1, <3>2
  <2>7. IsShort(h, m)
    BY <2>5, <2>6
  <2> HIDE DEF IsShort
  <2>8. \E e \in [0..m -> S] : IsShort(e, m)
    BY <2>4, <2>7
  <2> QED
    BY <2>8
<1>3. \A m \in 0..n : m \in D
  <2> HIDE DEF D
  <2> QED
    BY <1>1, <1>2, UpTo
<1> QED
  BY <1>3 DEF IsChain

\* What Repeated chooses.
Follows(f, n, x, Op(_, _)) ==
    f = [k \in 0..n |-> IF k = 0 THEN x ELSE LET y == f[k - 1] IN Op(y, k)]

\* A chain of steps stays in the sets T[0], ..., T[n].
LEMMA ChainStays ==
  ASSUME NEW n \in Nat, NEW f, NEW T, f[0] \in T[0],
         \A k \in 1..n : f[k - 1] \in T[k - 1] => f[k] \in T[k]
  PROVE  \A k \in 0..n : f[k] \in T[k]
<1> DEFINE D == {k \in 0..n : f[k] \in T[k]}
<1>1. 0 \in D
  OBVIOUS
<1>2. \A k \in 1..n : k - 1 \in D => k \in D
  OBVIOUS
<1>3. \A k \in 0..n : k \in D
  <2> HIDE DEF D
  <2> QED
    BY <1>1, <1>2, UpTo
<1> QED
  BY <1>3

\* A chain of steps stays in a set.
LEMMA ChainIn ==
  ASSUME NEW n \in Nat, NEW f, NEW S, f[0] \in S,
         \A k \in 1..n : f[k - 1] \in S => f[k] \in S
  PROVE  \A k \in 0..n : f[k] \in S
<1> DEFINE D == {k \in 0..n : f[k] \in S}
<1>1. 0 \in D
  OBVIOUS
<1>2. \A k \in 1..n : k - 1 \in D => k \in D
  OBVIOUS
<1>3. \A k \in 0..n : k \in D
  <2> HIDE DEF D
  <2> QED
    BY <1>1, <1>2, UpTo
<1> QED
  BY <1>3

\* The larger and the smaller of two numbers.
LEMMA MaxOfTwo ==
  ASSUME NEW a \in Int, NEW b \in Int
  PROVE  Max({a, b}) = IF a < b THEN b ELSE a
BY DEF Max

LEMMA MinOfTwo ==
  ASSUME NEW a \in Int, NEW b \in Int
  PROVE  Min({a, b}) = IF a < b THEN a ELSE b
BY DEF Min

(***************************************************************************)
(* The place of the cursor in the window                                   *)
(***************************************************************************)

Items == Nat \X (0..MaxIndex)
Shows(l) == l.seq \in Seq(Items)
Places == [cy : Int, offset : Nat]

\* An item takes at least a line and the gap, and no more than there are.
LEMMA NumLinesTyped ==
  ASSUME NEW item \in Items, NEW a \in Int
  PROVE  /\ NumLines(item, a).lines \in Int /\ NumLines(item, a).overflow \in BOOLEAN
         /\ a > 0 => NumLines(item, a).lines - Gap \in 1..a
<1>1. Index(item) \in 0..MaxIndex /\ Lines(Index(item)) \in Nat \ {0} /\ Gap \in Nat
  BY GeometryAssumption DEF Items, Index
<1> DEFINE n == Lines(Index(item))
<1> HIDE DEF n
<1>2. n \in Nat \ {0}
  BY <1>1 DEF n
<1>3. NumLines(item, a) = IF n > 1 /\ n > a THEN [lines |-> a + Gap, overflow |-> TRUE]
                          ELSE [lines |-> n + Gap, overflow |-> n + Gap > a]
  BY DEF NumLines, n
<1>4. CASE n > 1 /\ n > a
  <2>1. NumLines(item, a) = [lines |-> a + Gap, overflow |-> TRUE]
    BY <1>3, <1>4
  <2> QED
    BY <1>1, <2>1
<1>5. CASE ~(n > 1 /\ n > a)
  <2>1. NumLines(item, a) = [lines |-> n + Gap, overflow |-> n + Gap > a]
    BY <1>3, <1>5
  <2>2. NumLines(item, a).lines = n + Gap
    BY <2>1
  <2>3. NumLines(item, a).overflow \in BOOLEAN
    BY <2>1
  <2> QED
    BY <1>1, <1>2, <1>5, <2>2, <2>3
<1> QED
  BY <1>4, <1>5

LEMMA GetTyped ==
  ASSUME NEW l, Shows(l), NEW i \in 0..(Count(l) - 1)
  PROVE  Get(l, i) \in Items
BY DEF Shows, Count, Get

LEMMA CountTyped ==
  ASSUME NEW l, Shows(l)
  PROVE  Count(l) \in Nat
BY DEF Shows, Count

\* A finite set of numbers has a largest one.
LEMMA MaxOfFinite ==
  ASSUME NEW T, IsFiniteSet(T), T # {}, T \subseteq Int
  PROVE  Max(T) \in T /\ \A x \in T : x <= Max(T)
<1> DEFINE n == Cardinality(T)
<1>1. n \in Nat /\ n # 0 /\ ExistsBijection(1..n, T)
  BY FS_CardinalityType, FS_EmptySet
<1> HIDE DEF n
<1>2. PICK f : f \in Bijection(1..n, T)
  BY <1>1 DEF ExistsBijection
<1>3. f \in [1..n -> T] /\ \A x \in T : \E i \in 1..n : f[i] = x
  BY <1>2 DEF Bijection, Injection, Surjection
<1> DEFINE D == {k \in 0..n : k = 0 \/ \E m \in 1..k : \A i \in 1..k : f[i] <= f[m]}
<1>4. 0 \in D
  BY <1>1
<1>5. ASSUME NEW k \in 1..n, k - 1 \in D
      PROVE  k \in D
  <2>1. \A i \in 1..n : f[i] \in Int
    BY <1>3
  <2>2. CASE k = 1
    <3>1. \A i \in 1..k : f[i] <= f[1]
      BY <1>1, <2>1, <2>2
    <3> QED
      BY <2>2, <3>1
  <2>3. CASE k # 1
    <3>1. PICK m \in 1..(k - 1) : \A i \in 1..(k - 1) : f[i] <= f[m]
      BY <1>5, <2>3
    <3>2. \A i \in 1..k : i = k \/ i \in 1..(k - 1)
      OBVIOUS
    <3>3. CASE f[k] <= f[m]
      <4>1. m \in 1..k /\ \A i \in 1..k : f[i] <= f[m]
        BY <1>1, <3>1, <3>2, <3>3
      <4> QED
        BY <4>1
    <3>4. CASE ~(f[k] <= f[m])
      <4>1. \A i \in 1..k : f[i] <= f[k]
        BY <1>1, <2>1, <3>1, <3>2, <3>4
      <4> QED
        BY <4>1
    <3> QED
      BY <3>3, <3>4
  <2> QED
    BY <2>2, <2>3
<1>6. \A k \in 0..n : k \in D
  <2> HIDE DEF D
  <2> QED
    BY <1>1, <1>4, <1>5, UpTo
<1>7. PICK m \in 1..n : \A i \in 1..n : f[i] <= f[m]
  <2>1. n \in D
    <3> HIDE DEF D
    <3> QED
      BY <1>1, <1>6
  <2> QED
    BY <1>1, <2>1
<1>8. f[m] \in T /\ \A x \in T : x <= f[m]
  BY <1>3, <1>7
<1> QED
  BY <1>8 DEF Max

LEMMA WindowTyped ==
  /\ Max(Heights) \in Heights /\ Max(Heights) \in Nat \ {0}
  /\ \A h \in Heights : h \in Nat \ {0} /\ h <= Max(Heights)
<1>1. Heights \subseteq Int
  BY GeometryAssumption
<1> QED
  BY <1>1, MaxOfFinite, GeometryAssumption

LEMMA LinesBetweenTyped ==
  ASSUME NEW l, Shows(l), NEW i \in Nat, NEW to \in Int, to <= Count(l), NEW a \in Int
  PROVE  LinesBetween(l, i, to, a) \in Int
<1> DEFINE n == Max({0, to - i})
           Add(sum, j) == sum + NumLines(Get(l, i + j - 1), a - sum).lines
           S == Int
           zero == 0
<1>1. /\ n \in Nat /\ zero \in S
      /\ \A j \in 1..n : i + j - 1 \in 0..(Count(l) - 1)
  BY MaxOfTwo, CountTyped
<1> HIDE DEF n
<1>2. ASSUME NEW s \in S, NEW j \in 1..n
      PROVE  Add(s, j) \in S
  <2>1. Get(l, i + j - 1) \in Items
    BY <1>1, GetTyped
  <2> QED
    BY <2>1, NumLinesTyped
<1> HIDE DEF Add, S, zero
<1> DEFINE F == [k \in 1..n |-> [s \in S |-> Add(s, k)]]
           f == CHOOSE f : Follows(f, n, zero, Add)
<1>3. PICK g : IsChain(g, F, n, S, zero)
  <2>1. Steps(F, n, S)
    BY <1>2 DEF Steps
  <2> HIDE DEF F
  <2> QED
    BY <1>1, <2>1, ChainExists
<1>4. ASSUME NEW k \in 1..n
      PROVE  g[k - 1] \in S /\ g[k] = Add(g[k - 1], k)
  <2>1. g[k - 1] \in S
    BY <1>1, <1>3 DEF IsChain
  <2>2. F[k] = [s \in S |-> Add(s, k)]
    OBVIOUS
  <2> HIDE DEF F
  <2>3. g[k] = F[k][g[k - 1]]
    BY <1>3 DEF IsChain
  <2> QED
    BY <2>1, <2>2, <2>3
<1>5. Follows(g, n, zero, Add)
  BY <1>1, <1>3, <1>4 DEF IsChain, Follows
<1>6. f[0] = zero /\ \A k \in 1..n : f[k] = Add(f[k - 1], k)
  <2>1. Follows(f, n, zero, Add)
    BY <1>5
  <2> HIDE DEF f
  <2> QED
    BY <1>1, <2>1 DEF Follows
<1>7. LinesBetween(l, i, to, a) = f[n]
  BY DEF LinesBetween, n, zero, Repeated, Add, Follows
<1> HIDE DEF f
<1>8. \A k \in 0..n : f[k] \in S
  <2>1. f[0] \in S /\ \A k \in 1..n : f[k - 1] \in S => f[k] \in S
    BY <1>1, <1>2, <1>6
  <2> QED
    BY <1>1, <2>1, ChainIn
<1>9. LinesBetween(l, i, to, a) \in S
  BY <1>1, <1>7, <1>8
<1> QED
  BY <1>9 DEF S

\* Every item takes at least a line.
LEMMA TotalLinesTyped ==
  ASSUME NEW l, Shows(l), NEW i \in Nat, NEW to \in Int, to <= Count(l), height \in Nat \ {0}
  PROVE  /\ TotalLines(l, i, to) \in Nat
         /\ TotalLines(l, i, to) >= to - i
<1> DEFINE n == Max({0, to - i})
           Add(sum, j) == sum + NumLines(Get(l, i + j - 1), height).lines
           S == Nat
           zero == 0
<1>1. /\ n \in Nat /\ n >= to - i /\ zero \in S
      /\ \A j \in 1..n : i + j - 1 \in 0..(Count(l) - 1)
  BY MaxOfTwo, CountTyped
<1> HIDE DEF n
<1>2. ASSUME NEW s \in S, NEW j \in 1..n
      PROVE  Add(s, j) \in S /\ Add(s, j) >= s + 1
  <2>1. Get(l, i + j - 1) \in Items
    BY <1>1, GetTyped
  <2> QED
    BY <2>1, NumLinesTyped, GeometryAssumption
<1> HIDE DEF Add, S, zero
<1> DEFINE F == [k \in 1..n |-> [s \in S |-> Add(s, k)]]
           f == CHOOSE f : Follows(f, n, zero, Add)
<1>3. PICK g : IsChain(g, F, n, S, zero)
  <2>1. Steps(F, n, S)
    BY <1>2 DEF Steps
  <2> HIDE DEF F
  <2> QED
    BY <1>1, <2>1, ChainExists
<1>4. ASSUME NEW k \in 1..n
      PROVE  g[k - 1] \in S /\ g[k] = Add(g[k - 1], k)
  <2>1. g[k - 1] \in S
    BY <1>1, <1>3 DEF IsChain
  <2>2. F[k] = [s \in S |-> Add(s, k)]
    OBVIOUS
  <2> HIDE DEF F
  <2>3. g[k] = F[k][g[k - 1]]
    BY <1>3 DEF IsChain
  <2> QED
    BY <2>1, <2>2, <2>3
<1>5. Follows(g, n, zero, Add)
  BY <1>1, <1>3, <1>4 DEF IsChain, Follows
<1>6. f[0] = zero /\ \A k \in 1..n : f[k] = Add(f[k - 1], k)
  <2>1. Follows(f, n, zero, Add)
    BY <1>5
  <2> HIDE DEF f
  <2> QED
    BY <1>1, <2>1 DEF Follows
<1>7. TotalLines(l, i, to) = f[n]
  BY DEF TotalLines, n, zero, Repeated, Add, Follows
<1> HIDE DEF f
<1>8. \A j \in 0..n : f[j] \in {s \in Nat : s >= j}
  <2> DEFINE T == [j \in 0..n |-> {s \in Nat : s >= j}]
  <2>1. f[0] \in T[0]
    BY <1>1, <1>6 DEF zero
  <2>2. ASSUME NEW j \in 1..n, f[j - 1] \in T[j - 1]
        PROVE  f[j] \in T[j]
    <3>1. f[j - 1] \in Nat /\ f[j - 1] >= j - 1
      BY <1>1, <2>2
    <3>2. f[j] \in Nat /\ f[j] >= f[j - 1] + 1
      BY <1>2, <1>6, <3>1 DEF S
    <3> QED
      BY <1>1, <3>1, <3>2
  <2>3. \A j \in 0..n : f[j] \in T[j]
    <3> HIDE DEF T
    <3> QED
      BY <1>1, <2>1, <2>2, ChainStays
  <2> QED
    BY <2>3
<1> QED
  BY <1>1, <1>7, <1>8

LEMMA ItemsThatFitTyped ==
  ASSUME NEW h \in Nat, NEW l, Shows(l), NEW o \in Nat
  PROVE  ItemsThatFit(h, l, o) \in Nat
<1> DEFINE n == Count(l)
           Add(a, k) ==
             Fitting(h, a, NumLines(Get(l, IF k <= Count(l) - o THEN o + k - 1 ELSE Count(l) - k),
                                    h - a.sum))
           S == [sum : Int, found : Nat, full : BOOLEAN]
           start == [sum |-> 0, found |-> 0, full |-> FALSE]
<1>1. n \in Nat /\ start \in S
  BY CountTyped
<1>2. ASSUME NEW a \in S, NEW k \in 1..n
      PROVE  Add(a, k) \in S
  <2> DEFINE item == Get(l, IF k <= Count(l) - o THEN o + k - 1 ELSE Count(l) - k)
             m == NumLines(item, h - a.sum)
  <2>1. (IF k <= Count(l) - o THEN o + k - 1 ELSE Count(l) - k) \in 0..(Count(l) - 1)
    BY <1>1
  <2>2. item \in Items
    BY <2>1, GetTyped
  <2> HIDE DEF item
  <2>3. a.sum \in Int /\ a.found \in Nat
    OBVIOUS
  <2>4. m.lines \in Int /\ m.overflow \in BOOLEAN
    BY <2>2, <2>3, NumLinesTyped
  <2>5. Add(a, k) = Fitting(h, a, m)
    BY DEF item
  <2> HIDE DEF m, Add
  <2>6. OneMore(h, a, m, a.sum + m.lines) \in S
    BY <2>3, <2>4 DEF OneMore
  <2> QED
    BY <2>5, <2>6 DEF Fitting
<1> DEFINE fit == Repeated(Add, n, start)
<1>3. ItemsThatFit(h, l, o) = IF l.seq = <<>> THEN h ELSE fit.found
  BY DEF ItemsThatFit
<1> HIDE DEF n, Add, S, start
<1> DEFINE F == [k \in 1..n |-> [s \in S |-> Add(s, k)]]
           f == CHOOSE f : Follows(f, n, start, Add)
<1>4. PICK g : IsChain(g, F, n, S, start)
  <2>1. Steps(F, n, S)
    BY <1>2 DEF Steps
  <2> HIDE DEF F
  <2> QED
    BY <1>1, <2>1, ChainExists
<1>5. ASSUME NEW k \in 1..n
      PROVE  g[k - 1] \in S /\ g[k] = Add(g[k - 1], k)
  <2>1. g[k - 1] \in S
    BY <1>1, <1>4 DEF IsChain
  <2>2. F[k] = [s \in S |-> Add(s, k)]
    OBVIOUS
  <2> HIDE DEF F
  <2>3. g[k] = F[k][g[k - 1]]
    BY <1>4 DEF IsChain
  <2> QED
    BY <2>1, <2>2, <2>3
<1>6. Follows(g, n, start, Add)
  BY <1>1, <1>4, <1>5 DEF IsChain, Follows
<1>7. f[0] = start /\ \A k \in 1..n : f[k] = Add(f[k - 1], k)
  <2>1. Follows(f, n, start, Add)
    BY <1>6
  <2> HIDE DEF f
  <2> QED
    BY <1>1, <2>1 DEF Follows
<1>8. fit = f[n]
  BY DEF fit, Repeated, Add, Follows
<1> HIDE DEF f
<1>9. \A k \in 0..n : f[k] \in S
  <2>1. f[0] \in S /\ \A k \in 1..n : f[k - 1] \in S => f[k] \in S
    BY <1>1, <1>2, <1>7
  <2> QED
    BY <1>1, <2>1, ChainIn
<1>10. fit \in S
  BY <1>1, <1>8, <1>9
<1>11. fit.found \in Nat
  BY <1>10 DEF S
<1> QED
  BY <1>3, <1>11

\* The offset stays within its bounds.
LEMMA ScrolledTyped ==
  ASSUME NEW h \in Nat, NEW l, Shows(l), NEW c \in Int, NEW o \in Nat, NEW low \in Nat,
         NEW high \in Nat, NEW off \in Nat, NEW lines \in Int
  PROVE  Scrolled(h, l, c, o, low, high, off, lines) \in Nat
<1> DEFINE n == 2 * Count(l)
           Nudge(p, k) ==
             LET above == LinesBetween(l, p, Min({c, Count(l)}), h - lines)
             IN  Nudged(p, k <= Count(l), above, h - (above + lines), low, high, off)
           S == Nat
<1>1. n \in Nat /\ o \in S
  BY CountTyped
<1>2. ASSUME NEW p \in S, NEW k \in 1..n
      PROVE  Nudge(p, k) \in S
  <2> DEFINE above == LinesBetween(l, p, Min({c, Count(l)}), h - lines)
  <2>1. Min({c, Count(l)}) \in Int /\ Min({c, Count(l)}) <= Count(l)
    BY MinOfTwo, CountTyped
  <2>2. above \in Int
    BY <2>1, LinesBetweenTyped
  <2>3. Nudge(p, k) = Nudged(p, k <= Count(l), above, h - (above + lines), low, high, off)
    OBVIOUS
  <2> HIDE DEF above, Nudge
  <2>4. Max({low, p - 1}) \in Nat /\ Min({high, p + 1}) \in Nat
    BY MaxOfTwo, MinOfTwo
  <2> QED
    BY <2>2, <2>3, <2>4 DEF Nudged
<1> HIDE DEF n, Nudge, S
<1> DEFINE F == [k \in 1..n |-> [s \in S |-> Nudge(s, k)]]
           f == CHOOSE f : Follows(f, n, o, Nudge)
<1>3. PICK g : IsChain(g, F, n, S, o)
  <2>1. Steps(F, n, S)
    BY <1>2 DEF Steps
  <2> HIDE DEF F
  <2> QED
    BY <1>1, <2>1, ChainExists
<1>4. ASSUME NEW k \in 1..n
      PROVE  g[k - 1] \in S /\ g[k] = Nudge(g[k - 1], k)
  <2>1. g[k - 1] \in S
    BY <1>1, <1>3 DEF IsChain
  <2>2. F[k] = [s \in S |-> Nudge(s, k)]
    OBVIOUS
  <2> HIDE DEF F
  <2>3. g[k] = F[k][g[k - 1]]
    BY <1>3 DEF IsChain
  <2> QED
    BY <2>1, <2>2, <2>3
<1>5. Follows(g, n, o, Nudge)
  BY <1>1, <1>3, <1>4 DEF IsChain, Follows
<1>6. f[0] = o /\ \A k \in 1..n : f[k] = Nudge(f[k - 1], k)
  <2>1. Follows(f, n, o, Nudge)
    BY <1>5
  <2> HIDE DEF f
  <2> QED
    BY <1>1, <2>1 DEF Follows
<1>7. Scrolled(h, l, c, o, low, high, off, lines) = f[n]
  BY DEF Scrolled, n, Repeated, Nudge, Follows
<1> HIDE DEF f
<1>8. \A k \in 0..n : f[k] \in S
  <2>1. f[0] \in S /\ \A k \in 1..n : f[k - 1] \in S => f[k] \in S
    BY <1>1, <1>2, <1>6
  <2> QED
    BY <1>1, <2>1, ChainIn
<1>9. Scrolled(h, l, c, o, low, high, off, lines) \in S
  BY <1>1, <1>7, <1>8
<1> QED
  BY <1>9 DEF S

\* One round of constrain.
LEMMA ConstrainedTyped ==
  ASSUME NEW h \in Nat, NEW l, Shows(l), NEW off \in Nat, NEW p \in Places
  PROVE  /\ Constrained(h, l, off, p) \in Places
         /\ Constrained(h, l, off, p).cy = Constrain(p.cy, 0, Max({0, Count(l) - 1}))
<1> DEFINE c == Constrain(p.cy, 0, Max({0, Count(l) - 1}))
           fit == ItemsThatFit(h, l, p.offset)
           low == Max({c - fit + 1, 0})
           high == Max({Min({Count(l) - fit, c}), 0})
           o == Constrain(p.offset, low, high)
           lines == IF c < Count(l) THEN NumLines(Get(l, c), h).lines ELSE 1 + Gap
           around == Min({h \div 2, off})
<1>1. p.cy \in Int /\ p.offset \in Nat /\ Count(l) \in Nat
  BY CountTyped DEF Places
<1>2. c \in Nat
  BY <1>1, MaxOfTwo DEF Constrain
<1>3. fit \in Nat
  BY <1>1, ItemsThatFitTyped
<1> HIDE DEF c, fit
<1>4. low \in Nat /\ high \in Nat
  BY <1>1, <1>2, <1>3, MaxOfTwo, MinOfTwo
<1>5. lines \in Int
  <2>1. CASE c < Count(l)
    <3>1. Get(l, c) \in Items
      BY <1>1, <1>2, <2>1, GetTyped
    <3> QED
      BY <2>1, <3>1, NumLinesTyped
  <2> QED
    BY <2>1, GeometryAssumption
<1> HIDE DEF low, high
<1>6. o \in Nat
  BY <1>1, <1>4 DEF Constrain
<1>7. around \in Nat
  BY MinOfTwo
<1> HIDE DEF o, lines, around
<1>8. Scrolled(h, l, c, o, low, high, around, lines) \in Nat
  <2>1. c \in Int
    BY <1>2
  <2> QED
    BY <2>1, <1>4, <1>5, <1>6, <1>7, ScrolledTyped, Zenon
<1>9. Constrained(h, l, off, p) =
        [cy |-> c, offset |-> IF off = 0 THEN o
                              ELSE Scrolled(h, l, c, o, low, high, around, lines)]
  BY DEF Constrained, Framed, Bounded, c, fit, low, high, o, lines, around
<1> QED
  BY <1>2, <1>6, <1>8, <1>9 DEF Places, c

\* constrain moves the cursor into the list, and leaves it alone when it is
\* there.
LEMMA ConstrainToTyped ==
  ASSUME NEW h \in Nat \ {0}, NEW l, Shows(l), NEW off \in Nat, NEW c \in Int, NEW o \in Int
  PROVE  /\ ConstrainTo(h, l, off, c, o) \in Places
         /\ ConstrainTo(h, l, off, c, o).cy = Constrain(c, 0, Max({0, Count(l) - 1}))
<1> DEFINE n == h
           Round(p, k) == Constrained(h, l, off, p)
           S == Places
           start == Place(c, Constrain(o, 0, Count(l)))
           last == Max({0, Count(l) - 1})
<1>1. n \in Nat /\ start \in S /\ start.cy = c
  BY CountTyped DEF Places, Place, Constrain
<1>2. last \in Nat
  BY CountTyped, MaxOfTwo
<1>3. ASSUME NEW p \in S, NEW k \in 1..n
      PROVE  Round(p, k) \in S /\ Round(p, k).cy = Constrain(p.cy, 0, last)
  BY ConstrainedTyped
<1> HIDE DEF n, Round, S, start, last
<1> DEFINE F == [k \in 1..n |-> [s \in S |-> Round(s, k)]]
           f == CHOOSE f : Follows(f, n, start, Round)
<1>4. PICK g : IsChain(g, F, n, S, start)
  <2>1. Steps(F, n, S)
    BY <1>3 DEF Steps
  <2> HIDE DEF F
  <2> QED
    BY <1>1, <2>1, ChainExists
<1>5. ASSUME NEW k \in 1..n
      PROVE  g[k - 1] \in S /\ g[k] = Round(g[k - 1], k)
  <2>1. g[k - 1] \in S
    BY <1>1, <1>4 DEF IsChain
  <2>2. F[k] = [s \in S |-> Round(s, k)]
    OBVIOUS
  <2> HIDE DEF F
  <2>3. g[k] = F[k][g[k - 1]]
    BY <1>4 DEF IsChain
  <2> QED
    BY <2>1, <2>2, <2>3
<1>6. Follows(g, n, start, Round)
  BY <1>1, <1>4, <1>5 DEF IsChain, Follows
<1>7. f[0] = start /\ \A k \in 1..n : f[k] = Round(f[k - 1], k)
  <2>1. Follows(f, n, start, Round)
    BY <1>6
  <2> HIDE DEF f
  <2> QED
    BY <1>1, <2>1 DEF Follows
<1>8. ConstrainTo(h, l, off, c, o) = f[n]
  BY DEF ConstrainTo, n, start, Repeated, Round, Follows
<1> HIDE DEF f
<1>9. \A k \in 0..n : f[k] \in {p \in Places : p.cy = IF k = 0 THEN c ELSE Constrain(c, 0, last)}
  <2> DEFINE T == [k \in 0..n |-> {p \in Places : p.cy = IF k = 0 THEN c
                                                       ELSE Constrain(c, 0, last)}]
  <2>1. f[0] \in T[0]
    BY <1>1, <1>7 DEF S
  <2>2. ASSUME NEW k \in 1..n, f[k - 1] \in T[k - 1]
        PROVE  f[k] \in T[k]
    <3>1. f[k - 1] \in Places /\ f[k - 1].cy = IF k - 1 = 0 THEN c ELSE Constrain(c, 0, last)
      BY <1>1, <2>2
    <3>2. f[k] \in Places /\ f[k].cy = Constrain(f[k - 1].cy, 0, last)
      BY <1>3, <1>7, <3>1 DEF S
    <3>3. f[k].cy = Constrain(c, 0, last)
      BY <1>2, <3>1, <3>2 DEF Constrain
    <3> QED
      BY <1>1, <3>2, <3>3
  <2>3. \A k \in 0..n : f[k] \in T[k]
    <3> HIDE DEF T
    <3> QED
      BY <1>1, <2>1, <2>2, ChainStays
  <2> QED
    BY <2>3
<1>10. n \in 0..n /\ n # 0
  BY DEF n
<1> QED
  BY <1>8, <1>9, <1>10 DEF last

(***************************************************************************)
(* The rows of the screen                                                  *)
(***************************************************************************)

RowSet ==
    [kind : {"none", "item", "other", "empty"}, first : Int, lines : Int, cy : Int,
     current : BOOLEAN, selected : BOOLEAN, label : Int, item : Items \cup {NoItem}]
Screens == [0..(Max(Heights) - 1) -> RowSet]
Drawing == [line : Nat, rows : Screens]

\* On the row r begins an item, and it is followed by its other rows and then
\* by the gap.
Begins(w, r) == w[r].kind = "item" /\ w[r].first = r
Whole(w, r, h) ==
    \A q \in r..(h - 1) :
        /\ q < r + w[r].lines - Gap => SameLook(w[q], w[r])
        /\ q >= r + w[r].lines - Gap /\ q < r + w[r].lines => w[q] = Blank("other", q)

\* What printItem may rely on when it leaves rows alone.
WellDrawn(w, h) == \A r \in 0..(h - 1) : Begins(w, r) => Whole(w, r, h)

LEMMA RowsTyped ==
  ASSUME NEW h \in Heights, NEW w \in Screens
  PROVE  \A q \in 0..(h - 1) : q \in DOMAIN w /\ w[q] \in RowSet
<1> DEFINE top == Max(Heights)
<1>1. top \in Nat /\ h \in Nat /\ h <= top
  BY WindowTyped
<1> HIDE DEF top
<1>2. w \in [0..(top - 1) -> RowSet]
  BY DEF Screens, top
<1> HIDE DEF RowSet
<1>3. \A q \in 0..(h - 1) : q \in 0..(top - 1)
  BY <1>1
<1> QED
  BY <1>2, <1>3

LEMMA BlankTyped ==
  ASSUME NEW r \in Int, NEW kind \in {"none", "other", "empty"}
  PROVE  /\ Blank(kind, r) \in RowSet
         /\ Blank(kind, r).kind = kind
BY DEF Blank, RowSet

LEMMA NoRowsTyped ==
  ASSUME NEW h \in Heights
  PROVE  /\ NoRows \in Screens
         /\ \A r \in 0..(h - 1) : NoRows[r].kind = "none"
         /\ WellDrawn(NoRows, h)
<1>1. NoRows \in Screens
  BY BlankTyped DEF NoRows, Screens
<1>2. \A r \in 0..(h - 1) : NoRows[r].kind = "none"
  BY BlankTyped, WindowTyped DEF NoRows
<1> QED
  BY <1>1, <1>2 DEF WellDrawn, Begins

\* Rows that look the same are the same but for the place of the item.
LEMMA LookFields ==
  ASSUME NEW a \in RowSet, NEW b \in RowSet
  PROVE  SameLook(a, b) <=>
           /\ a.kind = b.kind /\ a.first = b.first /\ a.lines = b.lines
           /\ a.current = b.current /\ a.selected = b.selected
           /\ a.label = b.label /\ a.item = b.item
BY DEF SameLook, RowSet

LEMMA ItemLineTyped ==
  ASSUME NEW l, Shows(l), NEW p \in Places, NEW c \in 0..(Count(l) - 1), NEW sel, NEW jump,
         NEW h \in Nat, NEW line \in Nat, line < h
  PROVE  /\ ItemLine(l, p, c, sel, jump, h, line) \in RowSet
         /\ ItemLine(l, p, c, sel, jump, h, line).kind = "item"
         /\ ItemLine(l, p, c, sel, jump, h, line).first = line
         /\ ItemLine(l, p, c, sel, jump, h, line).lines - Gap \in 1..(h - line)
<1> DEFINE item == Get(l, c)
           lines == NumLines(item, h - line).lines
           labelled == jump # "no" /\ c - p.offset < JumpLabels
<1>1. item \in Items
  BY GetTyped
<1> HIDE DEF item
<1>2. lines \in Int /\ lines - Gap \in 1..(h - line)
  BY <1>1, NumLinesTyped
<1>3. labelled \in BOOLEAN
  OBVIOUS
<1>4. p.cy \in Int /\ p.offset \in Nat /\ c \in Int
  BY CountTyped DEF Places
<1> HIDE DEF lines, labelled
<1> DEFINE current == IF labelled THEN (c - p.offset) % 2 = 0 ELSE c = p.cy
           chosen == Contains(sel, item)
           label == IF labelled THEN c - p.offset ELSE -1
<1>5. ItemLine(l, p, c, sel, jump, h, line) =
        [kind |-> "item", first |-> line, lines |-> lines, cy |-> c, current |-> current,
         selected |-> chosen, label |-> label, item |-> item]
  BY DEF ItemLine, ItemRow, lines, labelled, item
<1>6. current \in BOOLEAN /\ chosen \in BOOLEAN /\ label \in Int
  <2>1. current \in BOOLEAN
    BY <1>3
  <2>2. chosen \in BOOLEAN
    BY DEF Contains
  <2>3. label \in Int
    BY <1>4
  <2> QED
    BY <2>1, <2>2, <2>3
<1> HIDE DEF current, chosen, label
<1> QED
  BY <1>1, <1>2, <1>4, <1>5, <1>6 DEF RowSet

\* Nothing that begins above the line that is drawn next reaches below it.
Closed(s, h) ==
    s.line < h => \A r \in 0..(s.line - 1) : Begins(s.rows, r) => r + s.rows[r].lines <= s.line

\* The look of the row q after an item was drawn that ends before the row `end'.
Expected(new, end, q) == IF q < end - Gap THEN new ELSE Blank("other", q)

ItemDrawn(s, t, new, h) ==
    /\ t \in Drawing /\ WellDrawn(t.rows, h) /\ Closed(t, h)
    /\ IF s.line + new.lines <= h THEN t.line = s.line + new.lines ELSE t.line >= h
    /\ \A q \in 0..(h - 1) :
        /\ q < s.line => t.rows[q] = s.rows[q]
        /\ q >= s.line /\ q < s.line + new.lines =>
             SameLook(t.rows[q], Expected(new, s.line + new.lines, q))

\* An item that is not drawn again is already there.
LEMMA PrintItemSkips ==
  ASSUME NEW h \in Heights, NEW s \in Drawing, s.line < h, WellDrawn(s.rows, h), Closed(s, h),
         NEW new \in RowSet, new.kind = "item", new.first = s.line,
         new.lines - Gap \in 1..(h - s.line), SameLook(s.rows[s.line], new)
  PROVE  ItemDrawn(s, [s EXCEPT !.line = @ + new.lines], new, h)
<1> DEFINE line == s.line
           w == s.rows
           end == line + new.lines
           t == [line |-> end, rows |-> w]
<1>1. line \in 0..(h - 1) /\ h \in Nat /\ w \in Screens /\ Gap \in Nat /\ new.lines \in Int
  BY WindowTyped, GeometryAssumption DEF Drawing, RowSet
<1>2. \A q \in 0..(h - 1) : w[q] \in RowSet
  BY <1>1, RowsTyped
<1>3. end > line /\ end - Gap > line /\ end \in Nat
  BY <1>1
<1>4. [s EXCEPT !.line = @ + new.lines] = t /\ t \in Drawing
  BY <1>1, <1>3 DEF Drawing
<1> HIDE DEF t
<1>5. t.line = end /\ t.rows = w
  BY DEF t
<1>6. /\ w[line].kind = "item" /\ w[line].first = line /\ w[line].lines = new.lines
      /\ SameLook(w[line], new)
  BY <1>1, <1>2, LookFields
<1>7. Whole(w, line, h) /\ WellDrawn(w, h)
  BY <1>1, <1>6 DEF WellDrawn, Begins
<1>8. \A r \in 0..(line - 1) : Begins(w, r) => r + w[r].lines <= line
  BY DEF Closed
<1> HIDE DEF line, w
<1>9. ASSUME NEW q \in line..(h - 1), q < end
      PROVE  /\ q < end - Gap => SameLook(w[q], w[line])
             /\ q >= end - Gap => w[q] = Blank("other", q)
  <2>1. /\ q < line + w[line].lines - Gap => SameLook(w[q], w[line])
        /\ q >= line + w[line].lines - Gap /\ q < line + w[line].lines => w[q] = Blank("other", q)
    BY <1>7 DEF Whole
  <2>2. /\ q < line + new.lines - Gap => SameLook(w[q], w[line])
        /\ q >= line + new.lines - Gap /\ q < line + new.lines => w[q] = Blank("other", q)
    BY <1>6, <2>1
  <2>3. CASE q < end - Gap
    BY <1>1, <2>2, <2>3
  <2>4. CASE q >= end - Gap
    BY <1>1, <1>9, <2>2, <2>4
  <2> QED
    BY <1>1, <1>3, <2>3, <2>4
<1> HIDE DEF end
<1>10. ASSUME NEW r \in 0..(end - 1), r < h, Begins(w, r)
       PROVE  r + w[r].lines <= end
  <2>1. CASE r < line
    <3>1. r + w[r].lines <= line /\ w[r].lines \in Int
      BY <1>1, <1>2, <1>8, <1>10, <2>1 DEF RowSet
    <3> QED
      BY <1>1, <1>3, <3>1
  <2>2. CASE r = line
    BY <1>1, <1>6, <2>2 DEF end
  <2>3. CASE r > line
    <3>1. r \in line..(h - 1) /\ r \in 0..(h - 1) /\ r < end
      BY <1>1, <1>3, <1>10, <2>3
    <3>2. r >= end - Gap
      <4> SUFFICES ASSUME r < end - Gap
                   PROVE  FALSE
        BY <1>1, <1>3
      <4>1. SameLook(w[r], w[line])
        BY <1>9, <3>1
      <4>2. w[r].first = line
        BY <1>1, <1>2, <1>6, <3>1, <4>1, LookFields
      <4> QED
        BY <1>1, <1>10, <2>3, <4>2 DEF Begins
    <3>3. w[r].kind = "other"
      BY <1>9, <3>1, <3>2, BlankTyped
    <3> QED
      BY <1>10, <3>3 DEF Begins
  <2> QED
    BY <1>1, <1>10, <2>1, <2>2, <2>3
<1>11. Closed(t, h)
  <2>1. \A r \in 0..(end - 1) : end < h => r < h
    BY <1>1, <1>3
  <2> QED
    BY <1>5, <1>10, <2>1 DEF Closed
<1>12. ASSUME NEW q \in 0..(h - 1), q >= line, q < end
       PROVE  SameLook(w[q], Expected(new, end, q))
  <2>1. CASE q < end - Gap
    <3>1. SameLook(w[q], w[line])
      BY <1>1, <1>9, <1>12, <2>1
    <3> QED
      BY <1>6, <2>1, <3>1 DEF Expected, SameLook
  <2>2. CASE q >= end - Gap
    <3>1. w[q] = Blank("other", q)
      BY <1>1, <1>9, <1>12, <2>2
    <3> QED
      BY <1>1, <1>3, <2>2, <3>1 DEF Expected, SameLook
  <2> QED
    BY <1>1, <1>3, <2>1, <2>2
<1> QED
  BY <1>1, <1>3, <1>4, <1>5, <1>7, <1>11, <1>12 DEF ItemDrawn, line, w, end

\* An item that is drawn leaves what is above it, and what is below it.
LEMMA PrintItemDraws ==
  ASSUME NEW h \in Heights, NEW s \in Drawing, s.line < h, WellDrawn(s.rows, h), Closed(s, h),
         NEW new \in RowSet, new.kind = "item", new.first = s.line,
         new.lines - Gap \in 1..(h - s.line)
  PROVE  ItemDrawn(s, DrawItem(s, new, s.line + new.lines - Gap - 1,
                              Min({h - 1, s.line + new.lines - Gap - 1 + Gap})), new, h)
<1> DEFINE line == s.line
           w == s.rows
           last == line + new.lines - Gap - 1
           e == Min({h - 1, last + Gap})
           v == [r \in DOMAIN w |-> CASE r \in line..last -> new
                                     [] r \in (last + 1)..e -> Blank("other", r)
                                     [] OTHER -> w[r]]
           t == [line |-> e + 1, rows |-> v]
           end == line + new.lines
<1>1. line \in 0..(h - 1) /\ h \in Nat /\ w \in Screens /\ Gap \in Nat /\ new.lines \in Int
  BY WindowTyped, GeometryAssumption DEF Drawing, RowSet
<1>2. /\ last \in line..(h - 1) /\ end = last + Gap + 1 /\ end \in Nat
      /\ e = IF end <= h THEN end - 1 ELSE h - 1
  BY <1>1, MinOfTwo
<1>3. DrawItem(s, new, last, e) = t
  BY DEF DrawItem
<1> HIDE DEF line, w, last, e, end
<1>4. \A q \in 0..(h - 1) : q \in DOMAIN w /\ w[q] \in RowSet
  BY <1>1, WindowTyped DEF Screens
<1>5. /\ \A q \in line..last : v[q] = new
      /\ \A q \in (last + 1)..e : v[q] = Blank("other", q)
      /\ \A q \in 0..(line - 1) : v[q] = w[q]
      /\ \A q \in (e + 1)..(h - 1) : v[q] = w[q]
  BY <1>1, <1>2, <1>4
<1>6. v \in Screens
  <2>1. \A q \in Int : Blank("other", q) \in RowSet
    BY BlankTyped
  <2> QED
    BY <1>1, <1>2, <2>1 DEF Screens
<1> HIDE DEF v
<1>7. t \in Drawing /\ t.line = e + 1 /\ t.rows = v
  BY <1>1, <1>2, <1>6 DEF Drawing
<1> HIDE DEF t
<1>8. \A r \in 0..(line - 1) : Begins(w, r) => r + w[r].lines <= line
  BY DEF Closed, line, w
<1>9. ASSUME NEW r \in line..e, Begins(v, r)
      PROVE  r = line /\ v[r] = new
  <2>1. CASE r <= last
    BY <1>1, <1>2, <1>5, <1>9, <2>1 DEF Begins, line
  <2>2. CASE r > last
    <3>1. v[r] = Blank("other", r)
      BY <1>1, <1>2, <1>5, <2>2
    <3> QED
      BY <1>1, <1>2, <1>9, <3>1, BlankTyped DEF Begins
  <2> QED
    BY <1>1, <1>2, <2>1, <2>2
<1>10. WellDrawn(v, h)
  <2> SUFFICES ASSUME NEW r \in 0..(h - 1), Begins(v, r)
               PROVE  Whole(v, r, h)
    BY DEF WellDrawn
  <2>1. CASE r < line
    <3>1. v[r] = w[r]
      BY <1>1, <1>5, <2>1
    <3>2. Begins(w, r) /\ r + w[r].lines <= line /\ w[r].lines \in Int
      BY <1>1, <1>4, <1>8, <2>1, <3>1 DEF Begins, RowSet
    <3>3. Whole(w, r, h)
      BY <3>2 DEF WellDrawn, w
    <3>4. \A q \in r..(h - 1) : q < r + w[r].lines => q \in 0..(line - 1) /\ v[q] = w[q]
      BY <1>1, <1>5, <3>2
    <3> QED
      BY <1>1, <3>1, <3>2, <3>3, <3>4 DEF Whole
  <2>2. CASE r \in line..e
    <3>1. r = line /\ v[r] = new
      BY <1>9, <2>2
    <3>2. ASSUME NEW q \in r..(h - 1), q < r + new.lines - Gap
          PROVE  SameLook(v[q], new)
      <4>1. q \in line..last
        BY <1>1, <3>1, <3>2 DEF last
      <4> QED
        BY <1>5, <4>1 DEF SameLook
    <3>3. ASSUME NEW q \in r..(h - 1), q >= r + new.lines - Gap, q < r + new.lines
          PROVE  v[q] = Blank("other", q)
      <4>1. q \in (last + 1)..e
        BY <1>1, <1>2, <3>1, <3>3 DEF last, end
      <4> QED
        BY <1>5, <4>1
    <3> QED
      BY <3>1, <3>2, <3>3 DEF Whole
  <2>3. CASE r > e
    <3>1. \A q \in r..(h - 1) : v[q] = w[q]
      BY <1>1, <1>2, <1>5, <2>3
    <3>2. v[r] = w[r]
      BY <3>1
    <3>3. Whole(w, r, h)
      BY <3>2 DEF WellDrawn, Begins, w
    <3> QED
      BY <3>1, <3>2, <3>3 DEF Whole
  <2> QED
    BY <1>1, <1>2, <2>1, <2>2, <2>3
<1>11. Closed(t, h)
  <2> SUFFICES ASSUME e + 1 < h, NEW r \in 0..e, Begins(v, r)
               PROVE  r + v[r].lines <= e + 1
    BY <1>1, <1>2, <1>7 DEF Closed
  <2>1. end = e + 1
    BY <1>1, <1>2
  <2>2. CASE r < line
    <3>1. v[r] = w[r] /\ w[r] \in RowSet
      BY <1>1, <1>4, <1>5, <2>2
    <3>2. r + w[r].lines <= line
      BY <1>1, <1>8, <2>2, <3>1 DEF Begins
    <3> QED
      BY <1>1, <1>2, <2>1, <3>1, <3>2 DEF RowSet
  <2>3. CASE r >= line
    <3>1. r = line /\ v[r] = new
      BY <1>1, <1>2, <1>9, <2>3
    <3> QED
      BY <1>1, <2>1, <3>1 DEF end
  <2> QED
    BY <1>1, <2>2, <2>3
<1>12. ASSUME NEW q \in 0..(h - 1), q >= line, q < end
       PROVE  SameLook(v[q], Expected(new, end, q))
  <2>1. CASE q < end - Gap
    <3>1. q \in line..last
      BY <1>1, <1>2, <1>12, <2>1
    <3> QED
      BY <1>5, <2>1, <3>1 DEF Expected, SameLook
  <2>2. CASE q >= end - Gap
    <3>1. q \in (last + 1)..e
      BY <1>1, <1>2, <1>12, <2>2
    <3> QED
      BY <1>1, <1>2, <1>5, <2>2, <3>1 DEF Expected, SameLook
  <2> QED
    BY <1>1, <1>2, <2>1, <2>2
<1>13. \A q \in 0..(h - 1) : q < line => v[q] = w[q]
  BY <1>1, <1>5
<1>14. IF end <= h THEN e + 1 = end ELSE e + 1 >= h
  BY <1>1, <1>2
<1>15. ItemDrawn(s, t, new, h)
  BY <1>7, <1>10, <1>11, <1>12, <1>13, <1>14 DEF ItemDrawn, line, w, end
<1> QED
  BY <1>3, <1>15 DEF line, last, e

LEMMA PrintItemExact ==
  ASSUME NEW h \in Heights, NEW s \in Drawing, s.line < h, WellDrawn(s.rows, h), Closed(s, h),
         NEW new \in RowSet, new.kind = "item", new.first = s.line,
         new.lines - Gap \in 1..(h - s.line)
  PROVE  ItemDrawn(s, PrintItem(s, new, h), new, h)
<1>1. s.line \in Nat /\ h \in Nat
  BY WindowTyped DEF Drawing
<1>2. CASE SameLook(s.rows[s.line], new)
  <2>1. PrintItem(s, new, h) = [s EXCEPT !.line = @ + new.lines]
    BY <1>1, <1>2 DEF PrintItem, PrintNew
  <2> QED
    BY <1>2, <2>1, PrintItemSkips
<1>3. CASE ~SameLook(s.rows[s.line], new)
  <2>1. PrintItem(s, new, h) = DrawItem(s, new, s.line + new.lines - Gap - 1,
                                        Min({h - 1, s.line + new.lines - Gap - 1 + Gap}))
    BY <1>1, <1>3 DEF PrintItem, PrintNew
  <2> QED
    BY <2>1, PrintItemDraws
<1> QED
  BY <1>2, <1>3

Listed(l, p) == Max({0, Count(l) - p.offset})
Fine(s, h) == s \in Drawing /\ WellDrawn(s.rows, h) /\ Closed(s, h)

\* The drawings after 0, 1, ... items.
Draws(f, l, p, sel, jump, h, before) ==
    /\ f[0] = [line |-> 0, rows |-> before]
    /\ \A k \in 0..Listed(l, p) : Fine(f[k], h)
    /\ \A k \in 1..Listed(l, p) :
        /\ f[k - 1].line >= h => f[k] = f[k - 1]
        /\ f[k - 1].line < h =>
             ItemDrawn(f[k - 1], f[k],
                      ItemLine(l, p, p.offset + k - 1, sel, jump, h, f[k - 1].line), h)
    /\ PrintList(l, p, sel, jump, h, before) = Emptied(f[Listed(l, p)], h)

LEMMA PrintListDraws ==
  ASSUME NEW h \in Heights, NEW l, Shows(l), NEW p \in Places, NEW sel, NEW jump,
         NEW before \in Screens, WellDrawn(before, h)
  PROVE  \E f : Draws(f, l, p, sel, jump, h, before)
<1> DEFINE n == Listed(l, p)
           Draw(s, k) == PrintItem(s, ItemLine(l, p, p.offset + k - 1, sel, jump, h, s.line), h)
           S == {s \in Drawing : WellDrawn(s.rows, h) /\ Closed(s, h)}
           start == [line |-> 0, rows |-> before]
<1>1. /\ n \in Nat /\ start \in S
      /\ \A k \in 1..n : p.offset + k - 1 \in 0..(Count(l) - 1)
  <2>1. p.offset \in Nat /\ Count(l) \in Nat
    BY CountTyped DEF Places
  <2>2. n \in Nat /\ \A k \in 1..n : p.offset + k - 1 \in 0..(Count(l) - 1)
    BY <2>1, MaxOfTwo DEF Listed
  <2>3. start \in Drawing /\ Closed(start, h)
    BY DEF Drawing, Closed
  <2> QED
    BY <2>2, <2>3
<1>2. ASSUME NEW s \in S, NEW k \in 1..n
      PROVE  /\ Draw(s, k) \in S
             /\ s.line >= h => Draw(s, k) = s
             /\ s.line < h =>
                  ItemDrawn(s, Draw(s, k),
                           ItemLine(l, p, p.offset + k - 1, sel, jump, h, s.line), h)
  <2>1. s.line \in Nat /\ h \in Nat
    BY WindowTyped DEF Drawing
  <2> DEFINE new == ItemLine(l, p, p.offset + k - 1, sel, jump, h, s.line)
  <2>2. CASE s.line >= h
    BY <2>1, <2>2 DEF PrintItem, PrintNew
  <2>3. CASE s.line < h
    <3>1. /\ new \in RowSet /\ new.kind = "item" /\ new.first = s.line
          /\ new.lines - Gap \in 1..(h - s.line)
      BY <1>1, <2>1, <2>3, ItemLineTyped
    <3> HIDE DEF new
    <3>2. ItemDrawn(s, PrintItem(s, new, h), new, h)
      BY <2>3, <3>1, PrintItemExact
    <3>3. Draw(s, k) = PrintItem(s, new, h)
      BY DEF new
    <3> HIDE DEF Draw
    <3>4. Draw(s, k) \in S
      BY <3>2, <3>3 DEF ItemDrawn
    <3> QED
      BY <2>1, <2>3, <3>2, <3>3, <3>4 DEF new
  <2> QED
    BY <2>1, <2>2, <2>3
<1> HIDE DEF Draw, S, start, n
<1> DEFINE drawn == Repeated(Draw, n, start)
<1> DEFINE F == [k \in 1..n |-> [s \in S |-> Draw(s, k)]]
           f == CHOOSE f : Follows(f, n, start, Draw)
<1>3. PICK g : IsChain(g, F, n, S, start)
  <2>1. Steps(F, n, S)
    BY <1>2 DEF Steps
  <2> HIDE DEF F
  <2> QED
    BY <1>1, <2>1, ChainExists
<1>4. ASSUME NEW k \in 1..n
      PROVE  g[k - 1] \in S /\ g[k] = Draw(g[k - 1], k)
  <2>1. g[k - 1] \in S
    BY <1>1, <1>3 DEF IsChain
  <2>2. F[k] = [s \in S |-> Draw(s, k)]
    OBVIOUS
  <2> HIDE DEF F
  <2>3. g[k] = F[k][g[k - 1]]
    BY <1>3 DEF IsChain
  <2> QED
    BY <2>1, <2>2, <2>3
<1>5. Follows(g, n, start, Draw)
  BY <1>1, <1>3, <1>4 DEF IsChain, Follows
<1>6. f[0] = start /\ \A k \in 1..n : f[k] = Draw(f[k - 1], k)
  <2>1. Follows(f, n, start, Draw)
    BY <1>5
  <2> HIDE DEF f
  <2> QED
    BY <1>1, <2>1 DEF Follows
<1>7. drawn = f[n]
  BY DEF drawn, Repeated, Draw, Follows
<1> HIDE DEF f
<1>8. \A k \in 0..n : f[k] \in S
  <2>1. f[0] \in S /\ \A k \in 1..n : f[k - 1] \in S => f[k] \in S
    BY <1>1, <1>2, <1>6
  <2> QED
    BY <1>1, <2>1, ChainIn
<1>9. drawn \in S
  BY <1>1, <1>7, <1>8
<1>10. PrintList(l, p, sel, jump, h, before) = Emptied(drawn, h)
  BY DEF PrintList, drawn, Draw, n, Listed, start
<1> HIDE DEF drawn
<1>11. \A k \in 1..n : f[k - 1] \in S /\ f[k] = Draw(f[k - 1], k)
  BY <1>1, <1>6, <1>8
<1>12. Draws(f, l, p, sel, jump, h, before)
  <2>1. \A k \in 0..n : Fine(f[k], h)
    BY <1>8 DEF S, Fine
  <2>2. f[0] = [line |-> 0, rows |-> before]
    BY <1>6 DEF start
  <2>3. ASSUME NEW k \in 1..n
        PROVE  /\ f[k - 1].line >= h => f[k] = f[k - 1]
               /\ f[k - 1].line < h =>
                    ItemDrawn(f[k - 1], f[k],
                             ItemLine(l, p, p.offset + k - 1, sel, jump, h, f[k - 1].line), h)
    <3> DEFINE s == f[k - 1]
    <3>1. s \in S /\ f[k] = Draw(s, k)
      BY <1>11
    <3> HIDE DEF s
    <3>2. /\ s.line >= h => f[k] = s
          /\ s.line < h =>
               ItemDrawn(s, f[k], ItemLine(l, p, p.offset + k - 1, sel, jump, h, s.line), h)
      BY <1>2, <3>1
    <3> QED
      BY <3>2 DEF s
  <2> QED
    BY <1>7, <1>10, <2>1, <2>2, <2>3 DEF Draws, n
<1> QED
  BY <1>12

LEMMA EmptiedExact ==
  ASSUME NEW h \in Heights, NEW s, Fine(s, h)
  PROVE  /\ Emptied(s, h) \in Screens
         /\ WellDrawn(Emptied(s, h), h)
         /\ \A q \in 0..(h - 1) :
              Emptied(s, h)[q] = IF q < s.line THEN s.rows[q] ELSE Blank("empty", q)
<1> DEFINE w == s.rows
           v == Emptied(s, h)
           line == s.line
<1>1. line \in Nat /\ w \in Screens /\ h \in Nat
  BY WindowTyped DEF Fine, Drawing
<1>2. \A q \in 0..(h - 1) : q \in DOMAIN w /\ w[q] \in RowSet
  BY <1>1, WindowTyped DEF Screens
<1>3. \A q \in Int : Blank("empty", q) \in RowSet /\ Blank("empty", q).kind = "empty"
  BY BlankTyped
<1>4. v = [r \in DOMAIN w |-> IF r \in line..(h - 1) THEN Blank("empty", r) ELSE w[r]]
  BY DEF Emptied
<1>5. WellDrawn(w, h) /\ (line < h => \A r \in 0..(line - 1) : Begins(w, r) => r + w[r].lines <= line)
  BY DEF Fine, Closed
<1> HIDE DEF w, v, line
<1>6. v \in Screens
  BY <1>1, <1>3, <1>4 DEF Screens
<1>7. \A q \in 0..(h - 1) : v[q] = IF q < line THEN w[q] ELSE Blank("empty", q)
  BY <1>1, <1>2, <1>4
<1>8. WellDrawn(v, h)
  <2> SUFFICES ASSUME NEW r \in 0..(h - 1), Begins(v, r)
               PROVE  Whole(v, r, h)
    BY DEF WellDrawn
  <2>1. r < line /\ v[r] = w[r] /\ Begins(w, r)
    BY <1>1, <1>3, <1>7 DEF Begins
  <2>2. Whole(w, r, h)
    BY <1>5, <2>1 DEF WellDrawn
  <2>3. w[r].lines \in Int
    BY <1>2 DEF RowSet
  <2>4. ASSUME NEW q \in r..(h - 1), q < r + w[r].lines
        PROVE  v[q] = w[q]
    <3>1. q < line
      BY <1>1, <1>5, <2>1, <2>3, <2>4
    <3> QED
      BY <1>7, <3>1
  <2>5. \A q \in r..(h - 1) : q < r + w[r].lines - Gap => q < r + w[r].lines
    BY <2>3, GeometryAssumption
  <2> QED
    BY <2>1, <2>2, <2>4, <2>5 DEF Whole
<1> QED
  BY <1>6, <1>7, <1>8 DEF w, v, line

LEMMA PrintListTyped ==
  ASSUME NEW h \in Heights, NEW l, Shows(l), NEW p \in Places, NEW sel, NEW jump,
         NEW before \in Screens, WellDrawn(before, h)
  PROVE  /\ PrintList(l, p, sel, jump, h, before) \in Screens
         /\ WellDrawn(PrintList(l, p, sel, jump, h, before), h)
<1>1. PICK f : Draws(f, l, p, sel, jump, h, before)
  BY PrintListDraws
<1>2. Listed(l, p) \in Nat
  <2>1. p.offset \in Nat /\ Count(l) \in Nat
    BY CountTyped DEF Places
  <2> QED
    BY <2>1, MaxOfTwo DEF Listed
<1>3. Fine(f[Listed(l, p)], h)
  BY <1>1, <1>2 DEF Draws
<1>4. PrintList(l, p, sel, jump, h, before) = Emptied(f[Listed(l, p)], h)
  BY <1>1 DEF Draws
<1> QED
  BY <1>3, <1>4, EmptiedExact

\* Up to the line that is drawn next two drawings look the same.
Alike(s, t, h) ==
    /\ s.line = t.line \/ (s.line >= h /\ t.line >= h)
    /\ \A q \in 0..(h - 1) : q < s.line => SameLook(s.rows[q], t.rows[q])

LEMMA AlikeStep ==
  ASSUME NEW h \in Heights, NEW s \in Drawing, NEW t \in Drawing, Alike(s, t, h), s.line < h,
         NEW new \in RowSet, new.lines - Gap \in 1..(h - s.line),
         NEW u, ItemDrawn(s, u, new, h), NEW v, ItemDrawn(t, v, new, h)
  PROVE  Alike(u, v, h)
<1> DEFINE line == s.line
           end == line + new.lines
<1>1. line \in Nat /\ h \in Nat /\ t.line = line /\ new.lines \in Int /\ end > line
  BY WindowTyped, GeometryAssumption DEF Drawing, Alike, RowSet
<1>2. /\ IF end <= h THEN u.line = end ELSE u.line >= h
      /\ IF end <= h THEN v.line = end ELSE v.line >= h
      /\ u.line \in Nat /\ v.line \in Nat
  BY <1>1 DEF ItemDrawn, Drawing
<1>3. ASSUME NEW q \in 0..(h - 1), q < u.line
      PROVE  SameLook(u.rows[q], v.rows[q])
  <2>1. q < end
    BY <1>1, <1>2, <1>3
  <2>2. CASE q < line
    <3>1. u.rows[q] = s.rows[q] /\ v.rows[q] = t.rows[q]
      BY <1>1, <2>2 DEF ItemDrawn
    <3> QED
      BY <2>2, <3>1 DEF Alike
  <2>3. CASE q >= line
    <3>1. SameLook(u.rows[q], Expected(new, end, q)) /\ SameLook(v.rows[q], Expected(new, end, q))
      BY <1>1, <2>1, <2>3 DEF ItemDrawn
    <3> QED
      BY <3>1 DEF SameLook
  <2> QED
    BY <1>1, <2>2, <2>3
<1> QED
  BY <1>1, <1>2, <1>3 DEF Alike

\* It does not matter what was on the screen.
LEMMA PrintListSame ==
  ASSUME NEW h \in Heights, NEW l, Shows(l), NEW p \in Places, NEW sel, NEW jump,
         NEW before \in Screens, WellDrawn(before, h)
  PROVE  \A r \in 0..(h - 1) : SameLook(PrintList(l, p, sel, jump, h, before)[r],
                                        PrintList(l, p, sel, jump, h, NoRows)[r])
<1> DEFINE n == Listed(l, p)
<1>1. PICK f : Draws(f, l, p, sel, jump, h, before)
  BY PrintListDraws
<1>2. PICK g : Draws(g, l, p, sel, jump, h, NoRows)
  BY PrintListDraws, NoRowsTyped
<1>3. n \in Nat /\ h \in Nat /\ \A k \in 1..n : p.offset + k - 1 \in 0..(Count(l) - 1)
  <2>1. p.offset \in Nat /\ Count(l) \in Nat
    BY CountTyped DEF Places
  <2> DEFINE c == Count(l)
             o == p.offset
  <2>2. n = IF 0 < c - o THEN c - o ELSE 0
    <3>1. 0 \in Int /\ c - o \in Int
      BY <2>1
    <3>2. n = Max({0, c - o})
      BY DEF Listed
    <3> HIDE DEF n
    <3> QED
      BY <3>1, <3>2, MaxOfTwo
  <2> HIDE DEF n, c, o
  <2>3. n \in Nat /\ \A k \in 1..n : o + k - 1 \in 0..(c - 1)
    BY <2>1, <2>2 DEF c, o
  <2> QED
    BY <2>3, WindowTyped DEF c, o
<1> HIDE DEF n
<1> DEFINE D == {k \in 0..n : Alike(f[k], g[k], h)}
<1>4. 0 \in D
  BY <1>1, <1>2, <1>3 DEF Draws, Alike
<1>5. ASSUME NEW k \in 1..n, k - 1 \in D
      PROVE  k \in D
  <2> DEFINE s == f[k - 1]
             t == g[k - 1]
             new == ItemLine(l, p, p.offset + k - 1, sel, jump, h, s.line)
  <2>1. s \in Drawing /\ t \in Drawing /\ Alike(s, t, h)
    BY <1>1, <1>2, <1>3, <1>5 DEF Draws, n, Fine
  <2>2. s.line \in Nat /\ t.line \in Nat
    BY <2>1 DEF Drawing
  <2>3. CASE s.line >= h
    <3>1. t.line >= h
      BY <2>1, <2>3 DEF Alike
    <3>2. f[k] = s /\ g[k] = t
      BY <1>1, <1>2, <2>3, <3>1 DEF Draws, n
    <3> QED
      BY <2>1, <3>2
  <2>4. CASE s.line < h
    <3>1. t.line = s.line
      BY <1>3, <2>1, <2>2, <2>4 DEF Alike
    <3>2. ItemDrawn(s, f[k], new, h) /\ ItemDrawn(t, g[k], new, h)
      BY <1>1, <1>2, <2>4, <3>1 DEF Draws, n
    <3>3. new \in RowSet /\ new.lines - Gap \in 1..(h - s.line)
      BY <1>3, <2>2, <2>4, ItemLineTyped
    <3> HIDE DEF new, s, t
    <3>4. Alike(f[k], g[k], h)
      BY <2>1, <2>4, <3>2, <3>3, AlikeStep
    <3> QED
      BY <3>4
  <2> QED
    BY <1>3, <2>2, <2>3, <2>4
<1>6. n \in D
  <2> HIDE DEF D
  <2> QED
    BY <1>3, <1>4, <1>5, UpTo
<1>7. Alike(f[n], g[n], h) /\ Fine(f[n], h) /\ Fine(g[n], h)
  BY <1>1, <1>2, <1>3, <1>6 DEF Draws, n
<1>8. /\ PrintList(l, p, sel, jump, h, before) = Emptied(f[n], h)
      /\ PrintList(l, p, sel, jump, h, NoRows) = Emptied(g[n], h)
  BY <1>1, <1>2 DEF Draws, n
<1>9. f[n].line \in Nat /\ g[n].line \in Nat
  BY <1>7 DEF Fine, Drawing
<1> DEFINE a == Emptied(f[n], h)
           b == Emptied(g[n], h)
<1>10. ASSUME NEW r \in 0..(h - 1)
       PROVE  SameLook(a[r], b[r])
  <2>1. /\ a[r] = IF r < f[n].line THEN f[n].rows[r] ELSE Blank("empty", r)
        /\ b[r] = IF r < g[n].line THEN g[n].rows[r] ELSE Blank("empty", r)
    BY <1>7, EmptiedExact
  <2> HIDE DEF a, b
  <2>2. r < f[n].line <=> r < g[n].line
    BY <1>3, <1>7, <1>9 DEF Alike
  <2>3. CASE r < f[n].line
    BY <1>7, <2>1, <2>2, <2>3 DEF Alike
  <2>4. CASE ~(r < f[n].line)
    BY <2>1, <2>2, <2>4 DEF SameLook
  <2> QED
    BY <2>3, <2>4
<1> QED
  BY <1>8, <1>10

(***************************************************************************)
(* Result lists                                                            *)
(***************************************************************************)

\* The numbers below and above one of a range.
LEMMA CountRange ==
  ASSUME NEW a \in Int, NEW b \in Int, NEW n \in a..b
  PROVE  /\ Cardinality(a..(n - 1)) = n - a
         /\ Cardinality((n + 1)..b) = b - n
<1> DEFINE below == n - 1
           above == n + 1
<1>1. below \in Int /\ above \in Int
  OBVIOUS
<1> HIDE DEF below, above
<1>2. /\ Cardinality(a..below) = IF a > below THEN 0 ELSE below - a + 1
      /\ Cardinality(above..b) = IF above > b THEN 0 ELSE b - above + 1
  BY <1>1, FS_Interval
<1> QED
  BY <1>2 DEF below, above

\* How many of a set come before n.
RankIn(S, n, down) == Cardinality({k \in S : IF down THEN k > n ELSE k < n})

\* Counting those below or above it gives every number of a set its place.
LEMMA Ranks ==
  ASSUME NEW S, IsFiniteSet(S), S \subseteq Int, NEW down \in BOOLEAN,
         NEW i \in 1..Cardinality(S)
  PROVE  \E n \in S : RankIn(S, n, down) = i - 1
<1> DEFINE Before(n) == {k \in S : IF down THEN k > n ELSE k < n}
           c == Cardinality(S)
           rank == [n \in S |-> Cardinality(Before(n))]
           places == 0..(c - 1)
<1>1. c \in Nat /\ i \in 1..c
  BY FS_CardinalityType
<1>2. ASSUME NEW n \in S
      PROVE  /\ Before(n) \subseteq S /\ n \notin Before(n)
             /\ IsFiniteSet(Before(n)) /\ Cardinality(Before(n)) \in Nat
  <2>1. Before(n) \subseteq S /\ n \notin Before(n)
    OBVIOUS
  <2> HIDE DEF Before
  <2> QED
    BY <2>1, FS_Subset, FS_CardinalityType
<1>3. ASSUME NEW n \in S, NEW m \in S, IF down THEN n > m ELSE n < m
      PROVE  Cardinality(Before(n)) < Cardinality(Before(m))
  <2>1. Before(n) \subseteq Before(m) /\ n \in Before(m)
    <3>1. n \in Int /\ m \in Int /\ \A k \in S : k \in Int
      OBVIOUS
    <3>2. CASE down
      <4>1. n > m /\ \A k \in S : k > n => k > m
        BY <1>3, <3>1, <3>2
      <4> QED
        BY <3>2, <4>1
    <3>3. CASE ~down
      <4>1. n < m /\ \A k \in S : k < n => k < m
        BY <1>3, <3>1, <3>3
      <4> QED
        BY <3>3, <4>1
    <3> QED
      BY <3>2, <3>3
  <2>2. n \notin Before(n) /\ IsFiniteSet(Before(m))
    BY <1>2
  <2>3. Cardinality(Before(n)) \in Nat /\ Cardinality(Before(m)) \in Nat
    BY <1>2
  <2> HIDE DEF Before
  <2>4. /\ Cardinality(Before(n)) <= Cardinality(Before(m))
        /\ Cardinality(Before(m)) = Cardinality(Before(n)) => Before(m) = Before(n)
    BY <2>1, <2>2, FS_Subset
  <2> QED
    BY <2>1, <2>2, <2>3, <2>4
<1>4. ASSUME NEW n \in S
      PROVE  Cardinality(Before(n)) \in places
  <2>1. Cardinality(Before(n)) \in Nat /\ Before(n) \subseteq S /\ n \notin Before(n)
    BY <1>2
  <2> HIDE DEF Before
  <2>2. /\ Cardinality(Before(n)) <= c
        /\ c = Cardinality(Before(n)) => S = Before(n)
    BY <2>1, FS_Subset
  <2> QED
    BY <1>1, <2>1, <2>2
<1>5. rank \in [S -> places] /\ \A n \in S : rank[n] = Cardinality(Before(n))
  BY <1>4
<1> HIDE DEF Before, rank
<1>6. \A n, m \in S : n # m => rank[n] # rank[m]
  <2> TAKE n, m \in S
  <2>1. n \in Int /\ m \in Int /\ rank[n] \in Int /\ rank[m] \in Int
    BY <1>5
  <2>2. (IF down THEN n > m ELSE n < m) => rank[n] < rank[m]
    BY <1>3, <1>5
  <2>3. (IF down THEN m > n ELSE m < n) => rank[m] < rank[n]
    BY <1>3, <1>5
  <2> QED
    BY <2>1, <2>2, <2>3
<1>7. rank \in Injection(S, places)
  BY <1>5, <1>6 DEF Injection, IsInjective
<1>8. IsFiniteSet(places) /\ Cardinality(places) = c
  <2> DEFINE zero == 0
             top == c - 1
  <2>1. zero \in Int /\ top \in Int /\ (IF zero > top THEN 0 ELSE top - zero + 1) = c
    BY <1>1
  <2> HIDE DEF zero, top
  <2>2. IsFiniteSet(zero..top) /\ Cardinality(zero..top) = c
    BY <2>1, FS_Interval
  <2> QED
    BY <2>2 DEF zero, top
<1> HIDE DEF places
<1>9. rank \in Surjection(S, places)
  BY <1>7, <1>8, FS_Injection
<1>10. i - 1 \in places
  BY <1>1 DEF places
<1>11. PICK n \in S : rank[n] = i - 1
  BY <1>9, <1>10 DEF Surjection
<1> QED
  BY <1>5, <1>11 DEF Before, RankIn

LEMMA OrderedTyped ==
  ASSUME NEW load, NEW S, S \subseteq 0..MaxIndex, NEW down \in BOOLEAN
  PROVE  Ordered(load, S, down) \in Seq({load} \X (0..MaxIndex))
<1>1. IsFiniteSet(S) /\ S \subseteq Int /\ Cardinality(S) \in Nat
  <2> DEFINE all == 0..MaxIndex
  <2>1. IsFiniteSet(all) /\ S \subseteq all
    BY FS_Interval, GeometryAssumption
  <2> HIDE DEF all
  <2>2. IsFiniteSet(S)
    BY <2>1, FS_Subset
  <2> QED
    BY <2>2, FS_CardinalityType
<1> DEFINE At(i) == CHOOSE n \in S : RankIn(S, n, down) = i - 1
<1>2. ASSUME NEW i \in 1..Cardinality(S)
      PROVE  At(i) \in S
  <2>1. \E n \in S : RankIn(S, n, down) = i - 1
    BY <1>1, Ranks
  <2> QED
    BY <2>1
<1>3. Ordered(load, S, down) = [i \in 1..Cardinality(S) |-> <<load, At(i)>>]
  BY DEF Ordered, RankIn
<1> HIDE DEF At
<1>4. \A i \in 1..Cardinality(S) : <<load, At(i)>> \in {load} \X (0..MaxIndex)
  BY <1>2
<1> QED
  BY <1>1, <1>3, <1>4

\* All items, one after the other.
LEMMA OrderedRange ==
  ASSUME NEW load, NEW a \in Int, NEW b \in Int, NEW down \in BOOLEAN
  PROVE  /\ Len(Ordered(load, a..b, down)) = IF a > b THEN 0 ELSE b - a + 1
         /\ \A i \in 1..Len(Ordered(load, a..b, down)) :
              Ordered(load, a..b, down)[i] = <<load, IF down THEN b - i + 1 ELSE a + i - 1>>
<1> DEFINE c == IF a > b THEN 0 ELSE b - a + 1
           Rank(n) == Cardinality({k \in a..b : IF down THEN k > n ELSE k < n})
           At(i) == CHOOSE n \in a..b : Rank(n) = i - 1
<1>1. c \in Nat /\ Cardinality(a..b) = c
  BY FS_Interval
<1>2. ASSUME NEW n \in a..b
      PROVE  Rank(n) = IF down THEN b - n ELSE n - a
  <2>1. CASE down
    <3>1. {k \in a..b : IF down THEN k > n ELSE k < n} = (n + 1)..b
      BY <2>1
    <3>2. Cardinality((n + 1)..b) = b - n
      BY CountRange
    <3> QED
      BY <2>1, <3>1, <3>2
  <2>2. CASE ~down
    <3>1. {k \in a..b : IF down THEN k > n ELSE k < n} = a..(n - 1)
      BY <2>2
    <3>2. Cardinality(a..(n - 1)) = n - a
      BY CountRange
    <3> QED
      BY <2>2, <3>1, <3>2
  <2> QED
    BY <2>1, <2>2
<1>3. Ordered(load, a..b, down) = [i \in 1..c |-> <<load, At(i)>>]
  BY <1>1 DEF Ordered
<1> HIDE DEF Rank
<1>4. ASSUME NEW i \in 1..c
      PROVE  At(i) = IF down THEN b - i + 1 ELSE a + i - 1
  <2> DEFINE n == IF down THEN b - i + 1 ELSE a + i - 1
  <2>1. n \in a..b
    BY <1>1
  <2>2. \A m \in a..b : Rank(m) = i - 1 <=> m = n
    BY <1>2
  <2> QED
    BY <2>1, <2>2
<1> HIDE DEF At, c
<1>5. Len(Ordered(load, a..b, down)) = c
  BY <1>1, <1>3
<1> QED
  BY <1>3, <1>4, <1>5 DEF c

\* What the coordinator has is a range of the items of a load.
Inputs == {in \in [load : Nat, from : Nat, to : Int, trims : Nat] : in.to >= -1 /\ in.to <= MaxIndex}

ItemsOf(load) == {load} \X (0..MaxIndex)

LEMMA ListsTyped ==
  ASSUME NEW in \in Inputs, NEW new \in ListsOf(in)
  PROVE  /\ new.load = in.load /\ new.trims = in.trims
         /\ new.seq \in Seq(ItemsOf(in.load)) /\ Shows(new)
         /\ new.all => /\ new.min = in.from /\ new.seq = Ordered(in.load, in.from..in.to, Tac)
<1>1. /\ in.load \in Nat /\ in.from \in Nat /\ in.to \in Int /\ in.to <= MaxIndex
      /\ Tac \in BOOLEAN /\ MaxIndex \in Nat
  BY GeometryAssumption, ListAssumption DEF Inputs
<1>2. PICK S \in SUBSET (in.from..in.to), down \in BOOLEAN, all \in BOOLEAN, sorted \in BOOLEAN :
        /\ new = ListOf(in, S, down, all, sorted)
        /\ all => S = in.from..in.to /\ down = Tac
  BY <1>1 DEF ListsOf
<1>3. S \subseteq 0..MaxIndex
  BY <1>1
<1>4. Ordered(in.load, S, down) \in Seq(ItemsOf(in.load))
  BY <1>3, OrderedTyped DEF ItemsOf
<1>5. ItemsOf(in.load) \subseteq Items
  BY <1>1 DEF ItemsOf, Items
<1>6. Seq(ItemsOf(in.load)) \subseteq Seq(Items)
  BY <1>5
<1> QED
  BY <1>2, <1>4, <1>6 DEF ListOf, Shows

\* Merger.FindIndex finds an item of the list.
LEMMA FindIndexRight ==
  ASSUME NEW in \in Inputs, NEW new \in ListsOf(in), NEW item \in ItemsOf(in.load),
         Contains(new.seq, item)
  PROVE  /\ FindIndex(new, Index(item)) \in 0..(Count(new) - 1)
         /\ Get(new, FindIndex(new, Index(item))) = item
<1> DEFINE index == Index(item)
           i == FindIndex(new, index)
<1>1. item = <<in.load, index>> /\ index \in 0..MaxIndex
  BY DEF ItemsOf, Index
<1>2. new.seq \in Seq(ItemsOf(in.load)) /\ Count(new) = Len(new.seq) /\ Count(new) \in Nat
  BY ListsTyped DEF Count
<1>3. PICK j \in 1..Count(new) : new.seq[j] = item
  BY <1>2 DEF Contains
<1>4. CASE new.all
  <2> DEFINE a == in.from
             b == in.to
             n == Len(Ordered(in.load, a..b, Tac))
  <2>1. a \in Int /\ b \in Int /\ Tac \in BOOLEAN
    BY ListAssumption DEF Inputs
  <2>2. new.min = a /\ new.seq = Ordered(in.load, a..b, Tac)
    BY <1>4, ListsTyped
  <2> HIDE DEF a, b
  <2>3. /\ Count(new) = IF a > b THEN 0 ELSE b - a + 1
        /\ \A k \in 1..Count(new) : new.seq[k] = <<in.load, IF Tac THEN b - k + 1 ELSE a + k - 1>>
    BY <1>2, <2>1, <2>2, OrderedRange
  <2>4. index = IF Tac THEN b - j + 1 ELSE a + j - 1
    BY <1>1, <1>3, <2>3
  <2>5. i = IF Tac THEN Count(new) - (index - a) - 1 ELSE index - a
    BY <1>4, <2>2 DEF FindIndex
  <2> HIDE DEF i, index
  <2>6. i = j - 1
    <3>1. Count(new) = b - a + 1
      BY <1>2, <1>3, <2>1, <2>3
    <3>2. CASE Tac
      BY <2>1, <2>4, <2>5, <3>1, <3>2
    <3>3. CASE ~Tac
      BY <2>1, <2>4, <2>5, <3>1, <3>3
    <3> QED
      BY <3>2, <3>3
  <2> QED
    BY <1>2, <1>3, <2>6 DEF Get, i, index
<1>5. CASE ~new.all
  <2> DEFINE T == {-1} \cup {k \in 0..(Count(new) - 1) : Index(Get(new, k)) = index}
  <2>1. i = Max(T)
    BY <1>5 DEF FindIndex
  <2>2. IsFiniteSet(T) /\ T # {} /\ T \subseteq Int
    <3> DEFINE low == -1
               high == Count(new) - 1
    <3>1. T \subseteq low..high
      BY <1>2
    <3>2. low \in Int /\ high \in Int
      BY <1>2
    <3>3. -1 \in T
      OBVIOUS
    <3> HIDE DEF low, high, T
    <3> DEFINE all == low..high
    <3>4. IsFiniteSet(all) /\ T \in SUBSET all /\ T \subseteq Int
      BY <3>1, <3>2, FS_Interval
    <3> HIDE DEF all
    <3> QED
      BY <3>3, <3>4, FS_Subset
  <2>3. j - 1 \in T
    BY <1>1, <1>2, <1>3 DEF Get, Index
  <2>4. i \in T /\ j - 1 <= i
    <3> HIDE DEF T, i
    <3> QED
      BY <2>1, <2>2, <2>3, MaxOfFinite
  <2> HIDE DEF i, index
  <2>5. i \in 0..(Count(new) - 1) /\ Index(Get(new, i)) = index
    BY <1>2, <2>4
  <2>6. Get(new, i) \in ItemsOf(in.load)
    BY <1>2, <2>5 DEF Get
  <2>7. Get(new, i) = <<in.load, index>>
    BY <2>5, <2>6 DEF ItemsOf, Index
  <2> QED
    BY <1>1, <2>5, <2>7 DEF i, index
<1> QED
  BY <1>4, <1>5

(***************************************************************************)
(* The selection                                                           *)
(***************************************************************************)

\* Some of the items of a sequence, each once.
SomeOf(s, seq, k) ==
    /\ Len(s) <= k
    /\ IsInjective(s)
    /\ \A j \in 1..Len(s) : \E i \in 1..k : s[j] = seq[i]

Keeps(s, seq, T, k) ==
    IF seq[k] \in T THEN Append(s, seq[k]) ELSE s

KeptBy(f, seq, T) ==
    /\ f[0] = <<>>
    /\ \A k \in 1..Len(seq) : f[k] = Keeps(f[k - 1], seq, T, k)
    /\ Kept(seq, T) = f[Len(seq)]

LEMMA KeptExists ==
  ASSUME NEW A, NEW seq \in Seq(A), NEW T
  PROVE  \E f : /\ KeptBy(f, seq, T)
                /\ \A k \in 0..Len(seq) : f[k] \in Seq(A)
<1> DEFINE n == Len(seq)
           Add(s, k) == IF seq[k] \in T THEN Append(s, seq[k]) ELSE s
           S == Seq(A)
           none == <<>>
<1>1. n \in Nat /\ none \in S
  OBVIOUS
<1>2. ASSUME NEW s \in S, NEW k \in 1..n
      PROVE  Add(s, k) \in S
  BY <1>1
<1> HIDE DEF n, S, none, Add
<1> DEFINE F == [k \in 1..n |-> [s \in S |-> Add(s, k)]]
           f == CHOOSE f : Follows(f, n, none, Add)
<1>3. PICK g : IsChain(g, F, n, S, none)
  <2>1. Steps(F, n, S)
    BY <1>2 DEF Steps
  <2> HIDE DEF F
  <2> QED
    BY <1>1, <2>1, ChainExists
<1>4. ASSUME NEW k \in 1..n
      PROVE  g[k - 1] \in S /\ g[k] = Add(g[k - 1], k)
  <2>1. g[k - 1] \in S
    BY <1>1, <1>3 DEF IsChain
  <2>2. F[k] = [s \in S |-> Add(s, k)]
    OBVIOUS
  <2> HIDE DEF F
  <2>3. g[k] = F[k][g[k - 1]]
    BY <1>3 DEF IsChain
  <2> QED
    BY <2>1, <2>2, <2>3
<1>5. Follows(g, n, none, Add)
  BY <1>1, <1>3, <1>4 DEF IsChain, Follows
<1>6. f[0] = none /\ \A k \in 1..n : f[k] = Add(f[k - 1], k)
  <2>1. Follows(f, n, none, Add)
    BY <1>5
  <2> HIDE DEF f
  <2> QED
    BY <1>1, <2>1 DEF Follows
<1>7. Kept(seq, T) = f[n]
  BY DEF Kept, n, none, Repeated, Add, Follows
<1> HIDE DEF f
<1>8. \A k \in 0..n : f[k] \in S
  <2>1. f[0] \in S /\ \A k \in 1..n : f[k - 1] \in S => f[k] \in S
    BY <1>1, <1>2, <1>6
  <2> QED
    BY <1>1, <2>1, ChainIn
<1>9. Kept(seq, T) \in S
  BY <1>1, <1>7, <1>8
<1>10. KeptBy(f, seq, T)
  BY <1>6, <1>7 DEF KeptBy, Keeps, n, none, Add
<1> QED
  BY <1>8, <1>10 DEF n, S

LEMMA KeptTyped ==
  ASSUME NEW A, NEW seq \in Seq(A), NEW T
  PROVE  /\ Kept(seq, T) \in Seq(A) /\ Len(Kept(seq, T)) <= Len(seq)
         /\ IsInjective(seq) => IsInjective(Kept(seq, T))
<1>1. PICK f : KeptBy(f, seq, T) /\ \A k \in 0..Len(seq) : f[k] \in Seq(A)
  BY KeptExists
<1> DEFINE n == Len(seq)
           U == [k \in 0..n |-> {s \in Seq(A) : Len(s) <= k
                                  /\ (IsInjective(seq) => SomeOf(s, seq, k))}]
<1>2. n \in Nat
  OBVIOUS
<1>3. f[0] \in U[0]
  BY <1>1, <1>2 DEF KeptBy, SomeOf, IsInjective
<1>4. ASSUME NEW k \in 1..n, f[k - 1] \in U[k - 1]
      PROVE  f[k] \in U[k]
  <2> DEFINE s == f[k - 1]
  <2>1. s \in Seq(A) /\ Len(s) \in Nat /\ Len(s) <= k - 1
        /\ (IsInjective(seq) => SomeOf(s, seq, k - 1))
    BY <1>2, <1>4
  <2>2. f[k] = Keeps(s, seq, T, k) /\ seq[k] \in A
    BY <1>1 DEF KeptBy
  <2> HIDE DEF s, U
  <2>3. f[k] \in Seq(A) /\ Len(f[k]) <= k
    BY <2>1, <2>2 DEF Keeps
  <2>4. ASSUME IsInjective(seq)
        PROVE  SomeOf(f[k], seq, k)
    <3>1. /\ \A a, b \in 1..Len(s) : s[a] = s[b] => a = b
          /\ \A j \in 1..Len(s) : \E i \in 1..(k - 1) : s[j] = seq[i]
      BY <2>1, <2>4 DEF SomeOf, IsInjective
    <3>2. \A i \in 1..(k - 1) : seq[i] # seq[k]
      BY <2>4 DEF IsInjective
    <3>3. CASE seq[k] \notin T
      <4>1. f[k] = s
        BY <2>2, <3>3 DEF Keeps
      <4>2. \A i \in 1..(k - 1) : i \in 1..k
        OBVIOUS
      <4> QED
        BY <2>1, <2>4, <3>1, <4>1, <4>2 DEF SomeOf
    <3>4. CASE seq[k] \in T
      <4> DEFINE t == Append(s, seq[k])
      <4>1. f[k] = t
        BY <2>2, <3>4 DEF Keeps
      <4>2. /\ Len(t) = Len(s) + 1 /\ t[Len(s) + 1] = seq[k]
            /\ \A j \in 1..Len(s) : t[j] = s[j]
            /\ DOMAIN t = 1..(Len(s) + 1)
        BY <2>1, <2>2
      <4> HIDE DEF t
      <4>3. \A j \in 1..Len(s) : t[j] # seq[k]
        BY <3>1, <3>2, <4>2
      <4>4. IsInjective(t)
        <5>1. Len(s) \in Nat
          BY <2>1
        <5>2. ASSUME NEW c \in 1..(Len(s) + 1), NEW d \in 1..(Len(s) + 1), t[c] = t[d]
              PROVE  c = d
          <6>1. CASE c \in 1..Len(s) /\ d \in 1..Len(s)
            BY <3>1, <4>2, <5>2, <6>1
          <6>2. CASE c = Len(s) + 1 \/ d = Len(s) + 1
            BY <4>2, <4>3, <5>1, <5>2, <6>2
          <6> QED
            BY <5>1, <6>1, <6>2
        <5> QED
          BY <4>2, <5>2 DEF IsInjective
      <4>5. ASSUME NEW j \in 1..Len(t)
            PROVE  \E i \in 1..k : t[j] = seq[i]
        <5>1. CASE j = Len(s) + 1
          BY <4>2, <5>1
        <5>2. CASE j # Len(s) + 1
          <6>1. j \in 1..Len(s)
            BY <2>1, <4>2, <5>2
          <6>2. PICK i \in 1..(k - 1) : s[j] = seq[i]
            BY <3>1, <6>1
          <6> QED
            BY <4>2, <6>1, <6>2
        <5> QED
          BY <5>1, <5>2
      <4> QED
        BY <2>1, <4>1, <4>2, <4>4, <4>5 DEF SomeOf
    <3> QED
      BY <3>3, <3>4
  <2> QED
    BY <1>2, <2>3, <2>4 DEF U
<1>5. \A k \in 0..n : f[k] \in U[k]
  <2> HIDE DEF U
  <2> QED
    BY <1>2, <1>3, <1>4, ChainStays
<1>6. f[n] \in U[n] /\ Kept(seq, T) = f[n]
  BY <1>1, <1>2, <1>5 DEF KeptBy
<1> QED
  BY <1>2, <1>6 DEF SomeOf

\* Only what is in the sequence counts.
LEMMA KeptSame ==
  ASSUME NEW A, NEW seq \in Seq(A), NEW T, NEW U,
         \A k \in 1..Len(seq) : seq[k] \in T <=> seq[k] \in U
  PROVE  Kept(seq, T) = Kept(seq, U)
<1>1. PICK f : KeptBy(f, seq, T)
  BY KeptExists
<1>2. PICK g : KeptBy(g, seq, U)
  BY KeptExists
<1> DEFINE n == Len(seq)
           D == {k \in 0..n : f[k] = g[k]}
<1>3. n \in Nat
  OBVIOUS
<1>4. 0 \in D
  BY <1>1, <1>2, <1>3 DEF KeptBy
<1>5. ASSUME NEW k \in 1..n, k - 1 \in D
      PROVE  k \in D
  BY <1>1, <1>2, <1>5 DEF KeptBy, Keeps
<1>6. n \in D
  <2> HIDE DEF D, n
  <2>1. \A k \in 0..n : k \in D
    BY <1>3, <1>4, <1>5, UpTo
  <2> QED
    BY <1>3, <2>1
<1> QED
  BY <1>1, <1>2, <1>6 DEF KeptBy

\* The selections of items of a load.
SelectionsOf(load) ==
    {s \in Seq(ItemsOf(load)) : Len(s) <= Multi /\ IsInjective(s)}

LEMMA KeptSelection ==
  ASSUME NEW load, NEW sel \in SelectionsOf(load), NEW T
  PROVE  Kept(sel, T) \in SelectionsOf(load)
<1> DEFINE A == ItemsOf(load)
<1>1. sel \in Seq(A) /\ Len(sel) \in Nat /\ Len(sel) <= Multi /\ IsInjective(sel)
  BY DEF SelectionsOf
<1> HIDE DEF A
<1>2. Kept(sel, T) \in Seq(A) /\ Len(Kept(sel, T)) <= Len(sel) /\ IsInjective(Kept(sel, T))
  BY <1>1, KeptTyped
<1>3. Len(Kept(sel, T)) \in Nat
  BY <1>2
<1> QED
  BY <1>1, <1>2, <1>3, ListAssumption DEF SelectionsOf, A

LEMMA SelectingTyped ==
  ASSUME NEW load, NEW sel \in SelectionsOf(load), NEW items \in Seq(ItemsOf(load))
  PROVE  Selecting(sel, items) \in SelectionsOf(load)
<1> DEFINE n == Len(items)
           A == ItemsOf(load)
           S == SelectionsOf(load)
           Add(s, k) ==
             IF Len(s) >= Multi \/ Contains(s, items[k]) THEN s ELSE Append(s, items[k])
<1>1. n \in Nat /\ sel \in S /\ \A k \in 1..n : items[k] \in A
  OBVIOUS
<1>2. ASSUME NEW s \in S, NEW k \in 1..n
      PROVE  Add(s, k) \in S
  <2>1. s \in Seq(A) /\ Len(s) \in Nat /\ Len(s) <= Multi /\ IsInjective(s)
    BY DEF SelectionsOf
  <2>2. CASE Len(s) >= Multi \/ Contains(s, items[k])
    BY <2>2
  <2>3. CASE ~(Len(s) >= Multi \/ Contains(s, items[k]))
    <3> DEFINE x == items[k]
               t == Append(s, x)
    <3>1. Add(s, k) = t
      BY <2>3
    <3>2. x \in A
      BY <1>1
    <3>3. \A j \in 1..Len(s) : s[j] # x
      BY <2>3 DEF Contains
    <3> HIDE DEF x, A, n, S, Add
    <3>4. /\ t \in Seq(A) /\ Len(t) = Len(s) + 1 /\ t[Len(s) + 1] = x
          /\ \A j \in 1..Len(s) : t[j] = s[j]
          /\ DOMAIN t = 1..(Len(s) + 1) /\ DOMAIN s = 1..Len(s)
      BY <2>1, <3>2
    <3> HIDE DEF t
    <3>5. IsInjective(t)
      BY <2>1, <3>3, <3>4 DEF IsInjective
    <3>6. Len(t) <= Multi
      BY <2>1, <2>3, <3>4, ListAssumption
    <3> QED
      BY <3>1, <3>4, <3>5, <3>6 DEF S, A, SelectionsOf
  <2> QED
    BY <2>2, <2>3
<1> HIDE DEF n, A, S, Add
<1> DEFINE F == [k \in 1..n |-> [s \in S |-> Add(s, k)]]
           f == CHOOSE f : Follows(f, n, sel, Add)
<1>3. PICK g : IsChain(g, F, n, S, sel)
  <2>1. Steps(F, n, S)
    BY <1>2 DEF Steps
  <2> HIDE DEF F
  <2> QED
    BY <1>1, <2>1, ChainExists
<1>4. ASSUME NEW k \in 1..n
      PROVE  g[k - 1] \in S /\ g[k] = Add(g[k - 1], k)
  <2>1. g[k - 1] \in S
    BY <1>1, <1>3 DEF IsChain
  <2>2. F[k] = [s \in S |-> Add(s, k)]
    OBVIOUS
  <2> HIDE DEF F
  <2>3. g[k] = F[k][g[k - 1]]
    BY <1>3 DEF IsChain
  <2> QED
    BY <2>1, <2>2, <2>3
<1>5. Follows(g, n, sel, Add)
  BY <1>1, <1>3, <1>4 DEF IsChain, Follows
<1>6. f[0] = sel /\ \A k \in 1..n : f[k] = Add(f[k - 1], k)
  <2>1. Follows(f, n, sel, Add)
    BY <1>5
  <2> HIDE DEF f
  <2> QED
    BY <1>1, <2>1 DEF Follows
<1>7. Selecting(sel, items) = f[n]
  BY DEF Selecting, n, Repeated, Add, Follows
<1> HIDE DEF f
<1>8. \A k \in 0..n : f[k] \in S
  <2>1. f[0] \in S /\ \A k \in 1..n : f[k - 1] \in S => f[k] \in S
    BY <1>1, <1>2, <1>6
  <2> QED
    BY <1>1, <2>1, ChainIn
<1>9. Selecting(sel, items) \in S
  BY <1>1, <1>7, <1>8
<1> QED
  BY <1>9 DEF S

(***************************************************************************)
(* Type correctness                                                        *)
(***************************************************************************)

Typed ==
    /\ input \in Inputs
    /\ list.load = input.load /\ list.trims = input.trims
    /\ list.seq \in Seq(ItemsOf(list.load))
    /\ cy \in Int /\ offset \in Int
    /\ track \in {"off", "on", "current"} /\ jumping \in {"no", "yes", "accept"}
    /\ selected \in SelectionsOf(list.load)
    /\ version \in BOOLEAN
    /\ height \in Heights /\ rows \in Screens /\ WellDrawn(rows, height)
    /\ requests \subseteq {"list", "jump", "resize", "close", "print"}
    /\ undrawn \subseteq {"screen", "preview"}

AnyPlace == [cy : Int, offset : Int]

LEMMA ListTyped ==
  ASSUME Typed
  PROVE  Shows(list) /\ Count(list) \in Nat /\ height \in Nat \ {0}
<1>1. ItemsOf(list.load) \subseteq Items
  BY DEF Typed, Inputs, ItemsOf, Items
<1>2. list.seq \in Seq(Items)
  <2>1. Seq(ItemsOf(list.load)) \subseteq Seq(Items)
    BY <1>1
  <2> QED
    BY <2>1 DEF Typed
<1>3. height \in Nat \ {0}
  BY WindowTyped DEF Typed
<1> QED
  BY <1>2, <1>3 DEF Shows, Count

LEMMA VisibleTyped ==
  ASSUME Typed, NEW c \in Int, NEW o \in Int
  PROVE  Visible(c, o) \in Places /\ Visible(c, o) \in AnyPlace
<1>1. Visible(c, o) \in Places
  BY ListTyped, ConstrainToTyped, GeometryAssumption DEF Visible
<1> QED
  BY <1>1 DEF Places, AnyPlace

LEMMA VsetTyped ==
  ASSUME Typed, NEW n \in Int
  PROVE  Vset(n) \in Int
BY ListTyped DEF Vset, Constrain

LEMMA VmoveTyped ==
  ASSUME Typed, NEW n \in Int
  PROVE  Vmove(n) \in Int
<1>1. cy \in Int /\ Count(list) \in Nat
  BY ListTyped DEF Typed
<1>2. Cycled(cy + (IF Upside THEN -n ELSE n)) \in Int
  BY <1>1 DEF Cycled
<1> QED
  BY <1>2, VsetTyped DEF Vmove

LEMMA TargetTyped ==
  ASSUME Typed, NEW a \in {"up", "down", "first", "last", "pos"}
  PROVE  Target(a) \in Int
<1>1. Count(list) \in Nat
  BY ListTyped
<1>2. Vmove(1) \in Int /\ Vmove(-1) \in Int
  BY VmoveTyped
<1>3. Vset(0) \in Int /\ Vset(Count(list) - 1) \in Int /\ Vset(Count(list) - 2) \in Int
  BY <1>1, VsetTyped
<1> QED
  BY <1>2, <1>3 DEF Target

LEMMA PageMovedTyped ==
  ASSUME Typed, NEW a
  PROVE  PageMoved(a) \in AnyPlace
<1> DEFINE up == (a \in {"page-up", "half-page-up"}) # Upside
           n == Max({1, IF a \in {"page-up", "page-down"} THEN height - 1 ELSE height \div 2})
           limit == PageLimit(up)
           NextPage(b, k) ==
             PagedTo(b, Visible(Vset(b.at.cy + (IF up THEN 1 ELSE -1)), b.at.offset), up, limit)
           S == [at : AnyPlace, moved : BOOLEAN, stop : BOOLEAN]
           start == [at |-> Place(cy, offset), moved |-> FALSE, stop |-> FALSE]
<1>1. n \in Nat /\ start \in S
  <2>1. start \in S
    BY DEF Typed, Place, AnyPlace
  <2>2. height - 1 \in Int /\ height \div 2 \in Int
    BY ListTyped
  <2>3. n \in Nat
    BY <2>2, MaxOfTwo
  <2> QED
    BY <2>1, <2>3
<1> HIDE DEF n, start, up, limit
<1>2. ASSUME NEW b \in S, NEW k \in 1..n
      PROVE  NextPage(b, k) \in S
  <2> DEFINE p == Visible(Vset(b.at.cy + (IF up THEN 1 ELSE -1)), b.at.offset)
  <2>1. b.at.cy \in Int /\ b.at.offset \in Int
    BY DEF AnyPlace
  <2>2. b.at.cy + (IF up THEN 1 ELSE -1) \in Int
    BY <2>1
  <2>3. p \in AnyPlace
    BY <2>1, <2>2, VsetTyped, VisibleTyped
  <2> HIDE DEF p
  <2>4. PagedTo(b, p, up, limit) \in S
    BY <2>3 DEF PagedTo
  <2> QED
    BY <2>4 DEF p
<1> HIDE DEF NextPage, S
<1> DEFINE paged == Repeated(NextPage, n, start)
<1> DEFINE F == [k \in 1..n |-> [s \in S |-> NextPage(s, k)]]
           f == CHOOSE f : Follows(f, n, start, NextPage)
<1>3. PICK g : IsChain(g, F, n, S, start)
  <2>1. Steps(F, n, S)
    BY <1>2 DEF Steps
  <2> HIDE DEF F
  <2> QED
    BY <1>1, <2>1, ChainExists
<1>4. ASSUME NEW k \in 1..n
      PROVE  g[k - 1] \in S /\ g[k] = NextPage(g[k - 1], k)
  <2>1. g[k - 1] \in S
    BY <1>1, <1>3 DEF IsChain
  <2>2. F[k] = [s \in S |-> NextPage(s, k)]
    OBVIOUS
  <2> HIDE DEF F
  <2>3. g[k] = F[k][g[k - 1]]
    BY <1>3 DEF IsChain
  <2> QED
    BY <2>1, <2>2, <2>3
<1>5. Follows(g, n, start, NextPage)
  BY <1>1, <1>3, <1>4 DEF IsChain, Follows
<1>6. f[0] = start /\ \A k \in 1..n : f[k] = NextPage(f[k - 1], k)
  <2>1. Follows(f, n, start, NextPage)
    BY <1>5
  <2> HIDE DEF f
  <2> QED
    BY <1>1, <2>1 DEF Follows
<1>7. paged = f[n]
  BY DEF paged, Repeated, NextPage, Follows
<1> HIDE DEF f
<1>8. \A k \in 0..n : f[k] \in S
  <2>1. f[0] \in S /\ \A k \in 1..n : f[k - 1] \in S => f[k] \in S
    BY <1>1, <1>2, <1>6
  <2> QED
    BY <1>1, <2>1, ChainIn
<1>9. paged \in S
  BY <1>1, <1>7, <1>8
<1>10. PageMoved(a) = paged.at
  BY DEF PageMoved, Paged, paged, NextPage, n, start, up, limit
<1> HIDE DEF paged
<1> QED
  BY <1>9, <1>10 DEF S

LEMMA AheadTyped ==
  ASSUME Typed, NEW down \in BOOLEAN, SelectedAhead(down) # {}
  PROVE  Ahead(Min(SelectedAhead(down)), down) \in Int
<1> DEFINE T == SelectedAhead(down)
           n == Count(list)
<1>1. n \in Nat /\ cy \in Int
  BY ListTyped DEF Typed
<1> HIDE DEF n
<1>2. T \subseteq 1..(n - 1)
  BY DEF SelectedAhead, n
<1>3. T # {} /\ T \subseteq Nat
  BY <1>1, <1>2
<1> HIDE DEF T
<1>4. PICK m \in T : \A k \in T : m <= k
  BY <1>3, LeastNumber
<1>5. Min(T) \in T
  BY <1>4 DEF Min
<1>6. Min(T) \in 1..(n - 1)
  BY <1>2, <1>5
<1> DEFINE i == Min(T)
<1> HIDE DEF i
<1>7. i \in Int /\ n > 0
  BY <1>1, <1>6 DEF i
<1>8. (cy - i + n) % n \in Int /\ (cy + i) % n \in Int
  BY <1>1, <1>7
<1>9. Ahead(i, down) \in Int
  BY <1>8 DEF Ahead, n
<1> QED
  BY <1>9 DEF i, T

LEMMA OffsetMovedTyped ==
  ASSUME Typed, NEW p \in AnyPlace, NEW diff \in Int
  PROVE  OffsetMoved(p, diff) \in AnyPlace
<1>1. offset \in Int /\ p.cy \in Int /\ Count(list) \in Nat
  BY ListTyped DEF Typed, AnyPlace
<1>2. Constrain(p.cy + diff, 0, Count(list) - 1) \in Int
  BY <1>1 DEF Constrain
<1> QED
  BY <1>1, <1>2 DEF OffsetMoved, AnyPlace, Place

\* The lines of an item, on the average.
LEMMA AvgTyped ==
  ASSUME Typed, Count(list) > 0
  PROVE  AvgLines \in Nat \ {0}
<1> DEFINE n == Count(list)
           from == Max({0, Min({offset, n - height - 1})})
           to == Min({from + height, n})
           total == TotalLines(list, from, to)
<1>1. n \in Nat /\ n > 0 /\ height \in Nat \ {0} /\ offset \in Int
  BY ListTyped DEF Typed
<1>2. AvgLines = IF to <= from THEN 1 ELSE total \div (to - from)
  BY DEF AvgLines, AvgFrom, AvgOf
<1> HIDE DEF n
<1>3. from \in Nat
  BY <1>1, MaxOfTwo, MinOfTwo
<1> HIDE DEF from
<1>4. to \in Int /\ to <= n
  BY <1>1, <1>3, MinOfTwo
<1> HIDE DEF to
<1>5. total \in Nat /\ total >= to - from
  BY <1>1, <1>3, <1>4, ListTyped, TotalLinesTyped DEF n
<1> HIDE DEF total
<1>6. ASSUME to > from
      PROVE  total \div (to - from) \in Nat \ {0}
  <2> DEFINE d == to - from
  <2>1. d \in Nat \ {0} /\ total >= d
    BY <1>3, <1>4, <1>5, <1>6
  <2> HIDE DEF d
  <2>2. total \div d >= 1 /\ total \div d \in Int
    BY <1>5, <2>1
  <2> QED
    BY <2>2 DEF d
<1> QED
  BY <1>2, <1>3, <1>4, <1>6

\* The bar is shorter than the window.
LEMMA BarFits ==
  ASSUME NEW h \in Nat \ {0}, NEW total \in Nat, total > h
  PROVE  (h * h) \div total \in Nat /\ (h * h) \div total <= h - 1
<1> DEFINE sq == h * h
           q == sq \div total
           m == sq % total
<1>1. sq \in Nat
  OBVIOUS
<1>2. q \in Int /\ m \in 0..(total - 1) /\ sq = total * q + m
  <2> HIDE DEF sq
  <2> QED
    BY <1>1
<1>3. q >= 0
  <2> HIDE DEF sq
  <2> QED
    BY <1>1
<1> HIDE DEF q, m
<1>4. ASSUME q >= h
      PROVE  FALSE
  <2>1. total * q >= total * h
    BY <1>2, <1>4
  <2>2. total * h >= (h + 1) * h
    OBVIOUS
  <2>3. (h + 1) * h = sq + h
    OBVIOUS
  <2> QED
    BY <1>1, <1>2, <2>1, <2>2, <2>3
<1> QED
  BY <1>2, <1>3, <1>4 DEF q

\* Where the list goes when the bar is dragged: the division is one by zero
\* only for a bar that has no room.
LEMMA DraggedTyped ==
  ASSUME Typed, Count(list) > 0, NEW avg \in Nat \ {0}, NEW r \in Nat,
         NEW size, size = Max({1, (height * height) \div (Count(list) * avg)}),
         NEW bar, bar = BarOf(Count(list), avg, size)
  PROVE  Dragged(bar, Constrain(r - bar.length \div 2, 0, height - bar.length), avg) \in Int
<1> DEFINE n == Count(list)
           total == n * avg
           h == height
           room == h * avg - size
           start == Constrain(r - bar.length \div 2, 0, h - bar.length)
<1>1. n \in Nat /\ n > 0 /\ h \in Nat \ {0} /\ offset \in Int
  BY ListTyped DEF Typed
<1>2. total \in Nat \ {0}
  BY <1>1
<1>3. CASE total <= h
  <2>1. bar.length = 0
    BY <1>3 DEF BarOf
  <2> QED
    BY <1>1, <2>1 DEF Dragged
<1>4. CASE total > h
  <2>1. (h * h) \div total \in Nat /\ (h * h) \div total <= h - 1
    BY <1>1, <1>2, <1>4, BarFits
  <2>2. size \in Nat \ {0} /\ size = IF (h * h) \div total > 1 THEN (h * h) \div total ELSE 1
    BY <2>1, MaxOfTwo
  <2>3. bar = [length |-> size,
               start |-> IF n = h THEN 0
                         ELSE Min({h - size, (room * offset) \div (total - h)})]
    BY <1>1, <1>2, <1>4 DEF BarOf
  <2>4. start \in Int
    BY <1>1, <2>2, <2>3 DEF Constrain
  <2>5. h * avg >= h /\ h * avg \in Nat
    BY <1>1
  <2>6. Dragged(bar, start, avg) = IF start = bar.start THEN offset
                                   ELSE -((-(start * (total - h))) \div room)
    BY <2>2, <2>3 DEF Dragged
  <2>7. room \in Int
    BY <2>2, <2>5
  <2> HIDE DEF room, start
  <2>8. CASE room > 0
    <3> DEFINE move == -(start * (total - h))
    <3>1. move \in Int
      BY <1>1, <1>2, <2>4
    <3> HIDE DEF move
    <3>2. move \div room \in Int
      BY <2>7, <2>8, <3>1
    <3>3. Dragged(bar, start, avg) = IF start = bar.start THEN offset ELSE -(move \div room)
      BY <2>6 DEF move
    <3> QED
      BY <1>1, <3>2, <3>3 DEF start
  <2>9. CASE room <= 0
    <3>1. h = 1 /\ size = 1
      <4> DEFINE ha == h * avg
                 q == (h * h) \div total
      <4>1. ha \in Nat /\ ha >= h /\ ha - size <= 0
        BY <2>5, <2>9 DEF room
      <4>2. q \in Nat /\ q <= h - 1 /\ size = IF q > 1 THEN q ELSE 1
        BY <2>1, <2>2
      <4> HIDE DEF ha, q
      <4> QED
        BY <1>1, <4>1, <4>2
    <3>2. room = 0
      <4>1. h * avg = avg
        BY <3>1
      <4> QED
        BY <2>9, <3>1, <4>1 DEF room
    <3>3. start = 0
      <4>1. size \div 2 = 0
        BY <3>1
      <4>2. start = Constrain(r - 0, 0, 0)
        BY <1>1, <2>3, <3>1, <4>1 DEF start
      <4> QED
        BY <4>2 DEF Constrain
    <3>4. bar.start = 0
      <4>1. CASE n = h
        BY <2>3, <4>1
      <4>2. CASE n # h
        <5> DEFINE d == total - h
        <5>1. d \in Nat \ {0}
          BY <1>1, <1>2, <1>4
        <5> HIDE DEF d
        <5>2. room * offset = 0 /\ h - size = 0
          BY <1>1, <3>1, <3>2
        <5>3. (room * offset) \div d = 0
          BY <5>1, <5>2
        <5>4. Min({0, 0}) = 0
          BY MinOfTwo
        <5>5. bar.start = Min({h - size, (room * offset) \div d})
          BY <2>3, <4>2 DEF d
        <5> QED
          BY <5>2, <5>3, <5>4, <5>5
      <4> QED
        BY <4>1, <4>2
    <3> QED
      BY <1>1, <2>6, <3>3, <3>4 DEF start
  <2> QED
    BY <2>7, <2>8, <2>9
<1> QED
  BY <1>1, <1>2, <1>3, <1>4

LEMMA CurrentTyped ==
  ASSUME Typed
  PROVE  /\ Current \in Items \cup {NoItem} /\ Index(Current) \in Int
         /\ Current # NoItem <=> cy \in 0..(Count(list) - 1)
         /\ cy \in 0..(Count(list) - 1) => Current \in ItemsOf(list.load)
         /\ cy \notin 0..(Count(list) - 1) => Current = NoItem
<1>1. ASSUME cy \in 0..(Count(list) - 1)
      PROVE  /\ Current \in ItemsOf(list.load) /\ Current \in Items
             /\ Index(Current) \in Nat /\ Current # NoItem
  <2>1. Current = list.seq[cy + 1] /\ cy + 1 \in 1..Len(list.seq)
    BY <1>1, ListTyped DEF Current, ItemAt, Get, Count
  <2>2. list.seq \in Seq(ItemsOf(list.load)) /\ list.load \in Nat
    BY DEF Typed, Inputs
  <2>3. Current \in ItemsOf(list.load)
    BY <2>1, <2>2
  <2> QED
    BY <2>2, <2>3, GeometryAssumption DEF ItemsOf, Items, Index, NoItem, NoIndex
<1>2. ASSUME cy \notin 0..(Count(list) - 1)
      PROVE  Current = NoItem
  BY <1>2 DEF Current, ItemAt
<1>3. Index(NoItem) = -1
  BY DEF Index, NoItem, NoIndex
<1> QED
  BY <1>1, <1>2, <1>3

LEMMA ChosenTyped ==
  ASSUME Typed, NEW a
  PROVE  Chosen(a) \in SelectionsOf(list.load)
<1> DEFINE A == ItemsOf(list.load)
<1>1. selected \in SelectionsOf(list.load) /\ list.seq \in Seq(A)
  BY DEF Typed
<1>2. Current # NoItem => <<Current>> \in Seq(A)
  BY CurrentTyped
<1>3. \A items \in Seq(A) : Selecting(selected, items) \in SelectionsOf(list.load)
  BY <1>1, SelectingTyped
<1>4. \A items : Without(selected, items) \in SelectionsOf(list.load)
  BY <1>1, KeptSelection DEF Without
<1>5. Current # NoItem => Toggling(Current) \in SelectionsOf(list.load)
  BY <1>2, <1>3, <1>4 DEF Toggling
<1>6. TogglingAll(list.seq) \in SelectionsOf(list.load)
  <2>1. Without(list.seq, ToSet(selected)) \in Seq(A)
    BY <1>1, KeptTyped DEF Without
  <2> QED
    BY <1>4, <2>1, SelectingTyped DEF TogglingAll
<1>7. <<>> \in SelectionsOf(list.load)
  BY ListAssumption DEF SelectionsOf, IsInjective
<1> QED
  BY <1>1, <1>2, <1>3, <1>4, <1>5, <1>6, <1>7 DEF Chosen

LEMMA ArrivesTyped ==
  ASSUME NEW in \in Inputs, NEW new \in Arrives(in)
  PROVE  /\ new \in Inputs
         /\ new.load = in.load /\ new.trims # in.trims => new.to - new.from + 1 = MaxInput
<1>1. /\ in.load \in Nat /\ in.from \in Nat /\ in.to \in Int /\ in.trims \in Nat /\ in.to >= -1
      /\ in.to <= MaxIndex
      /\ in = [load |-> in.load, from |-> in.from, to |-> in.to, trims |-> in.trims]
  BY DEF Inputs
<1>2. CASE \E n \in (in.to)..MaxIndex :
             n - in.from + 1 > MaxInput
             /\ new = [in EXCEPT !.to = n, !.from = n - MaxInput + 1, !.trims = @ + 1]
  <2>1. PICK n \in (in.to)..MaxIndex :
             n - in.from + 1 > MaxInput
             /\ new = [in EXCEPT !.to = n, !.from = n - MaxInput + 1, !.trims = @ + 1]
    BY <1>2
  <2>2. new = [load |-> in.load, from |-> n - MaxInput + 1, to |-> n, trims |-> in.trims + 1]
    BY <1>1, <2>1
  <2>3. n - MaxInput + 1 \in Nat /\ n >= -1 /\ n <= MaxIndex /\ n \in Int
    BY <1>1, <2>1, GeometryAssumption, ListAssumption
  <2> QED
    BY <1>1, <2>2, <2>3, ListAssumption DEF Inputs
<1>3. CASE \E n \in (in.to)..MaxIndex : new = [in EXCEPT !.to = n]
  <2>1. PICK n \in (in.to)..MaxIndex : new = [in EXCEPT !.to = n]
    BY <1>3
  <2>2. new = [load |-> in.load, from |-> in.from, to |-> n, trims |-> in.trims]
    BY <1>1, <2>1
  <2>3. n >= -1 /\ n <= MaxIndex /\ n \in Int
    BY <1>1, <2>1, GeometryAssumption
  <2> QED
    BY <1>1, <2>2, <2>3 DEF Inputs
<1>4. CASE new = [load |-> in.load + 1, from |-> 0, to |-> MaxIndex - 1, trims |-> 0]
  BY <1>1, <1>4, GeometryAssumption DEF Inputs
<1> QED
  BY <1>2, <1>3, <1>4 DEF Arrives

LEMMA FindIndexTyped ==
  ASSUME NEW in \in Inputs, NEW new \in ListsOf(in), NEW index \in Int
  PROVE  FindIndex(new, index) \in Int
<1>1. Count(new) \in Nat
  BY ListsTyped, CountTyped
<1>2. CASE new.all
  <2>1. new.min \in Int
    BY <1>2, ListsTyped DEF Inputs
  <2> QED
    BY <1>1, <1>2, <2>1 DEF FindIndex
<1>3. CASE ~new.all
  <2> DEFINE T == {-1} \cup {k \in 0..(Count(new) - 1) : Index(Get(new, k)) = index}
  <2>1. FindIndex(new, index) = Max(T)
    BY <1>3 DEF FindIndex
  <2> DEFINE all == -1..(Count(new) - 1)
  <2>2. IsFiniteSet(all)
    <3> DEFINE low == -1
               high == Count(new) - 1
    <3>1. low \in Int /\ high \in Int
      BY <1>1
    <3> HIDE DEF low, high
    <3>2. IsFiniteSet(low..high)
      BY <3>1, FS_Interval
    <3> QED
      BY <3>2 DEF low, high
  <2>3. T \in SUBSET all /\ T # {} /\ T \subseteq Int
    BY <1>1
  <2> HIDE DEF T, all
  <2>4. IsFiniteSet(T)
    BY <2>2, <2>3, FS_Subset
  <2>5. Max(T) \in T
    BY <2>3, <2>4, MaxOfFinite
  <2> QED
    BY <2>1, <2>3, <2>5
<1> QED
  BY <1>2, <1>3

LEMMA AnchorTyped ==
  ASSUME Typed, NEW in \in Inputs, NEW new \in ListsOf(in)
  PROVE  Anchor(new) \in Int
<1>1. Index(Current) \in Int /\ NoIndex \in Int
  BY CurrentTyped DEF NoIndex
<1>2. Count(new) > 0 => Index(First(new)) \in Int
  <2>1. new.seq \in Seq(ItemsOf(in.load)) /\ Count(new) = Len(new.seq)
    BY ListsTyped DEF Count
  <2>2. Count(new) > 0 => /\ new.seq[1] \in ItemsOf(in.load)
                          /\ new.seq[Len(new.seq)] \in ItemsOf(in.load)
    BY <2>1
  <2>3. Count(new) > 0 => First(new) \in ItemsOf(in.load)
    BY <2>1, <2>2 DEF First, Last
  <2> QED
    BY <2>3, GeometryAssumption DEF ItemsOf, Index
<1> QED
  BY <1>1, <1>2 DEF Anchor

LEMMA PlacedTyped ==
  ASSUME Typed, NEW in \in Inputs, NEW new \in ListsOf(in), NEW i \in Int, NEW lost \in BOOLEAN
  PROVE  Placed(new, cy - offset, i, lost) \in AnyPlace
<1>1. cy \in Int /\ offset \in Int /\ height \in Int /\ Count(new) \in Nat
  BY ListTyped, ListsTyped, CountTyped DEF Typed
<1>2. Min({Count(new), height}) \in Int
  BY <1>1, MinOfTwo
<1> QED
  BY <1>1, <1>2 DEF Placed, Follow, Place, AnyPlace


LEMMA TypedInit == Init => Typed
<1> SUFFICES ASSUME Init PROVE Typed
  OBVIOUS
<1>1. input \in Inputs /\ input.load = 0 /\ input.trims = 0
  BY GeometryAssumption DEF Init, Inputs
<1>2. Ordered(0, {}, FALSE) \in Seq(ItemsOf(0))
  <2> DEFINE none == {}
             start == 0
             down == FALSE
  <2>1. none \subseteq 0..MaxIndex /\ down \in BOOLEAN
    OBVIOUS
  <2> HIDE DEF none, start, down
  <2>2. Ordered(start, none, down) \in Seq(ItemsOf(start))
    BY <2>1, OrderedTyped DEF ItemsOf
  <2> QED
    BY <2>2 DEF none, start, down
<1>3. list.load = 0 /\ list.trims = 0 /\ list.seq \in Seq(ItemsOf(0))
  BY <1>1, <1>2 DEF Init, ListOf
<1>4. selected \in SelectionsOf(0)
  BY ListAssumption DEF Init, SelectionsOf, IsInjective
<1>5. height \in Heights
  <2>1. Heights \subseteq Int
    BY GeometryAssumption
  <2> QED
    BY <2>1, GeometryAssumption, MaxOfFinite DEF Init
<1>6. rows \in Screens /\ WellDrawn(rows, height)
  BY <1>5, NoRowsTyped DEF Init
<1>7. list.seq \in Seq(ItemsOf(list.load)) /\ selected \in SelectionsOf(list.load)
  BY <1>3, <1>4
<1>8. /\ cy \in Int /\ offset \in Int /\ track \in {"off", "on", "current"}
      /\ jumping \in {"no", "yes", "accept"} /\ version \in BOOLEAN
      /\ requests = {} /\ undrawn = {}
  <2>1. /\ cy = 0 /\ offset = 0 /\ track = InitTrack /\ jumping = "no" /\ version = FALSE
        /\ requests = {} /\ undrawn = {}
    BY DEF Init
  <2>2. version \in BOOLEAN
    BY <2>1
  <2>3. track \in {"off", "on", "current"}
    BY <2>1, ListAssumption
  <2>4. cy \in Int /\ offset \in Int /\ jumping \in {"no", "yes", "accept"}
    BY <2>1
  <2> QED
    BY <2>1, <2>2, <2>3, <2>4
<1> QED
  BY <1>1, <1>3, <1>5, <1>6, <1>7, <1>8 DEF Typed

\* When the render loop draws anything, it draws the list with the cursor where
\* constrain puts it, on what was on the screen before or on nothing, and the
\* cursor is then in the list, where it was if it was there.
Held(c) == Constrain(cy, 0, Max({0, Count(list) - 1})) = c
Redrawn(before) ==
    /\ before \in Screens /\ WellDrawn(before, height')
    /\ cy' \in Int /\ offset' \in Nat /\ Held(cy')
    /\ rows' = PrintList(list, Place(cy', offset'), selected, jumping', height', before)

LEMMA RenderDraws ==
  ASSUME Typed, Render, requests \cap {"list", "jump", "resize"} # {}
  PROVE  /\ height' \in Heights
         /\ \E before : Redrawn(before)
<1>1. height' \in Heights /\ ("resize" \notin requests => height' = height)
  BY DEF Render, Typed
<1>2. Shows(list) /\ Count(list) \in Nat /\ height \in Nat \ {0} /\ height' \in Nat \ {0}
  BY <1>1, ListTyped, WindowTyped
<1> DEFINE last == Max({0, Count(list) - 1})
           before == IF "resize" \in requests THEN NoRows ELSE rows
           p == Visible(cy, offset)
           q == IF height' = height THEN p
                ELSE ConstrainTo(height', list, ScrollOff, p.cy, p.offset)
<1>3. last \in Nat
  BY <1>2, MaxOfTwo
<1>4. p \in Places /\ p.cy = Constrain(cy, 0, last)
  BY <1>2, ConstrainToTyped, GeometryAssumption DEF Visible, Typed
<1>5. /\ cy' = q.cy /\ offset' = q.offset
      /\ rows' = PrintList(list, q, selected, jumping', height', before)
  BY DEF Render, DrawAll
<1> HIDE DEF p
<1>6. p.cy \in Int /\ p.offset \in Int
  BY <1>4 DEF Places
<1>7. q \in Places /\ q.cy = Constrain(cy, 0, last)
  <2>1. CASE height' = height
    BY <1>4, <2>1
  <2>2. CASE height' # height
    <3> DEFINE h == height'
               r == ConstrainTo(h, list, ScrollOff, p.cy, p.offset)
    <3>1. h \in Nat \ {0} /\ ScrollOff \in Nat
      BY <1>2, GeometryAssumption
    <3> HIDE DEF h
    <3>2. r \in Places /\ r.cy = Constrain(p.cy, 0, last)
      BY <1>2, <1>6, <3>1, ConstrainToTyped
    <3>3. Constrain(p.cy, 0, last) = Constrain(cy, 0, last)
      <4>1. cy \in Int
        BY DEF Typed
      <4> QED
        BY <1>3, <1>4, <4>1 DEF Constrain
    <3> QED
      BY <2>2, <3>2, <3>3 DEF h
  <2> QED
    BY <2>1, <2>2
<1>8. before \in Screens /\ WellDrawn(before, height')
  <2>1. CASE "resize" \in requests
    BY <1>1, <2>1, NoRowsTyped
  <2>2. CASE "resize" \notin requests
    BY <1>1, <2>2 DEF Typed
  <2> QED
    BY <2>1, <2>2
<1> HIDE DEF q, before
<1>9. q = Place(cy', offset')
  BY <1>5, <1>7 DEF Places, Place
<1>10. Redrawn(before)
  BY <1>5, <1>7, <1>8, <1>9 DEF Redrawn, Held, Places
<1> QED
  BY <1>1, <1>10

\* Most actions leave the list, the rows and the window alone.
Same == UNCHANGED <<input, list, rows, height>>

LEMMA SameTyped ==
  ASSUME Typed, Same, cy' \in Int, offset' \in Int, track' \in {"off", "on", "current"},
         jumping' \in {"no", "yes", "accept"}, selected' \in SelectionsOf(list.load),
         version' \in BOOLEAN,
         requests' \subseteq {"list", "jump", "resize", "close", "print"},
         undrawn' \subseteq {"screen", "preview"}
  PROVE  Typed'
BY DEF Typed, Same

\* The movements.
LEMMA MovedTyped ==
  ASSUME Typed, MoveFrame, cy' \in Int, offset' \in Int,
         requests' \in {requests, requests \cup {"list"}}
  PROVE  Typed'
<1>1. /\ Same /\ track' = track /\ jumping' = jumping /\ selected' = selected
      /\ version' = version /\ undrawn' = undrawn
  BY DEF MoveFrame, Same
<1>2. /\ track \in {"off", "on", "current"} /\ jumping \in {"no", "yes", "accept"}
      /\ selected \in SelectionsOf(list.load) /\ version \in BOOLEAN
      /\ requests \subseteq {"list", "jump", "resize", "close", "print"}
      /\ undrawn \subseteq {"screen", "preview"}
  BY DEF Typed
<1> QED
  BY <1>1, <1>2, SameTyped

\* So does what only sets a few of the variables.
LEMMA TypedFields ==
  ASSUME Typed
  PROVE  /\ cy \in Int /\ offset \in Int
         /\ track \in {"off", "on", "current"} /\ jumping \in {"no", "yes", "accept"}
         /\ selected \in SelectionsOf(list.load) /\ version \in BOOLEAN
         /\ requests \subseteq {"list", "jump", "resize", "close", "print"}
         /\ undrawn \subseteq {"screen", "preview"}
BY DEF Typed

LEMMA MoveTyped ==
  ASSUME Typed, NEW a \in {"up", "down", "first", "last", "pos"}, Move(a)
  PROVE  Typed'
<1>1. Target(a) \in Int /\ offset \in Int
  BY TargetTyped, TypedFields
<1>2. Visible(Target(a), offset) \in AnyPlace
  BY <1>1, VisibleTyped
<1>3. cy' \in Int /\ offset' \in Int /\ requests' = requests \cup {"list"} /\ MoveFrame
  BY <1>1, <1>2 DEF Move, MoveTo, Place, AnyPlace
<1> QED
  BY <1>3, MovedTyped

LEMMA PageTyped ==
  ASSUME Typed, NEW a, Page(a)
  PROVE  Typed'
<1>1. PageMoved(a) \in AnyPlace
  BY PageMovedTyped
<1>2. /\ cy' \in Int /\ offset' \in Int /\ MoveFrame
      /\ requests' \in {requests, requests \cup {"list"}}
  BY <1>1, TypedFields DEF Page, MoveTo, AnyPlace
<1> QED
  BY <1>2, MovedTyped

LEMMA MoveOffsetTyped ==
  ASSUME Typed, NEW a, MoveOffset(a)
  PROVE  Typed'
<1>1. PICK diff \in {1, -1} : \E p \in {Visible(cy, offset + diff)} : MoveTo(OffsetMoved(p, diff))
  BY DEF MoveOffset
<1>2. Visible(cy, offset + diff) \in AnyPlace
  BY VisibleTyped, TypedFields
<1>3. OffsetMoved(Visible(cy, offset + diff), diff) \in AnyPlace
  BY <1>2, OffsetMovedTyped
<1>4. /\ cy' \in Int /\ offset' \in Int /\ MoveFrame
      /\ requests' = requests \cup {"list"}
  BY <1>1, <1>3 DEF MoveOffset, MoveTo, AnyPlace
<1> QED
  BY <1>4, MovedTyped

LEMMA MoveToSelectedTyped ==
  ASSUME Typed, NEW a, MoveToSelected(a)
  PROVE  Typed'
<1>1. MoveFrame
  BY DEF MoveToSelected
<1>2. CASE UNCHANGED <<cy, offset, requests>>
  BY <1>1, <1>2, MovedTyped, TypedFields
<1>3. CASE ~UNCHANGED <<cy, offset, requests>>
  <2>1. PICK down \in BOOLEAN :
             /\ SelectedAhead(down) # {}
             /\ MoveTo(Place(Ahead(Min(SelectedAhead(down)), down), offset))
    BY <1>3 DEF MoveToSelected
  <2>2. Ahead(Min(SelectedAhead(down)), down) \in Int
    BY <2>1, AheadTyped
  <2>3. cy' \in Int /\ offset' \in Int /\ requests' = requests \cup {"list"}
    BY <2>1, <2>2, TypedFields DEF MoveTo, Place
  <2> QED
    BY <1>1, <2>3, MovedTyped
<1> QED
  BY <1>2, <1>3

LEMMA SelectTyped ==
  ASSUME Typed, NEW a, Select(a)
  PROVE  Typed'
<1>1. Vmove(1) \in Int /\ Vmove(-1) \in Int /\ cy \in Int
  BY VmoveTyped, TypedFields
<1>2. Towards(a) \in Int
  BY <1>1 DEF Towards
<1>3. selected' = Chosen(a) /\ cy' \in Int
  BY <1>1, <1>2 DEF Select
<1>4. version' \in BOOLEAN /\ requests' \in {requests, requests \cup {"list"}}
  BY DEF Select
<1>5. Same /\ UNCHANGED <<offset, track, jumping, undrawn>>
  BY DEF Select, Same
<1>6. selected' \in SelectionsOf(list.load)
  BY <1>3, ChosenTyped
<1>7. requests' \subseteq {"list", "jump", "resize", "close", "print"}
  BY <1>4, TypedFields
<1> QED
  BY <1>3, <1>4, <1>5, <1>6, <1>7, TypedFields, SameTyped

LEMMA DragTyped ==
  ASSUME Typed, NEW r \in DOMAIN rows, Drag(r)
  PROVE  Typed'
<1>1. MoveFrame /\ Count(list) > 0 /\ r \in Nat
  BY WindowTyped DEF Drag, Typed, Screens
<1> DEFINE avg == AvgLines
           size == Max({1, (height * height) \div (Count(list) * avg)})
           bar == BarOf(Count(list), avg, size)
           o == Dragged(bar, Constrain(r - bar.length \div 2, 0, height - bar.length), avg)
<1>2. avg \in Nat \ {0}
  BY <1>1, AvgTyped
<1>3. IF o = offset THEN UNCHANGED <<cy, offset, requests>>
      ELSE MoveTo(Place(o + cy - offset, o))
  BY DEF Drag
<1> HIDE DEF avg
<1>4. o \in Int
  BY <1>1, <1>2, DraggedTyped
<1> HIDE DEF o
<1>5. /\ cy' \in Int /\ offset' \in Int
      /\ requests' \in {requests, requests \cup {"list"}}
  BY <1>3, <1>4, TypedFields DEF MoveTo, Place
<1> QED
  BY <1>1, <1>5, MovedTyped

LEMMA ClickTyped ==
  ASSUME Typed, NEW r \in DOMAIN rows, Click(r) \/ DoubleClick(r)
  PROVE  Typed'
<1>1. rows[r].cy \in Int
  BY DEF Typed, Screens, RowSet
<1>2. Vset(rows[r].cy) \in Int
  BY <1>1, VsetTyped
<1>3. /\ cy' \in Int /\ Same /\ UNCHANGED <<offset, track, selected, version, jumping>>
      /\ requests' \in {requests, requests \cup {"list"}, requests \cup {"close"}}
      /\ undrawn' \in {undrawn, undrawn \cup {"screen", "preview"}}
  BY <1>2 DEF Click, DoubleClick, Same
<1> QED
  BY <1>3, TypedFields, SameTyped

LEMMA OffsetMiddleTyped ==
  ASSUME Typed, OffsetMiddle
  PROVE  Typed'
<1> DEFINE p == ConstrainTo(height, list, height, cy, offset)
<1>1. p \in Places
  <2>1. height \in Nat \ {0} /\ Shows(list) /\ height \in Nat
    BY ListTyped
  <2> QED
    BY <2>1, TypedFields, ConstrainToTyped
<1>2. cy' = p.cy /\ offset' = p.offset
  BY DEF OffsetMiddle
<1>3. /\ Same /\ UNCHANGED <<track, selected, version, jumping, requests>>
      /\ undrawn' \in {undrawn, undrawn \cup {"screen"}}
  BY DEF OffsetMiddle, Same
<1> HIDE DEF p
<1>4. cy' \in Int /\ offset' \in Int
  BY <1>1, <1>2 DEF Places
<1> QED
  BY <1>3, <1>4, TypedFields, SameTyped

LEMMA EndJumpTyped ==
  ASSUME Typed, EndJump
  PROVE  Typed'
<1>1. /\ cy' \in Int /\ jumping' = "no" /\ Same
      /\ UNCHANGED <<offset, track, selected, version, undrawn>>
      /\ requests' \subseteq requests \cup {"list", "close"}
  BY TypedFields, ListAssumption DEF EndJump, Same
<1> QED
  BY <1>1, TypedFields, SameTyped

\* The other requests of the user and of the terminal.
LEMMA OtherTyped ==
  ASSUME Typed, \/ \E a : SetTrack(a) \/ Accept(a)
                \/ \E mode \in {"yes", "accept"} : StartJump(mode)
                \/ Resize
  PROVE  Typed'
<1>1. CASE \E a : SetTrack(a)
  <2>1. /\ Same /\ track' \in {"off", "on", "current"}
        /\ UNCHANGED <<cy, offset, selected, version, jumping, requests, undrawn>>
    BY <1>1, TypedFields DEF SetTrack, Same
  <2> QED
    BY <2>1, TypedFields, SameTyped
<1>2. CASE (\E a : Accept(a)) \/ Resize
  <2>1. /\ Same /\ requests' \subseteq requests \cup {"close", "print", "resize"}
        /\ UNCHANGED <<cy, offset, track, selected, version, jumping, undrawn>>
    BY <1>2 DEF Accept, Resize, Same
  <2> QED
    BY <2>1, TypedFields, SameTyped
<1>3. CASE \E mode \in {"yes", "accept"} : StartJump(mode)
  <2>1. /\ Same /\ jumping' \in {"yes", "accept"} /\ requests' = requests \cup {"jump"}
        /\ UNCHANGED <<cy, offset, track, selected, version, undrawn>>
    BY <1>3 DEF StartJump, Same
  <2> QED
    BY <2>1, TypedFields, SameTyped
<1> QED
  BY <1>1, <1>2, <1>3

\* What the coordinator sends, and what becomes of the rest.
Updated(in, new, i) ==
    /\ in \in Arrives(input) /\ new \in ListsOf(in)
    /\ i = IF Anchor(new) = NoIndex THEN -1 ELSE FindIndex(new, Anchor(new))
    /\ input' = in /\ list' = new
    /\ Place(cy', offset') =
         Placed(new, cy - offset, i, Anchor(new) # NoIndex /\ i < 0)
    /\ selected' = CASE list.load # new.load -> <<>>
                     [] list.load = new.load /\ list.trims # new.trims -> Filtered(new)
                     [] OTHER -> selected

LEMMA UpdateListUpdates ==
  ASSUME Typed, UpdateList
  PROVE  /\ \E in, new, i :
              /\ Updated(in, new, i) /\ in \in Inputs /\ i \in Int
              /\ new.load = in.load /\ new.trims = in.trims /\ Shows(new)
              /\ new.seq \in Seq(ItemsOf(in.load))
         /\ cy' \in Int /\ offset' \in Int
         /\ version' = (version \/ <<list.load, list.trims>> # <<list'.load, list'.trims>>)
         /\ track' \in {track, "off"} /\ requests' = requests \cup {"list"}
         /\ UNCHANGED <<jumping, rows, height, undrawn, focused, previewed, output>>
<1> DEFINE Body(in, new) ==
        \E anchor \in {Anchor(new)} :
        \E i \in {IF anchor = NoIndex THEN -1 ELSE FindIndex(new, anchor)} :
        \E p \in {Placed(new, cy - offset, i, anchor # NoIndex /\ i < 0)} :
           /\ input' = in /\ list' = new
           /\ cy' = p.cy /\ offset' = p.offset
           /\ track' = IF anchor # NoIndex /\ i < 0 /\ track = "current" THEN "off" ELSE track
           /\ selected' = CASE list.load # new.load -> <<>>
                            [] list.load = new.load /\ list.trims # new.trims -> Filtered(new)
                            [] OTHER -> selected
           /\ version' = (version \/ <<list.load, list.trims>> # <<new.load, new.trims>>)
<1>0. \E in \in Arrives(input) : \E new \in ListsOf(in) : Body(in, new)
  BY DEF UpdateList
<1>1. PICK in, new : in \in Arrives(input) /\ new \in ListsOf(in) /\ Body(in, new)
  <2> HIDE DEF Body
  <2> QED
    BY <1>0
<1> DEFINE i == IF Anchor(new) = NoIndex THEN -1 ELSE FindIndex(new, Anchor(new))
           lost == Anchor(new) # NoIndex /\ i < 0
           p == Placed(new, cy - offset, i, lost)
<1>2. /\ input' = in /\ list' = new
      /\ cy' = p.cy /\ offset' = p.offset
      /\ track' \in {track, "off"}
      /\ selected' = CASE list.load # new.load -> <<>>
                       [] list.load = new.load /\ list.trims # new.trims -> Filtered(new)
                       [] OTHER -> selected
      /\ version' = (version \/ <<list.load, list.trims>> # <<new.load, new.trims>>)
  BY <1>1
<1>3. in \in Inputs /\ new \in ListsOf(in)
  <2>1. in \in Arrives(input) /\ new \in ListsOf(in) /\ input \in Inputs
    BY <1>1 DEF Typed
  <2> QED
    BY <2>1, ArrivesTyped
<1>4. /\ new.load = in.load /\ new.trims = in.trims /\ Shows(new)
      /\ new.seq \in Seq(ItemsOf(in.load))
  BY <1>3, ListsTyped
<1>5. Anchor(new) \in Int
  BY <1>3, AnchorTyped
<1>6. i \in Int
  BY <1>3, <1>5, FindIndexTyped
<1>7. lost \in BOOLEAN
  OBVIOUS
<1> HIDE DEF i
<1>8. p \in AnyPlace
  <2> HIDE DEF lost
  <2> QED
    BY <1>3, <1>6, <1>7, PlacedTyped
<1>9. Place(cy', offset') = p /\ cy' \in Int /\ offset' \in Int
  <2> HIDE DEF p
  <2> QED
    BY <1>2, <1>8 DEF Place, AnyPlace
<1>10. Updated(in, new, i)
  BY <1>1, <1>2, <1>9 DEF Updated, i
<1>11. /\ requests' = requests \cup {"list"}
       /\ UNCHANGED <<jumping, rows, height, undrawn, focused, previewed, output>>
  BY DEF UpdateList
<1> HIDE DEF p, lost
<1> QED
  BY <1>2, <1>3, <1>4, <1>6, <1>9, <1>10, <1>11

LEMMA UpdateListTyped ==
  ASSUME Typed, UpdateList
  PROVE  Typed'
<1>1. PICK in, new, i :
        /\ Updated(in, new, i) /\ in \in Inputs
        /\ new.load = in.load /\ new.trims = in.trims
        /\ new.seq \in Seq(ItemsOf(in.load))
  BY UpdateListUpdates
<1>2. /\ input' = in /\ list' = new
      /\ selected' = CASE list.load # new.load -> <<>>
                       [] list.load = new.load /\ list.trims # new.trims -> Filtered(new)
                       [] OTHER -> selected
  BY <1>1 DEF Updated
<1>3. selected' \in SelectionsOf(new.load)
  <2>1. CASE list.load # new.load
    BY <1>2, <2>1, ListAssumption DEF SelectionsOf, IsInjective
  <2>2. CASE list.load = new.load
    <3>1. selected \in SelectionsOf(new.load)
      BY <2>2, TypedFields
    <3>2. Filtered(new) \in SelectionsOf(new.load)
      BY <3>1, KeptSelection DEF Filtered
    <3> QED
      BY <1>2, <2>2, <3>1, <3>2
  <2> QED
    BY <2>1, <2>2
<1>4. /\ cy' \in Int /\ offset' \in Int /\ version' \in BOOLEAN
      /\ track' \in {track, "off"} /\ requests' = requests \cup {"list"}
      /\ UNCHANGED <<jumping, rows, height, undrawn>>
  BY UpdateListUpdates
<1> QED
  BY <1>1, <1>2, <1>3, <1>4 DEF Typed

LEMMA RenderTyped ==
  ASSUME Typed, Render
  PROVE  Typed'
<1>1. /\ UNCHANGED <<input, list, selected>> /\ requests' = {}
      /\ jumping' \in {jumping, "no"} /\ undrawn' \subseteq undrawn
      /\ track' \in {track, "off"} /\ version' \in {version, FALSE}
  BY DEF Render, DrawList
<1>2. /\ cy' \in Int /\ offset' \in Int
      /\ height' \in Heights /\ rows' \in Screens /\ WellDrawn(rows', height')
  <2>1. CASE requests \cap {"list", "jump", "resize"} = {}
    <3>1. UNCHANGED <<cy, offset, rows, height>>
      <4>1. "resize" \notin requests
        BY <2>1
      <4> QED
        BY <2>1, <4>1 DEF Render
    <3> QED
      BY <3>1 DEF Typed
  <2>2. CASE requests \cap {"list", "jump", "resize"} # {}
    <3>1. PICK before : Redrawn(before)
      BY <2>2, RenderDraws
    <3> DEFINE h == height'
               p == Place(cy', offset')
               mode == jumping'
               drawn == PrintList(list, p, selected, mode, h, before)
    <3>2. /\ h \in Heights /\ p \in Places /\ before \in Screens /\ WellDrawn(before, h)
          /\ cy' \in Int /\ offset' \in Int /\ rows' = drawn
      BY <2>2, <3>1, RenderDraws DEF Redrawn, Place, Places
    <3>3. Shows(list)
      BY ListTyped
    <3> HIDE DEF h, p, mode
    <3>4. drawn \in Screens /\ WellDrawn(drawn, h)
      BY <3>2, <3>3, PrintListTyped
    <3> HIDE DEF drawn
    <3> QED
      BY <3>2, <3>4 DEF h
  <2> QED
    BY <2>1, <2>2
<1>3. version' \in BOOLEAN
  BY <1>1, TypedFields
<1> QED
  BY <1>1, <1>2, <1>3 DEF Typed

LEMMA TypedStep == Typed /\ [Next]_vars => Typed'
<1> SUFFICES ASSUME Typed, [Next]_vars
             PROVE  Typed'
  OBVIOUS
<1>1. ASSUME NEW a \in Acts \cap {"up", "down", "first", "last", "pos"}, Move(a)
      PROVE  Typed'
  BY <1>1, MoveTyped
<1>2. ASSUME NEW a \in Acts \cap PageMovements, Page(a)
      PROVE  Typed'
  BY <1>2, PageTyped
<1>3. ASSUME NEW a \in Acts \cap {"offset-up", "offset-down"}, MoveOffset(a)
      PROVE  Typed'
  BY <1>3, MoveOffsetTyped
<1>4. ASSUME NEW a \in Acts \cap {"next-selected", "prev-selected"}, MoveToSelected(a)
      PROVE  Typed'
  BY <1>4, MoveToSelectedTyped
<1>5. ASSUME NEW a \in Acts \cap Selections, Select(a)
      PROVE  Typed'
  BY <1>5, SelectTyped
<1>6. ASSUME NEW a, SetTrack(a) \/ Accept(a)
      PROVE  Typed'
  BY <1>6, OtherTyped
<1>7. CASE OffsetMiddle
  BY <1>7, OffsetMiddleTyped
<1>8. CASE StartJump("yes") \/ StartJump("accept")
  BY <1>8, OtherTyped
<1>9. CASE EndJump
  BY <1>9, EndJumpTyped
<1>10. ASSUME NEW r \in DOMAIN rows, Click(r) \/ DoubleClick(r) \/ Drag(r)
       PROVE  Typed'
  BY <1>10, ClickTyped, DragTyped
<1>11. CASE Resize
  BY <1>11, OtherTyped
<1>12. CASE UpdateList
  BY <1>12, UpdateListTyped
<1>13. CASE Render
  BY <1>13, RenderTyped
<1>14. CASE UNCHANGED vars
  BY <1>14 DEF Typed, vars
<1> QED
  BY <1>1, <1>2, <1>3, <1>4, <1>5, <1>6, <1>7, <1>8, <1>9, <1>10, <1>11, <1>12, <1>13, <1>14
     DEF Next

LEMMA TypedAlways == Spec => []Typed
<1> QED
  BY TypedInit, TypedStep, PTL DEF Spec

\* The selection is made of items of the current load, at most --multi and none
\* twice, whatever arrives (terminal.go:1429-1446), is selected
\* (terminal.go:4249-4280) or is drawn.
THEOREM ListTypeCorrect == Spec => []TypeOK
<1>1. Typed => TypeOK
  <2> SUFFICES ASSUME Typed PROVE TypeOK
    OBVIOUS
  <2>1. /\ IsInjective(selected) /\ Len(selected) <= Multi
        /\ selected \in Seq(ItemsOf(list.load))
    BY TypedFields DEF SelectionsOf
  <2>2. \A i \in DOMAIN selected : selected[i] \in ItemsOf(list.load)
    BY <2>1
  <2>3. \A i \in DOMAIN selected : selected[i][1] = list.load
    BY <2>2 DEF ItemsOf
  <2>4. DOMAIN rows = DOMAIN NoRows
    BY DEF Typed, Screens, NoRows
  <2> QED
    BY <2>1, <2>3, <2>4, TypedFields DEF TypeOK
<1> QED
  BY <1>1, TypedAlways, PTL

(***************************************************************************)
(* The screen                                                              *)
(***************************************************************************)

\* Requests for the screen.
ToDraw == {"list", "jump", "resize"}

\* What the steps of the user and of the terminal have in common: those that
\* change what is shown ask for it to be drawn, or leave a mark.
Quiet ==
    /\ UNCHANGED <<input, list, rows, height, focused, previewed>>
    /\ requests \subseteq requests' /\ undrawn \subseteq undrawn'
    /\ ~version' => ~version /\ selected' = selected
    /\ \/ "list" \in requests'
       \/ /\ selected' = selected
          /\ jumping' = jumping \/ "jump" \in requests'
          /\ UNCHANGED <<cy, offset>> \/ "screen" \in undrawn'
          /\ cy' = cy \/ "preview" \in undrawn' \/ Held(cy')

LEMMA QuietSteps ==
  ASSUME Typed, [Next]_vars
  PROVE  Quiet \/ UpdateList \/ Render
<1>1. ASSUME NEW a, Move(a) \/ Page(a) \/ MoveOffset(a) \/ MoveToSelected(a)
      PROVE  Quiet
  <2>1. MoveFrame
    BY <1>1 DEF Move, Page, MoveOffset, MoveToSelected
  <2>2. requests' = requests \cup {"list"} \/ UNCHANGED <<cy, offset, requests>>
    <3>1. CASE Move(a)
      BY <3>1 DEF Move, MoveTo
    <3>2. CASE Page(a)
      BY <3>2 DEF Page, MoveTo
    <3>3. CASE MoveOffset(a)
      BY <3>3 DEF MoveOffset, MoveTo
    <3>4. CASE MoveToSelected(a)
      BY <3>4 DEF MoveToSelected, MoveTo
    <3> QED
      BY <1>1, <3>1, <3>2, <3>3, <3>4
  <2> QED
    BY <2>1, <2>2 DEF MoveFrame, Quiet
<1>2. ASSUME NEW r, Drag(r)
      PROVE  Quiet
  <2>1. MoveFrame
    BY <1>2 DEF Drag
  <2>2. requests' = requests \cup {"list"} \/ UNCHANGED <<cy, offset, requests>>
    BY <1>2 DEF Drag, MoveTo
  <2> QED
    BY <2>1, <2>2 DEF MoveFrame, Quiet
<1>3. ASSUME NEW a, Select(a)
      PROVE  Quiet
  <2>1. /\ UNCHANGED <<input, list, rows, height, focused, previewed, offset, jumping, undrawn>>
        /\ version' = (version \/ selected' # selected)
        /\ requests' \in {requests, requests \cup {"list"}}
        /\ selected' = selected => cy' = cy
        /\ selected' # selected => "list" \in requests'
    BY <1>3 DEF Select
  <2> QED
    BY <2>1 DEF Quiet
<1>4. ASSUME NEW a, SetTrack(a) \/ Accept(a)
      PROVE  Quiet
  BY <1>4 DEF SetTrack, Accept, Quiet
<1>5. CASE OffsetMiddle
  <2> DEFINE p == ConstrainTo(height, list, height, cy, offset)
             last == Max({0, Count(list) - 1})
  <2>1. /\ UNCHANGED <<input, list, rows, height, focused, previewed, selected, version, jumping,
                       requests>>
        /\ cy' = p.cy /\ offset' = p.offset /\ undrawn \subseteq undrawn'
        /\ p = Place(cy, offset) \/ "screen" \in undrawn'
    BY <1>5 DEF OffsetMiddle
  <2>2. Held(p.cy)
    <3>1. height \in Nat \ {0} /\ Shows(list) /\ height \in Nat
      BY ListTyped
    <3>2. p.cy = Constrain(cy, 0, last)
      BY <3>1, TypedFields, ConstrainToTyped
    <3> QED
      BY <3>2 DEF Held
  <2> HIDE DEF p
  <2> QED
    BY <2>1, <2>2 DEF Quiet, Place
<1>6. ASSUME StartJump("yes") \/ StartJump("accept")
      PROVE  Quiet
  BY <1>6 DEF StartJump, Quiet
<1>7. CASE EndJump
  BY <1>7 DEF EndJump, Quiet
<1>8. ASSUME NEW r, Click(r) \/ DoubleClick(r)
      PROVE  Quiet
  BY <1>8 DEF Click, DoubleClick, Quiet
<1>9. CASE Resize
  BY <1>9 DEF Resize, Quiet
<1>10. CASE UNCHANGED vars
  BY <1>10 DEF vars, Quiet
<1> QED
  BY <1>1, <1>2, <1>3, <1>4, <1>5, <1>6, <1>7, <1>8, <1>9, <1>10 DEF Next

\* What is on the screen looks like the list, unless something asks for it to be
\* drawn or offset-middle has left it behind.
Painted ==
    LET fresh == PrintList(list, Place(cy, offset), selected, jumping, height, NoRows)
    IN  \A r \in 0..(height - 1) : SameLook(rows[r], fresh[r])
UpToDate == requests \cap ToDraw = {} /\ "screen" \notin undrawn /\ rows # NoRows => Painted

LEMMA UpToDateStep == Typed /\ UpToDate /\ [Next]_vars => UpToDate'
<1> SUFFICES ASSUME Typed, UpToDate, [Next]_vars,
                    requests' \cap ToDraw = {}, "screen" \notin undrawn', rows' # NoRows
             PROVE  Painted'
  <2>1. NoRows' = NoRows
    BY DEF NoRows
  <2> QED
    BY <2>1 DEF UpToDate
<1>1. CASE Quiet
  <2>1. UNCHANGED <<list, rows, height, selected, jumping, cy, offset>>
    BY <1>1 DEF Quiet, ToDraw
  <2>2. Painted
    BY <1>1, <2>1 DEF Quiet, UpToDate, ToDraw
  <2> QED
    BY <2>1, <2>2 DEF Painted
<1>2. CASE UpdateList
  BY <1>2 DEF UpdateList, ToDraw
<1>3. CASE Render /\ requests \cap ToDraw = {}
  <2>1. UNCHANGED <<list, rows, height, selected, cy, offset, undrawn>>
    BY <1>3 DEF Render, ToDraw
  <2>2. jumping' = jumping
    BY <1>3 DEF Render, ToDraw
  <2>3. Painted
    BY <1>3, <2>1 DEF UpToDate
  <2> QED
    BY <2>1, <2>2, <2>3 DEF Painted
<1>4. CASE Render /\ requests \cap ToDraw # {}
  <2>1. PICK before : Redrawn(before)
    BY <1>4, RenderDraws DEF ToDraw
  <2> DEFINE h == height'
             p == Place(cy', offset')
             mode == jumping'
  <2>2. /\ h \in Heights /\ p \in Places /\ before \in Screens /\ WellDrawn(before, h)
        /\ rows' = PrintList(list, p, selected, mode, h, before)
    BY <1>4, <2>1, RenderDraws DEF Redrawn, Place, Places, ToDraw
  <2>3. Shows(list) /\ list' = list /\ selected' = selected
    BY <1>4, ListTyped DEF Render
  <2>4. \A r \in 0..(h - 1) : SameLook(PrintList(list, p, selected, mode, h, before)[r],
                                       PrintList(list, p, selected, mode, h, NoRows)[r])
    <3> HIDE DEF h, p, mode
    <3> QED
      BY <2>2, <2>3, PrintListSame
  <2>5. NoRows' = NoRows
    BY DEF NoRows
  <2> QED
    BY <2>2, <2>3, <2>4, <2>5 DEF Painted
<1> QED
  BY <1>1, <1>2, <1>3, <1>4, QuietSteps

\* The rows that the terminal does not draw again because it takes them to look
\* the same (terminal.go:2647-2666) do: when it has nothing to draw, the screen
\* is as if it had been drawn on an empty window.
THEOREM ScreenIsExact == Spec => []ScreenExact
<1>1. Init => UpToDate
  BY DEF Init, UpToDate
<1>2. UpToDate => ScreenExact
  BY DEF UpToDate, ScreenExact, Drawn, Painted
<1> QED
  BY <1>1, <1>2, UpToDateStep, TypedAlways, PTL DEF Spec

(***************************************************************************)
(* The preview                                                             *)
(***************************************************************************)

\* The preview is that of the current item and of the selection, unless the list
\* has to be drawn or a double click moved the cursor; and what the terminal
\* compares with to find out is what the preview was refreshed for.
InList == cy \in 0..(Count(list) - 1) \/ Count(list) = 0
Previewed ==
    /\ "list" \notin requests /\ "preview" \notin undrawn =>
           InList /\ previewed = <<Current, selected>>
    /\ ~version => \E item \in ItemsOf(list.load) \cup {NoItem} :
                      previewed = <<item, selected>> /\ focused = Index(item)

\* Where constrain leaves the cursor.
LEMMA HeldInList ==
  ASSUME Typed, NEW c, Held(c)
  PROVE  /\ c \in 0..(Count(list) - 1) \/ Count(list) = 0
         /\ cy \in 0..(Count(list) - 1) => c = cy
         /\ InList => ItemAt(list, c) = Current
<1> DEFINE n == Count(list)
           last == Max({0, n - 1})
<1>1. n \in Nat /\ cy \in Int
  BY ListTyped, TypedFields
<1>2. Constrain(cy, 0, last) = c
  BY DEF Held
<1> HIDE DEF n
<1>3. last = IF n = 0 THEN 0 ELSE n - 1
  BY <1>1, MaxOfTwo
<1>4. (c \in 0..(n - 1) \/ n = 0) /\ (cy \in 0..(n - 1) => c = cy)
  BY <1>1, <1>2, <1>3 DEF Constrain
<1>5. n = 0 => ItemAt(list, c) = NoItem /\ Current = NoItem
  BY DEF ItemAt, Current, n
<1> QED
  BY <1>4, <1>5 DEF InList, Current, n

\* An item, or none, is known by its index.
LEMMA ItemOfIndex ==
  ASSUME NEW load, NEW a \in ItemsOf(load) \cup {NoItem}, NEW b \in ItemsOf(load) \cup {NoItem},
         Index(a) = Index(b)
  PROVE  a = b
<1>1. Index(NoItem) = -1
  BY DEF Index, NoItem, NoIndex
<1>2. \A x \in ItemsOf(load) : x = <<load, Index(x)>> /\ Index(x) >= 0
  BY GeometryAssumption DEF ItemsOf, Index
<1> QED
  BY <1>1, <1>2

LEMMA PreviewedRender ==
  ASSUME Typed, Previewed, Render
  PROVE  Previewed'
<1>1. UNCHANGED <<list, selected>> /\ requests' = {}
  BY DEF Render
<1> DEFINE p == Visible(cy, offset)
           item == ItemAt(list, p.cy)
<1>2. CASE requests \cap {"list", "jump", "resize"} = {}
  <2>1. UNCHANGED <<cy, undrawn, version, focused, previewed>> /\ "list" \notin requests
    BY <1>2 DEF Render
  <2> QED
    BY <1>1, <2>1 DEF Previewed, InList, Current
<1>3. CASE requests \cap {"list", "jump", "resize"} # {} /\ "list" \notin requests
  <2>1. /\ "preview" \in undrawn <=> "preview" \in undrawn'
        /\ UNCHANGED <<version, focused, previewed>>
    BY <1>3 DEF Render
  <2>2. Held(cy')
    BY <1>3, RenderDraws DEF Redrawn
  <2> QED
    BY <1>1, <1>3, <2>1, <2>2, HeldInList DEF Previewed, InList, Current
<1>4. CASE "list" \in requests
  <2>1. Held(cy')
    BY <1>4, RenderDraws DEF Redrawn
  <2>2. Held(p.cy)
    <3>1. height \in Nat \ {0} /\ Shows(list) /\ ScrollOff \in Nat
      BY ListTyped, GeometryAssumption
    <3> QED
      BY <3>1, TypedFields, ConstrainToTyped DEF Visible, Held
  <2>3. cy' = p.cy
    BY <2>1, <2>2 DEF Held
  <2>4. Current' = item /\ InList'
    BY <1>1, <2>1, <2>3, HeldInList DEF Current, InList
  <2>5. item \in ItemsOf(list.load) \cup {NoItem}
    <3>1. CASE p.cy \in 0..(Count(list) - 1)
      <4>1. item = list.seq[p.cy + 1] /\ p.cy + 1 \in 1..Len(list.seq)
        BY <3>1, ListTyped DEF ItemAt, Get, Count
      <4>2. list.seq \in Seq(ItemsOf(list.load))
        BY DEF Typed
      <4> HIDE DEF item, p
      <4> QED
        BY <4>1, <4>2
    <3>2. CASE p.cy \notin 0..(Count(list) - 1)
      BY <3>2 DEF ItemAt
    <3> QED
      BY <3>1, <3>2
  <2>6. IF Refresh(Index(item))
        THEN focused' = Index(item) /\ version' = FALSE /\ previewed' = <<item, selected>>
        ELSE UNCHANGED <<focused, version, previewed>>
    BY <1>4 DEF Render, DrawList
  <2> HIDE DEF item, p
  <2>7. CASE Refresh(Index(item))
    BY <1>1, <2>4, <2>5, <2>6, <2>7 DEF Previewed
  <2>8. CASE ~Refresh(Index(item))
    <3>1. ~version /\ focused = Index(item)
      BY <2>8 DEF Refresh
    <3>2. PICK old \in ItemsOf(list.load) \cup {NoItem} :
                 previewed = <<old, selected>> /\ focused = Index(old)
      BY <3>1 DEF Previewed
    <3>3. old = item
      BY <2>5, <3>1, <3>2, ItemOfIndex
    <3>4. previewed = <<item, selected>>
      BY <3>2, <3>3
    <3> QED
      BY <1>1, <2>4, <2>5, <2>6, <2>8, <3>1, <3>4 DEF Previewed
  <2> QED
    BY <2>7, <2>8
<1> QED
  BY <1>2, <1>3, <1>4

LEMMA PreviewedStep == Typed /\ Previewed /\ [Next]_vars => Previewed'
<1> SUFFICES ASSUME Typed, Previewed, [Next]_vars
             PROVE  Previewed'
  OBVIOUS
<1>1. CASE Quiet
  <2>1. /\ UNCHANGED <<list, focused, previewed>>
        /\ ~version' => ~version /\ selected' = selected
    BY <1>1 DEF Quiet
  <2>2. ASSUME "list" \notin requests', "preview" \notin undrawn'
        PROVE  InList' /\ previewed' = <<Current', selected'>>
    <3>1. /\ "list" \notin requests /\ "preview" \notin undrawn
          /\ selected' = selected
          /\ cy' = cy \/ Held(cy')
      BY <1>1, <2>2 DEF Quiet
    <3>2. InList /\ previewed = <<Current, selected>>
      BY <3>1 DEF Previewed
    <3>3. InList' /\ Current' = Current
      BY <2>1, <3>1, <3>2, HeldInList DEF InList, Current
    <3> QED
      BY <2>1, <3>1, <3>2, <3>3
  <2>3. ASSUME ~version'
        PROVE  (\E item \in ItemsOf(list.load) \cup {NoItem} :
                  previewed = <<item, selected>> /\ focused = Index(item))'
    BY <2>1, <2>3 DEF Previewed
  <2> QED
    BY <2>2, <2>3 DEF Previewed
<1>2. CASE UpdateList
  <2>1. PICK in, new, i : Updated(in, new, i)
    BY <1>2, UpdateListUpdates
  <2>2. /\ version' = (version \/ <<list.load, list.trims>> # <<list'.load, list'.trims>>)
        /\ requests' = requests \cup {"list"} /\ UNCHANGED <<focused, previewed>>
    BY <1>2, UpdateListUpdates
  <2>3. ASSUME ~version'
        PROVE  ~version /\ list'.load = list.load /\ selected' = selected
    <3>1. ~version /\ list'.load = list.load /\ list'.trims = list.trims
      BY <2>2, <2>3
    <3> QED
      BY <2>1, <3>1 DEF Updated
  <2> QED
    BY <2>2, <2>3 DEF Previewed
<1>3. CASE Render
  BY <1>3, PreviewedRender
<1> QED
  BY <1>1, <1>2, <1>3, QuietSteps

\* When the terminal has nothing to draw, the preview is that of the current item
\* and of the selection: every change of them asks for the list to be drawn, and
\* reqList sees it by the focus or by the version (terminal.go:4422-4426).
THEOREM PreviewIsFresh == Spec => []PreviewFresh
<1>1. Init => Previewed
  <2> SUFFICES ASSUME Init PROVE Previewed
    OBVIOUS
  <2>1. list.seq = Ordered(0, {}, FALSE)
    BY DEF Init, ListOf
  <2>2. Count(list) = 0
    <3>1. Cardinality({}) = 0
      BY FS_EmptySet
    <3>2. list.seq = <<>>
      BY <2>1, <3>1 DEF Ordered
    <3> QED
      BY <3>2 DEF Count
  <2>3. Current = NoItem
    BY <2>2 DEF Current, ItemAt
  <2>4. selected = <<>> /\ focused = NoIndex /\ previewed = <<NoItem, <<>>>>
    BY DEF Init
  <2> QED
    BY <2>2, <2>3, <2>4 DEF Previewed, InList, Index, NoItem
<1>2. Previewed => PreviewFresh
  BY DEF Previewed, PreviewFresh, Drawn
<1> QED
  BY <1>1, <1>2, PreviewedStep, TypedAlways, PTL DEF Spec

(***************************************************************************)
(* Tracking, and --tail                                                    *)
(***************************************************************************)

\* A list of the same load that has the item that the cursor is on.
LEMMA FollowsItem ==
  ASSUME Typed, NEW in \in Inputs, NEW new, NEW i, Updated(in, new, i),
         new.load = in.load, new.load = list.load, track # "off", Current # NoItem,
         Contains(new.seq, Current)
  PROVE  ItemAt(new, cy') = Current
<1>1. /\ cy \in 0..(Count(list) - 1) /\ Current \in ItemsOf(in.load)
      /\ Index(Current) \in Nat /\ Count(list) > 0
  <2>1. cy \in 0..(Count(list) - 1) /\ Current \in ItemsOf(list.load)
    BY CurrentTyped
  <2>2. Count(list) > 0
    BY <2>1, ListTyped
  <2> QED
    BY <2>1, <2>2 DEF ItemsOf, Index
<1>2. Anchor(new) = Index(Current) /\ Anchor(new) # NoIndex
  BY <1>1 DEF Anchor, NoIndex
<1>3. new \in ListsOf(in) /\ i = FindIndex(new, Index(Current))
  BY <1>2 DEF Updated
<1>4. i \in 0..(Count(new) - 1) /\ Get(new, i) = Current
  BY <1>1, <1>3, FindIndexRight
<1>5. i >= 0
  BY <1>4
<1>6. Place(cy', offset') = Place(i, i - (cy - offset))
  <2> DEFINE lost == Anchor(new) # NoIndex /\ i < 0
             p == Placed(new, cy - offset, i, lost)
  <2>1. Place(cy', offset') = p
    BY DEF Updated
  <2>2. ~lost
    BY <1>4
  <2> HIDE DEF lost
  <2>3. p = Follow(new, cy - offset, i)
    BY <1>5, <2>2 DEF Placed
  <2> QED
    BY <2>1, <2>3 DEF Follow
<1>7. cy' = i
  BY <1>6 DEF Place
<1> QED
  BY <1>4, <1>7 DEF ItemAt

LEMMA TrackStep ==
  ASSUME Typed, [Next]_vars
  PROVE  /\ list' # list /\ list'.load = list.load /\ track # "off" /\ Current # NoItem
            /\ Contains(list'.seq, Current) => ItemAt(list', cy') = Current
         /\ requests' = {} /\ requests # {} /\ Current # NoItem => ItemAt(list', cy') = Current
<1>1. CASE Quiet
  <2>1. list' = list /\ requests \subseteq requests'
    BY <1>1 DEF Quiet
  <2> QED
    BY <2>1
<1>2. CASE UpdateList
  <2>1. requests' = requests \cup {"list"}
    BY <1>2, UpdateListUpdates
  <2>2. PICK in, new, i : Updated(in, new, i) /\ in \in Inputs /\ new.load = in.load
    BY <1>2, UpdateListUpdates
  <2>3. list' = new
    BY <2>2 DEF Updated
  <2> QED
    BY <2>1, <2>2, <2>3, FollowsItem
<1>3. CASE Render
  <2>1. list' = list
    BY <1>3 DEF Render
  <2>2. ASSUME Current # NoItem
        PROVE  cy' = cy
    <3>1. cy \in 0..(Count(list) - 1)
      BY <2>2, CurrentTyped
    <3>2. CASE requests \cap {"list", "jump", "resize"} = {}
      BY <1>3, <3>2 DEF Render
    <3>3. CASE requests \cap {"list", "jump", "resize"} # {}
      <4>1. Held(cy')
        BY <1>3, <3>3, RenderDraws DEF Redrawn
      <4> QED
        BY <3>1, <4>1, HeldInList
    <3> QED
      BY <3>2, <3>3
  <2> QED
    BY <2>1, <2>2 DEF Current
<1> QED
  BY <1>1, <1>2, <1>3, QuietSteps

\* With --track the cursor stays on its item when the list is another one
\* (terminal.go:1414-1469), and drawing the list never moves it to another item.
THEOREM TrackingKeeps == Spec => TrackKeeps
<1>1. Typed /\ [Next]_vars =>
        [/\ list' # list /\ list'.load = list.load /\ track # "off" /\ Current # NoItem
            /\ Contains(list'.seq, Current) => ItemAt(list', cy') = Current
         /\ requests' = {} /\ requests # {} /\ Current # NoItem => ItemAt(list', cy') = Current]_vars
  BY TrackStep
<1> QED
  BY <1>1, TypedAlways, PTL DEF Spec, TrackKeeps

\* Items that are dropped from a list of all items are the first ones.
LEMMA FilteredRight ==
  ASSUME Typed, NEW in \in Inputs, NEW new \in ListsOf(in), new.all, in.load = list.load,
         in.to - in.from + 1 = MaxInput
  PROVE  Filtered(new) = Kept(selected, ToSet(new.seq))
<1> DEFINE a == in.from
           b == in.to
           A == ItemsOf(list.load)
           T == {s \in ToSet(selected) :
                   Count(new) = 0 \/ Index(s) \in new.min..(new.min + Count(new) - 1)}
<1>1. a \in Nat /\ b \in Int /\ b - a + 1 = MaxInput /\ MaxInput \in Nat \ {0} /\ Tac \in BOOLEAN
  BY ListAssumption DEF Inputs
<1>2. new.min = a /\ new.seq = Ordered(in.load, a..b, Tac) /\ Count(new) = Len(new.seq)
  BY ListsTyped DEF Count
<1> HIDE DEF a, b
<1>3. /\ Count(new) = b - a + 1
      /\ \A k \in 1..Count(new) : new.seq[k] = <<in.load, IF Tac THEN b - k + 1 ELSE a + k - 1>>
  <2>1. a \in Int /\ b \in Int /\ ~(a > b)
    BY <1>1
  <2>2. /\ Count(new) = IF a > b THEN 0 ELSE b - a + 1
        /\ \A k \in 1..Count(new) : new.seq[k] = <<in.load, IF Tac THEN b - k + 1 ELSE a + k - 1>>
    <3>1. a \in Int /\ b \in Int /\ Tac \in BOOLEAN
      BY <1>1
    <3> QED
      BY <1>2, <3>1, OrderedRange
  <2> QED
    BY <2>1, <2>2
<1>4. new.min..(new.min + Count(new) - 1) = a..b /\ Count(new) # 0
  <2> DEFINE c == Count(new)
  <2>1. new.min = a /\ c = b - a + 1
    BY <1>2, <1>3
  <2> HIDE DEF c
  <2>2. c # 0 /\ new.min + c - 1 = b
    BY <1>1, <2>1
  <2> QED
    BY <2>1, <2>2 DEF c
<1>5. selected \in Seq(A)
  BY TypedFields DEF SelectionsOf
<1>6. new.seq \in Seq(ItemsOf(in.load))
  BY ListsTyped
<1>7. ASSUME NEW k \in 1..Len(selected)
      PROVE  selected[k] \in T <=> selected[k] \in ToSet(new.seq)
  <2> DEFINE s == selected[k]
             n == Index(s)
  <2>1. s = <<in.load, n>> /\ n \in Nat
    <3>1. s \in A
      BY <1>5
    <3> QED
      BY <3>1 DEF ItemsOf, Index
  <2>2. s \in ToSet(selected)
    BY <1>5 DEF ToSet
  <2>3. s \in T <=> n \in a..b
    BY <1>4, <2>2
  <2> HIDE DEF s, n, T
  <2>4. s \in ToSet(new.seq) <=> \E j \in 1..Count(new) : new.seq[j] = s
    BY <1>2, <1>6 DEF ToSet
  <2>5. ASSUME NEW j \in 1..Count(new), new.seq[j] = s
        PROVE  n \in a..b
    <3>1. n = IF Tac THEN b - j + 1 ELSE a + j - 1
      BY <1>3, <2>1, <2>5
    <3>2. CASE Tac
      BY <1>1, <1>3, <3>1, <3>2
    <3>3. CASE ~Tac
      BY <1>1, <1>3, <3>1, <3>3
    <3> QED
      BY <3>2, <3>3
  <2>6. ASSUME n \in a..b
        PROVE  \E j \in 1..Count(new) : new.seq[j] = s
    <3>1. CASE Tac
      <4> DEFINE j == b - n + 1
      <4>1. j \in 1..Count(new) /\ b - j + 1 = n
        BY <1>1, <1>3, <2>6
      <4> HIDE DEF j
      <4>2. new.seq[j] = s
        BY <1>3, <2>1, <3>1, <4>1
      <4> QED
        BY <4>1, <4>2
    <3>2. CASE ~Tac
      <4> DEFINE j == n - a + 1
      <4>1. j \in 1..Count(new) /\ a + j - 1 = n
        BY <1>1, <1>3, <2>6
      <4> HIDE DEF j
      <4>2. new.seq[j] = s
        BY <1>3, <2>1, <3>2, <4>1
      <4> QED
        BY <4>1, <4>2
    <3> QED
      BY <3>1, <3>2
  <2>7. s \in T <=> s \in ToSet(new.seq)
    BY <2>3, <2>4, <2>5, <2>6
  <2> QED
    BY <2>7 DEF s
<1>8. Filtered(new) = Kept(selected, T)
  BY DEF Filtered
<1> HIDE DEF T, A
<1> QED
  BY <1>5, <1>7, <1>8, KeptSame

LEMMA TailStep ==
  ASSUME Typed, [Next]_vars, list'.load = list.load, list'.trims # list.trims, list'.all
  PROVE  selected' = Kept(selected, ToSet(list'.seq))
<1>1. UpdateList
  <2>1. Quiet => list' = list
    BY DEF Quiet
  <2>2. Render => list' = list
    BY DEF Render
  <2> QED
    BY <2>1, <2>2, QuietSteps
<1>2. PICK in, new, i : /\ Updated(in, new, i) /\ in \in Inputs
                        /\ new.load = in.load /\ new.trims = in.trims
  BY <1>1, UpdateListUpdates
<1>3. /\ list' = new /\ in \in Arrives(input) /\ new \in ListsOf(in)
      /\ list.load = new.load /\ list.trims # new.trims => selected' = Filtered(new)
  BY <1>2 DEF Updated
<1>4. input \in Inputs /\ list.load = input.load /\ list.trims = input.trims
  BY DEF Typed
<1>5. in.to - in.from + 1 = MaxInput
  BY <1>2, <1>3, <1>4, ArrivesTyped
<1> QED
  BY <1>2, <1>3, <1>5, FilteredRight

\* When --tail drops items from a list that is not searched, the selection loses
\* those and no other, by their numbers (terminal.go:1429-1446).
THEOREM TailIsExact == Spec => TailExact
<1>1. Typed /\ [Next]_vars =>
        [list'.load = list.load /\ list'.trims # list.trims /\ list'.all =>
           selected' = Kept(selected, ToSet(list'.seq))]_vars
  BY TailStep
<1> QED
  BY <1>1, TypedAlways, PTL DEF Spec, TailExact

(***************************************************************************)
(* constrain finds its offset                                              *)
(***************************************************************************)

\* The lines of an item with its gap, and those of the first k items.
Size(l, i) == Lines(Index(Get(l, i))) + Gap
Grows(P, n) == P \in [0..n -> Nat] /\ \A k \in 1..n : P[k - 1] < P[k]
IsSum(P, l) ==
    /\ P \in [0..Count(l) -> Nat] /\ P[0] = 0
    /\ \A k \in 1..Count(l) : P[k] = P[k - 1] + Size(l, k - 1)

\* An item has a line and the gap.
LEMMA SizeTyped ==
  ASSUME NEW l, Shows(l), NEW i \in 0..(Count(l) - 1)
  PROVE  /\ Get(l, i) \in Items /\ Gap \in Nat
         /\ Lines(Index(Get(l, i))) \in Nat \ {0} /\ Size(l, i) \in Nat \ {0}
<1>1. Get(l, i) \in Items
  BY GetTyped
<1>2. Index(Get(l, i)) \in 0..MaxIndex
  BY <1>1 DEF Items, Index
<1>3. Lines(Index(Get(l, i))) \in Nat \ {0} /\ Gap \in Nat
  BY <1>2, GeometryAssumption
<1> HIDE DEF Items
<1> QED
  BY <1>1, <1>3 DEF Size

\* Lines add up.
LEMMA SumExists ==
  ASSUME NEW l, Shows(l)
  PROVE  \E P : IsSum(P, l) /\ Grows(P, Count(l))
<1> DEFINE n == Count(l)
           F == [k \in 1..n |-> [s \in Nat |-> s + Size(l, k - 1)]]
<1>1. n \in Nat /\ 0 \in Nat
  BY CountTyped
<1>2. \A k \in 1..n : Size(l, k - 1) \in Nat \ {0}
  BY <1>1, SizeTyped
<1> HIDE DEF n
<1>3. PICK P : IsChain(P, F, n, Nat, 0)
  <2>1. Steps(F, n, Nat)
    BY <1>2 DEF Steps
  <2> HIDE DEF F
  <2> QED
    BY <1>1, <2>1, ChainExists
<1>4. ASSUME NEW k \in 1..n
      PROVE  P[k] = P[k - 1] + Size(l, k - 1)
  <2>1. P[k - 1] \in Nat
    BY <1>1, <1>3 DEF IsChain
  <2>2. F[k] = [s \in Nat |-> s + Size(l, k - 1)]
    OBVIOUS
  <2> HIDE DEF F
  <2>3. P[k] = F[k][P[k - 1]]
    BY <1>3 DEF IsChain
  <2> QED
    BY <2>1, <2>2, <2>3
<1>5. P \in [0..n -> Nat] /\ P[0] = 0
  BY <1>3 DEF IsChain
<1>6. \A k \in 1..n : P[k - 1] < P[k]
  BY <1>1, <1>2, <1>4, <1>5
<1> QED
  BY <1>4, <1>5, <1>6 DEF IsSum, Grows, n

\* Each item has at least one line.
LEMMA SumGrows ==
  ASSUME NEW n \in Nat, NEW P, Grows(P, n), NEW i \in 0..n, NEW k \in 0..n, i <= k
  PROVE  P[i] \in Nat /\ P[k] \in Nat /\ P[k] - P[i] >= k - i
<1> DEFINE D == {j \in 0..n : j >= i => P[j] - P[i] >= j - i}
<1>1. \A j \in 0..n : P[j] \in Nat
  BY DEF Grows
<1>2. 0 \in D
  BY <1>1
<1>3. ASSUME NEW j \in 1..n, j - 1 \in D
      PROVE  j \in D
  <2>1. P[j - 1] < P[j] /\ P[j - 1] \in Nat /\ P[j] \in Nat /\ P[i] \in Nat
    BY <1>1 DEF Grows
  <2>2. CASE j = i
    BY <2>1, <2>2
  <2>3. CASE j # i
    BY <1>3, <2>1, <2>3
  <2> QED
    BY <2>2, <2>3
<1>4. k \in D
  <2> HIDE DEF D
  <2> QED
    BY <1>2, <1>3, UpTo
<1> QED
  BY <1>1, <1>4

\* What NumLines says of an item that has its lines, or has not.
LEMMA NumLinesSize ==
  ASSUME NEW l, Shows(l), NEW i \in 0..(Count(l) - 1), NEW a \in Int
  PROVE  /\ NumLines(Get(l, i), a).lines \in Int
         /\ NumLines(Get(l, i), a).overflow <=> Size(l, i) > a
         /\ \/ NumLines(Get(l, i), a).lines = Size(l, i)
            \/ NumLines(Get(l, i), a).lines = a + Gap /\ Size(l, i) > a + Gap
<1> DEFINE m == Lines(Index(Get(l, i)))
<1>1. m \in Nat \ {0} /\ Gap \in Nat /\ Size(l, i) = m + Gap
  BY SizeTyped DEF Size
<1>2. NumLines(Get(l, i), a) = IF m > 1 /\ m > a THEN [lines |-> a + Gap, overflow |-> TRUE]
                               ELSE [lines |-> m + Gap, overflow |-> m + Gap > a]
  BY DEF NumLines
<1> HIDE DEF m
<1>3. CASE m > 1 /\ m > a
  <2>1. NumLines(Get(l, i), a) = [lines |-> a + Gap, overflow |-> TRUE]
    BY <1>2, <1>3
  <2> QED
    BY <1>1, <1>3, <2>1
<1>4. CASE ~(m > 1 /\ m > a)
  <2>1. NumLines(Get(l, i), a) = [lines |-> m + Gap, overflow |-> m + Gap > a]
    BY <1>2, <1>4
  <2>2. NumLines(Get(l, i), a).lines = m + Gap
    BY <2>1
  <2>3. NumLines(Get(l, i), a).overflow = (m + Gap > a)
    BY <2>1
  <2>4. NumLines(Get(l, i), a).overflow <=> m + Gap > a
    BY <2>3
  <2>5. (m + Gap > a) <=> (Size(l, i) > a)
    BY <1>1
  <2>6. NumLines(Get(l, i), a).overflow <=> Size(l, i) > a
    BY <2>4, <2>5
  <2>7. NumLines(Get(l, i), a).lines = Size(l, i) /\ Size(l, i) \in Int
    BY <1>1, <2>2
  <2>8. NumLines(Get(l, i), a).lines \in Int
    BY <2>7
  <2> QED
    BY <2>6, <2>7, <2>8
<1> QED
  BY <1>3, <1>4

\* The lines above the cursor are counted right when they fit, and otherwise
\* they fill what there is.
LEMMA BetweenExact ==
  ASSUME NEW l, Shows(l), NEW i \in 0..Count(l), NEW to \in 0..Count(l), i <= to, NEW a \in Int,
         NEW P, IsSum(P, l)
  PROVE  /\ LinesBetween(l, i, to, a) \in Int
         /\ P[to] - P[i] <= a => LinesBetween(l, i, to, a) = P[to] - P[i]
         /\ P[to] - P[i] > a => LinesBetween(l, i, to, a) >= a
<1> DEFINE n == Max({0, to - i})
           Add(sum, j) == sum + NumLines(Get(l, i + j - 1), a - sum).lines
           S == Int
           zero == 0
<1>1. n = to - i /\ n \in Nat /\ zero \in S /\ Count(l) \in Nat
  BY MaxOfTwo, CountTyped
<1> HIDE DEF n
<1>2. ASSUME NEW s \in S, NEW j \in 1..n
      PROVE  Add(s, j) \in S
  <2>1. i + j - 1 \in 0..(Count(l) - 1)
    BY <1>1
  <2> QED
    BY <2>1, NumLinesSize
<1> HIDE DEF Add, S, zero
<1> DEFINE F == [k \in 1..n |-> [s \in S |-> Add(s, k)]]
           f == CHOOSE f : Follows(f, n, zero, Add)
<1>3. PICK g : IsChain(g, F, n, S, zero)
  <2>1. Steps(F, n, S)
    BY <1>2 DEF Steps
  <2> HIDE DEF F
  <2> QED
    BY <1>1, <2>1, ChainExists
<1>4. ASSUME NEW k \in 1..n
      PROVE  g[k - 1] \in S /\ g[k] = Add(g[k - 1], k)
  <2>1. g[k - 1] \in S
    BY <1>1, <1>3 DEF IsChain
  <2>2. F[k] = [s \in S |-> Add(s, k)]
    OBVIOUS
  <2> HIDE DEF F
  <2>3. g[k] = F[k][g[k - 1]]
    BY <1>3 DEF IsChain
  <2> QED
    BY <2>1, <2>2, <2>3
<1>5. Follows(g, n, zero, Add)
  BY <1>1, <1>3, <1>4 DEF IsChain, Follows
<1>6. f[0] = zero /\ \A k \in 1..n : f[k] = Add(f[k - 1], k)
  <2>1. Follows(f, n, zero, Add)
    BY <1>5
  <2> HIDE DEF f
  <2> QED
    BY <1>1, <2>1 DEF Follows
<1>7. LinesBetween(l, i, to, a) = f[n]
  BY DEF LinesBetween, n, zero, Repeated, Add, Follows
<1> HIDE DEF f
<1>8. \A k \in 0..n : f[k] \in S
  <2>1. f[0] \in S /\ \A k \in 1..n : f[k - 1] \in S => f[k] \in S
    BY <1>1, <1>2, <1>6
  <2> QED
    BY <1>1, <2>1, ChainIn
<1>9. LinesBetween(l, i, to, a) \in S
  BY <1>1, <1>7, <1>8
<1>10. \A j \in 0..n : i + j \in 0..Count(l) /\ P[i + j] \in Int
  BY <1>1 DEF IsSum
<1> DEFINE D(j) == P[i + j] - P[i]
           Known(d) == {s \in Int : d <= a => s = d} \cap {s \in Int : d > a => s >= a}
           T == [j \in 0..n |-> Known(D(j))]
<1>11. f[0] \in T[0]
  <2>1. D(0) = 0 /\ f[0] = 0
    BY <1>1, <1>6, <1>10 DEF zero, IsSum
  <2>2. 0 \in Known(0)
    BY <1>1
  <2> HIDE DEF D, Known
  <2> QED
    BY <1>1, <2>1, <2>2
<1>12. ASSUME NEW j \in 1..n, f[j - 1] \in T[j - 1]
       PROVE  f[j] \in T[j]
  <2> DEFINE s == f[j - 1]
             m == NumLines(Get(l, i + j - 1), a - s)
             z == Size(l, i + j - 1)
  <2>1. i + j - 1 \in 0..(Count(l) - 1)
    BY <1>1
  <2>2. s \in Known(D(j - 1))
    <3> HIDE DEF Known, D
    <3> QED
      BY <1>1, <1>12
  <2>3. z \in Nat \ {0} /\ Gap \in Nat
    BY <2>1, SizeTyped
  <2>4. m.lines \in Int /\ (m.lines = z \/ (m.lines = a - s + Gap /\ z > a - s + Gap))
    <3>1. s \in Int
      BY <2>2
    <3> HIDE DEF Known
    <3> QED
      BY <2>1, <3>1, NumLinesSize
  <2>5. f[j] = s + m.lines
    BY <1>6 DEF Add
  <2>6. D(j) = D(j - 1) + z /\ D(j - 1) \in Int
    <3>1. i + j \in 1..Count(l) /\ i + (j - 1) = i + j - 1
      BY <1>1
    <3>2. P[i + j] = P[i + j - 1] + z
      BY <3>1 DEF IsSum
    <3>3. P[i + j - 1] \in Int /\ P[i] \in Int
      <4>1. i + j - 1 \in 0..Count(l)
        BY <1>1
      <4> QED
        BY <4>1, <1>1 DEF IsSum
    <3> QED
      BY <2>3, <3>1, <3>2, <3>3
  <2> HIDE DEF s, m, z, D
  <2>7. f[j] \in Known(D(j))
    BY <2>2, <2>3, <2>4, <2>5, <2>6
  <2> HIDE DEF Known
  <2> QED
    BY <2>7
<1>13. f[n] \in T[n]
  <2>1. \A j \in 0..n : f[j] \in T[j]
    <3> HIDE DEF T
    <3> QED
      BY <1>1, <1>11, <1>12, ChainStays
  <2> QED
    BY <1>1, <2>1
<1>14. D(n) = P[to] - P[i] /\ D(n) \in Int
  BY <1>1 DEF IsSum
<1> HIDE DEF D
<1>15. f[n] \in Known(D(n))
  <2> HIDE DEF Known
  <2> QED
    BY <1>1, <1>13
<1> QED
  BY <1>7, <1>14, <1>15

\* The lines of the first k items in the order in which they are tried: those
\* from the offset o on, and then those before it.
Tried(P, n, o, k) == IF k <= n - o THEN P[o + k] - P[o] ELSE P[n] - P[n - k]

\* Each item that is tried has at least one line.
LEMMA TriedGrows ==
  ASSUME NEW n \in Nat, NEW P, Grows(P, n), NEW o \in 0..n, NEW k \in 0..n, NEW m \in 0..n, k <= m
  PROVE  /\ Tried(P, n, o, k) \in Nat /\ Tried(P, n, o, m) \in Nat
         /\ Tried(P, n, o, m) - Tried(P, n, o, k) >= m - k
<1>1. \A i, j \in 0..n : i <= j => P[i] \in Nat /\ P[j] \in Nat /\ P[j] - P[i] >= j - i
  BY SumGrows
<1>2. CASE m <= n - o
  <2>1. o + k \in 0..n /\ o + m \in 0..n /\ o + k <= o + m /\ o <= o + k
    BY <1>2
  <2>2. Tried(P, n, o, k) = P[o + k] - P[o] /\ Tried(P, n, o, m) = P[o + m] - P[o]
    BY <1>2 DEF Tried
  <2>3. P[o + m] - P[o + k] >= (o + m) - (o + k) /\ P[o + k] - P[o] >= (o + k) - o
    BY <1>1, <2>1
  <2>4. P[o + m] \in Nat /\ P[o + k] \in Nat /\ P[o] \in Nat
    BY <1>1, <2>1
  <2> QED
    BY <2>2, <2>3, <2>4
<1>3. CASE ~(m <= n - o) /\ k <= n - o
  <2>1. o + k \in 0..n /\ n - m \in 0..n /\ o + k <= n /\ n - m <= o /\ o <= o + k /\ n \in 0..n
    BY <1>3
  <2>2. Tried(P, n, o, k) = P[o + k] - P[o] /\ Tried(P, n, o, m) = P[n] - P[n - m]
    BY <1>3 DEF Tried
  <2>3. /\ P[n] - P[o + k] >= n - (o + k) /\ P[o] - P[n - m] >= o - (n - m)
        /\ P[o + k] - P[o] >= (o + k) - o
    BY <1>1, <2>1
  <2>4. P[n] \in Nat /\ P[o + k] \in Nat /\ P[o] \in Nat /\ P[n - m] \in Nat
    BY <1>1, <2>1
  <2> QED
    BY <2>2, <2>3, <2>4
<1>4. CASE ~(m <= n - o) /\ ~(k <= n - o)
  <2>1. n - k \in 0..n /\ n - m \in 0..n /\ n - k <= n /\ n - m <= n - k /\ n \in 0..n
    BY <1>4
  <2>2. Tried(P, n, o, k) = P[n] - P[n - k] /\ Tried(P, n, o, m) = P[n] - P[n - m]
    BY <1>4 DEF Tried
  <2>3. P[n - k] - P[n - m] >= (n - k) - (n - m) /\ P[n] - P[n - k] >= n - (n - k)
    BY <1>1, <2>1
  <2>4. P[n] \in Nat /\ P[n - k] \in Nat /\ P[n - m] \in Nat
    BY <1>1, <2>1
  <2> QED
    BY <2>2, <2>3, <2>4
<1> QED
  BY <1>2, <1>3, <1>4

\* The number of items that fit: no more lines than the window has, unless it is
\* one item, and not one item less than possible.
Fits(P, n, o, h, f) ==
    /\ f \in 1..n /\ f <= h
    /\ f = 1 \/ Tried(P, n, o, f) <= h
    /\ f = n \/ Tried(P, n, o, f + 1) > h

\* So the loop that counts them counts them.
LEMMA FitExact ==
  ASSUME NEW h \in Nat \ {0}, NEW l, Shows(l), Count(l) > 0, NEW o \in 0..Count(l),
         NEW P, IsSum(P, l), Grows(P, Count(l))
  PROVE  Fits(P, Count(l), o, h, ItemsThatFit(h, l, o))
<1> DEFINE n == Count(l)
           At(k) == IF k <= Count(l) - o THEN o + k - 1 ELSE Count(l) - k
           Add(a, k) ==
             Fitting(h, a, NumLines(Get(l, IF k <= Count(l) - o THEN o + k - 1 ELSE Count(l) - k),
                                    h - a.sum))
           S == [sum : Int, found : Nat, full : BOOLEAN]
           start == [sum |-> 0, found |-> 0, full |-> FALSE]
           Q(k) == Tried(P, n, o, k)
<1>1. n \in Nat /\ n > 0 /\ start \in S
  BY CountTyped
<1>2. ASSUME NEW a \in S, NEW k \in 1..n
      PROVE  Add(a, k) \in S
  <2> DEFINE m == NumLines(Get(l, At(k)), h - a.sum)
  <2>1. At(k) \in 0..(Count(l) - 1)
    BY <1>1
  <2>2. Add(a, k) = Fitting(h, a, m)
    OBVIOUS
  <2>3. a.sum \in Int /\ a.found \in Nat
    OBVIOUS
  <2>4. m.lines \in Int
    BY <2>1, <2>3, NumLinesSize
  <2> HIDE DEF m, Add
  <2>6. OneMore(h, a, m, a.sum + m.lines) \in S
    BY <2>3, <2>4 DEF OneMore
  <2> QED
    BY <2>2, <2>6 DEF Fitting
<1>3. \A k \in 1..n : Q(k) = Q(k - 1) + Size(l, At(k)) /\ At(k) \in 0..(n - 1)
  <2> SUFFICES ASSUME NEW k \in 1..n
               PROVE  Q(k) = Q(k - 1) + Size(l, At(k)) /\ At(k) \in 0..(n - 1)
    OBVIOUS
  <2>1. At(k) \in 0..(n - 1)
    BY <1>1
  <2>2. Size(l, At(k)) \in Nat
    BY <2>1, SizeTyped
  <2>3. \A j \in 0..n : P[j] \in Nat
    BY DEF Grows
  <2>4. CASE k <= n - o
    <3>1. o + k \in 1..n /\ o + (k - 1) = o + k - 1 /\ At(k) = o + k - 1
      BY <1>1, <2>4
    <3>2. P[o + k] = P[o + k - 1] + Size(l, At(k))
      BY <3>1 DEF IsSum
    <3>3. o + k - 1 \in 0..n /\ o + k \in 0..n
      BY <3>1, <1>1
    <3>4. Q(k) = P[o + k] - P[o] /\ Q(k - 1) = P[o + k - 1] - P[o]
      BY <1>1, <2>4, <3>1 DEF Tried
    <3> HIDE DEF Q, At
    <3> QED
      BY <2>1, <2>2, <2>3, <3>2, <3>3, <3>4
  <2>5. CASE ~(k <= n - o)
    <3>1. n - k + 1 \in 1..n /\ n - k + 1 - 1 = n - k /\ At(k) = n - k
      BY <1>1, <2>5
    <3>2. P[n - k + 1] = P[n - k] + Size(l, At(k))
      <4> DEFINE j == n - k + 1
      <4>1. j \in 1..Count(l) /\ j - 1 = n - k /\ At(k) = n - k
        BY <1>1, <3>1
      <4> HIDE DEF j, At
      <4>2. P[j] = P[j - 1] + Size(l, j - 1)
        BY <4>1 DEF IsSum
      <4>3. P[j] = P[n - k] + Size(l, At(k))
        BY <4>1, <4>2
      <4> QED
        BY <4>3 DEF j
    <3>3. n - k + 1 \in 0..n /\ n - k \in 0..n /\ n \in 0..n
      BY <3>1, <1>1
    <3>4. Q(k) = P[n] - P[n - k]
      BY <1>1, <2>5 DEF Tried
    <3>5. Q(k - 1) = P[n] - P[n - k + 1]
      <4>1. CASE k - 1 <= n - o
        <5>1. o + (k - 1) = n /\ n - k + 1 = o
          BY <1>1, <2>5, <4>1
        <5> QED
          BY <4>1, <5>1 DEF Tried
      <4>2. CASE ~(k - 1 <= n - o)
        <5>1. n - (k - 1) = n - k + 1
          BY <1>1
        <5> QED
          BY <4>2, <5>1 DEF Tried
      <4> QED
        BY <4>1, <4>2
    <3> HIDE DEF Q, At
    <3> QED
      BY <2>1, <2>2, <2>3, <3>2, <3>3, <3>4, <3>5
  <2> QED
    BY <2>4, <2>5
<1> DEFINE fit == Repeated(Add, n, start)
<1>4. ItemsThatFit(h, l, o) = fit.found
  <2>1. l.seq # <<>>
    BY <1>1 DEF Count
  <2> QED
    BY <2>1 DEF ItemsThatFit
<1> HIDE DEF n, Add, S, start, Q
<1> DEFINE F == [k \in 1..n |-> [s \in S |-> Add(s, k)]]
           f == CHOOSE f : Follows(f, n, start, Add)
<1>5. PICK g : IsChain(g, F, n, S, start)
  <2>1. Steps(F, n, S)
    BY <1>2 DEF Steps
  <2> HIDE DEF F
  <2> QED
    BY <1>1, <2>1, ChainExists
<1>6. ASSUME NEW k \in 1..n
      PROVE  g[k - 1] \in S /\ g[k] = Add(g[k - 1], k)
  <2>1. g[k - 1] \in S
    BY <1>1, <1>5 DEF IsChain
  <2>2. F[k] = [s \in S |-> Add(s, k)]
    OBVIOUS
  <2> HIDE DEF F
  <2>3. g[k] = F[k][g[k - 1]]
    BY <1>5 DEF IsChain
  <2> QED
    BY <2>1, <2>2, <2>3
<1>7. Follows(g, n, start, Add)
  BY <1>1, <1>5, <1>6 DEF IsChain, Follows
<1>8. f[0] = start /\ \A k \in 1..n : f[k] = Add(f[k - 1], k)
  <2>1. Follows(f, n, start, Add)
    BY <1>7
  <2> HIDE DEF f
  <2> QED
    BY <1>1, <2>1 DEF Follows
<1>9. fit = f[n]
  BY DEF fit, Repeated, Add, Follows
<1> HIDE DEF f
<1>10. \A k \in 0..n : f[k] \in S
  <2>1. f[0] \in S /\ \A k \in 1..n : f[k - 1] \in S => f[k] \in S
    BY <1>1, <1>2, <1>8
  <2> QED
    BY <1>1, <2>1, ChainIn
<1>11. fit \in S
  BY <1>1, <1>9, <1>10
<1> DEFINE Good(k) == {a \in S : /\ ~a.full => a.sum = Q(k) /\ a.found = k /\ Q(k) < h
                                 /\ a.full => Fits(P, n, o, h, a.found)}
           T == [k \in 0..n |-> Good(k)]
<1>20. \A k, m \in 0..n : k <= m => /\ Q(k) \in Nat /\ Q(m) \in Nat
                                   /\ Q(m) - Q(k) >= m - k
  <2>1. Grows(P, n) /\ o \in 0..n
    BY DEF n
  <2> QED
    BY <1>1, <2>1, TriedGrows DEF Q
<1>21. Q(0) = 0
  <2>1. P[o] \in Nat /\ o + 0 = o /\ 0 <= n - o
    BY <1>1 DEF Grows, n
  <2> QED
    BY <2>1 DEF Q, Tried
<1>22. f[0] \in T[0]
  <2>1. f[0] = start /\ start.full = FALSE /\ start.sum = 0 /\ start.found = 0
    BY <1>8 DEF start
  <2>2. f[0] \in Good(0)
    BY <1>1, <1>21, <2>1
  <2> QED
    BY <1>1, <2>2
<1>23. ASSUME NEW k \in 1..n, f[k - 1] \in T[k - 1]
       PROVE  f[k] \in T[k]
  <2> DEFINE a == f[k - 1]
             m == NumLines(Get(l, At(k)), h - a.sum)
             z == Size(l, At(k))
  <2>1. a \in Good(k - 1)
    <3> HIDE DEF Good
    <3> QED
      BY <1>1, <1>23
  <2>2. a \in S /\ a.sum \in Int /\ a.found \in Nat
    BY <2>1 DEF S
  <2>3. f[k] = Fitting(h, a, m)
    BY <1>8 DEF Add
  <2>4. At(k) \in 0..(Count(l) - 1) /\ Q(k) = Q(k - 1) + z
    BY <1>3 DEF n, Q
  <2>5. /\ m.lines \in Int /\ (m.overflow <=> z > h - a.sum) /\ z \in Int /\ Gap \in Nat
        /\ m.lines = z \/ (m.lines = h - a.sum + Gap /\ z > h - a.sum + Gap)
    <3> HIDE DEF At
    <3>1. h - a.sum \in Int
      BY <2>2
    <3> QED
      BY <2>4, <3>1, NumLinesSize, SizeTyped
  <2>6. f[k] \in S
    BY <1>1, <1>10
  <2>7. CASE a.full
    <3>1. f[k] = a
      BY <2>3, <2>7 DEF Fitting
    <3>2. f[k].full /\ Fits(P, n, o, h, f[k].found)
      BY <2>1, <2>7, <3>1
    <3>3. f[k] \in Good(k)
      BY <2>6, <3>2
    <3> QED
      BY <1>1, <3>3
  <2>8. CASE ~a.full
    <3>1. a.sum = Q(k - 1) /\ a.found = k - 1 /\ Q(k - 1) < h
      BY <2>1, <2>8
    <3> DEFINE sum == a.sum + m.lines
    <3>2. f[k] = OneMore(h, a, m, sum)
      BY <2>3, <2>8 DEF Fitting
    <3>3. /\ f[k].sum = sum /\ f[k].full = (sum >= h)
          /\ f[k].found = IF sum < h \/ a.found = 0 \/ ~m.overflow THEN a.found + 1 ELSE a.found
      BY <3>2 DEF OneMore
    <3>4. /\ Q(k - 1) \in Nat /\ Q(k) \in Nat /\ k \in 0..n /\ k - 1 \in 0..n
          /\ Q(k) - Q(0) >= k - 0 /\ Q(k - 1) - Q(0) >= k - 1 - 0
      <4>1. 0 \in 0..n /\ k - 1 \in 0..n /\ k \in 0..n /\ 0 <= k - 1 /\ 0 <= k
        BY <1>1
      <4> HIDE DEF Q
      <4> QED
        BY <1>20, <4>1
    <3>5. \A j \in 0..n : k <= j => Q(k) - Q(j) <= k - j /\ Q(j) \in Nat
      BY <1>20, <3>4
    <3> HIDE DEF a, m, z, sum, Q, At
    <3>6. CASE ~m.overflow
      <4>1. m.lines = z /\ Q(k) <= h /\ sum = Q(k)
        BY <2>2, <2>4, <2>5, <3>1, <3>4, <3>6 DEF sum
      <4>2. f[k].found = k
        BY <3>1, <3>3, <3>6
      <4>3. CASE sum >= h
        <5>1. f[k].full
          BY <3>3, <4>3
        <5>2. Q(k) = h /\ k <= h
          BY <1>21, <3>4, <4>1, <4>3
        <5>3. k = n \/ Q(k + 1) > h
          BY <1>1, <3>4, <3>5, <5>2
        <5>4. Fits(P, n, o, h, k)
          BY <1>1, <5>2, <5>3 DEF Fits, Q
        <5>5. f[k] \in Good(k)
          BY <2>6, <4>2, <5>1, <5>4
        <5> QED
          BY <1>1, <5>5
      <4>4. CASE ~(sum >= h)
        <5>1. ~f[k].full
          BY <3>3, <4>4
        <5>2. f[k].sum = Q(k) /\ Q(k) < h
          BY <3>3, <3>4, <4>1, <4>4
        <5>3. f[k] \in Good(k)
          BY <2>6, <4>2, <5>1, <5>2
        <5> QED
          BY <1>1, <5>3
      <4> QED
        BY <4>3, <4>4
    <3>7. CASE m.overflow
      <4>1. sum \in Int /\ sum >= h /\ Q(k) > h
        BY <2>2, <2>4, <2>5, <3>1, <3>4, <3>7 DEF sum
      <4>2. f[k].full
        BY <3>3, <4>1
      <4>3. CASE k = 1
        <5>1. f[k].found = 1
          BY <3>1, <3>3, <4>3
        <5>2. 1 = n \/ Q(1 + 1) > h
          BY <1>1, <3>4, <3>5, <4>1, <4>3
        <5>3. Fits(P, n, o, h, 1)
          BY <1>1, <5>2 DEF Fits, Q
        <5>4. f[k] \in Good(k)
          BY <2>6, <4>2, <5>1, <5>3
        <5> QED
          BY <1>1, <5>4
      <4>4. CASE k # 1
        <5>1. ~(sum < h) /\ a.found # 0
          BY <3>1, <4>1, <4>4
        <5>2. f[k].found = k - 1
          BY <3>1, <3>3, <3>7, <5>1
        <5>3. k - 1 \in 1..n /\ k - 1 <= h /\ Q(k - 1) <= h /\ k - 1 + 1 = k
          BY <1>1, <1>21, <3>1, <3>4, <4>4
        <5>4. Fits(P, n, o, h, k - 1)
          BY <4>1, <5>3 DEF Fits, Q
        <5>5. f[k] \in Good(k)
          BY <2>6, <4>2, <5>2, <5>4
        <5> QED
          BY <1>1, <5>5
      <4> QED
        BY <4>3, <4>4
    <3> QED
      BY <3>6, <3>7
  <2> QED
    BY <2>7, <2>8
<1>24. f[n] \in Good(n)
  <2> HIDE DEF Good
  <2>1. \A k \in 0..n : f[k] \in T[k]
    <3> HIDE DEF T
    <3> QED
      BY <1>1, <1>22, <1>23, ChainStays
  <2> QED
    BY <1>1, <2>1
<1>25. Fits(P, n, o, h, fit.found)
  <2>1. CASE fit.full
    BY <1>9, <1>24, <2>1
  <2>2. CASE ~fit.full
    <3>1. fit.found = n /\ Q(n) < h
      BY <1>9, <1>24, <2>2
    <3>2. Q(n) - Q(0) >= n - 0 /\ Q(n) \in Nat
      <4>1. 0 \in 0..n /\ n \in 0..n /\ 0 <= n
        BY <1>1
      <4> HIDE DEF Q
      <4> QED
        BY <1>20, <4>1
    <3>3. n <= h /\ Q(n) <= h
      BY <1>1, <1>21, <3>1, <3>2
    <3> QED
      BY <1>1, <3>1, <3>3 DEF Fits, Q
  <2> QED
    BY <2>1, <2>2
<1> QED
  BY <1>4, <1>25 DEF n

\* With an offset, the cursor is visible with all its lines (or on the first
\* row), no rows are wasted that the item above would fit in, and there is
\* nothing below that is not visible (or the cursor is on the first row).
CursorFits(P, c, h, o) == o = c \/ P[c + 1] - P[o] <= h
NoWaste(P, n, h, o) == o = 0 \/ P[n] - P[o - 1] > h
AtEnd(P, n, c, h, o) == o = c \/ P[n] - P[o] <= h

\* What the bounds of the offset say of it.
FrameOf(P, n, c, h, o, low, high) ==
    /\ low \in 0..c /\ high \in 0..c /\ low <= high /\ low >= c - h + 1
    /\ o <= c =>
         /\ CursorFits(P, c, h, o) <=> low <= o
         /\ NoWaste(P, n, h, o) => o <= high
         /\ ~NoWaste(P, n, h, o) =>
              /\ o > high
              /\ CursorFits(P, c, h, high) /\ NoWaste(P, n, h, high) /\ AtEnd(P, n, c, h, high)
         /\ NoWaste(P, n, h, o) /\ AtEnd(P, n, c, h, o) => high <= o
         /\ NoWaste(P, n, h, o) /\ ~AtEnd(P, n, c, h, o) => high > o

\* The bounds that a round of constrain computes.
LEMMA FrameRight ==
  ASSUME NEW n \in Nat \ {0}, NEW P, Grows(P, n), NEW c \in 0..(n - 1), NEW h \in Nat \ {0},
         NEW o \in 0..n, NEW f, Fits(P, n, o, h, f)
  PROVE  FrameOf(P, n, c, h, o, Max({c - f + 1, 0}), Max({Min({n - f, c}), 0}))
<1> DEFINE low == Max({c - f + 1, 0})
           high == Max({Min({n - f, c}), 0})
           Q(k) == Tried(P, n, o, k)
<1>1. f \in 1..n /\ f <= h /\ (f = 1 \/ Q(f) <= h) /\ (f = n \/ Q(f + 1) > h)
  BY DEF Fits
<1>2. low = (IF c - f + 1 < 0 THEN 0 ELSE c - f + 1) /\ high = (IF n - f < c THEN n - f ELSE c)
  BY <1>1, MaxOfTwo, MinOfTwo
<1> HIDE DEF low, high
<1>3. \A k, m \in 0..n : k <= m => Q(k) \in Nat /\ Q(m) \in Nat /\ Q(m) >= Q(k)
  <2>1. ASSUME NEW k \in 0..n, NEW m \in 0..n, k <= m
        PROVE  Q(k) \in Nat /\ Q(m) \in Nat /\ Q(m) - Q(k) >= m - k
    BY <2>1, TriedGrows
  <2> HIDE DEF Q
  <2> QED
    BY <2>1
<1>4. \A k \in 1..n : /\ k > f => Q(k) > h
                      /\ k <= f /\ k > 1 => Q(k) <= h
  <2> HIDE DEF Q
  <2> SUFFICES ASSUME NEW k \in 1..n
               PROVE  (k > f => Q(k) > h) /\ (k <= f /\ k > 1 => Q(k) <= h)
    OBVIOUS
  <2>1. CASE k > f
    <3>1. f + 1 \in 0..n /\ k \in 0..n /\ f + 1 <= k
      BY <1>1, <2>1
    <3>2. Q(f + 1) > h
      BY <1>1, <2>1
    <3>3. Q(f + 1) \in Nat /\ Q(k) \in Nat /\ Q(k) >= Q(f + 1)
      BY <1>3, <3>1
    <3> QED
      BY <1>1, <2>1, <3>2, <3>3
  <2>2. CASE k <= f /\ k > 1
    <3>1. f \in 0..n /\ k \in 0..n /\ f # 1
      BY <1>1, <2>2
    <3> QED
      BY <1>1, <1>3, <2>2, <3>1
  <2> QED
    BY <1>1, <2>1, <2>2
<1>5. low \in 0..c /\ high \in 0..c /\ low <= high /\ low >= c - h + 1
  BY <1>1, <1>2
<1>6. ASSUME o <= c
      PROVE  CursorFits(P, c, h, o) <=> low <= o
  <2>1. CASE o = c
    BY <1>5, <2>1 DEF CursorFits
  <2>2. CASE o # c
    <3>1. Q(c - o + 1) = P[c + 1] - P[o] /\ c - o + 1 \in 1..n /\ c - o + 1 > 1
      <4>1. c - o + 1 <= n - o /\ o + (c - o + 1) = c + 1
        OBVIOUS
      <4> QED
        BY <1>6, <2>2, <4>1 DEF Tried
    <3>2. CASE c - o + 1 > f
      <4>1. P[c + 1] - P[o] > h
        BY <1>4, <3>1, <3>2
      <4>2. P[c + 1] - P[o] \in Int
        BY <1>6, <2>2 DEF Grows
      <4> QED
        BY <1>1, <1>2, <2>2, <3>2, <4>1, <4>2 DEF CursorFits
    <3>3. CASE ~(c - o + 1 > f)
      <4>1. P[c + 1] - P[o] <= h
        BY <1>1, <1>4, <3>1, <3>3
      <4> QED
        BY <1>1, <1>2, <3>3, <4>1 DEF CursorFits
    <3> QED
      BY <3>2, <3>3
  <2> QED
    BY <2>1, <2>2
<1>7. ASSUME o <= c, NoWaste(P, n, h, o)
      PROVE  o <= high
  <2>1. CASE o = 0
    BY <1>5, <2>1
  <2>2. CASE o # 0
    <3>1. Q(n - o + 1) = P[n] - P[o - 1] /\ n - o + 1 \in 1..n /\ n - o + 1 > 1
      <4>1. ~(n - o + 1 <= n - o) /\ n - (n - o + 1) = o - 1
        OBVIOUS
      <4> QED
        BY <1>7, <2>2, <4>1 DEF Tried
    <3>2. P[n] - P[o - 1] > h /\ P[n] - P[o - 1] \in Int
      BY <1>7, <2>2 DEF NoWaste, Grows
    <3>3. n - o + 1 > f
      BY <1>1, <1>4, <3>1, <3>2
    <3> QED
      BY <1>1, <1>2, <1>7, <3>3
  <2> QED
    BY <2>1, <2>2
<1>8. ASSUME o <= c, ~NoWaste(P, n, h, o)
      PROVE  /\ o > high
             /\ CursorFits(P, c, h, high) /\ NoWaste(P, n, h, high) /\ AtEnd(P, n, c, h, high)
  <2>1. o # 0 /\ ~(P[n] - P[o - 1] > h)
    BY <1>8 DEF NoWaste
  <2>2. Q(n - o + 1) = P[n] - P[o - 1] /\ n - o + 1 \in 1..n /\ n - o + 1 > 1
    <3>1. ~(n - o + 1 <= n - o) /\ n - (n - o + 1) = o - 1
      OBVIOUS
    <3> QED
      BY <1>8, <2>1, <3>1 DEF Tried
  <2>3. f >= n - o + 1
    BY <1>1, <1>4, <2>1, <2>2
  <2>4. high = n - f /\ high < o /\ high < c
    BY <1>1, <1>2, <1>8, <2>3
  <2>5. P[n] - P[high] <= h
    <3>1. Q(f) = P[n] - P[n - f] /\ f # 1
      BY <1>1, <2>2, <2>3 DEF Tried
    <3> QED
      BY <1>1, <2>4, <3>1
  <2>6. NoWaste(P, n, h, high)
    <3>1. CASE f = n
      BY <2>4, <3>1 DEF NoWaste
    <3>2. CASE f # n
      <4>1. n - (f + 1) = high - 1 /\ ~(f + 1 <= n - o)
        BY <1>1, <2>3, <2>4
      <4>2. Q(f + 1) = P[n] - P[high - 1]
        BY <4>1 DEF Tried
      <4> QED
        BY <1>1, <3>2, <4>2 DEF NoWaste
    <3> QED
      BY <3>1, <3>2
  <2>7. P[c + 1] - P[high] <= h
    <3>1. c + 1 \in 0..n /\ n \in 0..n /\ c + 1 <= n /\ high \in 0..n
      BY <1>5
    <3>2. P[n] - P[c + 1] >= n - (c + 1) /\ P[n] \in Nat /\ P[c + 1] \in Nat
      BY <3>1, SumGrows
    <3>3. P[high] \in Nat
      BY <3>1 DEF Grows
    <3> QED
      BY <2>5, <3>1, <3>2, <3>3
  <2> QED
    BY <2>4, <2>5, <2>6, <2>7 DEF CursorFits, AtEnd
<1>9. ASSUME o <= c, NoWaste(P, n, h, o)
      PROVE  AtEnd(P, n, c, h, o) => high <= o
  <2>1. CASE o = c
    BY <1>5, <2>1
  <2>2. CASE o # c
    <3>1. Q(n - o) = P[n] - P[o] /\ n - o \in 1..n
      <4>1. o + (n - o) = n
        OBVIOUS
      <4> QED
        BY <1>9, <2>2, <4>1 DEF Tried
    <3>2. P[n] - P[o] \in Int
      BY <1>9 DEF Grows
    <3>3. n - o > f => ~AtEnd(P, n, c, h, o)
      BY <1>4, <2>2, <3>1, <3>2 DEF AtEnd
    <3> QED
      BY <1>1, <1>2, <3>3
  <2> QED
    BY <2>1, <2>2
<1>10. ASSUME o <= c, NoWaste(P, n, h, o), ~AtEnd(P, n, c, h, o)
       PROVE  high > o
  <2>1. o # c /\ ~(P[n] - P[o] <= h)
    BY <1>10 DEF AtEnd
  <2>2. Q(n - o) = P[n] - P[o] /\ n - o \in 1..n /\ n - o > 1
    <3>1. o + (n - o) = n
      OBVIOUS
    <3> QED
      BY <1>10, <2>1, <3>1 DEF Tried
  <2>3. ~(n - o <= f)
    BY <1>4, <2>1, <2>2
  <2> QED
    BY <1>1, <1>2, <1>10, <2>1, <2>3
<1>11. FrameOf(P, n, c, h, o, low, high)
  <2>1. ASSUME o <= c
        PROVE  /\ NoWaste(P, n, h, o) => o <= high
               /\ ~NoWaste(P, n, h, o) =>
                    /\ o > high
                    /\ CursorFits(P, c, h, high) /\ NoWaste(P, n, h, high)
                    /\ AtEnd(P, n, c, h, high)
               /\ NoWaste(P, n, h, o) /\ AtEnd(P, n, c, h, o) => high <= o
               /\ NoWaste(P, n, h, o) /\ ~AtEnd(P, n, c, h, o) => high > o
    BY <2>1, <1>7, <1>8, <1>9, <1>10
  <2> QED
    BY <1>5, <1>6, <2>1 DEF FrameOf
<1> QED
  BY <1>11 DEF low, high

\* An offset that goes up while it is in B, and then down while it is in U.
\* (In both directions it stays between low and high.)
NudgedTo(f, n, low, high, B, U) ==
    \A k \in 1..(2 * n) :
        f[k] = CASE k <= n /\ f[k - 1] \in B -> Max({low, f[k - 1] - 1})
                 [] k > n /\ f[k - 1] \in U -> Min({high, f[k - 1] + 1})
                 [] OTHER -> f[k - 1]

\* Where it ends, when low, ..., high are at most n + 1 offsets.
Settled(o, r, low, high, U) ==
    /\ r \in low..high
    /\ r \in U => r = high
    /\ o \notin U => r <= o
    /\ o \in U /\ o < high => r > o

\* The two loops of --scroll-off end where nothing is left to do.
LEMMA NudgesSettle ==
  ASSUME NEW n \in Nat, NEW low \in Nat, NEW high \in Nat, high - low <= n, NEW B, NEW U,
         B \cap U = {}, NEW f, f[0] \in low..high, NudgedTo(f, n, low, high, B, U),
         NEW C, f[0] \in C, \A q, p \in low..high : q \in C /\ p >= q => p \in C,
         B \subseteq C, \A q \in low..high : q \notin B /\ q \notin U /\ q + 1 \in B => q \in C
  PROVE  Settled(f[0], f[2 * n], low, high, U) /\ f[2 * n] \in C
<1> DEFINE o == f[0]
           q == f[n]
           r == f[2 * n]
<1>1. ASSUME NEW k \in 1..n
      PROVE  f[k] = IF f[k - 1] \in B THEN Max({low, f[k - 1] - 1}) ELSE f[k - 1]
  <2>1. k \in 1..(2 * n) /\ k <= n /\ ~(k > n)
    OBVIOUS
  <2> QED
    BY <2>1, Zenon DEF NudgedTo
<1>2. ASSUME NEW k \in 1..n
      PROVE  f[n + k] = IF f[n + (k - 1)] \in U THEN Min({high, f[n + (k - 1)] + 1})
                        ELSE f[n + (k - 1)]
  <2> DEFINE j == n + k
  <2>1. j \in 1..(2 * n) /\ ~(j <= n) /\ j > n /\ j - 1 = n + (k - 1)
    OBVIOUS
  <2> HIDE DEF j
  <2>2. f[j] = IF f[j - 1] \in U THEN Min({high, f[j - 1] + 1}) ELSE f[j - 1]
    BY <2>1, Zenon DEF NudgedTo
  <2> QED
    BY <2>1, <2>2 DEF j
\* The way up: it ends where it began or below what is in B.
<1> DEFINE Up(k) == {p \in low..o : /\ p = o \/ (o \in B /\ p + 1 \in B)
                                    /\ p \in B => p = low \/ p = o - k}
<1>3. \A k \in 0..n : f[k] \in Up(k)
  <2> DEFINE T == [k \in 0..n |-> Up(k)]
  <2>1. f[0] \in T[0]
    OBVIOUS
  <2>2. ASSUME NEW k \in 1..n, f[k - 1] \in T[k - 1]
        PROVE  f[k] \in T[k]
    <3> DEFINE p == f[k - 1]
    <3>1. /\ p \in low..o /\ (p = o \/ (o \in B /\ p + 1 \in B))
          /\ p \in B => p = low \/ p = o - (k - 1)
      BY <2>2
    <3>2. f[k] = IF p \in B THEN Max({low, p - 1}) ELSE p
      BY <1>1
    <3> HIDE DEF p
    <3>3. f[k] \in Up(k)
      <4>1. CASE p \in B /\ p > low
        <5>1. f[k] = p - 1
          BY <3>1, <3>2, <4>1, MaxOfTwo
        <5>2. o \in B /\ f[k] + 1 \in B
          BY <3>1, <4>1, <5>1
        <5> QED
          BY <3>1, <4>1, <5>1, <5>2
      <4>2. CASE p \in B /\ ~(p > low)
        <5>1. f[k] = low /\ p = low
          BY <3>1, <3>2, <4>2, MaxOfTwo
        <5> QED
          BY <3>1, <4>2, <5>1
      <4>3. CASE p \notin B
        <5>1. f[k] = p
          BY <3>2, <4>3
        <5> QED
          BY <3>1, <4>3, <5>1
      <4> QED
        BY <4>1, <4>2, <4>3
    <3> HIDE DEF Up
    <3> QED
      BY <3>3
  <2>3. \A k \in 0..n : f[k] \in T[k]
    <3> HIDE DEF T
    <3> QED
      BY <2>1, <2>2, ChainStays
  <2> HIDE DEF Up
  <2> QED
    BY <2>3
<1>4. q \in low..o /\ (q = o \/ (o \in B /\ q + 1 \in B)) /\ (q \in B => q = low)
  <2>1. n \in 0..n
    OBVIOUS
  <2>2. f[n] \in Up(n)
    <3> HIDE DEF Up
    <3> QED
      BY <1>3, <2>1
  <2> QED
    BY <2>2
\* The way down: it ends where it stays.
<1> DEFINE Down(k) == {p \in q..high : /\ \A s \in q..(p - 1) : s \in U
                                       /\ p \in U => p = high \/ p = q + k}
<1>5. \A k \in 0..n : f[n + k] \in Down(k)
  <2> DEFINE g == [k \in 0..n |-> f[n + k]]
             T == [k \in 0..n |-> Down(k)]
  <2>1. g[0] \in T[0]
    BY <1>4
  <2>2. ASSUME NEW k \in 1..n, g[k - 1] \in T[k - 1]
        PROVE  g[k] \in T[k]
    <3> DEFINE p == g[k - 1]
    <3>1. /\ p \in q..high /\ \A s \in q..(p - 1) : s \in U
          /\ p \in U => p = high \/ p = q + (k - 1)
      BY <2>2
    <3>2. g[k] = IF p \in U THEN Min({high, p + 1}) ELSE p
      <4>2. g[k] = f[n + k] /\ g[k - 1] = f[n + (k - 1)]
        OBVIOUS
      <4> HIDE DEF g
      <4> QED
        BY <1>2, <4>2
    <3>3. q \in Int
      BY <1>4
    <3>4. g[k] \in Down(k)
      <4> HIDE DEF g, p, q
      <4>1. CASE p \in U /\ p < high
        <5>1. g[k] = p + 1
          BY <3>1, <3>2, <3>3, <4>1, MinOfTwo
        <5>2. \A s \in q..(p + 1 - 1) : s \in q..(p - 1) \/ s = p
          BY <3>1, <3>3
        <5>3. \A s \in q..(p + 1 - 1) : s \in U
          BY <3>1, <4>1, <5>2
        <5> QED
          BY <3>1, <3>3, <4>1, <5>1, <5>3
      <4>2. CASE p \in U /\ ~(p < high)
        <5>1. g[k] = high /\ p = high
          BY <3>1, <3>2, <3>3, <4>2, MinOfTwo
        <5> QED
          BY <3>1, <3>3, <4>2, <5>1
      <4>3. CASE p \notin U
        <5>1. g[k] = p
          BY <3>2, <4>3
        <5> QED
          BY <3>1, <3>3, <4>3, <5>1
      <4> QED
        BY <4>1, <4>2, <4>3
    <3> HIDE DEF Down, g
    <3> QED
      BY <3>4
  <2>3. \A k \in 0..n : g[k] \in T[k]
    <3> HIDE DEF T, g
    <3> QED
      BY <2>1, <2>2, ChainStays
  <2> HIDE DEF Down
  <2> QED
    BY <2>3
<1>6. r \in q..high /\ (\A s \in q..(r - 1) : s \in U) /\ (r \in U => r = high)
  <2>1. n \in 0..n /\ n + n = 2 * n
    OBVIOUS
  <2>2. f[n + n] \in Down(n)
    <3> HIDE DEF Down
    <3> QED
      BY <1>5, <2>1
  <2>3. r \in Down(n)
    <3> HIDE DEF Down
    <3> QED
      BY <2>1, <2>2
  <2> HIDE DEF r, q
  <2> QED
    BY <1>4, <2>3
<1>7. o \in low..high
  OBVIOUS
<1> HIDE DEF o, q, r
<1>8. r \in low..high
  BY <1>4, <1>6, <1>7
<1>9. o \notin U => r <= o
  <2>1. CASE q = o
    <3> SUFFICES ASSUME o \notin U, r > o PROVE FALSE
      BY <1>7, <1>8
    <3>1. o \in q..(r - 1)
      BY <1>7, <1>8, <2>1
    <3> QED
      BY <1>6, <3>1
  <2>2. CASE q # o
    <3>1. q + 1 \notin U /\ q + 1 <= o
      BY <1>4, <1>7, <2>2
    <3> SUFFICES ASSUME r > o PROVE FALSE
      BY <1>7, <1>8
    <3>2. q + 1 \in q..(r - 1)
      BY <1>4, <1>7, <1>8, <3>1
    <3> QED
      BY <1>6, <3>1, <3>2
  <2> QED
    BY <2>1, <2>2
<1>10. o \in U /\ o < high => r > o
  <2> SUFFICES ASSUME o \in U, o < high PROVE r > o
    OBVIOUS
  <2>1. q = o
    BY <1>4
  <2>2. r # o
    BY <1>6, <1>7
  <2> QED
    BY <1>6, <1>7, <2>1, <2>2
<1>11. r \in C
  <2>1. CASE q = o
    <3>1. o \in C /\ r >= o
      BY <1>6, <1>7, <2>1 DEF o
    <3> QED
      BY <1>7, <1>8, <3>1
  <2>2. CASE q # o
    <3>1. q + 1 \in B /\ q \in low..high /\ q + 1 \in low..high /\ q < high
      BY <1>4, <1>7, <2>2
    <3>2. CASE r = q
      <4>1. q \notin U
        BY <1>6, <1>7, <3>1, <3>2
      <4> QED
        BY <3>1, <3>2, <4>1
    <3>3. CASE r # q
      <4>1. q + 1 \in C /\ r >= q + 1
        BY <1>6, <1>8, <3>1, <3>3
      <4> QED
        BY <1>8, <3>1, <4>1
    <3> QED
      BY <3>2, <3>3
  <2> QED
    BY <2>1, <2>2
<1>12. Settled(o, r, low, high, U) /\ r \in C
  BY <1>6, <1>8, <1>9, <1>10, <1>11 DEF Settled
<1> QED
  BY <1>12 DEF o, r

\* Offsets with fewer than `off' lines below the cursor, but not above it, when
\* `left' lines are left for both.
Uneven(l, c, off, left) ==
    {p \in 0..c : left - LinesBetween(l, p, c, left) < off /\ LinesBetween(l, p, c, left) >= off}

\* So they do for the lines around the cursor, and the cursor stays visible.
LEMMA ScrolledSettles ==
  ASSUME NEW l, Shows(l), NEW P, IsSum(P, l), Grows(P, Count(l)), NEW c \in 0..(Count(l) - 1),
         NEW h \in Nat \ {0}, NEW low \in 0..c, NEW high \in 0..c, NEW o \in low..high,
         NEW off \in Nat, NEW lines, lines = NumLines(Get(l, c), h).lines
  PROVE  /\ Scrolled(h, l, c, o, low, high, off, lines) \in low..high
         /\ off > 0 =>
              /\ Settled(o, Scrolled(h, l, c, o, low, high, off, lines), low, high,
                         Uneven(l, c, off, h - lines))
              /\ CursorFits(P, c, h, o) =>
                   CursorFits(P, c, h, Scrolled(h, l, c, o, low, high, off, lines))
<1> DEFINE n == 2 * Count(l)
           Nudge(p, k) ==
             LET above == LinesBetween(l, p, Min({c, Count(l)}), h - lines)
             IN  Nudged(p, k <= Count(l), above, h - (above + lines), low, high, off)
           S == low..high
           left == h - lines
           Above(p) == LinesBetween(l, p, c, left)
           B == {p \in 0..c : Above(p) < off /\ left - Above(p) >= off}
           U == Uneven(l, c, off, left)
           z == Size(l, c)
           C == {p \in low..high : CursorFits(P, c, h, o) => CursorFits(P, c, h, p)}
<1>1. n \in Nat /\ o \in S /\ Count(l) \in Nat /\ Min({c, Count(l)}) = c
  BY CountTyped, MinOfTwo
<1>2. /\ lines \in Int /\ left \in Int /\ z \in Nat \ {0} /\ Gap \in Nat
      /\ lines = z \/ (lines = h + Gap /\ z > h + Gap)
  BY NumLinesSize, SizeTyped
<1>3. ASSUME NEW p \in 0..c
      PROVE  /\ Above(p) \in Int
             /\ P[c] - P[p] <= left => Above(p) = P[c] - P[p]
             /\ P[c] - P[p] > left => Above(p) >= left
  <2>1. p \in 0..Count(l) /\ c \in 0..Count(l) /\ p <= c
    BY <1>1
  <2> QED
    BY <1>2, <2>1, BetweenExact
<1>4. ASSUME NEW p \in 0..c
      PROVE  P[c + 1] = P[c] + z /\ P[c] \in Nat /\ P[p] \in Nat /\ P[c] - P[p] >= c - p
  <2>1. c + 1 \in 1..Count(l) /\ c + 1 - 1 = c /\ p \in 0..Count(l) /\ c \in 0..Count(l)
    BY <1>1
  <2>2. P[c + 1] = P[c] + z
    BY <2>1 DEF IsSum
  <2> QED
    BY <1>1, <2>1, <2>2, SumGrows
<1> HIDE DEF n, S, left, z
<1>5. ASSUME NEW p \in 0..c, NEW k \in Int
      PROVE  Nudge(p, k) = CASE k <= Count(l) /\ p \in B -> Max({low, p - 1})
                             [] k > Count(l) /\ p \in U -> Min({high, p + 1})
                             [] OTHER -> p
  <2> DEFINE above == Above(p)
  <2>1. above \in Int /\ h - (above + lines) = left - above
    BY <1>2, <1>3 DEF left
  <2>2. p \in B <=> above < off /\ left - above >= off
    OBVIOUS
  <2>3. p \in U <=> left - above < off /\ above >= off
    BY DEF Uneven
  <2>4. Nudge(p, k) = Nudged(p, k <= Count(l), above, left - above, low, high, off)
    BY <1>1, <2>1 DEF left
  <2> HIDE DEF above, Nudge, B, U
  <2>5. left - above \in Int
    BY <1>2, <2>1
  <2>6. CASE k <= Count(l)
    <3>1. ~(k > Count(l))
      BY <1>1, <2>6
    <3>2. CASE p \in B
      <4>1. Nudge(p, k) = Max({low, p - 1})
        BY <2>1, <2>2, <2>4, <2>5, <2>6, <3>2 DEF Nudged
      <4> QED
        BY <2>6, <3>1, <3>2, <4>1
    <3>3. CASE p \notin B
      <4>1. Nudge(p, k) = p
        BY <2>1, <2>2, <2>4, <2>5, <2>6, <3>3 DEF Nudged
      <4> QED
        BY <2>6, <3>1, <3>3, <4>1
    <3> QED
      BY <3>2, <3>3
  <2>7. CASE ~(k <= Count(l))
    <3>1. k > Count(l)
      BY <1>1, <2>7
    <3>2. CASE p \in U
      <4>1. Nudge(p, k) = Min({high, p + 1})
        BY <2>1, <2>3, <2>4, <2>5, <2>7, <3>2 DEF Nudged
      <4> QED
        BY <2>7, <3>1, <3>2, <4>1
    <3>3. CASE p \notin U
      <4>1. Nudge(p, k) = p
        BY <2>1, <2>3, <2>4, <2>5, <2>7, <3>3 DEF Nudged
      <4> QED
        BY <2>7, <3>1, <3>3, <4>1
    <3> QED
      BY <3>2, <3>3
  <2> QED
    BY <2>6, <2>7
<1>6. ASSUME NEW p \in S, NEW k \in 1..n
      PROVE  Nudge(p, k) \in S
  <2>1. p \in 0..c /\ k \in Int /\ p \in low..high
    BY DEF S, n
  <2>2. Max({low, p - 1}) \in S /\ Min({high, p + 1}) \in S
    BY <2>1, MaxOfTwo, MinOfTwo DEF S
  <2> HIDE DEF Nudge, B, U
  <2>3. \/ Nudge(p, k) = Max({low, p - 1}) \/ Nudge(p, k) = Min({high, p + 1})
        \/ Nudge(p, k) = p
    BY <1>5, <2>1
  <2> QED
    BY <2>2, <2>3
<1> HIDE DEF Nudge, B, U
<1> DEFINE F == [k \in 1..n |-> [s \in S |-> Nudge(s, k)]]
           f == CHOOSE f : Follows(f, n, o, Nudge)
<1>10. PICK g : IsChain(g, F, n, S, o)
  <2>1. Steps(F, n, S)
    BY <1>6 DEF Steps
  <2> HIDE DEF F
  <2> QED
    BY <1>1, <2>1, ChainExists
<1>11. ASSUME NEW k \in 1..n
      PROVE  g[k - 1] \in S /\ g[k] = Nudge(g[k - 1], k)
  <2>1. g[k - 1] \in S
    BY <1>1, <1>10 DEF IsChain
  <2>2. F[k] = [s \in S |-> Nudge(s, k)]
    OBVIOUS
  <2> HIDE DEF F
  <2>3. g[k] = F[k][g[k - 1]]
    BY <1>10 DEF IsChain
  <2> QED
    BY <2>1, <2>2, <2>3
<1>12. Follows(g, n, o, Nudge)
  BY <1>1, <1>10, <1>11 DEF IsChain, Follows
<1>13. f[0] = o /\ \A k \in 1..n : f[k] = Nudge(f[k - 1], k)
  <2>1. Follows(f, n, o, Nudge)
    BY <1>12
  <2> HIDE DEF f
  <2> QED
    BY <1>1, <2>1 DEF Follows
<1>14. Scrolled(h, l, c, o, low, high, off, lines) = f[n]
  BY DEF Scrolled, n, Repeated, Nudge, Follows
<1> HIDE DEF f
<1>15. \A k \in 0..n : f[k] \in S
  <2>1. f[0] \in S /\ \A k \in 1..n : f[k - 1] \in S => f[k] \in S
    BY <1>1, <1>6, <1>13
  <2> QED
    BY <1>1, <2>1, ChainIn
<1>16. Scrolled(h, l, c, o, low, high, off, lines) \in S
  BY <1>1, <1>14, <1>15
<1> SUFFICES ASSUME off > 0
             PROVE  /\ Settled(o, Scrolled(h, l, c, o, low, high, off, lines), low, high,
                               Uneven(l, c, off, h - lines))
                    /\ CursorFits(P, c, h, o) =>
                         CursorFits(P, c, h, Scrolled(h, l, c, o, low, high, off, lines))
  BY <1>16 DEF S
<1>20. NudgedTo(f, Count(l), low, high, B, U)
  <2> SUFFICES ASSUME NEW k \in 1..(2 * Count(l))
               PROVE  f[k] = CASE k <= Count(l) /\ f[k - 1] \in B -> Max({low, f[k - 1] - 1})
                               [] k > Count(l) /\ f[k - 1] \in U -> Min({high, f[k - 1] + 1})
                               [] OTHER -> f[k - 1]
    BY DEF NudgedTo
  <2>1. k \in 1..n /\ k - 1 \in 0..n /\ k \in Int
    BY <1>1 DEF n
  <2>2. f[k - 1] \in 0..c
    BY <1>15, <2>1 DEF S
  <2> DEFINE x == f[k - 1]
  <2>3. f[k] = Nudge(x, k) /\ x \in 0..c
    BY <1>13, <2>1, <2>2
  <2> HIDE DEF x
  <2>4. Nudge(x, k) = CASE k <= Count(l) /\ x \in B -> Max({low, x - 1})
                        [] k > Count(l) /\ x \in U -> Min({high, x + 1})
                        [] OTHER -> x
    BY <1>5, <2>1, <2>3
  <2>5. f[k] = CASE k <= Count(l) /\ x \in B -> Max({low, x - 1})
                 [] k > Count(l) /\ x \in U -> Min({high, x + 1})
                 [] OTHER -> x
    BY <2>3, <2>4
  <2> QED
    BY <2>5 DEF x
<1>21. B \cap U = {}
  <2> SUFFICES ASSUME NEW p \in 0..c, p \in B, p \in U PROVE FALSE
    BY DEF B
  <2> QED
    BY <1>2, <1>3 DEF B, U, Uneven
<1>22. \A q, p \in low..high : q \in C /\ p >= q => p \in C
  <2> SUFFICES ASSUME NEW p \in low..high, NEW q \in low..high, p >= q, CursorFits(P, c, h, q)
               PROVE  CursorFits(P, c, h, p)
    OBVIOUS
  <2>1. P[c + 1] \in Nat /\ P[p] \in Nat /\ P[q] \in Nat /\ P[p] - P[q] >= p - q
    <3>1. p \in 0..Count(l) /\ q \in 0..Count(l) /\ c + 1 \in 0..Count(l)
      BY <1>1
    <3> QED
      BY <1>1, <3>1, SumGrows DEF Grows
  <2> QED
    BY <2>1 DEF CursorFits
<1>23. \A p \in B : p \in 0..c /\ left >= off /\ lines = z /\ P[c + 1] - P[p] <= h
  <2> SUFFICES ASSUME NEW p \in 0..c, p \in B
               PROVE  left >= off /\ lines = z /\ P[c + 1] - P[p] <= h
    BY DEF B
  <2>1. Above(p) < off /\ left - Above(p) >= off
    BY DEF B
  <2> QED
    BY <1>2, <1>3, <1>4, <2>1 DEF left
<1>24. \A p \in 0..c : p \notin B /\ p \notin U /\ p + 1 \in B => P[c + 1] - P[p] <= h
  <2> SUFFICES ASSUME NEW p \in 0..c, p \notin B, p \notin U, p + 1 \in B
               PROVE  P[c + 1] - P[p] <= h
    OBVIOUS
  <2>1. left >= off /\ lines = z
    BY <1>23
  <2>2. ~(Above(p) < off /\ left - Above(p) >= off)
    BY DEF B
  <2>3. ~(left - Above(p) < off /\ Above(p) >= off)
    BY DEF U, Uneven
  <2> QED
    BY <1>2, <1>3, <1>4, <2>1, <2>2, <2>3 DEF left
<1> DEFINE r == f[2 * Count(l)]
           BB == B \cap low..high
<1>25. Settled(o, r, low, high, U) /\ r \in C
  <2>1. NudgedTo(f, Count(l), low, high, BB, U)
    <3>1. \A k \in 1..(2 * Count(l)) : f[k - 1] \in low..high
      <4> SUFFICES ASSUME NEW k \in 1..(2 * Count(l)) PROVE f[k - 1] \in low..high
        OBVIOUS
      <4>1. k - 1 \in 0..n
        BY <1>1 DEF n
      <4> QED
        BY <1>15, <4>1 DEF S
    <3>2. \A k \in 1..(2 * Count(l)) : f[k - 1] \in B <=> f[k - 1] \in BB
      BY <3>1
    <3> HIDE DEF BB
    <3> QED
      BY <1>20, <3>2 DEF NudgedTo
  <2>2. BB \cap U = {} /\ BB \subseteq C
    BY <1>21, <1>23 DEF CursorFits
  <2>3. \A q \in low..high : q \notin BB /\ q \notin U /\ q + 1 \in BB => q \in C
    BY <1>24 DEF CursorFits
  <2>4. o \in C /\ high - low <= Count(l) /\ low \in Nat /\ high \in Nat
    BY <1>1
  <2>5. f[0] = o
    BY <1>13
  <2> HIDE DEF BB, C, r
  <2>6. f[0] \in low..high /\ f[0] \in C
    BY <2>4, <2>5
  <2>7. Settled(f[0], f[2 * Count(l)], low, high, U) /\ f[2 * Count(l)] \in C
    BY <1>1, <1>22, <2>1, <2>2, <2>3, <2>4, <2>6, NudgesSettle
  <2> QED
    BY <2>5, <2>7 DEF r
<1>26. Scrolled(h, l, c, o, low, high, off, lines) = r
  BY <1>14 DEF n
<1> QED
  BY <1>25, <1>26 DEF U, left

\* Nothing is left to do for constrain.
Calm(P, n, c, h, U, o) ==
    /\ CursorFits(P, c, h, o) /\ NoWaste(P, n, h, o)
    /\ o \notin U \/ AtEnd(P, n, c, h, o)

\* A round leaves a calm offset calm, and it makes another one calm or greater.
LEMMA RoundCalms ==
  ASSUME NEW n \in Nat \ {0}, NEW P, Grows(P, n), NEW c \in 0..(n - 1), NEW h \in Nat \ {0},
         NEW o \in 0..c, NEW low, NEW high, FrameOf(P, n, c, h, o, low, high), NEW U, NEW r,
         Settled(Constrain(o, low, high), r, low, high, U),
         CursorFits(P, c, h, Constrain(o, low, high)) => CursorFits(P, c, h, r)
  PROVE  /\ Calm(P, n, c, h, U, o) => Calm(P, n, c, h, U, r)
         /\ ~Calm(P, n, c, h, U, o) => Calm(P, n, c, h, U, r) \/ (r > o /\ P[n] - P[o] > h)
<1> DEFINE start == Constrain(o, low, high)
           CF(p) == CursorFits(P, c, h, p)
           NW(p) == NoWaste(P, n, h, p)
           AE(p) == AtEnd(P, n, c, h, p)
<1>1. /\ low \in 0..c /\ high \in 0..c /\ low <= high
      /\ CF(o) <=> low <= o
      /\ NW(o) => o <= high
      /\ ~NW(o) => o > high /\ CF(high) /\ NW(high) /\ AE(high)
      /\ NW(o) /\ AE(o) => high <= o
      /\ NW(o) /\ ~AE(o) => high > o
  BY DEF FrameOf
<1>2. /\ r \in low..high /\ (r \in U => r = high)
      /\ start \notin U => r <= start
      /\ start \in U /\ start < high => r > start
      /\ CF(start) => CF(r)
  BY DEF Settled
<1>3. start = IF o < low THEN low ELSE IF o > high THEN high ELSE o
  BY DEF Constrain
<1>4. ASSUME NEW p \in 0..c, NEW q \in 0..c, p <= q, NW(q)
      PROVE  NW(p)
  <2>1. CASE p = 0
    BY <2>1 DEF NoWaste
  <2>2. CASE p # 0
    <3>1. P[n] - P[q - 1] > h /\ q # 0
      BY <1>4, <2>2 DEF NoWaste
    <3>2. P[p - 1] \in Nat /\ P[q - 1] \in Nat /\ P[q - 1] - P[p - 1] >= (q - 1) - (p - 1)
      <4>1. p - 1 \in 0..n /\ q - 1 \in 0..n /\ p - 1 <= q - 1
        BY <1>4, <2>2, <3>1
      <4> QED
        BY <4>1, SumGrows
    <3>3. P[n] \in Nat
      BY DEF Grows
    <3> QED
      BY <1>4, <3>1, <3>2, <3>3 DEF NoWaste
  <2> QED
    BY <2>1, <2>2
<1>5. P[o] \in Nat /\ P[c + 1] \in Nat /\ P[n] \in Nat /\ P[c + 1] <= P[n]
  <2>1. o \in 0..n /\ c + 1 \in 0..n /\ n \in 0..n /\ c + 1 <= n
    OBVIOUS
  <2>2. P[n] - P[c + 1] >= n - (c + 1) /\ P[c + 1] \in Nat /\ P[n] \in Nat
    BY <2>1, SumGrows
  <2> QED
    BY <2>1, <2>2 DEF Grows
<1>6. ~CF(o) => P[n] - P[o] > h
  BY <1>5 DEF CursorFits
<1>7. ~AE(o) => P[n] - P[o] > h
  BY <1>5 DEF AtEnd
<1> HIDE DEF start, CF, NW, AE
<1>8. r \in 0..c
  BY <1>1, <1>2
<1>9. CASE ~NW(o)
  <2>1. start = high
    BY <1>1, <1>3, <1>9
  <2>2. CF(r) /\ (r \in U => r = high)
    BY <1>1, <1>2, <1>9, <2>1
  <2>3. NW(r)
    BY <1>1, <1>2, <1>4, <1>8, <1>9
  <2>4. r \notin U \/ AE(r)
    BY <1>1, <1>9, <2>2
  <2> QED
    BY <2>2, <2>3, <2>4 DEF Calm, CF, NW, AE
<1>10. CASE NW(o) /\ ~CF(o)
  <2>1. start = low /\ r > o
    BY <1>1, <1>2, <1>3, <1>10
  <2> QED
    BY <1>6, <1>10, <2>1 DEF Calm, CF
<1>11. CASE NW(o) /\ CF(o) /\ o \in U /\ ~AE(o)
  <2>1. start = o /\ o < high
    BY <1>1, <1>3, <1>11
  <2>2. r > o
    BY <1>2, <1>11, <2>1
  <2> QED
    BY <1>7, <1>11, <2>2 DEF Calm, AE
<1>12. CASE NW(o) /\ CF(o) /\ (o \notin U \/ AE(o))
  <2>1. start = o /\ CF(r)
    BY <1>1, <1>2, <1>3, <1>12
  <2>2. r <= o
    <3>1. CASE o \notin U
      BY <1>2, <2>1, <3>1
    <3>2. CASE AE(o)
      BY <1>1, <1>2, <1>12, <3>2
    <3> QED
      BY <1>12, <3>1, <3>2
  <2>3. NW(r)
    BY <1>4, <1>8, <1>12, <2>2
  <2>4. r \notin U \/ AE(r)
    <3> SUFFICES ASSUME r \in U PROVE AE(r)
      OBVIOUS
    <3>1. r = o
      BY <1>1, <1>2, <1>12, <2>2
    <3> QED
      BY <1>12, <3>1
  <2>5. Calm(P, n, c, h, U, r) /\ Calm(P, n, c, h, U, o)
    BY <1>12, <2>1, <2>3, <2>4 DEF Calm, CF, NW, AE
  <2> QED
    BY <2>5
<1> QED
  BY <1>9, <1>10, <1>11, <1>12

\* The offsets that --scroll-off moves away from.
UnevenIn(h, l, c, off) ==
    IF off = 0 THEN {}
    ELSE Uneven(l, c, Min({h \div 2, off}), h - NumLines(Get(l, c), h).lines)

\* What a round of constrain does, for the cursor c.
RoundOf(P, n, c, h, U, o, r) ==
    \E low, high \in 0..c :
        /\ FrameOf(P, n, c, h, o, low, high)
        /\ r \in low..high
        /\ h > 1 => /\ Settled(Constrain(o, low, high), r, low, high, U)
                    /\ CursorFits(P, c, h, Constrain(o, low, high)) => CursorFits(P, c, h, r)

\* A round is one.
LEMMA ConstrainedSettles ==
  ASSUME NEW h \in Nat \ {0}, NEW l, Shows(l), Count(l) > 0, NEW P, IsSum(P, l),
         Grows(P, Count(l)), NEW off \in Nat, NEW p \in Places, p.offset \in 0..Count(l),
         NEW c \in 0..(Count(l) - 1), c = Constrain(p.cy, 0, Max({0, Count(l) - 1}))
  PROVE  RoundOf(P, Count(l), c, h, UnevenIn(h, l, c, off), p.offset,
                 Constrained(h, l, off, p).offset)
<1> DEFINE n == Count(l)
           fit == ItemsThatFit(h, l, p.offset)
           low == Max({c - fit + 1, 0})
           high == Max({Min({Count(l) - fit, c}), 0})
           o == Constrain(p.offset, low, high)
           lines == IF c < Count(l) THEN NumLines(Get(l, c), h).lines ELSE 1 + Gap
           around == Min({h \div 2, off})
           r == IF off = 0 THEN o ELSE Scrolled(h, l, c, o, low, high, around, lines)
           U == UnevenIn(h, l, c, off)
<1>1. n \in Nat \ {0}
  BY CountTyped
<1>2. Constrained(h, l, off, p).offset = r
  BY DEF Constrained, Framed, Bounded
<1>3. FrameOf(P, n, c, h, p.offset, low, high)
  <2>1. Fits(P, n, p.offset, h, fit)
    BY FitExact
  <2> HIDE DEF fit
  <2> QED
    BY <1>1, <2>1, FrameRight
<1>4. lines = NumLines(Get(l, c), h).lines
  BY <1>1
<1>5. around \in Nat /\ (h > 1 /\ off # 0 => around > 0)
  BY MinOfTwo
<1> HIDE DEF low, high, lines, around, r, U
<1>6. low \in 0..c /\ high \in 0..c /\ low <= high
  BY <1>3 DEF FrameOf
<1>7. o \in low..high
  BY <1>1, <1>6 DEF Constrain
<1>8. CASE off = 0
  <2>1. r = o /\ U = {}
    BY <1>8 DEF r, U, UnevenIn
  <2>2. Settled(o, r, low, high, U)
    BY <1>6, <1>7, <2>1 DEF Settled
  <2> QED
    BY <1>2, <1>3, <1>6, <1>7, <2>1, <2>2 DEF RoundOf, U
<1>9. CASE off # 0
  <2>1. r = Scrolled(h, l, c, o, low, high, around, lines)
    BY <1>9 DEF r
  <2>2. U = Uneven(l, c, around, h - lines)
    BY <1>4, <1>9 DEF U, UnevenIn, around
  <2> HIDE DEF o
  <2>3. /\ r \in low..high
        /\ around > 0 => /\ Settled(o, r, low, high, U)
                         /\ CursorFits(P, c, h, o) => CursorFits(P, c, h, r)
    BY <1>4, <1>5, <1>6, <1>7, <2>1, <2>2, ScrolledSettles
  <2>4. h > 1 => /\ Settled(o, r, low, high, U)
                 /\ CursorFits(P, c, h, o) => CursorFits(P, c, h, r)
    BY <1>5, <1>9, <2>3
  <2> QED
    BY <1>2, <1>3, <1>6, <2>3, <2>4 DEF RoundOf, U, o
<1> QED
  BY <1>8, <1>9

\* Calm, or as near to the cursor as the number of rounds asks for.
Nearing(P, n, c, h, U, o, k) ==
    /\ o \in 0..c
    /\ IF h = 1 THEN o = c ELSE Calm(P, n, c, h, U, o) \/ (o >= c - h + k /\ k < h)

\* Every round that leaves work to do comes nearer.
LEMMA NearingStep ==
  ASSUME NEW n \in Nat \ {0}, NEW P, Grows(P, n), NEW c \in 0..(n - 1), NEW h \in Nat \ {0},
         NEW U, NEW o \in 0..n, NEW r, RoundOf(P, n, c, h, U, o, r), NEW k \in 1..h,
         k > 1 => Nearing(P, n, c, h, U, o, k - 1)
  PROVE  Nearing(P, n, c, h, U, r, k)
<1>1. PICK low \in 0..c, high \in 0..c :
         /\ FrameOf(P, n, c, h, o, low, high)
         /\ r \in low..high
         /\ h > 1 => /\ Settled(Constrain(o, low, high), r, low, high, U)
                     /\ CursorFits(P, c, h, Constrain(o, low, high)) => CursorFits(P, c, h, r)
  BY DEF RoundOf
<1>2. r \in 0..c /\ r >= c - h + 1
  BY <1>1 DEF FrameOf
<1>3. CASE h = 1
  BY <1>2, <1>3 DEF Nearing
<1>4. CASE h # 1 /\ k = 1
  BY <1>2, <1>4 DEF Nearing
<1>5. CASE h # 1 /\ k # 1
  <2>1. o \in 0..c /\ (Calm(P, n, c, h, U, o) \/ (o >= c - h + (k - 1) /\ k - 1 < h))
    BY <1>5 DEF Nearing
  <2>2. /\ Calm(P, n, c, h, U, o) => Calm(P, n, c, h, U, r)
        /\ ~Calm(P, n, c, h, U, o) => Calm(P, n, c, h, U, r) \/ (r > o /\ P[n] - P[o] > h)
    <3>1. /\ Settled(Constrain(o, low, high), r, low, high, U)
          /\ CursorFits(P, c, h, Constrain(o, low, high)) => CursorFits(P, c, h, r)
      BY <1>1, <1>5
    <3> QED
      BY <1>1, <2>1, <3>1, RoundCalms
  <2>3. CASE Calm(P, n, c, h, U, r)
    BY <1>2, <1>5, <2>3 DEF Nearing
  <2>4. CASE ~Calm(P, n, c, h, U, r)
    <3>1. o >= c - h + (k - 1) /\ r > o /\ P[n] - P[o] > h
      BY <2>1, <2>2, <2>4
    <3>2. CASE k < h
      BY <1>2, <1>5, <2>1, <3>1, <3>2 DEF Nearing
    <3>3. CASE k = h
      <4>1. r = c /\ o = c - 1
        BY <1>2, <2>1, <3>1, <3>3
      <4>2. CursorFits(P, c, h, r) /\ NoWaste(P, n, h, r) /\ AtEnd(P, n, c, h, r)
        BY <3>1, <4>1 DEF CursorFits, NoWaste, AtEnd
      <4> QED
        BY <2>4, <4>2 DEF Calm
    <3> QED
      BY <3>2, <3>3
  <2> QED
    BY <2>3, <2>4
<1> QED
  BY <1>3, <1>4, <1>5

\* constrain makes the cursor visible and wastes no rows, wherever it begins:
\* it makes enough rounds.
LEMMA ConstrainToShows ==
  ASSUME NEW h \in Nat \ {0}, NEW l, Shows(l), Count(l) > 0, NEW P, IsSum(P, l),
         Grows(P, Count(l)), NEW off \in Nat, NEW x \in Int, NEW o \in Int,
         NEW c, c = Constrain(x, 0, Max({0, Count(l) - 1}))
  PROVE  /\ c \in 0..(Count(l) - 1) /\ ConstrainTo(h, l, off, x, o).offset \in 0..c
         /\ CursorFits(P, c, h, ConstrainTo(h, l, off, x, o).offset)
         /\ NoWaste(P, Count(l), h, ConstrainTo(h, l, off, x, o).offset)
<1> DEFINE n == h
           Round(p, k) == Constrained(h, l, off, p)
           S == Places
           start == Place(x, Constrain(o, 0, Count(l)))
           U == UnevenIn(h, l, c, off)
           In(k) == {p \in Places : /\ p.offset \in 0..Count(l) /\ c = Constrain(p.cy, 0, Count(l) - 1)
                                    /\ k > 0 => Nearing(P, Count(l), c, h, U, p.offset, k)}
<1>1. n \in Nat /\ start \in S /\ start.cy = x /\ start.offset \in 0..Count(l)
  BY CountTyped DEF Places, Place, Constrain
<1>2. Count(l) \in Nat \ {0} /\ Max({0, Count(l) - 1}) = Count(l) - 1
  BY CountTyped, MaxOfTwo
<1>3. c \in 0..(Count(l) - 1) /\ c = Constrain(c, 0, Count(l) - 1)
  BY <1>2 DEF Constrain
<1>4. ASSUME NEW p \in S, NEW k \in 1..n
      PROVE  Round(p, k) \in S
  BY ConstrainedTyped
<1> HIDE DEF n, Round, S, start
<1> DEFINE F == [k \in 1..n |-> [s \in S |-> Round(s, k)]]
           f == CHOOSE f : Follows(f, n, start, Round)
<1>5. PICK g : IsChain(g, F, n, S, start)
  <2>1. Steps(F, n, S)
    BY <1>4 DEF Steps
  <2> HIDE DEF F
  <2> QED
    BY <1>1, <2>1, ChainExists
<1>6. ASSUME NEW k \in 1..n
      PROVE  g[k - 1] \in S /\ g[k] = Round(g[k - 1], k)
  <2>1. g[k - 1] \in S
    BY <1>1, <1>5 DEF IsChain
  <2>2. F[k] = [s \in S |-> Round(s, k)]
    OBVIOUS
  <2> HIDE DEF F
  <2>3. g[k] = F[k][g[k - 1]]
    BY <1>5 DEF IsChain
  <2> QED
    BY <2>1, <2>2, <2>3
<1>7. Follows(g, n, start, Round)
  BY <1>1, <1>5, <1>6 DEF IsChain, Follows
<1>8. f[0] = start /\ \A k \in 1..n : f[k] = Round(f[k - 1], k)
  <2>1. Follows(f, n, start, Round)
    BY <1>7
  <2> HIDE DEF f
  <2> QED
    BY <1>1, <2>1 DEF Follows
<1>9. ConstrainTo(h, l, off, x, o) = f[n]
  BY DEF ConstrainTo, n, start, Repeated, Round, Follows
<1> HIDE DEF f
<1>10. \A k \in 0..n : f[k] \in S
  <2>1. f[0] \in S /\ \A k \in 1..n : f[k - 1] \in S => f[k] \in S
    BY <1>1, <1>4, <1>8
  <2> QED
    BY <1>1, <2>1, ChainIn
<1>11. ConstrainTo(h, l, off, x, o) \in S
  BY <1>1, <1>9, <1>10
<1> HIDE DEF U
<1>20. f[0] \in In(0)
  BY <1>1, <1>2, <1>8 DEF S
<1>21. ASSUME NEW k \in 1..n, f[k - 1] \in In(k - 1)
       PROVE  f[k] \in In(k)
  <2> DEFINE p == f[k - 1]
             r == Constrained(h, l, off, p)
  <2>1. /\ p \in Places /\ p.offset \in 0..Count(l) /\ c = Constrain(p.cy, 0, Count(l) - 1)
        /\ k - 1 > 0 => Nearing(P, Count(l), c, h, U, p.offset, k - 1)
    BY <1>21
  <2>2. f[k] = r
    BY <1>8 DEF Round
  <2> HIDE DEF p
  <2>3. r \in Places /\ r.cy = c
    BY <1>2, <2>1, ConstrainedTyped
  <2>4. RoundOf(P, Count(l), c, h, U, p.offset, r.offset)
    BY <1>2, <1>3, <2>1, ConstrainedSettles DEF U
  <2>5. k \in 1..h /\ (k > 1 => Nearing(P, Count(l), c, h, U, p.offset, k - 1))
    BY <2>1 DEF n
  <2> HIDE DEF r
  <2>6. Nearing(P, Count(l), c, h, U, r.offset, k)
    BY <1>2, <1>3, <2>1, <2>4, <2>5, NearingStep
  <2>7. r.offset \in 0..Count(l)
    BY <1>2, <1>3, <2>6 DEF Nearing
  <2> QED
    BY <1>3, <2>2, <2>3, <2>6, <2>7
<1>22. f[n] \in In(n)
  <2> DEFINE T == [k \in 0..n |-> In(k)]
  <2> HIDE DEF In
  <2>1. f[0] \in T[0]
    BY <1>1, <1>20
  <2>2. \A k \in 1..n : f[k - 1] \in T[k - 1] => f[k] \in T[k]
    BY <1>1, <1>21
  <2>3. \A k \in 0..n : f[k] \in T[k]
    <3> HIDE DEF T
    <3> QED
      BY <1>1, <2>1, <2>2, ChainStays
  <2> QED
    BY <1>1, <2>3
<1> DEFINE r == f[n].offset
<1>23. Nearing(P, Count(l), c, h, U, r, h)
  BY <1>22 DEF n
<1>24. r \in 0..c /\ CursorFits(P, c, h, r) /\ NoWaste(P, Count(l), h, r)
  <2> HIDE DEF r
  <2>1. CASE h = 1
    <3>1. r = c
      BY <1>23, <2>1 DEF Nearing
    <3>2. c # 0 => P[Count(l)] - P[c - 1] >= Count(l) - (c - 1)
      <4> SUFFICES ASSUME c # 0 PROVE P[Count(l)] - P[c - 1] >= Count(l) - (c - 1)
        OBVIOUS
      <4>1. Count(l) \in 0..Count(l) /\ c - 1 \in 0..Count(l) /\ c - 1 <= Count(l)
        BY <1>2, <1>3
      <4> QED
        BY <1>2, <4>1, SumGrows
    <3>3. P[Count(l)] \in Nat /\ (c # 0 => P[c - 1] \in Nat)
      BY <1>2, <1>3 DEF Grows
    <3>4. c # 0 => P[Count(l)] - P[c - 1] > h
      BY <1>2, <1>3, <2>1, <3>2, <3>3
    <3> QED
      BY <1>3, <3>1, <3>4 DEF CursorFits, NoWaste
  <2>2. CASE h # 1
    BY <1>23, <2>2 DEF Nearing, Calm
  <2> QED
    BY <2>1, <2>2
<1> QED
  BY <1>3, <1>9, <1>24

\* The rows v show the item at c with all its lines (as many as there are rows),
\* and those that are empty are fewer than the lines of the item above.
RowsShow(l, h, c, o, v) ==
    /\ \E s \in Nat : \A q \in s..(s + Min({Lines(Index(Get(l, c))), h}) - 1) :
                       q \in 0..(h - 1) /\ v[q].item = Get(l, c)
    /\ o > 0 => \A q \in 0..(h - 1) : v[q].kind = "empty" => q > h - Size(l, o - 1)

\* So do those of the list when it is drawn on an empty window.
LEMMA ShownRows ==
  ASSUME NEW h \in Heights, NEW l, Shows(l), NEW P, IsSum(P, l), Grows(P, Count(l)),
         NEW c \in 0..(Count(l) - 1), NEW o \in 0..c, CursorFits(P, c, h, o),
         NoWaste(P, Count(l), h, o), NEW sel, NEW jump,
         NEW v, v = PrintList(l, Place(c, o), sel, jump, h, NoRows)
  PROVE  RowsShow(l, h, c, o, v)
<1> DEFINE n == Count(l) - o
           p == Place(c, o)
           D(k) == P[o + k] - P[o]
           z(k) == Size(l, o + k - 1)
           item == Get(l, c)
           m == Min({Lines(Index(item)), h})
           new(k, line) == ItemLine(l, p, o + k - 1, sel, jump, h, line)
<1>1. /\ Count(l) \in Nat /\ n \in Nat /\ n > 0 /\ h \in Nat \ {0} /\ p \in Places /\ p.offset = o
      /\ Listed(l, p) = n /\ Gap \in Nat
  <2>1. Count(l) \in Nat /\ h \in Nat \ {0} /\ Gap \in Nat
    BY CountTyped, WindowTyped, GeometryAssumption
  <2>2. p \in Places /\ p.offset = o
    BY <2>1 DEF Place, Places
  <2>3. Listed(l, p) = n /\ n > 0
    BY <2>1, <2>2, MaxOfTwo DEF Listed
  <2> QED
    BY <2>1, <2>2, <2>3
<1>2. PICK f : Draws(f, l, p, sel, jump, h, NoRows)
  BY <1>1, NoRowsTyped, PrintListDraws
<1>3. /\ f[0] = [line |-> 0, rows |-> NoRows]
      /\ \A k \in 0..n : Fine(f[k], h)
      /\ \A k \in 1..n :
          /\ f[k - 1].line >= h => f[k] = f[k - 1]
          /\ f[k - 1].line < h => ItemDrawn(f[k - 1], f[k], new(k, f[k - 1].line), h)
      /\ v = Emptied(f[n], h)
  BY <1>1, <1>2 DEF Draws
<1> HIDE DEF p
<1>4. \A k \in 0..n : f[k].line \in Nat /\ f[k].rows \in Screens
  BY <1>3 DEF Fine, Drawing
<1>5. ASSUME NEW k \in 1..n
      PROVE  /\ D(k) = D(k - 1) + z(k) /\ z(k) \in Nat \ {0} /\ D(k - 1) \in Nat
             /\ o + k - 1 \in 0..(Count(l) - 1)
  <2>1. o + k \in 1..Count(l) /\ o + (k - 1) = o + k - 1 /\ o + k - 1 \in 0..(Count(l) - 1)
    BY <1>1
  <2>2. P[o + k] = P[o + k - 1] + Size(l, o + k - 1)
    BY <2>1 DEF IsSum
  <2>3. P[o + k - 1] \in Nat /\ P[o] \in Nat /\ P[o + k - 1] - P[o] >= o + k - 1 - o
    <3>1. o \in 0..Count(l) /\ o + k - 1 \in 0..Count(l) /\ o <= o + k - 1
      BY <1>1, <2>1
    <3> HIDE DEF n
    <3> QED
      BY <1>1, <3>1, SumGrows
  <2> QED
    BY <2>1, <2>2, <2>3, SizeTyped
<1>6. D(0) = 0 /\ \A k \in 0..n : D(k) \in Int
  <2>1. \A k \in 0..n : o + k \in 0..Count(l) /\ P[o + k] \in Nat /\ P[o] \in Nat
    <3>1. \A k \in 0..n : o + k \in 0..Count(l)
      BY <1>1
    <3>2. o \in 0..Count(l) /\ \A j \in 0..Count(l) : P[j] \in Nat
      BY <1>1 DEF Grows
    <3> HIDE DEF n
    <3> QED
      BY <3>1, <3>2
  <2>2. o + 0 = o /\ 0 \in 0..n
    BY <1>1
  <2> HIDE DEF n
  <2> QED
    BY <2>1, <2>2
<1> HIDE DEF n, D, z, item, m, new
\* What a line of an item is like.
<1>7. ASSUME NEW k \in 1..n, NEW line \in Nat, line < h
      PROVE  /\ new(k, line).kind = "item" /\ new(k, line).item = Get(l, o + k - 1)
             /\ new(k, line).lines = NumLines(Get(l, o + k - 1), h - line).lines
             /\ new(k, line).lines - Gap \in 1..(h - line) /\ new(k, line) \in RowSet
             /\ new(k, line).lines = z(k)
                \/ (new(k, line).lines = h - line + Gap /\ z(k) > h - line + Gap)
  <2>1. o + k - 1 \in 0..(Count(l) - 1)
    BY <1>5
  <2>2. /\ new(k, line) \in RowSet /\ new(k, line).kind = "item"
        /\ new(k, line).lines - Gap \in 1..(h - line)
    BY <1>1, <1>7, <2>1, ItemLineTyped DEF new
  <2>3. /\ new(k, line).item = Get(l, o + k - 1)
        /\ new(k, line).lines = NumLines(Get(l, o + k - 1), h - line).lines
    BY DEF new, ItemLine, ItemRow
  <2>4. h - line \in Int
    BY <1>1
  <2> QED
    BY <2>1, <2>2, <2>3, <2>4, NumLinesSize DEF z
\* Where the current item is drawn.
<1> DEFINE at == c - o + 1
           s == D(c - o)
<1>8. /\ at \in 1..n /\ at - 1 = c - o /\ o + at - 1 = c /\ s \in 0..(h - 1)
      /\ c = o \/ s + z(at) <= h
      /\ m \in Nat /\ m <= h /\ m <= Lines(Index(item)) /\ z(at) = Lines(Index(item)) + Gap
      /\ item = Get(l, c)
  <2>1. at \in 1..n /\ at - 1 = c - o /\ o + at - 1 = c /\ o + at = c + 1
    BY <1>1 DEF n
  <2>2. D(at) = D(at - 1) + z(at) /\ z(at) \in Nat \ {0} /\ D(at - 1) \in Nat
    BY <1>5, <2>1
  <2>3. c = o \/ D(at) <= h
    BY <2>1 DEF CursorFits, D
  <2>4. c = o => s = 0
    BY <1>6
  <2>5. s \in 0..(h - 1) /\ (c = o \/ s + z(at) <= h)
    BY <1>1, <2>1, <2>2, <2>3, <2>4
  <2>6. Lines(Index(item)) \in Nat
    BY SizeTyped DEF item
  <2>7. m \in Nat /\ m <= h /\ m <= Lines(Index(item))
    BY <1>1, <2>6, MinOfTwo DEF m
  <2>8. z(at) = Lines(Index(item)) + Gap
    BY <2>1 DEF z, Size, item
  <2> QED
    BY <2>1, <2>5, <2>7, <2>8 DEF item
<1>9. m <= new(at, s).lines - Gap
  <2>1. new(at, s).lines = NumLines(item, h - s).lines
    <3>1. s \in Nat /\ s < h
      BY <1>1, <1>8
    <3> HIDE DEF s, at
    <3>2. new(at, s).lines = NumLines(Get(l, o + at - 1), h - s).lines
      BY <1>7, <1>8, <3>1
    <3> QED
      BY <1>8, <3>2
  <2>2. CASE c = o
    <3>1. s = 0 /\ h - s = h
      BY <1>1, <1>6, <2>2
    <3>2. NumLines(item, h).lines = IF Lines(Index(item)) > 1 /\ Lines(Index(item)) > h
                                    THEN h + Gap ELSE Lines(Index(item)) + Gap
      BY DEF NumLines
    <3>3. Lines(Index(item)) \in Nat
      BY SizeTyped DEF item
    <3> QED
      BY <1>1, <1>8, <2>1, <3>1, <3>2, <3>3
  <2>3. CASE c # o
    <3>1. s + z(at) <= h /\ z(at) \in Nat
      BY <1>5, <1>8, <2>3
    <3>2. new(at, s).lines = z(at)
      BY <1>1, <1>7, <1>8, <3>1
    <3>3. Lines(Index(item)) \in Nat
      BY SizeTyped DEF item
    <3> QED
      BY <1>1, <1>8, <3>2, <3>3
  <2> QED
    BY <2>2, <2>3
<1> HIDE DEF at, s
<1> DEFINE LineAt(t, k) == IF D(k) <= h THEN t.line = D(k) ELSE t.line >= h
           Filled(t) == \A q \in 0..(h - 1) : q < t.line => t.rows[q].kind # "empty"
           HasItem(t) == \A q \in s..(s + m - 1) :
                            q \in 0..(h - 1) /\ q < t.line /\ t.rows[q].item = item
           Look(k) == {t \in Drawing : LineAt(t, k) /\ Filled(t) /\ (k >= at => HasItem(t))}
<1>10. f[0] \in Look(0)
  <2>1. f[0] \in Drawing /\ f[0].line = 0 /\ 0 \in 0..n /\ ~(0 >= at)
    <3>1. 0 \in 0..n /\ ~(0 >= at)
      BY <1>1, <1>8
    <3>2. Fine(f[0], h) /\ f[0].line = 0
      BY <1>3, <3>1
    <3> QED
      BY <3>1, <3>2 DEF Fine
  <2>2. LineAt(f[0], 0) /\ Filled(f[0])
    BY <1>1, <1>6, <2>1
  <2> HIDE DEF LineAt, Filled, HasItem
  <2> QED
    BY <2>1, <2>2
<1>11. ASSUME NEW k \in 1..n, f[k - 1] \in Look(k - 1)
       PROVE  f[k] \in Look(k)
  <2> DEFINE a == f[k - 1]
             t == f[k]
             e == new(k, a.line)
  <2> HIDE DEF LineAt, Filled, HasItem
  <2>1. LineAt(a, k - 1) /\ Filled(a) /\ (k - 1 >= at => HasItem(a))
    BY <1>11
  <2>2. t \in Drawing /\ a \in Drawing /\ a.line \in Nat /\ t.line \in Nat
    BY <1>1, <1>3, <1>4, <1>11 DEF Fine
  <2>3. D(k) = D(k - 1) + z(k) /\ z(k) \in Nat \ {0} /\ D(k - 1) \in Nat
    BY <1>5
  <2>4. CASE a.line >= h
    <3>1. t = a
      BY <1>3, <2>4
    <3>2. D(k) > h
      BY <1>1, <2>1, <2>2, <2>3, <2>4 DEF LineAt
    <3>3. LineAt(t, k)
      BY <1>1, <2>3, <2>4, <3>1, <3>2 DEF LineAt
    <3>4. k # at
      <4> SUFFICES ASSUME k = at PROVE FALSE
        OBVIOUS
      <4>1. D(k - 1) = s
        BY <1>8 DEF s
      <4> QED
        BY <1>1, <1>8, <2>1, <2>4, <4>1 DEF LineAt
    <3>5. k >= at => k - 1 >= at
      BY <1>8, <3>4
    <3> QED
      BY <2>1, <2>2, <3>1, <3>3, <3>5
  <2>5. CASE a.line < h
    <3>1. a.line = D(k - 1)
      BY <1>1, <2>1, <2>2, <2>3, <2>5 DEF LineAt
    <3>2. ItemDrawn(a, t, e, h)
      BY <1>3, <2>5
    <3>3. /\ e.kind = "item" /\ e.item = Get(l, o + k - 1) /\ e \in RowSet
          /\ e.lines - Gap \in 1..(h - a.line)
          /\ e.lines = z(k) \/ (e.lines = h - a.line + Gap /\ z(k) > h - a.line + Gap)
      BY <1>7, <2>2, <2>5
    <3> HIDE DEF a, t, e
    <3>4. e.lines \in Nat /\ e.lines > 0
      <4>1. e.lines \in Int
        BY <3>3 DEF RowSet
      <4> QED
        BY <1>1, <2>2, <3>3, <4>1
    <3>5. /\ IF a.line + e.lines <= h THEN t.line = a.line + e.lines ELSE t.line >= h
          /\ \A q \in 0..(h - 1) :
               /\ q < a.line => t.rows[q] = a.rows[q]
               /\ q >= a.line /\ q < a.line + e.lines =>
                    SameLook(t.rows[q], Expected(e, a.line + e.lines, q))
      BY <3>2 DEF ItemDrawn
    <3>6. LineAt(t, k)
      BY <1>1, <2>2, <2>3, <3>1, <3>3, <3>4, <3>5 DEF LineAt
    <3>7. ASSUME NEW q \in 0..(h - 1), q >= a.line, q < a.line + e.lines
          PROVE  /\ t.rows[q].kind # "empty"
                 /\ q < a.line + e.lines - Gap => t.rows[q].item = e.item
      <4>1. t.rows[q] \in RowSet
        BY <2>2, RowsTyped DEF Drawing
      <4>2. Blank("other", q) \in RowSet /\ Blank("other", q).kind = "other"
        BY BlankTyped
      <4>3. SameLook(t.rows[q], Expected(e, a.line + e.lines, q))
        BY <3>5, <3>7
      <4>4. Expected(e, a.line + e.lines, q) \in RowSet
        BY <3>3, <4>2 DEF Expected
      <4>5. Expected(e, a.line + e.lines, q).kind # "empty"
        BY <3>3, <4>2 DEF Expected
      <4>6. q < a.line + e.lines - Gap => Expected(e, a.line + e.lines, q).item = e.item
        BY <1>1, <2>2, <3>4 DEF Expected
      <4>7. /\ t.rows[q].kind = Expected(e, a.line + e.lines, q).kind
            /\ t.rows[q].item = Expected(e, a.line + e.lines, q).item
        BY <4>1, <4>3, <4>4, LookFields
      <4> QED
        BY <4>5, <4>6, <4>7
    <3>8. Filled(t)
      <4> SUFFICES ASSUME NEW q \in 0..(h - 1), q < t.line PROVE t.rows[q].kind # "empty"
        BY DEF Filled
      <4>1. CASE q < a.line
        BY <2>1, <3>5, <4>1 DEF Filled
      <4>2. CASE ~(q < a.line)
        <5>1. q >= a.line /\ q < a.line + e.lines
          BY <1>1, <2>2, <3>4, <3>5, <4>2
        <5> QED
          BY <3>7, <5>1
      <4> QED
        BY <4>1, <4>2
    <3>9. k >= at => HasItem(t)
      <4>1. CASE k - 1 >= at
        <5> SUFFICES ASSUME NEW q \in s..(s + m - 1)
                     PROVE  q \in 0..(h - 1) /\ q < t.line /\ t.rows[q].item = item
          BY DEF HasItem
        <5>1. q \in 0..(h - 1) /\ q < a.line /\ a.rows[q].item = item
          BY <2>1, <4>1 DEF HasItem
        <5> QED
          BY <1>1, <2>2, <3>4, <3>5, <5>1
      <4>2. CASE k = at
        <5>1. a.line = s /\ e.item = item /\ m <= e.lines - Gap
          BY <1>8, <1>9, <3>1, <3>3, <4>2 DEF e, s
        <5> SUFFICES ASSUME NEW q \in s..(s + m - 1)
                     PROVE  q \in 0..(h - 1) /\ q < t.line /\ t.rows[q].item = item
          BY DEF HasItem
        <5>2. /\ q \in 0..(h - 1) /\ q >= a.line /\ q < a.line + e.lines - Gap
              /\ q < a.line + e.lines
          BY <1>1, <1>8, <2>2, <3>3, <3>4, <5>1
        <5>3. q < t.line
          BY <1>1, <2>2, <3>4, <3>5, <5>2
        <5> QED
          BY <3>7, <5>1, <5>2, <5>3
      <4> QED
        BY <1>8, <4>1, <4>2
    <3>10. t \in Look(k)
      BY <2>2, <3>6, <3>8, <3>9
    <3> QED
      BY <3>10 DEF t
  <2> QED
    BY <1>1, <2>2, <2>4, <2>5
<1>12. LineAt(f[n], n) /\ Filled(f[n]) /\ HasItem(f[n])
  <2> DEFINE T == [k \in 0..n |-> Look(k)]
  <2> HIDE DEF LineAt, Filled, HasItem
  <2>1. f[n] \in Look(n)
    <3> HIDE DEF Look
    <3>1. f[0] \in T[0]
      BY <1>1, <1>10
    <3>2. \A k \in 1..n : f[k - 1] \in T[k - 1] => f[k] \in T[k]
      BY <1>1, <1>11
    <3>3. \A k \in 0..n : f[k] \in T[k]
      <4> HIDE DEF T
      <4> QED
        BY <1>1, <3>1, <3>2, ChainStays
    <3> QED
      BY <1>1, <3>3
  <2> QED
    BY <1>1, <1>8, <2>1
<1>13. \A q \in 0..(h - 1) : v[q] = IF q < f[n].line THEN f[n].rows[q] ELSE Blank("empty", q)
  <2>1. Fine(f[n], h) /\ v = Emptied(f[n], h)
    BY <1>1, <1>3
  <2> QED
    BY <2>1, EmptiedExact
<1>14. \A q \in s..(s + m - 1) : q \in 0..(h - 1) /\ v[q].item = item
  BY <1>12, <1>13
<1>15. ASSUME o > 0, NEW q \in 0..(h - 1), v[q].kind = "empty"
       PROVE  q > h - Size(l, o - 1)
  <2>1. ~(q < f[n].line)
    BY <1>12, <1>13, <1>15
  <2>2. D(n) <= h /\ f[n].line = D(n)
    BY <1>1, <1>4, <1>6, <1>12, <2>1
  <2>3. D(n) = P[Count(l)] - P[o]
    BY <1>1 DEF D, n
  <2>4. P[o] = P[o - 1] + Size(l, o - 1) /\ o - 1 \in 0..(Count(l) - 1)
    <3>1. o \in 1..Count(l) /\ o - 1 \in 0..(Count(l) - 1)
      BY <1>1, <1>15
    <3>2. P[o] = P[o - 1] + Size(l, o - 1)
      BY <3>1 DEF IsSum
    <3> QED
      BY <3>1, <3>2
  <2>5. Size(l, o - 1) \in Nat
    BY <2>4, SizeTyped
  <2>6. P[Count(l)] \in Nat /\ P[o] \in Nat /\ P[o - 1] \in Nat
    <3>1. o \in 0..Count(l) /\ Count(l) \in 0..Count(l) /\ o - 1 \in 0..Count(l)
      BY <1>1, <2>4
    <3> QED
      BY <3>1 DEF Grows
  <2>7. P[Count(l)] - P[o - 1] > h
    BY <1>15 DEF NoWaste
  <2> QED
    BY <1>1, <2>1, <2>2, <2>3, <2>4, <2>5, <2>6, <2>7
<1>16. s \in Nat /\ m = Min({Lines(Index(Get(l, c))), h}) /\ item = Get(l, c)
  BY <1>8 DEF m, item
<1> QED
  BY <1>14, <1>15, <1>16 DEF RowsShow

\* The place of the cursor that constrain finds.
InView(l, h, c, o) ==
    /\ c \in 0..(Count(l) - 1) /\ o \in 0..c
    /\ \A P : IsSum(P, l) /\ Grows(P, Count(l)) =>
                 CursorFits(P, c, h, o) /\ NoWaste(P, Count(l), h, o)

\* It is found, from wherever it begins.
LEMMA ConstrainToShown ==
  ASSUME NEW h \in Nat \ {0}, NEW l, Shows(l), Count(l) > 0, NEW off \in Nat, NEW c \in Int,
         NEW o \in Int
  PROVE  InView(l, h, ConstrainTo(h, l, off, c, o).cy, ConstrainTo(h, l, off, c, o).offset)
<1> DEFINE p == ConstrainTo(h, l, off, c, o)
           x == Constrain(c, 0, Max({0, Count(l) - 1}))
<1>1. p.cy = x
  BY ConstrainToTyped
<1>2. ASSUME NEW P, IsSum(P, l), Grows(P, Count(l))
      PROVE  /\ x \in 0..(Count(l) - 1) /\ p.offset \in 0..x
             /\ CursorFits(P, x, h, p.offset) /\ NoWaste(P, Count(l), h, p.offset)
  BY <1>2, ConstrainToShows
<1>3. \E P : IsSum(P, l) /\ Grows(P, Count(l))
  BY SumExists
<1> HIDE DEF p, x
<1>4. InView(l, h, x, p.offset)
  BY <1>2, <1>3 DEF InView
<1> QED
  BY <1>1, <1>4 DEF p

\* The render loop draws the list with such a place.
LEMMA RenderShows ==
  ASSUME Typed, Render, requests \cap ToDraw # {}, Count(list) > 0
  PROVE  InView(list, height', cy', offset')
<1> DEFINE p == Visible(cy, offset)
           q == IF height' = height THEN p
                ELSE ConstrainTo(height', list, ScrollOff, p.cy, p.offset)
<1>1. height' \in Heights /\ height' \in Nat \ {0}
  BY RenderDraws, WindowTyped DEF ToDraw
<1>2. Shows(list) /\ height \in Nat \ {0} /\ ScrollOff \in Nat
  BY ListTyped, GeometryAssumption
<1>3. cy' = q.cy /\ offset' = q.offset
  BY DEF Render, DrawAll, ToDraw
<1>4. InView(list, height, p.cy, p.offset)
  BY <1>2, TypedFields, ConstrainToShown DEF Visible
<1>5. p.cy \in Int /\ p.offset \in Int
  BY TypedFields, VisibleTyped DEF AnyPlace
<1> HIDE DEF p
<1>6. CASE height' = height
  BY <1>3, <1>4, <1>6
<1>7. CASE height' # height
  <2> DEFINE h == height'
  <2>1. h \in Nat \ {0}
    BY <1>1
  <2>2. cy' = ConstrainTo(h, list, ScrollOff, p.cy, p.offset).cy
        /\ offset' = ConstrainTo(h, list, ScrollOff, p.cy, p.offset).offset
    BY <1>3, <1>7
  <2> HIDE DEF h
  <2>3. InView(list, h, cy', offset')
    BY <1>2, <1>5, <2>1, <2>2, ConstrainToShown
  <2> QED
    BY <2>3 DEF h
<1> QED
  BY <1>6, <1>7

\* As long as nothing asks for the list to be drawn, the cursor is where it was
\* when it was drawn.
Positioned ==
    /\ requests \cap ToDraw = {} /\ "screen" \notin undrawn /\ rows # NoRows /\ Count(list) > 0
    => InView(list, height, cy, offset)

LEMMA PositionedStep == Typed /\ Positioned /\ [Next]_vars => Positioned'
<1> SUFFICES ASSUME Typed, Positioned, [Next]_vars,
                    requests' \cap ToDraw = {}, "screen" \notin undrawn', rows' # NoRows,
                    Count(list') > 0
             PROVE  InView(list', height', cy', offset')
  <2>1. NoRows' = NoRows /\ Count(list)' = Count(list')
    BY DEF NoRows, Count
  <2>2. InView(list, height, cy, offset)' <=> InView(list', height', cy', offset')
    BY DEF InView, IsSum, Grows, CursorFits, NoWaste, Count, Size, Get
  <2> QED
    BY <2>1, <2>2 DEF Positioned
<1>1. CASE Quiet
  BY <1>1 DEF Quiet, ToDraw, Positioned
<1>2. CASE UpdateList
  BY <1>2 DEF UpdateList, ToDraw
<1>3. CASE Render /\ requests \cap ToDraw = {}
  BY <1>3 DEF Render, ToDraw, Positioned
<1>4. CASE Render /\ requests \cap ToDraw # {}
  <2>1. list' = list
    BY <1>4 DEF Render
  <2> QED
    BY <1>4, <2>1, RenderShows
<1> QED
  BY <1>1, <1>2, <1>3, <1>4, QuietSteps

\* A screen that is drawn shows the cursor.
LEMMA ShownOnScreen ==
  ASSUME Typed, UpToDate, Positioned, Drawn, Count(list) > 0
  PROVE  /\ Current # NoItem
         /\ Cardinality({r \in 0..(height - 1) : rows[r].item = Current})
                >= Min({Lines(Index(Current)), height})
         /\ offset > 0 =>
                Cardinality({r \in 0..(height - 1) : rows[r].kind = "empty"})
                    < Lines(Index(Get(list, offset - 1))) + Gap
<1> DEFINE v == PrintList(list, Place(cy, offset), selected, jumping, height, NoRows)
           m == Min({Lines(Index(Current)), height})
           S == {r \in 0..(height - 1) : rows[r].item = Current}
           E == {r \in 0..(height - 1) : rows[r].kind = "empty"}
<1>1. Shows(list) /\ height \in Nat \ {0} /\ height \in Heights /\ rows \in Screens
      /\ Count(list) \in Nat
  BY ListTyped DEF Typed
<1>2. Painted /\ InView(list, height, cy, offset)
  BY DEF UpToDate, Positioned, Drawn, ToDraw
<1>3. cy \in 0..(Count(list) - 1) /\ offset \in 0..cy
  BY <1>2 DEF InView
<1>4. PICK P : IsSum(P, list) /\ Grows(P, Count(list))
  BY <1>1, SumExists
<1>5. CursorFits(P, cy, height, offset) /\ NoWaste(P, Count(list), height, offset)
  BY <1>2, <1>4 DEF InView
<1>6. Current = Get(list, cy) /\ Current \in Items
  BY <1>1, <1>3, GetTyped DEF Current, ItemAt
<1>7. RowsShow(list, height, cy, offset, v)
  BY <1>1, <1>3, <1>4, <1>5, ShownRows
<1>8. \A r \in 0..(height - 1) : rows[r].kind = v[r].kind /\ rows[r].item = v[r].item
  <2>1. v \in Screens
    <3>1. Place(cy, offset) \in Places
      BY <1>3 DEF Place, Places
    <3> QED
      BY <1>1, <3>1, NoRowsTyped, PrintListTyped
  <2>2. \A r \in 0..(height - 1) : SameLook(rows[r], v[r])
    BY <1>2 DEF Painted
  <2> HIDE DEF v
  <2> QED
    BY <1>1, <2>1, <2>2, RowsTyped, LookFields
<1>9. Current # NoItem
  BY <1>6 DEF Items, NoItem, NoIndex
<1> HIDE DEF v
<1>10. m \in Nat
  <2>1. Lines(Index(Current)) \in Nat
    BY <1>1, <1>3, <1>6, SizeTyped
  <2> QED
    BY <1>1, <2>1, MinOfTwo
<1> HIDE DEF m
<1>11. IsFiniteSet(0..(height - 1))
  BY <1>1, FS_Interval
<1>12. Cardinality(S) >= m
  <2>1. PICK s \in Nat : \A q \in s..(s + m - 1) : q \in 0..(height - 1) /\ v[q].item = Current
    BY <1>6, <1>7 DEF RowsShow, m
  <2>2. s..(s + m - 1) \in SUBSET S
    BY <1>8, <2>1
  <2>3. Cardinality(s..(s + m - 1)) = m
    BY <1>10, FS_Interval
  <2>4. IsFiniteSet(S) /\ S \in SUBSET (0..(height - 1))
    BY <1>11, FS_Subset
  <2>5. Cardinality(s..(s + m - 1)) <= Cardinality(S)
    BY <2>2, <2>4, FS_Subset
  <2> QED
    BY <2>3, <2>5
<1>13. ASSUME offset > 0
       PROVE  Cardinality(E) < Size(list, offset - 1)
  <2> DEFINE z == Size(list, offset - 1)
             I == (height - z + 1)..(height - 1)
  <2>1. z \in Nat \ {0}
    BY <1>1, <1>3, <1>13, SizeTyped
  <2> HIDE DEF z
  <2>2. E \in SUBSET I
    BY <1>1, <1>7, <1>8, <1>13, <2>1 DEF z, RowsShow
  <2>3. IsFiniteSet(I) /\ Cardinality(I) = z - 1
    <3>1. height - z + 1 \in Int /\ height - 1 \in Int
      BY <1>1, <2>1
    <3>2. /\ IsFiniteSet(I)
          /\ Cardinality(I) = IF height - z + 1 > height - 1 THEN 0
                              ELSE height - 1 - (height - z + 1) + 1
      BY <3>1, FS_Interval
    <3> HIDE DEF I
    <3> QED
      BY <1>1, <2>1, <3>2
  <2>4. IsFiniteSet(E) /\ Cardinality(E) <= Cardinality(I)
    BY <2>2, <2>3, FS_Subset
  <2>5. Cardinality(E) \in Nat
    BY <2>4, FS_CardinalityType
  <2> HIDE DEF I, E
  <2>6. Cardinality(E) < z
    BY <2>1, <2>3, <2>4, <2>5
  <2> QED
    BY <2>6 DEF z
<1> QED
  BY <1>9, <1>12, <1>13 DEF m, Size

\* constrain makes enough rounds (terminal.go:5796, one for each line of the
\* window): after them the current item is visible with all its lines when the
\* window is high enough, and no rows are wasted that the item above would fit
\* in.
THEOREM CursorIsShown == Spec => []CursorShown
<1>1. Init => Positioned /\ UpToDate
  BY DEF Init, Positioned, UpToDate
<1>2. Typed /\ UpToDate /\ Positioned => CursorShown
  BY ShownOnScreen DEF CursorShown
<1> QED
  BY <1>1, <1>2, UpToDateStep, PositionedStep, TypedAlways, PTL DEF Spec

=============================================================================
