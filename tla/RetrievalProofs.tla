--------------------------- MODULE RetrievalProofs ---------------------------
(***************************************************************************)
(* What a reader is given is what it should be, for any project and any     *)
(* query. A context packet selects exactly the documents within its depth,  *)
(* and a delta gives the consumer every block that its generation does not  *)
(* (ContextPacket, which this module extends). The references of a section  *)
(* and a change plan are what the shortest paths say, and a plan is the     *)
(* same from the shards but for boundaries that are written more than once  *)
(* (ReferenceGraph, as the instance G).                                     *)
(***************************************************************************)
EXTENDS ContextPacket, FiniteSetTheorems, SequenceTheorems, WellFoundedInduction, TLAPS

-----------------------------------------------------------------------------
(* Numbers and pairs of numbers in their order *)

\* Every non-empty set of numbers has a least member.
LEMMA Smallest ==
  ASSUME NEW S \in SUBSET Nat, S # {} PROVE Min(S) \in S /\ \A y \in S : Min(S) <= y
<1>1. IsWellFoundedOn(OpToRel(<, Nat), Nat)
  BY NatLessThanWellFounded
<1>2. PICK x \in S : \A y \in S : ~ (<<y, x>> \in OpToRel(<, Nat))
  BY <1>1, WFMin
<1>3. \A y \in S : ~ (y < x)
  BY <1>2, Zenon DEF OpToRel
<1>4. \A y \in S : x <= y
  BY <1>3
<1> QED
  BY <1>4, Zenon DEF Min

\* A bounded set of numbers has a greatest one.
LEMMA Greatest ==
  ASSUME NEW n \in Nat, NEW S \in SUBSET (0 .. n), S # {}
  PROVE  Max(S) \in S /\ \A y \in S : y <= Max(S)
<1> DEFINE T == {n - x : x \in S}
<1>1. T \in SUBSET Nat /\ T # {}
  <2>1. \A x \in S : x \in 0 .. n
    OBVIOUS
  <2>2. \A x \in S : n - x \in Nat
    BY <2>1
  <2>3. PICK x \in S : TRUE
    OBVIOUS
  <2>4. n - x \in T
    BY <2>3
  <2> QED
    BY <2>2, <2>4
<1>2. PICK m \in T : \A y \in T : m <= y
  <2> HIDE DEF T
  <2> QED
    BY <1>1, Smallest
<1>3. PICK x \in S : m = n - x
  OBVIOUS
<1>4. ASSUME NEW y \in S PROVE x >= y
  <2>1. n - x <= n - y
    BY <1>2, <1>3
  <2>2. x \in 0 .. n /\ y \in 0 .. n
    OBVIOUS
  <2> QED
    BY <2>1, <2>2
<1>5. Max(S) \in S /\ \A y \in S : Max(S) >= y
  BY <1>4, Zenon DEF Max
<1>6. \A y \in S : y \in 0 .. n
  OBVIOUS
<1>7. Max(S) \in 0 .. n
  BY <1>5, <1>6
<1> QED
  BY <1>5, <1>6, <1>7

\* Parts are ordered by their first line, then by their last.
LEMMA Orders ==
  ASSUME NEW x \in Nat \X Nat, NEW y \in Nat \X Nat, NEW z \in Nat \X Nat
  PROVE  /\ Before(x, y) \/ x = y \/ Before(y, x)
         /\ Before(x, y) /\ Before(y, z) => Before(x, z)
         /\ ~Before(x, x)
<1>1. x = <<x[1], x[2]>> /\ y = <<y[1], y[2]>>
  OBVIOUS
<1>2. x[1] \in Nat /\ x[2] \in Nat /\ y[1] \in Nat /\ y[2] \in Nat /\ z[1] \in Nat /\ z[2] \in Nat
  OBVIOUS
<1>3. (x[1] = y[1] /\ x[2] = y[2]) => x = y
  BY <1>1
<1> QED
  BY <1>2, <1>3 DEF Before

\* A finite set of parts has a last one.
LEMMA LastPart ==
  ASSUME NEW S \in SUBSET (Nat \X Nat), IsFiniteSet(S), S # {}
  PROVE  \E x \in S : \A y \in S : y = x \/ Before(y, x)
<1> DEFINE Has(T) == \E x \in T : \A y \in T : y = x \/ Before(y, x)
           Bad == {n \in Nat : \E T \in SUBSET S : Cardinality(T) = n /\ T # {} /\ ~Has(T)}
<1>1. SUFFICES Bad = {}
  <2>1. Cardinality(S) \in Nat
    BY FS_CardinalityType
  <2> QED
    BY <1>1, <2>1
<1>2. SUFFICES ASSUME Bad # {} PROVE FALSE
  OBVIOUS
<1>3. PICK n \in Bad : \A y \in Bad : n <= y
  <2> HIDE DEF Bad
  <2>1. Bad \subseteq Nat
    BY DEF Bad
  <2> QED
    BY <1>2, <2>1, Smallest
<1>4. PICK T \in SUBSET S : Cardinality(T) = n /\ T # {} /\ ~Has(T)
  BY <1>3
<1>5. PICK x \in T : TRUE
  BY <1>4
<1>6. IsFiniteSet(T) /\ IsFiniteSet(T \ {x}) /\ Cardinality(T \ {x}) = n - 1
  BY <1>4, FS_Subset, FS_RemoveElement
<1>7. n - 1 \notin Bad /\ n - 1 \in Nat
  <2> HIDE DEF Bad
  <2>1. Bad \subseteq Nat
    BY DEF Bad
  <2>2. n \in Nat /\ n - 1 \in Nat
    BY <1>3, <1>6, <2>1, FS_CardinalityType
  <2>3. ~ (n <= n - 1)
    BY <2>2
  <2> QED
    BY <1>3, <2>2, <2>3
<1>8. T \ {x} = {} \/ Has(T \ {x})
  BY <1>6, <1>7
<1>9. CASE T \ {x} = {}
  <2>1. \A y \in T : y = x
    BY <1>9
  <2> QED
    BY <1>4, <1>5, <2>1
<1>10. CASE Has(T \ {x})
  <2>1. PICK m \in T \ {x} : \A y \in T \ {x} : y = m \/ Before(y, m)
    BY <1>10
  <2>2. x \in Nat \X Nat /\ m \in Nat \X Nat /\ \A y \in T : y \in Nat \X Nat
    OBVIOUS
  <2>3. CASE Before(x, m)
    <3>1. \A y \in T : y = m \/ Before(y, m)
      BY <2>1, <2>3
    <3> QED
      BY <1>4, <2>1, <3>1
  <2>4. CASE Before(m, x)
    <3>1. ASSUME NEW y \in T PROVE y = x \/ Before(y, x)
      BY <2>1, <2>2, <2>4, Orders
    <3> QED
      BY <1>4, <1>5, <3>1
  <2> QED
    BY <2>1, <2>2, <2>3, <2>4, Orders
<1> QED
  BY <1>8, <1>9, <1>10

Ordered(s, S) ==
  /\ s \in [1 .. Cardinality(S) -> S]
  /\ \A i, j \in DOMAIN s : i < j => Before(s[i], s[j])

\* Every finite set of parts can be sorted.
LEMMA CanSort ==
  ASSUME NEW S \in SUBSET (Nat \X Nat), IsFiniteSet(S) PROVE \E s : Ordered(s, S)
<1> DEFINE Bad == {n \in Nat : \E T \in SUBSET S : Cardinality(T) = n /\ ~ \E s : Ordered(s, T)}
<1>1. SUFFICES Bad = {}
  <2>1. Cardinality(S) \in Nat
    BY FS_CardinalityType
  <2> QED
    BY <1>1, <2>1
<1>2. SUFFICES ASSUME Bad # {} PROVE FALSE
  OBVIOUS
<1>3. PICK n \in Bad : \A y \in Bad : n <= y
  BY <1>2, Smallest
<1>4. PICK T \in SUBSET S : Cardinality(T) = n /\ ~ \E s : Ordered(s, T)
  BY <1>3
<1>5. IsFiniteSet(T)
  BY FS_Subset
<1>6. T # {}
  <2> SUFFICES ASSUME T = {} PROVE FALSE
    OBVIOUS
  <2>1. Cardinality(T) = 0
    BY FS_EmptySet
  <2>2. Ordered(<<>>, T)
    BY <2>1 DEF Ordered
  <2> QED
    BY <2>2, <1>4
<1>7. PICK x \in T : \A y \in T : y = x \/ Before(y, x)
  BY <1>5, <1>6, LastPart
<1>8. IsFiniteSet(T \ {x}) /\ Cardinality(T \ {x}) = n - 1
  BY <1>4, <1>5, FS_RemoveElement
<1>9. n \in Nat /\ n - 1 \in Nat
  BY <1>3, <1>8, FS_CardinalityType
<1>10. n - 1 \notin Bad
  <2> HIDE DEF Bad
  <2> QED
    BY <1>3, <1>9
<1>11. PICK s : Ordered(s, T \ {x})
  BY <1>8, <1>9, <1>10
<1> DEFINE t == [i \in 1 .. n |-> IF i = n THEN x ELSE s[i]]
<1>12. s \in [1 .. n - 1 -> T \ {x}] /\ \A i, j \in 1 .. n - 1 : i < j => Before(s[i], s[j])
  BY <1>8, <1>11 DEF Ordered
<1>13. Ordered(t, T)
  <2>1. t \in [1 .. n -> T]
    BY <1>9, <1>12
  <2>2. ASSUME NEW i \in 1 .. n, NEW j \in 1 .. n, i < j PROVE Before(t[i], t[j])
    <3>1. i \in 1 .. n - 1 /\ t[i] = s[i] /\ s[i] \in T \ {x}
      BY <1>9, <1>12, <2>2
    <3>2. CASE j = n
      BY <3>1, <3>2, <1>7
    <3>3. CASE j # n
      BY <1>9, <1>12, <2>2, <3>1, <3>3
    <3> QED
      BY <3>2, <3>3
  <2> HIDE DEF t
  <2> QED
    BY <1>4, <2>1, <2>2 DEF Ordered
<1> QED
  BY <1>4, <1>13

\* An injective sequence of as many members as a finite set has holds them all.
LEMMA HoldsAll ==
  ASSUME NEW S, IsFiniteSet(S), NEW s \in [1 .. Cardinality(S) -> S],
         \A i, j \in DOMAIN s : s[i] = s[j] => i = j
  PROVE  /\ s \in Seq(S) /\ Len(s) = Cardinality(S) /\ Len(s) \in Nat
         /\ DOMAIN s = 1 .. Len(s)
         /\ \A x \in S : \E i \in DOMAIN s : s[i] = x
<1> DEFINE n == Cardinality(S)
<1>1. n \in Nat
  BY FS_CardinalityType
<1>2. IsFiniteSet(1 .. n) /\ Cardinality(1 .. n) = n
  BY <1>1, FS_Interval
<1>3. s \in Injection(1 .. n, S)
  BY DEF Injection, IsInjective
<1>4. s \in Surjection(1 .. n, S)
  BY <1>2, <1>3, FS_Injection
<1> HIDE DEF n
<1>5. s \in Seq(S) /\ Len(s) = n /\ DOMAIN s = 1 .. n
  BY <1>1 DEF n
<1> QED
  BY <1>1, <1>4, <1>5 DEF Surjection, n

\* A sorted sequence of parts holds every one of them.
LEMMA SortedIs ==
  ASSUME NEW S \in SUBSET (Nat \X Nat), IsFiniteSet(S)
  PROVE  /\ Sorted(S) \in Seq(S) /\ Len(Sorted(S)) \in Nat
         /\ DOMAIN Sorted(S) = 1 .. Len(Sorted(S))
         /\ \A x \in S : \E i \in DOMAIN Sorted(S) : Sorted(S)[i] = x
         /\ \A i, j \in DOMAIN Sorted(S) : i < j => Sorted(S)[i][1] <= Sorted(S)[j][1]
<1> DEFINE s == Sorted(S)
<1>1. Ordered(s, S)
  BY CanSort DEF Sorted, Ordered
<1> HIDE DEF s
<1>2. s \in [1 .. Cardinality(S) -> S] /\ Cardinality(S) \in Nat
  BY <1>1, FS_CardinalityType DEF Ordered
<1>3. ASSUME NEW i \in DOMAIN s, NEW j \in DOMAIN s, i < j
      PROVE  Before(s[i], s[j]) /\ s[i] \in Nat \X Nat /\ s[j] \in Nat \X Nat
  BY <1>1, <1>2, <1>3 DEF Ordered
<1>4. ASSUME NEW i \in DOMAIN s, NEW j \in DOMAIN s, s[i] = s[j] PROVE i = j
  <2>1. i \in Nat /\ j \in Nat
    BY <1>2
  <2>2. ~(i < j) /\ ~(j < i)
    BY <1>3, <1>4, Orders
  <2> QED
    BY <2>1, <2>2
<1>5. ASSUME NEW i \in DOMAIN s, NEW j \in DOMAIN s, i < j PROVE s[i][1] <= s[j][1]
  BY <1>3, <1>5 DEF Before
<1>6. /\ s \in Seq(S) /\ Len(s) \in Nat /\ DOMAIN s = 1 .. Len(s)
      /\ \A x \in S : \E i \in DOMAIN s : s[i] = x
  BY <1>2, <1>4, HoldsAll
<1> QED
  BY <1>5, <1>6 DEF s

-----------------------------------------------------------------------------
(* _compact_content_delivery: merging loses no line *)

Merges(f, n, s) == f = [k \in 0 .. n |-> IF k = 0 THEN <<>> ELSE Merge(f[k - 1], s[k])]

\* The ranges after each part exist, by induction on the number of parts.
LEMMA MergedIs ==
  ASSUME NEW s, Len(s) \in Nat
  PROVE  Merged(s) = [k \in 0 .. Len(s) |->
                        IF k = 0 THEN <<>> ELSE Merge(Merged(s)[k - 1], s[k])]
<1> DEFINE Bad == {n \in Nat : ~ \E f : Merges(f, n, s)}
<1>1. Bad = {}
  <2> SUFFICES ASSUME Bad # {} PROVE FALSE
    OBVIOUS
  <2>1. PICK n \in Bad : \A y \in Bad : n <= y
    BY Smallest
  <2>2. n # 0
    <3> DEFINE f == [k \in 0 .. 0 |-> <<>>]
    <3>1. Merges(f, 0, s)
      BY DEF Merges
    <3> QED
      BY <2>1, <3>1
  <2>3. n - 1 \in Nat /\ n - 1 \notin Bad
    <3> HIDE DEF Bad
    <3>1. n \in Nat
      BY <2>1 DEF Bad
    <3>2. n - 1 \in Nat /\ ~(n <= n - 1)
      BY <2>2, <3>1
    <3> QED
      BY <2>1, <3>2
  <2>4. PICK f : Merges(f, n - 1, s)
    BY <2>3
  <2> DEFINE g == [k \in 0 .. n |-> IF k = n THEN Merge(f[n - 1], s[n]) ELSE f[k]]
  <2>5. n \in Nat
    BY <2>3
  <2>6. \A k \in 0 .. n - 1 : f[k] = IF k = 0 THEN <<>> ELSE Merge(f[k - 1], s[k])
    BY <2>4 DEF Merges
  <2>7. ASSUME NEW k \in 0 .. n PROVE g[k] = IF k = 0 THEN <<>> ELSE Merge(g[k - 1], s[k])
    <3>1. CASE k = n
      <4>1. k # 0 /\ k - 1 \in 0 .. n /\ k - 1 # n
        BY <2>2, <2>5, <3>1
      <4>2. g[k - 1] = f[k - 1] /\ g[k] = Merge(f[k - 1], s[k])
        BY <3>1, <4>1
      <4> QED
        BY <4>1, <4>2
    <3>2. CASE k # n
      <4>1. k \in 0 .. n - 1 /\ g[k] = f[k]
        BY <2>5, <3>2
      <4>2. CASE k = 0
        BY <2>6, <4>1, <4>2
      <4>3. CASE k # 0
        <5>1. k - 1 \in 0 .. n /\ k - 1 # n
          BY <2>5, <4>1, <4>3
        <5>2. g[k - 1] = f[k - 1]
          BY <5>1
        <5> QED
          BY <2>6, <4>1, <4>3, <5>2
      <4> QED
        BY <4>2, <4>3
    <3> QED
      BY <3>1, <3>2
  <2>8. Merges(g, n, s)
    <3>1. g = [k \in 0 .. n |-> g[k]]
      OBVIOUS
    <3> HIDE DEF g
    <3> QED
      BY <2>7, <3>1 DEF Merges
  <2> HIDE DEF g
  <2> QED
    BY <2>1, <2>8
<1>2. \E f : Merges(f, Len(s), s)
  BY <1>1
<1>3. Merges(Merged(s), Len(s), s)
  BY <1>2, Zenon DEF Merged, Merges
<1> QED
  BY <1>3, Zenon DEF Merges

Covered(r, x) == \E i \in DOMAIN r : x \in r[i][1] .. r[i][2]

\* A part that starts no earlier than the last range is covered by the ranges
\* it is merged into, and so is what was covered before.
LEMMA MergeCovers ==
  ASSUME NEW r \in Seq(Nat \X Nat), NEW p \in Nat \X Nat,
         r # <<>> => Last(r)[1] <= p[1]
  PROVE  /\ Merge(r, p) \in Seq(Nat \X Nat) /\ Merge(r, p) # <<>>
         /\ Last(Merge(r, p))[1] <= p[1]
         /\ \A x \in p[1] .. p[2] : Covered(Merge(r, p), x)
         /\ \A x : Covered(r, x) => Covered(Merge(r, p), x)
<1> DEFINE m == Merge(r, p)
           n == Len(r)
<1>1. n \in Nat /\ DOMAIN r = 1 .. n /\ p[1] \in Nat /\ p[2] \in Nat
  OBVIOUS
<1>2. CASE r = <<>> \/ p[1] > Last(r)[2] + 1
  <2>1. m = Append(r, p)
    BY <1>2 DEF Merge
  <2>2. /\ m \in Seq(Nat \X Nat) /\ Len(m) = n + 1 /\ m[n + 1] = p
        /\ \A i \in 1 .. n : m[i] = r[i]
    BY <2>1
  <2>3. DOMAIN m = 1 .. n + 1
    BY <1>1, <2>2
  <2>4. m # <<>> /\ Last(m) = p
    BY <1>1, <2>2 DEF Last
  <2> HIDE DEF m
  <2>5. \A x \in p[1] .. p[2] : Covered(m, x)
    <3>1. n + 1 \in DOMAIN m
      BY <1>1, <2>3
    <3> QED
      BY <2>2, <3>1 DEF Covered
  <2>6. ASSUME NEW x, Covered(r, x) PROVE Covered(m, x)
    <3>1. PICK i \in 1 .. n : x \in r[i][1] .. r[i][2]
      BY <1>1, <2>6 DEF Covered
    <3>2. i \in DOMAIN m
      BY <1>1, <2>3
    <3> QED
      BY <2>2, <3>1, <3>2 DEF Covered
  <2>7. Last(m)[1] <= p[1]
    BY <1>1, <2>4
  <2> QED
    BY <2>2, <2>4, <2>5, <2>6, <2>7 DEF m
<1>3. CASE ~(r = <<>> \/ p[1] > Last(r)[2] + 1)
  <2> DEFINE a == r[n][1]
             e == r[n][2]
             top == Max({e, p[2]})
  <2>1. n >= 1 /\ n \in DOMAIN r /\ r[n] \in Nat \X Nat
    BY <1>1, <1>3
  <2>2. a \in Nat /\ e \in Nat /\ a <= p[1] /\ p[1] <= e + 1
    BY <1>1, <1>3, <2>1 DEF Last
  <2>3. top \in Nat /\ e <= top /\ p[2] <= top
    <3>1. \E k \in Nat : e <= k /\ p[2] <= k
      <4>1. e + p[2] \in Nat /\ e <= e + p[2] /\ p[2] <= e + p[2]
        BY <1>1, <2>2
      <4> QED
        BY <4>1
    <3>2. PICK k \in Nat : {e, p[2]} \in SUBSET (0 .. k)
      BY <1>1, <2>2, <3>1
    <3>3. top \in {e, p[2]} /\ \A y \in {e, p[2]} : y <= top
      BY <3>2, Greatest
    <3> HIDE DEF top
    <3> QED
      BY <1>1, <2>2, <3>3
  <2>4. m = [r EXCEPT ![n] = <<a, top>>]
    BY <1>3, <2>1 DEF Merge
  <2> HIDE DEF top, a, e
  <2>5. m \in Seq(Nat \X Nat) /\ Len(m) = n /\ m[n] = <<a, top>> /\ DOMAIN m = 1 .. n
    BY <1>1, <2>1, <2>2, <2>3, <2>4
  <2>6. \A i \in 1 .. n : i # n => m[i] = r[i]
    BY <1>1, <2>4
  <2>7. m # <<>> /\ Last(m)[1] <= p[1]
    BY <1>1, <2>1, <2>2, <2>5 DEF Last
  <2> HIDE DEF m
  <2>8. ASSUME NEW x \in p[1] .. p[2] PROVE Covered(m, x)
    <3>1. x \in a .. top
      BY <1>1, <2>2, <2>3
    <3>2. n \in DOMAIN m /\ m[n][1] = a /\ m[n][2] = top
      BY <1>1, <2>1, <2>5
    <3> QED
      BY <3>1, <3>2, Zenon DEF Covered
  <2>9. ASSUME NEW x, Covered(r, x) PROVE Covered(m, x)
    <3>1. PICK i \in 1 .. n : x \in r[i][1] .. r[i][2]
      BY <1>1, <2>9 DEF Covered
    <3>2. CASE i = n
      <4>1. x \in a .. e
        BY <3>1, <3>2 DEF a, e
      <4>2. x \in a .. top
        BY <2>2, <2>3, <4>1
      <4>3. n \in DOMAIN m /\ m[n][1] = a /\ m[n][2] = top
        BY <1>1, <2>1, <2>5
      <4> QED
        BY <4>2, <4>3, Zenon DEF Covered
    <3>3. CASE i # n
      BY <2>5, <2>6, <3>1, <3>3 DEF Covered
    <3> QED
      BY <3>2, <3>3
  <2> QED
    BY <2>5, <2>7, <2>8, <2>9 DEF m
<1> QED
  BY <1>2, <1>3

\* All lines of all parts are delivered.
LEMMA DeliversAll ==
  ASSUME NEW parts \in SUBSET (Nat \X Nat), IsFiniteSet(parts),
         NEW p \in parts, NEW x \in p[1] .. p[2]
  PROVE  x \in Delivered(parts)
<1> DEFINE S == {q \in parts : q[1] <= q[2]}
           s == Sorted(S)
           m == Merged(s)
           N == Len(s)
<1>1. S \in SUBSET (Nat \X Nat) /\ IsFiniteSet(S)
  BY FS_Subset
<1>2. /\ s \in Seq(S) /\ N \in Nat /\ DOMAIN s = 1 .. N
      /\ \A y \in S : \E i \in DOMAIN s : s[i] = y
      /\ \A i, j \in DOMAIN s : i < j => s[i][1] <= s[j][1]
  <2> HIDE DEF S
  <2> QED
    BY <1>1, SortedIs
<1>3. p \in S
  <2>1. p[1] \in Nat /\ p[2] \in Nat
    OBVIOUS
  <2> QED
    BY <2>1
<1> HIDE DEF S
<1>4. \A k \in 1 .. N : s[k] \in Nat \X Nat
  BY <1>1, <1>2
<1> HIDE DEF s
<1>5. \A k \in 0 .. N : m[k] = IF k = 0 THEN <<>> ELSE Merge(m[k - 1], s[k])
  <2>1. m = [k \in 0 .. N |-> IF k = 0 THEN <<>> ELSE Merge(m[k - 1], s[k])]
    BY <1>2, MergedIs
  <2> HIDE DEF m, N
  <2> QED
    BY <2>1
<1> HIDE DEF m, N
<1> DEFINE Good(k) ==
      /\ m[k] \in Seq(Nat \X Nat)
      /\ k # 0 => m[k] # <<>> /\ Last(m[k])[1] <= s[k][1]
      /\ k = 0 => m[k] = <<>>
      /\ \A i \in 1 .. k : \A y \in s[i][1] .. s[i][2] : Covered(m[k], y)
<1>6. \A k \in 0 .. N : Good(k)
  <2> DEFINE Bad == {k \in 0 .. N : ~Good(k)}
  <2> SUFFICES ASSUME Bad # {} PROVE FALSE
    OBVIOUS
  <2>1. Bad \in SUBSET Nat
    BY <1>2
  <2>2. PICK k \in Bad : \A y \in Bad : k <= y
    <3> HIDE DEF Bad
    <3> QED
      BY <2>1, Smallest
  <2>3. k \in 0 .. N /\ ~Good(k)
    BY <2>2
  <2>4. Good(0)
    <3>1. m[0] = <<>>
      BY <1>2, <1>5
    <3> QED
      BY <3>1
  <2>5. k # 0 /\ k \in Nat /\ k - 1 \in 0 .. N /\ k \in 1 .. N
    <3> HIDE DEF Good
    <3> QED
      BY <1>2, <2>3, <2>4
  <2>6. k - 1 \notin Bad
    <3> HIDE DEF Bad
    <3>1. ~(k <= k - 1)
      BY <2>5
    <3> QED
      BY <2>2, <3>1
  <2>7. Good(k - 1)
    BY <2>5, <2>6
  <2>8. m[k] = Merge(m[k - 1], s[k]) /\ s[k] \in Nat \X Nat
    BY <1>4, <1>5, <2>3, <2>5
  <2>9. m[k - 1] # <<>> => Last(m[k - 1])[1] <= s[k][1]
    <3> SUFFICES ASSUME m[k - 1] # <<>> PROVE Last(m[k - 1])[1] <= s[k][1]
      OBVIOUS
    <3>1. k - 1 # 0 /\ Last(m[k - 1])[1] <= s[k - 1][1]
      BY <2>7
    <3>2. k - 1 \in 1 .. N /\ k - 1 < k
      BY <1>2, <2>5, <3>1
    <3>3. s[k - 1][1] <= s[k][1] /\ s[k - 1] \in Nat \X Nat
      BY <1>2, <1>4, <2>5, <3>2
    <3>4. Last(m[k - 1])[1] \in Nat
      <4>1. m[k - 1] \in Seq(Nat \X Nat)
        BY <2>7
      <4>2. Last(m[k - 1]) \in Nat \X Nat
        BY <4>1 DEF Last
      <4> QED
        BY <4>2
    <3> QED
      BY <2>8, <3>1, <3>3, <3>4
  <2>10. /\ m[k] \in Seq(Nat \X Nat) /\ m[k] # <<>> /\ Last(m[k])[1] <= s[k][1]
         /\ \A y \in s[k][1] .. s[k][2] : Covered(m[k], y)
         /\ \A y : Covered(m[k - 1], y) => Covered(m[k], y)
    <3>1. m[k - 1] \in Seq(Nat \X Nat)
      BY <2>7
    <3>2. /\ Merge(m[k - 1], s[k]) \in Seq(Nat \X Nat) /\ Merge(m[k - 1], s[k]) # <<>>
          /\ Last(Merge(m[k - 1], s[k]))[1] <= s[k][1]
          /\ \A y \in s[k][1] .. s[k][2] : Covered(Merge(m[k - 1], s[k]), y)
          /\ \A y : Covered(m[k - 1], y) => Covered(Merge(m[k - 1], s[k]), y)
      <4> HIDE DEF Good
      <4> QED
        BY <2>8, <2>9, <3>1, MergeCovers, Zenon
    <3> QED
      BY <2>8, <3>2, Zenon
  <2>11. ASSUME NEW i \in 1 .. k, NEW y \in s[i][1] .. s[i][2] PROVE Covered(m[k], y)
    <3>1. CASE i = k
      BY <2>10, <3>1
    <3>2. CASE i # k
      <4>1. i \in 1 .. k - 1
        BY <2>5, <3>2
      <4> QED
        BY <2>7, <2>10, <4>1
    <3> QED
      BY <3>1, <3>2
  <2> QED
    BY <2>3, <2>5, <2>10, <2>11
<1>7. PICK i \in 1 .. N : s[i] = p
  BY <1>2, <1>3
<1>8. Covered(m[N], x)
  <2>1. N \in 0 .. N
    BY <1>2
  <2> QED
    BY <1>6, <1>7, <2>1
<1>9. m[N] = Fragments(parts)
  BY Zenon DEF Fragments, m, s, S, N
<1>10. PICK j \in DOMAIN Fragments(parts) :
         x \in Fragments(parts)[j][1] .. Fragments(parts)[j][2]
  BY <1>8, <1>9 DEF Covered
<1> QED
  BY <1>10, Zenon DEF Delivered, ToSet

-----------------------------------------------------------------------------
(* A delta and the blocks it leaves out *)

\* A section ends before the next heading that is no deeper.
LEMMA EndIs ==
  ASSUME NEW b, Headed(b), NEW i \in DOMAIN b
  PROVE  /\ Len(b) \in Nat /\ DOMAIN b = 1 .. Len(b) /\ End(b, i) \in i .. Len(b)
         /\ \A k \in DOMAIN b :
              i <= k /\ (\A j \in i + 1 .. k : b[j].level > b[i].level) => k <= End(b, i)
<1>1. Len(b) \in Nat /\ DOMAIN b = 1 .. Len(b)
  BY DEF Headed
<1> DEFINE after == {j \in i + 1 .. Len(b) : b[j].level <= b[i].level}
<1>2. CASE after = {}
  <2>1. End(b, i) = Len(b)
    BY <1>2 DEF End
  <2> QED
    BY <1>1, <2>1
<1>3. CASE after # {}
  <2>1. after \in SUBSET Nat
    BY <1>1
  <2>2. Min(after) \in after /\ End(b, i) = Min(after) - 1
    <3> HIDE DEF after
    <3>1. Min(after) \in after
      BY <1>3, <2>1, Smallest
    <3>2. End(b, i) = Min(after) - 1
      BY <1>3, Zenon DEF End, after
    <3> QED
      BY <3>1, <3>2
  <2> DEFINE m == Min(after)
  <2>3. m \in i + 1 .. Len(b) /\ b[m].level <= b[i].level
    BY <2>2
  <2>4. End(b, i) = m - 1
    BY <2>2
  <2> HIDE DEF m, after
  <2>5. b[m].level \in 1 .. 6 /\ b[i].level \in 1 .. 6
    BY <1>1, <2>3 DEF Headed
  <2>6. ASSUME NEW k \in DOMAIN b, \A j \in i + 1 .. k : b[j].level > b[i].level
        PROVE  k <= End(b, i)
    <3>1. ~(m \in i + 1 .. k)
      BY <2>3, <2>5, <2>6
    <3> QED
      BY <1>1, <2>3, <2>4, <3>1
  <2> QED
    BY <1>1, <2>3, <2>4, <2>6
<1> QED
  BY <1>2, <1>3

LEMMA AtIs ==
  ASSUME NEW b, NEW a \in Anchors(b)
  PROVE  At(b, a) \in DOMAIN b /\ b[At(b, a)].anchor = a
BY DEF Anchors, At

LEMMA NavigationIs ==
  ASSUME NEW b, Headed(b)
  PROVE  /\ NavigationEnd(b) \in 0 .. Len(b)
         /\ \A i \in H2(b) : b[i].anchor \in extend => End(b, i) <= NavigationEnd(b)
         /\ H2(b) = {} => NavigationEnd(b) = Len(b)
         /\ \A i \in 1 .. Len(b) : (\A j \in H2(b) : i < j) => i <= NavigationEnd(b)
<1> DEFINE matching == {i \in H2(b) : b[i].anchor \in extend}
           ends == {End(b, i) : i \in matching}
<1>1. Len(b) \in Nat /\ DOMAIN b = 1 .. Len(b)
  BY DEF Headed
<1>2. H2(b) \subseteq 1 .. Len(b)
  BY <1>1 DEF H2
<1>3. \A i \in H2(b) : End(b, i) \in i .. Len(b)
  BY <1>1, <1>2, EndIs
<1>4. CASE matching # {}
  <2>1. ends \in SUBSET (0 .. Len(b))
    BY <1>1, <1>2, <1>3
  <2>2. ends # {}
    <3>1. PICK i \in matching : TRUE
      BY <1>4
    <3>2. End(b, i) \in ends
      BY <3>1
    <3> QED
      BY <3>2
  <2>3. Max(ends) \in ends /\ \A y \in ends : y <= Max(ends)
    <3> HIDE DEF ends
    <3> QED
      BY <1>1, <2>1, <2>2, Greatest
  <2>4. NavigationEnd(b) = Max(ends)
    BY <1>4, Zenon DEF NavigationEnd
  <2>5. PICK m \in matching : NavigationEnd(b) = End(b, m)
    BY <2>3, <2>4
  <2>6. \A i \in matching : End(b, i) <= NavigationEnd(b)
    BY <2>3, <2>4
  <2>7. ASSUME NEW i \in 1 .. Len(b), \A j \in H2(b) : i < j PROVE i <= NavigationEnd(b)
    <3>1. i < m /\ NavigationEnd(b) \in m .. Len(b)
      BY <1>3, <2>5, <2>7
    <3> QED
      BY <1>1, <1>2, <3>1
  <2>8. NavigationEnd(b) \in 0 .. Len(b)
    BY <1>1, <1>2, <1>3, <2>5
  <2> QED
    BY <1>4, <2>6, <2>7, <2>8
<1>5. CASE matching = {} /\ H2(b) = {}
  <2>1. NavigationEnd(b) = Len(b)
    BY <1>5 DEF NavigationEnd
  <2> QED
    BY <1>1, <1>5, <2>1
<1>6. CASE matching = {} /\ H2(b) # {}
  <2>1. NavigationEnd(b) = Min(H2(b)) - 1
    BY <1>6, Zenon DEF NavigationEnd
  <2>2. Min(H2(b)) \in H2(b)
    <3>1. H2(b) \in SUBSET Nat
      BY <1>1, <1>2
    <3> QED
      BY <1>6, <3>1, Smallest
  <2>3. ASSUME NEW i \in 1 .. Len(b), \A j \in H2(b) : i < j PROVE i <= NavigationEnd(b)
    BY <1>1, <1>2, <2>1, <2>2, <2>3
  <2>4. NavigationEnd(b) \in 0 .. Len(b)
    BY <1>1, <1>2, <2>1, <2>2
  <2> QED
    BY <1>6, <2>3, <2>4
<1> QED
  BY <1>4, <1>5, <1>6

\* What a packet asks to be delivered are parts of the document.
LEMMA PartsAre ==
  ASSUME NEW b, Headed(b), NEW changed \in SUBSET DOMAIN b, NEW asked \in SUBSET Anchors(b),
         NEW kind, NEW removed
  PROVE  LET parts == Served(kind, b, changed, removed, asked).parts IN
         parts \in SUBSET (Nat \X Nat) /\ IsFiniteSet(parts)
<1> DEFINE parts == Served(kind, b, changed, removed, asked).parts
           I == (changed \cap H2(b)) \cup {At(b, a) : a \in asked}
<1>1. Len(b) \in Nat /\ DOMAIN b = 1 .. Len(b)
  BY DEF Headed
<1>2. I \subseteq 1 .. Len(b)
  BY <1>1, AtIs
<1>3. \A p \in parts : p = <<1, NavigationEnd(b)>> \/ \E i \in I : p = <<i, End(b, i)>>
  BY DEF Served
<1> HIDE DEF parts, I
<1>4. \A i \in I : End(b, i) \in 0 .. Len(b)
  BY <1>1, <1>2, EndIs
<1>5. NavigationEnd(b) \in 0 .. Len(b)
  BY NavigationIs
<1>6. parts \subseteq (0 .. Len(b) + 1) \X (0 .. Len(b))
  BY <1>1, <1>2, <1>3, <1>4, <1>5
<1>7. IsFiniteSet(0 .. Len(b) + 1) /\ IsFiniteSet(0 .. Len(b))
  BY <1>1, FS_Interval
<1>8. IsFiniteSet((0 .. Len(b) + 1) \X (0 .. Len(b)))
  BY <1>7, FS_Product
<1>9. IsFiniteSet(parts)
  BY <1>6, <1>8, FS_Subset
<1>10. parts \subseteq Nat \X Nat
  BY <1>1, <1>6
<1> QED
  BY <1>9, <1>10 DEF parts

\* A block that is not delivered stands in a section that has not changed.
LEMMA LeftOut ==
  ASSUME NEW b, Headed(b), OneTitle(b), NEW changed \in SUBSET DOMAIN b,
         NEW asked \in SUBSET Anchors(b), NEW kind, NEW removed, kind # "unchanged",
         NEW i \in DOMAIN b,
         i \notin Delivered(Served(kind, b, changed, removed, asked).parts)
  PROVE  \E j \in DOMAIN b : j \notin changed /\ i \in j .. End(b, j)
<1> DEFINE parts == Served(kind, b, changed, removed, asked).parts
<1>1. Len(b) \in Nat /\ DOMAIN b = 1 .. Len(b) /\ H2(b) \subseteq 1 .. Len(b)
  BY DEF Headed, H2
<1>2. parts \in SUBSET (Nat \X Nat) /\ IsFiniteSet(parts)
  BY PartsAre
<1>3. \A p \in parts : i \notin p[1] .. p[2]
  <2> HIDE DEF parts
  <2>1. i \notin Delivered(parts)
    BY DEF parts
  <2> QED
    BY <1>2, <2>1, DeliversAll
<1>4. ~(i <= NavigationEnd(b))
  <2>1. <<1, NavigationEnd(b)>> \in parts
    BY DEF Served
  <2>2. i \notin 1 .. NavigationEnd(b)
    <3> HIDE DEF parts
    <3> QED
      BY <1>3, <2>1
  <2> QED
    BY <1>1, <2>2, NavigationIs
<1> DEFINE earlier == {j \in H2(b) : j <= i}
<1>5. earlier # {} /\ earlier \in SUBSET (0 .. Len(b))
  <2>1. ~(\A j \in H2(b) : i < j)
    BY <1>1, <1>4, NavigationIs
  <2> QED
    BY <1>1, <2>1
<1>6. Max(earlier) \in earlier /\ \A y \in earlier : y <= Max(earlier)
  <2> HIDE DEF earlier
  <2> QED
    BY <1>1, <1>5, Greatest
<1> DEFINE j == Max(earlier)
<1>7. j \in H2(b) /\ j <= i /\ \A k \in H2(b) : k <= i => k <= j
  BY <1>6
<1> HIDE DEF j
<1>8. j \in 1 .. Len(b) /\ b[j].level = 2
  BY <1>1, <1>7 DEF H2
<1>9. \A k \in j + 1 .. i : b[k].level > b[j].level
  <2> SUFFICES ASSUME NEW k \in j + 1 .. i PROVE b[k].level > 2
    BY <1>8
  <2>1. k \in DOMAIN b /\ k \in Nat /\ k > j /\ k <= i
    BY <1>1, <1>8
  <2>2. b[k].level \in 1 .. 6
    BY <2>1 DEF Headed
  <2>3. b[k].level # 2
    BY <1>1, <1>7, <1>8, <2>1 DEF H2
  <2>4. b[k].level # 1
    BY <1>7, <1>8, <2>1 DEF OneTitle
  <2> QED
    BY <2>2, <2>3, <2>4
<1>10. i <= End(b, j) /\ End(b, j) \in j .. Len(b)
  BY <1>1, <1>7, <1>8, <1>9, EndIs
<1>11. b[j].anchor \notin extend
  <2>1. NavigationEnd(b) \in 0 .. Len(b)
    BY NavigationIs
  <2>2. b[j].anchor \in extend => End(b, j) <= NavigationEnd(b)
    BY <1>7, NavigationIs
  <2> QED
    BY <1>1, <1>4, <1>10, <2>1, <2>2
<1>12. i \in j .. End(b, j)
  BY <1>1, <1>7, <1>8, <1>10
<1>13. j \notin changed
  <2> SUFFICES ASSUME j \in changed PROVE FALSE
    OBVIOUS
  <2>1. <<j, End(b, j)>> \in parts
    BY <1>7, <1>11 DEF Served
  <2> HIDE DEF parts
  <2> QED
    BY <1>3, <1>12, <2>1
<1> QED
  BY <1>1, <1>8, <1>12, <1>13

\* The blocks of a section that has not changed stand in the generation.
LEMMA SameSection ==
  ASSUME NEW b, Headed(b), NEW old, Headed(old), NEW j \in DOMAIN b, NEW k \in DOMAIN old,
         Section(old, k) = Section(b, j), NEW i \in j .. End(b, j)
  PROVE  \E l \in DOMAIN old : old[l] = b[i]
<1>1. Len(b) \in Nat /\ DOMAIN b = 1 .. Len(b) /\ End(b, j) \in j .. Len(b)
  BY EndIs
<1>2. Len(old) \in Nat /\ DOMAIN old = 1 .. Len(old) /\ End(old, k) \in k .. Len(old)
  BY EndIs
<1> DEFINE e == End(b, j)
           f == End(old, k)
<1>3. /\ Len(SubSeq(b, j, e)) = e - j + 1 /\ Len(SubSeq(old, k, f)) = f - k + 1
      /\ \A x \in 1 .. e - j + 1 : SubSeq(b, j, e)[x] = b[j + x - 1]
      /\ \A x \in 1 .. f - k + 1 : SubSeq(old, k, f)[x] = old[k + x - 1]
  <2>1. e \in j .. Len(b) /\ f \in k .. Len(old)
    BY <1>1, <1>2 DEF e, f
  <2> HIDE DEF e, f
  <2>2. \A x \in j .. e : b[x] \in {b[y] : y \in DOMAIN b}
    BY <1>1, <2>1
  <2>3. \A x \in k .. f : old[x] \in {old[y] : y \in DOMAIN old}
    BY <1>2, <2>1
  <2>4. j \in Int /\ e \in Int /\ k \in Int /\ f \in Int /\ j <= e /\ k <= f
    BY <1>1, <1>2, <2>1
  <2>5. /\ Len(SubSeq(b, j, e)) = e - j + 1
        /\ \A x \in 1 .. e - j + 1 : SubSeq(b, j, e)[x] = b[j + x - 1]
    BY <2>2, <2>4, SubSeqProperties
  <2>6. /\ Len(SubSeq(old, k, f)) = f - k + 1
        /\ \A x \in 1 .. f - k + 1 : SubSeq(old, k, f)[x] = old[k + x - 1]
    BY <2>3, <2>4, SubSeqProperties
  <2> QED
    BY <2>5, <2>6
<1>4. SubSeq(b, j, e) = SubSeq(old, k, f)
  BY DEF Section
<1> HIDE DEF e, f
<1>5. e \in j .. Len(b) /\ f \in k .. Len(old) /\ i \in j .. e
  BY <1>1, <1>2 DEF e, f
<1>6. e - j + 1 = f - k + 1
  BY <1>3, <1>4
<1> DEFINE x == i - j + 1
<1>7. x \in 1 .. e - j + 1 /\ x \in Nat /\ j + x - 1 = i
  BY <1>1, <1>5
<1>8. x \in 1 .. f - k + 1
  BY <1>6, <1>7
<1> HIDE DEF x
<1>9. k + x - 1 \in DOMAIN old
  BY <1>2, <1>5, <1>7, <1>8
<1>10. SubSeq(b, j, e)[x] = b[i] /\ SubSeq(old, k, f)[x] = old[k + x - 1]
  BY <1>3, <1>7, <1>8
<1> QED
  BY <1>4, <1>9, <1>10

Holds(t) == DOMAIN t = Docs /\ \A d \in Docs : t[d] \in Versions[d]

\* What a delta delivers of a document, with what the generation has of it, is
\* the document.
LEMMA PlanCompletes ==
  ASSUME Documents, Holds(tree), NEW d \in Docs, tree[d] # None,
         cmd.base # None, Holds(cmd.base.tree),
         \A x \in cmd.query.include : x[1] = d => x[2] \in Anchors(tree[d].blocks)
  PROVE  LET b == tree[d].blocks
             old == cmd.base.tree[d] IN
         /\ OneTitle(b) => \A i \in DOMAIN b :
              i \notin Delivered(Plan(d).parts) =>
                old # None /\ \E j \in DOMAIN old.blocks : old.blocks[j] = b[i]
         /\ Plan(d).kind = "unchanged" => old = tree[d]
         /\ old # None => Plan(d).removed = Anchors(old.blocks) \ Anchors(b)
<1> DEFINE b == tree[d].blocks
           old == cmd.base.tree[d]
           asked == {x[2] : x \in {y \in cmd.query.include : y[1] = d}}
<1>1. Headed(b) /\ (old # None => Headed(old.blocks))
  BY DEF Documents, Holds
<1>2. asked \in SUBSET Anchors(b)
  OBVIOUS
<1>3. CASE old = None
  <2> DEFINE changed == Changed(b, <<>>)
  <2>1. Plan(d) = Served("new", b, changed, {}, asked)
    BY <1>3, Zenon DEF Plan
  <2>2. changed = DOMAIN b
    <3>1. Anchors(<<>>) = {}
      BY DEF Anchors
    <3> QED
      BY <3>1 DEF Changed
  <2> HIDE DEF asked, changed
  <2>3. Plan(d).kind = "new"
    BY <2>1 DEF Served
  <2>4. ASSUME OneTitle(b), NEW i \in DOMAIN b, i \notin Delivered(Plan(d).parts) PROVE FALSE
    <3>1. \E j \in DOMAIN b : j \notin changed /\ i \in j .. End(b, j)
      <4> HIDE DEF b
      <4> QED
        BY <1>1, <1>2, <2>1, <2>2, <2>4, LeftOut
    <3> QED
      BY <2>2, <3>1
  <2> QED
    BY <1>3, <2>3, <2>4
<1>4. CASE old # None /\ old = tree[d]
  <2>1. Plan(d) = Served("unchanged", b, {}, {}, asked)
    BY <1>4, Zenon DEF Plan
  <2>2. Plan(d).removed = {}
    BY <2>1 DEF Served
  <2> QED
    BY <1>4, <2>2
<1>5. CASE old # None /\ old # tree[d]
  <2> DEFINE changed == Changed(b, old.blocks)
             removed == Removed(b, old.blocks)
  <2>1. Plan(d) = Served("changed", b, changed, removed, asked)
    BY <1>5, Zenon DEF Plan
  <2>2. changed \in SUBSET DOMAIN b
    BY DEF Changed
  <2>3. Plan(d).kind = "changed" /\ Plan(d).removed = Anchors(old.blocks) \ Anchors(b)
    BY <2>1 DEF Served, Removed
  <2>4. ASSUME OneTitle(b), NEW i \in DOMAIN b, i \notin Delivered(Plan(d).parts)
        PROVE  \E l \in DOMAIN old.blocks : old.blocks[l] = b[i]
    <3>1. PICK j \in DOMAIN b : j \notin changed /\ i \in j .. End(b, j)
      <4> HIDE DEF b, changed, removed, asked
      <4> QED
        BY <1>1, <1>2, <2>1, <2>2, <2>4, LeftOut
    <3> DEFINE k == At(old.blocks, b[j].anchor)
    <3>2. b[j].anchor \in Anchors(old.blocks) /\ Section(old.blocks, k) = Section(b, j)
      BY <3>1 DEF Changed
    <3>3. k \in DOMAIN old.blocks
      BY <3>2, AtIs
    <3> HIDE DEF k, b, old
    <3> QED
      BY <1>1, <1>5, <3>1, <3>2, <3>3, SameSection
  <2> QED
    BY <1>5, <2>3, <2>4
<1> QED
  BY <1>3, <1>4, <1>5

-----------------------------------------------------------------------------
(* The documents within a number of steps *)

Widens(f, n, q) ==
  f = [k \in 0 .. n |-> IF k = 0 THEN {q.target}
                        ELSE f[k - 1] \cup UNION {Peers(q, d) : d \in f[k - 1]}]

\* The sets of documents within k steps exist, by induction on the depth.
LEMMA WithinIs ==
  ASSUME NEW q, q.depth \in Nat
  PROVE  Within(q) = [k \in 0 .. q.depth |->
                        IF k = 0 THEN {q.target}
                        ELSE Within(q)[k - 1] \cup UNION {Peers(q, d) : d \in Within(q)[k - 1]}]
<1> DEFINE Next1(S) == S \cup UNION {Peers(q, d) : d \in S}
           Bad == {n \in Nat : ~ \E f : Widens(f, n, q)}
<1>1. Bad = {}
  <2> SUFFICES ASSUME Bad # {} PROVE FALSE
    OBVIOUS
  <2>1. PICK n \in Bad : \A y \in Bad : n <= y
    BY Smallest
  <2>2. n # 0
    <3> DEFINE f == [k \in 0 .. 0 |-> {q.target}]
    <3>1. Widens(f, 0, q)
      BY DEF Widens
    <3> QED
      BY <2>1, <3>1
  <2>3. n - 1 \in Nat /\ n - 1 \notin Bad
    <3> HIDE DEF Bad
    <3>1. n \in Nat
      BY <2>1 DEF Bad
    <3>2. n - 1 \in Nat /\ ~(n <= n - 1)
      BY <2>2, <3>1
    <3> QED
      BY <2>1, <3>2
  <2>4. PICK f : Widens(f, n - 1, q)
    BY <2>3
  <2> DEFINE g == [k \in 0 .. n |-> IF k = n THEN Next1(f[n - 1]) ELSE f[k]]
  <2>5. n \in Nat
    BY <2>3
  <2>6. \A k \in 0 .. n - 1 : f[k] = IF k = 0 THEN {q.target} ELSE Next1(f[k - 1])
    BY <2>4 DEF Widens
  <2> HIDE DEF Next1
  <2>7. ASSUME NEW k \in 0 .. n PROVE g[k] = IF k = 0 THEN {q.target} ELSE Next1(g[k - 1])
    <3>1. CASE k = n
      <4>1. k # 0 /\ k - 1 \in 0 .. n /\ k - 1 # n
        BY <2>2, <2>5, <3>1
      <4>2. g[k - 1] = f[k - 1] /\ g[k] = Next1(f[k - 1])
        BY <3>1, <4>1
      <4> QED
        BY <4>1, <4>2
    <3>2. CASE k # n
      <4>1. k \in 0 .. n - 1 /\ g[k] = f[k]
        BY <2>5, <3>2
      <4>2. CASE k = 0
        BY <2>6, <4>1, <4>2
      <4>3. CASE k # 0
        <5>1. k - 1 \in 0 .. n /\ k - 1 # n
          BY <2>5, <4>1, <4>3
        <5>2. g[k - 1] = f[k - 1]
          BY <5>1
        <5> QED
          BY <2>6, <4>1, <4>3, <5>2
      <4> QED
        BY <4>2, <4>3
    <3> QED
      BY <3>1, <3>2
  <2>8. Widens(g, n, q)
    <3>1. g = [k \in 0 .. n |-> g[k]]
      OBVIOUS
    <3> HIDE DEF g
    <3>2. g = [k \in 0 .. n |-> IF k = 0 THEN {q.target} ELSE Next1(g[k - 1])]
      BY <2>7, <3>1
    <3> QED
      BY <3>2 DEF Widens, Next1
  <2> HIDE DEF g
  <2> QED
    BY <2>1, <2>8
<1>2. \E f : Widens(f, q.depth, q)
  BY <1>1
<1>3. Widens(Within(q), q.depth, q)
  BY <1>2, Zenon DEF Within, Widens
<1> QED
  BY <1>3, Zenon DEF Widens

\* The first set is the target, and each adds the neighbours of the last.
LEMMA WithinSteps ==
  ASSUME NEW q, q.depth \in Nat
  PROVE  /\ Within(q)[0] = {q.target}
         /\ \A k \in 1 .. q.depth : \A x :
              x \in Within(q)[k] <=>
                x \in Within(q)[k - 1] \/ \E y \in Within(q)[k - 1] : x \in Peers(q, y)
         /\ \A j, k \in 0 .. q.depth : j <= k => Within(q)[j] \subseteq Within(q)[k]
<1> DEFINE near == Within(q)
           D == q.depth
<1>1. \A k \in 0 .. D : near[k] = IF k = 0 THEN {q.target}
                       ELSE near[k - 1] \cup UNION {Peers(q, d) : d \in near[k - 1]}
  <2>1. near = [k \in 0 .. D |-> IF k = 0 THEN {q.target}
                       ELSE near[k - 1] \cup UNION {Peers(q, d) : d \in near[k - 1]}]
    BY WithinIs
  <2> HIDE DEF near
  <2> QED
    BY <2>1
<1> HIDE DEF near
<1>2. near[0] = {q.target}
  <2>1. 0 \in 0 .. D
    OBVIOUS
  <2> QED
    BY <1>1, <2>1, Zenon
<1>3. ASSUME NEW k \in 1 .. D, NEW x
      PROVE  x \in near[k] <=> x \in near[k - 1] \/ \E y \in near[k - 1] : x \in Peers(q, y)
  <2>1. k \in 0 .. D /\ k # 0
    OBVIOUS
  <2>2. near[k] = near[k - 1] \cup UNION {Peers(q, d) : d \in near[k - 1]}
    BY <1>1, <2>1, Zenon
  <2> QED
    BY <2>2
<1>4. ASSUME NEW j \in 0 .. D PROVE \A k \in 0 .. D : j <= k => near[j] \subseteq near[k]
  <2> DEFINE Bad == {k \in 0 .. D : j <= k /\ ~(near[j] \subseteq near[k])}
  <2> SUFFICES ASSUME Bad # {} PROVE FALSE
    OBVIOUS
  <2>1. PICK k \in Bad : \A y \in Bad : k <= y
    <3>1. Bad \in SUBSET Nat
      OBVIOUS
    <3> HIDE DEF Bad
    <3> QED
      BY <3>1, Smallest
  <2>2. k # j /\ k \in 1 .. D /\ k - 1 \in 0 .. D /\ j <= k - 1
    BY <2>1
  <2>3. k - 1 \notin Bad
    <3> HIDE DEF Bad
    <3> QED
      BY <2>1, <2>2
  <2>4. near[j] \subseteq near[k - 1]
    BY <2>2, <2>3
  <2>5. near[k - 1] \subseteq near[k]
    BY <1>3, <2>2
  <2> QED
    BY <2>1, <2>4, <2>5
<1> QED
  BY <1>2, <1>3, <1>4 DEF near

LEMMA PeersKnown == ASSUME NEW q, NEW d PROVE Peers(q, d) \subseteq Docs
BY DEF Peers, Candidates, Outgoing, Incoming, Present

\* A finite set of documents can be put into the queue.
LEMMA SequenceOf ==
  ASSUME NEW S, IsFiniteSet(S)
  PROVE  /\ SetToSeq(S) \in Seq(S) /\ Len(SetToSeq(S)) \in Nat
         /\ DOMAIN SetToSeq(S) = 1 .. Len(SetToSeq(S))
         /\ \A x \in S : \E i \in DOMAIN SetToSeq(S) : SetToSeq(S)[i] = x
<1>1. PICK f \in Bijection(1 .. Cardinality(S), S) : TRUE
  BY FS_CardinalityType DEF ExistsBijection
<1>2. f \in [1 .. Cardinality(S) -> S] /\ IsInjective(f)
  BY <1>1 DEF Bijection, Injection, IsInjective
<1> DEFINE s == SetToSeq(S)
<1>3. s \in [1 .. Cardinality(S) -> S] /\ IsInjective(s)
  BY <1>2, Zenon DEF SetToSeq
<1> HIDE DEF s
<1>4. \A i, j \in DOMAIN s : s[i] = s[j] => i = j
  BY <1>3 DEF IsInjective
<1> QED
  BY <1>3, <1>4, HoldsAll DEF s

-----------------------------------------------------------------------------
(* A delta is complete *)

DeltaInv ==
  /\ Holds(tree)
  /\ base # None => Holds(base.tree)
  /\ cmd.at = "select" =>
       {"at", "query", "base", "included"} \subseteq DOMAIN cmd
       /\ (cmd.base # None => Holds(cmd.base.tree))
  /\ DeltaIsComplete

LEMMA DeltaInit == ASSUME Init PROVE DeltaInv
<1>1. Holds(tree)
  BY DEF Init, Holds
<1>2. cmd.at = "idle" /\ base = None
  BY DEF Init, Idle
<1> QED
  BY <1>1, <1>2 DEF DeltaInv, DeltaIsComplete

\* What a command prints completes the generation that it was resolved with.
LEMMA EmitCompletes ==
  ASSUME Documents, DeltaInv, Emit PROVE DeltaInv'
<1>1. UNCHANGED <<tree, base>> /\ cmd.at = "select"
  BY DEF Emit
<1>2. Holds(tree) /\ (base # None => Holds(base.tree)) /\ (cmd.base # None => Holds(cmd.base.tree))
  BY <1>1 DEF DeltaInv
<1>3. Holds(tree') /\ (base' # None => Holds(base'.tree))
  BY <1>1, <1>2
<1> DEFINE included == cmd.included \cup {x[1] : x \in cmd.query.include}
<1>4. CASE cmd' = Idle
  <2>1. cmd'.at = "idle"
    BY <1>4 DEF Idle
  <2> QED
    BY <1>3, <2>1 DEF DeltaInv, DeltaIsComplete
<1>5. CASE cmd' # Idle
  <2>1. /\ included \subseteq Present(tree)
        /\ \A x \in cmd.query.include : x[2] \in Anchors(tree[x[1]].blocks)
        /\ cmd' = [at |-> "printed", query |-> cmd.query, base |-> cmd.base,
                   included |-> cmd.included, omitted |-> cmd.omitted, view |-> tree,
                   served |-> [d \in included |->
                                [kind |-> Plan(d).kind, changed |-> Plan(d).changed,
                                 removed |-> Plan(d).removed,
                                 lines |-> Delivered(Plan(d).parts)]]]
    BY <1>5, Zenon DEF Emit
  <2>2. /\ cmd'.at = "printed" /\ cmd'.base = cmd.base /\ cmd'.view = tree
        /\ DOMAIN cmd'.served = included
        /\ \A d \in included : /\ cmd'.served[d].kind = Plan(d).kind
                               /\ cmd'.served[d].removed = Plan(d).removed
                               /\ cmd'.served[d].lines = Delivered(Plan(d).parts)
    <3> HIDE DEF included
    <3> QED
      BY <2>1
  <2> HIDE DEF included
  <2>3. ASSUME cmd.base # None, NEW d \in included
        PROVE  LET b == tree[d].blocks
                   old == cmd.base.tree[d] IN
               /\ OneTitle(b) => \A i \in DOMAIN b :
                    i \notin Delivered(Plan(d).parts) =>
                      old # None /\ \E j \in DOMAIN old.blocks : old.blocks[j] = b[i]
               /\ Plan(d).kind = "unchanged" => old = tree[d]
               /\ old # None => Plan(d).removed = Anchors(old.blocks) \ Anchors(b)
    <3>1. d \in Docs /\ tree[d] # None
      BY <2>1 DEF Present
    <3>2. \A x \in cmd.query.include : x[1] = d => x[2] \in Anchors(tree[d].blocks)
      BY <2>1
    <3> QED
      BY <1>2, <2>3, <3>1, <3>2, PlanCompletes, Zenon
  <2>4. ASSUME cmd.base # None, NEW d \in included
        PROVE  /\ OneTitle(cmd'.view[d].blocks) => ~Loses(d)'
               /\ cmd'.served[d].kind = "unchanged" => cmd'.base.tree[d] = cmd'.view[d]
               /\ cmd'.base.tree[d] # None =>
                    cmd'.served[d].removed =
                      Anchors(cmd'.base.tree[d].blocks) \ Anchors(cmd'.view[d].blocks)
    <3>1. ASSUME OneTitle(tree[d].blocks), Loses(d)' PROVE FALSE
      <4>1. cmd'.view[d] = tree[d] /\ cmd'.served[d].lines = Delivered(Plan(d).parts)
            /\ cmd'.base = cmd.base
        BY <2>2
      <4>2. PICK i \in (DOMAIN cmd'.view[d].blocks) \ cmd'.served[d].lines : ~Known(d, i)'
        BY <3>1 DEF Loses
      <4>3. i \in DOMAIN tree[d].blocks /\ i \notin Delivered(Plan(d).parts)
        BY <4>1, <4>2
      <4>4. cmd.base.tree[d] # None
            /\ \E j \in DOMAIN cmd.base.tree[d].blocks :
                 cmd.base.tree[d].blocks[j] = tree[d].blocks[i]
        BY <2>3, <2>4, <3>1, <4>3, Zenon
      <4>5. Known(d, i)'
        BY <4>1, <4>4 DEF Known
      <4> QED
        BY <4>2, <4>5
    <3> QED
      BY <2>2, <2>3, <2>4, <3>1, Zenon
  <2>5. DeltaIsComplete'
    BY <2>2, <2>4, Zenon DEF DeltaIsComplete
  <2>6. cmd'.at # "select"
    BY <2>2
  <2> QED
    BY <1>3, <2>5, <2>6 DEF DeltaInv
<1> QED
  BY <1>4, <1>5

LEMMA DeltaStep ==
  ASSUME Documents, DeltaInv, [Next]_vars PROVE DeltaInv'
<1>1. ASSUME NEW q \in Queries, Start(q) PROVE DeltaInv'
  <2>1. UNCHANGED <<tree, base>>
    BY <1>1 DEF Start
  <2>2. Holds(tree') /\ (base' # None => Holds(base'.tree))
    BY <2>1 DEF DeltaInv
  <2>3. \/ cmd' = Idle
        \/ cmd' = [at |-> "select", query |-> q, base |-> IF q.since THEN base ELSE None,
                   queue |-> <<<<q.target, 0>>>>, included |-> {q.target},
                   expanded |-> {}, omitted |-> {}]
    BY <1>1, Zenon DEF Start
  <2>4. CASE cmd' = Idle
    <3>1. cmd'.at = "idle"
      BY <2>4 DEF Idle
    <3> QED
      BY <2>2, <3>1 DEF DeltaInv, DeltaIsComplete
  <2>5. CASE cmd' = [at |-> "select", query |-> q, base |-> IF q.since THEN base ELSE None,
                     queue |-> <<<<q.target, 0>>>>, included |-> {q.target},
                     expanded |-> {}, omitted |-> {}]
    <3>1. /\ cmd'.at = "select" /\ (cmd'.base # None => cmd'.base = base)
          /\ {"at", "query", "base", "included"} \subseteq DOMAIN cmd'
      BY <2>5
    <3>2. cmd'.base # None => Holds(cmd'.base.tree)
      BY <3>1 DEF DeltaInv
    <3> QED
      BY <2>2, <3>1, <3>2 DEF DeltaInv, DeltaIsComplete
  <2> QED
    BY <2>3, <2>4, <2>5
<1>2. ASSUME Expand PROVE DeltaInv'
  <2>1. UNCHANGED <<tree, base>> /\ cmd.at = "select"
    BY <1>2 DEF Expand
  <2>2. {"at", "query", "base", "included"} \subseteq DOMAIN cmd
        /\ (cmd.base # None => Holds(cmd.base.tree))
    BY <2>1 DEF DeltaInv
  <2>3. DOMAIN cmd' = DOMAIN cmd /\ cmd'.at = cmd.at /\ cmd'.base = cmd.base
    <3>1. \E a, b, c, d : \/ cmd' = [cmd EXCEPT !.queue = a]
                          \/ cmd' = [cmd EXCEPT !.queue = a, !.expanded = b, !.omitted = c]
                          \/ cmd' = [cmd EXCEPT !.queue = a, !.expanded = b, !.included = d,
                                                !.omitted = c]
      BY <1>2, Zenon DEF Expand
    <3> QED
      BY <2>2, <3>1
  <2> QED
    BY <2>1, <2>2, <2>3 DEF DeltaInv, DeltaIsComplete
<1>3. ASSUME Author PROVE DeltaInv'
  <2>1. PICK d \in Docs : \E v \in Versions[d] : tree' = [tree EXCEPT ![d] = v]
    BY <1>3, Zenon DEF Author
  <2>2. Holds(tree')
    <3>1. PICK v \in Versions[d] : tree' = [tree EXCEPT ![d] = v]
      BY <2>1
    <3> QED
      BY <3>1 DEF DeltaInv, Holds
  <2>3. UNCHANGED <<base, cmd, extend>>
    BY <1>3 DEF Author
  <2>4. DeltaIsComplete'
    BY <2>3 DEF DeltaInv, DeltaIsComplete, Loses, Known
  <2> QED
    BY <2>2, <2>3, <2>4 DEF DeltaInv
<1>4. ASSUME Configure PROVE DeltaInv'
  <2>1. UNCHANGED <<tree, base, cmd>>
    BY <1>4 DEF Configure
  <2> QED
    BY <2>1 DEF DeltaInv, DeltaIsComplete, Loses, Known, Holds
<1>5. ASSUME Index PROVE DeltaInv'
  <2>1. UNCHANGED <<tree, cmd>> /\ base'.tree = tree
    BY <1>5 DEF Index
  <2> QED
    BY <2>1 DEF DeltaInv, DeltaIsComplete, Loses, Known, Holds
<1>6. ASSUME UNCHANGED vars PROVE DeltaInv'
  BY <1>6 DEF vars, DeltaInv, DeltaIsComplete, Loses, Known, Holds
<1> QED
  BY <1>1, <1>2, <1>3, <1>4, <1>5, <1>6, EmitCompletes DEF Next

\* For any documents, whatever changes between the calls: a packet that
\* `context --since` prints gives the consumer, with the generation it names,
\* every block of every document it serves, and the anchors that are gone
\* (build_packet_plans in retrieval.py, _compact_content_delivery in cli.py).
THEOREM DeltaComplete == ASSUME Documents PROVE Spec => []DeltaIsComplete
<1>1. Init => DeltaInv
  BY DeltaInit
<1>2. DeltaInv /\ [Next]_vars => DeltaInv'
  BY DeltaStep
<1>3. DeltaInv => DeltaIsComplete
  BY DEF DeltaInv
<1> QED
  BY <1>1, <1>2, <1>3, PTL DEF Spec

-----------------------------------------------------------------------------
(* The selection: what the queue has met and what it has yet to meet *)

\* near[k] are the documents within k steps, peers[d] those next to d.
Layers(q, peers, near) ==
  /\ q.depth \in Nat /\ q.target \in Docs /\ q.view \in BOOLEAN
  /\ near[0] = {q.target}
  /\ \A k \in 1 .. q.depth : \A x :
       x \in near[k] <=> x \in near[k - 1] \/ \E y \in near[k - 1] : x \in peers[y]
  /\ \A j, k \in 0 .. q.depth : j <= k => near[j] \subseteq near[k]
  /\ \A k \in 0 .. q.depth : near[k] \subseteq Docs

Follow(q, peers, d) == peers[d] \ (IF q.view THEN {q.target} ELSE {})

\* A document is met by distance m when it has been expanded, or waits in the
\* queue at no more than m, or lies where nothing is expanded.
Met(c, p, m) ==
  \/ p \in c.expanded
  \/ \E i \in DOMAIN c.queue : c.queue[i][1] = p /\ c.queue[i][2] <= m
  \/ ~c.query.view /\ m >= c.query.depth

\* The queue is in order of distance, and no two entries are two steps apart.
Queued(c, near) ==
  /\ c.queue \in Seq(Docs \X (0 .. c.query.depth))
  /\ \A i \in DOMAIN c.queue :
       c.queue[i][1] \in near[c.queue[i][2]] /\ c.queue[i][1] \in c.included
  /\ \A i, j \in DOMAIN c.queue :
       /\ i <= j => c.queue[i][2] <= c.queue[j][2]
       /\ c.queue[j][2] <= c.queue[i][2] + 1

Included(c, near) ==
  /\ c.query.target \in c.included
  /\ c.expanded \subseteq c.included
  /\ c.included \subseteq near[c.query.depth]

\* What an expanded document leads to is included, and is met one step later.
Followed(c, peers, near) ==
  /\ Met(c, c.query.target, 0)
  /\ \A x \in c.expanded : \A j \in 0 .. c.query.depth - 1 :
       x \in near[j] => \A p \in Follow(c.query, peers, x) :
                          p \in c.included /\ Met(c, p, j + 1)

Selected(c, peers, near) ==
  Queued(c, near) /\ Included(c, near) /\ Followed(c, peers, near)

\* Everything nearer than the whole queue has been expanded.
LEMMA FrontExpanded ==
  ASSUME NEW c, NEW peers, NEW near, Layers(c.query, peers, near), Selected(c, peers, near),
         NEW m \in Nat, m <= (IF c.query.view THEN c.query.depth + 1 ELSE c.query.depth),
         \A i \in DOMAIN c.queue : ~(c.queue[i][2] < m)
  PROVE  \A j \in Nat : j < m => near[j] \subseteq c.expanded
<1> DEFINE q == c.query
           D == q.depth
           Bad == {j \in Nat : j < m /\ ~(near[j] \subseteq c.expanded)}
<1> SUFFICES ASSUME Bad # {} PROVE FALSE
  OBVIOUS
<1>1. D \in Nat
  BY DEF Layers
<1>2. PICK j \in Bad : \A y \in Bad : j <= y
  BY Smallest
<1>3. j \in Nat /\ j < m /\ ~(near[j] \subseteq c.expanded)
  BY <1>2
<1>4. \A i \in Nat : i < j => near[i] \subseteq c.expanded
  <2> SUFFICES ASSUME NEW i \in Nat, i < j PROVE i \notin Bad /\ i < m
    OBVIOUS
  <2> HIDE DEF Bad
  <2>1. ~(j <= i) /\ i < m
    BY <1>3
  <2> QED
    BY <1>2, <2>1
<1> HIDE DEF Bad
<1>5. ASSUME NEW p, NEW k \in Nat, k <= j, Met(c, p, k) PROVE p \in c.expanded
  <2>1. CASE \E i \in DOMAIN c.queue : c.queue[i][1] = p /\ c.queue[i][2] <= k
    <3>1. PICK i \in DOMAIN c.queue : c.queue[i][2] <= k
      BY <2>1
    <3>2. c.queue[i] \in Docs \X (0 .. D)
      BY <3>1 DEF Selected, Queued
    <3>3. c.queue[i][2] \in Nat
      BY <1>1, <3>2
    <3>4. ~(c.queue[i][2] < m)
      OBVIOUS
    <3> QED
      BY <1>3, <1>5, <3>1, <3>3, <3>4
  <2>2. CASE ~q.view /\ k >= D
    BY <1>1, <1>3, <1>5, <2>2
  <2> QED
    BY <1>5, <2>1, <2>2 DEF Met
<1>6. CASE j = 0
  <2>1. near[0] = {q.target} /\ Met(c, q.target, 0)
    BY DEF Layers, Selected, Followed
  <2> QED
    BY <1>3, <1>5, <1>6, <2>1
<1>7. CASE j # 0
  <2>1. j \in 1 .. D /\ j - 1 \in Nat /\ j - 1 \in 0 .. D - 1 /\ j - 1 < j /\ (j - 1) + 1 = j
    BY <1>1, <1>3, <1>7
  <2>2. near[j - 1] \subseteq c.expanded
    BY <1>4, <2>1
  <2>3. PICK x \in near[j] : x \notin c.expanded
    BY <1>3
  <2>4. x \in near[j - 1] \/ \E y \in near[j - 1] : x \in peers[y]
    BY <2>1, <2>3 DEF Layers
  <2>5. PICK y \in near[j - 1] : x \in peers[y]
    BY <2>2, <2>3, <2>4
  <2>6. CASE x \in Follow(q, peers, y)
    <3>1. Met(c, x, (j - 1) + 1)
      BY <2>1, <2>2, <2>5, <2>6 DEF Selected, Followed
    <3> QED
      BY <1>3, <1>5, <2>1, <2>3, <3>1
  <2>7. CASE x \notin Follow(q, peers, y)
    <3>1. x = q.target
      BY <2>5, <2>7 DEF Follow
    <3>2. near[0] = {q.target} /\ near[0] \subseteq c.expanded
      BY <1>3, <1>4, <1>7 DEF Layers
    <3> QED
      BY <2>3, <3>1, <3>2
  <2> QED
    BY <2>6, <2>7
<1> QED
  BY <1>6, <1>7

\* With the queue at the depth, or empty, all that is within it is included.
LEMMA Full ==
  ASSUME NEW c, NEW peers, NEW near, Layers(c.query, peers, near), Selected(c, peers, near),
         \A i \in DOMAIN c.queue : ~(c.queue[i][2] < c.query.depth)
  PROVE  c.included = near[c.query.depth]
<1> DEFINE q == c.query
           D == q.depth
<1>1. D \in Nat /\ D <= (IF q.view THEN D + 1 ELSE D)
  BY DEF Layers
<1>2. \A j \in Nat : j < D => near[j] \subseteq c.expanded
  BY <1>1, FrontExpanded
<1>3. /\ q.target \in c.included /\ c.expanded \subseteq c.included
      /\ c.included \subseteq near[D]
  BY DEF Selected, Included
<1>4. ASSUME NEW x \in near[D] PROVE x \in c.included
  <2>1. CASE D = 0
    BY <1>3, <2>1 DEF Layers
  <2>2. CASE D # 0
    <3>1. D \in 1 .. D /\ D - 1 \in Nat /\ D - 1 < D /\ D - 1 \in 0 .. D - 1
      BY <1>1, <2>2
    <3>2. near[D - 1] \subseteq c.expanded
      BY <1>2, <3>1
    <3>3. x \in near[D - 1] \/ \E y \in near[D - 1] : x \in peers[y]
      BY <3>1 DEF Layers
    <3>4. CASE \E y \in near[D - 1] : x \in peers[y]
      <4>1. PICK y \in near[D - 1] : x \in peers[y]
        BY <3>4
      <4>2. x \in Follow(q, peers, y) \/ x = q.target
        BY <4>1 DEF Follow
      <4>3. x \in Follow(q, peers, y) => x \in c.included
        BY <3>1, <3>2, <4>1 DEF Selected, Followed
      <4> QED
        BY <1>3, <4>2, <4>3
    <3> QED
      BY <1>3, <3>2, <3>3, <3>4
  <2> QED
    BY <2>1, <2>2
<1> QED
  BY <1>3, <1>4

\* A document that waits at distance k and has not been expanded is nowhere
\* nearer, when nothing in the queue is.
LEMMA NoNearer ==
  ASSUME NEW c, NEW peers, NEW near, Layers(c.query, peers, near), Selected(c, peers, near),
         NEW k \in 0 .. c.query.depth, \A i \in DOMAIN c.queue : ~(c.queue[i][2] < k),
         NEW d, d \notin c.expanded, NEW j \in Nat, d \in near[j]
  PROVE  k <= j
<1>1. k \in Nat /\ k <= (IF c.query.view THEN c.query.depth + 1 ELSE c.query.depth)
  BY DEF Layers
<1>2. \A l \in Nat : l < k => near[l] \subseteq c.expanded
  BY <1>1, FrontExpanded
<1> QED
  BY <1>1, <1>2

\* What follows the head of the queue, and where the head is.
LEMMA QueueIs ==
  ASSUME NEW c, NEW peers, NEW near, Layers(c.query, peers, near), Selected(c, peers, near),
         c.queue # <<>>
  PROVE  LET s == c.queue
             d == Head(s)[1]
             k == Head(s)[2]
             rest == Tail(s) IN
         /\ d \in Docs /\ k \in 0 .. c.query.depth /\ d \in near[k] /\ d \in c.included
         /\ \A i \in DOMAIN s : ~(s[i][2] < k)
         /\ rest \in Seq(Docs \X (0 .. c.query.depth))
         /\ DOMAIN rest = 1 .. Len(rest) /\ Len(rest) \in Nat
         /\ \A i \in DOMAIN rest : /\ i + 1 \in DOMAIN s /\ rest[i] = s[i + 1]
                                   /\ k <= rest[i][2] /\ rest[i][2] <= k + 1
         /\ \A i \in DOMAIN s : s[i] = <<d, k>> \/ \E l \in DOMAIN rest : rest[l] = s[i]
<1> DEFINE s == c.queue
           d == Head(s)[1]
           k == Head(s)[2]
           rest == Tail(s)
           D == c.query.depth
<1>1. D \in Nat
  BY DEF Layers
<1>2. s \in Seq(Docs \X (0 .. D)) /\ s # <<>>
  BY DEF Selected, Queued
<1>3. Len(s) \in Nat /\ Len(s) >= 1 /\ DOMAIN s = 1 .. Len(s) /\ 1 \in DOMAIN s
  BY <1>2
<1>4. Head(s) = s[1] /\ Head(s) = <<d, k>> /\ d \in Docs /\ k \in 0 .. D
  BY <1>2, <1>3
<1>5. /\ rest \in Seq(Docs \X (0 .. D)) /\ Len(rest) = Len(s) - 1
      /\ \A i \in 1 .. Len(rest) : rest[i] = s[i + 1]
  BY <1>2, HeadTailProperties
<1>6. /\ \A i \in DOMAIN s : s[i][1] \in near[s[i][2]] /\ s[i][1] \in c.included
      /\ \A i, j \in DOMAIN s : /\ i <= j => s[i][2] <= s[j][2]
                                /\ s[j][2] <= s[i][2] + 1
  BY DEF Selected, Queued
<1>7. \A i \in DOMAIN s : s[i][2] \in Nat
  BY <1>1, <1>2
<1> HIDE DEF s, rest, d, k
<1>8. s[1][1] = d /\ s[1][2] = k /\ k \in Nat
  BY <1>4
<1>9. d \in near[k] /\ d \in c.included
  BY <1>3, <1>6, <1>8
<1>10. \A i \in DOMAIN s : k <= s[i][2] /\ s[i][2] <= k + 1
  <2> TAKE i \in DOMAIN s
  <2>1. 1 <= i
    BY <1>3
  <2> QED
    BY <1>3, <1>6, <1>8, <2>1
<1>11. \A i \in DOMAIN s : ~(s[i][2] < k)
  BY <1>7, <1>8, <1>10
<1>12. DOMAIN rest = 1 .. Len(rest) /\ Len(rest) \in Nat
  BY <1>3, <1>5
<1>13. ASSUME NEW i \in DOMAIN rest
       PROVE  i + 1 \in DOMAIN s /\ rest[i] = s[i + 1] /\ k <= rest[i][2] /\ rest[i][2] <= k + 1
  <2>1. i + 1 \in DOMAIN s /\ rest[i] = s[i + 1]
    BY <1>3, <1>5, <1>12
  <2> QED
    BY <1>10, <2>1
<1>14. ASSUME NEW i \in DOMAIN s, s[i] # <<d, k>> PROVE \E l \in DOMAIN rest : rest[l] = s[i]
  <2>1. i # 1
    BY <1>4, <1>14
  <2>2. i - 1 \in DOMAIN rest /\ (i - 1) + 1 = i
    BY <1>3, <1>5, <1>12, <2>1
  <2> QED
    BY <1>13, <2>2
<1> QED
  BY <1>4, <1>5, <1>9, <1>11, <1>12, <1>13, <1>14 DEF s, d, k, rest

\* What has been met stays met when the head is dealt with.
LEMMA MetStays ==
  ASSUME NEW c, NEW peers, NEW near, Layers(c.query, peers, near), Selected(c, peers, near),
         c.queue # <<>>, NEW c2, c2.query = c.query, c.expanded \subseteq c2.expanded,
         \A i \in DOMAIN Tail(c.queue) : \E l \in DOMAIN c2.queue : c2.queue[l] = Tail(c.queue)[i],
         Head(c.queue)[1] \in c2.expanded \/ (~c.query.view /\ Head(c.queue)[2] >= c.query.depth),
         NEW p, NEW m \in Nat, Met(c, p, m)
  PROVE  Met(c2, p, m)
<1> DEFINE d == Head(c.queue)[1]
           k == Head(c.queue)[2]
<1>1. /\ k \in 0 .. c.query.depth /\ c.query.depth \in Nat
      /\ \A i \in DOMAIN c.queue :
           c.queue[i] = <<d, k>>
           \/ \E l \in DOMAIN Tail(c.queue) : Tail(c.queue)[l] = c.queue[i]
  BY QueueIs, Zenon DEF Layers
<1>2. CASE p \in c.expanded
  BY <1>2 DEF Met
<1>3. CASE ~c.query.view /\ m >= c.query.depth
  BY <1>3 DEF Met
<1>4. CASE \E i \in DOMAIN c.queue : c.queue[i][1] = p /\ c.queue[i][2] <= m
  <2>1. PICK i \in DOMAIN c.queue : c.queue[i][1] = p /\ c.queue[i][2] <= m
    BY <1>4
  <2>2. CASE c.queue[i] = <<d, k>>
    <3>1. p = d /\ k <= m
      BY <2>1, <2>2
    <3> HIDE DEF d, k
    <3>2. k >= c.query.depth => m >= c.query.depth
      BY <1>1, <3>1
    <3> QED
      BY <3>1, <3>2 DEF Met, d, k
  <2>3. CASE \E l \in DOMAIN Tail(c.queue) : Tail(c.queue)[l] = c.queue[i]
    <3>1. \E l \in DOMAIN c2.queue : c2.queue[l] = c.queue[i]
      BY <2>3
    <3> QED
      BY <2>1, <3>1 DEF Met
  <2> QED
    BY <1>1, <2>1, <2>2, <2>3
<1> QED
  BY <1>2, <1>3, <1>4 DEF Met

\* The head is taken, and either stays as it was or, in a view and at the
\* depth, is expanded without a neighbour.
LEMMA Taken ==
  ASSUME NEW c, NEW peers, NEW near, Layers(c.query, peers, near), Selected(c, peers, near),
         c.queue # <<>>, NEW c2, c2.query = c.query, c2.queue = Tail(c.queue),
         c2.included = c.included,
         \/ /\ c2.expanded = c.expanded
            /\ \/ Head(c.queue)[1] \in c.expanded
               \/ ~c.query.view /\ Head(c.queue)[2] >= c.query.depth
         \/ /\ c2.expanded = c.expanded \cup {Head(c.queue)[1]}
            /\ Head(c.queue)[1] \notin c.expanded /\ Head(c.queue)[2] >= c.query.depth
  PROVE  Selected(c2, peers, near)
<1> DEFINE s == c.queue
           d == Head(s)[1]
           k == Head(s)[2]
           rest == Tail(s)
           D == c.query.depth
<1>1. /\ d \in Docs /\ k \in 0 .. D /\ d \in near[k] /\ d \in c.included
      /\ \A i \in DOMAIN s : ~(s[i][2] < k)
      /\ rest \in Seq(Docs \X (0 .. D))
      /\ DOMAIN rest = 1 .. Len(rest) /\ Len(rest) \in Nat
      /\ \A i \in DOMAIN rest : i + 1 \in DOMAIN s /\ rest[i] = s[i + 1]
  BY QueueIs, Zenon
<1>2. D \in Nat
  BY DEF Layers
<1>3. /\ s \in Seq(Docs \X (0 .. D))
      /\ \A i \in DOMAIN s : s[i][1] \in near[s[i][2]] /\ s[i][1] \in c.included
      /\ \A i, j \in DOMAIN s : /\ i <= j => s[i][2] <= s[j][2]
                                /\ s[j][2] <= s[i][2] + 1
  BY DEF Selected, Queued
<1>4. Queued(c2, near)
  <2>1. \A i \in DOMAIN rest : rest[i][1] \in near[rest[i][2]] /\ rest[i][1] \in c.included
    BY <1>1, <1>3
  <2>2. ASSUME NEW i \in DOMAIN rest, NEW j \in DOMAIN rest
        PROVE  /\ i <= j => rest[i][2] <= rest[j][2]
               /\ rest[j][2] <= rest[i][2] + 1
    <3> HIDE DEF rest, s
    <3>1. i \in Nat /\ j \in Nat /\ (i <= j => i + 1 <= j + 1)
      BY <1>1
    <3> QED
      BY <1>1, <1>3, <3>1
  <2> QED
    BY <1>1, <2>1, <2>2 DEF Queued
<1>5. c.expanded \subseteq c2.expanded
  OBVIOUS
<1>6. d \in c2.expanded \/ (~c.query.view /\ k >= D)
  OBVIOUS
<1>7. \A p : \A m \in Nat : Met(c, p, m) => Met(c2, p, m)
  BY <1>5, <1>6, MetStays
<1>8. Included(c2, near)
  BY <1>1 DEF Selected, Included
<1>9. ASSUME NEW x \in c2.expanded, NEW j \in 0 .. D - 1, x \in near[j],
             NEW p \in Follow(c.query, peers, x)
      PROVE  p \in c2.included /\ Met(c2, p, j + 1)
  <2>1. j \in Nat /\ j + 1 \in Nat
    OBVIOUS
  <2>2. CASE x \in c.expanded
    BY <1>7, <1>9, <2>1, <2>2 DEF Selected, Followed
  <2>3. CASE x \notin c.expanded
    <3>1. x = d /\ k >= D
      BY <2>3
    <3>2. k <= j
      BY <1>1, <1>9, <2>1, <2>3, <3>1, NoNearer
    <3> QED
      BY <1>1, <1>2, <3>1, <3>2
  <2> QED
    BY <2>2, <2>3
<1>10. Followed(c2, peers, near)
  <2>1. Met(c2, c2.query.target, 0)
    BY <1>7 DEF Selected, Followed
  <2> QED
    BY <1>9, <2>1 DEF Followed
<1> QED
  BY <1>4, <1>8, <1>10 DEF Selected

\* The head is expanded: its neighbours are included, and wait one step behind
\* everything that waits already.
LEMMA Widened ==
  ASSUME NEW c, NEW peers, NEW near, Layers(c.query, peers, near), Selected(c, peers, near),
         c.queue # <<>>, Head(c.queue)[1] \notin c.expanded,
         Head(c.queue)[2] < c.query.depth,
         NEW F, F = Follow(c.query, peers, Head(c.queue)[1]),
         NEW new \in Seq(F \X {Head(c.queue)[2] + 1}),
         \A x \in F \X {Head(c.queue)[2] + 1} : \E i \in DOMAIN new : new[i] = x,
         NEW c2, c2.query = c.query, c2.queue = Tail(c.queue) \o new,
         c2.included = c.included \cup F,
         c2.expanded = c.expanded \cup {Head(c.queue)[1]}
  PROVE  Selected(c2, peers, near)
<1> DEFINE s == c.queue
           d == Head(s)[1]
           k == Head(s)[2]
           rest == Tail(s)
           t == c2.queue
           D == c.query.depth
<1>1. /\ d \in Docs /\ k \in 0 .. D /\ d \in near[k] /\ d \in c.included
      /\ \A i \in DOMAIN s : ~(s[i][2] < k)
      /\ rest \in Seq(Docs \X (0 .. D))
      /\ DOMAIN rest = 1 .. Len(rest) /\ Len(rest) \in Nat
      /\ \A i \in DOMAIN rest : /\ i + 1 \in DOMAIN s /\ rest[i] = s[i + 1]
                                /\ k <= rest[i][2] /\ rest[i][2] <= k + 1
  BY QueueIs, Zenon
<1>2. D \in Nat /\ k < D
  BY DEF Layers
<1>3. /\ s \in Seq(Docs \X (0 .. D))
      /\ \A i \in DOMAIN s : s[i][1] \in near[s[i][2]] /\ s[i][1] \in c.included
      /\ \A i, j \in DOMAIN s : /\ i <= j => s[i][2] <= s[j][2]
                                /\ s[j][2] <= s[i][2] + 1
  BY DEF Selected, Queued
<1> HIDE DEF s, d, k, rest, t, D
<1>4. F \subseteq near[k + 1] /\ F \subseteq near[D] /\ F \subseteq Docs /\ k + 1 \in 0 .. D
  <2>1. k + 1 \in 1 .. D /\ (k + 1) - 1 = k /\ k + 1 \in 0 .. D /\ D \in 0 .. D /\ k + 1 <= D
    BY <1>1, <1>2
  <2>2. F \subseteq peers[d]
    BY DEF Follow, d, s
  <2>3. ASSUME NEW x \in F PROVE x \in near[k + 1]
    <3>1. \E y \in near[(k + 1) - 1] : x \in peers[y]
      BY <1>1, <2>1, <2>2
    <3> QED
      BY <2>1, <3>1, Zenon DEF Layers, D
  <2>4. near[k + 1] \subseteq near[D]
    BY <2>1 DEF Layers, D
  <2>5. near[D] \subseteq Docs
    BY <2>1 DEF Layers, D
  <2> QED
    BY <2>1, <2>3, <2>4, <2>5
<1> DEFINE r == Len(rest)
           n == Len(new)
<1>5. /\ n \in Nat /\ DOMAIN new = 1 .. n
      /\ \A i \in 1 .. n : new[i][1] \in F /\ new[i][2] = k + 1 /\ new[i] \in Docs \X (0 .. D)
  <2>1. n \in Nat /\ DOMAIN new = 1 .. n /\ \A i \in 1 .. n : new[i] \in F \X {k + 1}
    BY DEF k, s
  <2> QED
    BY <1>4, <2>1
<1>6. new \in Seq(Docs \X (0 .. D))
  BY <1>5
<1> HIDE DEF n, r
<1>7. /\ t \in Seq(Docs \X (0 .. D)) /\ DOMAIN t = 1 .. r + n
      /\ \A i \in 1 .. r : t[i] = rest[i]
      /\ \A i \in 1 .. n : t[r + i] = new[i]
  <2>1. t = rest \o new
    BY DEF rest, s, t
  <2>2. /\ t \in Seq(Docs \X (0 .. D)) /\ Len(t) = r + n
        /\ \A i \in 1 .. r + n : t[i] = IF i <= r THEN rest[i] ELSE new[i - r]
    BY <1>1, <1>6, <2>1, ConcatProperties DEF r, n
  <2>3. r \in Nat /\ n \in Nat
    BY <1>1, <1>5 DEF r
  <2>4. ASSUME NEW i \in 1 .. n PROVE t[r + i] = new[i]
    <3>1. r + i \in 1 .. r + n /\ ~(r + i <= r) /\ (r + i) - r = i
      BY <2>3
    <3> QED
      BY <2>2, <3>1
  <2> QED
    BY <2>2, <2>3, <2>4
<1>8. r \in Nat /\ n \in Nat /\ DOMAIN rest = 1 .. r /\ k \in Nat
  BY <1>1, <1>2, <1>5 DEF r
<1>9. \A i \in 1 .. r + n : i \in 1 .. r \/ (i - r \in 1 .. n /\ r + (i - r) = i /\ r < i)
  BY <1>8
<1>10. \A i \in 1 .. r : /\ t[i][1] \in near[t[i][2]] /\ t[i][1] \in c.included
                         /\ k <= t[i][2] /\ t[i][2] <= k + 1 /\ t[i][2] \in Nat
  <2> TAKE i \in 1 .. r
  <2>1. t[i] = s[i + 1] /\ i + 1 \in DOMAIN s /\ k <= t[i][2] /\ t[i][2] <= k + 1
    BY <1>1, <1>7, <1>8
  <2>2. s[i + 1][2] \in Nat
    BY <1>2, <1>3, <2>1
  <2> QED
    BY <1>3, <2>1, <2>2
<1>11. \A i \in 1 .. r + n : i \in 1 .. r \/ (t[i][1] \in F /\ t[i][2] = k + 1 /\ r < i)
  <2> TAKE i \in 1 .. r + n
  <2>1. CASE i - r \in 1 .. n /\ r + (i - r) = i /\ r < i
    <3>1. t[r + (i - r)] = new[i - r]
      BY <1>7, <2>1
    <3>2. t[i] = new[i - r]
      BY <2>1, <3>1
    <3> QED
      BY <1>5, <2>1, <3>2
  <2> QED
    BY <1>9, <2>1
<1>12. Queued(c2, near)
  <2>1. \A i \in DOMAIN t : t[i][1] \in near[t[i][2]] /\ t[i][1] \in c2.included
    BY <1>4, <1>7, <1>10, <1>11
  <2>2. ASSUME NEW i \in DOMAIN t, NEW j \in DOMAIN t
        PROVE  /\ i <= j => t[i][2] <= t[j][2]
               /\ t[j][2] <= t[i][2] + 1
    <3>1. i \in 1 .. r + n /\ j \in 1 .. r + n
      BY <1>7
    <3>2. /\ k <= t[i][2] /\ t[i][2] <= k + 1 /\ t[i][2] \in Nat
          /\ k <= t[j][2] /\ t[j][2] <= k + 1 /\ t[j][2] \in Nat
      <4>1. k <= k + 1 /\ k + 1 <= k + 1 /\ k + 1 \in Nat
        BY <1>8
      <4> QED
        BY <1>10, <1>11, <3>1, <4>1
    <3>3. ASSUME i <= j PROVE t[i][2] <= t[j][2]
      <4>1. CASE i \in 1 .. r /\ j \in 1 .. r
        <5>1. t[i] = s[i + 1] /\ t[j] = s[j + 1] /\ i + 1 \in DOMAIN s /\ j + 1 \in DOMAIN s
          BY <1>1, <1>7, <1>8, <4>1
        <5>2. i + 1 <= j + 1
          BY <3>1, <3>3, <1>8
        <5> QED
          BY <1>3, <5>1, <5>2
      <4>2. CASE j \notin 1 .. r
        BY <1>11, <3>1, <3>2, <4>2
      <4>3. CASE i \notin 1 .. r /\ j \in 1 .. r
        BY <1>8, <1>11, <3>1, <3>3, <4>3
      <4> QED
        BY <4>1, <4>2, <4>3
    <3>4. t[j][2] <= t[i][2] + 1
      BY <1>8, <3>2
    <3> QED
      BY <3>3, <3>4
  <2>3. t \in Seq(Docs \X (0 .. D))
    BY <1>7
  <2> QED
    BY <2>1, <2>2, <2>3 DEF Queued, t, D
<1>13. \A p : \A m \in Nat : Met(c, p, m) => Met(c2, p, m)
  <2>1. \A i \in DOMAIN rest : \E l \in DOMAIN t : t[l] = rest[i]
    <3> TAKE i \in DOMAIN rest
    <3>1. i \in 1 .. r /\ i \in 1 .. r + n
      BY <1>8
    <3> QED
      BY <1>7, <3>1
  <2>2. c.expanded \subseteq c2.expanded /\ d \in c2.expanded
    BY DEF d, s
  <2> QED
    BY <2>1, <2>2, MetStays DEF d, s, rest, t
<1>14. \A p \in F : Met(c2, p, k + 1)
  <2> TAKE p \in F
  <2>1. PICK i \in DOMAIN new : new[i] = <<p, k + 1>>
    BY DEF k, s
  <2>2. t[r + i] = <<p, k + 1>> /\ r + i \in DOMAIN t
    <3>1. i \in 1 .. n /\ r + i \in 1 .. r + n
      BY <1>5, <1>8, <2>1
    <3> QED
      BY <1>7, <2>1, <3>1
  <2>3. t[r + i][1] = p /\ t[r + i][2] <= k + 1
    BY <1>8, <2>2
  <2> QED
    BY <2>2, <2>3, Zenon DEF Met, t
<1>15. Included(c2, near)
  BY <1>1, <1>4 DEF Selected, Included, d, s, D
<1>16. ASSUME NEW x \in c2.expanded, NEW j \in 0 .. D - 1, x \in near[j],
              NEW p \in Follow(c.query, peers, x)
       PROVE  p \in c2.included /\ Met(c2, p, j + 1)
  <2>1. j \in Nat /\ j + 1 \in Nat
    OBVIOUS
  <2>2. CASE x \in c.expanded
    <3>1. p \in c.included /\ Met(c, p, j + 1)
      BY <1>16, <2>2 DEF Selected, Followed, D
    <3> QED
      BY <1>13, <2>1, <3>1
  <2>3. CASE x \notin c.expanded
    <3>1. x = d /\ p \in F
      BY <2>3 DEF d, s
    <3>2. k <= j
      BY <1>1, <1>16, <2>1, <2>3, NoNearer DEF D, s
    <3>3. Met(c2, p, k + 1) /\ k + 1 <= j + 1
      BY <1>8, <1>14, <2>1, <3>1, <3>2
    <3>4. \A i \in DOMAIN t : t[i][2] \in Nat
      <4>1. k + 1 \in Nat
        BY <1>8
      <4> QED
        BY <1>7, <1>10, <1>11, <4>1
    <3>5. Met(c2, p, j + 1)
      <4>1. k + 1 \in Nat
        BY <1>8
      <4>2. c2.query.depth \in Nat
        BY <1>2 DEF D
      <4>3. CASE \E i \in DOMAIN t : t[i][1] = p /\ t[i][2] <= k + 1
        <5>1. PICK i \in DOMAIN t : t[i][1] = p /\ t[i][2] <= k + 1
          BY <4>3
        <5>2. t[i][2] <= j + 1
          BY <2>1, <3>3, <3>4, <4>1, <5>1
        <5> QED
          BY <5>1, <5>2, Zenon DEF Met, t
      <4>4. CASE k + 1 >= c2.query.depth /\ ~c2.query.view
        <5>1. j + 1 >= c2.query.depth
          BY <2>1, <3>3, <4>1, <4>2, <4>4
        <5> QED
          BY <4>4, <5>1, Zenon DEF Met
      <4>5. CASE p \in c2.expanded
        BY <4>5 DEF Met
      <4> QED
        BY <3>3, <4>3, <4>4, <4>5, Zenon DEF Met, t
    <3> QED
      BY <3>1, <3>5
  <2> QED
    BY <2>2, <2>3
<1>17. Followed(c2, peers, near)
  <2>1. Met(c2, c2.query.target, 0)
    BY <1>13 DEF Selected, Followed
  <2> QED
    BY <1>16, <2>1 DEF Followed, D
<1> QED
  BY <1>12, <1>15, <1>17 DEF Selected

Neighbours(q) == [d \in Docs |-> Peers(q, d)]

LEMMA WithinLayers ==
  ASSUME Documents, NEW q \in Queries, q.target \in Docs
  PROVE  Layers(q, Neighbours(q), Within(q))
<1> DEFINE near == Within(q)
           D == q.depth
<1>1. D \in Nat /\ q.view \in BOOLEAN
  BY DEF Documents
<1>2. /\ near[0] = {q.target}
      /\ \A k \in 1 .. D : \A x :
           x \in near[k] <=> x \in near[k - 1] \/ \E y \in near[k - 1] : x \in Peers(q, y)
      /\ \A j, k \in 0 .. D : j <= k => near[j] \subseteq near[k]
  BY <1>1, WithinSteps
<1> HIDE DEF near, D
<1>3. ASSUME NEW x, NEW k \in 0 .. D, x \in near[k] PROVE x \in Docs
  <2> DEFINE In == {j \in 0 .. D : x \in near[j]}
  <2>1. PICK j \in In : \A y \in In : j <= y
    <3>1. In \in SUBSET Nat /\ k \in In
      BY <1>3
    <3> HIDE DEF In
    <3> QED
      BY <3>1, Smallest
  <2>2. CASE j = 0
    BY <1>2, <2>1, <2>2
  <2>3. CASE j # 0
    <3>1. j \in 1 .. D /\ j - 1 \in 0 .. D /\ ~(j <= j - 1)
      BY <1>1, <2>1, <2>3
    <3>2. x \notin near[j - 1]
      <4> HIDE DEF In
      <4>1. j - 1 \notin In
        BY <2>1, <3>1
      <4> QED
        BY <3>1, <4>1 DEF In
    <3> QED
      BY <1>2, <2>1, <3>1, <3>2, PeersKnown
  <2> QED
    BY <2>2, <2>3
<1>4. ASSUME NEW k \in 1 .. D, NEW x
      PROVE  x \in near[k] <=>
               x \in near[k - 1] \/ \E y \in near[k - 1] : x \in Neighbours(q)[y]
  <2>1. k - 1 \in 0 .. D
    BY <1>1
  <2>2. \A y \in near[k - 1] : Neighbours(q)[y] = Peers(q, y)
    BY <1>3, <2>1 DEF Neighbours
  <2> QED
    BY <1>2, <2>2
<1> QED
  BY <1>1, <1>2, <1>3, <1>4 DEF Layers, near, D

Missed(q, d) ==
  {[from |-> d, to |-> c, why |-> "relation-filter"] :
     c \in {e \in Candidates(q, d) : e.relation \notin q.relations}}
  \cup {[from |-> d, to |-> c, why |-> "depth-limit"] :
     c \in {e \in Candidates(q, d) : e.relation \in q.relations
                                     /\ e.peer \notin Within(q)[q.depth]}}

SelectionInv ==
  cmd.at = "select" =>
    /\ cmd.query \in Queries /\ cmd.query.target \in Docs
    /\ {"at", "query", "queue", "included", "expanded", "omitted"} \subseteq DOMAIN cmd
    /\ Selected(cmd, Neighbours(cmd.query), Within(cmd.query))
    /\ cmd.query.view => cmd.omitted = UNION {Missed(cmd.query, d) : d \in cmd.expanded}

\* At the end of the queue the selection is the one that is asked for.
LEMMA SelectionEnds == ASSUME Documents, SelectionInv PROVE SelectionIsExact
<1> SUFFICES ASSUME cmd.at = "select", cmd.queue = <<>>
    PROVE  /\ cmd.included = Within(cmd.query)[cmd.query.depth]
           /\ cmd.query.view =>
                cmd.omitted = UNION {Missed(cmd.query, d) :
                                       d \in Within(cmd.query)[cmd.query.depth]}
  BY Zenon DEF SelectionIsExact, Missed
<1> DEFINE q == cmd.query
           near == Within(q)
<1>1. /\ q \in Queries /\ q.target \in Docs
      /\ Selected(cmd, Neighbours(q), near)
      /\ q.view => cmd.omitted = UNION {Missed(q, d) : d \in cmd.expanded}
  BY DEF SelectionInv
<1>2. Layers(q, Neighbours(q), near) /\ q.depth \in Nat
  BY <1>1, WithinLayers DEF Layers
<1>3. DOMAIN cmd.queue = {}
  OBVIOUS
<1>4. cmd.included = near[q.depth]
  BY <1>1, <1>2, <1>3, Full
<1>5. ASSUME q.view PROVE cmd.expanded = near[q.depth]
  <2>1. q.depth + 1 \in Nat /\ q.depth < q.depth + 1
        /\ q.depth + 1 <= (IF q.view THEN q.depth + 1 ELSE q.depth)
    BY <1>2, <1>5
  <2>2. near[q.depth] \subseteq cmd.expanded
    BY <1>1, <1>2, <1>3, <2>1, FrontExpanded
  <2>3. cmd.expanded \subseteq cmd.included
    BY <1>1 DEF Selected, Included
  <2> QED
    BY <1>4, <2>2, <2>3
<1> QED
  BY <1>1, <1>4, <1>5

\* What Within says, of the documents t.
WithinOf(t, q) ==
  LET candidates(d) ==
        {[direction |-> x[1], relation |-> x[2].relation, peer |-> x[2].peer] :
           x \in ({"forward"} \cap q.directions) \X Outgoing(t, d)
                 \cup ({"reverse"} \cap q.directions) \X Incoming(t, d)}
      near[k \in 0 .. q.depth] ==
        IF k = 0 THEN {q.target}
        ELSE near[k - 1] \cup UNION {{c.peer : c \in {e \in candidates(d) : e.relation \in q.relations}} :
                                      d \in near[k - 1]}
  IN near

\* While the documents stand, a query means the same.
LEMMA SameMeaning ==
  ASSUME NEW q, tree' = tree, cmd'.query = q
  PROVE  /\ (Neighbours(cmd.query))' = Neighbours(q)
         /\ (Within(cmd.query))' = Within(q)
         /\ \A d : (Missed(cmd.query, d))' = Missed(q, d)
<1>1. \A d : (Candidates(cmd.query, d))' = Candidates(q, d)
  BY DEF Candidates, Outgoing, Incoming, Present
<1>2. \A d : (Peers(cmd.query, d))' = Peers(q, d)
  BY <1>1 DEF Peers
<1>3. (Within(cmd.query))' = Within(q)
  <2>1. Within(q) = WithinOf(tree, q)
    BY Zenon DEF Within, WithinOf, Peers, Candidates
  <2>2. (Within(cmd.query))' = WithinOf(tree', cmd'.query)
    BY Zenon DEF Within, WithinOf, Peers, Candidates
  <2> QED
    BY <2>1, <2>2
<1>4. (Neighbours(cmd.query))' = Neighbours(q)
  BY <1>2 DEF Neighbours
<1>5. \A d : (Missed(cmd.query, d))' = Missed(q, d)
  BY <1>1, <1>3 DEF Missed
<1> QED
  BY <1>3, <1>4, <1>5

\* A command starts with its target in the queue.
LEMMA SelectionStarts ==
  ASSUME Documents, NEW q \in Queries, Start(q) PROVE SelectionInv'
<1>1. tree' = tree
  BY DEF Start
<1>2. CASE cmd' = Idle
  <2>1. cmd'.at # "select"
    BY <1>2 DEF Idle
  <2> QED
    BY <2>1 DEF SelectionInv
<1>3. CASE cmd' # Idle
  <2> DEFINE near == Within(q)
             all == Neighbours(q)
             c == cmd'
  <2>1. /\ q.target \in Present(tree)
        /\ c = [at |-> "select", query |-> q, base |-> IF q.since THEN base ELSE None,
                queue |-> <<<<q.target, 0>>>>, included |-> {q.target},
                expanded |-> {}, omitted |-> {}]
    BY <1>3, Zenon DEF Start
  <2>2. q.target \in Docs
    BY <2>1 DEF Present
  <2>3. Layers(q, all, near)
    BY <2>2, WithinLayers
  <2>4. q.depth \in Nat /\ near[0] = {q.target} /\ near[0] \subseteq near[q.depth]
    <3>1. q.depth \in Nat /\ 0 \in 0 .. q.depth /\ q.depth \in 0 .. q.depth /\ 0 <= q.depth
      BY <2>3 DEF Layers
    <3> QED
      BY <2>3, <3>1 DEF Layers
  <2>5. /\ c.query = q /\ c.queue = <<<<q.target, 0>>>> /\ c.included = {q.target}
        /\ c.expanded = {} /\ c.omitted = {}
        /\ {"at", "query", "queue", "included", "expanded", "omitted"} \subseteq DOMAIN c
    BY <2>1
  <2> HIDE DEF c, near, all
  <2>6. /\ c.queue \in Seq(Docs \X (0 .. q.depth)) /\ DOMAIN c.queue = {1}
        /\ c.queue[1] = <<q.target, 0>>
    <3>1. <<q.target, 0>> \in Docs \X (0 .. q.depth)
      BY <2>2, <2>4
    <3> QED
      BY <2>5, <3>1
  <2>7. Queued(c, near)
    <3>1. c.queue[1][1] = q.target /\ c.queue[1][2] = 0
      BY <2>6
    <3>2. \A i \in DOMAIN c.queue : c.queue[i][1] = q.target /\ c.queue[i][2] = 0
      BY <2>6, <3>1
    <3> QED
      BY <2>4, <2>5, <2>6, <3>2 DEF Queued
  <2>8. Included(c, near)
    BY <2>4, <2>5 DEF Included
  <2>9. Followed(c, all, near)
    <3>1. 1 \in DOMAIN c.queue /\ c.queue[1][1] = q.target /\ c.queue[1][2] <= 0
      BY <2>6
    <3> QED
      BY <2>5, <3>1 DEF Followed, Met
  <2>10. Selected(c, all, near)
    BY <2>7, <2>8, <2>9 DEF Selected
  <2>11. (Neighbours(cmd.query))' = all /\ (Within(cmd.query))' = near
    BY <1>1, <2>5, SameMeaning, Zenon DEF c, all, near
  <2>12. Selected(cmd, Neighbours(cmd.query), Within(cmd.query))'
    <3>1. Selected(cmd', (Neighbours(cmd.query))', (Within(cmd.query))')
      BY <2>10, <2>11 DEF c
    <3> QED
      BY <3>1 DEF Selected, Queued, Included, Followed, Met, Follow
  <2> QED
    BY <2>2, <2>5, <2>12 DEF SelectionInv, c
<1> QED
  BY <1>2, <1>3

\* Whatever document the queue gives next, the selection stays one.
LEMMA SelectionGrows ==
  ASSUME Documents, SelectionInv, Expand PROVE SelectionInv'
<1> DEFINE q == cmd.query
           here == Head(cmd.queue)
           d == here[1]
           k == here[2]
           near == Within(q)
           all == Neighbours(q)
           followed == {x \in Candidates(q, d) : x.relation \in q.relations}
           F == {x.peer : x \in followed} \ (IF q.view THEN {q.target} ELSE {})
           filtered == {[from |-> d, to |-> x, why |-> "relation-filter"] :
                          x \in Candidates(q, d) \ followed}
           beyond == {[from |-> d, to |-> x, why |-> "depth-limit"] :
                        x \in {e \in followed : e.peer \notin cmd.included}}
           new == SetToSeq(F \X {k + 1})
<1>1. tree' = tree /\ cmd.at = "select" /\ cmd.queue # <<>>
  BY DEF Expand
<1>2. cmd' = IF d \in cmd.expanded \/ (~q.view /\ k >= q.depth)
             THEN [cmd EXCEPT !.queue = Tail(cmd.queue)]
             ELSE IF k >= q.depth
             THEN [cmd EXCEPT !.queue = Tail(cmd.queue), !.expanded = cmd.expanded \cup {d},
                              !.omitted = (cmd.omitted \cup filtered) \cup beyond]
             ELSE [cmd EXCEPT !.queue = Tail(cmd.queue) \o new,
                              !.expanded = cmd.expanded \cup {d},
                              !.included = cmd.included \cup F,
                              !.omitted = IF q.view THEN cmd.omitted \cup filtered
                                          ELSE cmd.omitted]
  BY DEF Expand, Enqueued
<1>3. /\ q \in Queries /\ q.target \in Docs
      /\ {"at", "query", "queue", "included", "expanded", "omitted"} \subseteq DOMAIN cmd
      /\ Selected(cmd, all, near)
      /\ q.view => cmd.omitted = UNION {Missed(q, x) : x \in cmd.expanded}
  BY <1>1 DEF SelectionInv
<1>4. Layers(q, all, near) /\ q.depth \in Nat
  BY <1>3, WithinLayers DEF Layers
<1>5. /\ d \in Docs /\ k \in 0 .. q.depth /\ d \in near[k]
      /\ \A i \in DOMAIN cmd.queue : ~(cmd.queue[i][2] < k)
  BY <1>1, <1>3, <1>4, QueueIs, Zenon
<1>6. F = Follow(q, all, d) /\ {x.peer : x \in followed} = all[d]
  <2>1. all[d] = {x.peer : x \in followed}
    BY <1>5 DEF Neighbours, Peers
  <2> QED
    BY <2>1 DEF Follow
<1> HIDE DEF all, near
<1>7. ASSUME cmd'.query = q, DOMAIN cmd' = DOMAIN cmd, Selected(cmd', all, near),
             q.view => cmd'.omitted = UNION {Missed(q, x) : x \in cmd'.expanded}
      PROVE  SelectionInv'
  <2>1. /\ (Neighbours(cmd.query))' = all /\ (Within(cmd.query))' = near
        /\ \A x : (Missed(cmd.query, x))' = Missed(q, x)
    BY <1>1, <1>7, SameMeaning, Zenon DEF all, near
  <2>2. Selected(cmd, Neighbours(cmd.query), Within(cmd.query))'
    <3>1. Selected(cmd', (Neighbours(cmd.query))', (Within(cmd.query))')
      BY <1>7, <2>1
    <3> QED
      BY <3>1 DEF Selected, Queued, Included, Followed, Met, Follow
  <2>3. (cmd.query.view => cmd.omitted = UNION {Missed(cmd.query, x) : x \in cmd.expanded})'
    <3>1. {Missed(q, x) : x \in cmd'.expanded} = {(Missed(cmd.query, x))' : x \in cmd'.expanded}
      BY <2>1
    <3> QED
      BY <1>7, <3>1
  <2> QED
    BY <1>3, <1>7, <2>2, <2>3 DEF SelectionInv
<1>8. CASE d \in cmd.expanded \/ (~q.view /\ k >= q.depth)
  <2>1. cmd' = [cmd EXCEPT !.queue = Tail(cmd.queue)]
    BY <1>2, <1>8, Zenon
  <2>2. /\ cmd'.query = q /\ DOMAIN cmd' = DOMAIN cmd /\ cmd'.queue = Tail(cmd.queue)
        /\ cmd'.included = cmd.included /\ cmd'.expanded = cmd.expanded
        /\ cmd'.omitted = cmd.omitted
    BY <1>3, <2>1
  <2>3. Selected(cmd', all, near)
    BY <1>1, <1>3, <1>4, <1>8, <2>2, Taken
  <2> QED
    BY <1>3, <1>7, <2>2, <2>3
<1>9. CASE ~(d \in cmd.expanded \/ (~q.view /\ k >= q.depth)) /\ k >= q.depth
  <2>1. cmd' = [cmd EXCEPT !.queue = Tail(cmd.queue), !.expanded = cmd.expanded \cup {d},
                           !.omitted = (cmd.omitted \cup filtered) \cup beyond]
    BY <1>2, <1>9, Zenon
  <2>2. /\ cmd'.query = q /\ DOMAIN cmd' = DOMAIN cmd /\ cmd'.queue = Tail(cmd.queue)
        /\ cmd'.included = cmd.included /\ cmd'.expanded = cmd.expanded \cup {d}
        /\ cmd'.omitted = (cmd.omitted \cup filtered) \cup beyond
    <3> HIDE DEF filtered, beyond, d
    <3> QED
      BY <1>3, <2>1
  <2>3. Selected(cmd', all, near)
    BY <1>1, <1>3, <1>4, <1>9, <2>2, Taken
  <2>4. cmd.included = near[q.depth]
    <3>1. k = q.depth
      BY <1>4, <1>5, <1>9
    <3> QED
      BY <1>3, <1>4, <1>5, <3>1, Full
  <2>5. filtered \cup beyond = Missed(q, d)
    BY <2>4 DEF Missed, near
  <2>6. q.view => cmd'.omitted = UNION {Missed(q, x) : x \in cmd'.expanded}
    <3> HIDE DEF filtered, beyond, d
    <3> QED
      BY <1>3, <2>2, <2>5
  <2> QED
    BY <1>7, <2>2, <2>3, <2>6
<1>10. CASE ~(d \in cmd.expanded \/ (~q.view /\ k >= q.depth)) /\ ~(k >= q.depth)
  <2>1. cmd' = [cmd EXCEPT !.queue = Tail(cmd.queue) \o new,
                           !.expanded = cmd.expanded \cup {d},
                           !.included = cmd.included \cup F,
                           !.omitted = IF q.view THEN cmd.omitted \cup filtered
                                       ELSE cmd.omitted]
    BY <1>2, <1>10, Zenon
  <2>2. /\ cmd'.query = q /\ DOMAIN cmd' = DOMAIN cmd
        /\ cmd'.queue = Tail(cmd.queue) \o new
        /\ cmd'.included = cmd.included \cup F /\ cmd'.expanded = cmd.expanded \cup {d}
        /\ q.view => cmd'.omitted = cmd.omitted \cup filtered
    <3> HIDE DEF filtered, new, F, d
    <3> QED
      BY <1>3, <2>1
  <2>3. k + 1 \in 1 .. q.depth /\ k < q.depth /\ (k + 1) - 1 = k /\ k + 1 <= q.depth
    BY <1>4, <1>5, <1>10
  <2>4. all[d] \subseteq near[q.depth] /\ F \subseteq Docs
    <3> HIDE DEF F, d, k, q
    <3>1. \A x \in all[d] : x \in near[k + 1]
      BY <1>4, <1>5, <2>3 DEF Layers
    <3>2. k + 1 \in 0 .. q.depth /\ q.depth \in 0 .. q.depth
      BY <1>4, <2>3
    <3>3. near[k + 1] \subseteq near[q.depth] /\ near[q.depth] \subseteq Docs
      BY <1>4, <2>3, <3>2 DEF Layers
    <3> QED
      BY <1>6, <3>1, <3>3 DEF Follow
  <2>5. new \in Seq(F \X {k + 1}) /\ \A x \in F \X {k + 1} : \E i \in DOMAIN new : new[i] = x
    <3> HIDE DEF F, k
    <3>1. IsFiniteSet(F) /\ IsFiniteSet({k + 1})
      BY <2>4, FS_Subset, FS_Singleton DEF Documents
    <3>2. IsFiniteSet(F \X {k + 1})
      BY <3>1, FS_Product
    <3> QED
      BY <3>2, SequenceOf
  <2>6. Selected(cmd', all, near)
    <3> HIDE DEF F, new
    <3>1. d \notin cmd.expanded /\ F = Follow(q, all, d)
      BY <1>6, <1>10
    <3>2. /\ Layers(cmd.query, all, near) /\ Selected(cmd, all, near) /\ cmd.queue # <<>>
          /\ Head(cmd.queue)[1] \notin cmd.expanded /\ Head(cmd.queue)[2] < cmd.query.depth
          /\ F = Follow(cmd.query, all, Head(cmd.queue)[1])
          /\ new \in Seq(F \X {Head(cmd.queue)[2] + 1})
          /\ \A x \in F \X {Head(cmd.queue)[2] + 1} : \E i \in DOMAIN new : new[i] = x
      BY <1>1, <1>3, <1>4, <2>3, <2>5, <3>1
    <3>3. /\ cmd'.query = cmd.query /\ cmd'.queue = Tail(cmd.queue) \o new
          /\ cmd'.included = cmd.included \cup F
          /\ cmd'.expanded = cmd.expanded \cup {Head(cmd.queue)[1]}
      BY <2>2
    <3> HIDE DEF q, d, k, here
    <3> QED
      BY <3>2, <3>3, Widened, Zenon
  <2>7. q.view => filtered = Missed(q, d)
    <3>1. \A e \in followed : e.peer \in near[q.depth]
      BY <1>6, <2>4
    <3> QED
      BY <3>1 DEF Missed, near
  <2>8. q.view => cmd'.omitted = UNION {Missed(q, x) : x \in cmd'.expanded}
    <3> HIDE DEF filtered, d
    <3> QED
      BY <1>3, <2>2, <2>7
  <2> QED
    BY <1>7, <2>2, <2>6, <2>8
<1> QED
  BY <1>8, <1>9, <1>10

LEMMA SelectionStep ==
  ASSUME Documents, SelectionInv, [Next]_vars PROVE SelectionInv'
<1>1. ASSUME NEW q \in Queries, Start(q) PROVE SelectionInv'
  BY <1>1, SelectionStarts
<1>2. ASSUME Expand PROVE SelectionInv'
  BY <1>2, SelectionGrows
<1>3. ASSUME Emit PROVE SelectionInv'
  <2>1. cmd'.at # "select"
    <3>1. \E r : cmd' = Idle \/ cmd' = [at |-> "printed", query |-> cmd.query, base |-> cmd.base,
                     included |-> cmd.included, omitted |-> cmd.omitted, view |-> tree,
                     served |-> r]
      BY <1>3, Zenon DEF Emit
    <3> QED
      BY <3>1 DEF Idle
  <2> QED
    BY <2>1 DEF SelectionInv
<1>4. ASSUME Author \/ Configure PROVE SelectionInv'
  <2>1. cmd'.at # "select"
    BY <1>4 DEF Author, Configure, Free
  <2> QED
    BY <2>1 DEF SelectionInv
<1>5. ASSUME Index PROVE SelectionInv'
  <2>1. cmd'.at # "select"
    BY <1>5 DEF Index, Free
  <2> QED
    BY <2>1 DEF SelectionInv
<1>6. ASSUME UNCHANGED vars PROVE SelectionInv'
  <2>1. tree' = tree /\ cmd' = cmd
    BY <1>6 DEF vars
  <2>2. /\ (Neighbours(cmd.query))' = Neighbours(cmd.query)
        /\ (Within(cmd.query))' = Within(cmd.query)
        /\ \A x : (Missed(cmd.query, x))' = Missed(cmd.query, x)
    BY <2>1, SameMeaning, Zenon
  <2>3. cmd.at = "select" => Selected(cmd, Neighbours(cmd.query), Within(cmd.query))'
    <3>1. cmd.at = "select" => Selected(cmd', (Neighbours(cmd.query))', (Within(cmd.query))')
      BY <2>1, <2>2 DEF SelectionInv
    <3> QED
      BY <3>1 DEF Selected, Queued, Included, Followed, Met, Follow
  <2>4. {Missed(cmd.query, x) : x \in cmd.expanded}
          = {(Missed(cmd.query, x))' : x \in cmd'.expanded}
    BY <2>1, <2>2
  <2> QED
    BY <2>1, <2>3, <2>4 DEF SelectionInv
<1> QED
  BY <1>1, <1>2, <1>3, <1>4, <1>5, <1>6 DEF Next

\* For any documents and queries, in whatever order the queue meets them: the
\* packet includes exactly the documents within its depth of the target, and a
\* view names every edge of theirs that it did not follow, with the cause
\* (context_selection and purpose_context_selection in retrieval.py).
THEOREM SelectionExact == ASSUME Documents PROVE Spec => []SelectionIsExact
<1>1. Init => SelectionInv
  <2> SUFFICES ASSUME Init PROVE cmd.at # "select"
    BY DEF SelectionInv
  <2> QED
    BY DEF Init, Idle
<1>2. SelectionInv /\ [Next]_vars => SelectionInv'
  BY SelectionStep
<1>3. SelectionInv => SelectionIsExact
  BY SelectionEnds
<1> QED
  BY <1>1, <1>2, <1>3, PTL DEF Spec

-----------------------------------------------------------------------------
(* The section graph *)

CONSTANTS Sections, Metadata, Legacy, Links, Modes
VARIABLES catalog, query, walk, first
G == INSTANCE ReferenceGraph

\* A set of numbers that is not empty has a least one.
LEMMA LeastIs ==
  ASSUME NEW S \in SUBSET Nat, S # {} PROVE \E x \in S : \A y \in S : x <= y
<1>1. IsWellFoundedOn(OpToRel(<, Nat), Nat)
  BY NatLessThanWellFounded
<1>2. PICK x \in S : \A y \in S : ~ (<<y, x>> \in OpToRel(<, Nat))
  BY <1>1, WFMin
<1>3. \A y \in S : ~ (y < x)
  BY <1>2, Zenon DEF OpToRel
<1> QED
  BY <1>3

-----------------------------------------------------------------------------
(* the references of a project: the shortest paths, as a recursive function *)

\* The address that an edge is walked from, and the one it is walked to.
Back(e, reverse) == IF reverse THEN e.to ELSE e.from
Ahead(e, reverse) == IF reverse THEN e.from ELSE e.to

\* One round of a walk: the paths prolonged by an address not seen before.
Longer(E, reverse, rung) ==
  UNION {{Append(p, m) : m \in {Ahead(e, reverse) : e \in {d \in E : G!Last(p) = Back(d, reverse)}}
                                 \ rung.seen} : p \in rung.found}
Higher(E, reverse, rung) ==
  [found |-> Longer(E, reverse, rung),
   seen |-> rung.seen \cup {G!Last(p) : p \in Longer(E, reverse, rung)}]
Lowest(s) == [found |-> {<<s>>}, seen |-> {s}]
Whole(P, E, s, reverse) ==
  P = [k \in Nat |-> IF k = 0 THEN Lowest(s) ELSE Higher(E, reverse, P[k - 1])]
Upto(g, n, E, s, reverse) ==
  g = [k \in 0 .. n |-> IF k = 0 THEN Lowest(s) ELSE Higher(E, reverse, g[k - 1])]

\* The rungs of a walk exist: what a recursion over the numbers defines.
LEMMA LadderExists ==
  ASSUME NEW E, NEW s, NEW reverse
  PROVE  \E P : Whole(P, E, s, reverse)
<1> DEFINE U(g, n) == Upto(g, n, E, s, reverse)
           N(x) == Higher(E, reverse, x)
<1>1. ASSUME NEW g, NEW n \in Nat, U(g, n)
      PROVE  /\ g[0] = Lowest(s)
             /\ \A k \in 1 .. n : g[k] = N(g[k - 1])
  <2>1. g = [k \in 0 .. n |-> IF k = 0 THEN Lowest(s) ELSE N(g[k - 1])]
    BY <1>1 DEF Upto
  <2> HIDE DEF N, U
  <2>2. 0 \in 0 .. n /\ \A k \in 1 .. n : k \in 0 .. n /\ k # 0
    OBVIOUS
  <2> DEFINE f == [k \in 0 .. n |-> IF k = 0 THEN Lowest(s) ELSE N(g[k - 1])]
  <2>3. f[0] = Lowest(s) /\ \A k \in 1 .. n : f[k] = N(g[k - 1])
    BY <2>2
  <2> QED
    BY <2>1, <2>3
<1>2. ASSUME NEW g, NEW n \in Nat, U(g, n), NEW h, NEW m \in Nat, U(h, m)
      PROVE  \A k \in Nat : k <= n /\ k <= m => g[k] = h[k]
  <2> DEFINE Bad == {k \in Nat : k <= n /\ k <= m /\ g[k] # h[k]}
  <2> SUFFICES ASSUME Bad # {} PROVE FALSE
    OBVIOUS
  <2>1. PICK k \in Bad : \A j \in Bad : k <= j
    BY LeastIs
  <2>2. /\ g[0] = Lowest(s) /\ \A i \in 1 .. n : g[i] = N(g[i - 1])
        /\ h[0] = Lowest(s) /\ \A i \in 1 .. m : h[i] = N(h[i - 1])
    BY <1>1, <1>2
  <2> HIDE DEF N, U
  <2>3. k # 0
    BY <2>2
  <2>4. k - 1 \in Nat /\ g[k - 1] = h[k - 1] /\ k \in 1 .. n /\ k \in 1 .. m
    BY <2>1, <2>3
  <2> QED
    BY <2>2, <2>4
<1>3. ASSUME NEW n \in Nat PROVE \E g : U(g, n)
  <2> DEFINE Bad == {k \in Nat : ~ \E g : U(g, k)}
  <2> SUFFICES ASSUME Bad # {} PROVE FALSE
    OBVIOUS
  <2>1. PICK k \in Bad : \A j \in Bad : k <= j
    <3> HIDE DEF U
    <3> QED
      BY LeastIs
  <2>2. CASE k = 0
    <3> DEFINE g == [i \in 0 .. 0 |-> Lowest(s)]
    <3>1. \A i \in 0 .. 0 : i = 0
      OBVIOUS
    <3>2. g = [i \in 0 .. 0 |-> IF i = 0 THEN Lowest(s) ELSE N(g[i - 1])]
      <4> HIDE DEF N
      <4> QED
        BY <3>1
    <3>3. U(g, 0)
      BY <3>2, Zenon DEF Upto
    <3> QED
      BY <2>2, <3>3
  <2>3. CASE k # 0
    <3>1. k - 1 \in Nat /\ k - 1 \notin Bad
      BY <2>1, <2>3
    <3>2. PICK g : U(g, k - 1)
      BY <3>1
    <3>3. g[0] = Lowest(s) /\ \A i \in 1 .. k - 1 : g[i] = N(g[i - 1])
      BY <1>1, <3>1, <3>2
    <3> DEFINE h == [i \in 0 .. k |-> IF i = k THEN N(g[k - 1]) ELSE g[i]]
               f == [i \in 0 .. k |-> IF i = 0 THEN Lowest(s) ELSE N(h[i - 1])]
    <3> HIDE DEF N, U
    <3>4. \A i \in 0 .. k : h[i] = f[i]
      <4> TAKE i \in 0 .. k
      <4>1. CASE i = 0
        BY <2>3, <3>3, <4>1
      <4>2. CASE i = k
        BY <2>3, <4>2
      <4>3. CASE i # 0 /\ i # k
        <5>1. i \in 1 .. k - 1 /\ i - 1 \in 0 .. k /\ i - 1 # k
          BY <4>3
        <5> QED
          BY <3>3, <4>3, <5>1
      <4> QED
        BY <4>1, <4>2, <4>3
    <3>5. h = f
      <4>1. /\ h = [i \in 0 .. k |-> h[i]] /\ f = [i \in 0 .. k |-> f[i]]
        OBVIOUS
      <4> HIDE DEF h, f
      <4> QED
        BY <3>4, <4>1
    <3>6. U(h, k)
      BY <3>5, Zenon DEF U, N, Upto
    <3> QED
      BY <3>6 DEF U
  <2> QED
    BY <2>2, <2>3
<1> DEFINE A(n) == CHOOSE g : U(g, n)
           P == [n \in Nat |-> A(n)[n]]
           Q == [k \in Nat |-> IF k = 0 THEN Lowest(s) ELSE N(P[k - 1])]
<1>4. \A n \in Nat : U(A(n), n)
  <2> HIDE DEF U
  <2> QED
    BY <1>3, Zenon DEF A
<1>5. ASSUME NEW k \in Nat PROVE P[k] = Q[k]
  <2>1. U(A(k), k)
    BY <1>4
  <2> HIDE DEF U
  <2>2. A(k)[0] = Lowest(s) /\ \A i \in 1 .. k : A(k)[i] = N(A(k)[i - 1])
    BY <1>1, <2>1, Zenon
  <2>3. CASE k # 0
    <3>1. k - 1 \in Nat /\ k - 1 <= k /\ k - 1 <= k - 1 /\ k \in 1 .. k
      BY <2>3
    <3>2. U(A(k - 1), k - 1)
      BY <1>4, <3>1
    <3>3. A(k)[k - 1] = A(k - 1)[k - 1]
      BY <1>2, <2>1, <3>1, <3>2
    <3> HIDE DEF A, N
    <3>4. P[k] = N(A(k)[k - 1]) /\ P[k - 1] = A(k - 1)[k - 1]
      BY <2>2, <3>1
    <3> QED
      BY <2>3, <3>3, <3>4
  <2>4. CASE k = 0
    <3> HIDE DEF A, N
    <3> QED
      BY <2>2, <2>4
  <2> QED
    BY <2>3, <2>4
<1>6. P = Q
  <2>1. P = [k \in Nat |-> P[k]] /\ Q = [k \in Nat |-> Q[k]]
    OBVIOUS
  <2> HIDE DEF P, Q
  <2> QED
    BY <1>5, <2>1
<1>7. Whole(P, E, s, reverse)
  BY <1>6, Zenon DEF Whole
<1> HIDE DEF P
<1> QED
  BY <1>7, Zenon

Rungs(E, s, reverse) == CHOOSE P : Whole(P, E, s, reverse)
Found(E, s, reverse, k) == Rungs(E, s, reverse)[k].found
Seen(E, s, reverse, k) == Rungs(E, s, reverse)[k].seen
Ring(E, s, reverse, k) == {G!Last(p) : p \in Found(E, s, reverse, k)}

\* Each rung is made of the one below it.
LEMMA RungsAre ==
  ASSUME NEW E, NEW s, NEW reverse
  PROVE  /\ Rungs(E, s, reverse)[0] = Lowest(s)
         /\ \A k \in Nat :
              Rungs(E, s, reverse)[k + 1] = Higher(E, reverse, Rungs(E, s, reverse)[k])
<1> DEFINE P == Rungs(E, s, reverse)
<1>1. \E Q : Whole(Q, E, s, reverse)
  BY LadderExists
<1>2. Whole(P, E, s, reverse)
  BY <1>1, Zenon DEF Rungs
<1>3. P = [k \in Nat |-> IF k = 0 THEN Lowest(s) ELSE Higher(E, reverse, P[k - 1])]
  BY <1>2, Zenon DEF Whole
<1> HIDE DEF P
<1>4. P[0] = Lowest(s)
  BY <1>3
<1>5. ASSUME NEW k \in Nat PROVE P[k + 1] = Higher(E, reverse, P[k])
  <2>1. k + 1 \in Nat /\ k + 1 # 0 /\ k + 1 - 1 = k
    OBVIOUS
  <2> QED
    BY <1>3, <2>1
<1> QED
  BY <1>4, <1>5 DEF P

\* The reference definition climbs these rungs.
LEMMA ShortestIs ==
  ASSUME NEW reverse
  PROVE  G!Shortest(reverse) = Rungs(G!Edges, query.start, reverse)
BY Zenon DEF G!Shortest, Rungs, Whole, Higher, Longer, Lowest, Ahead, Back, G!Steps, G!Direct

\* What the addresses of a walk are: pairs of numbers, which a set of edges joins.
Joins(E, A, s) ==
  /\ s \in A /\ A \subseteq Nat \X Nat /\ IsFiniteSet(A)
  /\ \A e \in E : e.from \in A /\ e.to \in A
\* Paths of one length, over pairs of numbers.
Of(n) == {p \in Seq(Nat \X Nat) : Len(p) = n}

\* A walk begins at the address that is asked for.
LEMMA LowestIs ==
  ASSUME NEW E, NEW s, NEW reverse
  PROVE  Found(E, s, reverse, 0) = {<<s>>} /\ Seen(E, s, reverse, 0) = {s}
<1>1. Rungs(E, s, reverse)[0] = Lowest(s)
  BY RungsAre
<1> QED
  BY <1>1 DEF Lowest, Found, Seen

\* A path of the one set, prolonged by an edge to an address that is not seen.
Prolongs(p, F, seen, E, reverse) ==
  \E t \in F, e \in E :
    /\ Back(e, reverse) = G!Last(t) /\ Ahead(e, reverse) \notin seen
    /\ p = Append(t, Ahead(e, reverse))

\* The paths of one more edge prolong those of one less.
LEMMA HigherIs ==
  ASSUME NEW E, NEW s, NEW reverse, NEW k \in Nat
  PROVE  \A p : p \in Found(E, s, reverse, k + 1) <=>
           Prolongs(p, Found(E, s, reverse, k), Seen(E, s, reverse, k), E, reverse)
<1> DEFINE R == Rungs(E, s, reverse)
<1>1. R[k + 1] = Higher(E, reverse, R[k])
  BY RungsAre
<1> HIDE DEF R
<1>2. R[k + 1].found = Longer(E, reverse, R[k])
  BY <1>1 DEF Higher
<1>3. \A p : p \in Longer(E, reverse, R[k]) <=>
               Prolongs(p, R[k].found, R[k].seen, E, reverse)
  BY DEF Longer, Prolongs
<1> QED
  BY <1>2, <1>3 DEF R, Found, Seen

\* What has been seen grows by what is found.
LEMMA SeenIs ==
  ASSUME NEW E, NEW s, NEW reverse, NEW k \in Nat
  PROVE  Seen(E, s, reverse, k + 1) = Seen(E, s, reverse, k) \cup Ring(E, s, reverse, k + 1)
<1> DEFINE R == Rungs(E, s, reverse)
<1>1. R[k + 1] = Higher(E, reverse, R[k])
  BY RungsAre
<1> HIDE DEF R
<1>2. /\ R[k + 1].found = Longer(E, reverse, R[k])
      /\ R[k + 1].seen = R[k].seen \cup {G!Last(p) : p \in Longer(E, reverse, R[k])}
  BY <1>1 DEF Higher
<1> QED
  BY <1>2 DEF R, Found, Seen, Ring

\* The shortest paths of k edges are sequences of k + 1 addresses.
LEMMA FoundIs ==
  ASSUME NEW E, NEW s, NEW A, Joins(E, A, s), NEW reverse, NEW k \in Nat
  PROVE  \A p \in Found(E, s, reverse, k) : p \in Of(k + 1) /\ G!Last(p) = p[k + 1] /\ p[k + 1] \in A
<1>0. ASSUME NEW n \in Nat
      PROVE  \A p : p \in Found(E, s, reverse, n + 1) <=>
               Prolongs(p, Found(E, s, reverse, n), Seen(E, s, reverse, n), E, reverse)
  BY HigherIs, Zenon
<1> DEFINE Good(p, j) == p \in Of(j + 1) /\ G!Last(p) = p[j + 1] /\ p[j + 1] \in A
           Bad == {j \in Nat : ~ \A p \in Found(E, s, reverse, j) : Good(p, j)}
<1> SUFFICES ASSUME Bad # {} PROVE FALSE
  OBVIOUS
<1>1. PICK j \in Bad : \A i \in Bad : j <= i
  <2> HIDE DEF Good
  <2> QED
    BY LeastIs
<1>2. CASE j = 0
  <2>1. Good(<<s>>, 0)
    BY DEF Joins, Of, G!Last
  <2>2. Found(E, s, reverse, 0) = {<<s>>}
    BY LowestIs
  <2> HIDE DEF Good
  <2> QED
    BY <1>2, <2>1, <2>2
<1>3. CASE j # 0
  <2> DEFINE i == j - 1
  <2>1. i \in Nat /\ i + 1 = j /\ \A p \in Found(E, s, reverse, i) : Good(p, i)
    <3>1. i \in Nat /\ i < j /\ i + 1 = j
      BY <1>3
    <3> HIDE DEF Good
    <3> QED
      BY <1>1, <3>1
  <2>2. ASSUME NEW p \in Found(E, s, reverse, i + 1) PROVE Good(p, i + 1)
    <3> HIDE DEF Good, i, Bad
    <3>1. PICK t \in Found(E, s, reverse, i), e \in E :
            /\ Back(e, reverse) = G!Last(t) /\ Ahead(e, reverse) \notin Seen(E, s, reverse, i)
            /\ p = Append(t, Ahead(e, reverse))
      BY <1>0, <2>1, <2>2 DEF Prolongs
    <3>2. t \in Of(i + 1) /\ Ahead(e, reverse) \in A /\ Ahead(e, reverse) \in Nat \X Nat
      BY <2>1 DEF Joins, Ahead, Good
    <3>3. p \in Of(i + 2) /\ p[i + 2] = Ahead(e, reverse) /\ Len(p) = i + 2
      BY <2>1, <3>1, <3>2 DEF Of
    <3> QED
      BY <2>1, <3>2, <3>3 DEF G!Last, Good
  <2> HIDE DEF Good, i
  <2> QED
    BY <2>1, <2>2
<1> QED
  BY <1>2, <1>3

\* The addresses at a distance are those that edges lead to and that are not seen
\* before.
LEMMA RingIs ==
  ASSUME NEW E, NEW s, NEW A, Joins(E, A, s), NEW reverse, NEW k \in Nat
  PROVE  /\ Ring(E, s, reverse, 0) = {s}
         /\ Ring(E, s, reverse, k) \subseteq A
         /\ \A m : m \in Ring(E, s, reverse, k + 1) <=>
              /\ m \notin Seen(E, s, reverse, k)
              /\ \E e \in E : Back(e, reverse) \in Ring(E, s, reverse, k) /\ Ahead(e, reverse) = m
<1>1. Ring(E, s, reverse, 0) = {s}
  <2>1. Found(E, s, reverse, 0) = {<<s>>}
    BY LowestIs
  <2>2. G!Last(<<s>>) = s
    BY DEF G!Last
  <2> QED
    BY <2>1, <2>2 DEF Ring
<1>2. Ring(E, s, reverse, k) \subseteq A
  BY FoundIs DEF Ring
<1>3. ASSUME NEW t \in Found(E, s, reverse, k), NEW e \in E
      PROVE  G!Last(Append(t, Ahead(e, reverse))) = Ahead(e, reverse)
  <2>1. t \in Of(k + 1)
    BY FoundIs
  <2> QED
    BY <2>1 DEF Of, G!Last
<1>4. ASSUME NEW m
      PROVE  m \in Ring(E, s, reverse, k + 1) <=>
              /\ m \notin Seen(E, s, reverse, k)
              /\ \E e \in E : Back(e, reverse) \in Ring(E, s, reverse, k) /\ Ahead(e, reverse) = m
  <2>1. \A p : p \in Found(E, s, reverse, k + 1) <=>
              Prolongs(p, Found(E, s, reverse, k), Seen(E, s, reverse, k), E, reverse)
    BY HigherIs
  <2>2. ASSUME m \in Ring(E, s, reverse, k + 1)
        PROVE  /\ m \notin Seen(E, s, reverse, k)
               /\ \E e \in E : Back(e, reverse) \in Ring(E, s, reverse, k) /\ Ahead(e, reverse) = m
    <3>1. PICK p \in Found(E, s, reverse, k + 1) : m = G!Last(p)
      BY <2>2 DEF Ring
    <3>2. PICK t \in Found(E, s, reverse, k), e \in E :
            /\ Back(e, reverse) = G!Last(t) /\ Ahead(e, reverse) \notin Seen(E, s, reverse, k)
            /\ p = Append(t, Ahead(e, reverse))
      BY <2>1 DEF Prolongs
    <3>3. m = Ahead(e, reverse) /\ Back(e, reverse) \in Ring(E, s, reverse, k)
      BY <1>3, <3>1, <3>2 DEF Ring
    <3> QED
      BY <3>2, <3>3
  <2>3. ASSUME m \notin Seen(E, s, reverse, k),
               NEW e \in E, Back(e, reverse) \in Ring(E, s, reverse, k), Ahead(e, reverse) = m
        PROVE  m \in Ring(E, s, reverse, k + 1)
    <3>1. PICK t \in Found(E, s, reverse, k) : Back(e, reverse) = G!Last(t)
      BY <2>3 DEF Ring
    <3>2. Append(t, m) \in Found(E, s, reverse, k + 1) /\ G!Last(Append(t, m)) = m
      BY <1>3, <2>1, <2>3, <3>1 DEF Prolongs
    <3> QED
      BY <3>2, Zenon DEF Ring
  <2> QED
    BY <2>2, <2>3
<1> QED
  BY <1>1, <1>2, <1>4

\* Where nothing is found, nothing is found farther on.
LEMMA NothingFarther ==
  ASSUME NEW E, NEW s, NEW A, Joins(E, A, s), NEW reverse, NEW d \in Nat, NEW k \in Nat, d <= k,
         Ring(E, s, reverse, d) = {}
  PROVE  Ring(E, s, reverse, k) = {}
<1> DEFINE Bad == {j \in Nat : d <= j /\ Ring(E, s, reverse, j) # {}}
<1> SUFFICES ASSUME Bad # {} PROVE FALSE
  OBVIOUS
<1>1. PICK j \in Bad : \A i \in Bad : j <= i
  BY LeastIs
<1>2. j # d
  OBVIOUS
<1>3. j - 1 \in Nat /\ Ring(E, s, reverse, j - 1) = {} /\ (j - 1) + 1 = j
  <2>1. j - 1 \in Nat /\ d <= j - 1 /\ ~ (j <= j - 1) /\ (j - 1) + 1 = j
    BY <1>2
  <2> QED
    BY <1>1, <2>1
<1>4. \A m : m \notin Ring(E, s, reverse, j)
  BY <1>3, RingIs
<1> QED
  BY <1>4

-----------------------------------------------------------------------------
(* the order of paths *)

Less(a, b) == a[1] < b[1] \/ (a[1] = b[1] /\ a[2] < b[2])

\* Addresses have a strict order.
LEMMA PairsAreOrdered ==
  ASSUME NEW a \in Nat \X Nat, NEW b \in Nat \X Nat, NEW c \in Nat \X Nat
  PROVE  /\ a = b \/ Less(a, b) \/ Less(b, a)
         /\ Less(a, b) => ~Less(b, a) /\ a # b
         /\ Less(a, b) /\ Less(b, c) => Less(a, c)
<1>1. /\ a[1] \in Nat /\ a[2] \in Nat /\ b[1] \in Nat /\ b[2] \in Nat
      /\ c[1] \in Nat /\ c[2] \in Nat /\ (a[1] = b[1] /\ a[2] = b[2] => a = b)
  OBVIOUS
<1> QED
  BY <1>1 DEF Less

\* Two paths part at one place, up to which they are the same.
Parts(p, q, i) == (\A j \in 1 .. i - 1 : p[j] = q[j]) /\ Less(p[i], q[i])

\* So have the paths of one length.
LEMMA PathsAreOrdered ==
  ASSUME NEW n \in Nat, NEW p \in Of(n), NEW q \in Of(n), NEW r \in Of(n)
  PROVE  /\ p = q \/ G!Before(p, q) \/ G!Before(q, p)
         /\ G!Before(p, q) => ~G!Before(q, p) /\ p # q
         /\ G!Before(p, q) /\ G!Before(q, r) => G!Before(p, r)
<1>0. \A t \in Of(n) : /\ DOMAIN t = 1 .. n /\ t \in [1 .. n -> Nat \X Nat]
                       /\ \A i \in 1 .. n : t[i] \in Nat \X Nat
  <2> TAKE t \in Of(n)
  <2>1. t \in Seq(Nat \X Nat) /\ Len(t) = n
    BY DEF Of
  <2> QED
    BY <2>1
<1>1. \A t, u \in Of(n) : G!Before(t, u) <=> \E i \in 1 .. n : Parts(t, u, i)
  BY <1>0 DEF G!Before, Parts, Less
<1>2. ASSUME p # q PROVE \E i \in 1 .. n : Parts(p, q, i) \/ Parts(q, p, i)
  <2> DEFINE D == {i \in 1 .. n : p[i] # q[i]}
  <2>1. D # {}
    <3>1. p = [i \in 1 .. n |-> p[i]] /\ q = [i \in 1 .. n |-> q[i]]
      BY <1>0
    <3> QED
      BY <1>2, <3>1
  <2>2. PICK i \in D : \A j \in D : i <= j
    <3>1. D \subseteq Nat
      OBVIOUS
    <3> HIDE DEF D
    <3> QED
      BY <2>1, <3>1, LeastIs
  <2>3. \A j \in 1 .. i - 1 : p[j] = q[j] /\ q[j] = p[j]
    BY <2>2
  <2>4. i \in 1 .. n /\ p[i] \in Nat \X Nat /\ q[i] \in Nat \X Nat /\ p[i] # q[i]
    BY <1>0
  <2>5. Less(p[i], q[i]) \/ Less(q[i], p[i])
    BY <2>4, PairsAreOrdered
  <2> QED
    BY <2>3, <2>4, <2>5 DEF Parts
<1>3. ASSUME NEW i \in 1 .. n, Parts(p, q, i) PROVE p # q /\ \A j \in 1 .. n : ~Parts(q, p, j)
  <2>1. Less(p[i], q[i]) /\ ~Less(q[i], p[i]) /\ p[i] # q[i]
    BY <1>0, <1>3, PairsAreOrdered DEF Parts
  <2>2. ASSUME NEW j \in 1 .. n, Parts(q, p, j) PROVE FALSE
    <3>1. Less(q[j], p[j]) /\ q[j] # p[j]
      BY <1>0, <2>2, PairsAreOrdered DEF Parts
    <3>2. i = j \/ i \in 1 .. j - 1 \/ j \in 1 .. i - 1
      OBVIOUS
    <3> QED
      BY <1>3, <2>1, <2>2, <3>1, <3>2 DEF Parts
  <2> QED
    BY <2>1, <2>2
<1>4. ASSUME NEW i \in 1 .. n, Parts(p, q, i), NEW j \in 1 .. n, Parts(q, r, j)
      PROVE  \E k \in 1 .. n : Parts(p, r, k)
  <2>1. p[i] \in Nat \X Nat /\ q[i] \in Nat \X Nat /\ r[i] \in Nat \X Nat
        /\ p[j] \in Nat \X Nat /\ q[j] \in Nat \X Nat /\ r[j] \in Nat \X Nat
    BY <1>0
  <2>2. CASE i = j
    <3>1. Less(p[i], r[i])
      BY <1>4, <2>1, <2>2, PairsAreOrdered DEF Parts
    <3>2. \A k \in 1 .. i - 1 : p[k] = r[k]
      BY <1>4, <2>2 DEF Parts
    <3> QED
      BY <3>1, <3>2 DEF Parts
  <2>3. CASE i < j
    <3>1. q[i] = r[i] /\ \A k \in 1 .. i - 1 : q[k] = r[k]
      BY <1>4, <2>3 DEF Parts
    <3>2. Parts(p, r, i)
      BY <1>4, <3>1 DEF Parts
    <3> QED
      BY <3>2
  <2>4. CASE j < i
    <3>1. p[j] = q[j] /\ \A k \in 1 .. j - 1 : p[k] = q[k]
      BY <1>4, <2>4 DEF Parts
    <3>2. Parts(p, r, j)
      BY <1>4, <3>1 DEF Parts
    <3> QED
      BY <3>2
  <2> QED
    BY <2>2, <2>3, <2>4
<1> QED
  BY <1>1, <1>2, <1>3, <1>4

\* What comes before another path does so when both are prolonged.
LEMMA BeforeAppend ==
  ASSUME NEW n \in Nat, NEW p \in Of(n), NEW q \in Of(n), NEW a \in Nat \X Nat, NEW b \in Nat \X Nat,
         G!Before(p, q)
  PROVE  /\ Append(p, a) \in Of(n + 1) /\ Append(q, b) \in Of(n + 1)
         /\ G!Before(Append(p, a), Append(q, b))
<1>1. /\ Len(p) = n /\ Len(q) = n /\ DOMAIN p = 1 .. n
      /\ p \in Seq(Nat \X Nat) /\ q \in Seq(Nat \X Nat)
  BY DEF Of
<1>2. /\ Append(p, a) \in Of(n + 1) /\ Append(q, b) \in Of(n + 1)
      /\ DOMAIN Append(p, a) = 1 .. n + 1
      /\ \A i \in 1 .. n : Append(p, a)[i] = p[i] /\ Append(q, b)[i] = q[i]
  BY <1>1 DEF Of
<1>3. PICK i \in 1 .. n : Parts(p, q, i)
  BY <1>1 DEF G!Before, Parts, Less
<1>4. i \in 1 .. n + 1 /\ Parts(Append(p, a), Append(q, b), i)
  <2>1. i \in 1 .. n + 1 /\ \A j \in 1 .. i - 1 : j \in 1 .. n
    OBVIOUS
  <2>2. Append(p, a)[i] = p[i] /\ Append(q, b)[i] = q[i]
    BY <1>2
  <2>3. \A j \in 1 .. i - 1 : Append(p, a)[j] = Append(q, b)[j]
    BY <1>2, <1>3, <2>1 DEF Parts
  <2> QED
    BY <1>3, <2>1, <2>2, <2>3 DEF Parts
<1> QED
  BY <1>2, <1>4 DEF G!Before, Parts, Less

\* The image of a finite set is finite, and as large if no two are the same.
LEMMA FiniteImage ==
  ASSUME NEW D, IsFiniteSet(D), NEW f, DOMAIN f = D
  PROVE  LET T == {f[d] : d \in D} IN
         /\ IsFiniteSet(T)
         /\ (\A c, d \in D : f[c] = f[d] => c = d) => Cardinality(T) = Cardinality(D)
<1> DEFINE T == {f[d] : d \in D}
           h == [d \in D |-> f[d]]
<1>1. h \in Surjection(D, T)
  BY DEF Surjection
<1>2. IsFiniteSet(T)
  <2> HIDE DEF h, T
  <2> QED
    BY <1>1, FS_Surjection
<1>3. ASSUME \A c, d \in D : f[c] = f[d] => c = d PROVE Cardinality(T) = Cardinality(D)
  <2>1. h \in Injection(D, T)
    BY <1>3 DEF Injection, IsInjective
  <2> HIDE DEF h, T
  <2> QED
    BY <1>1, <2>1, FS_Surjection
<1> QED
  BY <1>2, <1>3

\* The instance counts as this module does.
LEMMA SameCount ==
  /\ \A S : G!Cardinality(S) = Cardinality(S)
  /\ \A S : G!IsFiniteSet(S) <=> IsFiniteSet(S)
BY DEF G!Cardinality, Cardinality, G!IsFiniteSet, IsFiniteSet

\* Of finitely many paths of one length, one is before all others.
LEMMA LeastPathExists ==
  ASSUME NEW n \in Nat, NEW S \in SUBSET Of(n), IsFiniteSet(S), S # {}
  PROVE  \E p \in S : \A q \in S \ {p} : G!Before(p, q)
<1> DEFINE ahead(p) == {q \in S : G!Before(q, p)}
           N == {Cardinality(ahead(p)) : p \in S}
<1>1. \A p \in S : IsFiniteSet(ahead(p)) /\ Cardinality(ahead(p)) \in Nat
  <2> TAKE p \in S
  <2>1. ahead(p) \in SUBSET S
    OBVIOUS
  <2> HIDE DEF ahead
  <2> QED
    BY <2>1, FS_Subset, FS_CardinalityType
<1>2. PICK m \in N : \A k \in N : m <= k
  <2>1. N \subseteq Nat /\ N # {}
    <3> HIDE DEF ahead
    <3> QED
      BY <1>1
  <2> HIDE DEF N
  <2> QED
    BY <2>1, LeastIs
<1>3. PICK p \in S : m = Cardinality(ahead(p))
  OBVIOUS
<1>4. ASSUME NEW q \in S, q # p, ~G!Before(p, q) PROVE FALSE
  <2>0. p \in Of(n) /\ q \in Of(n)
    OBVIOUS
  <2>1. G!Before(q, p)
    BY <1>4, <2>0, PathsAreOrdered
  <2>2. \A r \in S : G!Before(r, q) => G!Before(r, p)
    BY <2>0, <2>1, PathsAreOrdered
  <2>3. ~G!Before(q, q)
    BY <2>0, PathsAreOrdered
  <2>4. ahead(q) \cup {q} \in SUBSET ahead(p) /\ q \notin ahead(q)
    BY <2>1, <2>2, <2>3
  <2>5. Cardinality(ahead(p)) <= Cardinality(ahead(q))
    BY <1>2, <1>3
  <2> HIDE DEF ahead, N
  <2>6. Cardinality(ahead(q) \cup {q}) = Cardinality(ahead(q)) + 1
    BY <1>1, <2>4, FS_AddElement
  <2>7. Cardinality(ahead(q) \cup {q}) <= Cardinality(ahead(p))
    BY <1>1, <2>4, FS_Subset
  <2> QED
    BY <1>1, <2>5, <2>6, <2>7
<1> QED
  BY <1>4

\* That one is the least path.
LEMMA LeastPathIs ==
  ASSUME NEW n \in Nat, NEW S \in SUBSET Of(n), NEW p \in S, \A q \in S \ {p} : G!Before(p, q)
  PROVE  G!LeastPath(S) = p
<1> DEFINE Leads(r) == \A q \in S \ {r} : G!Before(r, q)
<1>1. ASSUME NEW r \in S, Leads(r) PROVE r = p
  <2>1. r # p => G!Before(r, p) /\ G!Before(p, r)
    BY <1>1
  <2>2. r \in Of(n) /\ p \in Of(n)
    OBVIOUS
  <2> QED
    BY <2>1, <2>2, PathsAreOrdered
<1>2. Leads(p)
  OBVIOUS
<1>3. G!LeastPath(S) = CHOOSE r \in S : Leads(r)
  BY Zenon DEF G!LeastPath
<1> HIDE DEF Leads
<1> QED
  BY <1>1, <1>2, <1>3

-----------------------------------------------------------------------------
(* one round *)

Record(e, path, reverse, k) ==
  [address |-> Ahead(e, reverse), relation |-> e.relation, authority |-> e.authority,
   origin |-> e.origin, reason |-> e.reason, reverse |-> reverse,
   distance |-> k, path |-> Append(path, Ahead(e, reverse))]

\* The edges to an address at distance k that shortest paths end with.
Into(E, s, reverse, k, m) ==
  {e \in E : Ahead(e, reverse) = m /\ Back(e, reverse) \in Ring(E, s, reverse, k - 1)}
Best(E, s, reverse, k, n) == G!LeastPath({p \in Found(E, s, reverse, k) : G!Last(p) = n})

\* The rows of a plan at distance k, and what the rows of a reference query are.
PlanRows(E, s, reverse, k) ==
  UNION {{Record(e, Best(E, s, reverse, k - 1, Back(e, reverse)), reverse, k) :
            e \in Into(E, s, reverse, k, m)} : m \in Ring(E, s, reverse, k)}
RowFits(E, s, reverse, k, r) ==
  /\ r.path \in Found(E, s, reverse, k)
  /\ \E e \in G!Preferred(Into(E, s, reverse, k, r.address)) :
       /\ <<r.relation, r.authority, r.origin>> = <<e.relation, e.authority, e.origin>>
       /\ Back(e, reverse) = r.path[k]
ReferenceRows(E, s, reverse, k, here) ==
  /\ {r.address : r \in here} = Ring(E, s, reverse, k)
  /\ \A r, t \in here : r.address = t.address => r = t
  /\ \A r \in here : RowFits(E, s, reverse, k, r)

\* The walk goes on from each address at distance k by one of its shortest paths,
\* a plan by the least of them.
Frontier(E, s, reverse, k, F) ==
  /\ {f.at : f \in F} = Ring(E, s, reverse, k)
  /\ \A f \in F : f.path \in Found(E, s, reverse, k) /\ G!Last(f.path) = f.at
LeastFrontier(E, s, reverse, k, F) ==
  \A f \in F : \A p \in Found(E, s, reverse, k) :
    G!Last(p) = f.at => p = f.path \/ G!Before(f.path, p)

Candidate(E, s, reverse, k, F, r) ==
  \E f \in F, e \in E :
    /\ Back(e, reverse) = f.at /\ Ahead(e, reverse) \notin Seen(E, s, reverse, k)
    /\ r = Record(e, f.path, reverse, k + 1)

\* A plan walks on from an address by the least path to it.
LEMMA FrontBest ==
  ASSUME NEW E, NEW s, NEW A, Joins(E, A, s), NEW reverse, NEW k \in Nat, NEW F,
         Frontier(E, s, reverse, k, F), LeastFrontier(E, s, reverse, k, F), NEW f \in F
  PROVE  Best(E, s, reverse, k, f.at) = f.path
<1> DEFINE S == {p \in Found(E, s, reverse, k) : G!Last(p) = f.at}
<1>1. \A p \in Found(E, s, reverse, k) : p \in Of(k + 1)
  BY FoundIs
<1>2. S \in SUBSET Of(k + 1) /\ k + 1 \in Nat
  BY <1>1
<1>3. f.path \in S
  BY DEF Frontier
<1>4. \A p \in S \ {f.path} : G!Before(f.path, p)
  BY DEF LeastFrontier
<1> HIDE DEF S
<1>5. G!LeastPath(S) = f.path
  BY <1>2, <1>3, <1>4, LeastPathIs
<1> QED
  BY <1>5, Zenon DEF Best, S

\* A row at distance k that an edge adds to the path of f.
Stems(E, s, reverse, k, r, f, e) ==
  /\ Back(e, reverse) = f.at /\ r = Record(e, f.path, reverse, k)
  /\ r.address \in Ring(E, s, reverse, k) /\ e \in Into(E, s, reverse, k, r.address)
  /\ r.path \in Found(E, s, reverse, k) /\ r.path = Append(f.path, r.address)
  /\ G!Last(r.path) = r.address /\ r.path[k] = f.at

\* The candidates of a round are the rows of all edges to the next distance.
LEMMA CandidateIs ==
  ASSUME NEW E, NEW s, NEW A, Joins(E, A, s), NEW reverse, NEW k \in Nat, NEW F,
         Frontier(E, s, reverse, k, F), NEW r, Candidate(E, s, reverse, k, F, r)
  PROVE  \E f \in F, e \in E : Stems(E, s, reverse, k + 1, r, f, e)
<1>1. PICK f \in F, e \in E :
        /\ Back(e, reverse) = f.at /\ Ahead(e, reverse) \notin Seen(E, s, reverse, k)
        /\ r = Record(e, f.path, reverse, k + 1)
  BY DEF Candidate
<1>2. r.address = Ahead(e, reverse) /\ r.path = Append(f.path, r.address)
  BY <1>1 DEF Record
<1>3. f.at \in Ring(E, s, reverse, k) /\ f.path \in Found(E, s, reverse, k) /\ G!Last(f.path) = f.at
  BY DEF Frontier
<1>4. r.address \in Ring(E, s, reverse, k + 1)
  BY <1>1, <1>2, <1>3, RingIs
<1>5. e \in Into(E, s, reverse, k + 1, r.address)
  BY <1>1, <1>2, <1>3 DEF Into
<1>6. r.path \in Found(E, s, reverse, k + 1)
  <2>1. Prolongs(r.path, Found(E, s, reverse, k), Seen(E, s, reverse, k), E, reverse)
    BY <1>1, <1>2, <1>3, Zenon DEF Prolongs
  <2> QED
    BY <2>1, HigherIs
<1>7. f.path \in Of(k + 1) /\ f.path[k + 1] = f.at /\ r.address \in Nat \X Nat
  <2>1. r.address \in Nat \X Nat
    BY <1>2 DEF Joins, Ahead
  <2> QED
    BY <1>3, <2>1, FoundIs
<1>8. G!Last(r.path) = r.address /\ r.path[k + 1] = f.at
  BY <1>2, <1>7 DEF Of, G!Last
<1> QED
  BY <1>1, <1>2, <1>4, <1>5, <1>6, <1>8 DEF Stems

\* Every edge to the next distance is a candidate.
LEMMA CandidateOf ==
  ASSUME NEW E, NEW s, NEW A, Joins(E, A, s), NEW reverse, NEW k \in Nat, NEW F,
         Frontier(E, s, reverse, k, F), NEW m \in Ring(E, s, reverse, k + 1)
  PROVE  /\ \A e \in Into(E, s, reverse, k + 1, m) : \E f \in F :
              /\ f.at = Back(e, reverse)
              /\ Candidate(E, s, reverse, k, F, Record(e, f.path, reverse, k + 1))
         /\ \E e : e \in Into(E, s, reverse, k + 1, m)
<1>1. /\ m \notin Seen(E, s, reverse, k)
      /\ \E e \in E : Back(e, reverse) \in Ring(E, s, reverse, k) /\ Ahead(e, reverse) = m
  BY RingIs
<1>2. \A e : e \in Into(E, s, reverse, k + 1, m) <=>
              e \in E /\ Ahead(e, reverse) = m /\ Back(e, reverse) \in Ring(E, s, reverse, k)
  BY DEF Into
<1>3. ASSUME NEW e \in Into(E, s, reverse, k + 1, m)
      PROVE  \E f \in F :
              /\ f.at = Back(e, reverse)
              /\ Candidate(E, s, reverse, k, F, Record(e, f.path, reverse, k + 1))
  <2>1. e \in E /\ Ahead(e, reverse) = m /\ Back(e, reverse) \in Ring(E, s, reverse, k)
    BY <1>2
  <2>2. PICK f \in F : f.at = Back(e, reverse)
    BY <2>1 DEF Frontier
  <2>3. Candidate(E, s, reverse, k, F, Record(e, f.path, reverse, k + 1))
    BY <1>1, <2>1, <2>2, Zenon DEF Candidate
  <2> QED
    BY <2>2, <2>3
<1> QED
  BY <1>1, <1>2, <1>3

\* The candidates of a plan are its rows.
LEMMA PlanRound ==
  ASSUME NEW E, NEW s, NEW A, Joins(E, A, s), NEW reverse, NEW k \in Nat, NEW F,
         Frontier(E, s, reverse, k, F), LeastFrontier(E, s, reverse, k, F)
  PROVE  \A r : Candidate(E, s, reverse, k, F, r) <=> r \in PlanRows(E, s, reverse, k + 1)
<1>0. (k + 1) - 1 = k
  OBVIOUS
<1>1. \A f \in F : Best(E, s, reverse, k, f.at) = f.path
  BY FrontBest
<1>2. \A r : r \in PlanRows(E, s, reverse, k + 1) <=>
        \E m \in Ring(E, s, reverse, k + 1) : \E e \in Into(E, s, reverse, k + 1, m) :
          r = Record(e, Best(E, s, reverse, k, Back(e, reverse)), reverse, k + 1)
  BY <1>0 DEF PlanRows
<1>3. ASSUME NEW r, Candidate(E, s, reverse, k, F, r) PROVE r \in PlanRows(E, s, reverse, k + 1)
  <2>1. PICK f \in F, e \in E : Stems(E, s, reverse, k + 1, r, f, e)
    BY <1>3, CandidateIs
  <2>2. /\ Back(e, reverse) = f.at /\ r = Record(e, f.path, reverse, k + 1)
        /\ r.address \in Ring(E, s, reverse, k + 1)
        /\ e \in Into(E, s, reverse, k + 1, r.address)
    BY <2>1 DEF Stems
  <2> QED
    BY <1>1, <1>2, <2>2
<1>4. ASSUME NEW r \in PlanRows(E, s, reverse, k + 1) PROVE Candidate(E, s, reverse, k, F, r)
  <2>1. PICK m \in Ring(E, s, reverse, k + 1) : \E e \in Into(E, s, reverse, k + 1, m) :
          r = Record(e, Best(E, s, reverse, k, Back(e, reverse)), reverse, k + 1)
    BY <1>2
  <2>2. PICK e \in Into(E, s, reverse, k + 1, m) :
          r = Record(e, Best(E, s, reverse, k, Back(e, reverse)), reverse, k + 1)
    BY <2>1
  <2>3. PICK f \in F :
              /\ f.at = Back(e, reverse)
              /\ Candidate(E, s, reverse, k, F, Record(e, f.path, reverse, k + 1))
    BY CandidateOf
  <2> QED
    BY <1>1, <2>2, <2>3
<1> QED
  BY <1>3, <1>4

Offers(E, s, reverse, k, F, C) ==
  \A r : r \in C <=> Candidate(E, s, reverse, k, F, r)
Picks(C, T, pick) == \A m \in T : pick[m] \in G!Preferred({c \in C : c.address = m})

Picked(E, s, reverse, k, C, pick) ==
  LET rows == {pick[m] : m \in Ring(E, s, reverse, k)} IN
  /\ ReferenceRows(E, s, reverse, k, rows) /\ rows \subseteq C
  /\ \A m \in Ring(E, s, reverse, k) :
       pick[m].address = m /\ pick[m].path \in Found(E, s, reverse, k) /\ G!Last(pick[m].path) = m

\* A reference query keeps one of the preferred candidates for each address.
LEMMA ReferenceRound ==
  ASSUME NEW E, NEW s, NEW A, Joins(E, A, s), NEW reverse, NEW k \in Nat, NEW F,
         Frontier(E, s, reverse, k, F), NEW C, Offers(E, s, reverse, k, F, C),
         NEW pick, Picks(C, Ring(E, s, reverse, k + 1), pick)
  PROVE  Picked(E, s, reverse, k + 1, C, pick)
<1> DEFINE rows == {pick[m] : m \in Ring(E, s, reverse, k + 1)}
           key(c) == 10 * G!Rank(G!Relations, c.relation) + G!Rank(G!Authorities, c.authority)
<1>0. \A S : G!Preferred(S) = {c \in S : \A d \in S : key(c) <= key(d)}
  BY DEF G!Preferred
<1>1. ASSUME NEW m \in Ring(E, s, reverse, k + 1)
      PROVE  /\ pick[m] \in C /\ pick[m].address = m
             /\ pick[m].path \in Found(E, s, reverse, k + 1) /\ G!Last(pick[m].path) = m
             /\ RowFits(E, s, reverse, k + 1, pick[m])
  <2> DEFINE r == pick[m]
  <2>1. r \in C /\ r.address = m /\ \A d \in C : d.address = m => key(r) <= key(d)
    <3>1. r \in G!Preferred({c \in C : c.address = m})
      BY DEF Picks
    <3> HIDE DEF key, r
    <3> QED
      BY <1>0, <3>1
  <2>2. Candidate(E, s, reverse, k, F, r)
    BY <2>1 DEF Offers
  <2> HIDE DEF r
  <2>3. PICK f \in F, e \in E : Stems(E, s, reverse, k + 1, r, f, e)
    BY <2>2, CandidateIs
  <2>4. /\ Back(e, reverse) = f.at /\ r = Record(e, f.path, reverse, k + 1)
        /\ e \in Into(E, s, reverse, k + 1, m)
        /\ r.path \in Found(E, s, reverse, k + 1) /\ G!Last(r.path) = m /\ r.path[k + 1] = f.at
    BY <2>1, <2>3 DEF Stems
  <2>5. /\ r.relation = e.relation /\ r.authority = e.authority /\ r.origin = e.origin
    BY <2>4 DEF Record
  <2>6. key(r) = key(e)
    BY <2>5
  <2>7. ASSUME NEW d \in Into(E, s, reverse, k + 1, m) PROVE key(e) <= key(d)
    <3>1. PICK g \in F :
              /\ g.at = Back(d, reverse)
              /\ Candidate(E, s, reverse, k, F, Record(d, g.path, reverse, k + 1))
      BY CandidateOf
    <3> DEFINE t == Record(d, g.path, reverse, k + 1)
    <3>2. t.address = m /\ t.relation = d.relation /\ t.authority = d.authority
      BY DEF Record, Into
    <3> HIDE DEF t
    <3>3. t \in C
      BY <3>1 DEF t, Offers
    <3>4. key(t) = key(d)
      BY <3>2
    <3> HIDE DEF key
    <3> QED
      BY <2>1, <2>6, <3>2, <3>3, <3>4
  <2>8. e \in G!Preferred(Into(E, s, reverse, k + 1, m))
    <3> HIDE DEF key
    <3> QED
      BY <1>0, <2>4, <2>7
  <2>9. RowFits(E, s, reverse, k + 1, r)
    <3>1. <<r.relation, r.authority, r.origin>> = <<e.relation, e.authority, e.origin>>
      BY <2>5
    <3>2. r.address = m /\ Back(e, reverse) = r.path[k + 1]
      BY <2>1, <2>4
    <3> QED
      BY <2>4, <2>8, <3>1, <3>2, Zenon DEF RowFits
  <2> QED
    BY <2>1, <2>4, <2>9 DEF r
<1> HIDE DEF key
<1>2. {r.address : r \in rows} = Ring(E, s, reverse, k + 1)
  <2>1. \A m \in Ring(E, s, reverse, k + 1) : pick[m] \in rows /\ pick[m].address = m
    BY <1>1
  <2>2. \A r \in rows : r.address \in Ring(E, s, reverse, k + 1)
    BY <1>1
  <2> HIDE DEF rows
  <2> QED
    BY <2>1, <2>2
<1>3. \A r, t \in rows : r.address = t.address => r = t
  BY <1>1
<1>4. \A r \in rows : RowFits(E, s, reverse, k + 1, r)
  BY <1>1
<1>5. rows \subseteq C
  BY <1>1
<1> QED
  BY <1>1, <1>2, <1>3, <1>4, <1>5 DEF ReferenceRows, Picked

GoesOn(E, s, reverse, k, C, m) ==
  LET p == G!LeastPath({c.path : c \in {r \in C : r.address = m}}) IN
  /\ p \in Found(E, s, reverse, k) /\ G!Last(p) = m
  /\ \A q \in Found(E, s, reverse, k) : G!Last(q) = m => q = p \/ G!Before(p, q)

\* The least path to an address at the next distance prolongs the least path to an
\* address before it.
LEMMA PlanOnward ==
  ASSUME NEW E, NEW s, NEW A, Joins(E, A, s), NEW reverse, NEW k \in Nat, NEW F, IsFiniteSet(F),
         Frontier(E, s, reverse, k, F), LeastFrontier(E, s, reverse, k, F),
         NEW C, Offers(E, s, reverse, k, F, C),
         NEW m \in Ring(E, s, reverse, k + 1)
  PROVE  GoesOn(E, s, reverse, k + 1, C, m)
<1>a. \A r : r \in C <=> Candidate(E, s, reverse, k, F, r)
  BY DEF Offers
<1> DEFINE T == {c.path : c \in {r \in C : r.address = m}}
           G0 == {f \in F : \E c \in C : c.address = m /\ c.path = Append(f.path, m)}
           h == [f \in G0 |-> Append(f.path, m)]
<1>0. m \in Nat \X Nat
  <2>1. Ring(E, s, reverse, k + 1) \subseteq A
    BY RingIs
  <2> QED
    BY <2>1 DEF Joins
<1>1. T = {h[f] : f \in G0}
  <2>1. ASSUME NEW c \in C, c.address = m PROVE \E f \in G0 : c.path = h[f]
    <3>1. PICK f \in F, e \in E : Stems(E, s, reverse, k + 1, c, f, e)
      BY <1>a, CandidateIs
    <3>2. c.path = Append(f.path, m)
      BY <2>1, <3>1 DEF Stems
    <3> QED
      BY <2>1, <3>2
  <2>2. ASSUME NEW f \in G0 PROVE \E c \in C : c.address = m /\ h[f] = c.path
    OBVIOUS
  <2> HIDE DEF G0, h
  <2> QED
    BY <2>1, <2>2
<1>2. G0 \in SUBSET F /\ DOMAIN h = G0
  OBVIOUS
<1>3. ASSUME NEW q \in T PROVE q \in Found(E, s, reverse, k + 1) /\ G!Last(q) = m
  <2>1. PICK c \in C : c.address = m /\ q = c.path
    OBVIOUS
  <2>2. PICK f \in F, e \in E : Stems(E, s, reverse, k + 1, c, f, e)
    BY <1>a, CandidateIs
  <2> QED
    BY <2>1, <2>2 DEF Stems
<1>4. T # {}
  <2>1. PICK e : e \in Into(E, s, reverse, k + 1, m)
    BY CandidateOf
  <2>2. PICK f \in F : Candidate(E, s, reverse, k, F, Record(e, f.path, reverse, k + 1))
    BY <2>1, CandidateOf
  <2>3. Record(e, f.path, reverse, k + 1) \in C /\ Record(e, f.path, reverse, k + 1).address = m
    BY <1>a, <2>1, <2>2 DEF Record, Into
  <2> QED
    BY <2>3
<1>5. \A q \in Found(E, s, reverse, k + 1) : q \in Of(k + 2)
  <2>1. k + 1 \in Nat /\ (k + 1) + 1 = k + 2
    OBVIOUS
  <2> QED
    BY <2>1, FoundIs
<1>6. ASSUME NEW q \in Found(E, s, reverse, k + 1), G!Last(q) = m
      PROVE  \E r \in T : q = r \/ G!Before(r, q)
  <2>1. Prolongs(q, Found(E, s, reverse, k), Seen(E, s, reverse, k), E, reverse)
    BY HigherIs
  <2>2. PICK t \in Found(E, s, reverse, k), e \in E :
          /\ Back(e, reverse) = G!Last(t) /\ Ahead(e, reverse) \notin Seen(E, s, reverse, k)
          /\ q = Append(t, Ahead(e, reverse))
    BY <2>1 DEF Prolongs
  <2>3. t \in Of(k + 1) /\ G!Last(t) \in Ring(E, s, reverse, k)
    BY FoundIs DEF Ring
  <2>4. Ahead(e, reverse) = m
    BY <1>6, <2>2, <2>3 DEF Of, G!Last
  <2>5. PICK f \in F : f.at = G!Last(t)
    BY <2>3 DEF Frontier
  <2>6. f.path \in Found(E, s, reverse, k) /\ (t = f.path \/ G!Before(f.path, t))
    BY <2>5 DEF Frontier, LeastFrontier
  <2>7. Append(f.path, m) \in T
    <3> DEFINE r == Record(e, f.path, reverse, k + 1)
    <3>1. Candidate(E, s, reverse, k, F, r)
      BY <2>2, <2>5, Zenon DEF Candidate
    <3>2. r.address = m /\ r.path = Append(f.path, m)
      BY <2>4 DEF Record
    <3>3. r \in C
      BY <1>a, <3>1
    <3> HIDE DEF r
    <3> QED
      BY <3>2, <3>3
  <2>8. f.path \in Of(k + 1)
    BY <2>6, FoundIs
  <2>9. t = f.path \/ G!Before(Append(f.path, m), q)
    BY <1>0, <2>2, <2>3, <2>4, <2>6, <2>8, BeforeAppend
  <2> QED
    BY <2>2, <2>4, <2>7, <2>9
<1> HIDE DEF T, G0, h
<1>7. IsFiniteSet(T)
  <2>1. IsFiniteSet(G0)
    BY <1>2, FS_Subset
  <2> QED
    BY <1>1, <1>2, <2>1, FiniteImage
<1>8. T \in SUBSET Of(k + 2) /\ k + 2 \in Nat
  BY <1>3, <1>5
<1>9. PICK p \in T : \A q \in T \ {p} : G!Before(p, q)
  BY <1>4, <1>7, <1>8, LeastPathExists
<1>10. G!LeastPath(T) = p
  BY <1>8, <1>9, LeastPathIs
<1>11. ASSUME NEW q \in Found(E, s, reverse, k + 1), G!Last(q) = m PROVE q = p \/ G!Before(p, q)
  <2>1. PICK r \in T : q = r \/ G!Before(r, q)
    BY <1>6, <1>11
  <2>2. r = p \/ G!Before(p, r)
    BY <1>9
  <2>3. p \in Of(k + 2) /\ q \in Of(k + 2) /\ r \in Of(k + 2)
    BY <1>5, <1>8
  <2> QED
    BY <1>8, <2>1, <2>2, <2>3, PathsAreOrdered
<1>12. p \in Found(E, s, reverse, k + 1) /\ G!Last(p) = m
  BY <1>3
<1> QED
  BY <1>10, <1>11, <1>12 DEF T, GoesOn

-----------------------------------------------------------------------------
(* the references of a project: the walk *)

\* What was drawn at the beginning, and which provider is asked.
Drawn ==
  /\ catalog.metadata \subseteq Metadata /\ catalog.legacy \subseteq Legacy
  /\ catalog.links \subseteq Links
  /\ query = [command |-> query.command, start |-> query.start, reverse |-> query.reverse,
              transitive |-> query.transitive, provider |-> query.provider]
  /\ query.command \in {"references", "change-plan"} /\ query.start \in G!Addresses
  /\ query.reverse \in BOOLEAN /\ query.transitive \in BOOLEAN
  /\ query.provider \in {"direct", "shards"}

\* An address is a document with one of its sections, and there are finitely many.
LEMMA AddressIs ==
  ASSUME G!Catalogued
  PROVE  /\ \A a : a \in G!Addresses <=>
                     \E d \in Docs : \E t \in Sections[d] \cup {0} : a = <<d, t>>
         /\ G!Addresses \subseteq Nat \X Nat /\ IsFiniteSet(G!Addresses)
<1> DEFINE f == [d \in Docs |-> {<<d, t>> : t \in Sections[d] \cup {0}}]
<1>1. G!Addresses = UNION {f[d] : d \in Docs}
  BY DEF G!Addresses
<1>2. \A a : a \in G!Addresses <=> \E d \in Docs : \E t \in Sections[d] \cup {0} : a = <<d, t>>
  BY DEF G!Addresses
<1>3. ASSUME NEW d \in Docs PROVE IsFiniteSet(f[d])
  <2> DEFINE h == [t \in Sections[d] \cup {0} |-> <<d, t>>]
  <2>1. IsFiniteSet(Sections[d] \cup {0})
    <3>1. IsFiniteSet(Sections[d]) /\ IsFiniteSet({0})
      <4>1. G!IsFiniteSet(Sections[d])
        BY Zenon DEF G!Catalogued
      <4>2. IsFiniteSet(Sections[d])
        BY <4>1, SameCount
      <4> QED
        BY <4>2, FS_Singleton
    <3> QED
      BY <3>1, FS_Union
  <2>2. f[d] = {h[t] : t \in Sections[d] \cup {0}} /\ DOMAIN h = Sections[d] \cup {0}
    OBVIOUS
  <2> HIDE DEF f, h
  <2> QED
    BY <2>1, <2>2, FiniteImage
<1>4. DOMAIN f = Docs /\ IsFiniteSet(Docs)
  <2>1. G!IsFiniteSet(Docs)
    BY Zenon DEF G!Catalogued
  <2> QED
    BY <2>1, SameCount
<1>5. G!Addresses \subseteq Nat \X Nat
  BY <1>2 DEF G!Catalogued
<1> HIDE DEF f
<1>6. IsFiniteSet({f[d] : d \in Docs})
  BY <1>4, FiniteImage
<1>7. IsFiniteSet(UNION {f[d] : d \in Docs})
  BY <1>3, <1>6, FS_UNION
<1> QED
  BY <1>1, <1>2, <1>5, <1>7

\* Every edge joins two addresses.
LEMMA EdgeIs ==
  ASSUME G!Catalogued, Drawn, NEW e \in G!Edges
  PROVE  e.from \in G!Addresses /\ e.to \in G!Addresses
<1>0. \A d \in Docs : \A t \in Sections[d] \cup {0} : <<d, t>> \in G!Addresses
  BY AddressIs
<1>1. ASSUME e \in G!Contained(Docs) PROVE e.from \in G!Addresses /\ e.to \in G!Addresses
  <2>1. PICK d \in Docs : \E t \in Sections[d] :
          e = G!Edge(<<d, 0>>, <<d, t>>, "contains", "generated", "section-parser", None)
    BY <1>1 DEF G!Contained
  <2>2. PICK t \in Sections[d] :
          e = G!Edge(<<d, 0>>, <<d, t>>, "contains", "generated", "section-parser", None)
    BY <2>1
  <2>3. e.from = <<d, 0>> /\ e.to = <<d, t>>
    BY <2>2 DEF G!Edge
  <2> QED
    BY <1>0, <2>3
<1>2. ASSUME NEW R, \A r \in R : r.from \in Docs, NEW o, e \in G!Authored(G!Proper(R), o)
      PROVE  e.from \in G!Addresses /\ e.to \in G!Addresses
  <2>1. PICK r \in G!Proper(R) :
          e = G!Edge(<<r.from, 0>>, <<r.to, 0>>, r.relation, "authored", o, None)
    BY <1>2 DEF G!Authored
  <2>2. r.from \in Docs /\ r.to \in Docs
    BY <1>2 DEF G!Proper
  <2>3. e.from = <<r.from, 0>> /\ e.to = <<r.to, 0>>
    BY <2>1 DEF G!Edge
  <2> QED
    BY <1>0, <2>2, <2>3
<1>3. ASSUME e \in G!Observed PROVE e.from \in G!Addresses /\ e.to \in G!Addresses
  <2>1. PICK l \in {k \in catalog.links : G!Resolves(k)} :
          e = G!Edge(<<l.from, l.at>>, <<l.to, l.section>>, "references", "observed",
                     "markdown-link", l.line)
    BY <1>3 DEF G!Observed
  <2>2. l \in Links /\ l.to \in Docs /\ l.section \in Sections[l.to] \cup {0}
    BY DEF Drawn, G!Resolves
  <2>3. e.from = <<l.from, l.at>> /\ e.to = <<l.to, l.section>>
    BY <2>1 DEF G!Edge
  <2>4. l.from \in Docs /\ l.at \in Sections[l.from] \cup {0}
    BY <2>2 DEF G!Catalogued
  <2>5. <<l.from, l.at>> \in G!Addresses
    BY <1>0, <2>4
  <2>6. <<l.to, l.section>> \in G!Addresses
    BY <1>0, <2>2
  <2> QED
    BY <2>3, <2>5, <2>6
<1>4. \A r \in catalog.metadata : r.from \in Docs
  BY DEF G!Catalogued, Drawn
<1>5. \A r \in catalog.legacy : r.from \in Docs
  BY DEF G!Catalogued, Drawn
<1>6. \/ e \in G!Contained(Docs) \/ e \in G!Authored(G!Proper(catalog.metadata), "metadata")
      \/ e \in G!Observed \/ e \in G!Authored(G!Resolved, "legacy-metadata")
  BY Zenon DEF G!Edges
<1>7. e \in G!Authored(G!Resolved, "legacy-metadata")
        => e \in G!Authored(G!Proper(catalog.legacy), "legacy-metadata")
  <2>1. G!Resolved \subseteq G!Proper(catalog.legacy)
    BY DEF G!Resolved
  <2> QED
    BY <2>1 DEF G!Authored
<1> QED
  BY <1>1, <1>2, <1>3, <1>4, <1>5, <1>6, <1>7

\* The edges of a project join its addresses.
LEMMA EdgesJoin ==
  ASSUME G!Catalogued, Drawn
  PROVE  Joins(G!Edges, G!Addresses, query.start)
<1>1. \A e \in G!Edges : e.from \in G!Addresses /\ e.to \in G!Addresses
  BY EdgeIs
<1>2. G!Addresses \subseteq Nat \X Nat /\ IsFiniteSet(G!Addresses) /\ query.start \in G!Addresses
  BY AddressIs DEF Drawn
<1> QED
  BY <1>1, <1>2 DEF Joins

\* The provider shows the edges of an address: the Markdown always, the shards if
\* no relation is a path.
Shown == query.provider = "direct" \/ catalog.legacy = {}

Containing(S, e) ==
  \E c \in S : \E a \in Sections[c] :
    e = G!Edge(<<c, 0>>, <<c, a>>, "contains", "generated", "section-parser", None)

\* Either provider shows the edges of the Markdown, where it shows them all.
LEMMA ShardsShow ==
  ASSUME G!Catalogued, Drawn, Shown, NEW n \in G!Addresses, NEW e
  PROVE  e \in G!Incident(n) <=> e \in G!Edges /\ Back(e, walk.reverse) = n
<1>1. CASE query.provider = "direct"
  <2>1. G!Incident(n) = G!Direct(n, walk.reverse)
    BY <1>1 DEF G!Incident
  <2>2. e \in G!Direct(n, walk.reverse) <=> e \in G!Edges /\ Back(e, walk.reverse) = n
    BY DEF G!Direct, Back
  <2> QED
    BY <2>1, <2>2
<1>2. CASE query.provider # "direct"
  <2> DEFINE K == G!Contained(Docs)
             D == G!Dependencies
             O == G!Observed
  <2>1. G!Incident(n) = G!Shards(n, walk.reverse)
    BY <1>2 DEF G!Incident
  <2>2. G!Resolved = {}
    BY <1>2 DEF Shown, G!Resolved, G!Proper
  <2>3. G!Edges = K \cup D \cup O
    <3>1. G!Authored({}, "legacy-metadata") = {}
      BY DEF G!Authored
    <3>2. D = G!Authored(G!Proper(catalog.metadata), "metadata")
      BY <2>2 DEF G!Dependencies
    <3> QED
      BY <2>2, <3>1, <3>2 DEF G!Edges
  <2>4. ASSUME NEW x \in D PROVE x.from[2] = 0 /\ x.to[2] = 0
    <3>1. PICK r \in G!Proper(catalog.metadata) \cup G!Resolved :
            x = G!Edge(<<r.from, 0>>, <<r.to, 0>>, r.relation, "authored", "metadata", None)
      BY DEF G!Dependencies, G!Authored
    <3> QED
      BY <3>1 DEF G!Edge
  <2>5. PICK d \in Docs : \E t \in Sections[d] \cup {0} : n = <<d, t>>
    BY AddressIs
  <2>6. n[1] = d /\ d \in Docs
    BY <2>5
  <2>7. \A S : \A x : x \in G!Contained(S) <=> Containing(S, x)
    BY DEF G!Contained, Containing
  <2>8. ASSUME NEW x \in K
        PROVE  /\ x.from[2] = 0 /\ x.to[2] # 0 /\ x.from[1] = x.to[1]
               /\ \A S : x.from[1] \in S => x \in G!Contained(S)
    <3>1. PICK c \in Docs : \E a \in Sections[c] :
            x = G!Edge(<<c, 0>>, <<c, a>>, "contains", "generated", "section-parser", None)
      <4>1. Containing(Docs, x)
        BY <2>7
      <4> QED
        BY <4>1, Zenon DEF Containing
    <3>2. PICK a \in Sections[c] :
            x = G!Edge(<<c, 0>>, <<c, a>>, "contains", "generated", "section-parser", None)
      BY <3>1
    <3>3. x.from = <<c, 0>> /\ x.to = <<c, a>> /\ a # 0
      BY <3>2 DEF G!Edge, G!Catalogued
    <3>4. \A S : c \in S => Containing(S, x)
      BY <3>2 DEF Containing
    <3> QED
      BY <2>7, <3>3, <3>4
  <2>9. \A x : x \in G!Contained({n[1]}) => x \in K
    <3>1. \A x : Containing({n[1]}, x) => Containing(Docs, x)
      BY <2>6 DEF Containing
    <3> QED
      BY <2>7, <3>1
  <2>10. G!Shards(n, walk.reverse) =
           IF walk.reverse
           THEN {x \in O \cup (IF n[2] = 0 THEN D ELSE G!Contained({n[1]})) : x.to = n}
           ELSE {x \in O \cup (IF n[2] = 0 THEN G!Contained({n[1]}) \cup D ELSE {}) : x.from = n}
    BY DEF G!Shards
  <2> HIDE DEF K, D, O
  <2>11. \A x \in K : x.from = n \/ x.to = n => x \in G!Contained({n[1]})
    BY <2>8
  <2>12. CASE walk.reverse
    <3>1. \A x \in D : x.to = n => n[2] = 0
      BY <2>4
    <3>2. \A x \in K : x.to = n => n[2] # 0
      BY <2>8
    <3> QED
      BY <2>1, <2>3, <2>9, <2>10, <2>11, <2>12, <3>1, <3>2 DEF Back
  <2>13. CASE ~walk.reverse
    <3>1. \A x \in D : x.from = n => n[2] = 0
      BY <2>4
    <3>2. \A x \in K : x.from = n => n[2] = 0
      BY <2>8
    <3> QED
      BY <2>1, <2>3, <2>9, <2>10, <2>11, <2>13, <3>1, <3>2 DEF Back
  <2> QED
    BY <2>12, <2>13
<1> QED
  BY <1>1, <1>2

\* The rows of a plan in one direction: to a distance, and in all.
PlanTo(E, s, reverse, d) == UNION {PlanRows(E, s, reverse, k) : k \in 1 .. d}
PlanOf(E, q, reverse) ==
  UNION {PlanRows(E, q.start, reverse, k) : k \in IF q.transitive THEN Nat \ {0} ELSE {1}}
PlanWhole(E, q) ==
  PlanOf(E, q, FALSE) \cup (IF q.reverse THEN PlanOf(E, q, TRUE) ELSE {})
\* The rows of a reference query to a distance.
ReferencesTo(E, q, d, rows) ==
  /\ \A r \in rows : r.distance \in 1 .. d /\ r.reverse = q.reverse
  /\ \A k \in 1 .. d :
       ReferenceRows(E, q.start, q.reverse, k, {r \in rows : r.distance = k})

\* After d rounds a walk is at its end.
AtEnd(E, q, reverse, d) ==
  /\ d \in Nat \ {0}
  /\ IF q.transitive THEN Ring(E, q.start, reverse, d) = {} ELSE d = 1

\* The walk under way: what it has reached, asked and kept after its rounds, and
\* where it goes on.
Walking(E, q, w, bounds) ==
  /\ w.distance \in Nat /\ w.reverse \in BOOLEAN
  /\ w.reached = Seen(E, q.start, w.reverse, w.distance)
  /\ w.asked = UNION {Ring(E, q.start, w.reverse, k) : k \in {j \in Nat : j < w.distance}}
  /\ IF q.transitive \/ w.distance = 0
     THEN Frontier(E, q.start, w.reverse, w.distance, w.frontier)
     ELSE w.frontier = {} /\ w.distance = 1
  /\ q.command = "references" =>
       w.reverse = q.reverse /\ ReferencesTo(E, q, w.distance, w.rows)
  /\ q.command = "change-plan" =>
       /\ IsFiniteSet(w.frontier)
       /\ LeastFrontier(E, q.start, w.reverse, w.distance, w.frontier)
       /\ w.reverse => q.reverse /\ w.bounds = bounds
       /\ w.rows = (IF w.reverse THEN PlanOf(E, q, FALSE) ELSE {})
                     \cup PlanTo(E, q.start, w.reverse, w.distance)
\* The walk at its end.
Walked(E, q, w, bounds) ==
  /\ q.command = "references" =>
       \E d \in Nat : AtEnd(E, q, q.reverse, d) /\ ReferencesTo(E, q, d, w.rows)
  /\ q.command = "change-plan" =>
       w.rows = G!Planned(PlanWhole(E, q)) /\ w.bounds = bounds

\* The addresses whose boundaries are told.
Touching(E, q) ==
  IF q.transitive THEN UNION {Ring(E, q.start, FALSE, k) : k \in Nat} ELSE {q.start}
WalkShape(w) ==
  w = [pc |-> w.pc, reverse |-> w.reverse, distance |-> w.distance, rows |-> w.rows,
       frontier |-> w.frontier, reached |-> w.reached, asked |-> w.asked, bounds |-> w.bounds]
WalkFacts(E, q, w, bounds) ==
  /\ w.pc = "round" => Walking(E, q, w, bounds)
  /\ w.pc = "done" => Walked(E, q, w, bounds)
PlanAnswer(E, q, bounds) ==
  LET rows == G!Planned(PlanWhole(E, q)) IN
  [rows |-> rows, bounds |-> bounds,
   read |-> {r.address : r \in {x \in rows :
               ~x.reverse /\ x.relation = "depends_on" /\ x.authority = "authored"}},
   observed |-> IF q.reverse THEN "unknown"
                ELSE IF G!BagToSet(bounds) = {} THEN "complete" ELSE "bounded"]

\* What the provider tells of boundaries, and what the Markdown tells of them.
Facing == G!Boundaries(Touching(G!Edges, query))
Told == G!Occurrences(Touching(G!Edges, query))
GraphInv ==
  /\ Drawn /\ WalkShape(walk)
  /\ Shown => WalkFacts(G!Edges, query, walk, Facing)
  /\ query.provider = "shards" /\ query.command = "change-plan" /\ catalog.legacy = {}
       => first = PlanAnswer(G!Edges, query, Told)

-----------------------------------------------------------------------------
(* the references of a project: the steps *)

\* In a round the candidates are the rows of all edges to the next distance, and
\* the neighbours are the addresses there.
LEMMA CandidatesAre ==
  ASSUME G!Catalogued, Drawn, Shown,
         walk.distance \in Nat,
         walk.reached = Seen(G!Edges, query.start, walk.reverse, walk.distance),
         Frontier(G!Edges, query.start, walk.reverse, walk.distance, walk.frontier)
  PROVE  /\ \A r : r \in G!Candidates <=>
              Candidate(G!Edges, query.start, walk.reverse, walk.distance, walk.frontier, r)
         /\ G!Neighbours = Ring(G!Edges, query.start, walk.reverse, walk.distance + 1)
<1> DEFINE E == G!Edges
           s == query.start
           rev == walk.reverse
           d == walk.distance
           F == walk.frontier
<1>0. Joins(E, G!Addresses, s)
  BY EdgesJoin
<1>1. ASSUME NEW f \in F, NEW e PROVE e \in G!Incident(f.at) <=> e \in E /\ Back(e, rev) = f.at
  <2>1. f.at \in G!Addresses
    <3>1. f.at \in Ring(E, s, rev, d)
      BY DEF Frontier
    <3>2. Ring(E, s, rev, d) \subseteq G!Addresses
      BY <1>0, RingIs
    <3> QED
      BY <3>1, <3>2
  <2> QED
    BY <2>1, ShardsShow
<1>2. \A e : G!Peer(e) = Ahead(e, rev)
  BY DEF G!Peer, Ahead
<1>3. \A e, p : G!Row(e, p) = Record(e, p, rev, d + 1)
  BY <1>2, Zenon DEF G!Row, Record
<1>4. \A r : r \in G!Candidates <=>
        \E f \in F : \E e \in G!Incident(f.at) : G!Peer(e) \notin walk.reached /\ r = G!Row(e, f.path)
  BY DEF G!Candidates
<1>5. \A r : r \in G!Candidates <=> Candidate(E, s, rev, d, F, r)
  <2> HIDE DEF E, s, rev, d, F
  <2>1. walk.reached = Seen(E, s, rev, d)
    BY DEF E, s, rev, d
  <2> QED
    BY <1>1, <1>2, <1>3, <1>4, <2>1 DEF Candidate
<1>6. G!Neighbours = Ring(E, s, rev, d + 1)
  <2>1. ASSUME NEW r, Candidate(E, s, rev, d, F, r) PROVE r.address \in Ring(E, s, rev, d + 1)
    <3>1. \E f \in F, e \in E : Stems(E, s, rev, d + 1, r, f, e)
      BY <1>0, <2>1, CandidateIs
    <3> QED
      BY <3>1 DEF Stems
  <2>2. ASSUME NEW m \in Ring(E, s, rev, d + 1)
        PROVE  \E r : Candidate(E, s, rev, d, F, r) /\ r.address = m
    <3>1. PICK e : e \in Into(E, s, rev, d + 1, m)
      BY <1>0, CandidateOf
    <3>2. PICK f \in F : Candidate(E, s, rev, d, F, Record(e, f.path, rev, d + 1))
      BY <1>0, <3>1, CandidateOf
    <3>3. Record(e, f.path, rev, d + 1).address = m
      BY <3>1 DEF Record, Into
    <3> QED
      BY <3>2, <3>3
  <2>3. \A m : m \in G!Neighbours <=> \E r \in G!Candidates : m = r.address
    BY DEF G!Neighbours
  <2> DEFINE T == Ring(E, s, rev, d + 1)
             Is(r) == Candidate(E, s, rev, d, F, r)
  <2>4. /\ \A r : Is(r) => r.address \in T
        /\ \A m \in T : \E r : Is(r) /\ r.address = m
        /\ \A r : r \in G!Candidates <=> Is(r)
    BY <1>5, <2>1, <2>2
  <2> HIDE DEF T, Is
  <2>5. \A m : m \in G!Neighbours <=> m \in T
    BY <2>3, <2>4
  <2>6. G!Neighbours = T
    BY <2>5
  <2> QED
    BY <2>6 DEF T
<1> QED
  BY <1>5, <1>6

\* What a round does to the walk, whatever it keeps and goes on from.
LEMMA RoundIs ==
  ASSUME G!Catalogued, Drawn, WalkShape(walk), Shown, walk.pc = "round", walk.frontier # {},
         Walking(G!Edges, query, walk, Facing), NEW rows, NEW next, G!Round(rows, next)
  PROVE  /\ Frontier(G!Edges, query.start, walk.reverse, walk.distance, walk.frontier)
         /\ G!Neighbours = Ring(G!Edges, query.start, walk.reverse, walk.distance + 1)
         /\ \A r : r \in G!Candidates <=>
              Candidate(G!Edges, query.start, walk.reverse, walk.distance, walk.frontier, r)
         /\ WalkShape(walk') /\ walk'.pc = "round" /\ walk'.reverse = walk.reverse
         /\ walk'.distance = walk.distance + 1 /\ walk'.bounds = walk.bounds
         /\ walk'.reached = Seen(G!Edges, query.start, walk.reverse, walk.distance + 1)
         /\ walk'.asked = UNION {Ring(G!Edges, query.start, walk.reverse, k) :
                                   k \in {j \in Nat : j < walk.distance + 1}}
         /\ walk'.rows = walk.rows \cup rows
         /\ IF query.transitive THEN walk'.frontier = next
            ELSE walk'.frontier = {} /\ walk'.distance = 1
<1> DEFINE E == G!Edges
           s == query.start
           rev == walk.reverse
           d == walk.distance
           A(k) == Ring(E, s, rev, k)
<1>1. /\ d \in Nat /\ walk.reached = Seen(E, s, rev, d) /\ Frontier(E, s, rev, d, walk.frontier)
      /\ walk.asked = UNION {A(k) : k \in {j \in Nat : j < d}}
      /\ query.transitive \/ d = 0
  BY DEF Walking
<1>2. /\ \A r : r \in G!Candidates <=> Candidate(E, s, rev, d, walk.frontier, r)
      /\ G!Neighbours = A(d + 1)
  BY <1>1, CandidatesAre
<1>3. /\ walk'.pc = walk.pc /\ walk'.reverse = rev /\ walk'.distance = d + 1
      /\ walk'.bounds = walk.bounds /\ walk'.rows = walk.rows \cup rows
      /\ walk'.reached = walk.reached \cup G!Neighbours
      /\ walk'.asked = walk.asked \cup {f.at : f \in walk.frontier}
      /\ walk'.frontier = IF query.transitive THEN next ELSE {}
      /\ WalkShape(walk')
  BY DEF G!Round, WalkShape
<1>4. walk'.reached = Seen(E, s, rev, d + 1)
  <2>1. Seen(E, s, rev, d + 1) = Seen(E, s, rev, d) \cup A(d + 1)
    BY <1>1, SeenIs
  <2> QED
    BY <1>1, <1>2, <1>3, <2>1
<1>5. walk'.asked = UNION {A(k) : k \in {j \in Nat : j < d + 1}}
  <2>1. {f.at : f \in walk.frontier} = A(d)
    BY <1>1 DEF Frontier
  <2> HIDE DEF A, d
  <2>2. {j \in Nat : j < d + 1} = {j \in Nat : j < d} \cup {d}
    BY <1>1
  <2> QED
    BY <1>1, <1>3, <2>1, <2>2
<1>6. ~query.transitive => d + 1 = 1
  BY <1>1
<1> HIDE DEF E, s, rev, d, A
<1> QED
  BY <1>1, <1>2, <1>3, <1>4, <1>5, <1>6 DEF E, s, rev, d, A

\* A round of a reference query keeps what is known of the walk.
LEMMA TraverseWalks ==
  ASSUME G!Catalogued, Drawn, WalkShape(walk), Shown, Walking(G!Edges, query, walk, Facing),
         G!Traverse
  PROVE  WalkShape(walk') /\ walk'.pc = "round" /\ Walking(G!Edges, query, walk', Facing)
<1> DEFINE E == G!Edges
           s == query.start
           rev == walk.reverse
           d == walk.distance
           A == Ring(E, s, rev, d + 1)
<1>1. /\ walk.pc = "round" /\ walk.frontier # {} /\ query.command = "references"
      /\ d \in Nat /\ rev \in BOOLEAN /\ rev = query.reverse
      /\ ReferencesTo(E, query, d, walk.rows)
  BY DEF G!Traverse, Walking
<1>2. PICK pick \in [G!Neighbours -> G!Candidates] :
        /\ \A m \in G!Neighbours : pick[m] \in G!Preferred(G!To(m))
        /\ G!Round({pick[m] : m \in G!Neighbours},
                   {[at |-> m, path |-> pick[m].path] : m \in G!Neighbours})
  BY Zenon DEF G!Traverse
<1> DEFINE rows == {pick[m] : m \in A}
           next == {[at |-> m, path |-> pick[m].path] : m \in A}
<1>3. /\ Frontier(E, s, rev, d, walk.frontier) /\ G!Neighbours = A
      /\ \A r : r \in G!Candidates <=> Candidate(E, s, rev, d, walk.frontier, r)
      /\ WalkShape(walk') /\ walk'.pc = "round" /\ walk'.reverse = rev
      /\ walk'.distance = d + 1 /\ walk'.bounds = walk.bounds
      /\ walk'.reached = Seen(E, s, rev, d + 1)
      /\ walk'.asked = UNION {Ring(E, s, rev, k) : k \in {j \in Nat : j < d + 1}}
      /\ walk'.rows = walk.rows \cup {pick[m] : m \in G!Neighbours}
      /\ IF query.transitive
         THEN walk'.frontier = {[at |-> m, path |-> pick[m].path] : m \in G!Neighbours}
         ELSE walk'.frontier = {} /\ walk'.distance = 1
  BY <1>1, <1>2, RoundIs
<1>4. \A m \in A : pick[m] \in G!Preferred({c \in G!Candidates : c.address = m})
  BY <1>2, <1>3 DEF G!To
<1>5. Joins(E, G!Addresses, s)
  BY EdgesJoin
<1>6. /\ ReferenceRows(E, s, rev, d + 1, rows) /\ rows \subseteq G!Candidates
      /\ \A m \in A : pick[m].address = m /\ pick[m].path \in Found(E, s, rev, d + 1)
                      /\ G!Last(pick[m].path) = m
  <2> HIDE DEF E, s, rev, d
  <2>1. d \in Nat
    BY <1>1
  <2> DEFINE C == G!Candidates
             F == walk.frontier
  <2>2. Frontier(E, s, rev, d, F) /\ Offers(E, s, rev, d, F, C)
    BY <1>3 DEF Offers
  <2>3. Picks(C, A, pick)
    BY <1>4 DEF Picks
  <2> HIDE DEF C, F
  <2>4. Picked(E, s, rev, d + 1, C, pick)
    BY <1>5, <2>1, <2>2, <2>3, ReferenceRound
  <2> QED
    BY <2>4 DEF C, Picked
<1>7. Frontier(E, s, rev, d + 1, next)
  <2> HIDE DEF E, s, rev, d
  <2>1. \A f \in next : \E m \in A : f.at = m /\ f.path = pick[m].path
    OBVIOUS
  <2>2. \A m \in A : \E f \in next : f.at = m
    <3> TAKE m \in A
    <3>1. [at |-> m, path |-> pick[m].path] \in next
      OBVIOUS
    <3> QED
      BY <3>1
  <2> DEFINE T == A
  <2> HIDE DEF next, A
  <2>3. {f.at : f \in next} = A
    BY <2>1, <2>2
  <2> QED
    BY <1>6, <2>1, <2>3 DEF Frontier, A
<1>8. ReferencesTo(E, query, d + 1, walk.rows \cup rows)
  <2>1. \A r \in rows : r.distance = d + 1 /\ r.reverse = rev
    BY <1>3, <1>6 DEF Candidate, Record
  <2>2. /\ \A r \in walk.rows : r.distance \in 1 .. d /\ r.reverse = rev
        /\ \A k \in 1 .. d : ReferenceRows(E, s, rev, k, {r \in walk.rows : r.distance = k})
    BY <1>1 DEF ReferencesTo
  <2> HIDE DEF rows, E, s, rev, d
  <2>3. \A r \in walk.rows \cup rows : r.distance \in 1 .. d + 1 /\ r.reverse = rev
    BY <1>1, <2>1, <2>2 DEF d
  <2>4. ASSUME NEW k \in 1 .. d + 1
        PROVE  ReferenceRows(E, s, rev, k, {r \in walk.rows \cup rows : r.distance = k})
    <3>1. CASE k = d + 1
      <4>1. {r \in walk.rows \cup rows : r.distance = k} = rows
        BY <1>1, <2>1, <2>2, <3>1 DEF d
      <4> QED
        BY <1>6, <3>1, <4>1
    <3>2. CASE k # d + 1
      <4>1. k \in 1 .. d
        BY <1>1, <3>2 DEF d
      <4>2. {r \in walk.rows \cup rows : r.distance = k} = {r \in walk.rows : r.distance = k}
        BY <2>1, <3>2
      <4> QED
        BY <2>2, <4>1, <4>2
    <3> QED
      BY <3>1, <3>2
  <2> QED
    BY <1>1, <2>3, <2>4 DEF ReferencesTo, s, rev
<1>9. walk'.distance \in Nat /\ walk'.distance # 0
  BY <1>1, <1>3
<1> HIDE DEF rows, next, A, E, s, rev, d
<1>10. /\ walk'.rows = walk.rows \cup rows
       /\ IF query.transitive THEN walk'.frontier = next
          ELSE walk'.frontier = {} /\ walk'.distance = 1
  BY <1>3 DEF rows, next
<1>11. Walking(E, query, walk', Facing)
  <2>1. /\ s = query.start /\ walk'.reverse = rev /\ walk'.distance = d + 1
        /\ walk'.reached = Seen(E, s, rev, d + 1)
        /\ walk'.asked = UNION {Ring(E, s, rev, k) : k \in {j \in Nat : j < d + 1}}
        /\ query.command = "references" /\ query.command # "change-plan"
    BY <1>1, <1>3 DEF s
  <2> QED
    BY <1>1, <1>7, <1>8, <1>9, <1>10, <2>1 DEF Walking
<1> QED
  BY <1>3, <1>11 DEF E

\* So does a round of a plan.
LEMMA TraverseReasonsWalks ==
  ASSUME G!Catalogued, Drawn, WalkShape(walk), Shown, Walking(G!Edges, query, walk, Facing),
         G!TraverseReasons
  PROVE  WalkShape(walk') /\ walk'.pc = "round" /\ Walking(G!Edges, query, walk', Facing)
<1> DEFINE E == G!Edges
           s == query.start
           rev == walk.reverse
           d == walk.distance
           A == Ring(E, s, rev, d + 1)
           C == G!Candidates
           next == {G!Onward(m) : m \in A}
           F == walk.frontier
<1>1. /\ walk.pc = "round" /\ walk.frontier # {} /\ query.command = "change-plan"
      /\ d \in Nat /\ rev \in BOOLEAN
      /\ IsFiniteSet(F) /\ LeastFrontier(E, s, rev, d, F)
      /\ rev => query.reverse /\ walk.bounds = Facing
      /\ walk.rows = (IF rev THEN PlanOf(E, query, FALSE) ELSE {}) \cup PlanTo(E, s, rev, d)
  BY DEF G!TraverseReasons, Walking
<1>2. G!Round(C, {G!Onward(m) : m \in G!Neighbours})
  BY Zenon DEF G!TraverseReasons
<1>3. /\ Frontier(E, s, rev, d, F) /\ G!Neighbours = A
      /\ \A r : r \in C <=> Candidate(E, s, rev, d, F, r)
      /\ WalkShape(walk') /\ walk'.pc = "round" /\ walk'.reverse = rev
      /\ walk'.distance = d + 1 /\ walk'.bounds = walk.bounds
      /\ walk'.reached = Seen(E, s, rev, d + 1)
      /\ walk'.asked = UNION {Ring(E, s, rev, k) : k \in {j \in Nat : j < d + 1}}
      /\ walk'.rows = walk.rows \cup C
      /\ IF query.transitive THEN walk'.frontier = {G!Onward(m) : m \in G!Neighbours}
         ELSE walk'.frontier = {} /\ walk'.distance = 1
  BY <1>1, <1>2, RoundIs
<1>4. Joins(E, G!Addresses, s)
  BY EdgesJoin
<1>5. Offers(E, s, rev, d, F, C)
  BY <1>3 DEF Offers
<1>6. ASSUME NEW m \in A
      PROVE  /\ G!Onward(m).at = m /\ G!Onward(m).path \in Found(E, s, rev, d + 1)
             /\ G!Last(G!Onward(m).path) = m
             /\ \A q \in Found(E, s, rev, d + 1) :
                  G!Last(q) = m => q = G!Onward(m).path \/ G!Before(G!Onward(m).path, q)
  <2>1. GoesOn(E, s, rev, d + 1, C, m)
    <3> HIDE DEF E, s, rev, d, C, F
    <3> QED
      BY <1>1, <1>3, <1>4, <1>5, PlanOnward
  <2>2. /\ G!Onward(m).at = m
        /\ G!Onward(m).path = G!LeastPath({c.path : c \in {r \in C : r.address = m}})
    BY DEF G!Onward, G!To
  <2> QED
    BY <2>1, <2>2 DEF GoesOn
<1>7. Frontier(E, s, rev, d + 1, next) /\ LeastFrontier(E, s, rev, d + 1, next)
  <2>1. \A f \in next : \E m \in A : f = G!Onward(m)
    OBVIOUS
  <2>2. \A m \in A : G!Onward(m) \in next
    OBVIOUS
  <2> HIDE DEF next, A
  <2>3. {f.at : f \in next} = A
    BY <1>6, <2>1, <2>2
  <2>4. Frontier(E, s, rev, d + 1, next)
    BY <1>6, <2>1, <2>3 DEF Frontier, A
  <2>5. LeastFrontier(E, s, rev, d + 1, next)
    BY <1>6, <2>1 DEF LeastFrontier
  <2> QED
    BY <2>4, <2>5
<1>8. IsFiniteSet(next)
  <2> DEFINE h == [m \in A |-> G!Onward(m)]
  <2>1. IsFiniteSet(A)
    <3>1. A \subseteq G!Addresses
      <4>1. d + 1 \in Nat
        BY <1>1
      <4> HIDE DEF E, s, rev, d
      <4> QED
        BY <1>4, <4>1, RingIs
    <3>2. IsFiniteSet(G!Addresses)
      BY <1>4 DEF Joins
    <3> HIDE DEF A
    <3> QED
      BY <3>1, <3>2, FS_Subset
  <2>2. next = {h[m] : m \in A} /\ DOMAIN h = A
    OBVIOUS
  <2> HIDE DEF next, h, A
  <2> QED
    BY <2>1, <2>2, FiniteImage
<1>9. walk'.rows = (IF rev THEN PlanOf(E, query, FALSE) ELSE {}) \cup PlanTo(E, s, rev, d + 1)
  <2>1. \A r : Candidate(E, s, rev, d, F, r) <=> r \in PlanRows(E, s, rev, d + 1)
    <3> HIDE DEF E, s, rev, d, F
    <3> QED
      BY <1>1, <1>3, <1>4, PlanRound
  <2>2. C = PlanRows(E, s, rev, d + 1)
    BY <1>3, <2>1
  <2>3. PlanTo(E, s, rev, d + 1) = PlanTo(E, s, rev, d) \cup PlanRows(E, s, rev, d + 1)
    <3>1. 1 .. d + 1 = (1 .. d) \cup {d + 1}
      BY <1>1
    <3> HIDE DEF E, s, rev, d
    <3> QED
      BY <3>1 DEF PlanTo
  <2> HIDE DEF E, s, rev, d, C
  <2> QED
    BY <1>1, <1>3, <2>2, <2>3
<1>10. walk'.distance \in Nat /\ walk'.distance # 0
  BY <1>1, <1>3
<1>11. IsFiniteSet({}) /\ LeastFrontier(E, s, rev, d + 1, {})
  BY FS_EmptySet DEF LeastFrontier
<1> HIDE DEF next, A, E, s, rev, d, C, F
<1>12. IF query.transitive THEN walk'.frontier = next
       ELSE walk'.frontier = {} /\ walk'.distance = 1
  BY <1>3 DEF next
<1>13. Walking(E, query, walk', Facing)
  <2>1. /\ s = query.start /\ walk'.reverse = rev /\ walk'.distance = d + 1
        /\ walk'.reached = Seen(E, s, rev, d + 1)
        /\ walk'.asked = UNION {Ring(E, s, rev, k) : k \in {j \in Nat : j < d + 1}}
        /\ query.command # "references" /\ query.command = "change-plan"
        /\ walk'.bounds = walk.bounds
    BY <1>1, <1>3 DEF s
  <2>2. IsFiniteSet(walk'.frontier) /\ LeastFrontier(E, s, rev, d + 1, walk'.frontier)
    BY <1>7, <1>8, <1>11, <1>12
  <2> QED
    BY <1>1, <1>7, <1>9, <1>10, <1>12, <2>1, <2>2 DEF Walking
<1> QED
  BY <1>3, <1>13 DEF E

\* How a direction of a walk begins.
LEMMA WalkBegins ==
  ASSUME Drawn, NEW rev \in BOOLEAN, NEW rows, NEW bounds,
         query.command = "references" => rev = query.reverse /\ rows = {},
         query.command = "change-plan" =>
           /\ rev => query.reverse /\ bounds = Facing
           /\ rows = IF rev THEN PlanOf(G!Edges, query, FALSE) ELSE {}
  PROVE  /\ WalkShape(G!Walk("round", rev, rows, bounds))
         /\ Walking(G!Edges, query, G!Walk("round", rev, rows, bounds), Facing)
<1> DEFINE w == G!Walk("round", rev, rows, bounds)
           E == G!Edges
           s == query.start
<1>1. /\ w.pc = "round" /\ w.reverse = rev /\ w.distance = 0 /\ w.rows = rows
      /\ w.frontier = {[at |-> s, path |-> <<s>>]} /\ w.reached = {s} /\ w.asked = {}
      /\ w.bounds = bounds /\ WalkShape(w)
  BY DEF G!Walk, WalkShape
<1>2. Found(E, s, rev, 0) = {<<s>>} /\ Seen(E, s, rev, 0) = {s} /\ G!Last(<<s>>) = s
  BY LowestIs DEF G!Last
<1>3. Ring(E, s, rev, 0) = {s}
  BY <1>2 DEF Ring
<1> HIDE DEF w, E, s
<1>4. Frontier(E, s, rev, 0, w.frontier) /\ LeastFrontier(E, s, rev, 0, w.frontier)
  BY <1>1, <1>2, <1>3 DEF Frontier, LeastFrontier
<1>5. ReferencesTo(E, query, 0, {}) /\ PlanTo(E, s, rev, 0) = {}
  <2>1. \A k : k \notin 1 .. 0
    OBVIOUS
  <2> QED
    BY <2>1 DEF ReferencesTo, PlanTo
<1>6. {j \in Nat : j < 0} = {} /\ IsFiniteSet(w.frontier)
  <2>1. {j \in Nat : j < 0} = {}
    OBVIOUS
  <2> DEFINE f == [at |-> s, path |-> <<s>>]
  <2>2. w.frontier = {f}
    BY <1>1
  <2> HIDE DEF f
  <2> QED
    BY <2>1, <2>2, FS_Singleton
<1>7. Walking(E, query, w, Facing)
  <2>1. UNION {Ring(E, s, rev, k) : k \in {j \in Nat : j < 0}} = {}
    BY <1>6
  <2>2. query.command = "change-plan" =>
          w.rows = (IF w.reverse THEN PlanOf(E, query, FALSE) ELSE {}) \cup PlanTo(E, s, w.reverse, 0)
    BY <1>1, <1>5 DEF E
  <2>3. query.command = "references" =>
          w.reverse = query.reverse /\ ReferencesTo(E, query, 0, w.rows)
    BY <1>1, <1>5
  <2>4. query.command = "change-plan" => (w.reverse => query.reverse /\ w.bounds = Facing)
    BY <1>1
  <2>5. s = query.start
    BY DEF s
  <2>6. w.asked = UNION {Ring(E, s, w.reverse, k) : k \in {j \in Nat : j < w.distance}}
    BY <1>1, <2>1
  <2>7. /\ w.distance = 0 /\ w.distance \in Nat /\ w.reverse \in BOOLEAN /\ IsFiniteSet(w.frontier)
        /\ w.reached = Seen(E, s, w.reverse, w.distance)
        /\ Frontier(E, s, w.reverse, w.distance, w.frontier)
        /\ LeastFrontier(E, s, w.reverse, w.distance, w.frontier)
    BY <1>1, <1>2, <1>4, <1>6
  <2>8. query.command = "references" => ReferencesTo(E, query, w.distance, w.rows)
    BY <2>3, <2>7
  <2>9. query.command = "change-plan" =>
          w.rows = (IF w.reverse THEN PlanOf(E, query, FALSE) ELSE {})
                     \cup PlanTo(E, query.start, w.reverse, w.distance)
    BY <2>2, <2>5, <2>7
  <2> QED
    BY <2>3, <2>4, <2>5, <2>6, <2>7, <2>8, <2>9 DEF Walking
<1> QED
  BY <1>1, <1>7 DEF w, E

\* A query that is not refused begins a walk.
LEMMA StartWalks ==
  ASSUME Drawn, WalkShape(walk), G!Start
  PROVE  WalkShape(walk') /\ WalkFacts(G!Edges, query, walk', Facing)
<1>1. \/ walk' = [walk EXCEPT !.pc = "refused"]
      \/ walk' = G!Walk("round", query.command = "references" /\ query.reverse, {}, G!EmptyBag)
  BY DEF G!Start
<1>2. CASE walk' = [walk EXCEPT !.pc = "refused"]
  <2>1. walk'.pc = "refused" /\ WalkShape(walk')
    BY <1>2 DEF WalkShape
  <2> QED
    BY <2>1 DEF WalkFacts
<1>3. CASE walk' = G!Walk("round", query.command = "references" /\ query.reverse, {}, G!EmptyBag)
  <2> DEFINE rev == query.command = "references" /\ query.reverse
  <2>1. rev \in BOOLEAN /\ (query.command = "references" => rev = query.reverse)
    BY DEF Drawn
  <2>2. query.command = "change-plan" => ~rev
    OBVIOUS
  <2> HIDE DEF rev
  <2>3. /\ WalkShape(G!Walk("round", rev, {}, G!EmptyBag))
        /\ Walking(G!Edges, query, G!Walk("round", rev, {}, G!EmptyBag), Facing)
    BY <2>1, <2>2, WalkBegins
  <2>4. walk' = G!Walk("round", rev, {}, G!EmptyBag) /\ walk'.pc = "round"
    BY <1>3 DEF rev, G!Walk
  <2> QED
    BY <2>3, <2>4 DEF WalkFacts
<1> QED
  BY <1>1, <1>2, <1>3

\* The rows of a plan at a distance lead to the addresses there.
LEMMA PlanReaches ==
  ASSUME NEW E, NEW s, NEW A, Joins(E, A, s), NEW reverse, NEW k \in Nat \ {0}
  PROVE  \A m : m \in Ring(E, s, reverse, k) <=> \E r \in PlanRows(E, s, reverse, k) : r.address = m
<1>1. k - 1 \in Nat /\ (k - 1) + 1 = k
  OBVIOUS
<1>2. \A r : r \in PlanRows(E, s, reverse, k) <=>
        \E m \in Ring(E, s, reverse, k) : \E e \in Into(E, s, reverse, k, m) :
          r = Record(e, Best(E, s, reverse, k - 1, Back(e, reverse)), reverse, k)
  BY DEF PlanRows
<1>3. ASSUME NEW m \in Ring(E, s, reverse, k)
      PROVE  \E r \in PlanRows(E, s, reverse, k) : r.address = m
  <2> DEFINE j == k - 1
  <2>0. j \in Nat /\ m \in Ring(E, s, reverse, j + 1)
    BY <1>1
  <2> HIDE DEF j
  <2>a. /\ m \notin Seen(E, s, reverse, j)
        /\ \E e \in E : Back(e, reverse) \in Ring(E, s, reverse, j) /\ Ahead(e, reverse) = m
    BY <2>0, RingIs
  <2>1. PICK e \in E : Back(e, reverse) \in Ring(E, s, reverse, j) /\ Ahead(e, reverse) = m
    BY <2>a
  <2>2. e \in Into(E, s, reverse, k, m)
    BY <2>1 DEF Into, j
  <2>3. Record(e, Best(E, s, reverse, k - 1, Back(e, reverse)), reverse, k).address = m
    BY <2>1 DEF Record
  <2> QED
    BY <1>2, <2>2, <2>3
<1>4. ASSUME NEW r \in PlanRows(E, s, reverse, k) PROVE r.address \in Ring(E, s, reverse, k)
  <2>1. PICK m \in Ring(E, s, reverse, k) : \E e \in Into(E, s, reverse, k, m) :
          r = Record(e, Best(E, s, reverse, k - 1, Back(e, reverse)), reverse, k)
    BY <1>2
  <2>2. r.address = m
    BY <2>1 DEF Into, Record
  <2> QED
    BY <2>1, <2>2
<1> QED
  BY <1>3, <1>4

Near(E, s, reverse, d) == UNION {Ring(E, s, reverse, k) : k \in {j \in Nat : j < d}}
Ever(E, s, reverse) == UNION {Ring(E, s, reverse, k) : k \in Nat}

\* At the end of a walk the rounds have found the plan of a direction whole, and
\* told the boundaries of all that it touches.
LEMMA EndIsWhole ==
  ASSUME NEW E, NEW q, NEW A, Joins(E, A, q.start), NEW reverse, NEW d, AtEnd(E, q, reverse, d)
  PROVE  /\ PlanTo(E, q.start, reverse, d) = PlanOf(E, q, reverse)
         /\ q.transitive => Near(E, q.start, reverse, d) = Ever(E, q.start, reverse)
<1> DEFINE s == q.start
<1>1. d \in Nat \ {0} /\ (q.transitive => Ring(E, s, reverse, d) = {}) /\ (~q.transitive => d = 1)
  BY DEF AtEnd
<1>2. CASE ~q.transitive
  <2>1. 1 .. d = {1}
    BY <1>1, <1>2
  <2> QED
    BY <1>2, <2>1 DEF PlanTo, PlanOf
<1>3. CASE q.transitive
  <2>1. ASSUME NEW k \in Nat, d <= k PROVE Ring(E, s, reverse, k) = {}
    <3> HIDE DEF s
    <3>1. Joins(E, A, s)
      BY DEF s
    <3> QED
      BY <1>1, <1>3, <2>1, <3>1, NothingFarther
  <2>2. \A k \in Nat : d <= k => PlanRows(E, s, reverse, k) = {}
    BY <2>1 DEF PlanRows
  <2> DEFINE rows(k) == PlanRows(E, s, reverse, k)
             at(k) == Ring(E, s, reverse, k)
  <2>3. /\ \A k \in Nat : d <= k => rows(k) = {} /\ at(k) = {}
        /\ PlanTo(E, s, reverse, d) = UNION {rows(k) : k \in 1 .. d}
        /\ PlanOf(E, q, reverse) = UNION {rows(k) : k \in Nat \ {0}}
    BY <1>3, <2>1, <2>2 DEF PlanTo, PlanOf
  <2> HIDE DEF rows, at
  <2>4. UNION {rows(k) : k \in 1 .. d} = UNION {rows(k) : k \in Nat \ {0}}
    <3>1. \A k \in Nat \ {0} : k \in 1 .. d \/ rows(k) = {}
      BY <1>1, <2>3
    <3>2. 1 .. d \subseteq Nat \ {0}
      BY <1>1
    <3> QED
      BY <3>1, <3>2
  <2>5. UNION {at(k) : k \in {j \in Nat : j < d}} = UNION {at(k) : k \in Nat}
    <3>1. \A k \in Nat : k < d \/ at(k) = {}
      BY <1>1, <2>3
    <3> QED
      BY <3>1
  <2> QED
    BY <2>3, <2>4, <2>5 DEF at, Near, Ever
<1> QED
  BY <1>2, <1>3

\* What the walk at its end tells of boundaries.
LEMMA EndFaces ==
  ASSUME G!Catalogued, Drawn, Walking(G!Edges, query, walk, Facing), query.command = "change-plan",
         ~walk.reverse, AtEnd(G!Edges, query, FALSE, walk.distance)
  PROVE  G!Bounds = Facing
<1> DEFINE E == G!Edges
           s == query.start
           d == walk.distance
           no == FALSE
           at(k) == Ring(E, s, no, k)
<1>1. /\ walk.reverse = FALSE /\ walk.rows = PlanTo(E, s, no, d)
      /\ walk.asked = UNION {at(k) : k \in {j \in Nat : j < d}}
  BY DEF Walking
<1>a. AtEnd(E, query, no, d)
  OBVIOUS
<1>b. Touching(E, query) = IF query.transitive THEN UNION {at(k) : k \in Nat} ELSE {s}
  BY DEF Touching
<1> HIDE DEF no
<1>2. Joins(E, G!Addresses, s)
  BY EdgesJoin
<1>3. /\ d \in Nat \ {0} /\ (~query.transitive => d = 1)
      /\ query.transitive => UNION {at(k) : k \in {j \in Nat : j < d}} = UNION {at(k) : k \in Nat}
  <2>1. /\ d \in Nat \ {0} /\ (~query.transitive => d = 1)
    BY <1>a DEF AtEnd
  <2>2. query.transitive => Near(E, query.start, no, d) = Ever(E, query.start, no)
    <3> HIDE DEF E, d, at
    <3> QED
      BY <1>2, <1>a, EndIsWhole
  <2>3. query.transitive => Near(E, s, no, d) = Ever(E, s, no)
    BY <2>2
  <2> HIDE DEF E, s, d
  <2> QED
    BY <2>1, <2>3 DEF Near, Ever
<1>4. at(0) = {s}
  BY <1>2, RingIs
<1>5. Touching(E, query) = IF query.transitive THEN UNION {at(k) : k \in Nat} ELSE {s}
  BY <1>b
<1>6. \A m : m \in {r.address : r \in walk.rows} <=> \E k \in 1 .. d : m \in at(k)
  <2>1. ASSUME NEW k \in 1 .. d
        PROVE  \A m : m \in Ring(E, s, no, k) <=> \E r \in PlanRows(E, s, no, k) : r.address = m
    <3>1. k \in Nat \ {0}
      BY <1>3
    <3> HIDE DEF E, s, d, at
    <3> QED
      BY <1>2, <3>1, PlanReaches
  <2>2. \A r : r \in walk.rows <=> \E k \in 1 .. d : r \in PlanRows(E, s, no, k)
    BY <1>1 DEF PlanTo
  <2>3. \A k \in 1 .. d : at(k) = Ring(E, s, no, k)
    OBVIOUS
  <2> HIDE DEF E, s, d, at
  <2> QED
    BY <2>1, <2>2, <2>3
<1> HIDE DEF E, s, d, at
<1>7. CASE ~query.transitive
  <2>1. {r.address : r \in {x \in walk.rows : query.transitive}} = {}
    BY <1>7
  <2>2. {j \in Nat : j < d} = {0}
    BY <1>3, <1>7
  <2>3. walk.asked = {s}
    BY <1>1, <1>4, <2>2
  <2>4. G!Touched = {s}
    BY <2>1, <2>3 DEF G!Touched, s
  <2> QED
    BY <1>1, <1>5, <1>7, <2>4 DEF G!Bounds, Facing, E
<1>8. CASE query.transitive
  <2>1. {r.address : r \in {x \in walk.rows : query.transitive}} = {r.address : r \in walk.rows}
    BY <1>8
  <2>2. {s} \cup {r.address : r \in walk.rows} = UNION {at(k) : k \in Nat}
    <3>1. \A m : m \in UNION {at(k) : k \in Nat} => m \in at(0) \/ \E k \in 1 .. d : m \in at(k)
      <4>1. \A m : m \in UNION {at(k) : k \in Nat} => \E k \in {j \in Nat : j < d} : m \in at(k)
        BY <1>3, <1>8
      <4>2. \A k \in {j \in Nat : j < d} : k = 0 \/ k \in 1 .. d
        BY <1>3
      <4> QED
        BY <4>1, <4>2
    <3>2. \A k \in 1 .. d : k \in Nat
      BY <1>3
    <3>3. \A m : m \in {s} \cup {r.address : r \in walk.rows} <=>
                   m \in at(0) \/ \E k \in 1 .. d : m \in at(k)
      BY <1>4, <1>6
    <3>4. \A m : m \in at(0) \/ (\E k \in 1 .. d : m \in at(k)) => m \in UNION {at(k) : k \in Nat}
      BY <3>2
    <3> QED
      BY <3>1, <3>3, <3>4
  <2>3. G!Touched = UNION {at(k) : k \in Nat}
    BY <1>1, <1>3, <1>8, <2>1, <2>2 DEF G!Touched, s
  <2> QED
    BY <1>1, <1>5, <1>8, <2>3 DEF G!Bounds, Facing, E
<1> QED
  BY <1>7, <1>8

\* A walk that finds nothing more ends, or turns round.
LEMMA FinishWalks ==
  ASSUME G!Catalogued, Drawn, WalkShape(walk), Shown, Walking(G!Edges, query, walk, Facing),
         G!Finish
  PROVE  WalkShape(walk') /\ WalkFacts(G!Edges, query, walk', Facing)
<1> DEFINE E == G!Edges
           s == query.start
           rev == walk.reverse
           d == walk.distance
<1>1. /\ walk.pc = "round" /\ walk.frontier = {} /\ d \in Nat /\ rev \in BOOLEAN
      /\ IF query.transitive \/ d = 0 THEN Frontier(E, s, rev, d, {}) ELSE d = 1
      /\ query.command = "references" => rev = query.reverse /\ ReferencesTo(E, query, d, walk.rows)
      /\ query.command = "change-plan" =>
           /\ rev => query.reverse /\ walk.bounds = Facing
           /\ walk.rows = (IF rev THEN PlanOf(E, query, FALSE) ELSE {}) \cup PlanTo(E, s, rev, d)
  BY DEF G!Finish, Walking
<1>2. Joins(E, G!Addresses, s)
  BY EdgesJoin
<1>3. AtEnd(E, query, rev, d)
  <2>1. Frontier(E, s, rev, d, {}) => Ring(E, s, rev, d) = {}
    BY DEF Frontier
  <2>2. Ring(E, s, rev, 0) = {s}
    BY <1>2, RingIs
  <2> HIDE DEF E, s, rev, d
  <2>3. d # 0
    BY <1>1, <2>1, <2>2
  <2> QED
    BY <1>1, <2>1, <2>3 DEF AtEnd, s
<1>4. CASE query.command = "references"
  <2>1. walk' = [walk EXCEPT !.pc = "done", !.bounds = G!Bounds]
    BY <1>4 DEF G!Finish
  <2>2. walk'.pc = "done" /\ walk'.rows = walk.rows /\ WalkShape(walk')
    BY <2>1 DEF WalkShape
  <2>3. ReferencesTo(E, query, d, walk'.rows) /\ AtEnd(E, query, query.reverse, d) /\ d \in Nat
    BY <1>1, <1>3, <1>4, <2>2
  <2>4. Walked(E, query, walk', Facing)
    <3> HIDE DEF E, d
    <3> QED
      BY <1>4, <2>3 DEF Walked
  <2> QED
    BY <2>2, <2>4 DEF WalkFacts
<1>5. CASE query.command = "change-plan"
  <2>1. PlanTo(E, s, rev, d) = PlanOf(E, query, rev)
    BY <1>2, <1>3, EndIsWhole
  <2>2. /\ walk.rows = (IF rev THEN PlanOf(E, query, FALSE) ELSE {}) \cup PlanOf(E, query, rev)
        /\ rev => query.reverse /\ walk.bounds = Facing
    BY <1>1, <1>5, <2>1
  <2>3. G!Bounds = Facing
    <3>1. CASE rev
      BY <2>2, <3>1 DEF G!Bounds
    <3>2. CASE ~rev
      BY <1>1, <1>3, <1>5, <3>2, EndFaces
    <3> QED
      BY <3>1, <3>2
  <2>4. CASE query.reverse /\ ~rev
    <3>1. walk' = G!Walk("round", TRUE, walk.rows, Facing)
      BY <1>5, <2>3, <2>4 DEF G!Finish
    <3>2. walk.rows = PlanOf(E, query, FALSE)
      BY <1>1, <2>2, <2>4
    <3>3. WalkShape(walk') /\ Walking(E, query, walk', Facing) /\ walk'.pc = "round"
      <4>1. walk'.pc = "round"
        BY <3>1 DEF G!Walk
      <4> HIDE DEF rev, d, s
      <4> QED
        BY <1>5, <2>4, <3>1, <3>2, <4>1, WalkBegins
    <3> QED
      BY <3>3 DEF WalkFacts
  <2>5. CASE ~(query.reverse /\ ~rev)
    <3>1. walk' = [walk EXCEPT !.pc = "done", !.bounds = Facing, !.rows = G!Planned(@)]
      BY <1>5, <2>3, <2>5 DEF G!Finish
    <3>2. /\ walk'.pc = "done" /\ walk'.rows = G!Planned(walk.rows) /\ walk'.bounds = Facing
          /\ WalkShape(walk')
      BY <3>1 DEF WalkShape
    <3>3. walk.rows = PlanWhole(E, query)
      <4>1. query.reverse = rev /\ (rev \/ rev = FALSE) /\ query.reverse \in BOOLEAN
        BY <1>1, <2>2, <2>5 DEF Drawn
      <4> HIDE DEF E, rev
      <4>2. CASE rev
        <5>1. rev = TRUE
          BY <1>1, <4>2
        <5> QED
          BY <2>2, <4>1, <5>1 DEF PlanWhole
      <4>3. CASE ~rev
        <5>1. rev = FALSE
          BY <1>1, <4>3
        <5> QED
          BY <2>2, <4>1, <5>1 DEF PlanWhole
      <4> QED
        BY <4>2, <4>3
    <3>4. Walked(E, query, walk', Facing)
      BY <1>5, <3>2, <3>3 DEF Walked
    <3> QED
      BY <3>2, <3>4 DEF WalkFacts
  <2> QED
    BY <2>4, <2>5
<1>6. query.command \in {"references", "change-plan"}
  BY DEF Drawn
<1> QED
  BY <1>4, <1>5, <1>6

\* The edges and what the Markdown tells of boundaries depend on the catalog and
\* on what is asked alone, what is told of them also on who is asked.
LEMMA Same ==
  ASSUME catalog' = catalog, query'.start = query.start, query'.transitive = query.transitive
  PROVE  /\ (G!Edges)' = G!Edges /\ Told' = Told
         /\ query'.provider = query.provider => Facing' = Facing
<1>1. (G!Edges)' = G!Edges
  BY DEF G!Edges, G!Authored, G!Proper, G!Observed, G!Resolves, G!Resolved, G!Contained
<1>2. \A S : (G!Occurrences(S))' = G!Occurrences(S)
  BY DEF G!Occurrences, G!Resolves
<1>3. Touching(G!Edges, query)' = Touching(G!Edges, query)
  BY <1>1 DEF Touching
<1> QED
  BY <1>1, <1>2, <1>3 DEF Facing, Told, G!Boundaries

\* Every step of the walk keeps what is known of it.
LEMMA WalkNext ==
  ASSUME G!Catalogued, GraphInv, G!Start \/ G!Traverse \/ G!TraverseReasons \/ G!Finish
  PROVE  WalkShape(walk') /\ (Shown => WalkFacts(G!Edges, query, walk', Facing))
<1>1. Drawn /\ WalkShape(walk) /\ (Shown => WalkFacts(G!Edges, query, walk, Facing))
  BY DEF GraphInv
<1>2. walk.pc = "round" => (Shown => Walking(G!Edges, query, walk, Facing))
  BY <1>1 DEF WalkFacts
<1>3. CASE G!Start
  BY <1>1, <1>3, StartWalks
<1>4. CASE G!Traverse
  <2>1. walk.pc = "round" /\ WalkShape(walk')
    BY <1>1, <1>4 DEF G!Traverse, G!Round, WalkShape
  <2>2. Shown => walk'.pc = "round" /\ Walking(G!Edges, query, walk', Facing)
    BY <1>1, <1>2, <1>4, <2>1, TraverseWalks
  <2> QED
    BY <2>1, <2>2 DEF WalkFacts
<1>5. CASE G!TraverseReasons
  <2>1. walk.pc = "round" /\ WalkShape(walk')
    BY <1>1, <1>5 DEF G!TraverseReasons, G!Round, WalkShape
  <2>2. Shown => walk'.pc = "round" /\ Walking(G!Edges, query, walk', Facing)
    BY <1>1, <1>2, <1>5, <2>1, TraverseReasonsWalks
  <2> QED
    BY <2>1, <2>2 DEF WalkFacts
<1>6. CASE G!Finish
  <2>1. walk.pc = "round" /\ WalkShape(walk')
    BY <1>1, <1>6 DEF G!Finish, G!Walk, WalkShape
  <2>2. Shown => WalkFacts(G!Edges, query, walk', Facing)
    BY <1>1, <1>2, <1>6, <2>1, FinishWalks
  <2> QED
    BY <2>1, <2>2
<1> QED
  BY <1>3, <1>4, <1>5, <1>6

\* The invariant is kept while one query is answered.
LEMMA GraphNext ==
  ASSUME G!Catalogued, GraphInv, G!Start \/ G!Traverse \/ G!TraverseReasons \/ G!Finish
  PROVE  GraphInv'
<1>1. catalog' = catalog /\ query' = query /\ first' = first
  BY DEF G!Start, G!Traverse, G!TraverseReasons, G!Finish
<1>2. (G!Edges)' = G!Edges /\ Facing' = Facing /\ Told' = Told
  BY <1>1, Same
<1>3. Drawn' /\ Shown' = Shown
  BY <1>1 DEF GraphInv, Drawn, Shown
<1>4. WalkShape(walk') /\ (Shown => WalkFacts(G!Edges, query, walk', Facing))
  BY WalkNext
<1>5. WalkFacts(G!Edges, query, walk, Facing)' = WalkFacts(G!Edges, query, walk', Facing)
  BY <1>1, <1>2
<1> QED
  BY <1>1, <1>2, <1>3, <1>4, <1>5 DEF GraphInv, WalkShape

\* The rows and the boundaries of a plan tell the rest of the answer.
LEMMA AnswerIs ==
  ASSUME NEW bounds, walk.bounds = bounds,
         walk.rows = G!Planned(PlanWhole(G!Edges, query))
  PROVE  G!Answer = PlanAnswer(G!Edges, query, bounds)
<1> DEFINE R == G!Planned(PlanWhole(G!Edges, query))
<1>1. walk.rows = R
  OBVIOUS
<1>2. PlanAnswer(G!Edges, query, bounds) =
        [rows |-> R, bounds |-> bounds,
         read |-> {r.address : r \in {x \in R :
                     ~x.reverse /\ x.relation = "depends_on" /\ x.authority = "authored"}},
         observed |-> IF query.reverse THEN "unknown"
                      ELSE IF G!BagToSet(bounds) = {} THEN "complete" ELSE "bounded"]
  BY DEF PlanAnswer
<1> HIDE DEF R
<1> QED
  BY <1>1, <1>2 DEF G!Answer

\* What the Markdown answered is what the shards are asked for.
LEMMA AskNext ==
  ASSUME G!Catalogued, GraphInv, G!AskShards
  PROVE  GraphInv'
<1>1. /\ catalog' = catalog /\ query' = [query EXCEPT !.provider = "shards"]
      /\ walk' = G!Walk("start", FALSE, {}, G!EmptyBag) /\ first' = G!Answer
      /\ walk.pc = "done" /\ query.provider = "direct"
  BY DEF G!AskShards
<1>2. /\ query'.start = query.start /\ query'.transitive = query.transitive
      /\ query'.reverse = query.reverse /\ query'.command = query.command
      /\ query'.provider = "shards" /\ Drawn'
  BY <1>1 DEF GraphInv, Drawn
<1>3. (G!Edges)' = G!Edges /\ Told' = Told
  BY <1>1, <1>2, Same
<1>4. WalkShape(walk)' /\ walk'.pc = "start"
  BY <1>1 DEF G!Walk, WalkShape
<1>5. WalkFacts(G!Edges, query, walk, Facing)'
  BY <1>4 DEF WalkFacts
<1>6. query.command = "change-plan" =>
        walk.rows = G!Planned(PlanWhole(G!Edges, query)) /\ walk.bounds = Told
  BY <1>1 DEF GraphInv, WalkFacts, Walked, Shown, Facing, Told, G!Boundaries
<1>7. query.command = "change-plan" => first' = PlanAnswer(G!Edges, query, Told)
  <2>1. query.command = "change-plan" => G!Answer = PlanAnswer(G!Edges, query, Told)
    BY <1>6, AnswerIs
  <2> QED
    BY <1>1, <2>1
<1>8. \A E, b : PlanAnswer(E, query', b) = PlanAnswer(E, query, b)
  <2>1. \A E : PlanWhole(E, query') = PlanWhole(E, query)
    BY <1>2 DEF PlanWhole, PlanOf
  <2> QED
    BY <1>2, <2>1 DEF PlanAnswer
<1>9. PlanAnswer(G!Edges, query, Told)' = PlanAnswer(G!Edges, query', Told)
  BY <1>3
<1> QED
  BY <1>1, <1>2, <1>4, <1>5, <1>7, <1>8, <1>9 DEF GraphInv

\* The inductive invariant of the queries.
LEMMA GraphHolds ==
  ASSUME G!Catalogued
  PROVE  G!Spec => []GraphInv
<1>1. G!Init => GraphInv
  <2> SUFFICES ASSUME G!Init PROVE GraphInv
    OBVIOUS
  <2>1. WalkShape(walk) /\ walk.pc = "start" /\ query.provider = "direct"
    BY DEF G!Init, G!Walk, WalkShape
  <2>2. Drawn
    BY DEF G!Init, Drawn
  <2>3. WalkFacts(G!Edges, query, walk, Facing)
    BY <2>1 DEF WalkFacts
  <2> QED
    BY <2>1, <2>2, <2>3 DEF GraphInv
<1>2. GraphInv /\ [G!Next]_(G!vars) => GraphInv'
  <2> SUFFICES ASSUME GraphInv, [G!Next]_(G!vars) PROVE GraphInv'
    OBVIOUS
  <2>1. CASE G!Start \/ G!Traverse \/ G!TraverseReasons \/ G!Finish
    BY <2>1, GraphNext
  <2>2. CASE G!AskShards
    BY <2>2, AskNext
  <2>3. CASE UNCHANGED G!vars
    <3>1. catalog' = catalog /\ query' = query /\ first' = first /\ walk' = walk
      BY <2>3 DEF G!vars
    <3>2. (G!Edges)' = G!Edges /\ Facing' = Facing /\ Told' = Told
      BY <3>1, Same
    <3>3. Drawn' = Drawn /\ Shown' = Shown
      BY <3>1 DEF Drawn, Shown
    <3> QED
      BY <3>1, <3>2, <3>3 DEF GraphInv, WalkShape
  <2> QED
    BY <2>1, <2>2, <2>3 DEF G!Next
<1> QED
  BY <1>1, <1>2, PTL DEF G!Spec

-----------------------------------------------------------------------------
(* the references of a project: what the answer is *)

\* The rows of a whole plan at a distance are its rows in that round.
LEMMA PlanAt ==
  ASSUME NEW E, NEW q, NEW reverse \in BOOLEAN, NEW k \in Nat \ {0}, q.reverse \in BOOLEAN
  PROVE  {r \in G!Planned(PlanWhole(E, q)) : r.reverse = reverse /\ r.distance = k} =
           IF (reverse => q.reverse) /\ (q.transitive \/ k = 1)
           THEN G!Planned(PlanRows(E, q.start, reverse, k)) ELSE {}
<1> DEFINE s == q.start
           K == IF q.transitive THEN Nat \ {0} ELSE {1}
           no == FALSE
           yes == TRUE
<1>1. ASSUME NEW rev, NEW j, NEW r \in PlanRows(E, s, rev, j)
      PROVE  r.reverse = rev /\ r.distance = j
  BY DEF PlanRows, Record
<1>2. \A rev : \A r : r \in PlanOf(E, q, rev) <=> \E j \in K : r \in PlanRows(E, s, rev, j)
  BY DEF PlanOf
<1>3. PlanWhole(E, q) = PlanOf(E, q, no) \cup (IF q.reverse THEN PlanOf(E, q, yes) ELSE {})
  BY DEF PlanWhole
<1>4. /\ reverse = no \/ reverse = yes
      /\ no # yes /\ (reverse => q.reverse) = (reverse = no \/ q.reverse)
  OBVIOUS
<1>5. k \in K <=> q.transitive \/ k = 1
  OBVIOUS
<1>6. G!Planned(PlanWhole(E, q)) = {r \in PlanWhole(E, q) : r.authority # "generated"}
      /\ G!Planned(PlanRows(E, q.start, reverse, k)) =
           {r \in PlanRows(E, s, reverse, k) : r.authority # "generated"}
  BY DEF G!Planned
<1> HIDE DEF no, yes, K, s
<1>7. \A r : r \in PlanWhole(E, q) /\ r.reverse = reverse /\ r.distance = k <=>
        /\ reverse = no \/ q.reverse
        /\ k \in K /\ r \in PlanRows(E, s, reverse, k)
  <2>1. ASSUME NEW r \in PlanWhole(E, q), r.reverse = reverse, r.distance = k
        PROVE  (reverse = no \/ q.reverse) /\ k \in K /\ r \in PlanRows(E, s, reverse, k)
    <3>1. r \in PlanOf(E, q, no) \/ (q.reverse /\ r \in PlanOf(E, q, yes))
      BY <1>3, <2>1
    <3>2. CASE r \in PlanOf(E, q, no)
      BY <1>1, <1>2, <2>1, <3>2
    <3>3. CASE q.reverse /\ r \in PlanOf(E, q, yes)
      BY <1>1, <1>2, <2>1, <3>3
    <3> QED
      BY <3>1, <3>2, <3>3
  <2>2. ASSUME NEW r \in PlanRows(E, s, reverse, k), reverse = no \/ q.reverse, k \in K
        PROVE  r \in PlanWhole(E, q) /\ r.reverse = reverse /\ r.distance = k
    <3>1. r \in PlanOf(E, q, reverse)
      BY <1>2, <2>2
    <3> QED
      BY <1>1, <1>3, <1>4, <2>2, <3>1
  <2> QED
    BY <2>1, <2>2
<1> QED
  BY <1>4, <1>5, <1>6, <1>7

RowsAt(E, q, k, rows) ==
  LET here == {r \in rows : r.distance = k} IN
  IF q.transitive \/ k = 1
  THEN /\ ReferenceRows(E, q.start, q.reverse, k, here)
       /\ Cardinality(here) = Cardinality(Ring(E, q.start, q.reverse, k))
  ELSE here = {}

\* The rows of a reference query at a distance, up to its end and past it.
LEMMA ReferencesAt ==
  ASSUME NEW E, NEW q, NEW A, Joins(E, A, q.start), NEW d \in Nat, AtEnd(E, q, q.reverse, d),
         NEW rows, ReferencesTo(E, q, d, rows), NEW k \in Nat \ {0}
  PROVE  RowsAt(E, q, k, rows)
<1> DEFINE s == q.start
           rev == q.reverse
           here == {r \in rows : r.distance = k}
<1>1. /\ \A r \in rows : r.distance \in 1 .. d
      /\ \A j \in 1 .. d : ReferenceRows(E, s, rev, j, {r \in rows : r.distance = j})
  BY DEF ReferencesTo
<1>2. d # 0 /\ (q.transitive => Ring(E, s, rev, d) = {}) /\ (~q.transitive => d = 1)
  BY DEF AtEnd
<1>3. CASE ~q.transitive /\ k # 1
  BY <1>1, <1>2, <1>3 DEF RowsAt
<1>4. CASE q.transitive \/ k = 1
  <2> DEFINE T == Ring(E, s, rev, k)
  <2>1. ReferenceRows(E, s, rev, k, here)
    <3>1. CASE k \in 1 .. d
      BY <1>1, <3>1
    <3>2. CASE k \notin 1 .. d
      <4>1. q.transitive /\ d <= k
        BY <1>2, <1>4, <3>2
      <4>2. T = {}
        <5> HIDE DEF s, rev
        <5>1. Joins(E, A, s)
          BY DEF s
        <5> QED
          BY <1>2, <4>1, <5>1, NothingFarther
      <4>3. here = {}
        BY <1>1, <3>2
      <4> QED
        BY <4>2, <4>3 DEF ReferenceRows
    <3> QED
      BY <3>1, <3>2
  <2>2. IsFiniteSet(T)
    <3>1. T \subseteq A
      <4> HIDE DEF s, rev
      <4>1. Joins(E, A, s)
        BY DEF s
      <4> QED
        BY <4>1, RingIs
    <3>2. IsFiniteSet(A)
      BY DEF Joins
    <3> HIDE DEF T
    <3> QED
      BY <3>1, <3>2, FS_Subset
  <2> DEFINE f == [m \in T |-> CHOOSE r \in here : r.address = m]
  <2> HIDE DEF here, T
  <2>3. /\ {r.address : r \in here} = T /\ \A r, t \in here : r.address = t.address => r = t
    BY <2>1 DEF ReferenceRows, T
  <2>4. ASSUME NEW m \in T PROVE f[m] \in here /\ f[m].address = m
    <3>1. \E r \in here : r.address = m
      BY <2>3
    <3> QED
      BY <3>1
  <2>5. here = {f[m] : m \in T} /\ DOMAIN f = T
    <3>1. \A r \in here : r.address \in T /\ f[r.address] = r
      BY <2>3, <2>4
    <3>2. DOMAIN f = T
      OBVIOUS
    <3> HIDE DEF f
    <3>3. \A r : r \in here <=> \E m \in T : r = f[m]
      BY <2>4, <3>1
    <3> QED
      BY <3>2, <3>3
  <2>6. \A m, n \in T : f[m] = f[n] => m = n
    BY <2>4
  <2> HIDE DEF f
  <2>7. Cardinality(here) = Cardinality(T)
    BY <2>2, <2>5, <2>6, FiniteImage
  <2> QED
    BY <1>4, <2>1, <2>7 DEF here, T, RowsAt
<1> QED
  BY <1>3, <1>4 DEF RowsAt

\* In a direction, at a distance, the answer is exact.
LEMMA Exact ==
  ASSUME G!Catalogued, GraphInv
  PROVE  G!AnswerIsExact
<1> DEFINE E == G!Edges
           s == query.start
<1> SUFFICES ASSUME walk.pc = "done", query.provider = "direct",
                    NEW reverse \in BOOLEAN, NEW k \in 1 .. G!Cardinality(G!Addresses)
             PROVE  G!ExactAt(G!Shortest(reverse), reverse, k)
  BY DEF G!AnswerIsExact
<1> DEFINE paths == G!Shortest(reverse)
           wanted == \/ reverse = query.reverse
                     \/ query.command = "change-plan" /\ ~reverse
           at(j) == {G!Last(p) : p \in paths[j].found}
           last(m, e) == (IF reverse THEN e.to = m ELSE e.from = m)
           here == {r \in walk.rows : r.reverse = reverse /\ r.distance = k}
           into(m) == {e \in G!Edges : (IF reverse THEN e.from ELSE e.to) = m
                         /\ (IF reverse THEN e.to ELSE e.from) \in at(k - 1)}
           Goal ==
             IF ~wanted \/ k > G!Far THEN here = {}
             ELSE IF query.command = "change-plan"
             THEN here = UNION {
               {[address |-> m, relation |-> e.relation, authority |-> e.authority,
                 origin |-> e.origin, reason |-> e.reason, reverse |-> reverse,
                 distance |-> k,
                 path |-> Append(G!LeastPath({p \in paths[k - 1].found : last(G!Last(p), e)}), m)] :
                  e \in {d \in into(m) : d.authority # "generated"}} : m \in at(k)}
             ELSE /\ {r.address : r \in here} = at(k)
                  /\ G!Cardinality(here) = G!Cardinality(at(k))
                  /\ \A r \in here :
                       /\ r.path \in paths[k].found
                       /\ \E e \in G!Preferred(into(r.address)) :
                            /\ <<r.relation, r.authority, r.origin>> =
                                 <<e.relation, e.authority, e.origin>>
                            /\ last(r.path[k], e)
<1> SUFFICES Goal
  BY DEF G!ExactAt
<1>1. k \in Nat \ {0} /\ k - 1 \in Nat /\ (k > G!Far <=> ~(query.transitive \/ k = 1))
  <2>1. IsFiniteSet(G!Addresses)
    BY AddressIs
  <2>2. Cardinality(G!Addresses) \in Nat
    BY <2>1, FS_CardinalityType
  <2>3. G!Cardinality(G!Addresses) = Cardinality(G!Addresses)
    BY SameCount
  <2> DEFINE n == G!Cardinality(G!Addresses)
  <2>4. G!Far = IF query.transitive THEN n ELSE 1
    BY DEF G!Far
  <2>5. n \in Nat /\ k \in 1 .. n
    BY <2>2, <2>3
  <2> HIDE DEF n
  <2>6. query.transitive \in BOOLEAN
    BY DEF GraphInv, Drawn
  <2> QED
    BY <2>4, <2>5, <2>6
<1>2. /\ query.reverse \in BOOLEAN /\ query.command \in {"references", "change-plan"}
      /\ Walked(E, query, walk, Facing) /\ Joins(E, G!Addresses, s)
  <2>1. Drawn /\ Shown
    BY DEF GraphInv, Shown
  <2>2. Walked(E, query, walk, Facing)
    BY <2>1 DEF GraphInv, WalkFacts
  <2>3. Joins(E, G!Addresses, s)
    BY <2>1, EdgesJoin
  <2> QED
    BY <2>1, <2>2, <2>3 DEF Drawn
<1>3. /\ paths[k].found = Found(E, s, reverse, k)
      /\ paths[k - 1].found = Found(E, s, reverse, k - 1)
      /\ at(k) = Ring(E, s, reverse, k) /\ at(k - 1) = Ring(E, s, reverse, k - 1)
  <2>1. paths = Rungs(E, s, reverse)
    BY ShortestIs
  <2> HIDE DEF paths, E, s
  <2> QED
    BY <2>1 DEF Found, Ring
<1>4. \A m : into(m) = Into(E, s, reverse, k, m)
  <2> HIDE DEF at, s
  <2> QED
    BY <1>3 DEF Into, Ahead, Back
<1>5. \A m, e : last(m, e) <=> m = Back(e, reverse)
  BY DEF Back
<1>6. here = {r \in walk.rows : r.reverse = reverse /\ r.distance = k}
  OBVIOUS
<1> HIDE DEF paths, at, last, here, into, E, s, wanted, Goal
<1>7. CASE query.command = "change-plan"
  <2>1. walk.rows = G!Planned(PlanWhole(E, query))
    BY <1>2, <1>7 DEF Walked
  <2>2. here = IF (reverse => query.reverse) /\ (query.transitive \/ k = 1)
               THEN G!Planned(PlanRows(E, s, reverse, k)) ELSE {}
    BY <1>1, <1>2, <1>6, <2>1, PlanAt DEF s
  <2>3. wanted <=> (reverse => query.reverse)
    BY <1>2, <1>7 DEF wanted
  <2> DEFINE row(m, e) ==
        [address |-> m, relation |-> e.relation, authority |-> e.authority,
         origin |-> e.origin, reason |-> e.reason, reverse |-> reverse, distance |-> k,
         path |-> Append(G!LeastPath({p \in paths[k - 1].found : last(G!Last(p), e)}), m)]
  <2>4. ASSUME NEW m, NEW e \in into(m)
        PROVE  row(m, e) = Record(e, Best(E, s, reverse, k - 1, Back(e, reverse)), reverse, k)
    <3>1. Ahead(e, reverse) = m
      BY <1>4 DEF Into
    <3>2. {p \in paths[k - 1].found : last(G!Last(p), e)}
            = {p \in Found(E, s, reverse, k - 1) : G!Last(p) = Back(e, reverse)}
      BY <1>3, <1>5
    <3> QED
      BY <3>1, <3>2, Zenon DEF Record, Best
  <2> HIDE DEF row
  <2>5. G!Planned(PlanRows(E, s, reverse, k)) =
          UNION {{row(m, e) : e \in {d \in into(m) : d.authority # "generated"}} : m \in at(k)}
    <3> DEFINE best(e) == Record(e, Best(E, s, reverse, k - 1, Back(e, reverse)), reverse, k)
    <3>1. \A r : r \in PlanRows(E, s, reverse, k) <=>
            \E m \in at(k) : \E e \in into(m) : r = best(e)
      BY <1>3, <1>4 DEF PlanRows
    <3>2. \A e : best(e).authority = e.authority
      BY DEF Record
    <3>3. \A m : \A e \in into(m) : row(m, e) = best(e)
      BY <2>4
    <3> HIDE DEF best
    <3>4. \A r : r \in G!Planned(PlanRows(E, s, reverse, k)) <=>
            \E m \in at(k) : \E e \in into(m) : r = row(m, e) /\ e.authority # "generated"
      BY <3>1, <3>2, <3>3 DEF G!Planned
    <3> QED
      BY <3>4
  <2> QED
    BY <1>1, <1>7, <2>2, <2>3, <2>5 DEF row, Goal
<1>8. CASE query.command # "change-plan"
  <2>1. PICK d \in Nat : AtEnd(E, query, query.reverse, d) /\ ReferencesTo(E, query, d, walk.rows)
    BY <1>2, <1>8 DEF Walked
  <2>2. \A r \in walk.rows : r.reverse = query.reverse
    BY <2>1 DEF ReferencesTo
  <2>3. CASE reverse # query.reverse
    BY <1>6, <1>8, <2>2, <2>3 DEF wanted, Goal
  <2>4. CASE reverse = query.reverse
    <3>1. here = {r \in walk.rows : r.distance = k}
      BY <1>6, <2>2, <2>4
    <3>2. IF query.transitive \/ k = 1
          THEN /\ ReferenceRows(E, s, reverse, k, here)
               /\ Cardinality(here) = Cardinality(Ring(E, s, reverse, k))
          ELSE here = {}
      <4>1. RowsAt(E, query, k, walk.rows)
        BY <1>1, <1>2, <2>1, ReferencesAt DEF s
      <4> QED
        BY <2>4, <3>1, <4>1 DEF RowsAt, s
    <3>3. CASE ~(query.transitive \/ k = 1)
      BY <1>1, <3>2, <3>3 DEF Goal
    <3>4. CASE query.transitive \/ k = 1
      <4>1. /\ {r.address : r \in here} = at(k)
            /\ G!Cardinality(here) = G!Cardinality(at(k))
            /\ \A r \in here : RowFits(E, s, reverse, k, r)
        BY <1>3, <3>2, <3>4, SameCount DEF ReferenceRows
      <4>2. \A r \in here :
              /\ r.path \in paths[k].found
              /\ \E e \in G!Preferred(into(r.address)) :
                   /\ <<r.relation, r.authority, r.origin>> =
                        <<e.relation, e.authority, e.origin>>
                   /\ last(r.path[k], e)
        BY <1>3, <1>4, <1>5, <4>1 DEF RowFits
      <4> QED
        BY <1>1, <1>8, <2>4, <3>4, <4>1, <4>2 DEF wanted, Goal
    <3> QED
      BY <3>3, <3>4
  <2> QED
    BY <2>3, <2>4
<1> QED
  BY <1>7, <1>8

\* A query is answered exactly, whatever the project holds (AnswerIsExact).
THEOREM AnswerExact ==
  ASSUME G!Catalogued
  PROVE  G!Spec => []G!AnswerIsExact
<1>1. GraphInv => G!AnswerIsExact
  BY Exact
<1>2. G!Spec => []GraphInv
  BY GraphHolds
<1> QED
  BY <1>1, <1>2, PTL

\* Without path relations the shards give a plan the answer of the Markdown, with
\* one row for a boundary that stands in several links (PlansAgree).
THEOREM PlansAgreeing ==
  ASSUME G!Catalogued
  PROVE  G!Spec => []G!PlansAgree
<1>1. ASSUME GraphInv PROVE G!PlansAgree
  <2> SUFFICES ASSUME walk.pc = "done", query.provider = "shards",
                      query.command = "change-plan", catalog.legacy = {}
               PROVE  G!Answer = [first EXCEPT !.bounds = G!Distinct(@)]
    BY DEF G!PlansAgree
  <2>1. walk.rows = G!Planned(PlanWhole(G!Edges, query)) /\ walk.bounds = Facing
    BY <1>1 DEF GraphInv, Shown, WalkFacts, Walked
  <2>2. Facing = G!Distinct(Told)
    BY DEF Facing, Told, G!Boundaries
  <2>3. first = PlanAnswer(G!Edges, query, Told)
    BY <1>1 DEF GraphInv
  <2>4. G!Answer = PlanAnswer(G!Edges, query, G!Distinct(Told))
    BY <2>1, <2>2, AnswerIs
  <2>5. G!BagToSet(G!Distinct(Told)) = G!BagToSet(Told)
    BY DEF G!Distinct, G!BagToSet, G!SetToBag
  <2> QED
    BY <2>3, <2>4, <2>5 DEF PlanAnswer
<1>2. G!Spec => []GraphInv
  BY GraphHolds
<1> QED
  BY <1>1, <1>2, PTL

===============================================================================
