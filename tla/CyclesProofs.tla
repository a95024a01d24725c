----------------------------- MODULE CyclesProofs -----------------------------
(***************************************************************************)
(* Both implementations of cycle diagnostics find what they should on every *)
(* graph: the strongly connected components of graph.py, the members of a   *)
(* cycle of federation.py, and therefore the same documents.                *)
(***************************************************************************)
EXTENDS Cycles, FiniteSetTheorems, SequenceTheorems, WellFoundedInduction, TLAPS

-----------------------------------------------------------------------------
(* Numbers in their order *)

\* Every non-empty set of numbers has a least member.
LEMMA Smallest ==
  ASSUME NEW S \in SUBSET Nat, S # {} PROVE Min(S) \in S /\ \A y \in S : Min(S) <= y
<1>1. IsWellFoundedOn(OpToRel(<, Nat), Nat)
  BY NatLessThanWellFounded
<1>2. PICK x \in S : \A y \in S : ~ (<<y, x>> \in OpToRel(<, Nat))
  BY <1>1, WFMin
<1>3. \A y \in S : ~ (y < x)
  BY <1>2, Zenon DEF OpToRel
<1>4. \A y \in S : x <= y
  BY <1>3
<1> QED
  BY <1>4, Zenon DEF Min

\* A finite set of numbers has a greatest one.
LEMMA Largest ==
  ASSUME NEW S \in SUBSET Nat, IsFiniteSet(S), S # {}
  PROVE  \E x \in S : \A y \in S : y <= x
<1> DEFINE Great(T) == \E x \in T : \A y \in T : y <= x
           Bad == {n \in Nat : \E T \in SUBSET S : Cardinality(T) = n /\ T # {} /\ ~Great(T)}
<1>1. SUFFICES Bad = {}
  <2>1. Cardinality(S) \in Nat
    BY FS_CardinalityType
  <2> QED
    BY <1>1, <2>1
<1>2. SUFFICES ASSUME Bad # {} PROVE FALSE
  OBVIOUS
<1>3. Min(Bad) \in Bad /\ \A y \in Bad : Min(Bad) <= y
  <2> HIDE DEF Bad
  <2>1. Bad \subseteq Nat
    BY DEF Bad
  <2> QED
    BY <1>2, <2>1, Smallest
<1> DEFINE n == Min(Bad)
<1>4. PICK T \in SUBSET S : Cardinality(T) = n /\ T # {} /\ ~Great(T)
  BY <1>3
<1>5. PICK x \in T : TRUE
  BY <1>4
<1>6. IsFiniteSet(T) /\ IsFiniteSet(T \ {x}) /\ Cardinality(T \ {x}) = n - 1
  BY <1>4, FS_Subset, FS_RemoveElement
<1>7. n - 1 \notin Bad /\ n - 1 \in Nat
  <2> HIDE DEF Bad
  <2>1. Bad \subseteq Nat
    BY DEF Bad
  <2>2. n \in Nat /\ n - 1 \in Nat
    BY <1>3, <1>6, <2>1, FS_CardinalityType
  <2>3. ~ (n <= n - 1)
    BY <2>2
  <2> QED
    BY <1>3, <2>2, <2>3
<1>8. T \ {x} = {} \/ Great(T \ {x})
  BY <1>6, <1>7
<1>9. CASE T \ {x} = {}
  <2>1. \A y \in T : y = x
    BY <1>9
  <2>2. x \in Nat
    OBVIOUS
  <2> QED
    BY <1>4, <1>5, <2>1, <2>2
<1>10. CASE Great(T \ {x})
  <2>1. PICK m \in T \ {x} : \A y \in T \ {x} : y <= m
    BY <1>10
  <2>2. \A y \in T : y \in Nat
    OBVIOUS
  <2>3. CASE m <= x
    BY <1>4, <1>5, <2>1, <2>2, <2>3
  <2>4. CASE x <= m
    BY <1>4, <1>5, <2>1, <2>2, <2>4
  <2> QED
    BY <2>1, <2>2, <2>3, <2>4
<1> QED
  BY <1>8, <1>9, <1>10

Sorted(s, S) ==
  s \in [1 .. Cardinality(S) -> S] /\ \A i, j \in DOMAIN s : i < j => s[i] < s[j]

\* Every finite set of numbers can be sorted.
LEMMA CanSort ==
  ASSUME NEW S \in SUBSET Nat, IsFiniteSet(S) PROVE \E s : Sorted(s, S)
<1> DEFINE Bad == {n \in Nat : \E T \in SUBSET S : Cardinality(T) = n /\ ~ \E s : Sorted(s, T)}
<1>1. SUFFICES Bad = {}
  <2>1. Cardinality(S) \in Nat
    BY FS_CardinalityType
  <2> QED
    BY <1>1, <2>1
<1>2. SUFFICES ASSUME Bad # {} PROVE FALSE
  OBVIOUS
<1>3. Min(Bad) \in Bad /\ \A y \in Bad : Min(Bad) <= y
  BY <1>2, Smallest
<1> DEFINE n == Min(Bad)
<1>4. PICK T \in SUBSET S : Cardinality(T) = n /\ ~ \E s : Sorted(s, T)
  BY <1>3
<1>5. IsFiniteSet(T)
  BY FS_Subset
<1>6. T # {}
  <2> SUFFICES ASSUME T = {} PROVE FALSE
    OBVIOUS
  <2>1. Cardinality(T) = 0
    BY FS_EmptySet
  <2>2. Sorted(<<>>, T)
    BY <2>1 DEF Sorted
  <2> QED
    BY <2>2, <1>4
<1>7. PICK x \in T : \A y \in T : y <= x
  BY <1>5, <1>6, Largest
<1>8. IsFiniteSet(T \ {x}) /\ Cardinality(T \ {x}) = n - 1
  BY <1>4, <1>5, FS_RemoveElement
<1>9. n \in Nat /\ n - 1 \in Nat
  BY <1>3, <1>8, FS_CardinalityType
<1>10. n - 1 \notin Bad
  <2> HIDE DEF Bad
  <2> QED
    BY <1>3, <1>9
<1>11. PICK s : Sorted(s, T \ {x})
  BY <1>8, <1>9, <1>10
<1> DEFINE t == [i \in 1 .. n |-> IF i = n THEN x ELSE s[i]]
<1>12. s \in [1 .. n - 1 -> T \ {x}] /\ \A i, j \in 1 .. n - 1 : i < j => s[i] < s[j]
  BY <1>8, <1>11 DEF Sorted
<1>13. Sorted(t, T)
  <2>1. t \in [1 .. n -> T]
    <3> HIDE DEF n
    <3> QED
      BY <1>9, <1>12
  <2>2. ASSUME NEW i \in 1 .. n, NEW j \in 1 .. n, i < j PROVE t[i] < t[j]
    <3> HIDE DEF n
    <3>1. i \in 1 .. n - 1 /\ t[i] = s[i] /\ s[i] \in T \ {x}
      BY <1>9, <1>12, <2>2
    <3>2. CASE j = n
      <4>1. s[i] <= x /\ s[i] # x /\ s[i] \in Nat /\ x \in Nat
        BY <3>1, <1>7
      <4> QED
        BY <3>1, <3>2, <4>1
    <3>3. CASE j # n
      BY <1>9, <1>12, <2>2, <3>1, <3>3
    <3> QED
      BY <3>2, <3>3
  <2> HIDE DEF t, n
  <2> QED
    BY <1>4, <2>1, <2>2 DEF Sorted
<1> QED
  BY <1>4, <1>13

\* A sorted sequence holds every member of its set once.
LEMMA AscendingIs ==
  ASSUME NEW S \in SUBSET Nat, IsFiniteSet(S)
  PROVE  /\ Ascending(S) \in Seq(S) /\ Len(Ascending(S)) \in Nat
         /\ DOMAIN Ascending(S) = 1 .. Len(Ascending(S))
         /\ {Ascending(S)[i] : i \in 1 .. Len(Ascending(S))} = S
<1> DEFINE s == Ascending(S)
           n == Cardinality(S)
<1>1. n \in Nat
  BY FS_CardinalityType
<1>2. Sorted(s, S)
  BY CanSort DEF Sorted, Ascending
<1>3. s \in [1 .. n -> S] /\ \A i, j \in 1 .. n : i < j => s[i] < s[j]
  BY <1>2 DEF Sorted
<1> HIDE DEF s, n
<1>4. s \in Seq(S) /\ Len(s) = n /\ DOMAIN s = 1 .. n
  BY <1>1, <1>3
<1>5. {s[i] : i \in 1 .. n} = S
  <2> DEFINE I == {s[i] : i \in 1 .. n}
  <2>1. I \in SUBSET S
    BY <1>3
  <2>2. s \in Bijection(1 .. n, I)
    <3>1. \A i, j \in 1 .. n : s[i] = s[j] => i = j
      <4> SUFFICES ASSUME NEW i \in 1 .. n, NEW j \in 1 .. n, s[i] = s[j], i # j PROVE FALSE
        OBVIOUS
      <4>1. s[i] \in S /\ (i < j \/ j < i)
        BY <1>1, <1>3
      <4>2. s[i] < s[j] \/ s[j] < s[i]
        BY <1>3, <4>1
      <4>3. s[i] \in Nat
        BY <4>1
      <4> QED
        BY <4>2, <4>3
    <3>2. s \in [1 .. n -> I]
      BY <1>3
    <3> QED
      BY <3>1, <3>2 DEF Bijection, Injection, Surjection, IsInjective
  <2>3. IsFiniteSet(1 .. n) /\ Cardinality(1 .. n) = n
    BY <1>1, FS_Interval
  <2>4. Cardinality(I) = n
    BY <2>2, <2>3, FS_Bijection, Zenon DEF ExistsBijection
  <2> QED
    BY <2>1, <2>4, FS_Subset DEF n
<1> QED
  BY <1>1, <1>4, <1>5 DEF s

-----------------------------------------------------------------------------
(* Reachability *)

Closed(S) == \A s \in S : Successors(s) \subseteq S
Star(n, m) == n = m \/ m \in Reached(n)
\* The documents that reach n and are reached by it.
Class(n) == {m \in Nodes : Star(n, m) /\ Star(m, n)}
Turning == {n \in Nodes : n \in Reached(n)}

LEMMA ReachedIs ==
  ASSUME NEW n \in Nodes
  PROVE  /\ Reached(n) \subseteq Nodes
         /\ Successors(n) \subseteq Reached(n)
         /\ Closed(Reached(n))
         /\ \A S \in SUBSET Nodes : Successors(n) \subseteq S /\ Closed(S) => Reached(n) \subseteq S
<1>1. \A m : Successors(m) \subseteq Nodes
  BY DEF Successors
<1>2. Successors(n) \subseteq Reached(n)
  BY <1>1 DEF Reached
<1>3. ASSUME NEW m \in Reached(n), NEW x \in Successors(m) PROVE x \in Reached(n)
  <2>1. x \in Nodes
    BY <1>1
  <2>2. ASSUME NEW S \in SUBSET Nodes, Successors(n) \subseteq S,
               \A s \in S : Successors(s) \subseteq S
        PROVE  x \in S
    BY <2>2 DEF Reached
  <2> QED
    BY <2>1, <2>2 DEF Reached
<1> QED
  BY <1>2, <1>3 DEF Reached, Closed

LEMMA StarIs ==
  ASSUME NEW n \in Nodes
  PROVE  /\ \A m \in Successors(n) : Star(n, m)
         /\ \A m : Star(n, m) => m \in Nodes
         /\ \A S \in SUBSET Nodes : \A m : n \in S /\ Closed(S) /\ Star(n, m) => m \in S
<1>1. ASSUME NEW S \in SUBSET Nodes, NEW m, n \in S, Closed(S), Star(n, m) PROVE m \in S
  BY <1>1, ReachedIs DEF Star, Closed
<1> QED
  BY <1>1, ReachedIs DEF Star

LEMMA StarTransitive ==
  ASSUME NEW a \in Nodes, NEW b, NEW c, Star(a, b), Star(b, c)
  PROVE  Star(a, c)
<1>1. CASE a = b
  BY <1>1
<1>2. CASE b \in Reached(a)
  BY <1>2, StarIs, ReachedIs DEF Star
<1> QED
  BY <1>1, <1>2 DEF Star

-----------------------------------------------------------------------------
(* The component search *)

OnStack == {stack[i] : i \in DOMAIN stack}
Settled == UNION result
\* The nodes whose calls are running, from the root of the search on.
Node(k) == work[k][1]
Running == {Node(k) : k \in DOMAIN work}

WalkType ==
  /\ edges \in SUBSET (Nodes \X Nodes)
  /\ work \in Seq(Nodes \X Nat) /\ stack \in Seq(Nodes)
  /\ Discovered \subseteq Ends(edges)
  /\ indices \in [Discovered -> Nat] /\ lowlink \in [Discovered -> Nat]
  /\ result \in SUBSET SUBSET Nodes

\* Nodes are numbered as they are found, and stand on both stacks in this order.
Numbered ==
  /\ \A d \in Discovered : indices[d] < Found
  /\ \A d, e \in Discovered : indices[d] = indices[e] => d = e
  /\ \A i, j \in DOMAIN stack : i < j => indices[stack[i]] < indices[stack[j]]
  /\ \A k, l \in DOMAIN work : k < l => indices[Node(k)] < indices[Node(l)]
  /\ Running \subseteq OnStack
  /\ OnStack \cup Settled = Discovered /\ OnStack \cap Settled = {}

\* What a call has looked at, or a finished one all of it, has been found.
Looked ==
  /\ \A k \in DOMAIN work :
       /\ work[k][2] \in 1 .. Len(Adjacent(Node(k))) + 1
       /\ \A j \in 1 .. work[k][2] - 1 : Adjacent(Node(k))[j] \in Discovered
  /\ \A d \in Discovered \ Running : Successors(d) \subseteq Discovered
  /\ Closed(Settled)

\* On the stack, what came earlier reaches what came later, and everything
\* reaches a call that runs and came no later.
Joined ==
  /\ \A x, y \in OnStack : indices[x] <= indices[y] => Star(x, y)
  /\ \A y \in OnStack : \E k \in DOMAIN work :
       indices[Node(k)] <= indices[y] /\ Star(y, Node(k))

\* y was found by call k, and by no call that it made and that still runs.
Below(k, y) ==
  /\ indices[Node(k)] <= indices[y]
  /\ k + 1 \in DOMAIN work => indices[y] < indices[Node(k + 1)]

\* The lowlink of a call is the number of a node that it reaches, and no edge
\* seen by it or by a call that has returned to it leads to a lesser one.
Lowest ==
  \A k \in DOMAIN work :
    /\ lowlink[Node(k)] <= indices[Node(k)]
    /\ \E x \in OnStack : indices[x] = lowlink[Node(k)] /\ Star(Node(k), x)
    /\ \A j \in 1 .. work[k][2] - 1 :
         Adjacent(Node(k))[j] \in OnStack =>
           lowlink[Node(k)] <= indices[Adjacent(Node(k))[j]]
    /\ \A y \in OnStack \ Running : Below(k, y) =>
         \A z \in Successors(y) \cap OnStack : lowlink[Node(k)] <= indices[z]

Whole == \A C \in result : \A n \in C : C = Class(n)

WalkInv ==
  /\ WalkType /\ Numbered /\ Looked /\ Joined /\ Lowest
  /\ Whole /\ {} \notin result

-----------------------------------------------------------------------------
(* The search for members *)

Ahead == {pending[i] : i \in DOMAIN pending}
Tried == {e[1] : e \in edges} \ starts

SearchInv ==
  /\ starts \subseteq {e[1] : e \in edges}
  /\ pending \in Seq(Nodes) /\ visited \subseteq Nodes
  /\ cyclic = Turning \cap Tried
  /\ pending # <<>> =>
       LET s == Min(starts) IN
       /\ starts # {} /\ s \notin visited
       /\ visited \cup Ahead \subseteq Reached(s)
       /\ \A v \in visited \cup {s} : Successors(v) \subseteq visited \cup Ahead

CyclesInv ==
  /\ WalkInv /\ SearchInv
  /\ pc \in {"components", "members", "done"}
  /\ pc # "components" => work = <<>> /\ Ends(edges) \subseteq Discovered
  /\ pc = "done" => starts = {}
-----------------------------------------------------------------------------
(* The component search keeps its invariant *)

LEMMA AdjacentIs ==
  ASSUME Documents, NEW n \in Nodes
  PROVE  /\ Adjacent(n) \in Seq(Nodes) /\ Len(Adjacent(n)) \in Nat
         /\ \A i \in 1 .. Len(Adjacent(n)) : Adjacent(n)[i] \in Successors(n) \ {n}
         /\ \A m \in Successors(n) \ {n} : \E i \in 1 .. Len(Adjacent(n)) : Adjacent(n)[i] = m
<1> DEFINE S == {m \in Nodes \ {n} : <<n, m>> \in edges}
           s == Ascending(S)
<1>1. S = Successors(n) \ {n}
  BY DEF Successors
<1>2. S \in SUBSET Nat /\ IsFiniteSet(S)
  BY FS_Subset DEF Documents
<1> HIDE DEF S
<1>3. s \in Seq(S) /\ Len(s) \in Nat /\ DOMAIN s = 1 .. Len(s) /\ {s[i] : i \in 1 .. Len(s)} = S
  BY <1>2, AscendingIs
<1>4. Adjacent(n) = s
  BY DEF Adjacent, S
<1>5. s \in Seq(Nodes)
  <2>1. S \subseteq Nodes
    BY <1>1 DEF Successors
  <2> HIDE DEF s
  <2> QED
    BY <1>3, <2>1
<1> HIDE DEF s
<1>6. \A i \in 1 .. Len(s) : s[i] \in S
  BY <1>3
<1>7. \A m \in S : \E i \in 1 .. Len(s) : s[i] = m
  BY <1>3
<1> QED
  BY <1>1, <1>3, <1>4, <1>5, <1>6, <1>7

LEMMA EdgesStay ==
  ASSUME UNCHANGED edges
  PROVE  /\ \A n : Successors(n)' = Successors(n)
         /\ \A n : Adjacent(n)' = Adjacent(n)
         /\ \A n : Reached(n)' = Reached(n)
         /\ \A n, m : Star(n, m)' = Star(n, m)
         /\ \A n : Class(n)' = Class(n)
         /\ Ends(edges)' = Ends(edges) /\ Turning' = Turning
<1>1. \A n : Successors(n)' = Successors(n)
  BY DEF Successors
<1>2. \A n : Adjacent(n)' = Adjacent(n)
  BY DEF Adjacent
<1>3. \A n : Reached(n)' = Reached(n)
  BY DEF Reached, Successors
<1>4. \A n, m : Star(n, m)' = Star(n, m)
  BY <1>3 DEF Star
<1> QED
  BY <1>1, <1>2, <1>3, <1>4 DEF Class, Turning

LEMMA EndsAre ==
  ASSUME edges \in SUBSET (Nodes \X Nodes)
  PROVE  /\ \A e \in edges : e = <<e[1], e[2]>> /\ e[1] \in Nodes /\ e[2] \in Nodes
         /\ Ends(edges) \subseteq Nodes
         /\ \A n \in Nodes : \A m \in Successors(n) : n \in Ends(edges) /\ m \in Ends(edges)
<1>1. ASSUME NEW e \in edges PROVE e = <<e[1], e[2]>> /\ e[1] \in Nodes /\ e[2] \in Nodes
  <2>1. e \in Nodes \X Nodes
    OBVIOUS
  <2> QED
    BY <2>1
<1>2. ASSUME NEW n \in Nodes, NEW m \in Successors(n) PROVE n \in Ends(edges) /\ m \in Ends(edges)
  BY DEF Successors, Ends
<1> QED
  BY <1>1, <1>2 DEF Ends

LEMMA OpenIs ==
  ASSUME Documents, WalkType, NEW m \in Nodes, m \notin Discovered, NEW w, Open(m, w)
  PROVE  /\ Found \in Nat /\ Found' = Found + 1
         /\ Discovered' = Discovered \cup {m}
         /\ indices' \in [Discovered' -> Nat] /\ lowlink' \in [Discovered' -> Nat]
         /\ indices'[m] = Found /\ lowlink'[m] = Found
         /\ \A d \in Discovered : indices'[d] = indices[d] /\ lowlink'[d] = lowlink[d]
         /\ stack' \in Seq(Nodes) /\ Len(stack') = Len(stack) + 1
         /\ \A i \in DOMAIN stack : stack'[i] = stack[i]
         /\ stack'[Len(stack) + 1] = m
         /\ OnStack' = OnStack \cup {m}
<1>1. IsFiniteSet(Discovered)
  <2>1. Discovered \subseteq Nodes
    BY EndsAre DEF WalkType
  <2> QED
    BY <2>1, FS_Subset DEF Documents
<1>2. Found \in Nat
  BY <1>1, FS_CardinalityType DEF Found
<1>3. /\ indices' = [d \in Discovered \cup {m} |-> IF d = m THEN Found ELSE indices[d]]
      /\ lowlink' = [d \in Discovered \cup {m} |-> IF d = m THEN Found ELSE lowlink[d]]
  BY DEF Open, Extended
<1>4. Discovered' = Discovered \cup {m}
  BY <1>3 DEF Discovered
<1>5. Found' = Found + 1
  BY <1>1, <1>4, FS_AddElement DEF Found
<1>6. indices' \in [Discovered' -> Nat] /\ lowlink' \in [Discovered' -> Nat]
  BY <1>2, <1>3, <1>4 DEF WalkType
<1>7. /\ indices'[m] = Found /\ lowlink'[m] = Found
      /\ \A d \in Discovered : indices'[d] = indices[d] /\ lowlink'[d] = lowlink[d]
  BY <1>3
<1>8. /\ stack' \in Seq(Nodes) /\ Len(stack') = Len(stack) + 1
      /\ \A i \in DOMAIN stack : stack'[i] = stack[i]
      /\ stack'[Len(stack) + 1] = m
  BY DEF Open, WalkType
<1>9. OnStack' = OnStack \cup {m}
  <2>1. DOMAIN stack = 1 .. Len(stack) /\ DOMAIN stack' = 1 .. Len(stack) + 1 /\ Len(stack) \in Nat
    BY <1>8 DEF WalkType
  <2> QED
    BY <1>8, <2>1 DEF OnStack
<1> QED
  BY <1>2, <1>4, <1>5, <1>6, <1>7, <1>8, <1>9

\* A new node is on top of both stacks, and every node on the stack reaches it.
LEMMA OpenKeeps ==
  ASSUME Documents, WalkInv, UNCHANGED edges, NEW m \in Ends(edges), m \notin Discovered,
         NEW w \in Seq(Nodes \X Nat), Open(m, w), Len(w) = Len(work),
         \A k \in DOMAIN work :
           /\ w[k][1] = Node(k)
           /\ \/ w[k][2] = work[k][2]
              \/ /\ work[k][2] <= Len(Adjacent(Node(k))) /\ w[k][2] = work[k][2] + 1
                 /\ Adjacent(Node(k))[work[k][2]] = m,
         work # <<>> => m \in Successors(Node(Len(work)))
  PROVE  WalkInv'
<1> PICK N \in Nat : N = Len(work)
  BY DEF WalkInv, WalkType
<1>0. /\ \A k : Adjacent(Node(k))' = Adjacent(Node(k)')
      /\ \A k, x : Star(Node(k), x)' = Star(Node(k)', x)
      /\ \A k, x : Star(x, Node(k))' = Star(x, Node(k)')
  BY DEF Adjacent, Star, Reached, Successors
<1>1. /\ m \in Nodes /\ Found \in Nat /\ Found' = Found + 1
      /\ Discovered' = Discovered \cup {m}
      /\ indices' \in [Discovered' -> Nat] /\ lowlink' \in [Discovered' -> Nat]
      /\ indices'[m] = Found /\ lowlink'[m] = Found
      /\ \A d \in Discovered : indices'[d] = indices[d] /\ lowlink'[d] = lowlink[d]
      /\ stack' \in Seq(Nodes) /\ Len(stack') = Len(stack) + 1
      /\ \A i \in DOMAIN stack : stack'[i] = stack[i]
      /\ stack'[Len(stack) + 1] = m
      /\ OnStack' = OnStack \cup {m}
  <2>1. m \in Nodes
    BY EndsAre DEF WalkInv, WalkType
  <2> QED
    BY <2>1, OpenIs DEF WalkInv
<1>2. result' = result /\ Settled' = Settled
  BY DEF Open, Settled
<1>3. /\ N \in Nat /\ DOMAIN work = 1 .. N /\ DOMAIN work' = 1 .. N + 1
      /\ work' \in Seq(Nodes \X Nat)
      /\ \A k \in 1 .. N : work'[k] = w[k] /\ work[k] \in Nodes \X Nat
      /\ work'[N + 1] = <<m, 1>>
  <2>1. DOMAIN work = 1 .. N /\ \A k \in 1 .. N : work[k] \in Nodes \X Nat
    BY DEF WalkInv, WalkType
  <2>2. work' = Append(w, <<m, 1>>)
    BY DEF Open
  <2>3. <<m, 1>> \in Nodes \X Nat
    BY <1>1
  <2>4. /\ work' \in Seq(Nodes \X Nat) /\ Len(work') = Len(w) + 1
        /\ \A k \in 1 .. Len(w) : work'[k] = w[k]
        /\ work'[Len(w) + 1] = <<m, 1>>
    BY <2>2, <2>3, AppendProperties
  <2>5. DOMAIN work' = 1 .. Len(work')
    BY <2>4
  <2> QED
    BY <2>1, <2>4, <2>5
<1>4. /\ \A k \in 1 .. N : Node(k)' = Node(k) /\ Node(k) \in OnStack /\ Node(k) \in Nodes
      /\ Node(N + 1)' = m /\ Running' = Running \cup {m}
  <2>0. N \in Nat
    BY <1>3
  <2>1. ASSUME NEW k \in 1 .. N PROVE Node(k)' = Node(k)
    <3>1. k \in DOMAIN work /\ work'[k] = w[k]
      BY <1>3
    <3>2. w[k][1] = Node(k)
      BY <3>1
    <3>3. Node(k)' = work'[k][1]
      BY DEF Node
    <3> QED
      BY <3>1, <3>2, <3>3
  <2>2. Node(N + 1)' = m
    <3>1. Node(N + 1)' = work'[N + 1][1]
      BY DEF Node
    <3> QED
      BY <1>3, <3>1
  <2>3. ASSUME NEW k \in 1 .. N PROVE Node(k) \in OnStack /\ Node(k) \in Nodes
    <3>1. k \in DOMAIN work /\ work[k] \in Nodes \X Nat
      BY <1>3
    <3>2. Node(k) \in Nodes
      BY <3>1 DEF Node
    <3>3. Node(k) \in Running
      BY <3>1 DEF Running
    <3> QED
      BY <3>2, <3>3 DEF WalkInv, Numbered
  <2>4. Running' = Running \cup {m}
    <3>1. ASSUME NEW k \in DOMAIN work' PROVE Node(k)' \in Running \cup {m}
      <4>1. k \in 1 .. N \/ k = N + 1
        BY <1>3
      <4>2. k \in 1 .. N => Node(k) \in Running
        BY <1>3 DEF Running
      <4> QED
        BY <2>1, <2>2, <4>1, <4>2
    <3>2. ASSUME NEW k \in DOMAIN work PROVE Node(k) \in Running'
      <4>1. k \in DOMAIN work' /\ Node(k)' = Node(k)
        BY <1>3, <2>1
      <4> QED
        BY <4>1 DEF Running
    <3>3. m \in Running'
      <4>1. N + 1 \in DOMAIN work'
        BY <1>3
      <4> QED
        BY <2>2, <4>1 DEF Running
    <3> QED
      BY <3>1, <3>2, <3>3 DEF Running
  <2> QED
    BY <2>1, <2>2, <2>3, <2>4
<1>5. OnStack \subseteq Discovered /\ m \notin OnStack /\ Settled \subseteq Discovered
  BY DEF WalkInv, Numbered
<1>6. \A d \in Discovered : indices[d] \in Nat /\ indices[d] < Found
  BY DEF WalkInv, WalkType, Numbered
<1>7. WalkType'
  <2>1. Ends(edges)' = Ends(edges)
    BY EdgesStay
  <2> QED
    BY <1>1, <1>2, <1>3, <2>1 DEF WalkInv, WalkType
<1>8. Numbered'
  <2>1. \A d \in Discovered' : indices'[d] < Found'
    BY <1>1, <1>6
  <2>2. \A d, e \in Discovered' : indices'[d] = indices'[e] => d = e
    BY <1>1, <1>6 DEF WalkInv, Numbered
  <2>3. \A i, j \in DOMAIN stack' : i < j => indices'[stack'[i]] < indices'[stack'[j]]
    <3>1. DOMAIN stack = 1 .. Len(stack) /\ DOMAIN stack' = 1 .. Len(stack) + 1 /\ Len(stack) \in Nat
      BY <1>1 DEF WalkInv, WalkType
    <3>2. \A i \in DOMAIN stack : stack[i] \in Discovered
      BY <1>5 DEF OnStack
    <3> SUFFICES ASSUME NEW i \in DOMAIN stack', NEW j \in DOMAIN stack', i < j
                 PROVE  indices'[stack'[i]] < indices'[stack'[j]]
      OBVIOUS
    <3>3. /\ i \in DOMAIN stack /\ stack'[i] = stack[i] /\ stack[i] \in Discovered
          /\ indices'[stack[i]] = indices[stack[i]]
      BY <1>1, <3>1, <3>2
    <3>4. CASE j \in DOMAIN stack
      <4>1. stack'[j] = stack[j] /\ indices'[stack[j]] = indices[stack[j]]
        BY <1>1, <3>2, <3>4
      <4> QED
        BY <3>3, <3>4, <4>1 DEF WalkInv, Numbered
    <3>5. CASE j = Len(stack) + 1
      BY <1>1, <1>6, <3>3, <3>5
    <3> QED
      BY <3>1, <3>4, <3>5
  <2>4. \A k, l \in DOMAIN work' : k < l => indices'[Node(k)'] < indices'[Node(l)']
    <3>1. \A k \in 1 .. N : Node(k) \in Discovered
      BY <1>4, <1>5
    <3> SUFFICES ASSUME NEW k \in DOMAIN work', NEW l \in DOMAIN work', k < l
                 PROVE  indices'[Node(k)'] < indices'[Node(l)']
      OBVIOUS
    <3>2. k \in 1 .. N /\ Node(k)' = Node(k) /\ indices'[Node(k)] = indices[Node(k)]
      BY <1>1, <1>3, <1>4, <3>1
    <3>3. CASE l \in 1 .. N
      <4>1. Node(l)' = Node(l) /\ indices'[Node(l)] = indices[Node(l)]
        BY <1>1, <1>4, <3>1, <3>3
      <4>2. k \in DOMAIN work /\ l \in DOMAIN work
        BY <1>3, <3>2, <3>3
      <4> QED
        BY <3>2, <4>1, <4>2 DEF WalkInv, Numbered
    <3>4. CASE l = N + 1
      BY <1>1, <1>4, <1>6, <3>1, <3>2, <3>4
    <3> QED
      BY <1>3, <3>3, <3>4
  <2>5. Running' \subseteq OnStack'
    BY <1>1, <1>4 DEF WalkInv, Numbered
  <2>6. OnStack' \cup Settled' = Discovered' /\ OnStack' \cap Settled' = {}
    BY <1>1, <1>2, <1>5 DEF WalkInv, Numbered
  <2> QED
    BY <2>1, <2>2, <2>3, <2>4, <2>5, <2>6 DEF Numbered
<1>9. Looked'
  <2>1. ASSUME NEW k \in DOMAIN work'
        PROVE  /\ work'[k][2] \in 1 .. Len(Adjacent(Node(k)')) + 1
               /\ \A j \in 1 .. work'[k][2] - 1 : Adjacent(Node(k)')[j] \in Discovered'
    <3>1. CASE k \in 1 .. N
      <4>1. Node(k)' = Node(k) /\ Len(Adjacent(Node(k))) \in Nat
        BY <1>4, <3>1, AdjacentIs
      <4>2. work[k][2] \in 1 .. Len(Adjacent(Node(k))) + 1
        BY <1>3, <3>1 DEF WalkInv, Looked
      <4>3. \A j \in 1 .. work[k][2] - 1 : Adjacent(Node(k))[j] \in Discovered
        BY <1>3, <3>1 DEF WalkInv, Looked
      <4>4. /\ work'[k] = w[k]
            /\ \/ w[k][2] = work[k][2]
               \/ /\ work[k][2] <= Len(Adjacent(Node(k))) /\ w[k][2] = work[k][2] + 1
                  /\ Adjacent(Node(k))[work[k][2]] = m
        BY <1>3, <3>1
      <4>5. CASE w[k][2] = work[k][2]
        BY <1>1, <4>1, <4>2, <4>3, <4>4, <4>5
      <4>6. CASE /\ work[k][2] <= Len(Adjacent(Node(k))) /\ w[k][2] = work[k][2] + 1
                 /\ Adjacent(Node(k))[work[k][2]] = m
        <5>1. w[k][2] \in 1 .. Len(Adjacent(Node(k))) + 1
          BY <4>1, <4>2, <4>6
        <5>2. ASSUME NEW j \in 1 .. w[k][2] - 1 PROVE Adjacent(Node(k))[j] \in Discovered'
          <6>1. j \in 1 .. work[k][2] - 1 \/ j = work[k][2]
            BY <4>2, <4>6
          <6> QED
            BY <1>1, <4>3, <4>6, <6>1
        <5> QED
          BY <4>1, <4>4, <5>1, <5>2
      <4> QED
        BY <4>4, <4>5, <4>6
    <3>2. CASE k = N + 1
      <4>1. Len(Adjacent(m)) \in Nat
        BY <1>1, AdjacentIs
      <4> QED
        BY <1>3, <1>4, <3>2, <4>1
    <3> QED
      BY <1>3, <3>1, <3>2
  <2>2. \A d \in Discovered' \ Running' : Successors(d)' \subseteq Discovered'
    BY <1>1, <1>4, EdgesStay DEF WalkInv, Looked
  <2>3. Closed(Settled)'
    BY <1>2, EdgesStay DEF WalkInv, Looked, Closed
  <2> QED
    BY <1>0, <2>1, <2>2, <2>3 DEF Looked
<1>10. Joined'
  <2>1. ASSUME NEW x \in OnStack', NEW y \in OnStack', indices'[x] <= indices'[y]
        PROVE  Star(x, y)
    <3>1. CASE x \in OnStack /\ y \in OnStack
      BY <1>1, <1>5, <2>1, <3>1 DEF WalkInv, Joined
    <3>2. CASE x = m /\ y = m
      BY <3>2 DEF Star
    <3>3. CASE x \in OnStack /\ y = m
      <4>1. PICK k \in DOMAIN work : indices[Node(k)] <= indices[x] /\ Star(x, Node(k))
        BY <3>3 DEF WalkInv, Joined
      <4>2. N \in 1 .. N /\ k \in 1 .. N /\ (k < N \/ k = N)
        BY <1>3, <4>1
      <4>3. indices[Node(k)] \in Nat /\ indices[Node(N)] \in Nat
        BY <1>4, <1>5, <1>6, <4>2
      <4>4. indices[Node(k)] <= indices[Node(N)]
        <5>1. k < N => indices[Node(k)] < indices[Node(N)]
          BY <1>3, <4>2 DEF WalkInv, Numbered
        <5> QED
          BY <4>2, <4>3, <5>1
      <4>5. Star(Node(k), Node(N))
        BY <1>4, <4>2, <4>4 DEF WalkInv, Joined
      <4>6. Star(Node(N), m)
        BY <1>3, <1>4, <4>2, StarIs
      <4>7. x \in Nodes
        BY <3>3, <1>5, EndsAre DEF WalkInv, WalkType
      <4>8. Star(x, Node(N))
        BY <4>1, <4>5, <4>7, StarTransitive
      <4> QED
        BY <3>3, <4>6, <4>7, <4>8, StarTransitive
    <3>4. CASE x = m /\ y \in OnStack
      <4>1. y \in Discovered
        BY <3>4, <1>5
      <4>2. indices'[x] = Found /\ indices'[y] = indices[y]
        BY <1>1, <3>4, <4>1
      <4> QED
        BY <1>1, <1>6, <2>1, <4>1, <4>2
    <3> QED
      BY <1>1, <3>1, <3>2, <3>3, <3>4
  <2>2. ASSUME NEW y \in OnStack'
        PROVE  \E k \in DOMAIN work' : indices'[Node(k)'] <= indices'[y] /\ Star(y, Node(k)')
    <3>1. CASE y \in OnStack
      <4>1. PICK k \in DOMAIN work : indices[Node(k)] <= indices[y] /\ Star(y, Node(k))
        BY <3>1 DEF WalkInv, Joined
      <4>2. k \in DOMAIN work' /\ k \in 1 .. N
        BY <1>3
      <4>3. Node(k) \in Discovered /\ y \in Discovered
        BY <1>4, <1>5, <3>1, <4>2
      <4> QED
        BY <1>1, <1>4, <4>1, <4>2, <4>3
    <3>2. CASE y = m
      <4>1. N + 1 \in DOMAIN work' /\ Node(N + 1)' = m /\ Star(m, m)
        BY <1>3, <1>4 DEF Star
      <4> QED
        BY <1>1, <3>2, <4>1
    <3> QED
      BY <1>1, <3>1, <3>2
  <2> QED
    BY <1>0, <2>1, <2>2, EdgesStay DEF Joined
<1>11. Lowest'
  <2> SUFFICES ASSUME NEW k \in DOMAIN work'
               PROVE  /\ lowlink'[Node(k)'] <= indices'[Node(k)']
                      /\ \E x \in OnStack' : indices'[x] = lowlink'[Node(k)'] /\ Star(Node(k)', x)
                      /\ \A j \in 1 .. work'[k][2] - 1 :
                           Adjacent(Node(k)')[j] \in OnStack' =>
                             lowlink'[Node(k)'] <= indices'[Adjacent(Node(k)')[j]]
                      /\ \A y \in OnStack' \ Running' : Below(k, y)' =>
                           \A z \in Successors(y) \cap OnStack' : lowlink'[Node(k)'] <= indices'[z]
    BY <1>0, EdgesStay DEF Lowest
  <2>1. CASE k \in 1 .. N
    <3> DEFINE n == Node(k)
    <3>1. /\ Node(k)' = n /\ n \in Nodes /\ n \in OnStack /\ n \in Discovered
          /\ indices'[n] = indices[n] /\ lowlink'[n] = lowlink[n]
          /\ indices[n] \in Nat /\ lowlink[n] \in Nat
      BY <1>1, <1>4, <1>5, <1>6, <2>1 DEF WalkInv, WalkType
    <3>2. /\ lowlink[n] <= indices[n]
          /\ \E x \in OnStack : indices[x] = lowlink[n] /\ Star(n, x)
          /\ \A j \in 1 .. work[k][2] - 1 :
               Adjacent(n)[j] \in OnStack => lowlink[n] <= indices[Adjacent(n)[j]]
          /\ \A y \in OnStack \ Running : Below(k, y) =>
               \A z \in Successors(y) \cap OnStack : lowlink[n] <= indices[z]
      BY <1>3, <2>1 DEF WalkInv, Lowest
    <3>3. \A z \in OnStack' : (z \in OnStack => lowlink[n] <= indices[z]) => lowlink[n] <= indices'[z]
      <4> SUFFICES ASSUME NEW z \in OnStack', z \in OnStack => lowlink[n] <= indices[z]
                   PROVE  lowlink[n] <= indices'[z]
        OBVIOUS
      <4>1. CASE z \in OnStack
        BY <1>1, <1>5, <4>1
      <4>2. CASE z = m
        BY <1>1, <1>6, <3>1, <3>2, <4>2
      <4> QED
        BY <1>1, <4>1, <4>2
    <3>4. \E x \in OnStack' : indices'[x] = lowlink[n] /\ Star(n, x)
      BY <1>1, <1>5, <3>2
    <3>5. ASSUME NEW j \in 1 .. work'[k][2] - 1, Adjacent(n)[j] \in OnStack'
          PROVE  lowlink[n] <= indices'[Adjacent(n)[j]]
      <4>1. Len(Adjacent(n)) \in Nat /\ work[k][2] \in 1 .. Len(Adjacent(n)) + 1
        BY <1>3, <2>1, <3>1, AdjacentIs DEF WalkInv, Looked
      <4>2. CASE j \in 1 .. work[k][2] - 1
        BY <3>2, <3>3, <3>5, <4>2
      <4>3. CASE j = work[k][2] /\ Adjacent(n)[j] = m
        BY <1>5, <3>3, <3>5, <4>3
      <4>4. /\ work'[k] = w[k]
            /\ \/ w[k][2] = work[k][2]
               \/ w[k][2] = work[k][2] + 1 /\ Adjacent(n)[work[k][2]] = m
        BY <1>3, <2>1
      <4>5. j \in 1 .. work[k][2] - 1 \/ (j = work[k][2] /\ Adjacent(n)[j] = m)
        <5>1. j \in Int /\ 1 <= j /\ j <= w[k][2] - 1 /\ work[k][2] \in Int
          BY <4>1, <4>4
        <5>2. CASE w[k][2] = work[k][2]
          BY <5>1, <5>2
        <5>3. CASE w[k][2] = work[k][2] + 1 /\ Adjacent(n)[work[k][2]] = m
          <6>1. j <= work[k][2]
            BY <5>1, <5>3
          <6>2. j \in 1 .. work[k][2] - 1 \/ j = work[k][2]
            BY <5>1, <6>1
          <6> QED
            BY <5>3, <6>2
        <5> QED
          BY <4>4, <5>2, <5>3
      <4> QED
        BY <4>2, <4>3, <4>5
    <3>6. ASSUME NEW y \in OnStack' \ Running', Below(k, y)', NEW z \in Successors(y) \cap OnStack'
          PROVE  lowlink[n] <= indices'[z]
      <4>1. y \in OnStack \ Running /\ y \in Discovered
        BY <1>1, <1>4, <1>5, <3>6
      <4>2. Below(k, y)
        <5>1. indices[n] <= indices[y]
          BY <1>1, <3>1, <3>6, <4>1 DEF Below
        <5>2. ASSUME k + 1 \in DOMAIN work PROVE indices[y] < indices[Node(k + 1)]
          <6>1. k + 1 \in 1 .. N /\ k + 1 \in DOMAIN work'
            BY <1>3, <2>1, <5>2
          <6>2. Node(k + 1)' = Node(k + 1) /\ Node(k + 1) \in Discovered
            BY <1>4, <1>5, <6>1
          <6>3. indices'[y] < indices'[Node(k + 1)']
            BY <3>6, <6>1 DEF Below
          <6> QED
            BY <1>1, <4>1, <6>2, <6>3
        <5> QED
          BY <5>1, <5>2 DEF Below
      <4> QED
        BY <3>2, <3>3, <3>6, <4>1, <4>2
    <3> HIDE DEF n
    <3> QED
      BY <3>1, <3>2, <3>4, <3>5, <3>6 DEF n
  <2>2. CASE k = N + 1
    <3>1. /\ Node(k)' = m /\ lowlink'[m] = indices'[m] /\ work'[k][2] = 1 /\ indices'[m] = Found
          /\ m \in OnStack' /\ Star(m, m)
      BY <1>1, <1>3, <1>4, <2>2 DEF Star
    <3>2. ASSUME NEW y \in OnStack' \ Running', Below(k, y)' PROVE FALSE
      <4>1. y \in OnStack /\ y \in Discovered
        BY <1>1, <1>4, <1>5
      <4>2. indices'[m] <= indices'[y]
        BY <3>1, <3>2 DEF Below
      <4> QED
        BY <1>1, <1>6, <4>1, <4>2
    <3> QED
      BY <1>1, <3>1, <3>2
  <2>3. k \in 1 .. N \/ k = N + 1
    BY <1>3
  <2> QED
    BY <2>1, <2>2, <2>3, Zenon
<1>12. Whole' /\ {} \notin result'
  BY <1>2, EdgesStay DEF WalkInv, Whole
<1> QED
  BY <1>7, <1>8, <1>9, <1>10, <1>11, <1>12 DEF WalkInv

LEMMA MinOfTwo ==
  ASSUME NEW a \in Nat, NEW b \in Nat
  PROVE  /\ Min({a, b}) \in Nat /\ Min({a, b}) <= a /\ Min({a, b}) <= b
         /\ Min({a, b}) = a \/ Min({a, b}) = b
BY Smallest

\* The call on top, and how the calls below it compare.
LEMMA TopIs ==
  ASSUME WalkInv, work # <<>>
  PROVE  /\ Len(work) \in Nat \ {0} /\ DOMAIN work = 1 .. Len(work)
         /\ Last(work) = work[Len(work)]
         /\ \A k \in DOMAIN work : Node(k) \in OnStack /\ Node(k) \in Nodes /\ Node(k) \in Discovered
         /\ \A k \in DOMAIN work :
              k # Len(work) => indices[Node(k)] < indices[Node(Len(work))] /\ Node(k) # Node(Len(work))
         /\ OnStack \subseteq Discovered
         /\ \A d \in Discovered : indices[d] \in Nat /\ lowlink[d] \in Nat
<1> PICK N \in Nat : N = Len(work)
  BY DEF WalkInv, WalkType
<1>1. DOMAIN work = 1 .. N /\ N \in Nat \ {0} /\ Last(work) = work[N]
  BY DEF WalkInv, WalkType, Last
<1>2. OnStack \subseteq Discovered /\ Running \subseteq OnStack
  BY DEF WalkInv, Numbered
<1>3. ASSUME NEW k \in DOMAIN work PROVE Node(k) \in OnStack /\ Node(k) \in Nodes
  <2>1. work[k] \in Nodes \X Nat
    BY DEF WalkInv, WalkType
  <2>2. Node(k) \in Nodes
    BY <2>1 DEF Node
  <2>3. Node(k) \in Running
    BY DEF Running
  <2> QED
    BY <1>2, <2>2, <2>3
<1>4. \A d \in Discovered : indices[d] \in Nat /\ lowlink[d] \in Nat
  BY DEF WalkInv, WalkType
<1>5. ASSUME NEW k \in DOMAIN work, k # N
      PROVE  indices[Node(k)] < indices[Node(N)] /\ Node(k) # Node(N)
  <2>1. N \in DOMAIN work /\ k < N
    BY <1>1, <1>5
  <2>2. indices[Node(k)] < indices[Node(N)]
    BY <2>1 DEF WalkInv, Numbered
  <2>3. indices[Node(N)] \in Nat
    BY <1>2, <1>3, <1>4, <2>1
  <2> QED
    BY <2>2, <2>3
<1> QED
  BY <1>1, <1>2, <1>3, <1>4, <1>5

LEMMA RootKeeps ==
  ASSUME Documents, WalkInv, UNCHANGED edges, Root
  PROVE  WalkInv'
<1>1. Ends(edges) \ Discovered \in SUBSET Nat /\ Ends(edges) \ Discovered # {} /\ work = <<>>
  BY EndsAre DEF Root, WalkInv, WalkType, Documents
<1>2. PICK m : m = Min(Ends(edges) \ Discovered)
  OBVIOUS
<1>3. m \in Ends(edges) /\ m \notin Discovered
  BY <1>1, <1>2, Smallest
<1>4. Open(m, <<>>)
  BY <1>2 DEF Root
<1>5. <<>> \in Seq(Nodes \X Nat) /\ DOMAIN work = {} /\ Len(<<>>) = Len(work)
  BY <1>1
<1> QED
  BY <1>1, <1>3, <1>4, <1>5, OpenKeeps

\* The child is new: the call on top has looked at it, and makes a call of its own.
LEMMA ChildOpens ==
  ASSUME Documents, WalkInv, UNCHANGED edges, work # <<>>, NEW i, i = Last(work)[2],
         i <= Len(Adjacent(Last(work)[1])),
         NEW m, m = Adjacent(Last(work)[1])[i], m \notin Discovered,
         Open(m, [work EXCEPT ![Len(work)] = <<Last(work)[1], i + 1>>])
  PROVE  WalkInv'
<1> PICK N \in Nat : N = Len(work)
  BY DEF WalkInv, WalkType
<1> PICK n : n = Node(N)
  OBVIOUS
<1> PICK w : w = [work EXCEPT ![N] = <<n, i + 1>>]
  OBVIOUS
<1>1. /\ N \in Nat \ {0} /\ DOMAIN work = 1 .. N /\ Last(work) = work[N]
      /\ n \in Nodes /\ n = Last(work)[1] /\ i = work[N][2]
  BY TopIs DEF Node
<1>2. i \in 1 .. Len(Adjacent(n)) /\ Len(Adjacent(n)) \in Nat
  <2>1. work[N][2] \in 1 .. Len(Adjacent(Node(N))) + 1
    BY <1>1 DEF WalkInv, Looked
  <2> QED
    BY <1>1, <2>1, AdjacentIs
<1>3. m \in Successors(n) /\ m \in Ends(edges)
  BY <1>1, <1>2, AdjacentIs, EndsAre DEF WalkInv, WalkType
<1>4. w \in Seq(Nodes \X Nat) /\ Len(w) = Len(work)
  <2>1. <<n, i + 1>> \in Nodes \X Nat
    BY <1>1, <1>2
  <2> QED
    BY <1>1, <2>1 DEF WalkInv, WalkType
<1>5. ASSUME NEW k \in DOMAIN work
      PROVE  /\ w[k][1] = Node(k)
             /\ \/ w[k][2] = work[k][2]
                \/ /\ work[k][2] <= Len(Adjacent(Node(k))) /\ w[k][2] = work[k][2] + 1
                   /\ Adjacent(Node(k))[work[k][2]] = m
  <2>1. CASE k = N
    BY <1>1, <1>2, <2>1
  <2>2. CASE k # N
    BY <1>1, <2>2 DEF Node
  <2> QED
    BY <2>1, <2>2
<1>6. Open(m, w)
  BY <1>1
<1>7. m \in Successors(Node(Len(work)))
  BY <1>3
<1> QED
  BY <1>3, <1>4, <1>5, <1>6, <1>7, OpenKeeps

\* Lowest, with the graph of the step as it was.
LEMMA LowestNext ==
  ASSUME UNCHANGED edges,
         ASSUME NEW k \in DOMAIN work'
         PROVE  /\ lowlink'[Node(k)'] <= indices'[Node(k)']
                /\ \E x \in OnStack' : indices'[x] = lowlink'[Node(k)'] /\ Star(Node(k)', x)
                /\ \A j \in 1 .. work'[k][2] - 1 :
                     Adjacent(Node(k)')[j] \in OnStack' =>
                       lowlink'[Node(k)'] <= indices'[Adjacent(Node(k)')[j]]
                /\ \A y \in OnStack' \ Running' : Below(k, y)' =>
                     \A z \in Successors(y) \cap OnStack' : lowlink'[Node(k)'] <= indices'[z]
  PROVE  Lowest'
<1>1. /\ \A k : Adjacent(Node(k))' = Adjacent(Node(k)')
      /\ \A k, x : Star(Node(k), x)' = Star(Node(k)', x)
  BY DEF Adjacent, Star, Reached, Successors
<1> QED
  BY <1>1, EdgesStay DEF Lowest

\* The child is known: one that is still on the stack lowers the call on top.
LEMMA ChildLooks ==
  ASSUME Documents, WalkInv, UNCHANGED edges, UNCHANGED <<stack, indices, result>>, work # <<>>,
         NEW i, i = Last(work)[2], i <= Len(Adjacent(Last(work)[1])),
         NEW m, m = Adjacent(Last(work)[1])[i], m \in Discovered,
         work' = [work EXCEPT ![Len(work)] = <<Last(work)[1], i + 1>>],
         lowlink' = IF Lowered(m)
                    THEN [lowlink EXCEPT ![Last(work)[1]] = Min({@, indices[m]})]
                    ELSE lowlink
  PROVE  WalkInv'
<1> PICK N \in Nat : N = Len(work)
  BY DEF WalkInv, WalkType
<1> PICK n : n = Node(N)
  OBVIOUS
<1>0. /\ \A k : Adjacent(Node(k))' = Adjacent(Node(k)')
      /\ \A k, x : Star(Node(k), x)' = Star(Node(k)', x)
      /\ \A k, x : Star(x, Node(k))' = Star(x, Node(k)')
  BY DEF Adjacent, Star, Reached, Successors
<1>1. /\ N \in Nat \ {0} /\ DOMAIN work = 1 .. N /\ Last(work) = work[N]
      /\ n \in Nodes /\ n = Last(work)[1] /\ i = work[N][2]
      /\ n \in OnStack /\ n \in Discovered
  BY TopIs DEF Node
<1>2. i \in 1 .. Len(Adjacent(n)) /\ Len(Adjacent(n)) \in Nat
  <2>1. work[N][2] \in 1 .. Len(Adjacent(Node(N))) + 1
    BY <1>1 DEF WalkInv, Looked
  <2> QED
    BY <1>1, <2>1, AdjacentIs
<1>3. m \in Successors(n) /\ m = Adjacent(n)[i] /\ Star(n, m)
  BY <1>1, <1>2, AdjacentIs, StarIs
<1>4. /\ work' \in Seq(Nodes \X Nat) /\ DOMAIN work' = 1 .. N
      /\ work'[N] = <<n, i + 1>>
      /\ \A k \in 1 .. N : k # N => work'[k] = work[k]
  <2>1. <<n, i + 1>> \in Nodes \X Nat
    BY <1>1, <1>2
  <2> QED
    BY <1>1, <2>1 DEF WalkInv, WalkType
<1>5. \A k \in 1 .. N : Node(k)' = Node(k)
  BY <1>1, <1>4 DEF Node
<1>6. Running' = Running
  BY <1>1, <1>4, <1>5 DEF Running
<1>7. Discovered' = Discovered /\ Found' = Found /\ OnStack' = OnStack /\ Settled' = Settled
  BY DEF Discovered, Found, OnStack, Settled
<1>8. OnStack \subseteq Discovered /\ \A d \in Discovered : indices[d] \in Nat /\ lowlink[d] \in Nat
  BY TopIs
<1>9. /\ lowlink' \in [Discovered -> Nat]
      /\ \A d \in Discovered : d # n => lowlink'[d] = lowlink[d]
      /\ lowlink'[n] <= lowlink[n]
      /\ m \in OnStack => lowlink'[n] <= indices[m]
      /\ lowlink'[n] = lowlink[n] \/ (m \in OnStack /\ lowlink'[n] = indices[m])
  <2>1. lowlink \in [Discovered -> Nat]
    BY DEF WalkInv, WalkType
  <2>2. Lowered(m) <=> m \in OnStack
    <3>1. DOMAIN stack = 1 .. Len(stack)
      BY DEF WalkInv, WalkType
    <3> QED
      BY <3>1, Zenon DEF Lowered, Contains, OnStack
  <2>3. PICK c : c = Min({lowlink[n], indices[m]})
    OBVIOUS
  <2>4. c \in Nat /\ c <= lowlink[n] /\ c <= indices[m] /\ (c = lowlink[n] \/ c = indices[m])
    BY <1>1, <1>8, <2>3, MinOfTwo
  <2>5. CASE Lowered(m)
    <3>1. lowlink' = [lowlink EXCEPT ![n] = c]
      BY <1>1, <2>3, <2>5
    <3> QED
      BY <1>1, <2>1, <2>2, <2>4, <2>5, <3>1
  <2>6. CASE ~Lowered(m)
    BY <1>1, <1>8, <2>1, <2>2, <2>6
  <2> QED
    BY <2>5, <2>6
<1>10. WalkType'
  <2>1. Ends(edges)' = Ends(edges)
    BY EdgesStay
  <2> QED
    BY <1>4, <1>7, <1>9, <2>1 DEF WalkInv, WalkType
<1>11. Numbered'
  <2>1. \A k, l \in DOMAIN work' : k < l => indices'[Node(k)'] < indices'[Node(l)']
    BY <1>1, <1>4, <1>5 DEF WalkInv, Numbered
  <2> QED
    BY <1>6, <1>7, <2>1 DEF WalkInv, Numbered
<1>12. Looked'
  <2>1. ASSUME NEW k \in DOMAIN work'
        PROVE  /\ work'[k][2] \in 1 .. Len(Adjacent(Node(k)')) + 1
               /\ \A j \in 1 .. work'[k][2] - 1 : Adjacent(Node(k)')[j] \in Discovered'
    <3>1. CASE k # N
      BY <1>1, <1>4, <1>5, <1>7, <3>1 DEF WalkInv, Looked
    <3>2. CASE k = N
      <4>1. \A j \in 1 .. i - 1 : Adjacent(n)[j] \in Discovered
        <5>1. N \in DOMAIN work
          BY <1>1
        <5>2. \A j \in 1 .. work[N][2] - 1 : Adjacent(Node(N))[j] \in Discovered
          BY <5>1 DEF WalkInv, Looked
        <5> QED
          BY <1>1, <5>2
      <4>2. ASSUME NEW j \in 1 .. (i + 1) - 1 PROVE Adjacent(n)[j] \in Discovered
        <5>1. j \in 1 .. i - 1 \/ j = i
          BY <1>2
        <5> QED
          BY <1>3, <4>1, <5>1
      <4>3. work'[k][2] = i + 1 /\ Node(k)' = n /\ i + 1 \in 1 .. Len(Adjacent(n)) + 1
        <5>1. work'[k] = <<n, i + 1>> /\ Node(k)' = n
          BY <1>1, <1>4, <1>5, <3>2
        <5>2. i + 1 \in 1 .. Len(Adjacent(n)) + 1
          BY <1>2
        <5> QED
          BY <5>1, <5>2
      <4> QED
        BY <1>7, <4>2, <4>3
    <3> QED
      BY <3>1, <3>2
  <2>2. \A d \in Discovered' \ Running' : Successors(d)' \subseteq Discovered'
    BY <1>6, <1>7, EdgesStay DEF WalkInv, Looked
  <2>3. Closed(Settled)'
    BY <1>7, EdgesStay DEF WalkInv, Looked, Closed
  <2> QED
    BY <1>0, EdgesStay, <2>1, <2>2, <2>3 DEF Looked
<1>13. Joined'
  <2>1. \A x, y \in OnStack' : indices'[x] <= indices'[y] => Star(x, y)
    BY <1>7 DEF WalkInv, Joined
  <2>2. ASSUME NEW y \in OnStack'
        PROVE  \E k \in DOMAIN work' : indices'[Node(k)'] <= indices'[y] /\ Star(y, Node(k)')
    <3>1. PICK k \in DOMAIN work : indices[Node(k)] <= indices[y] /\ Star(y, Node(k))
      BY <1>7 DEF WalkInv, Joined
    <3> QED
      BY <1>1, <1>4, <1>5, <3>1
  <2> QED
    BY <1>0, <2>1, <2>2, EdgesStay DEF Joined
<1>14. Lowest'
  <2> SUFFICES ASSUME NEW k \in DOMAIN work'
               PROVE  /\ lowlink'[Node(k)'] <= indices'[Node(k)']
                      /\ \E x \in OnStack' : indices'[x] = lowlink'[Node(k)'] /\ Star(Node(k)', x)
                      /\ \A j \in 1 .. work'[k][2] - 1 :
                           Adjacent(Node(k)')[j] \in OnStack' =>
                             lowlink'[Node(k)'] <= indices'[Adjacent(Node(k)')[j]]
                      /\ \A y \in OnStack' \ Running' : Below(k, y)' =>
                           \A z \in Successors(y) \cap OnStack' : lowlink'[Node(k)'] <= indices'[z]
    BY LowestNext
  <2>1. /\ lowlink[Node(k)] <= indices[Node(k)]
        /\ \E x \in OnStack : indices[x] = lowlink[Node(k)] /\ Star(Node(k), x)
        /\ \A j \in 1 .. work[k][2] - 1 :
             Adjacent(Node(k))[j] \in OnStack =>
               lowlink[Node(k)] <= indices[Adjacent(Node(k))[j]]
        /\ \A y \in OnStack \ Running : Below(k, y) =>
             \A z \in Successors(y) \cap OnStack : lowlink[Node(k)] <= indices[z]
    BY <1>1, <1>4 DEF WalkInv, Lowest
  <2>2. /\ Node(k)' = Node(k) /\ Node(k) \in Discovered
        /\ \A y : Below(k, y)' <=> Below(k, y)
    <3>1. k \in DOMAIN work /\ Node(k)' = Node(k) /\ Node(k) \in Discovered
      BY <1>1, <1>4, <1>5, TopIs
    <3>2. k + 1 \in DOMAIN work => Node(k + 1)' = Node(k + 1)
      BY <1>1, <1>5
    <3> QED
      BY <1>1, <1>4, <3>1, <3>2 DEF Below
  <2>3. CASE k # N
    <3>1. Node(k) # n /\ lowlink'[Node(k)] = lowlink[Node(k)] /\ work'[k] = work[k]
      BY <1>1, <1>4, <1>9, <2>2, <2>3, TopIs
    <3>2. \A y : Below(k, y)' <=> Below(k, y)
      BY <2>2
    <3> QED
      BY <1>6, <1>7, <2>1, <2>2, <3>1, <3>2
  <2>4. CASE k = N
    <3>0. /\ lowlink'[n] \in Nat /\ lowlink[n] \in Nat /\ indices[n] \in Nat
          /\ \A z \in OnStack : indices[z] \in Nat
          /\ Node(k) = n /\ Node(k)' = n /\ work'[k][2] = i + 1 /\ work[k][2] = i
      BY <1>1, <1>4, <1>5, <1>8, <1>9, <2>4
    <3>1. lowlink'[n] <= indices[n]
      BY <1>9, <2>1, <3>0
    <3>2. \E x \in OnStack : indices[x] = lowlink'[n] /\ Star(n, x)
      BY <1>3, <1>9, <2>1, <3>0
    <3>3. ASSUME NEW j \in 1 .. (i + 1) - 1, Adjacent(n)[j] \in OnStack
          PROVE  lowlink'[n] <= indices[Adjacent(n)[j]]
      <4>1. j \in 1 .. i - 1 \/ j = i
        BY <1>2
      <4>2. CASE j \in 1 .. i - 1
        <5>1. lowlink[n] <= indices[Adjacent(n)[j]]
          BY <2>1, <3>0, <3>3, <4>2
        <5> QED
          BY <1>9, <3>0, <3>3, <5>1
      <4>3. CASE j = i
        BY <1>3, <1>9, <3>3, <4>3
      <4> QED
        BY <4>1, <4>2, <4>3
    <3>4. ASSUME NEW y \in OnStack \ Running, Below(k, y), NEW z \in Successors(y) \cap OnStack
          PROVE  lowlink'[n] <= indices[z]
      <4>1. lowlink[n] <= indices[z]
        BY <2>1, <3>0, <3>4
      <4> QED
        BY <1>9, <3>0, <4>1
    <3> QED
      BY <1>6, <1>7, <2>2, <3>0, <3>1, <3>2, <3>3, <3>4
  <2> QED
    BY <2>3, <2>4
<1>15. Whole' /\ {} \notin result'
  BY EdgesStay DEF WalkInv, Whole
<1> QED
  BY <1>10, <1>11, <1>12, <1>13, <1>14, <1>15 DEF WalkInv

\* A call that returns has looked at all of its neighbours, and no edge from a
\* node found since leads below its lowlink.
Left(N, n) ==
  /\ N \in Nat \ {0} /\ DOMAIN work = 1 .. N /\ DOMAIN work' = 1 .. N - 1
  /\ work' \in Seq(Nodes \X Nat)
  /\ \A k \in 1 .. N - 1 : work'[k] = work[k] /\ Node(k)' = Node(k)
  /\ n \in Nodes /\ n \in OnStack /\ n \in Discovered /\ Running' = Running \ {n}
  /\ indices' = indices /\ lowlink[n] <= indices[n]
  /\ Successors(n) \subseteq Discovered
  /\ \A y \in OnStack : indices[n] <= indices[y] =>
       /\ Successors(y) \subseteq Discovered
       /\ \A z \in Successors(y) \cap OnStack : lowlink[n] <= indices[z]
  /\ lowlink' \in [Discovered -> Nat]
  /\ \A k \in 1 .. N - 1 :
       /\ lowlink'[Node(k)] <= lowlink[Node(k)]
       /\ k # N - 1 => lowlink'[Node(k)] = lowlink[Node(k)]
       /\ k = N - 1 => lowlink'[Node(k)] <= lowlink[n]
       /\ lowlink'[Node(k)] = lowlink[Node(k)] \/ lowlink'[Node(k)] = lowlink[n]

LEMMA LeaveIs ==
  ASSUME Documents, WalkInv, UNCHANGED edges, Leave, NEW N, N = Len(work), NEW n, n = Node(N)
  PROVE  Left(N, n)
<1>1. /\ N \in Nat \ {0} /\ DOMAIN work = 1 .. N /\ Last(work) = work[N]
      /\ n \in Nodes /\ n = Last(work)[1] /\ n \in OnStack /\ n \in Discovered
      /\ \A k \in 1 .. N : Node(k) \in Discovered /\ Node(k) \in Nodes
      /\ \A k \in 1 .. N : k # N => indices[Node(k)] < indices[n] /\ Node(k) # n
      /\ OnStack \subseteq Discovered
      /\ \A d \in Discovered : indices[d] \in Nat /\ lowlink[d] \in Nat
  <2>1. work # <<>>
    BY DEF Leave
  <2>2. /\ N \in Nat \ {0} /\ DOMAIN work = 1 .. N /\ Last(work) = work[N]
        /\ \A k \in 1 .. N : Node(k) \in OnStack /\ Node(k) \in Discovered /\ Node(k) \in Nodes
        /\ \A k \in 1 .. N : k # N => indices[Node(k)] < indices[n] /\ Node(k) # n
        /\ OnStack \subseteq Discovered
        /\ \A d \in Discovered : indices[d] \in Nat /\ lowlink[d] \in Nat
    BY <2>1, TopIs
  <2>3. N \in 1 .. N
    BY <2>2
  <2>4. n = Last(work)[1]
    BY <2>2 DEF Node
  <2> QED
    BY <2>2, <2>3, <2>4
<1>2. /\ work' \in Seq(Nodes \X Nat) /\ DOMAIN work' = 1 .. N - 1
      /\ \A k \in 1 .. N - 1 : work'[k] = work[k]
      /\ work' = <<>> <=> N = 1
  <2>1. work' = SubSeq(work, 1, N - 1)
    BY DEF Leave, Front
  <2>2. N - 1 \in Nat /\ work \in Seq(Nodes \X Nat)
    BY <1>1 DEF WalkInv, WalkType
  <2>3. /\ work' \in Seq(Nodes \X Nat) /\ Len(work') = N - 1
        /\ \A k \in 1 .. N - 1 : work'[k] = work[k]
    BY <1>1, <2>1, <2>2
  <2>4. DOMAIN work' = 1 .. N - 1
    BY <2>3
  <2>5. work' = <<>> <=> N = 1
    <3>1. work' = <<>> <=> Len(work') = 0
      BY <2>3
    <3>2. N - 1 = 0 <=> N = 1
      BY <1>1
    <3> QED
      BY <2>3, <3>1, <3>2
  <2> QED
    BY <2>3, <2>4, <2>5
<1>3. \A k \in 1 .. N - 1 : Node(k)' = Node(k)
  BY <1>2 DEF Node
<1>4. Running' = Running \ {n}
  <2>1. ASSUME NEW k \in 1 .. N - 1 PROVE Node(k)' \in Running \ {n}
    <3>1. k \in 1 .. N /\ k # N
      BY <1>1
    <3>2. Node(k) \in Running
      BY <1>1, <3>1 DEF Running
    <3> QED
      BY <1>1, <1>3, <3>1, <3>2
  <2>2. ASSUME NEW k \in 1 .. N, Node(k) # n PROVE Node(k) \in Running'
    <3>1. k # N
      BY <2>2
    <3>2. k \in 1 .. N - 1
      BY <1>1, <3>1
    <3>3. k \in DOMAIN work' /\ Node(k)' = Node(k)
      BY <1>2, <1>3, <3>2
    <3> QED
      BY <3>3 DEF Running
  <2> QED
    BY <1>1, <1>2, <2>1, <2>2 DEF Running
<1>5. indices' = indices
  BY DEF Leave
<1>6. /\ lowlink[n] <= indices[n]
      /\ \A j \in 1 .. work[N][2] - 1 : Adjacent(n)[j] \in Discovered
      /\ \A j \in 1 .. work[N][2] - 1 : Adjacent(n)[j] \in OnStack => lowlink[n] <= indices[Adjacent(n)[j]]
      /\ \A y \in OnStack \ Running : Below(N, y) =>
           \A z \in Successors(y) \cap OnStack : lowlink[n] <= indices[z]
      /\ work[N][2] \in 1 .. Len(Adjacent(n)) + 1
  <2>1. N \in DOMAIN work
    BY <1>1
  <2> QED
    BY <2>1 DEF WalkInv, Looked, Lowest
<1>7. work[N][2] - 1 = Len(Adjacent(n)) /\ Len(Adjacent(n)) \in Nat
  <2>1. work[N][2] > Len(Adjacent(n)) /\ Len(Adjacent(n)) \in Nat
    BY <1>1, AdjacentIs DEF Leave
  <2> QED
    BY <1>6, <2>1
<1>8. ASSUME NEW z \in Successors(n)
      PROVE  z \in Discovered /\ (z \in OnStack => lowlink[n] <= indices[z])
  <2>1. CASE z = n
    BY <1>1, <1>6, <2>1
  <2>2. CASE z # n
    <3>1. PICK j \in 1 .. Len(Adjacent(n)) : Adjacent(n)[j] = z
      BY <1>1, <2>2, AdjacentIs
    <3>2. j \in 1 .. work[N][2] - 1
      BY <1>7, <3>1
    <3> QED
      BY <1>6, <3>1, <3>2
  <2> QED
    BY <2>1, <2>2
<1>9. ASSUME NEW y \in OnStack, indices[n] <= indices[y]
      PROVE  /\ Successors(y) \subseteq Discovered
             /\ \A z \in Successors(y) \cap OnStack : lowlink[n] <= indices[z]
  <2>1. CASE y = n
    BY <1>8, <2>1
  <2>2. CASE y # n
    <3>1. y \notin Running
      <4> SUFFICES ASSUME NEW k \in 1 .. N, y = Node(k) PROVE FALSE
        BY <1>1 DEF Running
      <4>1. k # N
        BY <2>2
      <4>2. indices[y] < indices[n] /\ indices[y] \in Nat /\ indices[n] \in Nat
        BY <1>1, <4>1
      <4> QED
        BY <1>9, <4>2
    <3>2. Below(N, y)
      <4>1. N + 1 \notin DOMAIN work
        BY <1>1
      <4> QED
        BY <1>9, <4>1 DEF Below
    <3>3. y \in Discovered
      BY <1>1
    <3> QED
      BY <1>6, <3>1, <3>2, <3>3 DEF WalkInv, Looked
  <2> QED
    BY <2>1, <2>2
<1>10. /\ lowlink' \in [Discovered -> Nat]
       /\ \A k \in 1 .. N - 1 :
            /\ lowlink'[Node(k)] <= lowlink[Node(k)]
            /\ k # N - 1 => lowlink'[Node(k)] = lowlink[Node(k)]
            /\ k = N - 1 => lowlink'[Node(k)] <= lowlink[n]
            /\ lowlink'[Node(k)] = lowlink[Node(k)] \/ lowlink'[Node(k)] = lowlink[n]
  <2>0. lowlink \in [Discovered -> Nat] /\ work' = Front(work)
    BY DEF WalkInv, WalkType, Leave
  <2>1. CASE N = 1
    <3>1. lowlink' = lowlink
      BY <1>2, <2>0, <2>1 DEF Leave
    <3>2. 1 .. N - 1 = {}
      BY <2>1
    <3> QED
      BY <2>0, <3>1, <3>2
  <2>2. CASE N # 1
    <3>1. N - 1 \in 1 .. N - 1 /\ N - 1 \in 1 .. N
      BY <1>1, <2>2
    <3> PICK p : p = Node(N - 1)
      OBVIOUS
    <3>2. p \in Discovered /\ Last(Front(work))[1] = p
      <4>1. Last(work') = work'[N - 1]
        <5>1. Len(work') = N - 1
          BY <1>1, <1>2
        <5> QED
          BY <5>1 DEF Last
      <4> QED
        BY <1>1, <1>2, <2>0, <3>1, <4>1 DEF Node
    <3>3. PICK c : c = Min({lowlink[p], lowlink[n]})
      OBVIOUS
    <3>4. c \in Nat /\ c <= lowlink[p] /\ c <= lowlink[n] /\ (c = lowlink[p] \/ c = lowlink[n])
      BY <1>1, <3>2, <3>3, MinOfTwo
    <3>5. lowlink' = [lowlink EXCEPT ![p] = c]
      BY <1>1, <1>2, <2>0, <2>2, <3>2, <3>3 DEF Leave
    <3>6. lowlink' \in [Discovered -> Nat] /\ lowlink'[p] = c
      BY <2>0, <3>2, <3>4, <3>5
    <3>7. ASSUME NEW k \in 1 .. N - 1, k # N - 1 PROVE lowlink'[Node(k)] = lowlink[Node(k)]
      <4>1. k < N - 1 /\ k \in DOMAIN work /\ N - 1 \in DOMAIN work
        BY <1>1, <3>1, <3>7
      <4>2. indices[Node(k)] < indices[p]
        BY <4>1 DEF WalkInv, Numbered
      <4>3. Node(k) \in Discovered /\ Node(k) # p
        BY <1>1, <3>2, <4>1, <4>2
      <4> QED
        BY <2>0, <3>5, <4>3
    <3>8. \A k \in 1 .. N - 1 : lowlink[Node(k)] \in Nat
      BY <1>1
    <3> QED
      BY <3>4, <3>6, <3>7, <3>8
  <2> QED
    BY <2>1, <2>2
<1> HIDE DEF Leave
<1> QED
  BY <1>1, <1>2, <1>3, <1>4, <1>5, <1>6, <1>8, <1>9, <1>10 DEF Left

\* A call that is no root of a component leaves its nodes to its parent, which
\* takes over the lowlink.
LEMMA LeaveKeeps ==
  ASSUME Documents, WalkInv, UNCHANGED edges, Leave,
         lowlink[Node(Len(work))] # indices[Node(Len(work))]
  PROVE  WalkInv'
<1> PICK N : N = Len(work)
  OBVIOUS
<1> PICK n : n = Node(N)
  OBVIOUS
<1>0. /\ \A k : Adjacent(Node(k))' = Adjacent(Node(k)')
      /\ \A k, x : Star(x, Node(k))' = Star(x, Node(k)')
  BY DEF Adjacent, Star, Reached, Successors
<1>1. Left(N, n)
  BY LeaveIs
<1> USE DEF Left
<1>2. /\ \A k \in 1 .. N : Node(k) \in Discovered /\ Node(k) \in Nodes /\ Node(k) \in OnStack
      /\ \A k \in 1 .. N - 1 : indices[Node(k)] < indices[n]
      /\ OnStack \subseteq Discovered
      /\ \A d \in Discovered : indices[d] \in Nat /\ lowlink[d] \in Nat
  <2>1. work # <<>>
    BY DEF Leave
  <2>2. \A k \in 1 .. N - 1 : k \in DOMAIN work /\ k # N
    BY <1>1
  <2> QED
    BY <1>1, <2>1, <2>2, TopIs
<1>3. stack' = stack /\ result' = result
  <2>1. n = Last(work)[1]
    BY <1>1 DEF Node, Last
  <2> QED
    BY <2>1 DEF Leave
<1>4. Discovered' = Discovered /\ Found' = Found /\ OnStack' = OnStack /\ Settled' = Settled
  BY <1>1, <1>3 DEF Discovered, Found, OnStack, Settled
<1>5. lowlink[n] < indices[n]
  BY <1>1, <1>2
<1>6. WalkType'
  <2>1. Ends(edges)' = Ends(edges)
    BY EdgesStay
  <2> QED
    BY <1>1, <1>3, <1>4, <2>1 DEF WalkInv, WalkType
<1>7. Numbered'
  <2>1. ASSUME NEW k \in DOMAIN work', NEW l \in DOMAIN work', k < l
        PROVE  indices'[Node(k)'] < indices'[Node(l)']
    <3>1. k \in DOMAIN work /\ l \in DOMAIN work
      BY <1>1
    <3>2. indices[Node(k)] < indices[Node(l)]
      BY <2>1, <3>1 DEF WalkInv, Numbered
    <3>3. Node(k)' = Node(k) /\ Node(l)' = Node(l)
      BY <1>1
    <3> QED
      BY <1>1, <3>2, <3>3
  <2>2. Running' \subseteq OnStack'
    BY <1>1, <1>4 DEF WalkInv, Numbered
  <2> QED
    BY <1>1, <1>3, <1>4, <2>1, <2>2 DEF WalkInv, Numbered
<1>8. Looked'
  <2>1. ASSUME NEW k \in DOMAIN work'
        PROVE  /\ work'[k][2] \in 1 .. Len(Adjacent(Node(k)')) + 1
               /\ \A j \in 1 .. work'[k][2] - 1 : Adjacent(Node(k)')[j] \in Discovered'
    <3>1. k \in DOMAIN work
      BY <1>1
    <3> QED
      BY <1>1, <1>4, <3>1 DEF WalkInv, Looked
  <2>2. \A d \in Discovered' \ Running' : Successors(d)' \subseteq Discovered'
    BY <1>1, <1>4, EdgesStay DEF WalkInv, Looked
  <2>3. Closed(Settled)'
    BY <1>4, EdgesStay DEF WalkInv, Looked, Closed
  <2> QED
    BY <1>0, EdgesStay, <2>1, <2>2, <2>3 DEF Looked
<1>9. Joined'
  <2>1. \A x, y \in OnStack' : indices'[x] <= indices'[y] => Star(x, y)
    BY <1>1, <1>4 DEF WalkInv, Joined
  <2>2. ASSUME NEW y \in OnStack
        PROVE  \E k \in 1 .. N - 1 : indices[Node(k)] <= indices[y] /\ Star(y, Node(k))
    <3>1. PICK k \in 1 .. N : indices[Node(k)] <= indices[y] /\ Star(y, Node(k))
      BY <1>1 DEF WalkInv, Joined
    <3>2. CASE k # N
      <4>1. k \in 1 .. N - 1
        BY <1>1, <3>2
      <4> QED
        BY <3>1, <4>1
    <3>3. CASE k = N
      <4>1. PICK x \in OnStack : indices[x] = lowlink[n] /\ Star(n, x)
        <5>1. N \in DOMAIN work
          BY <1>1
        <5> QED
          BY <5>1 DEF WalkInv, Lowest
      <4>2. PICK l \in 1 .. N : indices[Node(l)] <= indices[x] /\ Star(x, Node(l))
        BY <1>1, <4>1 DEF WalkInv, Joined
      <4>3. /\ indices[x] \in Nat /\ indices[n] \in Nat /\ indices[y] \in Nat
            /\ indices[Node(l)] \in Nat
        BY <1>2, <4>1, <4>2
      <4>4. l # N
        BY <1>5, <4>1, <4>2, <4>3
      <4>5. l \in 1 .. N - 1
        BY <1>1, <4>4
      <4>6. indices[Node(l)] <= indices[y]
        BY <1>5, <3>1, <3>3, <4>1, <4>2, <4>3
      <4>7. Star(y, Node(l))
        <5>1. y \in Nodes /\ n \in Nodes /\ x \in Nodes
          BY <1>1, <1>2, <4>1, EndsAre DEF WalkInv, WalkType
        <5>2. Star(y, n)
          BY <3>1, <3>3
        <5>3. Star(y, x)
          BY <4>1, <5>1, <5>2, StarTransitive
        <5> QED
          BY <4>2, <5>1, <5>3, StarTransitive
      <4> QED
        BY <4>5, <4>6, <4>7
    <3> QED
      BY <3>2, <3>3
  <2>3. \A y \in OnStack' : \E k \in DOMAIN work' : indices'[Node(k)'] <= indices'[y] /\ Star(y, Node(k)')
    BY <1>1, <1>4, <2>2
  <2> QED
    BY <1>0, <2>1, <2>3, EdgesStay DEF Joined
<1>10. ASSUME NEW k \in 1 .. N - 1
       PROVE  /\ lowlink'[Node(k)] <= indices[Node(k)]
              /\ \E x \in OnStack : indices[x] = lowlink'[Node(k)] /\ Star(Node(k), x)
              /\ \A j \in 1 .. work[k][2] - 1 :
                   Adjacent(Node(k))[j] \in OnStack =>
                     lowlink'[Node(k)] <= indices[Adjacent(Node(k))[j]]
              /\ \A y \in OnStack \ Running' : Below(k, y)' =>
                   \A z \in Successors(y) \cap OnStack : lowlink'[Node(k)] <= indices[z]
  <2> PICK p : p = Node(k)
    OBVIOUS
  <2>1. /\ k \in DOMAIN work /\ k \in DOMAIN work' /\ p \in Discovered /\ p \in OnStack /\ p \in Nodes
        /\ lowlink'[p] \in Nat /\ lowlink[p] \in Nat /\ lowlink[n] \in Nat
        /\ indices[p] \in Nat /\ indices[n] \in Nat /\ indices[p] < indices[n]
        /\ lowlink'[p] <= lowlink[p]
    <3>1. k \in 1 .. N
      BY <1>1
    <3> QED
      BY <1>1, <1>2, <3>1
  <2>2. /\ lowlink[p] <= indices[p]
        /\ \E x \in OnStack : indices[x] = lowlink[p] /\ Star(p, x)
        /\ \A j \in 1 .. work[k][2] - 1 :
             Adjacent(p)[j] \in OnStack => lowlink[p] <= indices[Adjacent(p)[j]]
        /\ \A y \in OnStack \ Running : Below(k, y) =>
             \A z \in Successors(y) \cap OnStack : lowlink[p] <= indices[z]
    BY <2>1 DEF WalkInv, Lowest
  <2>3. \E x \in OnStack : indices[x] = lowlink'[p] /\ Star(p, x)
    <3>1. CASE lowlink'[p] = lowlink[p]
      BY <2>2, <3>1
    <3>2. CASE lowlink'[p] = lowlink[n]
      <4>1. PICK x \in OnStack : indices[x] = lowlink[n] /\ Star(n, x)
        <5>1. N \in DOMAIN work
          BY <1>1
        <5> QED
          BY <5>1 DEF WalkInv, Lowest
      <4>2. Star(p, n)
        <5>1. indices[p] <= indices[n]
          BY <2>1
        <5> QED
          BY <1>1, <2>1, <5>1 DEF WalkInv, Joined
      <4>3. Star(p, x)
        BY <1>1, <2>1, <4>1, <4>2, StarTransitive
      <4> QED
        BY <3>2, <4>1, <4>3
    <3> QED
      BY <1>1, <3>1, <3>2
  <2>4. \A z \in OnStack : indices[z] \in Nat
    BY <1>2
  <2>5. ASSUME NEW y \in OnStack \ Running', Below(k, y)', NEW z \in Successors(y) \cap OnStack
        PROVE  lowlink'[p] <= indices[z]
    <3>1. indices[p] <= indices[y] /\ (k + 1 \in DOMAIN work' => indices[y] < indices[Node(k + 1)])
      <4>1. k + 1 \in DOMAIN work' => Node(k + 1)' = Node(k + 1)
        BY <1>1
      <4>2. Node(k)' = p
        BY <1>1
      <4> QED
        BY <1>1, <2>5, <4>1, <4>2 DEF Below
    <3>2. CASE indices[y] < indices[n]
      <4>1. y # n /\ y \in OnStack \ Running
        BY <1>1, <2>4, <3>2
      <4>2. Below(k, y)
        <5>1. k + 1 \in DOMAIN work => k + 1 \in DOMAIN work' \/ k + 1 = N
          BY <1>1
        <5>2. k + 1 \in DOMAIN work => indices[y] < indices[Node(k + 1)]
          BY <3>1, <3>2, <5>1
        <5> QED
          BY <3>1, <5>2 DEF Below
      <4>3. lowlink[p] <= indices[z]
        BY <2>2, <2>5, <4>1, <4>2
      <4> QED
        BY <2>1, <2>4, <2>5, <4>3
    <3>3. CASE indices[n] <= indices[y]
      <4>1. k = N - 1
        <5> SUFFICES ASSUME k # N - 1 PROVE FALSE
          OBVIOUS
        <5>1. k + 1 \in 1 .. N - 1
          BY <1>1
        <5>2. indices[y] < indices[Node(k + 1)] /\ indices[Node(k + 1)] < indices[n]
          BY <1>1, <1>2, <3>1, <5>1
        <5>3. indices[Node(k + 1)] \in Nat /\ indices[y] \in Nat
          <6>1. k + 1 \in 1 .. N
            BY <1>1, <5>1
          <6> QED
            BY <1>2, <2>4, <2>5, <6>1
        <5> QED
          BY <2>1, <3>3, <5>2, <5>3
      <4>2. lowlink'[p] <= lowlink[n] /\ lowlink[n] <= indices[z]
        BY <1>1, <2>5, <3>3, <4>1
      <4> QED
        BY <2>1, <2>4, <2>5, <4>2
    <3>4. indices[y] \in Nat
      BY <2>4, <2>5
    <3> QED
      BY <2>1, <3>2, <3>3, <3>4
  <2>6. ASSUME NEW j \in 1 .. work[k][2] - 1, Adjacent(p)[j] \in OnStack
        PROVE  lowlink'[p] <= indices[Adjacent(p)[j]]
    <3>1. lowlink[p] <= indices[Adjacent(p)[j]] /\ indices[Adjacent(p)[j]] \in Nat
      BY <2>2, <2>4, <2>6
    <3> QED
      BY <2>1, <3>1
  <2>7. lowlink'[p] <= indices[p]
    BY <2>1, <2>2
  <2> QED
    BY <2>3, <2>5, <2>6, <2>7
<1>11. Lowest'
  <2>1. ASSUME NEW k \in DOMAIN work'
        PROVE  /\ lowlink'[Node(k)'] <= indices'[Node(k)']
               /\ \E x \in OnStack' : indices'[x] = lowlink'[Node(k)'] /\ Star(Node(k)', x)
               /\ \A j \in 1 .. work'[k][2] - 1 :
                    Adjacent(Node(k)')[j] \in OnStack' =>
                      lowlink'[Node(k)'] <= indices'[Adjacent(Node(k)')[j]]
               /\ \A y \in OnStack' \ Running' : Below(k, y)' =>
                    \A z \in Successors(y) \cap OnStack' : lowlink'[Node(k)'] <= indices'[z]
    <3>1. k \in 1 .. N - 1 /\ Node(k)' = Node(k) /\ work'[k] = work[k]
      BY <1>1
    <3>2. indices' = indices /\ OnStack' = OnStack
      BY <1>1, <1>4
    <3>3. /\ lowlink'[Node(k)] <= indices[Node(k)]
          /\ \E x \in OnStack : indices[x] = lowlink'[Node(k)] /\ Star(Node(k), x)
          /\ \A j \in 1 .. work[k][2] - 1 :
               Adjacent(Node(k))[j] \in OnStack =>
                 lowlink'[Node(k)] <= indices[Adjacent(Node(k))[j]]
          /\ \A y \in OnStack \ Running' : Below(k, y)' =>
               \A z \in Successors(y) \cap OnStack : lowlink'[Node(k)] <= indices[z]
      BY <1>10, <3>1
    <3> QED
      BY <3>1, <3>2, <3>3
  <2> QED
    BY <2>1, LowestNext
<1>12. Whole' /\ {} \notin result'
  BY <1>3, EdgesStay DEF WalkInv, Whole
<1> QED
  BY <1>6, <1>7, <1>8, <1>9, <1>11, <1>12 DEF WalkInv

\* A call that is the root of a component takes it off the stack, whole.
LEMMA LeaveSettles ==
  ASSUME Documents, WalkInv, UNCHANGED edges, Leave,
         lowlink[Node(Len(work))] = indices[Node(Len(work))]
  PROVE  WalkInv'
<1> PICK N : N = Len(work)
  OBVIOUS
<1> PICK n : n = Node(N)
  OBVIOUS
<1>0. /\ \A k : Adjacent(Node(k))' = Adjacent(Node(k)')
      /\ \A k, x : Star(x, Node(k))' = Star(x, Node(k)')
  BY DEF Adjacent, Star, Reached, Successors
<1>1. Left(N, n)
  BY LeaveIs
<1> USE DEF Left
<1>2. /\ \A k \in 1 .. N : Node(k) \in Discovered /\ Node(k) \in Nodes /\ Node(k) \in OnStack
      /\ \A k \in 1 .. N - 1 : indices[Node(k)] < indices[n]
      /\ OnStack \subseteq Discovered
      /\ \A d \in Discovered : indices[d] \in Nat /\ lowlink[d] \in Nat
  <2>1. work # <<>>
    BY DEF Leave
  <2>2. \A k \in 1 .. N - 1 : k \in DOMAIN work /\ k # N
    BY <1>1
  <2> QED
    BY <1>1, <2>1, <2>2, TopIs
<1> DEFINE C == {y \in OnStack : indices[n] <= indices[y]}
<1>3. /\ stack' \in Seq(Nodes) /\ DOMAIN stack' \subseteq DOMAIN stack
      /\ \A i \in DOMAIN stack' : stack'[i] = stack[i]
      /\ OnStack' = OnStack \ C /\ result' = result \cup {C}
  <2> PICK at : at = CHOOSE k \in DOMAIN stack : stack[k] = n
    OBVIOUS
  <2> PICK L : L = Len(stack)
    OBVIOUS
  <2>1. DOMAIN stack = 1 .. L /\ L \in Nat /\ stack \in Seq(Nodes)
    BY DEF WalkInv, WalkType
  <2>2. at \in 1 .. L /\ stack[at] = n
    BY <1>1, <2>1 DEF OnStack
  <2>3. result' = result \cup {ToSet(SubSeq(stack, at, L))} /\ stack' = SubSeq(stack, 1, at - 1)
    <3>1. n = Last(work)[1]
      BY <1>1 DEF Node, Last
    <3> QED
      BY <3>1 DEF Leave
  <2>4. /\ stack' \in Seq(Nodes) /\ DOMAIN stack' = 1 .. at - 1
        /\ \A i \in 1 .. at - 1 : stack'[i] = stack[i]
    <3>1. at - 1 \in 0 .. L
      BY <2>1, <2>2
    <3>2. /\ stack' \in Seq(Nodes) /\ Len(stack') = at - 1
          /\ \A i \in 1 .. at - 1 : stack'[i] = stack[i]
      <4>1. \A i \in 1 .. at - 1 : i \in 1 .. L /\ stack[i] \in Nodes
        BY <2>1, <3>1
      <4>2. at - 1 \in Int /\ 1 \in Int /\ Len(SubSeq(stack, 1, at - 1)) = at - 1
            /\ SubSeq(stack, 1, at - 1) \in Seq(Nodes)
        BY <2>1, <3>1, <4>1, SubSeqProperties
      <4>3. \A i \in 1 .. (at - 1) - 1 + 1 : SubSeq(stack, 1, at - 1)[i] = stack[1 + i - 1]
        BY <4>1, <4>2, SubSeqProperties
      <4>4. \A i \in 1 .. at - 1 : i \in 1 .. (at - 1) - 1 + 1 /\ 1 + i - 1 = i
        BY <4>2
      <4> QED
        BY <2>3, <4>2, <4>3, <4>4
    <3> QED
      BY <3>2
  <2>5. \A i \in 1 .. L : stack[i] \in Discovered /\ indices[stack[i]] \in Nat /\ stack[i] \in OnStack
    BY <1>2, <2>1 DEF OnStack
  <2>6. ASSUME NEW i \in 1 .. L PROVE stack[i] \in C <=> at <= i
    <3>1. CASE i < at
      <4>1. indices[stack[i]] < indices[n]
        BY <2>1, <2>2, <3>1 DEF WalkInv, Numbered
      <4> QED
        BY <1>1, <1>2, <2>2, <2>5, <3>1, <4>1
    <3>2. CASE i = at
      BY <1>1, <1>2, <2>2, <2>5, <3>2
    <3>3. CASE at < i
      <4>1. indices[n] < indices[stack[i]]
        BY <2>1, <2>2, <3>3 DEF WalkInv, Numbered
      <4> QED
        BY <1>1, <1>2, <2>2, <2>5, <3>3, <4>1
    <3> QED
      BY <2>2, <3>1, <3>2, <3>3
  <2> HIDE DEF C
  <2>7. OnStack = {stack[i] : i \in 1 .. L} /\ OnStack' = {stack[i] : i \in 1 .. at - 1}
    <3>1. OnStack' = {stack'[i] : i \in 1 .. at - 1}
      BY <2>4 DEF OnStack
    <3> QED
      BY <2>1, <2>4, <3>1 DEF OnStack
  <2>8. C \subseteq OnStack
    BY DEF C
  <2>9. OnStack' = OnStack \ C
    <3>1. ASSUME NEW i \in 1 .. at - 1 PROVE i \in 1 .. L /\ ~ (at <= i)
      BY <2>1, <2>2
    <3>2. ASSUME NEW i \in 1 .. L, ~ (at <= i) PROVE i \in 1 .. at - 1
      BY <2>1, <2>2, <3>2
    <3> QED
      BY <2>6, <2>7, <3>1, <3>2
  <2>10. ToSet(SubSeq(stack, at, L)) = C
    <3> PICK s : s = SubSeq(stack, at, L)
      OBVIOUS
    <3>1. /\ Len(s) = L - at + 1 /\ DOMAIN s = 1 .. L - at + 1
          /\ \A i \in 1 .. L - at + 1 : s[i] = stack[at + i - 1]
      BY <2>1, <2>2
    <3>2. ToSet(s) = {s[i] : i \in 1 .. L - at + 1}
      BY <3>1 DEF ToSet
    <3>3. ASSUME NEW i \in 1 .. L - at + 1 PROVE s[i] \in C
      <4>1. at + i - 1 \in 1 .. L /\ at <= at + i - 1
        BY <2>1, <2>2
      <4> QED
        BY <2>6, <3>1, <4>1
    <3>4. ASSUME NEW y \in C PROVE \E i \in 1 .. L - at + 1 : s[i] = y
      <4>1. PICK i \in 1 .. L : stack[i] = y
        BY <2>7, <2>8
      <4>2. at <= i
        BY <2>6, <4>1
      <4>3. i - at + 1 \in 1 .. L - at + 1 /\ at + (i - at + 1) - 1 = i
        BY <2>1, <2>2, <4>2
      <4>4. s[i - at + 1] = stack[i]
        BY <3>1, <4>3
      <4> QED
        BY <4>1, <4>3, <4>4
    <3> HIDE DEF C
    <3>5. ASSUME NEW y \in C PROVE y \in ToSet(s)
      <4>1. PICK i \in 1 .. L - at + 1 : s[i] = y
        BY <3>4
      <4> QED
        BY <3>2, <4>1
    <3>6. ASSUME NEW y \in ToSet(s) PROVE y \in C
      BY <3>2, <3>3
    <3> QED
      BY <3>5, <3>6
  <2>11. DOMAIN stack' \subseteq DOMAIN stack
    BY <2>1, <2>2, <2>4
  <2> QED
    BY <2>3, <2>4, <2>9, <2>10, <2>11
<1>4. n \in C /\ C \subseteq OnStack /\ C \subseteq Nodes
  <2>1. OnStack \subseteq Nodes
    BY <1>2, EndsAre DEF WalkInv, WalkType
  <2>2. indices[n] <= indices[n]
    BY <1>1, <1>2
  <2> QED
    BY <1>1, <2>1, <2>2
<1>5. /\ \A z \in OnStack : indices[z] \in Nat
      /\ \A y \in OnStack' : indices[y] < indices[n]
  <2>1. \A z \in OnStack : indices[z] \in Nat
    BY <1>2
  <2>2. \A y \in OnStack' : y \in OnStack /\ ~ (indices[n] <= indices[y])
    BY <1>3
  <2> QED
    BY <1>1, <2>1, <2>2
<1>6. Discovered' = Discovered /\ Found' = Found /\ Settled' = Settled \cup C
  BY <1>1, <1>3 DEF Discovered, Found, Settled
<1>7. Settled \cup C \in SUBSET Nodes /\ Closed(Settled \cup C)
  <2>1. ASSUME NEW y \in C, NEW z \in Successors(y) PROVE z \in Settled \cup C
    <3>1. z \in Discovered
      BY <1>1, <2>1
    <3>2. z \in OnStack \/ z \in Settled
      BY <3>1 DEF WalkInv, Numbered
    <3>3. ASSUME z \in OnStack PROVE z \in C
      <4>1. lowlink[n] <= indices[z]
        BY <1>1, <2>1, <3>3
      <4> QED
        BY <3>3, <4>1
    <3> QED
      BY <3>2, <3>3
  <2>2. Settled \subseteq Nodes
    BY DEF Settled, WalkInv, WalkType
  <2> HIDE DEF C
  <2> QED
    BY <1>4, <2>1, <2>2 DEF Closed, WalkInv, Looked
<1>8. ASSUME NEW c \in C PROVE C = Class(c)
  <2>1. ASSUME NEW a \in C, NEW d \in C PROVE Star(a, d)
    <3>1. PICK k \in DOMAIN work : indices[Node(k)] <= indices[a] /\ Star(a, Node(k))
      BY <1>4 DEF WalkInv, Joined
    <3>2. Node(k) \in OnStack /\ indices[Node(k)] \in Nat /\ Node(k) \in Nodes
      BY <1>1, <1>2
    <3>3. indices[Node(k)] <= indices[n]
      <4>1. k \in 1 .. N - 1 \/ k = N
        BY <1>1
      <4>2. indices[n] <= indices[n] /\ indices[n] \in Nat
        BY <1>1, <1>2
      <4>3. k \in 1 .. N - 1 => indices[Node(k)] < indices[n]
        BY <1>2
      <4> QED
        BY <3>2, <4>1, <4>2, <4>3
    <3>4. Star(Node(k), n)
      BY <1>1, <3>2, <3>3 DEF WalkInv, Joined
    <3>5. Star(n, d)
      BY <1>1, <2>1 DEF WalkInv, Joined
    <3>6. a \in Nodes
      BY <1>4
    <3>7. Star(a, n)
      BY <3>1, <3>4, <3>6, StarTransitive
    <3> QED
      BY <3>5, <3>6, <3>7, StarTransitive
  <2>2. ASSUME NEW d \in Nodes, Star(c, d), Star(d, c) PROVE d \in C
    <3>1. d \in Settled \cup C
      <4> HIDE DEF C
      <4> QED
        BY <1>4, <1>7, <2>2, StarIs
    <3>2. ASSUME d \in Settled PROVE FALSE
      <4>1. Settled \in SUBSET Nodes /\ Closed(Settled)
        BY DEF Settled, WalkInv, WalkType, Looked
      <4>2. c \in Settled
        BY <2>2, <3>2, <4>1, StarIs
      <4> QED
        BY <1>4, <4>2 DEF WalkInv, Numbered
    <3> QED
      BY <3>1, <3>2
  <2>3. C \subseteq Nodes /\ c \in C
    BY <1>4
  <2> HIDE DEF C
  <2>4. ASSUME NEW d \in C PROVE d \in Class(c)
    BY <2>1, <2>3, Zenon DEF Class
  <2>5. ASSUME NEW d \in Class(c) PROVE d \in C
    BY <2>2, Zenon DEF Class
  <2> QED
    BY <2>4, <2>5
<1> HIDE DEF C
<1>9. WalkType'
  <2>1. Ends(edges)' = Ends(edges)
    BY EdgesStay
  <2> QED
    BY <1>1, <1>3, <1>4, <1>6, <2>1 DEF WalkInv, WalkType
<1>10. Numbered'
  <2>1. ASSUME NEW k \in DOMAIN work', NEW l \in DOMAIN work', k < l
        PROVE  indices'[Node(k)'] < indices'[Node(l)']
    <3>1. k \in DOMAIN work /\ l \in DOMAIN work
      BY <1>1
    <3>2. indices[Node(k)] < indices[Node(l)]
      BY <2>1, <3>1 DEF WalkInv, Numbered
    <3>3. Node(k)' = Node(k) /\ Node(l)' = Node(l)
      BY <1>1
    <3> QED
      BY <1>1, <3>2, <3>3
  <2>2. Running' \subseteq OnStack'
    <3>1. ASSUME NEW k \in 1 .. N - 1 PROVE Node(k) \in OnStack'
      <4>1. k \in 1 .. N /\ indices[Node(k)] < indices[n]
        BY <1>1, <1>2
      <4>2. Node(k) \notin C
        BY <1>1, <1>2, <4>1 DEF C
      <4> QED
        BY <1>2, <1>3, <4>1, <4>2
    <3>2. \A k \in DOMAIN work' : Node(k)' = Node(k) /\ k \in 1 .. N - 1
      BY <1>1
    <3> QED
      BY <3>1, <3>2 DEF Running
  <2>3. \A i, j \in DOMAIN stack' : i < j => indices'[stack'[i]] < indices'[stack'[j]]
    BY <1>1, <1>3 DEF WalkInv, Numbered
  <2>4. OnStack' \cup Settled' = Discovered' /\ OnStack' \cap Settled' = {}
    BY <1>3, <1>4, <1>6 DEF WalkInv, Numbered
  <2>5. /\ \A d \in Discovered' : indices'[d] < Found'
        /\ \A d, e \in Discovered' : indices'[d] = indices'[e] => d = e
    BY <1>1, <1>6 DEF WalkInv, Numbered
  <2> QED
    BY <2>1, <2>2, <2>3, <2>4, <2>5 DEF Numbered
<1>11. Looked'
  <2>1. ASSUME NEW k \in DOMAIN work'
        PROVE  /\ work'[k][2] \in 1 .. Len(Adjacent(Node(k)')) + 1
               /\ \A j \in 1 .. work'[k][2] - 1 : Adjacent(Node(k)')[j] \in Discovered'
    <3>1. k \in DOMAIN work
      BY <1>1
    <3> QED
      BY <1>1, <1>6, <3>1 DEF WalkInv, Looked
  <2>2. \A d \in Discovered' \ Running' : Successors(d)' \subseteq Discovered'
    BY <1>1, <1>6, EdgesStay DEF WalkInv, Looked
  <2>3. Closed(Settled)'
    BY <1>6, <1>7, EdgesStay DEF Closed
  <2> QED
    BY <1>0, EdgesStay, <2>1, <2>2, <2>3 DEF Looked
<1>12. Joined'
  <2>1. \A x, y \in OnStack' : indices'[x] <= indices'[y] => Star(x, y)
    BY <1>1, <1>3 DEF WalkInv, Joined
  <2>2. ASSUME NEW y \in OnStack'
        PROVE  \E k \in DOMAIN work' : indices'[Node(k)'] <= indices'[y] /\ Star(y, Node(k)')
    <3>1. PICK k \in 1 .. N : indices[Node(k)] <= indices[y] /\ Star(y, Node(k))
      BY <1>1, <1>3 DEF WalkInv, Joined
    <3>2. k # N
      <4>1. y \in OnStack /\ indices[y] \in Nat /\ indices[n] \in Nat
        BY <1>1, <1>3, <1>5
      <4> QED
        BY <1>5, <3>1, <4>1
    <3>3. k \in 1 .. N - 1
      BY <1>1, <3>2
    <3> QED
      BY <1>1, <3>1, <3>3
  <2> QED
    BY <1>0, <2>1, <2>2, EdgesStay DEF Joined
<1>13. Lowest'
  <2>1. ASSUME NEW k \in DOMAIN work'
        PROVE  /\ lowlink'[Node(k)'] <= indices'[Node(k)']
               /\ \E x \in OnStack' : indices'[x] = lowlink'[Node(k)'] /\ Star(Node(k)', x)
               /\ \A j \in 1 .. work'[k][2] - 1 :
                    Adjacent(Node(k)')[j] \in OnStack' =>
                      lowlink'[Node(k)'] <= indices'[Adjacent(Node(k)')[j]]
               /\ \A y \in OnStack' \ Running' : Below(k, y)' =>
                    \A z \in Successors(y) \cap OnStack' : lowlink'[Node(k)'] <= indices'[z]
    <3> PICK p : p = Node(k)
      OBVIOUS
    <3>1. /\ k \in 1 .. N - 1 /\ Node(k)' = p /\ work'[k] = work[k] /\ indices' = indices
          /\ k \in DOMAIN work /\ p \in OnStack /\ p \in Discovered
          /\ indices[p] < indices[n] /\ indices[p] \in Nat /\ indices[n] \in Nat
          /\ lowlink[p] \in Nat
      <4>1. k \in 1 .. N - 1 /\ k \in 1 .. N
        BY <1>1
      <4> QED
        BY <1>1, <1>2, <4>1
    <3>2. /\ lowlink[p] <= indices[p]
          /\ \E x \in OnStack : indices[x] = lowlink[p] /\ Star(p, x)
          /\ \A j \in 1 .. work[k][2] - 1 :
               Adjacent(p)[j] \in OnStack => lowlink[p] <= indices[Adjacent(p)[j]]
          /\ \A y \in OnStack \ Running : Below(k, y) =>
               \A z \in Successors(y) \cap OnStack : lowlink[p] <= indices[z]
      BY <3>1 DEF WalkInv, Lowest
    <3>3. lowlink'[p] = lowlink[p]
      <4>1. lowlink[n] = indices[n]
        OBVIOUS
      <4>2. lowlink'[p] <= lowlink[p] /\ (lowlink'[p] = lowlink[p] \/ lowlink'[p] = lowlink[n])
        BY <1>1, <3>1
      <4> QED
        BY <3>1, <3>2, <4>1, <4>2
    <3>4. \E x \in OnStack' : indices[x] = lowlink[p] /\ Star(p, x)
      <4>1. PICK x \in OnStack : indices[x] = lowlink[p] /\ Star(p, x)
        BY <3>2
      <4>2. ~ (indices[n] <= indices[x])
        BY <3>1, <3>2, <4>1
      <4> QED
        BY <1>3, <4>1, <4>2 DEF C
    <3>5. ASSUME NEW y \in OnStack' \ Running', Below(k, y)'
          PROVE  \A z \in Successors(y) \cap OnStack' : lowlink[p] <= indices[z]
      <4>1. y \in OnStack /\ indices[y] < indices[n] /\ indices[y] \in Nat /\ y \notin Running
        <5>1. y \in OnStack /\ indices[y] < indices[n] /\ indices[y] \in Nat
          BY <1>3, <1>5
        <5> QED
          BY <1>1, <5>1
      <4>2. indices[p] <= indices[y] /\ (k + 1 \in DOMAIN work' => indices[y] < indices[Node(k + 1)])
        <5>1. k + 1 \in DOMAIN work' => Node(k + 1)' = Node(k + 1)
          BY <1>1
        <5> QED
          BY <3>1, <3>5, <5>1 DEF Below
      <4>3. Below(k, y)
        <5>1. k + 1 \in DOMAIN work => k + 1 \in DOMAIN work' \/ k + 1 = N
          BY <1>1, <3>1
        <5> QED
          BY <4>1, <4>2, <5>1 DEF Below
      <4> QED
        BY <1>3, <3>2, <4>1, <4>3
    <3>6. \A j \in 1 .. work[k][2] - 1 :
            Adjacent(p)[j] \in OnStack' => lowlink[p] <= indices[Adjacent(p)[j]]
      BY <1>3, <3>2
    <3> QED
      BY <3>1, <3>2, <3>3, <3>4, <3>5, <3>6
  <2> QED
    BY <2>1, LowestNext
<1>14. Whole' /\ {} \notin result'
  <2>1. \A c : Class(c)' = Class(c)
    BY EdgesStay
  <2>2. \A D \in result' : \A c \in D : D = Class(c)
    BY <1>3, <1>8 DEF WalkInv, Whole
  <2> QED
    BY <1>3, <1>4, <2>1, <2>2 DEF WalkInv, Whole
<1> QED
  BY <1>9, <1>10, <1>11, <1>12, <1>13, <1>14 DEF WalkInv

LEMMA LeaveInv ==
  ASSUME Documents, WalkInv, UNCHANGED edges, Leave PROVE WalkInv'
BY LeaveKeeps, LeaveSettles

LEMMA ChildInv ==
  ASSUME Documents, WalkInv, UNCHANGED edges, Child PROVE WalkInv'
<1> PICK i : i = Last(work)[2]
  OBVIOUS
<1> PICK m : m = Adjacent(Last(work)[1])[i]
  OBVIOUS
<1>1. work # <<>> /\ i <= Len(Adjacent(Last(work)[1]))
  BY DEF Child
<1>2. CASE m \notin Discovered
  <2>1. Open(m, [work EXCEPT ![Len(work)] = <<Last(work)[1], i + 1>>])
    BY <1>2 DEF Child
  <2> QED
    BY <1>1, <1>2, <2>1, ChildOpens
<1>3. CASE m \in Discovered
  <2>1. /\ work' = [work EXCEPT ![Len(work)] = <<Last(work)[1], i + 1>>]
        /\ lowlink' = IF Lowered(m)
                      THEN [lowlink EXCEPT ![Last(work)[1]] = Min({@, indices[m]})]
                      ELSE lowlink
        /\ UNCHANGED <<stack, indices, result>>
    BY <1>3, Zenon DEF Child
  <2> QED
    BY <1>1, <1>3, <2>1, ChildLooks
<1> QED
  BY <1>2, <1>3

-----------------------------------------------------------------------------
(* The search for members keeps its invariant *)

LEMMA DescendingIs ==
  ASSUME Documents, NEW n \in Nodes
  PROVE  /\ Descending(Successors(n)) \in Seq(Nodes)
         /\ {Descending(Successors(n))[i] : i \in DOMAIN Descending(Successors(n))} = Successors(n)
<1> PICK S : S = Successors(n)
  OBVIOUS
<1> PICK s : s = Ascending(S)
  OBVIOUS
<1> PICK r : r = Descending(Successors(n))
  OBVIOUS
<1>1. S \in SUBSET Nat /\ IsFiniteSet(S) /\ S \subseteq Nodes
  BY FS_Subset DEF Successors, Documents
<1>2. /\ s \in Seq(S) /\ Len(s) \in Nat /\ DOMAIN s = 1 .. Len(s)
      /\ {s[i] : i \in 1 .. Len(s)} = S
  BY <1>1, AscendingIs
<1> PICK L \in Nat : L = Len(s)
  BY <1>2
<1>3. r = [i \in 1 .. L |-> s[L - i + 1]]
  BY DEF Descending, Reverse
<1>4. \A i \in 1 .. L : L - i + 1 \in 1 .. L /\ L - (L - i + 1) + 1 = i
  OBVIOUS
<1>5. \A i \in 1 .. L : s[i] \in S /\ s[i] \in Nodes
  BY <1>1, <1>2
<1>6. r \in Seq(Nodes) /\ DOMAIN r = 1 .. L /\ \A i \in 1 .. L : r[i] = s[L - i + 1]
  <2>1. r \in [1 .. L -> Nodes]
    BY <1>3, <1>4, <1>5
  <2> QED
    BY <1>3, <2>1
<1>7. \A m \in S : \E i \in 1 .. L : r[i] = m
  <2> SUFFICES ASSUME NEW m \in S PROVE \E i \in 1 .. L : r[i] = m
    OBVIOUS
  <2>1. PICK i \in 1 .. L : s[i] = m
    BY <1>2
  <2>2. L - i + 1 \in 1 .. L /\ r[L - i + 1] = s[L - (L - i + 1) + 1]
    BY <1>4, <1>6
  <2> QED
    BY <1>4, <2>1, <2>2
<1>8. \A i \in 1 .. L : r[i] \in S
  BY <1>4, <1>5, <1>6
<1>9. {r[i] : i \in DOMAIN r} = S
  BY <1>6, <1>7, <1>8
<1> QED
  BY <1>6, <1>9

\* A search that knows everything ahead of it has seen all that its start reaches.
LEMMA DryIs ==
  ASSUME NEW s \in Nodes, NEW V \in SUBSET Nodes, s \notin V,
         \A v \in V \cup {s} : Successors(v) \subseteq V
  PROVE  s \notin Turning
<1>1. Reached(s) \subseteq V
  BY ReachedIs DEF Closed
<1> QED
  BY <1>1 DEF Turning

LEMMA TriedIs ==
  ASSUME starts \subseteq {e[1] : e \in edges}, NEW s \in starts,
         starts' = starts \ {s}, UNCHANGED edges, cyclic = Turning \cap Tried
  PROVE  /\ s \in Turning => cyclic \cup {s} = (Turning \cap Tried)'
         /\ s \notin Turning => cyclic = (Turning \cap Tried)'
<1>1. Tried' = Tried \cup {s}
  BY DEF Tried
<1>2. Turning' = Turning
  BY EdgesStay
<1> QED
  BY <1>1, <1>2

LEMMA StartIs ==
  ASSUME Documents, edges \in SUBSET (Nodes \X Nodes), starts \subseteq {e[1] : e \in edges}, starts # {}
  PROVE  Min(starts) \in starts /\ Min(starts) \in Nodes
<1>1. {e[1] : e \in edges} \subseteq Nodes
  BY EndsAre
<1>2. starts \in SUBSET Nat
  BY <1>1 DEF Documents
<1> QED
  BY <1>1, <1>2, Smallest

LEMMA BeginKeeps ==
  ASSUME Documents, SearchInv, edges \in SUBSET (Nodes \X Nodes), UNCHANGED edges, Begin
  PROVE  SearchInv'
<1> PICK s : s = Min(starts)
  OBVIOUS
<1>1. s \in Nodes /\ starts # {}
  BY StartIs DEF SearchInv, Begin
<1>2. /\ starts' = starts /\ visited' = {} /\ cyclic' = cyclic
      /\ pending' = Descending(Successors(s))
  BY DEF Begin
<1>3. pending' \in Seq(Nodes) /\ Ahead' = Successors(s)
  BY <1>1, <1>2, DescendingIs DEF Ahead
<1>4. Successors(s) \subseteq Reached(s)
  BY <1>1, ReachedIs
<1>5. Turning' = Turning /\ Tried' = Tried /\ Min(starts)' = s
  BY <1>2, EdgesStay DEF Tried
<1>6. /\ \A v : Successors(v)' = Successors(v)
      /\ Reached(Min(starts))' = Reached(s)
  BY <1>2 DEF Reached, Successors
<1>7. /\ visited' \cup Ahead' \subseteq Reached(s) /\ s \notin visited'
      /\ \A v \in visited' \cup {s} : Successors(v) \subseteq visited' \cup Ahead'
  BY <1>2, <1>3, <1>4
<1> QED
  BY <1>1, <1>2, <1>3, <1>5, <1>6, <1>7 DEF SearchInv

\* A search that goes on: its new set of nodes ahead and seen keeps to what the
\* start reaches, and has the successors of everything seen.
LEMMA GoesOn ==
  ASSUME SearchInv, UNCHANGED <<edges, starts, cyclic>>, pending # <<>>,
         pending' \in Seq(Nodes), visited' \subseteq Nodes, Min(starts) \notin visited',
         visited' \cup Ahead' \subseteq Reached(Min(starts)),
         \A v \in visited' \cup {Min(starts)} : Successors(v) \subseteq visited' \cup Ahead'
  PROVE  SearchInv'
<1>1. /\ Turning' = Turning /\ Tried' = Tried /\ Min(starts)' = Min(starts)
      /\ Reached(Min(starts))' = Reached(Min(starts))
      /\ \A v : Successors(v)' = Successors(v)
  BY DEF Tried, Turning, Reached, Successors
<1> QED
  BY <1>1 DEF SearchInv

LEMMA SearchEnds ==
  ASSUME SearchInv, UNCHANGED edges, starts # {}, Min(starts) \in starts, NextStart,
         cyclic' = IF Min(starts) \in Turning THEN cyclic \cup {Min(starts)} ELSE cyclic
  PROVE  SearchInv'
<1>1. /\ starts' = starts \ {Min(starts)} /\ pending' = <<>> /\ visited' = {}
  BY DEF NextStart
<1>2. cyclic' = (Turning \cap Tried)'
  BY <1>1, TriedIs DEF SearchInv
<1>3. pending' \in Seq(Nodes) /\ starts' \subseteq {e[1] : e \in edges}
  BY <1>1 DEF SearchInv
<1> QED
  BY <1>1, <1>2, <1>3 DEF SearchInv

LEMMA VisitKeeps ==
  ASSUME Documents, SearchInv, edges \in SUBSET (Nodes \X Nodes), UNCHANGED edges, Visit
  PROVE  SearchInv'
<1> PICK s : s = Min(starts)
  OBVIOUS
<1> PICK n : n = Last(pending)
  OBVIOUS
<1> PICK rest : rest = Front(pending)
  OBVIOUS
<1> PICK desc : desc = Descending(Successors(n))
  OBVIOUS
<1> PICK more : more = rest \o desc
  OBVIOUS
<1>1. /\ pending # <<>> /\ starts # {} /\ s \in starts /\ s \in Nodes /\ s \notin visited
      /\ visited \subseteq Nodes /\ visited \cup Ahead \subseteq Reached(s)
      /\ \A v \in visited \cup {s} : Successors(v) \subseteq visited \cup Ahead
  <2>1. pending # <<>>
    BY DEF Visit
  <2> QED
    BY <2>1, StartIs DEF SearchInv
<1>2. /\ rest \in Seq(Nodes) /\ n \in Nodes
      /\ Ahead = {rest[i] : i \in DOMAIN rest} \cup {n}
  <2> PICK L \in Nat : L = Len(pending)
    BY DEF SearchInv
  <2>1. L \in Nat \ {0} /\ DOMAIN pending = 1 .. L /\ pending \in Seq(Nodes)
    BY <1>1 DEF SearchInv
  <2>2. n = pending[L] /\ n \in Nodes
    BY <2>1 DEF Last
  <2>3. rest = SubSeq(pending, 1, L - 1)
    BY DEF Front
  <2>4. \A i \in 1 .. L - 1 : i \in 1 .. L /\ pending[i] \in Nodes
    BY <2>1
  <2>5. /\ rest \in Seq(Nodes) /\ Len(rest) = L - 1
        /\ \A i \in 1 .. L - 1 : rest[i] = pending[i]
    BY <2>1, <2>3, <2>4
  <2>6. DOMAIN rest = 1 .. L - 1
    BY <2>5
  <2>7. ASSUME NEW i \in 1 .. L PROVE pending[i] \in {rest[j] : j \in DOMAIN rest} \cup {n}
    <3>1. i \in 1 .. L - 1 \/ i = L
      BY <2>1
    <3> QED
      BY <2>2, <2>5, <2>6, <3>1
  <2>8. ASSUME NEW i \in 1 .. L - 1 PROVE rest[i] \in Ahead
    BY <2>1, <2>4, <2>5 DEF Ahead
  <2>9. n \in Ahead
    BY <2>1, <2>2 DEF Ahead
  <2> QED
    BY <2>1, <2>2, <2>5, <2>6, <2>7, <2>8, <2>9 DEF Ahead
<1>3. /\ desc \in Seq(Nodes) /\ {desc[i] : i \in DOMAIN desc} = Successors(n)
      /\ Successors(n) \subseteq Nodes /\ Successors(n) \subseteq Reached(s)
  <2>1. Successors(n) \subseteq Nodes
    BY DEF Successors
  <2>2. n \in Reached(s)
    BY <1>1, <1>2
  <2>3. Successors(n) \subseteq Reached(s)
    BY <1>1, <2>2, ReachedIs DEF Closed
  <2> QED
    BY <1>2, <2>1, <2>3, DescendingIs
<1>4. CASE n = s
  <2>1. NextStart /\ cyclic' = cyclic \cup {s}
    BY <1>1, <1>4 DEF Visit
  <2>2. s \in Turning
    BY <1>1, <1>2, <1>4 DEF Turning
  <2> QED
    BY <1>1, <2>1, <2>2, SearchEnds
<1>5. CASE n # s /\ n \in visited /\ rest = <<>>
  <2>1. NextStart /\ cyclic' = cyclic
    BY <1>5 DEF Visit
  <2>2. Ahead \subseteq visited
    BY <1>2, <1>5
  <2>3. s \notin Turning
    BY <1>1, <2>2, DryIs
  <2> QED
    BY <1>1, <2>1, <2>3, SearchEnds
<1>6. CASE n # s /\ n \in visited /\ rest # <<>>
  <2>1. pending' = rest /\ UNCHANGED <<starts, visited, cyclic>>
    BY <1>6 DEF Visit
  <2>2. visited' \cup Ahead' = visited \cup Ahead
    BY <1>2, <1>6, <2>1 DEF Ahead
  <2> QED
    BY <1>1, <1>2, <2>1, <2>2, GoesOn
<1>7. CASE n # s /\ n \notin visited
  <2>1. IF more = <<>> THEN NextStart /\ UNCHANGED cyclic
        ELSE /\ pending' = more /\ visited' = visited \cup {n}
             /\ UNCHANGED <<starts, cyclic>>
    BY <1>7 DEF Visit
  <2>2. CASE more = <<>>
    <3>1. rest = <<>> /\ desc = <<>>
      <4>1. Len(more) = Len(rest) + Len(desc) /\ Len(more) = 0
        <5>1. Len(rest \o desc) = Len(rest) + Len(desc)
          BY <1>2, <1>3, ConcatProperties, Zenon
        <5>2. Len(more) = 0
          BY <2>2
        <5> QED
          BY <5>1, <5>2
      <4>2. Len(rest) \in Nat /\ Len(desc) \in Nat
        BY <1>2, <1>3
      <4>3. Len(rest) = 0 /\ Len(desc) = 0
        BY <4>1, <4>2
      <4> QED
        BY <1>2, <1>3, <4>3
    <3>2. Ahead = {n} /\ Successors(n) = {}
      BY <1>2, <1>3, <3>1
    <3>3. s \notin Turning
      <4>1. \A v \in (visited \cup {n}) \cup {s} : Successors(v) \subseteq visited \cup {n}
        BY <1>1, <3>2
      <4>2. visited \cup {n} \in SUBSET Nodes /\ s \notin visited \cup {n}
        BY <1>1, <1>2, <1>7
      <4> QED
        BY <1>1, <4>1, <4>2, DryIs
    <3> QED
      BY <1>1, <2>1, <2>2, <3>3, SearchEnds
  <2>3. CASE more # <<>>
    <3>1. pending' = more /\ visited' = visited \cup {n} /\ UNCHANGED <<starts, cyclic>>
      BY <2>1, <2>3
    <3>2. /\ more \in Seq(Nodes)
          /\ {more[i] : i \in DOMAIN more} =
               {rest[i] : i \in DOMAIN rest} \cup Successors(n)
      <4>1. more \in Seq(Nodes)
        BY <1>2, <1>3
      <4>2. Range(more) = Range(rest) \cup Range(desc)
        BY <1>2, <1>3, RangeConcatenation
      <4> QED
        BY <1>3, <4>1, <4>2 DEF Range
    <3>3. Ahead' = {rest[i] : i \in DOMAIN rest} \cup Successors(n)
      BY <3>1, <3>2 DEF Ahead
    <3>4. visited' \cup Ahead' = visited \cup Ahead \cup Successors(n)
      BY <1>2, <3>1, <3>3
    <3>5. /\ \A v \in visited' \cup {s} : Successors(v) \subseteq visited' \cup Ahead'
          /\ visited' \cup Ahead' \subseteq Reached(s)
          /\ visited' \subseteq Nodes /\ s \notin visited'
      BY <1>1, <1>2, <1>3, <1>7, <3>1, <3>4
    <3> QED
      BY <1>1, <3>1, <3>2, <3>5, GoesOn
  <2> QED
    BY <2>2, <2>3
<1> QED
  BY <1>4, <1>5, <1>6, <1>7

-----------------------------------------------------------------------------
(* Both answers are right in the end *)

\* Every component of the search is a class, and every class is among them.
LEMMA WalkDone ==
  ASSUME WalkInv, work = <<>>, Ends(edges) \subseteq Discovered
  PROVE  /\ \A C \in result : C # {} /\ C \subseteq Nodes /\ \A n \in C : C = Class(n)
         /\ \A n \in Ends(edges) : Class(n) \in result
<1>1. OnStack = {}
  <2>1. DOMAIN work = {}
    OBVIOUS
  <2> QED
    BY <2>1 DEF WalkInv, Joined
<1>2. Settled = Discovered
  BY <1>1 DEF WalkInv, Numbered
<1>3. ASSUME NEW n \in Ends(edges) PROVE Class(n) \in result
  <2>1. n \in Settled
    BY <1>2
  <2>2. PICK C \in result : n \in C
    BY <2>1 DEF Settled
  <2> QED
    BY <2>2 DEF WalkInv, Whole
<1> QED
  BY <1>3 DEF WalkInv, WalkType, Whole

LEMMA ReachedTransitive ==
  ASSUME NEW a \in Nodes, NEW b \in Reached(a), NEW c \in Reached(b)
  PROVE  c \in Reached(a)
<1>1. b \in Nodes
  BY ReachedIs
<1>2. Successors(b) \subseteq Reached(a)
  BY ReachedIs DEF Closed
<1> QED
  BY <1>1, <1>2, ReachedIs

\* A node that reaches itself has an edge to itself or another one in its class.
LEMMA TurningIs ==
  ASSUME NEW n \in Turning, edges \in SUBSET (Nodes \X Nodes)
  PROVE  /\ n \in Nodes /\ n \in Class(n) /\ n \in Ends(edges) /\ n \in {e[1] : e \in edges}
         /\ n \in Successors(n) \/ Class(n) # {n}
<1>1. n \in Nodes /\ n \in Reached(n)
  BY DEF Turning
<1>2. n \in Class(n)
  BY <1>1 DEF Class, Star
<1>3. PICK m \in Successors(n) : TRUE
  <2> SUFFICES ASSUME Successors(n) = {} PROVE FALSE
    OBVIOUS
  <2>1. Successors(n) \subseteq {} /\ Closed({}) /\ {} \in SUBSET Nodes
    BY DEF Closed
  <2>2. Reached(n) \subseteq {}
    BY <1>1, <2>1, ReachedIs
  <2> QED
    BY <1>1, <2>2
<1>4. n \in Ends(edges) /\ n \in {e[1] : e \in edges}
  <2>1. <<n, m>> \in edges
    BY <1>3 DEF Successors
  <2>2. <<n, m>>[1] = n
    OBVIOUS
  <2>3. n \in {e[1] : e \in edges}
    BY <2>1, <2>2
  <2> QED
    BY <2>3 DEF Ends
<1>5. ASSUME n \notin Successors(n) PROVE Class(n) # {n}
  <2> DEFINE S == {x \in Nodes : x \in Successors(n) \/ \E s \in Successors(n) : x \in Reached(s)}
  <2>1. Successors(n) \subseteq Nodes
    BY DEF Successors
  <2>2. ASSUME NEW x \in S, NEW y \in Successors(x) PROVE y \in S
    <3>1. y \in Nodes
      BY DEF Successors
    <3>2. CASE x \in Successors(n)
      <4>1. y \in Reached(x)
        BY <2>1, <3>2, ReachedIs
      <4> QED
        BY <3>1, <3>2, <4>1
    <3>3. ASSUME NEW s \in Successors(n), x \in Reached(s) PROVE y \in S
      <4>1. y \in Reached(s)
        BY <2>1, <3>3, ReachedIs DEF Closed
      <4> QED
        BY <3>1, <4>1
    <3> QED
      BY <3>2, <3>3
  <2>3. Successors(n) \subseteq S /\ S \in SUBSET Nodes
    BY <2>1
  <2>4. n \in S
    <3> HIDE DEF S
    <3> QED
      BY <1>1, <2>2, <2>3, ReachedIs DEF Closed
  <2>5. PICK s \in Successors(n) : n \in Reached(s)
    BY <1>5, <2>4
  <2>6. s \in Nodes /\ s \in Reached(n) /\ s # n
    BY <1>1, <1>5, <2>1, ReachedIs
  <2>7. s \in Class(n)
    BY <2>5, <2>6 DEF Class, Star
  <2> QED
    BY <2>6, <2>7
<1> QED
  BY <1>1, <1>2, <1>4, <1>5

\* A class of more than one document is one of documents that reach themselves.
LEMMA ClassIs ==
  ASSUME Documents, NEW n \in Nodes
  PROVE  /\ n \in Class(n) /\ IsFiniteSet(Class(n)) /\ Class(n) \subseteq Nodes
         /\ Cardinality(Class(n)) > 1 <=> Class(n) # {n}
         /\ Class(n) # {n} => n \in Turning
         /\ n \in Turning => Class(n) = {m \in Turning : m \in Reached(n) /\ n \in Reached(m)}
<1>1. n \in Class(n) /\ Class(n) \subseteq Nodes
  BY DEF Class, Star
<1>2. IsFiniteSet(Class(n))
  BY <1>1, FS_Subset DEF Documents
<1>3. Cardinality(Class(n)) > 1 <=> Class(n) # {n}
  <2> PICK c : c = Cardinality(Class(n))
    OBVIOUS
  <2>1. c \in Nat /\ c # 0
    <3>1. c \in Nat
      BY <1>2, FS_CardinalityType
    <3>2. c = 0 => Class(n) = {}
      BY <1>2, FS_EmptySet
    <3> QED
      BY <1>1, <3>1, <3>2
  <2>2. c = 1 <=> \E x : Class(n) = {x}
    BY <1>2, FS_Singleton
  <2>3. (\E x : Class(n) = {x}) <=> Class(n) = {n}
    BY <1>1
  <2>4. c > 1 <=> c # 1
    BY <2>1
  <2> QED
    BY <2>2, <2>3, <2>4
<1>4. ASSUME NEW m \in Class(n), m # n
      PROVE  m \in Nodes /\ m \in Reached(n) /\ n \in Reached(m) /\ n \in Reached(n) /\ m \in Reached(m)
  <2>1. m \in Nodes /\ m \in Reached(n) /\ n \in Reached(m)
    BY <1>4 DEF Class, Star
  <2> QED
    BY <2>1, ReachedTransitive
<1>5. Class(n) # {n} => n \in Turning
  BY <1>1, <1>4 DEF Turning
<1>6. ASSUME n \in Turning
      PROVE  Class(n) = {m \in Turning : m \in Reached(n) /\ n \in Reached(m)}
  <2>1. n \in Reached(n)
    BY <1>6 DEF Turning
  <2>2. ASSUME NEW m \in Class(n) PROVE m \in Turning /\ m \in Reached(n) /\ n \in Reached(m)
    BY <1>4, <1>6, <2>1 DEF Turning
  <2>3. ASSUME NEW m \in Turning, m \in Reached(n), n \in Reached(m) PROVE m \in Class(n)
    BY <2>3 DEF Class, Star, Turning
  <2> QED
    BY <2>2, <2>3
<1> QED
  BY <1>1, <1>2, <1>3, <1>5, <1>6

\* In the final state the two answers agree, and both are right.
LEMMA InvAgrees ==
  ASSUME Documents, CyclesInv PROVE CyclesAgree
<1> SUFFICES ASSUME pc = "done" PROVE CyclesAgree
  BY DEF CyclesAgree
<1> DEFINE turning == {n \in Nodes : n \in Reached(n)}
           class(n) == {m \in turning : m \in Reached(n) /\ n \in Reached(m)}
           loops == {m \in Nodes : <<m, m>> \in edges}
<1>1. turning = Turning
  BY DEF Turning
<1>2. /\ \A C \in result : C # {} /\ C \subseteq Nodes /\ \A n \in C : C = Class(n)
      /\ \A n \in Ends(edges) : Class(n) \in result
  BY WalkDone DEF CyclesInv
<1>3. edges \in SUBSET (Nodes \X Nodes) /\ loops \subseteq Nodes
  BY DEF CyclesInv, WalkInv, WalkType
<1>4. \A n \in turning : class(n) = Class(n) /\ n \in Nodes
  BY <1>1, ClassIs
<1>5. ASSUME NEW C \in result, Cardinality(C) > 1
      PROVE  \A n \in C : n \in Turning /\ C = Class(n) /\ \A x : C # {x}
  <2> SUFFICES ASSUME NEW n \in C PROVE n \in Turning /\ C = Class(n) /\ \A x : C # {x}
    OBVIOUS
  <2>1. n \in Nodes /\ C = Class(n)
    BY <1>2
  <2>2. \A x : Cardinality({x}) = 1
    BY FS_Singleton
  <2>3. ASSUME NEW x, C = {x} PROVE FALSE
    <3>1. Cardinality(C) = 1
      BY <2>2, <2>3, Zenon
    <3> QED
      BY <1>5, <3>1
  <2> QED
    BY <2>1, <2>3, ClassIs
<1>6. \A n : Cardinality({n}) = 1
  BY FS_Singleton
<1>7. {C \in Diagnostics : Cardinality(C) > 1} = {C \in result : Cardinality(C) > 1}
  <2>1. ASSUME NEW n PROVE ~ (Cardinality({n}) > 1)
    <3>1. Cardinality({n}) = 1
      BY <1>6, Zenon
    <3> QED
      BY <3>1
  <2>2. ASSUME NEW C \in Diagnostics, Cardinality(C) > 1 PROVE C \in result
    <3>1. C \in result \/ \E n : C = {n}
      BY DEF Diagnostics
    <3> QED
      BY <2>1, <2>2, <3>1, Zenon
  <2>3. {C \in result : Cardinality(C) > 1} \subseteq Diagnostics
    BY Zenon DEF Diagnostics
  <2>4. {C \in Diagnostics : Cardinality(C) > 1} \subseteq {C \in result : Cardinality(C) > 1}
    BY <2>2, Zenon
  <2> QED
    BY <2>3, <2>4
<1>8. ASSUME NEW n \in Turning, Class(n) # {n} PROVE Class(n) \in result /\ Cardinality(Class(n)) > 1
  BY <1>2, <1>3, <1>8, TurningIs, ClassIs
<1> HIDE DEF turning, class
<1>9. {C \in result : Cardinality(C) > 1} = {class(n) : n \in turning} \ {{n} : n \in Nodes}
  <2>1. ASSUME NEW C \in result, Cardinality(C) > 1
        PROVE  C \in {class(n) : n \in turning} \ {{n} : n \in Nodes}
    <3>1. PICK n \in C : TRUE
      BY <1>2
    <3>2. n \in turning /\ C = class(n) /\ \A x : C # {x}
      BY <1>1, <1>4, <1>5, <2>1
    <3> QED
      BY <3>2
  <2>2. ASSUME NEW n \in turning, class(n) \notin {{m} : m \in Nodes}
        PROVE  class(n) \in result /\ Cardinality(class(n)) > 1
    BY <1>1, <1>4, <1>8, <2>2
  <2> QED
    BY <2>1, <2>2
<1>10. UNION Diagnostics = turning
  <2>1. ASSUME NEW n \in UNION Diagnostics PROVE n \in turning
    <3>1. CASE \E C \in result : Cardinality(C) > 1 /\ n \in C
      BY <1>1, <1>5, <3>1
    <3>2. CASE n \in loops
      <4>1. n \in Successors(n) /\ n \in Nodes
        BY <3>2 DEF Successors
      <4> QED
        BY <1>1, <4>1, ReachedIs DEF Turning
    <3> QED
      BY <3>1, <3>2 DEF Diagnostics
  <2>2. ASSUME NEW n \in turning PROVE n \in UNION Diagnostics
    <3>1. CASE Class(n) # {n}
      <4>1. Class(n) \in result /\ Cardinality(Class(n)) > 1 /\ n \in Class(n)
        BY <1>1, <1>3, <1>8, <3>1, TurningIs
      <4> QED
        BY <4>1 DEF Diagnostics
    <3>2. CASE Class(n) = {n}
      <4>1. n \in loops
        BY <1>1, <1>3, <3>2, TurningIs DEF Successors
      <4> QED
        BY <4>1 DEF Diagnostics
    <3> QED
      BY <3>1, <3>2
  <2> QED
    BY <2>1, <2>2
<1>11. cyclic = turning
  <2>1. cyclic = Turning \cap Tried /\ starts = {}
    BY DEF CyclesInv, SearchInv
  <2>2. Turning \subseteq Tried
    BY <1>3, <2>1, TurningIs DEF Tried
  <2> QED
    BY <1>1, <2>1, <2>2
<1> QED
  BY <1>7, <1>9, <1>10, <1>11 DEF CyclesAgree, turning, class

LEMMA InitInv ==
  ASSUME Init PROVE CyclesInv
<1>1. edges \in SUBSET (Nodes \X Nodes)
  BY DEF Init, kSubset
<1>2. /\ work = <<>> /\ stack = <<>> /\ result = {} /\ indices = <<>> /\ lowlink = <<>>
      /\ starts = {e[1] : e \in edges} /\ pending = <<>> /\ visited = {} /\ cyclic = {}
      /\ pc = "components"
  BY DEF Init
<1>3. DOMAIN work = {} /\ DOMAIN stack = {} /\ DOMAIN indices = {} /\ DOMAIN lowlink = {}
  BY <1>2
<1>4. Discovered = {} /\ OnStack = {} /\ Running = {} /\ Settled = {}
  BY <1>2, <1>3 DEF Discovered, OnStack, Running, Settled
<1>5. WalkType
  <2>1. work \in Seq(Nodes \X Nat) /\ stack \in Seq(Nodes)
    BY <1>2
  <2>2. indices \in [{} -> Nat] /\ lowlink \in [{} -> Nat]
    BY <1>2
  <2> QED
    BY <1>1, <1>2, <1>4, <2>1, <2>2 DEF WalkType
<1>6. Numbered /\ Looked /\ Joined
  BY <1>3, <1>4 DEF Numbered, Looked, Joined, Closed
<1>7. Lowest /\ Whole /\ {} \notin result
  BY <1>2, <1>3 DEF Lowest, Whole
<1>8. SearchInv
  <2>1. Tried = {} /\ pending \in Seq(Nodes)
    BY <1>2 DEF Tried
  <2> QED
    BY <1>2, <2>1 DEF SearchInv
<1> QED
  BY <1>2, <1>5, <1>6, <1>7, <1>8 DEF CyclesInv, WalkInv

LEMMA WalkStays ==
  ASSUME WalkInv, UNCHANGED <<edges, walk>> PROVE WalkInv'
<1>1. UNCHANGED edges /\ UNCHANGED <<work, stack, indices, lowlink, result>>
  BY DEF walk
<1>2. Discovered' = Discovered /\ Found' = Found /\ OnStack' = OnStack /\ Settled' = Settled
  BY <1>1 DEF Discovered, Found, OnStack, Settled
<1>3. Running' = Running /\ \A k : Node(k)' = Node(k)
  BY <1>1 DEF Running, Node
<1>4. WalkType' /\ Numbered'
  BY <1>1, <1>2, <1>3 DEF WalkInv, WalkType, Numbered
<1>5. /\ \A k : Adjacent(Node(k))' = Adjacent(Node(k)')
      /\ \A k, x : Star(x, Node(k))' = Star(x, Node(k)')
  BY DEF Adjacent, Star, Reached, Successors
<1>6. Looked'
  BY <1>1, <1>2, <1>3, <1>5, EdgesStay DEF WalkInv, Looked, Closed
<1>7. Joined'
  BY <1>1, <1>2, <1>3, <1>5, EdgesStay DEF WalkInv, Joined
<1>8. Lowest'
  <2>1. \A k, y : Below(k, y)' <=> Below(k, y)
    BY <1>1, <1>3 DEF Below
  <2>2. ASSUME NEW k \in DOMAIN work'
        PROVE  /\ lowlink'[Node(k)'] <= indices'[Node(k)']
               /\ \E x \in OnStack' : indices'[x] = lowlink'[Node(k)'] /\ Star(Node(k)', x)
               /\ \A j \in 1 .. work'[k][2] - 1 :
                    Adjacent(Node(k)')[j] \in OnStack' =>
                      lowlink'[Node(k)'] <= indices'[Adjacent(Node(k)')[j]]
               /\ \A y \in OnStack' \ Running' : Below(k, y)' =>
                    \A z \in Successors(y) \cap OnStack' : lowlink'[Node(k)'] <= indices'[z]
    BY <1>1, <1>2, <1>3, <2>1 DEF WalkInv, Lowest
  <2> QED
    BY <1>1, <2>2, LowestNext
<1>9. Whole' /\ {} \notin result'
  BY <1>1, EdgesStay DEF WalkInv, Whole
<1> QED
  BY <1>4, <1>6, <1>7, <1>8, <1>9 DEF WalkInv

LEMMA SearchStays ==
  ASSUME SearchInv, UNCHANGED <<edges, search>> PROVE SearchInv'
<1>1. UNCHANGED edges /\ UNCHANGED <<starts, pending, visited, cyclic>>
  BY DEF search
<1>2. /\ Turning' = Turning /\ Tried' = Tried /\ Min(starts)' = Min(starts) /\ Ahead' = Ahead
      /\ Reached(Min(starts))' = Reached(Min(starts))
      /\ \A v : Successors(v)' = Successors(v)
  BY <1>1 DEF Tried, Turning, Reached, Successors, Ahead
<1> QED
  BY <1>1, <1>2 DEF SearchInv

LEMMA NextInv ==
  ASSUME Documents, CyclesInv, [Next]_vars PROVE CyclesInv'
<1>1. WalkInv /\ SearchInv /\ edges \in SUBSET (Nodes \X Nodes)
  BY DEF CyclesInv, WalkInv, WalkType
<1>2. CASE Components
  <2>1. UNCHANGED edges /\ UNCHANGED <<edges, search>> /\ pc = "components"
    BY <1>2 DEF Components
  <2>2. SearchInv'
    BY <1>1, <2>1, SearchStays
  <2>3. CASE (Root \/ Child \/ Leave) /\ UNCHANGED pc
    <3>1. WalkInv'
      BY <1>1, <2>1, <2>3, RootKeeps, ChildInv, LeaveInv
    <3> QED
      BY <2>1, <2>2, <2>3, <3>1 DEF CyclesInv
  <2>4. CASE work = <<>> /\ Ends(edges) \subseteq Discovered /\ pc' = "members" /\ UNCHANGED walk
    <3>1. WalkInv'
      BY <1>1, <2>1, <2>4, WalkStays
    <3>2. work' = <<>> /\ Ends(edges)' \subseteq Discovered'
      BY <2>1, <2>4 DEF walk, Discovered, Ends
    <3> QED
      BY <2>2, <2>4, <3>1, <3>2 DEF CyclesInv
  <2> QED
    BY <1>2, <2>3, <2>4 DEF Components
<1>3. CASE Members
  <2>1. UNCHANGED edges /\ UNCHANGED <<edges, walk>> /\ pc = "members"
    BY <1>3 DEF Members
  <2>2. WalkInv'
    BY <1>1, <2>1, WalkStays
  <2>3. work' = <<>> /\ Ends(edges)' \subseteq Discovered'
    BY <2>1 DEF walk, Discovered, Ends, CyclesInv
  <2>4. CASE (Begin \/ Visit) /\ UNCHANGED pc
    <3>1. SearchInv'
      BY <1>1, <2>1, <2>4, BeginKeeps, VisitKeeps
    <3> QED
      BY <2>1, <2>2, <2>3, <2>4, <3>1 DEF CyclesInv
  <2>5. CASE starts = {} /\ pc' = "done" /\ UNCHANGED search
    <3>1. SearchInv' /\ starts' = {}
      BY <1>1, <2>1, <2>5, SearchStays DEF search
    <3> QED
      BY <2>2, <2>3, <2>5, <3>1 DEF CyclesInv
  <2> QED
    BY <1>3, <2>4, <2>5 DEF Members
<1>4. CASE UNCHANGED vars
  <2>1. UNCHANGED <<edges, walk>> /\ UNCHANGED <<edges, search>> /\ pc' = pc
    BY <1>4 DEF vars, walk, search
  <2>2. WalkInv' /\ SearchInv'
    BY <1>1, <2>1, WalkStays, SearchStays
  <2>3. work' = work /\ Ends(edges)' = Ends(edges) /\ Discovered' = Discovered /\ starts' = starts
    BY <1>4 DEF vars, Discovered, Ends
  <2> QED
    BY <2>1, <2>2, <2>3 DEF CyclesInv
<1> QED
  BY <1>2, <1>3, <1>4 DEF Next

\* The diagnostics of a project, found by Tarjan's walk with its own stack, are
\* the classes of documents that reach one another, each once and whole, and the
\* documents that refer to themselves; the search of a federation from every
\* source finds exactly the documents of these diagnostics.
THEOREM CyclesAreFound ==
  ASSUME Documents PROVE Spec => []CyclesAgree
<1>1. Init => CyclesInv
  BY InitInv
<1>2. CyclesInv /\ [Next]_vars => CyclesInv'
  BY NextInv
<1>3. CyclesInv => CyclesAgree
  BY InvAgrees
<1> QED
  BY <1>1, <1>2, <1>3, PTL DEF Spec

===============================================================================
