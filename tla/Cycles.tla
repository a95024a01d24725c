-------------------------------- MODULE Cycles --------------------------------
(***************************************************************************)
(* Cycle diagnostics of one relation: the strongly connected components of  *)
(* a project's graph (src/src/docsystem/graph.py) and the members that a    *)
(* federation reports on the same edges (federation.py). Both walks are     *)
(* iterative, with an explicit stack; documents are numbers in the order of *)
(* their addresses.                                                         *)
(***************************************************************************)
EXTENDS Naturals, Sequences, FiniteSets, SequencesExt, FiniteSetsExt

CONSTANTS
  Nodes,    \* documents, as numbers
  MaxEdges  \* bound on the edges of the relation

\* Documents are numbered in the order of their addresses, and finitely many.
Documents == Nodes \subseteq Nat /\ IsFiniteSet(Nodes)

VARIABLES
  edges,   \* the relation's edges, <<source, target>>
  pc,      \* "components", "members" or "done"
  work,    \* strongconnect's stack of <<node, next child>>
  stack, indices, lowlink,  \* Tarjan's own
  result,  \* the components found
  starts,  \* _cyclic_members: the starts still to be tried
  pending, visited,         \* its search from the current one
  cyclic   \* its answer

vars == <<edges, pc, work, stack, indices, lowlink, result,
          starts, pending, visited, cyclic>>
walk == <<work, stack, indices, lowlink, result>>
search == <<starts, pending, visited, cyclic>>

Ends(E) == {e[1] : e \in E} \cup {e[2] : e \in E}
Ascending(S) ==
  CHOOSE s \in [1 .. Cardinality(S) -> S] : \A i, j \in DOMAIN s : i < j => s[i] < s[j]
Descending(S) == Reverse(Ascending(S))
\* Self loops are reported apart and are not part of the component search.
Adjacent(n) == Ascending({m \in Nodes \ {n} : <<n, m>> \in edges})
Successors(n) == {m \in Nodes : <<n, m>> \in edges}

Init ==
  /\ edges \in UNION {kSubset(k, Nodes \X Nodes) : k \in 1 .. MaxEdges}
  /\ pc = "components"
  /\ work = <<>> /\ stack = <<>> /\ result = {}
  /\ indices = <<>> /\ lowlink = <<>>
  /\ starts = {e[1] : e \in edges}
  /\ pending = <<>> /\ visited = {} /\ cyclic = {}

-----------------------------------------------------------------------------
(* _strongly_connected_components *)

Discovered == DOMAIN indices
Found == Cardinality(Discovered)
\* f, and Found for the new node n.
Extended(f, n) == [m \in Discovered \cup {n} |-> IF m = n THEN Found ELSE f[m]]
Open(n, w) ==
  /\ work' = Append(w, <<n, 1>>)
  /\ indices' = Extended(indices, n)
  /\ lowlink' = Extended(lowlink, n)
  /\ stack' = Append(stack, n)
  /\ UNCHANGED result

\* The next root is the least node that no search has reached.
Root ==
  /\ work = <<>> /\ Ends(edges) \ Discovered # {}
  /\ Open(Min(Ends(edges) \ Discovered), <<>>)

\* The node on top looks at its next neighbour: it opens an unknown one, and
\* takes the index of one that is still on the stack.
Lowered_Always(m) == TRUE
Lowered(m) == Contains(stack, m)
Child ==
  /\ work # <<>>
  /\ LET n == Last(work)[1]
         i == Last(work)[2]
         moved == [work EXCEPT ![Len(work)] = <<n, i + 1>>] IN
     /\ i <= Len(Adjacent(n))
     /\ LET m == Adjacent(n)[i] IN
        IF m \notin Discovered THEN Open(m, moved)
        ELSE /\ work' = moved
             /\ lowlink' = IF Lowered(m)
                           THEN [lowlink EXCEPT ![n] = Min({@, indices[m]})]
                           ELSE lowlink
             /\ UNCHANGED <<stack, indices, result>>

\* A node without further neighbours hands its lowlink to its parent and, if it
\* is the root of a component, takes that off the stack.
Leave ==
  /\ work # <<>>
  /\ LET n == Last(work)[1]
         rest == Front(work) IN
     /\ Last(work)[2] > Len(Adjacent(n))
     /\ work' = rest
     /\ lowlink' = IF rest = <<>> THEN lowlink
                   ELSE [lowlink EXCEPT ![Last(rest)[1]] = Min({@, lowlink[n]})]
     /\ IF lowlink[n] = indices[n]
        THEN LET at == CHOOSE k \in DOMAIN stack : stack[k] = n IN
             /\ result' = result \cup {ToSet(SubSeq(stack, at, Len(stack)))}
             /\ stack' = SubSeq(stack, 1, at - 1)
        ELSE UNCHANGED <<result, stack>>
     /\ UNCHANGED indices

Components ==
  /\ pc = "components"
  /\ \/ (Root \/ Child \/ Leave) /\ UNCHANGED pc
     \/ work = <<>> /\ Ends(edges) \subseteq Discovered
        /\ pc' = "members" /\ UNCHANGED walk
  /\ UNCHANGED <<edges, search>>

\* detect_cycles: the components of more than one document, and the self loops.
Diagnostics ==
  {C \in result : Cardinality(C) > 1} \cup {{n} : n \in {m \in Nodes : <<m, m>> \in edges}}

-----------------------------------------------------------------------------
(* _cyclic_members *)

\* The search from a start ends when it meets the start again or runs dry.
NextStart == starts' = starts \ {Min(starts)} /\ pending' = <<>> /\ visited' = {}

Begin ==
  /\ starts # {} /\ pending = <<>>
  /\ pending' = Descending(Successors(Min(starts)))
  /\ visited' = {}
  /\ UNCHANGED <<starts, cyclic>>

Visit ==
  /\ pending # <<>>
  /\ LET n == Last(pending)
         rest == Front(pending)
         more == rest \o Descending(Successors(n)) IN
     CASE n = Min(starts) -> NextStart /\ cyclic' = cyclic \cup {n}
       [] n \in visited /\ rest = <<>> -> NextStart /\ UNCHANGED cyclic
       [] n \in visited /\ rest # <<>> ->
            pending' = rest /\ UNCHANGED <<starts, visited, cyclic>>
       [] OTHER -> IF more = <<>> THEN NextStart /\ UNCHANGED cyclic
                   ELSE /\ pending' = more /\ visited' = visited \cup {n}
                        /\ UNCHANGED <<starts, cyclic>>

Members ==
  /\ pc = "members"
  /\ \/ (Begin \/ Visit) /\ UNCHANGED pc
     \/ starts = {} /\ pc' = "done" /\ UNCHANGED search
  /\ UNCHANGED <<edges, walk>>

Next == Components \/ Members

Spec == Init /\ [][Next]_vars

-----------------------------------------------------------------------------
(* Properties *)

\* What n reaches is in every set that holds its successors and theirs.
Reached(n) ==
  {m \in Nodes : \A S \in SUBSET Nodes :
     Successors(n) \subseteq S /\ (\A s \in S : Successors(s) \subseteq S) => m \in S}

\* The diagnostics of a project are the classes of documents that reach one
\* another and the documents that refer to themselves, each class once and
\* whole; the members that a federation reports for the same edges are the
\* documents of these diagnostics.
CyclesAgree ==
  pc = "done" =>
    LET turning == {n \in Nodes : n \in Reached(n)}
        class(n) == {m \in turning : m \in Reached(n) /\ n \in Reached(m)} IN
    /\ {C \in Diagnostics : Cardinality(C) > 1} =
         {class(n) : n \in turning} \ {{n} : n \in Nodes}
    /\ UNION Diagnostics = turning
    /\ cyclic = turning

=============================================================================
