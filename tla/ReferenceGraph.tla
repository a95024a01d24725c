---------------------------- MODULE ReferenceGraph ----------------------------
(***************************************************************************)
(* The section graph of a project (src/src/docsystem/graph.py) and the two  *)
(* queries that traverse it, `references` and `change-plan` (cli.py,        *)
(* change_plan.py). A query is asked of the Markdown itself and, once       *)
(* `index --write` has stored it, of the shards of a current projection     *)
(* (projection.py); it walks the graph in rounds of equal distance.         *)
(*                                                                         *)
(* An address is <<document, section>>, section 0 standing for the document *)
(* itself; both are numbers in the order of their texts. A link stands at a *)
(* line and column of its section and is what its target resolves to: a     *)
(* document and section that may not exist (a URL, a resource, a path       *)
(* outside the catalog, a reference to another project).                    *)
(***************************************************************************)
EXTENDS Naturals, Sequences, FiniteSets, Bags, SequencesExt, FiniteSetsExt

CONSTANTS
  Docs,       \* documents, as numbers
  Sections,   \* Sections[d]: the anchors of a document
  Metadata,   \* relations a document may author: [from, relation, to]
  Legacy,     \* relations it may author as paths: [from, relation, to]
  Links,      \* links its text may hold: [from, at, line, column, to, section]
  Modes,      \* of relations.legacy_paths, "strict" or "resolve-with-warning"
  None        \* no answer yet

\* Documents and sections are numbers, finitely many, and a document authors
\* relations and links of its own.
Catalogued ==
  /\ IsFiniteSet(Docs) /\ Docs \subseteq Nat
  /\ \A d \in Docs : IsFiniteSet(Sections[d]) /\ Sections[d] \subseteq Nat \ {0}
  /\ \A r \in Metadata \cup Legacy : r.from \in Docs
  /\ \A l \in Links : l.from \in Docs /\ l.at \in Sections[l.from] \cup {0}

VARIABLES
  catalog,  \* the documents' relations and links
  query,    \* the command, its address and its options
  walk,     \* the traversal under way
  first     \* what the Markdown answered

vars == <<catalog, query, walk, first>>

Relations == <<"contains", "depends_on", "references", "related">>
Authorities == <<"authored", "generated", "observed">>
Rank(order, x) == CHOOSE i \in DOMAIN order : order[i] = x

-----------------------------------------------------------------------------
(* build_reference_graph and build_dependency_graph *)

Addresses == UNION {{<<d, s>> : s \in Sections[d] \cup {0}} : d \in Docs}
Edge(from, to, relation, authority, origin, reason) ==
  [from |-> from, to |-> to, relation |-> relation,
   authority |-> authority, origin |-> origin, reason |-> reason]

Contained(D) ==
  UNION {{Edge(<<d, 0>>, <<d, s>>, "contains", "generated", "section-parser", None) :
            s \in Sections[d]} : d \in D}
\* Relations count where they point at another known document.
Proper(R) == {r \in R : r.to \in Docs /\ r.to # r.from}
Authored(R, origin) ==
  {Edge(<<r.from, 0>>, <<r.to, 0>>, r.relation, "authored", origin, None) : r \in R}
\* legacy_edges: none in strict mode.
Resolved == IF catalog.mode = "strict" THEN {} ELSE Proper(catalog.legacy)

\* _resolve_reference: an edge if the document and the section exist.
Resolves(l) == l.to \in Docs /\ l.section \in Sections[l.to] \cup {0}
Observed ==
  {Edge(<<l.from, l.at>>, <<l.to, l.section>>, "references", "observed",
        "markdown-link", l.line) : l \in {k \in catalog.links : Resolves(k)}}

\* A boundary for every other link: a bag, since one target may be written more
\* than once. The shards' readers keep one of each (observed_boundaries).
Occurrences(S) ==
  LET faced == {l \in catalog.links : ~Resolves(l) /\ <<l.from, l.at>> \in S}
      row(l) == [source |-> <<l.from, l.at>>, raw |-> <<l.to, l.section>>] IN
  [b \in {row(l) : l \in faced} |-> Cardinality({l \in faced : row(l) = b})]
Distinct(bag) == SetToBag(BagToSet(bag))
Boundaries(S) ==
  IF query.provider = "direct" THEN Occurrences(S) ELSE Distinct(Occurrences(S))

Edges ==
  Contained(Docs) \cup Authored(Proper(catalog.metadata), "metadata")
  \cup Observed \cup Authored(Resolved, "legacy-metadata")

\* The document and reverse shards carry the dependency graph, the reference
\* shards only the observed links; containment is derived from the sections.
Dependencies == Authored(Proper(catalog.metadata) \cup Resolved, "metadata")

Direct(n, reverse) == {e \in Edges : n = IF reverse THEN e.to ELSE e.from}
Shards_NoContainment(n, reverse) ==
  {e \in Dependencies \cup Observed : n = IF reverse THEN e.to ELSE e.from}
Shards(n, reverse) ==
  IF reverse
  THEN {e \in Observed \cup (IF n[2] = 0 THEN Dependencies ELSE Contained({n[1]})) :
          e.to = n}
  ELSE {e \in Observed \cup
              (IF n[2] = 0 THEN Contained({n[1]}) \cup Dependencies ELSE {}) :
          e.from = n}

-----------------------------------------------------------------------------
(* The commands *)

\* Errors that make the graph ambiguous: a relation to an unknown document or
\* to itself, and a path relation that strict mode does not resolve.
Blocked(D) ==
  \/ \E r \in catalog.metadata : r.from \in D /\ (r.to \notin Docs \/ r.to = r.from)
  \/ \E r \in catalog.legacy :
       r.from \in D /\ r.to \in Docs /\ (r.to = r.from \/ catalog.mode = "strict")

Peer(e) == IF walk.reverse THEN e.from ELSE e.to
Incident(n) ==
  IF query.provider = "direct" THEN Direct(n, walk.reverse) ELSE Shards(n, walk.reverse)

Walk(pc, reverse, rows, bounds) ==
  [pc |-> pc, reverse |-> reverse, distance |-> 0, rows |-> rows,
   frontier |-> {[at |-> query.start, path |-> <<query.start>>]},
   reached |-> {query.start}, asked |-> {}, bounds |-> bounds]

Init ==
  /\ catalog \in [metadata : SUBSET Metadata, legacy : SUBSET Legacy,
                  links : SUBSET Links, mode : Modes]
  /\ query \in [command : {"references", "change-plan"}, start : Addresses,
                reverse : BOOLEAN, transitive : BOOLEAN, provider : {"direct"}]
  /\ walk = Walk("start", FALSE, {}, EmptyBag)
  /\ first = None

\* A plan always looks at the whole graph; a direct forward query for
\* references needs only its own document in order.
Start ==
  /\ walk.pc = "start"
  /\ LET scope == IF query.command = "change-plan" \/ query.reverse \/ query.transitive
                  THEN Docs ELSE {query.start[1]} IN
     walk' = IF query.provider = "direct" /\ Blocked(scope)
             THEN [walk EXCEPT !.pc = "refused"]
             ELSE Walk("round", query.command = "references" /\ query.reverse, {}, EmptyBag)
  /\ UNCHANGED <<catalog, query, first>>

Row(e, path) ==
  [address |-> Peer(e), relation |-> e.relation, authority |-> e.authority,
   origin |-> e.origin, reason |-> e.reason, reverse |-> walk.reverse,
   distance |-> walk.distance + 1, path |-> Append(path, Peer(e))]

\* The edges of this round that lead to an address not reached before.
Candidates ==
  UNION {{Row(e, f.path) : e \in {d \in Incident(f.at) : Peer(d) \notin walk.reached}} :
           f \in walk.frontier}
To(m) == {c \in Candidates : c.address = m}
Neighbours == {c.address : c \in Candidates}

Before(p, q) ==
  \E i \in DOMAIN p :
    /\ \A j \in 1 .. i - 1 : p[j] = q[j]
    /\ \/ p[i][1] < q[i][1]
       \/ p[i][1] = q[i][1] /\ p[i][2] < q[i][2]
LeastPath(P) == CHOOSE p \in P : \A q \in P \ {p} : Before(p, q)

\* `traverse` keeps one edge per address, the least by relation and authority;
\* which of several such edges, the order of the provider's edges decides.
Preferred(C) ==
  LET key(c) == 10 * Rank(Relations, c.relation) + Rank(Authorities, c.authority) IN
  {c \in C : \A d \in C : key(c) <= key(d)}

\* After a round the walk goes on from the addresses it has just reached.
Round(rows, next) ==
  walk' = [walk EXCEPT
             !.distance = @ + 1, !.rows = @ \cup rows,
             !.reached = @ \cup Neighbours,
             !.asked = @ \cup {f.at : f \in walk.frontier},
             !.frontier = IF query.transitive THEN next ELSE {}]

Traverse ==
  /\ walk.pc = "round" /\ walk.frontier # {}
  /\ query.command = "references"
  /\ \E pick \in [Neighbours -> Candidates] :
       /\ \A m \in Neighbours : pick[m] \in Preferred(To(m))
       /\ Round({pick[m] : m \in Neighbours},
                {[at |-> m, path |-> pick[m].path] : m \in Neighbours})
  /\ UNCHANGED <<catalog, query, first>>

\* `traverse_reasons` keeps every edge, and goes on along the least path.
Onward_FirstEdge(m) == [at |-> m, path |-> (CHOOSE c \in Preferred(To(m)) : TRUE).path]
Onward(m) == [at |-> m, path |-> LeastPath({c.path : c \in To(m)})]

TraverseReasons ==
  /\ walk.pc = "round" /\ walk.frontier # {}
  /\ query.command = "change-plan"
  /\ Round(Candidates, {Onward(m) : m \in Neighbours})
  /\ UNCHANGED <<catalog, query, first>>

\* The boundaries of a forward walk: those of every address reached, which the
\* shards have reported as they were asked.
Touched ==
  IF query.provider = "direct"
  THEN {query.start} \cup {r.address : r \in {q \in walk.rows : query.transitive}}
  ELSE walk.asked
Bounds == IF walk.reverse THEN walk.bounds ELSE Boundaries(Touched)

\* A plan with --reverse walks the incoming edges as well; generated rows only
\* serve its paths and are left out at the end.
Planned(rows) == {r \in rows : r.authority # "generated"}

Finish ==
  /\ walk.pc = "round" /\ walk.frontier = {}
  /\ walk' = IF query.command = "references"
             THEN [walk EXCEPT !.pc = "done", !.bounds = Bounds]
             ELSE IF query.reverse /\ ~walk.reverse
             THEN Walk("round", TRUE, walk.rows, Bounds)
             ELSE [walk EXCEPT !.pc = "done", !.bounds = Bounds, !.rows = Planned(@)]
  /\ UNCHANGED <<catalog, query, first>>

\* What is printed: the rows, the boundaries, what a plan demands to be read,
\* and what it claims of the observed layer.
Answer ==
  [rows |-> walk.rows, bounds |-> walk.bounds,
   read |-> {r.address : r \in {q \in walk.rows :
               ~q.reverse /\ q.relation = "depends_on" /\ q.authority = "authored"}},
   observed |-> IF query.reverse THEN "unknown"
                ELSE IF BagToSet(walk.bounds) = {} THEN "complete" ELSE "bounded"]

\* `index --write` has stored a catalog without errors, and the same query is
\* asked again, of the shards.
AskShards ==
  /\ walk.pc = "done" /\ query.provider = "direct" /\ ~Blocked(Docs)
  /\ first' = Answer
  /\ query' = [query EXCEPT !.provider = "shards"]
  /\ walk' = Walk("start", FALSE, {}, EmptyBag)
  /\ UNCHANGED catalog

Next == Start \/ Traverse \/ TraverseReasons \/ Finish \/ AskShards

Spec == Init /\ [][Next]_vars

-----------------------------------------------------------------------------
(* Properties *)

\* Shortest(reverse)[k]: the shortest paths of k edges from the address asked.
\* The two queries differ in nothing that is walked.
Steps(p, reverse) == {IF reverse THEN e.from ELSE e.to : e \in Direct(Last(p), reverse)}
Shortest(reverse) ==
  LET paths[k \in Nat] ==
        IF k = 0 THEN [found |-> {<<query.start>>}, seen |-> {query.start}]
        ELSE LET prev == paths[k - 1]
                 longer == UNION {{Append(p, m) : m \in Steps(p, reverse) \ prev.seen} :
                                    p \in prev.found} IN
             [found |-> longer, seen |-> prev.seen \cup {Last(p) : p \in longer}]
  IN paths
Far == IF query.transitive THEN Cardinality(Addresses) ELSE 1

\* What the answer holds at a distance, in a direction.
ExactAt(paths, reverse, k) ==
  LET here == {r \in walk.rows : r.reverse = reverse /\ r.distance = k}
      wanted == \/ reverse = query.reverse
                \/ query.command = "change-plan" /\ ~reverse
      at(j) == {Last(p) : p \in paths[j].found}
      last(m, e) == (IF reverse THEN e.to = m ELSE e.from = m)
      into(m) == {e \in Edges : (IF reverse THEN e.from ELSE e.to) = m
                    /\ (IF reverse THEN e.to ELSE e.from) \in at(k - 1)} IN
  IF ~wanted \/ k > Far THEN here = {}
  ELSE IF query.command = "change-plan"
  THEN here = UNION {
    {[address |-> m, relation |-> e.relation, authority |-> e.authority,
      origin |-> e.origin, reason |-> e.reason, reverse |-> reverse, distance |-> k,
      path |-> Append(LeastPath({p \in paths[k - 1].found : last(Last(p), e)}), m)] :
       e \in {d \in into(m) : d.authority # "generated"}} : m \in at(k)}
  ELSE /\ {r.address : r \in here} = at(k) /\ Cardinality(here) = Cardinality(at(k))
       /\ \A r \in here :
            /\ r.path \in paths[k].found
            /\ \E e \in Preferred(into(r.address)) :
                 /\ <<r.relation, r.authority, r.origin>> =
                      <<e.relation, e.authority, e.origin>>
                 /\ last(r.path[k], e)

\* A plan lists, in each direction, every edge by which an address is reached
\* at its least distance, with the least of the shortest paths to the edge, and
\* nothing else; a reference query lists every address that can be reached
\* once, at its least distance, by a shortest path whose last edge no other of
\* that distance precedes.
AnswerIsExact ==
  walk.pc = "done" /\ query.provider = "direct" =>
    \A reverse \in BOOLEAN :
      LET paths == Shortest(reverse) IN
      \A k \in 1 .. Cardinality(Addresses) : ExactAt(paths, reverse, k)

\* Without path relations, the shards of a current projection give a plan the
\* answer that the Markdown gives, except that a boundary stands in it once where
\* the Markdown's answer has a row for every link (boundaries_from,
\* _change_plan_projected).
PlansAgree ==
  walk.pc = "done" /\ query.provider = "shards" /\ query.command = "change-plan"
  /\ catalog.legacy = {} => Answer = [first EXCEPT !.bounds = Distinct(@)]

\* The documentation's word (docs/agent-contract.md): either path produces
\* byte-identical output, of any project.
EitherPathAgrees ==
  walk.pc = "done" /\ query.provider = "shards" /\ query.command = "change-plan"
  => Answer = first

=============================================================================
