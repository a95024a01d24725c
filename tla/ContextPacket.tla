----------------------------- MODULE ContextPacket -----------------------------
(***************************************************************************)
(* `context` (src/src/docsystem/retrieval.py and its command in cli.py):    *)
(* the documents that a packet selects around a target, and what it serves  *)
(* of each, in full or as a delta against a retained generation that the    *)
(* consumer holds. Documents and configuration change between the calls.    *)
(*                                                                         *)
(* A document is its relations and its blocks, a heading with the lines up  *)
(* to the next; a section is a heading's block and the deeper ones behind   *)
(* it (sections.py). Hashes stand for what they are taken of. That the      *)
(* views of one command are current is shown by Projection.                 *)
(***************************************************************************)
EXTENDS Naturals, Sequences, FiniteSets, SequencesExt, FiniteSetsExt

CONSTANTS
  Docs,      \* document IDs
  Versions,  \* Versions[d]: what a document may contain, [edges, blocks], or None
  Extends,   \* values of navigation.extend_through
  Queries,   \* [target, depth, relations, view, directions, since, include]
  None

\* A sequence of headings of levels 1 to 6, as sections.py finds them.
Headed(b) ==
  /\ b \in Seq({b[i] : i \in DOMAIN b})
  /\ \A i \in DOMAIN b : b[i].level \in 1 .. 6

\* What the constants are: finitely many documents of headings, each query
\* with a depth.
Documents ==
  /\ IsFiniteSet(Docs)
  /\ \A d \in Docs : \A v \in Versions[d] : v # None => Headed(v.blocks)
  /\ \A q \in Queries : q.depth \in Nat /\ q.view \in BOOLEAN

VARIABLES
  tree,    \* tree[d]: the document, or None
  extend,  \* navigation.extend_through
  base,    \* the retained generation that the consumer holds, or None
  cmd      \* the command that runs, or has printed its packet

vars == <<tree, extend, base, cmd>>

Present(t) == {d \in Docs : t[d] # None}

-----------------------------------------------------------------------------
(* sections.py *)

End(b, i) ==
  LET after == {j \in i + 1 .. Len(b) : b[j].level <= b[i].level} IN
  IF after = {} THEN Len(b) ELSE Min(after) - 1
Section(b, i) == SubSeq(b, i, End(b, i))
Anchors(b) == {b[i].anchor : i \in DOMAIN b}
At(b, a) == CHOOSE i \in DOMAIN b : b[i].anchor = a
H2(b) == {i \in DOMAIN b : b[i].level = 2}

\* extract_navigation: through the last configured H2, or up to the first.
NavigationEnd(b) ==
  LET matching == {i \in H2(b) : b[i].anchor \in extend} IN
  IF matching # {} THEN Max({End(b, i) : i \in matching})
  ELSE IF H2(b) = {} THEN Len(b) ELSE Min(H2(b)) - 1

-----------------------------------------------------------------------------
(* context_selection and purpose_context_selection *)

Outgoing(t, d) == {e \in t[d].edges : e.peer \in Present(t)}
Incoming(t, d) ==
  {[relation |-> e[2].relation, peer |-> e[1]] :
     e \in UNION {{<<s, f>> : f \in {g \in Outgoing(t, s) : g.peer = d}} : s \in Present(t)}}
Candidates(q, d) ==
  {[direction |-> x[1], relation |-> x[2].relation, peer |-> x[2].peer] :
     x \in ({"forward"} \cap q.directions) \X Outgoing(tree, d)
           \cup ({"reverse"} \cap q.directions) \X Incoming(tree, d)}

Idle == [at |-> "idle"]

\* The generation is resolved, and bound to the configuration, before the
\* documents are loaded.
Start(q) ==
  /\ cmd.at \in {"idle", "printed"}
  /\ cmd' = IF q.since /\ (base = None \/ base.extend # extend) THEN Idle
            ELSE IF q.target \notin Present(tree) THEN Idle
            ELSE [at |-> "select", query |-> q, base |-> IF q.since THEN base ELSE None,
                  queue |-> <<<<q.target, 0>>>>, included |-> {q.target},
                  expanded |-> {}, omitted |-> {}]
  /\ UNCHANGED <<tree, extend, base>>

\* A document that is taken from the queue is expanded once; what a view does
\* not follow is kept as an omission.
Enqueued_Stack(rest, new) == Reverse(new) \o rest
Enqueued(rest, new) == rest \o new
Expand ==
  /\ cmd.at = "select" /\ cmd.queue # <<>>
  /\ LET q == cmd.query
         here == Head(cmd.queue)
         d == here[1]
         rest == Tail(cmd.queue)
         followed == {c \in Candidates(q, d) : c.relation \in q.relations}
         peers == {c.peer : c \in followed} \ (IF q.view THEN {q.target} ELSE {})
         filtered == {[from |-> d, to |-> c, why |-> "relation-filter"] :
                        c \in Candidates(q, d) \ followed}
         beyond == {[from |-> d, to |-> c, why |-> "depth-limit"] :
                      c \in {e \in followed : e.peer \notin cmd.included}} IN
     cmd' = IF d \in cmd.expanded \/ (~q.view /\ here[2] >= q.depth)
            THEN [cmd EXCEPT !.queue = rest]
            ELSE IF here[2] >= q.depth
            THEN [cmd EXCEPT !.queue = rest, !.expanded = @ \cup {d},
                             !.omitted = @ \cup filtered \cup beyond]
            ELSE [cmd EXCEPT !.queue = Enqueued(rest, SetToSeq(peers \X {here[2] + 1})),
                             !.expanded = @ \cup {d}, !.included = @ \cup peers,
                             !.omitted = IF q.view THEN @ \cup filtered ELSE @]
  /\ UNCHANGED <<tree, extend, base>>

-----------------------------------------------------------------------------
(* build_packet_plans and packet_sections *)

\* Sections that are new or whose hash differs from the generation's.
Changed(b, old) ==
  {i \in DOMAIN b : b[i].anchor \notin Anchors(old)
                    \/ Section(old, At(old, b[i].anchor)) # Section(b, i)}
Removed(b, old) == Anchors(old) \ Anchors(b)

Served(kind, b, changed, removed, asked) ==
  LET blocks == {i \in changed \cap H2(b) : b[i].anchor \notin extend} IN
  [kind |-> kind, removed |-> removed,
   parts |-> (IF kind = "unchanged" THEN {} ELSE {<<1, NavigationEnd(b)>>})
             \cup {<<i, End(b, i)>> : i \in blocks \cup {At(b, a) : a \in asked}},
   changed |-> {b[i].anchor : i \in changed}]

Plan(d) ==
  LET b == tree[d].blocks
      asked == {x[2] : x \in {y \in cmd.query.include : y[1] = d}} IN
  IF cmd.base = None THEN Served("whole", b, {}, {}, asked)
  ELSE IF cmd.base.tree[d] = None THEN Served("new", b, Changed(b, <<>>), {}, asked)
  ELSE IF cmd.base.tree[d] = tree[d] THEN Served("unchanged", b, {}, {}, asked)
  ELSE LET old == cmd.base.tree[d].blocks IN
       Served("changed", b, Changed(b, old), Removed(b, old), asked)

\* _compact_content_delivery: the parts in order, those that touch merged.
Merge_Nested(ranges, part) ==
  IF ranges = <<>> \/ part[1] > Last(ranges)[2] + 1 THEN Append(ranges, part)
  ELSE [ranges EXCEPT ![Len(ranges)] = <<@[1], part[2]>>]
Merge(ranges, part) ==
  IF ranges = <<>> \/ part[1] > Last(ranges)[2] + 1 THEN Append(ranges, part)
  ELSE [ranges EXCEPT ![Len(ranges)] = <<@[1], Max({@[2], part[2]})>>]
Before(x, y) == x[1] < y[1] \/ (x[1] = y[1] /\ x[2] < y[2])
Sorted(parts) ==
  CHOOSE s \in [1 .. Cardinality(parts) -> parts] :
    \A i, j \in DOMAIN s : i < j => Before(s[i], s[j])
\* Merged(s)[k]: the ranges after the first k parts.
Merged(s) ==
  LET merged[k \in 0 .. Len(s)] == IF k = 0 THEN <<>> ELSE Merge(merged[k - 1], s[k])
  IN merged
Fragments(parts) ==
  LET s == Sorted({p \in parts : p[1] <= p[2]}) IN Merged(s)[Len(s)]
Delivered(parts) == UNION {f[1] .. f[2] : f \in ToSet(Fragments(parts))}

\* A relation to an unknown document; a navigation anchor that is no H2.
Dangling(d) == \E e \in tree[d].edges : e.peer \notin Present(tree)
Unnavigable(d) ==
  \E i \in DOMAIN tree[d].blocks :
    tree[d].blocks[i].anchor \in extend /\ tree[d].blocks[i].level # 2

\* A reverse view depends on the relations of every document, any other on those
\* of the documents it selects; an anchor that is asked for must exist.
Emit ==
  /\ cmd.at = "select" /\ cmd.queue = <<>>
  /\ LET q == cmd.query
         included == cmd.included \cup {x[1] : x \in q.include}
         scope == IF "reverse" \in q.directions THEN Present(tree) ELSE included IN
     cmd' = IF \/ ~(included \subseteq Present(tree))
               \/ \E d \in scope : Dangling(d)
               \/ \E d \in included : Unnavigable(d)
               \/ \E x \in q.include : x[2] \notin Anchors(tree[x[1]].blocks)
            THEN Idle
            ELSE [at |-> "printed", query |-> q, base |-> cmd.base, included |-> cmd.included,
                  omitted |-> cmd.omitted, view |-> tree,
                  served |-> [d \in included |->
                                LET plan == Plan(d) IN
                                [kind |-> plan.kind, changed |-> plan.changed,
                                 removed |-> plan.removed,
                                 lines |-> Delivered(plan.parts)]]]
  /\ UNCHANGED <<tree, extend, base>>

-----------------------------------------------------------------------------
(* Authors, `index --write` and the consumer. A command reads at one moment. *)

Free == cmd.at # "select"
Author ==
  /\ Free
  /\ \E d \in Docs : \E v \in Versions[d] : tree' = [tree EXCEPT ![d] = v]
  /\ tree' # tree
  /\ UNCHANGED <<extend, base, cmd>>
Configure ==
  /\ Free /\ extend' \in Extends \ {extend}
  /\ UNCHANGED <<tree, base, cmd>>
\* Only a project without errors is indexed.
Index ==
  /\ Free /\ \A d \in Present(tree) : ~Dangling(d) /\ ~Unnavigable(d)
  /\ base' = [tree |-> tree, extend |-> extend]
  /\ UNCHANGED <<tree, extend, cmd>>

Init ==
  /\ tree \in {t \in [Docs -> UNION {Versions[d] : d \in Docs}] :
                 \A d \in Docs : t[d] \in Versions[d]}
  /\ extend \in Extends
  /\ base = None
  /\ cmd = Idle

Next == \/ \E q \in Queries : Start(q)
        \/ Expand \/ Emit \/ Author \/ Configure \/ Index

Spec == Init /\ [][Next]_vars

-----------------------------------------------------------------------------
(* Properties *)

\* Steps(q)[k]: the documents within k steps of the target.
Peers(q, d) == {c.peer : c \in {e \in Candidates(q, d) : e.relation \in q.relations}}
Within(q) ==
  LET near[k \in 0 .. q.depth] ==
        IF k = 0 THEN {q.target}
        ELSE near[k - 1] \cup UNION {Peers(q, d) : d \in near[k - 1]}
  IN near

\* Whatever the order in which the queue meets them, a packet includes exactly
\* the documents within its depth of the target, by the shortest way to each,
\* and a view names every edge of theirs that it did not follow, with the cause.
SelectionIsExact ==
  cmd.at = "select" /\ cmd.queue = <<>> =>
    LET q == cmd.query
        near == Within(q) IN
    /\ cmd.included = near[q.depth]
    /\ q.view =>
         cmd.omitted =
           UNION {{[from |-> d, to |-> c, why |-> "relation-filter"] :
                     c \in {e \in Candidates(q, d) : e.relation \notin q.relations}}
                  \cup {[from |-> d, to |-> c, why |-> "depth-limit"] :
                     c \in {e \in Candidates(q, d) : e.relation \in q.relations
                                                     /\ e.peer \notin near[q.depth]}} :
                    d \in near[q.depth]}

\* What the consumer can tell of a block that it was not served: it stands, as
\* it is, in the generation the consumer holds.
Known(d, i) ==
  LET b == cmd.view[d].blocks IN
  /\ cmd.base.tree[d] # None
  /\ \E j \in DOMAIN cmd.base.tree[d].blocks : cmd.base.tree[d].blocks[j] = b[i]
Loses(d) == \E i \in (DOMAIN cmd.view[d].blocks) \ cmd.served[d].lines : ~Known(d, i)
\* A later H1 belongs to no H2, nor do its lines up to the next one.
OneTitle(b) == \A i \in DOMAIN b : b[i].level = 1 => \A j \in H2(b) : i < j

\* A delta is complete: with the generation it names, it gives the consumer
\* every block of every selected document as it stands, and the anchors that
\* are gone; it leaves a document out only if it is the same. This holds of
\* documents that have no second H1 behind an H2.
DeltaIsComplete ==
  cmd.at = "printed" /\ cmd.base # None =>
    \A d \in DOMAIN cmd.served :
      LET old == cmd.base.tree[d]
          new == cmd.view[d] IN
      /\ OneTitle(new.blocks) => ~Loses(d)
      /\ cmd.served[d].kind = "unchanged" => old = new
      /\ old # None => cmd.served[d].removed = Anchors(old.blocks) \ Anchors(new.blocks)

\* The documentation's word (docs/agent-contract.md): a changed H1 needs no
\* block of its own, because navigation already carries it.
NavigationCarriesTitles ==
  cmd.at = "printed" /\ cmd.base # None =>
    \A d \in DOMAIN cmd.served : ~Loses(d)

=============================================================================
