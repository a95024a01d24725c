--------------------------- MODULE ProviderEvidence ---------------------------
(***************************************************************************)
(* What a consumer gets of retained projection generations: pages that it   *)
(* follows by cursors (src/src/docsystem/provider.py) and complete          *)
(* artifacts that are exported to a file (provider_artifact.py), while      *)
(* `index --write` adds generations and retention removes them.             *)
(*                                                                         *)
(* A generation is modelled by its documents' paths and texts; that a       *)
(* pinned load returns this, whole, or refuses is shown by Projection. A    *)
(* document is observed at anchor 0, a section at its own.                  *)
(***************************************************************************)
EXTENDS Naturals, Sequences, FiniteSets, SequencesExt, FiniteSetsExt

CONSTANTS
  Gens,      \* generations: functions from document numbers to [path, text]
  Sections,  \* Sections[text]: anchor -> [hash, lines]
  Length,    \* Length[text]: its lines
  Bytes,     \* Bytes[path]: the size of an observation with this path
  MaxBytes,  \* MAX_RESPONSE_BYTES
  MaxPage,   \* MAX_PAGE_SIZE
  Keep,      \* bound on the generations that are retained
  Exporters,
  Nothing

VARIABLES
  retained,  \* the generations of the cache
  client,    \* a consumer that follows cursors, with the pages it has got
  exporter,  \* exporter[x]: an export command
  out        \* the file at the destination of the exports

vars == <<retained, client, exporter, out>>

-----------------------------------------------------------------------------
(* observations and compare_observations *)

Observed(g) ==
  UNION {{[id |-> d, anchor |-> 0, hash |-> g[d].text, path |-> g[d].path,
           lines |-> <<1, Length[g[d].text]>>]}
         \cup {[id |-> d, anchor |-> a, hash |-> Sections[g[d].text][a].hash,
                path |-> g[d].path, lines |-> Sections[g[d].text][a].lines] :
                 a \in DOMAIN Sections[g[d].text]} : d \in DOMAIN g}

Key(o) == <<o.id, o.anchor>>
Keys(O) == {Key(o) : o \in O}
Of(O, k) == IF k \in Keys(O) THEN CHOOSE o \in O : Key(o) = k ELSE Nothing

Classified_ByPath(b, a) ==
  IF b = Nothing THEN "added" ELSE IF a = Nothing THEN "missing"
  ELSE IF b.hash # a.hash THEN "changed"
  ELSE IF b.path # a.path THEN "relocated" ELSE "unchanged"
Classified(b, a) ==
  IF b = Nothing THEN "added" ELSE IF a = Nothing THEN "missing"
  ELSE IF b.hash # a.hash THEN "changed"
  ELSE IF <<b.path, b.lines>> # <<a.path, a.lines>> THEN "relocated"
  ELSE "unchanged"

\* A query is of one generation, or of two that are compared.
Queries(R) == [before : R \cup {Nothing}, after : R]
Compared(q) ==
  LET B == Observed(q.before)
      A == Observed(q.after) IN
  {[key |-> k, class |-> Classified(Of(B, k), Of(A, k)),
    before |-> Of(B, k), after |-> Of(A, k)] : k \in Keys(A) \cup Keys(B)}
Items(q) ==
  IF q.before = Nothing
  THEN {[key |-> Key(o), class |-> "observed", before |-> Nothing, after |-> o] :
          o \in Observed(q.after)}
  ELSE {c \in Compared(q) : c.class # "unchanged"}

\* By kind, documents first, then by document and anchor.
Precedes(j, k) ==
  \/ j[2] = 0 /\ k[2] # 0
  \/ /\ (j[2] = 0) = (k[2] = 0)
     /\ j[1] < k[1] \/ (j[1] = k[1] /\ j[2] < k[2])
\* The item at place i has i - 1 before it.
Result(q) ==
  LET place(x) == Cardinality({y \in Items(q) : Precedes(y.key, x.key)}) + 1 IN
  [i \in 1 .. Cardinality(Items(q)) |-> CHOOSE x \in Items(q) : place(x) = i]

-----------------------------------------------------------------------------
(* _bounded_page *)

Size(item) ==
  (IF item.before = Nothing THEN 0 ELSE Bytes[item.before.path])
  + (IF item.after = Nothing THEN 0 ELSE Bytes[item.after.path])
Weight(s) == FoldFunction(+, 0, [i \in DOMAIN s |-> Size(s[i])])

\* A page is shortened until it fits, and is refused if one item does not.
Pages(q, offset, size) ==
  LET all == Result(q)
      upto == Min({Len(all), offset + size})
      ends == {n \in offset + 1 .. upto : Weight(SubSeq(all, offset + 1, n)) <= MaxBytes} IN
  IF all = <<>> THEN {<<>>}
  ELSE IF offset >= Len(all) \/ ends = {} THEN {}
  ELSE {SubSeq(all, offset + 1, Max(ends))}

\* The cursor is bound to the query it came from.
Continues_AnyQuery(cursor, q) == TRUE
Continues(cursor, q) == cursor.query \in {Nothing, q}

Fresh == [query |-> Nothing, offset |-> 0]
NoClient == [cursor |-> Fresh, got |-> <<>>, done |-> Nothing]

\* The consumer asks for the page behind its cursor, of any retained query and
\* in any size; a query of an evicted generation has no answer. After an error
\* or the last page it begins anew.
Ask(q, size) ==
  LET offset == client.cursor.offset
      begun == IF client.done = Nothing THEN client.got ELSE <<>> IN
  /\ client' =
       IF ~Continues(client.cursor, q) \/ Pages(q, offset, size) = {} THEN NoClient
       ELSE LET page == CHOOSE p \in Pages(q, offset, size) : TRUE
                next == offset + Len(page) IN
            IF next < Len(Result(q))
            THEN [cursor |-> [query |-> q, offset |-> next], got |-> begun \o page,
                  done |-> Nothing]
            ELSE [cursor |-> Fresh, got |-> begun \o page, done |-> q]
  /\ UNCHANGED <<retained, exporter, out>>

Page == \E q \in Queries(retained), size \in 1 .. MaxPage : Ask(q, size)

-----------------------------------------------------------------------------
(* snapshot_artifact, compare_artifact and verify_artifact *)

Coverage(g) == [documents |-> Cardinality(DOMAIN g),
                sections |-> Cardinality({o \in Observed(g) : o.anchor # 0})]
Classes == {"unchanged", "relocated", "changed", "missing", "added"}
Artifact(q) ==
  [query |-> q, items |-> Result(q), after |-> Coverage(q.after),
   before |-> IF q.before = Nothing THEN Nothing ELSE Coverage(q.before),
   summary |-> IF q.before = Nothing THEN Nothing
               ELSE [c \in Classes |-> Cardinality({x \in Compared(q) : x.class = c})]]

\* Every section belongs to a document that is observed beside it.
Related(O) ==
  \A o \in O : o.anchor # 0 =>
    \E d \in O : d.id = o.id /\ d.anchor = 0 /\ d.path = o.path /\ o.lines[2] <= d.lines[2]

Count(O, sections) == Cardinality({o \in O : (o.anchor # 0) = sections})
Total(coverage) == coverage.documents + coverage.sections

Verified(a) ==
  LET old == {x.before : x \in ToSet(a.items)} \ {Nothing}
      new == {x.after : x \in ToSet(a.items)} \ {Nothing}
      number(c) == Cardinality({i \in DOMAIN a.items : a.items[i].class = c})
      shared == a.summary["unchanged"] + number("relocated") + number("changed") IN
  /\ \A i, j \in DOMAIN a.items : i < j => Precedes(a.items[i].key, a.items[j].key)
  /\ Related(old) /\ Related(new)
  /\ IF a.before = Nothing
     THEN Count(new, FALSE) = a.after.documents /\ Count(new, TRUE) = a.after.sections
     ELSE /\ \A x \in ToSet(a.items) : x.class = Classified(x.before, x.after)
          /\ \A c \in Classes \ {"unchanged"} : a.summary[c] = number(c)
          /\ Total(a.before) = shared + number("missing")
          /\ Total(a.after) = shared + number("added")

\* _collect_pages: all pages or none.
Fits(q) == \A x \in Items(q) : Size(x) <= MaxBytes

XGoto(x, s) == exporter' = [exporter EXCEPT ![x] = s]
XIdle == [pc |-> "idle", file |-> Nothing]

Export(x) ==
  /\ exporter[x].pc = "idle"
  /\ \E q \in Queries(retained) :
       XGoto(x, IF ~Fits(q) THEN XIdle
                ELSE IF ~Verified(Artifact(q)) THEN [pc |-> "rejected", file |-> Nothing]
                ELSE [pc |-> "check", file |-> Artifact(q)])
  /\ UNCHANGED <<retained, client, out>>

\* write_artifact: nothing at the destination, a temporary file beside it, and
\* a link that fails if the destination has come into being.
CheckOutput(x) ==
  /\ exporter[x].pc = "check"
  /\ XGoto(x, IF out # Nothing THEN XIdle ELSE [exporter[x] EXCEPT !.pc = "link"])
  /\ UNCHANGED <<retained, client, out>>

Publish_Replaces(file) == out' = file
Publish(file) == out' = IF out = Nothing THEN file ELSE out
Link(x) ==
  /\ exporter[x].pc = "link"
  /\ Publish(exporter[x].file)
  /\ XGoto(x, XIdle)
  /\ UNCHANGED <<retained, client>>

\* An export may die or fail at any point; the temporary file is not seen.
Abandon(x) ==
  /\ exporter[x].pc \in {"check", "link"}
  /\ XGoto(x, XIdle)
  /\ UNCHANGED <<retained, client, out>>

\* The consumer takes its evidence away.
Take ==
  /\ out # Nothing /\ out' = Nothing
  /\ UNCHANGED <<retained, client, exporter>>

Write == \/ \E x \in Exporters : Export(x) \/ CheckOutput(x) \/ Link(x) \/ Abandon(x)
         \/ Take

-----------------------------------------------------------------------------

\* `index --write`: a generation more, and those that retention leaves.
Index ==
  /\ \E g \in Gens \ retained, kept \in SUBSET retained :
       Cardinality(kept) < Keep /\ retained' = kept \cup {g}
  /\ UNCHANGED <<client, exporter, out>>

Init ==
  /\ retained = {}
  /\ client = NoClient
  /\ exporter = [x \in Exporters |-> XIdle]
  /\ out = Nothing

Next == Index \/ Page \/ Write

Spec == Init /\ [][Next]_vars

\* What the constants are: finitely many documents with finitely many sections,
\* within their lines, and none of this is Nothing.
Observable ==
  /\ MaxPage \in Nat
  /\ \A q \in Queries(Gens) : q # Nothing
  /\ \A g \in Gens :
       /\ g # Nothing /\ Nothing \notin Observed(g) /\ Coverage(g) # Nothing
       /\ IsFiniteSet(DOMAIN g) /\ DOMAIN g \subseteq Nat
       /\ \A d \in DOMAIN g :
            LET sections == Sections[g[d].text] IN
            /\ IsFiniteSet(DOMAIN sections) /\ DOMAIN sections \subseteq Nat \ {0}
            /\ \A a \in DOMAIN sections : sections[a].lines[2] <= Length[g[d].text]

-----------------------------------------------------------------------------
(* Properties *)

\* Whatever sizes a consumer asks for, whatever the byte limit cuts off and
\* whatever is indexed and evicted between two requests, the pages it has
\* followed to a null cursor are together the whole ordered result of one
\* query, without loss, repetition or a page of another.
PagesReconstruct ==
  client.done # Nothing => client.got = Result(client.done)

\* The engine's own verification never refuses what the engine has assembled,
\* and an exported comparison is exact: applied to what the one generation
\* observes it yields what the other observes.
ArtifactIsExact ==
  /\ \A x \in Exporters : exporter[x].pc # "rejected"
  /\ out # Nothing =>
       LET old == IF out.query.before = Nothing THEN {} ELSE Observed(out.query.before)
           gone == {i.before : i \in ToSet(out.items)}
           come == {i.after : i \in ToSet(out.items)} \ {Nothing} IN
       (old \ gone) \cup come = Observed(out.query.after)

\* Evidence at a destination is never replaced, neither by a later export nor
\* by one that runs beside the first.
EvidenceStands == [][out # Nothing => out' \in {out, Nothing}]_vars

=============================================================================
