------------------------------- MODULE MCCommands -------------------------------
(* One instance for TLC of each command or algorithm that is small enough to *)
(* share a run: the scene is chosen at first, and only its component moves.  *)
(* A variable that a scene does not use is Unused. Components that use the   *)
(* same name share the variable.                                             *)
EXTENDS Naturals, Sequences, FiniteSets, TLC

CONSTANTS None, Null, Unused, x1, x2,
          s1, g1, g2, b1, b2, k1, k2, m1, m2, Broken

VARIABLES
  scene,
  man, cfg, gen, left, pc, result, tree, cmd, \* of more than one component
  rec, fin,
  doc, lock, told, approved, sess,
  edges, work, stack, indices, lowlink, starts, pending, visited, cyclic,
  child, code, stubborn, wrote, taken, buffer, thread, overflow, due, now,
  timedOut, interrupted, outcome,
  catalog, query, walk, first,
  history, sections, verdict,
  policy, mandate, request, packet, record, since, changes,
  files, revised, proposal,
  retained, client, exporter, out,
  extend, base

finish == <<rec, fin>>
maintenance == <<doc, lock, told, approved, sess>>
governed == <<man, cfg, gen, left>>
cycles == <<edges, work, stack, indices, lowlink, starts, pending, visited, cyclic>>
execution == <<child, code, stubborn, wrote, taken, buffer, thread, overflow,
               due, now, timedOut, interrupted, outcome>>
graph == <<catalog, query, walk, first>>
workstream == <<history, sections, verdict>>
lineage == <<policy, mandate, request, packet, record, since, changes>>
intake == <<files, revised, proposal>>
provider == <<retained, client, exporter, out>>
delivery == <<extend, base>>

-----------------------------------------------------------------------------
(* federation finish *)

F == INSTANCE SharedFinish WITH
       Nothing <- Null, Sources <- {1, 2}, Policies <- {{1, 2}, {1}}, Configs <- {"a", "b"},
       Unfit <- {}, MaxChanges <- 2

Finish ==
  /\ scene = "finish" /\ F!Next
  /\ UNCHANGED <<scene, pc, result, tree, cmd, maintenance, cycles, execution, graph,
                 workstream, lineage, intake, provider, delivery>>

-----------------------------------------------------------------------------
(* maintenance under a configuration and a manifest that change *)

A == INSTANCE Maintenance WITH
       Sessions <- {s1}, Gens <- {g1}, Docs <- {1, 2}, Src <- 0, Blocks <- {b1, b2},
       Rests <- {"plain", "moved", "bad"}, Configs <- {k1, k2},
       Current <- [c \in {k1, k2} |-> IF c = k1 THEN {1, 2} ELSE {1}],
       Manifests <- {m1, m2}, Managed <- {m1}, Selected <- {TRUE},
       Commands <- {"preview", "write"},
       MaxCommands <- 2, MaxEdits <- 1, MaxAuths <- 1, MaxCrashes <- 1

\* recoveries of generations over one file, whose bytes change back and forth
U == INSTANCE Maintenance WITH
       Sessions <- {s1}, Gens <- {g1, g2}, Docs <- {1}, Src <- 0, Blocks <- {b1},
       Rests <- {"plain", "legacy", "bad"}, Configs <- {k1}, Current <- [c \in {k1} |-> {1}],
       Manifests <- {m1}, Managed <- {m1}, Selected <- {FALSE},
       Commands <- {"migrate", "recover", "interrupted"},
       MaxCommands <- 3, MaxEdits <- 2, MaxAuths <- 0, MaxCrashes <- 1

Maintain ==
  /\ \/ scene = "maintenance" /\ A!Next
     \/ scene = "undo" /\ U!Next
  /\ UNCHANGED <<scene, pc, result, tree, cmd, finish, cycles, execution, graph,
                 workstream, lineage, intake, provider, delivery>>

-----------------------------------------------------------------------------
(* cycle diagnostics *)

C == INSTANCE Cycles WITH Nodes <- {1, 2, 3, 4}, MaxEdges <- 4

Diagnose ==
  /\ scene = "cycles" /\ C!Next
  /\ UNCHANGED <<scene, governed, tree, cmd, finish, maintenance, execution, graph,
                 workstream, lineage, intake, provider, delivery>>

-----------------------------------------------------------------------------
(* references and change-plan *)

M(a, r, b) == [from |-> a, relation |-> r, to |-> b]
L(a, s, n, b, t) ==
  [from |-> a, at |-> s, line |-> n, column |-> 1, to |-> b, section |-> t]
G == INSTANCE ReferenceGraph WITH
       Docs <- {1, 2, 3, 4}, Sections <- <<{}, {}, {}, {1}>>,
       Metadata <- {M(1, "depends_on", 2), M(1, "related", 3), M(2, "related", 4),
                    M(3, "depends_on", 4), M(3, "related", 0)},
       Legacy <- {M(3, "related", 2)},
       Links <- {L(1, 0, 1, 4, 0), L(4, 1, 2, 1, 0), L(4, 0, 1, 4, 1),
                 L(4, 1, 3, 0, 0), L(4, 1, 4, 0, 0)},
       Modes <- {"strict", "resolve-with-warning"}

Traverse ==
  /\ scene = "graph" /\ G!Next
  /\ UNCHANGED <<scene, governed, pc, result, tree, cmd, finish, maintenance, cycles,
                 execution, workstream, lineage, intake, provider, delivery>>

-----------------------------------------------------------------------------
(* workstream-status *)

Accepted == [status |-> "accepted", independent |-> TRUE]
W == INSTANCE WorkstreamRecord WITH
       Required <- {"changes", "checks", "review"}, MaxAttempts <- 2,
       Attempts <- {1, 2, 3}, Resolutions <- {2, 3},
       Evidence <- {<<>>,
                    [changes |-> {"d"}, checks |-> {"passed"}, review |-> Accepted],
                    [changes |-> {"d"}, checks |-> {"passed", "failed"}, review |-> Accepted]}

Judge ==
  /\ scene = "workstream" /\ W!Next
  /\ UNCHANGED <<scene, governed, pc, result, tree, cmd, finish, maintenance, cycles,
                 execution, graph, lineage, intake, provider, delivery>>

-----------------------------------------------------------------------------
(* admission, handoff, result and lifecycle *)

Request(scope, actions) == [scope |-> scope, actions |-> actions, targets |-> {"T"}]
Record(S) == [ready |-> TRUE, changes |-> S, independent |-> TRUE]
N == INSTANCE Lineage WITH
       Nothing <- Null, Paths <- {"p", "q"}, Contents <- {"a", "b", "-"},
       Trees <- {[p |-> "a", q |-> "-"]},
       Requests <- {Request([p |-> "a", q |-> "-"], {"edit"}),
                    Request([p |-> "a"], {"edit"}), Request(<<>>, {})},
       Policies <- {{}, {"edit"}}, Records <- {Record({"T"}), Record({})},
       MaxChanges <- 2

Delegate ==
  /\ scene = "lineage" /\ N!Next
  /\ UNCHANGED <<scene, governed, pc, finish, maintenance, cycles, execution, graph,
                 workstream, intake, provider, delivery>>

-----------------------------------------------------------------------------
(* intake *)

I == INSTANCE Intake WITH
       Numbers <- {1, 2, 3},
       Decisions <- {{"create-draft"},
                     {"create-draft", "update-existing", "create-workstream"}}

Place ==
  /\ scene = "intake" /\ I!Next
  /\ UNCHANGED <<scene, governed, pc, result, tree, cmd, finish, maintenance, cycles,
                 execution, graph, workstream, lineage, provider, delivery>>

-----------------------------------------------------------------------------
(* a tool call of the MCP adapter *)

B == INSTANCE BoundedExecution WITH
       Streams <- {"stdout", "stderr"}, Limit <- [stdout |-> 3, stderr |-> 2],
       Pipe <- 2, MaxWrite <- 4, Deadline <- 2, Grace <- 1, Join <- 2

Execute ==
  /\ scene = "execution" /\ B!Next
  /\ UNCHANGED <<scene, governed, result, tree, cmd, finish, maintenance, cycles, graph,
                 workstream, lineage, intake, provider, delivery>>

-----------------------------------------------------------------------------
(* provider pages and artifacts; t3 keeps a section of t1 on other lines, and *)
(* an observation with the long path fits a page only by itself               *)

D(p, t) == [path |-> p, text |-> t]
At(h, from, to) == [hash |-> h, lines |-> <<from, to>>]
Generations == {<<D("p", "t1"), D("q", "t2")>>, <<D("p", "t3"), D("q", "t2")>>,
                1 :> D("long", "t4")}
P == INSTANCE ProviderEvidence WITH
       Nothing <- Null, Gens <- Generations,
       Sections <- [t1 |-> <<At("h1", 1, 1), At("h2", 2, 2)>>, t2 |-> <<At("h1", 1, 2)>>,
                    t3 |-> 2 :> At("h2", 1, 1), t4 |-> <<At("h3", 1, 1)>>],
       Length <- [t1 |-> 2, t2 |-> 2, t3 |-> 1, t4 |-> 1],
       Bytes <- [p |-> 1, q |-> 2, long |-> 3],
       MaxBytes <- 4, MaxPage <- 3, Keep <- 2, Exporters <- {x1, x2}

\* Pages and exports only share the generations.
Export ==
  /\ \/ scene = "pages" /\ (P!Index \/ P!Page)
     \/ scene = "artifacts" /\ (P!Index \/ P!Write)
  /\ UNCHANGED <<scene, governed, pc, result, tree, cmd, finish, maintenance, cycles,
                 execution, graph, workstream, lineage, intake, delivery>>

-----------------------------------------------------------------------------
(* context *)

E(r, p) == [relation |-> r, peer |-> p]
H(l, a, t) == [level |-> l, anchor |-> a, text |-> t]
Ask(t, k, v, dirs, s, i) ==
  [target |-> t, depth |-> k, relations |-> {"depends_on"}, view |-> v,
   directions |-> dirs, since |-> s, include |-> i]
X == INSTANCE ContextPacket WITH
       Docs <- 1 .. 4,
       Versions <-
         <<{[edges |-> {E("depends_on", 2), E("depends_on", 3), E("related", 4)},
             blocks |-> <<H(1, "t", "x")>>]},
           {[edges |-> {E("depends_on", 4)},
             blocks |-> <<H(1, "t", "x"), H(2, "a", "x"), H(3, "n", t), H(3, "m", "x"),
                          H(2, "b", "x")>>] : t \in {"x", "y"}}
           \cup {[edges |-> {E("depends_on", 4)},
                  blocks |-> <<H(1, "t", "x"), H(2, "b", "y"), H(2, "c", "x")>>],
                 [edges |-> {}, blocks |-> <<H(1, "t", "x"), H(3, "b", "x")>>]},
           {[edges |-> {E("depends_on", 2)},
             blocks |-> <<H(1, "t", "x"), H(2, "a", "x"), H(1, "z", "x")>>]},
           {[edges |-> {E("related", 1)}, blocks |-> <<H(1, "t", "x")>>], None}>>,
       Extends <- {{}, {"b"}},
       Queries <- {Ask(1, 2, FALSE, {"forward"}, TRUE, {}),
                   Ask(1, 1, FALSE, {"forward"}, TRUE, {<<2, "n">>}),
                   Ask(1, 2, TRUE, {"forward"}, FALSE, {}),
                   Ask(3, 1, TRUE, {"forward", "reverse"}, TRUE, {<<2, "b">>}),
                   Ask(1, 3, FALSE, {"forward"}, FALSE, {})}

Deliver ==
  /\ scene = "context" /\ X!Next
  /\ UNCHANGED <<scene, governed, pc, result, finish, maintenance, cycles, execution,
                 graph, workstream, lineage, intake, provider>>

-----------------------------------------------------------------------------
(* What the theorems of CommandProofs, CyclesProofs and RetrievalProofs assume *)
(* of the constants holds of these instances.                                 *)

ASSUME SourcesAreRegistered == F!Registered
ASSUME AttemptsAreNumbered == W!Numbered
ASSUME RequestsAreInShape == N!Shapes
ASSUME CallsAreSized == B!Sizes
ASSUME ProviderIsObservable == P!Observable
ASSUME NodesAreDocuments == C!Documents
ASSUME DocumentsAreHeaded == X!Documents
ASSUME ProjectIsCatalogued == G!Catalogued

-----------------------------------------------------------------------------

Init ==
  /\ scene \in {"finish", "maintenance", "undo", "cycles", "graph", "workstream", "lineage",
               "intake", "execution", "pages", "artifacts", "context"}
  /\ scene = "finish" => F!Init
  /\ scene = "maintenance" => A!Init
  /\ scene = "undo" => U!Init
  /\ scene = "cycles" => C!Init
  /\ scene = "graph" => G!Init
  /\ scene = "workstream" => W!Init
  /\ scene = "lineage" => N!Init
  /\ scene = "intake" => I!Init
  /\ scene = "execution" => B!Init
  /\ scene \in {"pages", "artifacts"} => P!Init
  /\ scene = "context" => X!Init
  /\ scene # "finish" =>
       /\ rec = Unused /\ fin = Unused
  /\ scene \notin {"maintenance", "undo"} =>
       /\ doc = Unused /\ lock = Unused /\ told = Unused /\ approved = Unused /\ sess = Unused
  /\ scene \notin {"finish", "maintenance", "undo"} =>
       /\ man = Unused /\ cfg = Unused /\ gen = Unused /\ left = Unused
  /\ scene # "cycles" =>
       /\ edges = Unused /\ work = Unused /\ stack = Unused /\ indices = Unused
       /\ lowlink = Unused /\ starts = Unused /\ pending = Unused /\ visited = Unused
       /\ cyclic = Unused
  /\ scene \notin {"cycles", "execution"} => pc = Unused
  /\ scene \notin {"cycles", "lineage"} => result = Unused
  /\ scene # "execution" =>
       /\ child = Unused /\ code = Unused /\ stubborn = Unused /\ wrote = Unused
       /\ taken = Unused /\ buffer = Unused /\ thread = Unused /\ overflow = Unused
       /\ due = Unused /\ now = Unused /\ timedOut = Unused /\ interrupted = Unused
       /\ outcome = Unused
  /\ scene # "graph" =>
       /\ catalog = Unused /\ query = Unused /\ walk = Unused /\ first = Unused
  /\ scene # "workstream" =>
       /\ history = Unused /\ sections = Unused /\ verdict = Unused
  /\ scene # "lineage" =>
       /\ policy = Unused /\ mandate = Unused /\ request = Unused /\ packet = Unused
       /\ record = Unused /\ since = Unused /\ changes = Unused
  /\ scene # "intake" =>
       /\ files = Unused /\ revised = Unused /\ proposal = Unused
  /\ scene \notin {"pages", "artifacts"} =>
       /\ retained = Unused /\ client = Unused /\ exporter = Unused /\ out = Unused
  /\ scene # "context" =>
       /\ extend = Unused /\ base = Unused
  /\ scene \notin {"lineage", "context"} => tree = Unused
  /\ scene \notin {"lineage", "context"} => cmd = Unused

Next == Finish \/ Maintain \/ Diagnose \/ Traverse \/ Judge \/ Delegate \/ Place
        \/ Execute \/ Export \/ Deliver

vars == <<scene, governed, pc, result, tree, cmd, finish, maintenance, cycles, execution,
          graph, workstream, lineage, intake, provider, delivery>>

Spec == Init /\ [][Next]_vars

-----------------------------------------------------------------------------
(* The properties of the components, in their scenes *)

\* A finish packet is true of its participants at one moment (journal.py,
\* shared_finish.py).
PacketIsTrue == scene = "finish" => F!PacketIsTrue

\* A write is the one an operator approved, and is published only under the
\* authority it was approved for, although configuration and manifest change
\* meanwhile (cli.maintenance).
AuthorityHolds ==
  /\ [](scene = "maintenance" => A!AppliedAsApproved)
  /\ [][scene = "maintenance" => A!PublishesRight]_vars

\* A recovery leaves the bytes that its result names, and what is reported of a
\* generation is what its evidence says, although bytes that were rolled back or
\* recovered may stand again (cli.maintenance_recover, journal.py).
RecoveriesHold ==
  /\ [](scene = "undo" => U!ReportsTruly)
  /\ [][scene = "undo" => U!EndsAsReported]_vars

\* The diagnostics are the classes of documents that reach one another, and
\* both implementations name the same documents (graph.py,
\* federated_projection.py).
CyclesAgree == scene = "cycles" => C!CyclesAgree

\* An answer lists what reachability and least distance say, by a least path;
\* without path relations the shards give the answer of the Markdown, each of
\* its boundaries once (graph.traverse_reasons, cli._change_plan_projected).
AnswerIsExact == scene = "graph" => G!AnswerIsExact /\ G!PlansAgree

\* A record is ready only if the work as it stands was validated and accepted
\* (workstream.py).
ReadyIsVerified == scene = "workstream" => W!ReadyIsVerified

\* An accepted lineage is true of the tree and of the policy (admission.py,
\* execution.py, lifecycle.py).
LineageIsTrue == scene = "lineage" => N!LineageIsTrue

\* While the guard of a proposal matches, its ID is free (intake.py).
GuardProvesFree == scene = "intake" => I!GuardProvesFree

\* A tool call returns the whole output of its child or none (mcp_server.py).
PayloadIsWhole == scene = "execution" => B!PayloadIsWhole

\* A tool call ends in time, however it is interrupted, and leaves no child but
\* by an interruption that nothing handles (mcp_server.py).
CallIsBounded == scene = "execution" => B!CallIsBounded

\* The pages of one query are together its whole result (provider.py).
PagesReconstruct == scene = "pages" => P!PagesReconstruct

\* An exported comparison is exact, and never replaced (provider_artifact.py).
EvidenceIsExact ==
  /\ [](scene = "artifacts" => P!ArtifactIsExact)
  /\ P!EvidenceStands

\* A packet includes the documents within its depth (retrieval.py).
SelectionIsExact == scene = "context" => X!SelectionIsExact

\* With its base, a delta gives every block of the documents it selects
\* (retrieval.packet_sections, cli.context).
DeltaIsComplete == scene = "context" => X!DeltaIsComplete

=============================================================================
