----------------------------- MODULE Maintenance -----------------------------
(***************************************************************************)
(* The commands that write authored Markdown: maintenance, migrate and the *)
(* two maintenance recoveries (src/src/docsystem/cli.py, migration.py).    *)
(*                                                                         *)
(* A command reads the project without a lock, plans on what it has read,  *)
(* reads again, and hands its plan to the journal. Between any two reads   *)
(* an author may edit a document, and another session may be writing.      *)
(* The journal is used as DocumentStore describes it: recoveries take one  *)
(* step; the replacements of a write are kept apart because other          *)
(* sessions read the tree between them. As there, authors leave the tree   *)
(* alone while the journal lock is held.                                   *)
(***************************************************************************)
EXTENDS Naturals, FiniteSets

CONSTANTS
  Sessions, Gens,
  Docs,        \* documents with a declared occurrence, in their sorted order
  Src,         \* the document that owns the canonical block
  Blocks,      \* payloads of a managed block
  Broken,      \* no well-formed marker pair
  Rests,       \* the rest of a document: a subset of AllRests
  Configs,     \* versions of .docsystem.toml
  Current,     \* Current[c]: documents whose occurrence has role "current"
  Manifests,   \* versions of the workspace manifest
  Managed,     \* those that declare write = "managed-maintenance"
  Selected,    \* TRUE in it: sessions may select their source by a workspace
  Commands,    \* the commands that are run: a subset of AllCommands
  None,
  MaxCommands, MaxEdits, MaxAuths, MaxCrashes  \* bounds

Files == Docs \cup {Src}

\* "legacy" has a relation value that resolves to a stable id, "moved" puts
\* the markers on other lines, "bad" fails validation.
AllRests == {"plain", "legacy", "moved", "bad"}
Recoveries == {"recover", "interrupted", "migrate-interrupted"}
AllCommands == {"preview", "write", "migrate"} \cup Recoveries

ASSUME FilesAssumption == Docs \subseteq Nat /\ Src \in Nat \ Docs
ASSUME ValuesAssumption ==
  /\ Broken \notin Blocks /\ Rests \subseteq AllRests /\ "plain" \in Rests
  /\ Current \in [Configs -> SUBSET Docs] /\ Managed \subseteq Manifests
  /\ None \notin Blocks \cup Configs \cup Manifests \cup Gens \cup Sessions
  /\ Selected \subseteq BOOLEAN /\ Commands \subseteq AllCommands
  /\ MaxCommands \in Nat /\ MaxEdits \in Nat
  /\ MaxAuths \in Nat /\ MaxCrashes \in Nat

VARIABLES
  doc,       \* doc[f]: content of a document
  cfg, man,  \* current versions of the configuration and the manifest
  lock,      \* the session that holds the journal lock
  gen,       \* gen[g]: journal evidence of a generation
  told,      \* told[g]: what commands have reported of it
  approved,  \* the preview the operator has last been shown
  sess,      \* sess[s]: the command that session s is running
  left       \* what is left of the bounds on the environment

vars == <<doc, cfg, man, lock, gen, told, approved, sess, left>>

Bounds == {"start", "edit", "auth", "crash"}

Doc == [block : Blocks \cup {Broken}, rest : Rests]
ASSUME NoDocAssumption == None \notin Doc

Partial == [Files -> Doc \cup {None}]
Nothing == [f \in Files |-> None]

\* What the preview hash binds.
Envelope == [managed : BOOLEAN, man : Manifests \cup {None}, cfg : Configs,
             sha : Configs, view : [Files -> Doc], after : Partial]

Phases == {"idle", "select", "load", "view", "plansource",
           "plandoc", "hash", "planrelation", "scratch", "admit", "replace",
           "validate", "publish", "restore", "undo", "postvalidate", "refresh"}

\* The results of the journal that a command reports.
Words == {"applied", "rolled-back", "recovered", "already-recovered"}

Session == [pc : Phases, cmd : AllCommands \cup {None},
            selected : BOOLEAN,                \* through a workspace
            managed : BOOLEAN,                 \* write policy that was read
            man : Manifests \cup {None},       \* manifest hash that was read
            cfg : Configs \cup {None},         \* configuration that was loaded
            sha : Configs \cup {None},         \* configuration hash read later
            ask : Envelope \cup {None},        \* expected hashes
            view : Partial,                    \* documents as first read
            plan : Partial,                    \* edited documents as re-read
            guard : Doc \cup {None},           \* source document as re-read
            todo : SUBSET Files,
            gen : Gens \cup {None},
            result : Words \cup {None}]       \* of the journal

Idle == [pc |-> "idle", cmd |-> None, selected |-> FALSE, managed |-> FALSE,
         man |-> None, cfg |-> None, sha |-> None, ask |-> None,
         view |-> Nothing, plan |-> Nothing, guard |-> None, todo |-> {},
         gen |-> None, result |-> None]

\* A recovery leaves the status as it was, and a record of its own.
Evidence == [status : {"open", "applied", "rolled-back"}, undone : BOOLEAN,
             cmd : {"write", "migrate"}, before : Partial, after : Partial,
             man : Manifests \cup {None}, sha : Configs \cup {None},
             ask : Envelope \cup {None}]

TypeOK ==
  /\ doc \in [Files -> Doc]
  /\ cfg \in Configs /\ man \in Manifests
  /\ lock \in Sessions \cup {None}
  /\ \A g \in Gens : gen[g] = None \/ gen[g] \in Evidence
  /\ told \in [Gens -> SUBSET Words]
  /\ approved = None \/ approved \in Envelope
  /\ sess \in [Sessions -> Session]
  /\ left \in [Bounds -> Nat]

Init ==
  /\ doc \in [Files -> [block : Blocks, rest : Rests \ {"moved", "bad"}]]
  /\ cfg \in Configs /\ man \in Manifests
  /\ lock = None
  /\ gen = [g \in Gens |-> None]
  /\ told = [g \in Gens |-> {}]
  /\ approved = None
  /\ sess = [s \in Sessions |-> Idle]
  /\ left = [k \in Bounds |->
              CASE k = "start" -> MaxCommands [] k = "edit" -> MaxEdits
                [] k = "auth" -> MaxAuths [] k = "crash" -> MaxCrashes]

-----------------------------------------------------------------------------
(* Helpers *)

project == <<cfg, man>>
evidence == <<gen, told>>

Spend(k) == left[k] > 0 /\ left' = [left EXCEPT ![k] = @ - 1]

At(s, phase) == sess[s].pc = phase
Become(s, j) == sess' = [sess EXCEPT ![s] = j]
Continue(s, j) == Become(s, j) /\ UNCHANGED <<doc, project, lock, evidence,
                                              approved, left>>

\* The command ends before it took the lock: an error, or nothing to do.
Refuse(s) == Continue(s, Idle)

\* Documents are read and written in path order.
Least(S, f) == f \in S /\ \A e \in S : f <= e
Then(S, f, next, same) == IF S = {f} THEN next ELSE same

InUse(part) == {f \in Files : part[f] # None}
Holds(part) == \A f \in InUse(part) : doc[f] = part[f]
Overlay(part) == [f \in Files |-> IF part[f] = None THEN doc[f] ELSE part[f]]

\* scan_markers and resolve_marker find no single well-formed pair
MarkerError(d) == d.block = Broken

\* Markers that were found at a line are found there again.
SameLine(d, e) == (d.rest = "moved") = (e.rest = "moved")

\* validate_catalog and the graph issues of a tree
Blockers(tree) == {f \in Files : tree[f].rest = "bad"}
Legacy(part) == {f \in InUse(part) : part[f].rest = "legacy"}

\* current occurrences whose block differs from the canonical one
Drifted(j) == {d \in Current[j.cfg] : j.view[d].block # j.view[Src].block}

\* The interior between the markers is replaced by the canonical block; the
\* relation values that resolve are replaced by the stable ids.
WithBlock(d, block) == [d EXCEPT !.block = block]
WithRelations(d) == [d EXCEPT !.rest = "plain"]

\* the documents that the plan produces
Rendered(j) ==
  [f \in Files |->
     IF j.plan[f] = None THEN None
     ELSE IF j.cmd = "migrate" THEN WithRelations(j.plan[f])
     ELSE WithBlock(j.plan[f], j.view[Src].block)]

\* _maintenance_preview_sha256
Preview(j) == [managed |-> j.managed, man |-> j.man, cfg |-> j.cfg,
               sha |-> cfg, view |-> j.view, after |-> Rendered(j)]

\* _maintenance_authority_guards, verified by the journal
AuthorityOk(j) == j.selected => j.sha = cfg /\ j.man = man

-----------------------------------------------------------------------------
(* Starting a command *)

\* The operator hands a write the hashes of the preview last shown, and a
\* recovery the manifest hash of the generation.
Start(s, cmd, selected, g) ==
  /\ At(s, "idle")
  /\ cmd \in Commands
  /\ selected \in Selected
  /\ selected => cmd \notin {"migrate", "migrate-interrupted"}
  /\ cmd \in Recoveries => gen[g] # None
  /\ cmd = "write" => approved # None
  /\ Spend("start")
  /\ Become(s, [Idle EXCEPT !.pc = IF selected THEN "select" ELSE "load",
                    !.cmd = cmd, !.selected = selected,
                    !.gen = IF cmd \in Recoveries THEN g ELSE None,
                    !.ask = IF cmd = "write" THEN approved ELSE None])
  /\ UNCHANGED <<doc, project, lock, evidence, approved>>

\* resolve_source: the policy is read, the bytes are hashed by a later read
Select(s) ==
  /\ At(s, "select")
  /\ Continue(s, [sess[s] EXCEPT !.pc = "load", !.managed = man \in Managed])

\* The manifest hash, load_config and the checks of the options. A recovery
\* hashes the configuration here, migrate does not hash it.
Load(s) ==
  LET j == sess[s]
      recovering == j.cmd \in Recoveries
  IN
  /\ At(s, "load")
  /\ IF j.selected /\ j.cmd # "preview" /\ ~j.managed THEN Refuse(s)
     ELSE Continue(s, [j EXCEPT
            !.pc = IF recovering THEN "undo" ELSE "view",
            !.cfg = cfg,
            !.man = IF j.selected THEN man ELSE None,
            !.sha = IF recovering THEN cfg ELSE None,
            !.todo = IF recovering THEN {} ELSE Files])

-----------------------------------------------------------------------------
(* maintenance: view and plan *)

\* _load_views or build_catalog: one document at a time
View(s) ==
  LET j == sess[s] IN
  /\ At(s, "view")
  /\ \E f \in Files :
       /\ Least(j.todo, f)
       /\ Continue(s, [j EXCEPT !.view[f] = doc[f], !.todo = @ \ {f},
            !.pc = Then(j.todo, f, IF j.cmd = "migrate" THEN "planrelation"
                                   ELSE "plansource", "view")])

\* blockers, marker errors, or another canonical block than expected
Rejected_AnySource(j) ==
  Blockers(j.view) # {} \/ \E f \in Files : MarkerError(j.view[f])
Rejected(j) ==
  \/ Blockers(j.view) # {}
  \/ \E f \in Files : MarkerError(j.view[f])
  \/ j.cmd = "write" /\ j.ask.view[Src].block # j.view[Src].block

\* The dispositions; if there is drift, _maintenance_write_plan reads the
\* source again: the same block, wherever it stands now, and the whole
\* document becomes a read guard.
PlanSource(s) ==
  LET j == sess[s]
      drifted == Drifted(j)
  IN
  /\ At(s, "plansource")
  /\ \/ /\ Rejected(j) \/ (drifted # {} /\ doc[Src].block # j.view[Src].block)
        /\ Refuse(s)
     \/ /\ ~Rejected(j) /\ drifted = {}
        /\ Continue(s, [j EXCEPT !.pc = "hash"])
     \/ /\ ~Rejected(j) /\ drifted # {}
        /\ doc[Src].block = j.view[Src].block
        /\ Continue(s, [j EXCEPT !.pc = "plandoc", !.guard = doc[Src],
                                 !.todo = drifted])

\* ... and every document with drift: the same block on the same lines
PlanDoc_AnyBlock(s) ==
  LET j == sess[s] IN
  /\ At(s, "plandoc")
  /\ \E f \in Files :
       /\ Least(j.todo, f)
       /\ Continue(s, [j EXCEPT !.plan[f] = doc[f], !.todo = @ \ {f},
            !.pc = Then(j.todo, f, "hash", "plandoc")])
PlanDoc(s) ==
  LET j == sess[s] IN
  /\ At(s, "plandoc")
  /\ \E f \in Files :
       /\ Least(j.todo, f)
       /\ IF \/ doc[f].block # j.view[f].block
             \/ ~SameLine(doc[f], j.view[f])
          THEN Refuse(s)
          ELSE Continue(s, [j EXCEPT !.plan[f] = doc[f], !.todo = @ \ {f},
                 !.pc = Then(j.todo, f, "hash", "plandoc")])

\* The configuration is hashed and the preview hash computed. A preview shows
\* it; a selected write must have been given it; no drift, no write.
Hash(s) ==
  LET j == sess[s] IN
  /\ At(s, "hash")
  /\ IF j.cmd = "preview"
     THEN /\ approved' = Preview(j)
          /\ Become(s, Idle)
          /\ UNCHANGED <<doc, project, lock, evidence, left>>
     ELSE IF Drifted(j) = {} \/ (j.selected /\ Preview(j) # j.ask)
     THEN Refuse(s)
     ELSE Continue(s, [j EXCEPT !.pc = "admit", !.sha = cfg])

-----------------------------------------------------------------------------
(* migrate: build_migration_plan, validate_plan *)

\* The originals are read after the catalog was built from earlier reads; a
\* legacy value that is no longer there blocks the whole plan.
PlanRelation(s) ==
  LET j == sess[s]
      legacy == Legacy(j.view)
  IN
  /\ At(s, "planrelation")
  /\ IF legacy = {} \/ \E f \in legacy : doc[f].rest # "legacy" THEN Refuse(s)
     ELSE Continue(s, [j EXCEPT !.pc = "scratch",
            !.plan = [f \in Files |-> IF f \in legacy THEN doc[f] ELSE None]])

\* The plan is validated on a copy of the tree as it is now.
Scratch(s) ==
  LET j == sess[s] IN
  /\ At(s, "scratch")
  /\ IF \E f \in Files \ InUse(j.plan) : doc[f].rest = "bad" THEN Refuse(s)
     ELSE Continue(s, [j EXCEPT !.pc = "admit"])

-----------------------------------------------------------------------------
(* run_bounded_transaction, as its callers see it *)

Admissible_NoBefore(j) ==
  /\ lock = None
  /\ AuthorityOk(j)
  /\ j.guard # None => doc[Src] = j.guard
Admissible_NoGuard(j) == lock = None /\ AuthorityOk(j) /\ Holds(j.plan)
Admissible(j) ==
  /\ lock = None
  /\ AuthorityOk(j)
  /\ Holds(j.plan)
  /\ j.guard # None => doc[Src] = j.guard

Free(g) == gen[g] = None

\* The lock, admission and the immutable before and after copies; there is no
\* second generation of one name.
Admit(s) ==
  LET j == sess[s] IN
  /\ At(s, "admit")
  /\ \/ (~Admissible(j) \/ \A g \in Gens : ~Free(g)) /\ Refuse(s)
     \/ /\ Admissible(j)
        /\ \E g \in Gens :
             /\ Free(g)
             /\ gen' = [gen EXCEPT ![g] =
                  [status |-> "open", undone |-> FALSE, cmd |-> j.cmd,
                   before |-> j.plan, after |-> Rendered(j), man |-> j.man,
                   sha |-> IF j.selected THEN j.sha ELSE None,
                   ask |-> j.ask]]
             /\ Become(s, [j EXCEPT !.pc = "replace", !.gen = g,
                                    !.todo = InUse(j.plan)])
        /\ lock' = s
        /\ UNCHANGED <<doc, project, told, approved, left>>

Put(s, content, phase) ==
  LET j == sess[s] IN
  \E f \in Files :
    /\ Least(j.todo, f)
    /\ doc' = [doc EXCEPT ![f] = content[f]]
    /\ Become(s, [j EXCEPT !.todo = @ \ {f}, !.pc = Then(j.todo, f, phase, @)])
    /\ UNCHANGED <<project, lock, evidence, approved, left>>

Replace(s) == At(s, "replace") /\ Put(s, gen[sess[s].gen].after, "validate")

Rollback(s) ==
  Continue(s, [sess[s] EXCEPT !.pc = "restore",
                              !.todo = InUse(gen[sess[s].gen].before)])

\* The validation hook rebuilds the catalog from the tree; the last look at
\* the authority precedes the terminal record.
Validate(s) ==
  /\ At(s, "validate")
  /\ IF Blockers(doc) # {} \/ ~AuthorityOk(sess[s]) THEN Rollback(s)
     ELSE Continue(s, [sess[s] EXCEPT !.pc = "publish"])

\* The journal is done with a command, which now has something to report.
Conclude(s, word, phase) ==
  Become(s, [sess[s] EXCEPT !.pc = phase, !.result = word])

Publish_AnyAuthority(s) ==
  /\ At(s, "publish")
  /\ gen' = [gen EXCEPT ![sess[s].gen].status = "applied"]
  /\ lock' = None
  /\ Conclude(s, "applied", "refresh")
  /\ UNCHANGED <<doc, project, told, approved, left>>
Publish(s) ==
  /\ At(s, "publish")
  /\ IF ~AuthorityOk(sess[s]) THEN Rollback(s)
     ELSE /\ gen' = [gen EXCEPT ![sess[s].gen].status = "applied"]
          /\ lock' = None
          /\ Conclude(s, "applied", "refresh")
          /\ UNCHANGED <<doc, project, told, approved, left>>

RolledBack_Restored(s) ==
  /\ gen' = [gen EXCEPT ![sess[s].gen].status = "restored"]
  /\ lock' = None
  /\ Conclude(s, "rolled-back", "refresh")
RolledBack(s) ==
  /\ gen' = [gen EXCEPT ![sess[s].gen].status = "rolled-back"]
  /\ lock' = None
  /\ Conclude(s, "rolled-back", "refresh")
Restore(s) ==
  LET j == sess[s] IN
  /\ At(s, "restore")
  /\ IF j.todo = {}
     THEN RolledBack(s) /\ UNCHANGED <<doc, project, told, approved, left>>
     ELSE Put(s, gen[j.gen].before, "restore")

\* The result is reported: a rollback, and all of migrate, at once; anything
\* else after _maintenance_refresh_projection, whose failure is a warning only.
Refresh_IgnoresStatus(s) ==
  LET j == sess[s] IN
  /\ At(s, "refresh")
  /\ told' = [told EXCEPT ![j.gen] =
       @ \cup {IF j.cmd \in Recoveries THEN j.result ELSE "applied"}]
  /\ Become(s, Idle)
  /\ UNCHANGED <<doc, project, lock, gen, approved, left>>
Refresh(s) ==
  /\ At(s, "refresh")
  /\ told' = [told EXCEPT ![sess[s].gen] = @ \cup {sess[s].result}]
  /\ Become(s, Idle)
  /\ UNCHANGED <<doc, project, lock, gen, approved, left>>

-----------------------------------------------------------------------------
(* maintenance-recover and the recoveries of interrupted attempts *)

\* The recorded authority is the one in force, if the command is selected;
\* a completed generation is of another kind than an interrupted attempt.
Addressed(j) ==
  /\ lock = None
  /\ gen[j.gen] # None
  /\ AuthorityOk(j)
  /\ j.selected => gen[j.gen].man = j.man /\ gen[j.gen].sha = j.sha
  /\ (j.cmd = "recover") = (gen[j.gen].status # "open")
  /\ j.cmd = "migrate-interrupted" => gen[j.gen].cmd = "migrate"

\* A completed generation is judged by the tree alone, whether it was applied,
\* rolled back or recovered before; an attempt by its record as well.
AlreadyRecovered_ByRecord(j) ==
  /\ Addressed(j)
  /\ (j.cmd = "recover" /\ Holds(gen[j.gen].before)) \/ gen[j.gen].undone
AlreadyRecovered_ByTree(j) == Addressed(j) /\ Holds(gen[j.gen].before)
AlreadyRecovered(j) ==
  /\ Addressed(j)
  /\ Holds(gen[j.gen].before)
  /\ j.cmd = "recover" \/ gen[j.gen].undone

Recoverable(j) ==
  LET e == gen[j.gen] IN
  /\ Addressed(j)
  /\ IF j.cmd = "recover" THEN ~Holds(e.before) /\ Holds(e.after)
     ELSE ~e.undone /\ \A f \in InUse(e.after) : doc[f] \in {e.before[f], e.after[f]}

\* migrate-recover-interrupted reports at once.
Recovered(s, word) ==
  Conclude(s, word, IF sess[s].cmd = "migrate-interrupted" THEN "refresh"
                    ELSE "postvalidate")

\* A second recovery of one generation in the second of the first is refused:
\* it has the name of its record.
Undo(s) ==
  LET j == sess[s] IN
  /\ At(s, "undo")
  /\ \/ /\ ~Recoverable(j) /\ ~AlreadyRecovered(j)
        /\ Refuse(s)
     \/ /\ Recoverable(j) /\ gen[j.gen].undone
        /\ Refuse(s)
     \/ /\ Recoverable(j)
        /\ doc' = Overlay(gen[j.gen].before)
        /\ gen' = [gen EXCEPT ![j.gen].undone = TRUE]
        /\ Recovered(s, "recovered")
        /\ UNCHANGED <<project, lock, told, approved, left>>
     \/ /\ AlreadyRecovered(j)
        /\ Recovered(s, "already-recovered")
        /\ UNCHANGED <<doc, project, lock, evidence, approved, left>>

\* A tree that fails validation after the recovery is an error, and the
\* projection is left as it was; the recovery stands.
PostValidate(s) ==
  /\ At(s, "postvalidate")
  /\ IF Blockers(doc) # {} THEN Refuse(s)
     ELSE Continue(s, [sess[s] EXCEPT !.pc = "refresh"])

-----------------------------------------------------------------------------
(* The environment *)

AuthorEdit(f) ==
  /\ lock = None
  /\ Spend("edit")
  /\ \E d \in Doc : d # doc[f] /\ doc' = [doc EXCEPT ![f] = d]
  /\ UNCHANGED <<project, lock, evidence, approved, sess>>

\* the configuration or the workspace manifest, at any time
AuthorityEdit ==
  /\ Spend("auth")
  /\ \/ cfg' \in Configs \ {cfg} /\ UNCHANGED man
     \/ man' \in Manifests \ {man} /\ UNCHANGED cfg
  /\ UNCHANGED <<doc, lock, evidence, approved, sess>>

\* The process dies: the operating system releases its lock.
Crash(s) ==
  /\ ~At(s, "idle")
  /\ Spend("crash")
  /\ Become(s, Idle)
  /\ lock' = IF lock = s THEN None ELSE lock
  /\ UNCHANGED <<doc, project, evidence, approved>>

Run(s) ==
  \/ Select(s) \/ Load(s) \/ View(s)
  \/ PlanSource(s) \/ PlanDoc(s) \/ Hash(s)
  \/ PlanRelation(s) \/ Scratch(s)
  \/ Admit(s) \/ Replace(s) \/ Validate(s) \/ Publish(s) \/ Restore(s)
  \/ Refresh(s) \/ Undo(s) \/ PostValidate(s)

Environment ==
  \/ \E f \in Files : AuthorEdit(f)
  \/ AuthorityEdit
  \/ \E s \in Sessions : Crash(s)

Next ==
  \/ \E s \in Sessions, cmd \in AllCommands, selected \in BOOLEAN, g \in Gens :
       Start(s, cmd, selected, g)
  \/ \E s \in Sessions : Run(s)
  \/ Environment

Spec == Init /\ [][Next]_vars

-----------------------------------------------------------------------------
(* Properties *)

Involved(g) == InUse(gen[g].after)

\* Every write of a generation is the one an operator has seen: a selected
\* write yields exactly the documents that the preview showed, from documents
\* that differ from them by the drifted block it showed, under the
\* configuration and manifest it was shown for; a direct write puts the block
\* that was expected (maintenance, _maintenance_write_plan,
\* _maintenance_preview_sha256).
AppliedAsApproved ==
  \A g \in Gens : gen[g] # None /\ gen[g].cmd = "write" =>
    LET seen == gen[g].ask IN
    /\ \A f \in Involved(g) : gen[g].after[f].block = seen.view[Src].block
    /\ gen[g].sha # None =>
         /\ gen[g].after = seen.after
         /\ \A f \in Involved(g) :
              gen[g].before[f] = WithBlock(seen.after[f], seen.view[f].block)
         /\ gen[g].man = seen.man /\ gen[g].sha = seen.sha

Applies(g) == /\ gen[g] # None /\ gen[g].status = "open"
              /\ gen'[g].status = "applied"

\* At the moment a write is published it is still right: every document it
\* edited holds the canonical block as it stands, or has no legacy relation
\* left, no document fails validation, and a selected write is published only
\* under the authority it was admitted with, although all of it was planned
\* on unlocked reads (run_bounded_transaction as used by maintenance and
\* apply_migration_plan).
PublishesRight ==
  \A g \in Gens : Applies(g) =>
    /\ Blockers(doc) = {}
    /\ \A f \in Involved(g) : doc[f] = gen[g].after[f]
    /\ IF gen[g].cmd = "migrate" THEN Legacy(gen[g].after) = {}
       ELSE \A f \in Involved(g) : doc[f].block = doc[Src].block
    /\ gen[g].sha # None => gen[g].sha = cfg /\ gen[g].man = man
PublishedCurrent == [][PublishesRight]_vars

\* No command, recovery or crash changes what its author put beside the
\* interior it owns: a step that is not an author's never changes the block
\* and the rest of one document, and never the canonical block
\* (FileEdit ranges of _maintenance_write_plan, _migration_edits).
KeepsTheRest == [][
  left'["edit"] = left["edit"] =>
    /\ doc'[Src].block = doc[Src].block
    /\ \A d \in Docs : doc'[d].block = doc[d].block \/ doc'[d].rest = doc[d].rest]_vars

\* What the evidence of a generation must say for a result to be true of it.
Borne(e, word) ==
  /\ e # None
  /\ word = "applied" \/ word = "rolled-back" => e.status = word
  /\ word = "recovered" => e.undone
  /\ word = "already-recovered" => e.status # "open" \/ e.undone

\* What commands have reported of a generation is what the journal says of it,
\* and stays so whatever comes after: an applied one was published, one that
\* was rolled back never is, an undone one has a record of it, and nothing is
\* called recovered before it has ended one way or the other (maintenance,
\* migrate and the recoveries).
ReportsTruly == \A g \in Gens : \A word \in told[g] : Borne(gen[g], word)

\* When the journal concludes, every document of the generation holds what the
\* result says: the after bytes if it was applied, and otherwise the before
\* bytes, also where a rolled-back or recovered generation is undone because
\* its after bytes stand once more, and where nothing is left to undo
\* (run_bounded_transaction, recover_generation, recover_interrupted_generation).
Concludes(s) == sess'[s].result # sess[s].result /\ sess'[s].result # None
EndsAsReported ==
  \A s \in Sessions : Concludes(s) =>
    LET e == gen'[sess'[s].gen] IN
    \A f \in InUse(e.after) :
      doc'[f] = IF sess'[s].result = "applied" THEN e.after[f] ELSE e.before[f]
ConclusionsHold == [][EndsAsReported]_vars
=============================================================================
