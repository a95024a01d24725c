# A TLA+ model of docsystem

`docsystem` (under `src/src/docsystem`) keeps a Markdown documentation tree, an
evidence journal of every bounded write to it, derived caches from which tools read,
and a set of commands that judge evidence about delegated work. This directory models
the parts of it in which state, order or an algorithm can go wrong, checks them with
TLC on small instances, and proves the safety properties that matter most with TLAPS
for all instances.

## 1. The system

| component | source | state it keeps | operations | modelled by |
|---|---|---|---|---|
| bounded-write journal | `journal.py` | the tree, an exclusive lock, generation directories (manifest, before and after copies, `verification.json`), recovery records | `run_bounded_transaction`, `recover_generation`, `recover_interrupted_generation`, `inspect_generation` | `Journal`, `DocumentStore` |
| projection cache | `projection.py` | `generations/<id>`, `current.json`, staging and quarantine directories | `write_projection`, `load_verified_projection`, `TargetedProjection`, delta and pinned loads | `Projection`, `ReferenceGraph` |
| managed maintenance, relation migration | `maintenance.py`, `migration.py`, `cli.py` | managed blocks and relation fields of documents | preview, write, migrate, recover | `Maintenance` |
| federation | `federation.py`, `federated_projection.py`, `shared_finish.py` | an object store with generations, finish evidence | `federation index`, federated reads, `changes`, `finish` | `FederatedProjection`, `SharedFinish`, `Cycles` |
| workspace selection | `workspace.py` | the workspace manifest (an authority file) | resolve a project, produce authority guards | inputs of `Maintenance`, `FederatedProjection`, `SharedFinish` |
| dependency graph | `graph.py`, `change_plan.py` | none | references, change plans, cycles | `ReferenceGraph`, `Cycles` |
| retrieval | `retrieval.py`, `sections.py` | none | context packets, deltas | `ContextPacket` |
| lifecycle and workstreams | `workstream.py`, `lifecycle.py`, `execution.py` | none; agents write the records | status, handoff, result, lifecycle | `WorkstreamRecord`, `Lineage` |
| admission and intake | `admission.py`, `intake.py` | none | admit a request, place an idea | `Lineage`, `Intake` |
| provider snapshots | `provider.py`, `provider_artifact.py` | exported artifacts | pages and cursors, export | `ProviderEvidence` |
| MCP server | `mcp_server.py` | a child process per call | bounded execution of a read command | `BoundedExecution` |
| command line | `cli.py` | none of its own | combines the others | the modules above |
| catalog | `catalog.py` | none: a function of the tree | enumerate, parse, validate | the inputs of `Projection` |
| program plans | `program_plan.py` | none | evaluate one document | not modelled |
| configuration | `config.py`, `profiles.py`, `metadata.py`, `inventory.py`, `strict_json.py` | none | parse and validate | not modelled |

How they interact. A command loads the configuration and the catalog, plans a set of
`FileEdit`s and read guards *without a lock*, and passes them to the journal together
with authority guards (hashes of the configuration and of the workspace manifest that
selected the project). The journal takes a non-blocking lock, revalidates everything,
writes evidence, replaces files one by one, lets the caller's hook validate the
result, and publishes `verification.json` or rolls back. Afterwards the command may
refresh the projection. Readers never take a lock: they choose between the cache,
which they verify by content hashes, and the Markdown itself. The federated cache is
built from, and verified against, several such projects. The commands about delegated
work read artifacts that other parties write at any moment, one file after the other,
and what they print is evidence for the next command. Authors edit the tree with an
editor at any time.

What is hard, and therefore what the properties are about:

* **crashes** between any two file operations of a transaction, of either recovery
  and of a projection write;
* **interleaving** of commands planned before either holds the lock, of readers with
  writers, retention and damage, and of authors with everything;
* **stale state**: hashes and guards read before the lock, before validation and
  before publication; authority files that change while a command runs; a content
  hash that matches for the wrong reason;
* **partial failure**: an I/O error in a rollback, in an undo, between set-aside and
  publication, in retention;
* **protocol sequences**: recovery rerun, recovery after another write, two commands
  of one second sharing an id;
* **evidence of another moment**: a packet, a page, a cursor, a delta, an allocation
  guard or a sealed handoff that is combined with what stands on disk now;
* **algorithms written with explicit stacks, queues and pages**: cycle detection,
  traversal by distance, selection by hops, pagination under a byte budget;
* **timeouts** that race the end of a child process and the threads that drain it;
* **liveness**: rerunning recovery resolves every attempt, commands end, the cache heals.

## 2. Modules

| module | what it is |
|---|---|
| `Journal` | processes, evidence, lock, tree, crash, fault, author and authority changes |
| `JournalInvariant` | the inductive strengthening used by the proofs and checked by TLC |
| `DocumentStore`, `JournalRefinement` | the abstract store, in which a declared multi-file write happens at one moment, and the mapping of `Journal` to it |
| `Projection` | writers, readers, retention, damage and configuration of a project's cache |
| `Maintenance` | sessions that run `maintenance`, `migrate` and their recoveries over the journal |
| `FederatedProjection` | the federated cache: writer, readers, retention and collection of objects |
| `SharedFinish` | `federation finish` beside writes, recoveries and changes of authority |
| `Cycles` | both implementations of cycle diagnostics |
| `ReferenceGraph` | `references` and `change-plan`, from the Markdown and from shards |
| `WorkstreamRecord` | a workstream's history and the verdict on it |
| `Lineage` | admission, execution handoff and result, lifecycle |
| `Intake` | ID allocation and its guard |
| `BoundedExecution` | one tool call of the MCP adapter |
| `ProviderEvidence` | pages, cursors and exported artifacts |
| `ContextPacket` | context packets and deltas |
| `JournalProofs`, `JournalStoreProofs`, `ProjectionProofs`, `MaintenanceProofs`, `FederatedProjectionProofs`, `CyclesProofs`, `RetrievalProofs`, `CommandProofs` | TLAPS proofs; `RetrievalProofs` is about `ContextPacket` and `ReferenceGraph`, `CommandProofs` about `SharedFinish`, `WorkstreamRecord`, `ProviderEvidence`, `Intake`, `BoundedExecution` and `Lineage` |
| `MCJournal`, `MCJournalRefinement`, `MCProjection`, `MCMaintenance`, `MCReferenceGraph`, `MCBoundedExecution`, `MCContextPacket` | instances of one module for TLC |
| `MCCaches`, `MCCommands` | instances of several modules side by side: a first choice of `scene` says which of them moves |

### Journal

State to code: `src` is the content of every path; `lock` is the lock held by
`_exclusive_journal_lock`; `stage[g]`, `files[g]`, `before[g]`, `after[g]`, `gauth[g]`
are the generation directory and its `manifest.json`; `terminal[g]` is
`verification.json`; `rec[g][s]` is a directory under `recoveries/`; `job[p]` is the
control state and the local variables of the command that process `p` runs; `authority`
is the version of the guarded authority files. `writer[x]` is a history variable: who
wrote the bytes at `x` last. Bytes are opaque values and a hash comparison is an
equality of bytes, so hash collisions are outside the model.

One action is one durable effect, or one check whose answer can become stale before
the next effect:

* transaction (`run_bounded_transaction`): `Plan`, `Lock`/`LockBusy`, `Admit` (also
  the exclusive `mkdir` of the generation), `Prepare`, `Stage`, then `Check`/`Replace`
  for each path in sorted order, `Validate`, `Confirm`, `Finalize`; on failure
  `Restore`, `RbVerify`, `RbPublish`;
* interrupted recovery (`recover_interrupted_generation`): `IStart`, `ILoad`,
  `IRecord`, `ICheck`/`IWrite` per path, `IFinal`, `IPublish`; `ILoad` adopts the one
  pending record of an earlier, interrupted recovery;
* completed recovery (`recover_generation`): `CStart`, `CLoad`, `CRecord`,
  `CPreflight`, `CRestore` per path, `CVerify`, `CDrop`, `CPublish`, and `CUndo` in
  reverse order when the attempt fails;
* environment: `Crash`, `Edit`, `AuthorityChange`; an I/O fault is a branch of the
  action it hits.

`Prepare` stands for many file writes. They are one step because a generation
directory whose `manifest.json` is missing or not `prepared` is refused by every other
command, so the crash points between them are indistinguishable from one before it.
`RbPublish` likewise publishes `recovery.json` and `verification.json` of a rollback in one
step, so the order of these two files is not distinguished, only that both follow the bytes.

### DocumentStore and the refinement

`DocumentStore` has a tree, declared writes, a log and three kinds of step that matter:
a commit changes all edited paths at one moment and only if every edited and guarded
path holds the bytes the write was declared for; an undo takes a logged write back at
one moment and only if all its paths hold its bytes; everything else leaves the tree
alone. `JournalRefinement!Logical` maps the journal's tree to it: bytes of an attempt
without terminal evidence count as its before copies, bytes that an unfinished
completed recovery has put back count as the after copies. The commit point is thus the publication
of `verification.json`, the undo point that of the recovery record.

The refinement needs two conditions that the code leaves to its operators, and the
model shows where they are needed:

* no author writes while the lock is held (`EditAnytime = FALSE`); otherwise a rollback
  overwrites what an author saved (run `JournalConcurrentEdit`);
* where commands may die, no write is planned over files of an unresolved attempt
  (`ResolveFirst = TRUE`). Otherwise a second generation that happens to write the same
  bytes is taken back by the recovery of the first one; `docs/interrupted-recovery.md`
  excludes this case in its limitations.

`DocumentStore!Undo` also undoes a *rejected* write whose bytes stand in the tree,
because completed recovery does (run `JournalStaleUndo`).

### Projection

A generation id is a hash of what shaped the generation, so it is modelled by that
content (`[view, cfg]`). `dir[g]` records for each file of the directory whether it is
as written, altered or gone; `recent` is the order of modification times that retention
sorts by, including what an interrupted `rmtree` and a rename do to it; `pointer` is
`current.json`. Writer actions follow `index --write`: `WStart`, `Scan` per document,
`Probe`, `Aside` (quarantine of a damaged generation), `WStage`, `Publish` with
`PutBack` on failure, `Point`, `Clean`, `Prune` file by file, `Status`. Reader actions
follow `load_verified_projection`, `TargetedProjection` and the retained loads:
`ROpen`, `RPointer`, `RManifest`, `RList`, `RSource` per document, `RShard` per shard.
`seen` and `calm` are history variables of a read or a write.

### Maintenance

The commands that plan a write. A document is its managed `block` and the `rest`
(a relation that can be migrated, markers on other lines, an error that fails
validation); `cfg` and `man` are the configuration and the workspace manifest; `gen[g]`
is the evidence of a generation; `approved` is the preview the operator has last seen,
as what its hash binds (`Envelope`); `sess[s]` holds the local variables of a command.
A command takes one step per read: `Select` (the policy) and `Load` (manifest hash and
configuration), `View` per document, `PlanSource` and `PlanDoc` which read again,
`Hash` (the configuration hash and the comparison with the expected preview);
`PlanRelation` and `Scratch` for `migrate`. Then `Admit`, `Replace` per document,
`Validate`, `Publish` or `Restore`, `Refresh`; recoveries are `Undo` and
`PostValidate`. `Conclude` puts the journal's result into the session's `result`, and
`told[g]` collects the words that commands, writes and recoveries alike, have reported of a
generation.

A recovery reports one of two words. What `maintenance-recover` may undo is decided by the
tree alone: any completed generation whose after bytes stand, be it applied, rolled back
and then put back by another generation, or recovered before and put back by an author; if
its before bytes stand, it is already recovered. An interrupted attempt is judged by its
record as well (`undone`). `Recoverable` and `AlreadyRecovered` say this, and the journal
refuses a second record of one second (`Undo`, second disjunct). `Borne` says what the
evidence must hold for a word to be true of it, and `ConclusionsHold` what the tree must hold.

The journal is used as `DocumentStore` promises it, and that the journal keeps the
promise is what `StoreCrash` and `StoreConcurrent` check: a recovery is one step, and
authors leave the tree alone while the lock is held (`AuthorEdit` has `lock = None`).
Replacements are still separate steps, because a preview of another session reads the
tree between them and a crash can leave it there. Abstracted: the shape of markers (a
block is well-formed or `Broken`), an empty managed block and a drifted occurrence in
the source document itself, both of which are refused, the choice between a verified
projection and direct Markdown for `View` (the same documents either way), and the
change plan, a function of the documents the preview hash also binds.

### FederatedProjection

`source[s]` is one value for the Markdown and the configuration of a source;
`manifest` is `workspace.toml`. A generation is named by its content, as its hash names
it: the manifest's hash, the entries, and per source the inventory and the documents.
`objects` is the content-addressed store, `recent` the order of modification times,
`torn` the directories without an intact `manifest.json`, `pointer` is `current.json`.
`federation index --write` is `WStart` (the manifest is parsed), `WHash` (and hashed,
later), `WBefore` (inventory) of one source after another, then `WCatalog` (documents),
`WRehash` (the manifest again) and `WAfter` (second inventory, compared), then `WObject`
one object at a time, `WPublish`, `WPoint`, and the garbage collection `WList`/`WDrop` for directories
and `WRefs`/`WSweep` for objects. A read is `RStart`, `RPointer`, `RHash`, `RState`
per source and `RObject`; `federation changes` goes on with `RCompare` and `RReport`.
`Edit`, `Register`, `Crash` and `Damage` happen between any two of them.

### SharedFinish

The journal of a source appears by what its readers see of one generation: `gen[s]`
(absent or applied, with the authority it was published under) and `rec[s]`.
`federation finish` reads, in this order and without a lock, the manifest (`FStart`),
its hash (`FHash`), the status of the sources (`FStatus`), then for each source its
configuration (`FConfig`), the evidence of its generation (`FEvidence`) and its recovery
records (`FRecords`), then the manifest again (`FManifest`) and each configuration again
(`FRecheck`), before `FPacket`. `Write`,
`Recover`, `ChangeManifest` and `Configure` go on meanwhile; the fields `stood`,
`moved`, `twice` and `undone` of `fin` are history.

### Cycles and ReferenceGraph

`Cycles` follows `_strongly_connected_components` of `graph.py` with its work stack,
`indices` and `lowlink` (`Root`, `Child`, `Leave`), and `_cyclic_members` of
`federation.py` (`NextStart`, `Begin`, `Visit`). `CyclesAgree` compares both with the
reference definition, mutual reachability: `Reached(n)` is the least set that holds the
successors of `n` and theirs.

`ReferenceGraph` builds the edges of a catalog (containment, authored relations by ID
or by path, links observed in the text) and answers one query by rounds of equal
distance (`Traverse`, `TraverseReasons`), keeping the preferred path or reason of each
address; `AskShards` puts the same query to the shards. The reference definition knows
nothing of rows or of a frontier: `Shortest(reverse)[k]` is the set of *all* shortest paths
of `k` edges, and `ExactAt` says what an answer lists at distance `k` in terms of them, for
a plan the least of the paths to each edge. A boundary is a row for every link that leads
nowhere, so boundaries form a bag: the Markdown's answer keeps a row for each occurrence
(`Occurrences`), a reader of shards collects them in a dict (`Distinct`).

### WorkstreamRecord, Lineage and Intake

The engine only reads; what moves is what agents, hosts and maintainers write.
`WorkstreamRecord`: an agent appends entries `[state, attempt]` up to a first illegal
one (`Enter`, `Refuse`), and `Status` judges the record at any time, with the findings
that its evidence may hold.

`Lineage`: `admission`, `execution-handoff`, its `--verify`, `execution-result` and
`lifecycle` share the variable `cmd`, since a command takes one step per file it reads:
`Request`, `Scope`, `Admit`, `Compare`, `LoadPacket`, `LoadResult`, `Hash` per path,
`Validate`, `Lifecycle`. `Edit`, `Govern` (the policy), `Persist` (a printed packet is
saved), `Declare` (the executor's result) and `Evidence` (the workstream record) happen
in between. `since[p]` is the history of contents that a path has had since the command
started, which is what "at a moment of the command" means in `LineageIsTrue`. The second
`stat` with which `execution-handoff` takes the `bytes` of a path (`cli.py:5268`) is left out:
nothing is decided by it.

`Intake`: `files` maps paths to IDs, `Propose` prints an allocation with its guard,
`Author` creates, moves, edits and deletes documents afterwards.

### BoundedExecution

The child (`Write`, `Exit`), one thread per pipe (`Drain`, `EndOfFile`) and the caller
(`Begin`, `Poll`, `Wait`, `Terminate`, `Reap`, `JoinThread`, `Return`) follow
`_execute` with its `drain` threads, `_terminate_process` and `_invoke`. A Python
interruption may strike anywhere (`Interrupt`), and `Place` says what handles it: in the try,
which covers the termination as well, the handler terminates the child, a second time if need
be; in the handler only the joins are left; between the start of the child and the try, and in
the joins, nothing is. `interrupted` collects the places. Time is counted in ticks of a
poll, and `Tick` is enabled only when neither a thread nor the caller can act: whoever
*can* act does so before the clock moves, except for the child, which may sleep or
ignore `SIGTERM`. Under this assumption a thread that is joined for two seconds has read
what was in its pipe; without it no bound on the call could be stated. A grandchild that
inherits the pipe and keeps it open is not modelled.

### ProviderEvidence and ContextPacket

`ProviderEvidence`: `retained` are the generations that `Index` adds and retention
removes; `Page` asks for one page or continues by a cursor, which binds the query and a
position; `Export`, `CheckOutput`, `Link` (exclusive, by `os.link`) and `Abandon` write
an artifact. Changes between two generations are classified twice, by path and anchor
and by content hash. Visibility classes and provider identity pins are abstracted.

`ContextPacket`: `Start` a query, `Expand` the selection hop by hop from a queue, `Emit`
blocks: whole, or as ranges that changed since the base generation, merged; `Author`,
`Configure` and `Index` change the documents, `extend_through` and the base between
two commands. One command reads at one moment: that its views are current is
`ServedIsTrue` of `Projection`.

### MCCaches and MCCommands

A scene is chosen in the initial state and only its component moves. In `MCCommands` a
variable that the scene does not use has the value `Unused`; in `MCCaches` it has a value
that says so, or the one it starts with. No component sees another's variables, so the
states of the run are the disjoint union of the states of its scenes.

## 3. Runs

| run | instance | question |
|---|---|---|
| `JournalRecovery` | 1 process, 1 generation, 2 paths, 2 contents, 2 recovery stamps, 2 authorities, 2 crashes, 1 fault, 1 edit, 1 authority change | Is the evidence always true and immutable, is replay fenced, is nothing lost, do writes stay bound to their authority, is a failed completed recovery undone? |
| `StoreCrash` | 1 process, 2 generations, 2 paths, 1 content, 2 crashes, 1 fault, fair | Does a crashed, failed or recovered write take effect at one moment or never? Does every command end and every attempt get resolved? |
| `StoreConcurrent` | 2 processes, 2 generations, 2 paths, 1 content, 1 edit | Do racing writes, rollbacks and undos commit only on what they were declared for? Is the proofs' invariant true here? |
| `JournalConcurrentEdit` | author edits under the lock | violation: a rollback replaces an author's bytes |
| `JournalStaleUndo` | 2 generations | violation: a rolled-back generation is undone |
| `ProjectionHeals` | 1 document, 2 contents of which one is erroneous, 2 configurations, 3 events (of them 2 edits, 1 configuration change, 1 crash, 1 fault, 1 damage), `keep_generations` 2, fair | Does the pointer select an intact generation, has a fallback a cause, does retention keep its window, does the cache heal? |
| `MaintenanceSessions` | 2 sessions, 1 replica, 2 blocks, 2 generations, 2 manifests, crash, edit, and up to 3 commands | Is what racing sessions publish what was expected, still right, confined to its fields and truly reported? |
| `Caches` | federation: 2 sources, 3 contents of which one is unfit, 2 manifests, a writer and a reader, 2 events (of them 2 edits, 1 registration, 1 crash, 1 damage); project: 2 writers and a reader, 1 edit or 1 crash; or 1 writer, 2 contents, 2 configurations, all four kinds of read, 3 events (of them 1 edit, 1 configuration change, 1 crash, 1 damage) | Does a federated build notice every single change, does the pointer select complete generations, is no stale or mixed answer served, also when two project writers race? Does a completed write repair the cache? |
| `Commands` | one scene each for `SharedFinish`, `Maintenance` under changing authority, `Maintenance` with recoveries of what was rolled back or recovered before (`undo`), `Cycles`, `ReferenceGraph`, `WorkstreamRecord`, `Lineage`, `Intake`, `BoundedExecution`, pages and artifacts of `ProviderEvidence`, `ContextPacket` | Is the evidence each command prints true of the moments it read, does a recovery leave and report what it says, and does each algorithm meet its reference definition? |
| `EitherPath` | 4 documents, a relation authored as a path, two links to one missing document | violation: Markdown and shards answer one query differently |
| `SecondTitle` | 1 document with two H1 | violation: a delta lists a changed heading that nothing carries |
| `LeftChild` | 2 streams, limits 2, a pipe of 1, all waits 1 | violation: an interrupted call ends and leaves its child running |

Why the bounds are enough. Loops over files differ in their first, middle and last
iteration and a failure between two iterations needs two files; a third repeats the
second. Two processes suffice for the lock, since it admits one and refuses the rest
alike. Two crashes let a recovery die during the recovery of a crash. Two recovery
stamps distinguish "the pending record" from "another record"; two contents and
`Absent` give edits, creates, and an edit that changes nothing. In the projection
three generations are needed for retention to choose among two, two edits to return
to an older generation, two configurations to separate fingerprints. What disturbs the two
caches is bounded each kind and in all (`MaxEvents`): three events leave room for a change, what
goes wrong during the write after it, and one more. A maintenance
scenario is a preview, a write and one command beside or after them, hence three
commands; a conflict needs one edit at the wrong moment. `MaintenanceSessions` explores
(`Explored`) either two commands of both kinds while the manifest may change, or three
direct ones while it stands; plans of two replicas, between which an edit falls, and
two configurations are the `maintenance` scene of `Commands`. The `undo` scene there is narrower
and longer, over one replica with a session that migrates and recovers: the second edit is
what it takes for one generation to be rolled back, another to apply its bytes, and the first
to be undone, or for an author to put back what a recovery removed. A federated build needs
two sources so that a change falls between them, and a second edit to show that one
is noticed and two may not be. Four documents give cycles that share a document,
diamonds, and paths of equal length; four edges join two cycles. Three attempts exceed
the two a criterion allows. Limits 3 and 2 with a pipe of 2 and four writes let a child
overflow in one stream, in both, and after it was last polled. A page budget of 4 with
observations of 1, 2 and 3 gives pages that are full by bytes, by count, and by a single
observation; two exporters race for one file. The context scene has documents that are
reached over two paths of different length, nested sections of which the inner or the
outer one changes, a section that moves out of the navigation, and a document that is
deleted.

Every property is broken by a mutated definition of the code under the same instance
(`mutants` in `PROJECT.json`), so the instances are large enough to see what they are
for. The proofs remove the bounds where there are theorems.

Deadlock is checked wherever the components can always go on. `Commands`,
`MaintenanceSessions`, `EitherPath`, `SecondTitle` and `LeftChild` switch the check off,
because there the system may really stop: a query is answered, a tool call is over, the bounded commands are used up.

Fairness. `Journal!FairSpec`: a command that is running takes its next step, since
nothing in it blocks (the lock is tried once and refused, `_exclusive_journal_lock`),
and the operator reruns interrupted recovery for every generation, which is how
`docs/interrupted-recovery.md` tells an operator to react. Recovery needs *strong*
fairness because the process may be busy with another command in between.
`Projection!FairSpec`: a write and a read that run go on, and the operator or an agent
starts them again. Neither assumes that a lock is granted, that no fault occurs or that
authors stop; crashes, faults, damage and edits are bounded instead. All other
specifications are safety specifications and state no fairness.

## 4. Proofs

All theorems hold for any sets of processes, documents, sources, sessions, readers,
writers and contents and for any bounds. What is assumed beside the named assumptions of
the modules themselves is a hypothesis of the theorem.

| module | theorem | hypothesis | inductive invariant |
|---|---|---|---|
| `JournalProofs` | `TypeCorrect`: `[]TypeOK` | | `TypeOK` |
| | `InductiveInvariant`, `EvidenceCorrect`, `RoutesDisjoint`, `LockSafe`: the evidence is true, the two recoveries never meet, the lock excludes | | `EvidenceInductive` |
| | `EvidenceStands` (`EvidenceImmutable`), `ReplayStaysFenced` (`ReplayFenced`) | | `EvidenceInductive` |
| | `AuthorityBound` (`AuthorityBinding`) | | `EvidenceInductive`, `AllBound` |
| `JournalStoreProofs` | `TreeKnown`: `[]TreeInductive` | `EditAnytime = FALSE` | `EvidenceInductive`, `TreeInductive` |
| | `NothingIsLost` (`NothingLost`), `RollbackIsOwn` (`RollbackUndoesOwnWritesOnly`), `RecoveryIsAllOrNothing` (`RecoveryAllOrNothing`) | `EditAnytime = FALSE` | the same |
| | `JournalImplementsStore`: `ImplementsDocumentStore` of orderly behaviours | `EditAnytime = FALSE`, `[][Orderly]_vars` | the same and `SettledInductive` |
| | `CalmJournalImplementsStore`: `ImplementsDocumentStore` | `EditAnytime = FALSE`, no crash, fault or interrupted recovery | the same and `NothingFails`, `Attended`, `NoRecovery` |
| | `CrashingJournalImplementsStore`: `ImplementsDocumentStore` | one process, `ResolveFirst = TRUE`, no edits, no completed recovery | the same and `Tidy` |
| `ProjectionProofs` | `ServedTrue`: `[]ServedIsTrue` | | `ReadInv` |
| | `PointerIntact`: `[]PointerSelectsIntact` | `Alone` | `CacheInv` |
| | `FallbackCaused`: `[]FallbackHasCause` | `Alone` | `ReadInv`, `CacheInv`, `CalmInv` |
| | `WriteCurrent`: `[]WriteYieldsCurrent` | `Alone` | `CacheInv`, `RetainInv` |
| | `WindowKept`: `RetentionKeepsWindow` | `Alone` | `CacheInv`, `RetainInv` |
| `MaintenanceProofs` | `ReportsTrue`, `ConclusionsRight` (`ConclusionsHold`), `WritesApproved` (`AppliedAsApproved`), `PublishesCurrent` (`PublishedCurrent`), `RestKept` (`KeepsTheRest`) | `NoneApart` | `CommandsInv`, `Counted` |
| `FederatedProjectionProofs` | `BuildBound`: `BuildIsSnapshot` | | `BuildInv` |
| | `AnswersFresh`: `AnswersAreFresh` | `Registrations` | `AnswerInv` |
| | `PointerSelects`: `[]PointerSelectsComplete` | `Alone` | `StoreInv` |
| `CyclesProofs` | `CyclesAreFound`: `[]CyclesAgree` of `Cycles` | `Documents` | `CyclesInv` |
| `RetrievalProofs` | `SelectionExact`: `[]SelectionIsExact` of `ContextPacket` | `Documents` | `SelectionInv` |
| | `DeltaComplete`: `[]DeltaIsComplete` of `ContextPacket` | `Documents` | `DeltaInv` |
| | `AnswerExact`: `[]AnswerIsExact` of `ReferenceGraph` | `Catalogued` | `GraphInv` |
| | `PlansAgreeing`: `[]PlansAgree` of `ReferenceGraph` | `Catalogued` | `GraphInv` |
| `CommandProofs` | `PacketTrue`: `[]PacketIsTrue` of `SharedFinish` | `Registered` | `FinishInv` |
| | `ReadyVerified`: `[]ReadyIsVerified` of `WorkstreamRecord` | `Numbered` | `RecordInv` |
| | `PagesWhole`: `[]PagesReconstruct` of `ProviderEvidence` | `Observable` | `PageInv` |
| | `ArtifactExact`: `[]ArtifactIsExact` | `Observable` | `ArtifactInv` |
| | `EvidenceStanding`: `EvidenceStands` | | |
| | `GuardSafe`: `[]GuardProvesFree` of `Intake` | `Numbers \subseteq Nat` | `Unlisted` |
| | `PayloadWhole`, `CallBounded`: `[]PayloadIsWhole`, `[]CallIsBounded` of `BoundedExecution` | `Sizes` | `CallInv` |
| | `LineageTrue`: `[]LineageIsTrue` of `Lineage` | `Shapes` | `LineageInv` |

`Alone` says that there is at most one writer of the project cache, or of the federated
one. It is needed: `index --write` and `federation index --write` take
no lock, and with two writers the retention of one may remove what the other's pointer
selects; `ServedTrue`, `BuildBound` and `AnswersFresh` hold with any number of them. `NoneApart`, `Shapes`,
`Registrations` and `Sizes` say of constants what their comments in the modules say (a
special value is no record of evidence, scopes are sets of paths, manifests are
functions on the sources, limits are numbers). So do `Registered` (sources are numbers, no
manifest is the value `Nothing`), `Numbered` (attempts and resolutions are numbers),
`Numbers \subseteq Nat`, `Documents` of `Cycles` (documents are numbers, in the order of
their IDs, and finitely many) and of `ContextPacket` (documents are finitely many, each
a sequence of headings of levels 1 to 6, and the depth of a query is a number),
`Catalogued` (documents and sections are numbers, finitely many, and a document authors
relations and links of its own) and `Observable` (documents and sections of a generation are
finitely many and have numbers, sections lie within their documents, and `Nothing` is none of
what is recorded). Each is defined in the module whose constants it is about, and TLC evaluates
`Registered`, `Numbered`, `Shapes`, `Sizes`, `Observable`, both `Documents` and `Catalogued` on
the instances that the run `Commands` checks (the `ASSUME`s of `MCCommands`).

Journal evidence. Assumptions are only the named ones in `Journal`: paths are numbers (so that they
are sorted), the special values are not members of the sets they stand beside, the bounds
are naturals. Authors may write at any time (`EditAnytime` is arbitrary).
`EvidenceMatchesSource` is about states in which evidence has been published;
it is not inductive, because publishing is a step that looks at nothing. Publishing
`applied` is right only because every path that carries this generation's bytes still
holds its after copy, and that was established by the replacement loop several steps
earlier. `Local(p)` says what each phase knows: how far the evidence of its generation
has come (`EvidencePhase`), what its loop has handled (`LoopPhase`) and what the bytes
attributed to the generation are (`BytesPhase`). That no other process spoils this
knowledge follows from `LockExclusion`, a part of the invariant: only the holder of the lock writes evidence or
the tree. What an author does is harmless, because the bytes then carry the author's
name; that is what the history variable is for. `Pristine` says that an unused generation
id owns no bytes. The action properties follow from the same invariant: a step that
publishes finds by `EvidencePhase` the state before its publication (`HolderImmutable`),
a step that writes works for a generation no completed record of which exists
(`OpenAttempt`), and `AllBound` says that a pinned command past its admission works for a
generation prepared under its pin, which stays true because `gauth` is immutable.

The tree and the refinement. `EvidenceInductive` says what the evidence knows of the tree;
`TreeInductive` says what the running command knows of it. Its two parts follow the loops:
of a transaction, that the paths done carry its after copies and its name while the rest
and every guard still hold what was planned for (`TxnTree`); of a recovery, which files are
back and which are still to do (`RecoveryTree`). It is inductive only while nobody but the
holder of the lock writes, hence `EditAnytime = FALSE`, and the run `JournalConcurrentEdit`
shows that `RollbackUndoesOwnWritesOnly` is false without it. `NothingIsLost`,
`RollbackIsOwn` and `RecoveryIsAllOrNothing` are read off it action by action.

The step mapping (`JournalImplementsStore`) says for each action of the journal which
step of the store it is: `Plan` declares; the publication of `applied` commits, since by
`TxnTree` all edits hold the after copies and all guards what was planned for; the
publication of a rollback rejects; that of a completed recovery's record undoes; a
busy lock, a failure, a death or an end abandons; every other step leaves `Logical` alone.
The last is the difficult part, for `Logical(x)` looks at the writer of `x`, at the
evidence of its generation and at the recoveries that are running. What must be known of
the writers is `SettledInductive`: the bytes a command has before it do not belong to an
unresolved attempt. That does not hold by itself, and `Orderly` names exactly what it
takes: a write is admitted and a completed recovery loaded over settled bytes, a recovery
of an interrupted attempt finds changed bytes only where its attempt wrote them, and no
completed recovery dies or fails in its undo after it has put back a file. The first three are
what `docs/interrupted-recovery.md` asks of operators, the last is the observation of
section 5. Two theorems discharge `Orderly` where the runs do: `CalmJournalImplementsStore`
(the constants of `StoreConcurrent`, for any number of processes, generations, paths and
edits), because an attempt whose command released the lock has terminal evidence
(`Attended`); and `CrashingJournalImplementsStore` (those of `StoreCrash`, for any number of
crashes, faults, generations and paths), because every file whose bytes an interrupted
attempt wrote belongs to one attempt only (`Tidy`: `Apart`, `Owns`, `Clear`), which the
recovery must find before another write may touch it. Together with `NoneAssumption` (the
value `None` is no write and no pair of copies) these are all the assumptions.

Projection and federation. Readers hold no lock, so nothing they have read need still be
true when they answer. The invariants therefore speak of *history*: `Knows` and `Looked`
say that whatever a read has compared agreed with a member of `seen`, the contents its
sources have had since it began, and every step of an author adds to `seen`. For the
pointer, `Works(w)` says that the generation which the only writer is about to select is
intact and is not among those its retention will remove; for the number and the choice of
what retention leaves, `RetainInv` follows the sequence of modification times through
renames, re-creations and removals (`Ordered`: every generation that is there stands in it
once) and counts the generations that the removals still to come will leave (`Surviving`):
no more than `keep_generations` of them once the victims are chosen (`Yields`), and, as
long as no write was cut short and nothing damaged, no fewer while any is being removed
(`Gentle`). `StoreInv` says for
each phase of a federated write which objects are known to be there and that the pointer's
generation is among those the collection keeps (`Stored`). For fallbacks, `Calm` says that
as long as nothing disturbed the read, what it opened on is intact and current. `Reads`
of a build says the same of the two inventories: a source that moved at most once shows
the difference in the second reading.

Maintenance. `CommandsInv` follows the plan of a session: `Flow` ties each phase to what
the command has read (`Planned`), `Held` ties a running write to the lock and its
generation, `Sound` says that a generation carries the question and the answer of its
command. The approved preview and the write are linked by what the preview's hash binds
(`Envelope`), not by when they read: `WritesApproved` compares the written document with
the block of the preview put into the document's own text. What has been reported is true
because it is true when the journal concludes and evidence never takes it back: a status that
is not open stays, and so does a record of a recovery (`Truthful`, `Borne`). That the tree
agrees when the journal concludes (`ConclusionsRight`) is known of a write from its loop: what
is done holds the after bytes, or the before bytes once it rolls back (`Standing`), because no
other session and no author writes under its lock; of a recovery it follows from the tree that
it looked at.

Lineage, execution and intake. `CmdInv` says what each stage of a command has sealed or
compared, in terms of `since`. `CallInv` counts: what a thread keeps is what it has taken,
up to its limit, and a thread that has not returned has not seen the end of its pipe; with
the timing assumption the joins leave nothing behind. The bounds of `CallBounded` depend on
where the call has been interrupted, and the places on one another: the handler runs only
after an interruption in the try, and where the caller is tells where it can have been
interrupted (`Struck`). A child that is still running once the joins begin was left by an
interruption before the try or in the handler. `Unlisted` says that the proposed ID
is not among the IDs of its guard, from which a matching guard makes it free.

Finish, workstreams and pages. `federation finish` holds no lock, so `FinishInv` says of
every file it has read that the file still holds what was read or is noted as having
moved (`Read`), and of every participant it has accepted that its evidence still stands and
was not undone before the command began (`Accepted`); evidence of an applied generation is
immutable, which is why it needs no second look. When the manifest is compared again, the
configurations of that moment are either those of the writes, or of a source that the
recheck will refuse unless it changes back; so that moment is the one at which everything
agreed, and it stays in `stood`. `ReadyIsVerified` counts the corrections of each attempt
over the whole history. `RecordInv` does not recompute that: it carries `Counted` along as
entries are appended (every attempt so far has an entry, every attempt left has exactly
one correction, the last none yet), and `Predecessors` and the attempt numbers then fix the
last five entries of a completed history. `PageInv` says that a consumer holds exactly the
part of one query's result before its cursor, or all of it; that a generation is evicted
in between only makes the next request fail.

Artifacts. What is exported is a function of the query (`ArtifactInv`), so the work is in the
lemmas about that function. `PlacesAre` shows that a strict order on the keys of a finite set
puts each member in a place of its own, which makes a result a sequence of its items, each
once (`ResultIs`). A comparison has one entry for each key of either generation
(`ComparedIs`), and what is left out of its items is equal on both sides
(`ComparisonIsExact`). `AssembledIsVerified` shows that verification accepts what was
assembled: the counts of the classes add up to the coverage of each generation
(`EntriesCount`), and the document of a listed section is listed with it (`NamedIsRelated`).
The last needs that a section's hash and place are a function of its document's text: if a
document stands unchanged in the other generation, then so does each of its sections
(`SameDocument`).

Cycles. `CyclesInv` consists of an invariant of each search. Of Tarjan's walk, `WalkInv` says
that both stacks are in the order in which nodes were numbered (`Numbered`); that a node's
neighbours have been found as far as its entry on the work stack says, and all of them once
it has left it, and that no edge leads from what has left the node stack to what has not
(`Looked`); that on the node stack an earlier node reaches every later one, and every node
reaches one that is still at work and came no later (`Joined`); that the lowlink of a node at work is
the number of one it reaches, and no greater than the number of any stacked node to which an edge
leads that it, or a call that returned to it, has seen (`Lowest`); and that
what has left are whole classes (`Whole`). When a node leaves with its own number as
lowlink, no edge leads from it and what lies above it to what lies below, so that these
nodes are its class. `SearchInv` says of the search for members that what is pending or
visited is reached from the start, that the successors of the start and of every visited
node are visited or pending, and that exactly the turning ones among the starts that are done are
marked. Reachability is a least closed set: that a node does not reach another is shown by
a closed set without it, and an argument along a path is one about a least number, for
which `Smallest` takes the place of induction over data.

Context packets. A breadth-first queue is exact because of its order, and `Selected` says
what that order is worth: distances never fall along the queue nor spread by more than one
(`Queued`); what is included is within the depth (`Included`); and what an expanded document
leads to is included and is met, that is expanded or waiting, one step later (`Followed`).
From these, `FrontExpanded` shows that everything nearer than the whole queue has been
expanded, so that a document is always expanded at its shortest distance, and nothing that
lies within the depth is cut off because it was first met by a longer way. With a stack in
place of the queue `Queued` fails, and `SelectionIsExact` with it (the mutant of the run).
A delta is complete for two reasons. Merging loses no line (`DeliversAll`: parts in the order
of their first lines, of which `Sorted` has all, so that a part either touches the last
range or begins behind it). And a block that is not delivered lies behind the end of the
navigation, in a section of an H2 that has not changed (`LeftOut`, which needs `OneTitle`: a
second H1 behind an H2 belongs to no H2); an equal section holds equal blocks, so it
stands in the generation (`SameSection`). `DeltaInv` has only to keep that the documents and
the generation are documents.

References and plans. The reference definition recurs over the distance and the walk over its
rounds, and `Walking` says what the two have to do with each other after `d` rounds: what is
reached is what the paths of up to `d` edges see, the frontier holds one shortest path to each
address at distance `d` (`Frontier`), for a plan the least one (`LeastFrontier`), and the rows
are those of the distances up to `d`. That a walk along least paths finds least paths is the
point of `PlanOnward`: a path that precedes another still does when both are prolonged
(`BeforeAppend`), so the least path to a new address prolongs a least path to the one before
it, and the other shortest paths, which the walk has dropped, are not missed. Of finitely many
paths there is a least one (`LeastPathExists`), which is where `Catalogued` is needed. A walk
ends where nothing is found (`AtEnd`), and then nothing is found farther on
(`NothingFarther`), so the rounds it did not take would have been empty. The two providers
differ in which edges they give for an address; `ShardsShow` proves that without path
relations they give the same (containment from the sections, dependencies only of
documents), and that the boundaries of what the shards were *asked* are those of what the
Markdown *listed* (`EndFaces`). The reference definition is a recursive function: `RungsAre`
derives its equations from its existence (`LadderExists`), which `LeastIs` proves in place of
induction over data. `PlansAgree` says that the shards' answer is the Markdown's with every
boundary once; the answers themselves are not equal (run `EitherPath`).

A proof has one step per action; the lemmas say which parts of the invariant each class
of action leaves alone.

The runs `Commands` and `Caches` check the properties of several modules under the condition that
their scene was chosen (`RecoveriesHold` is `ReportsTruly` and `ConclusionsHold`); the theorems state them for the module itself and all its constants.

Only model-checked: `AuthorityHolds`, whose two parts are `AppliedAsApproved` and the action of
`PublishedCurrent` and are proved for all instances of `Maintenance`;
`RollbackUndoesOwnWritesOnly` *without* its hypothesis, `UndoesVerifiedWriteOnly`,
`EitherPathAgrees`, `NavigationCarriesTitles` and `InterruptionReaps`, which are false. Liveness under fairness (`CommandsFinish`, `AttemptsResolve`, `ReadsAreServed`)
is out of the prover's reach and stays with TLC, as do the refinement with completed
recovery *and* crashes, where `Orderly` is a real assumption, and induction over data.

## 5. What the model found

Five places where a doc or a comment says more than the code does (`findings` in
`PROJECT.json`):

* a rollback restores without comparing, so bytes an author saved during validation are
  replaced without a copy (`JournalConcurrentEdit`);
* completed recovery accepts rolled-back generations (`JournalStaleUndo`);
* Markdown and shards answer one query differently, in two ways (`EitherPath`): a boundary that
  several links of one section share is printed once for each by the one and once by the other;
  and the shards give every authored dependency the origin `metadata`, where the Markdown
  gives `legacy-metadata` to one authored as a path;
* a delta lists a changed second H1 after the first H2, which is carried neither by the
  navigation nor as a block (`SecondTitle`);
* an interruption of a tool call between the start of the child and the try, or in the handler
  of an earlier one, leaves the child running (`LeftChild`).

Observations on the writing side that contradict no text: a completed recovery that
*dies* between two files leaves a mixture that no command finishes; a write over an
unresolved attempt can make that attempt unrecoverable, or be taken back by its recovery;
a retention cut short dates the half-removed generation anew, so that the next retention
keeps it in place of an older intact one; the undo of a failed completed recovery is not
itself protected; a replica that was clean when a write looked at it is not guarded by its
transaction, so a successful write can leave drift that began in between (what it *does*
write is always the canonical block as it stands, `PublishedCurrent`); the write policy of
a workspace source is read before the manifest is hashed, so `AppliedAsApproved` speaks of
the hashes a command bound; a preview binds the hash of the view and the after hash of a
later reading, so an edit in between gives an approval that the write, which reads again,
can match only if the same edits recur; a recovery that restores a tree which fails
validation exits 1 with the tree restored and the projection not refreshed.

On the reading side: a federated build notices one change of a source while it reads, but
a change that is taken back before the second inventory goes unnoticed, and the documents
of the moment between are then bound to the inventory around it, which is why
`BuildIsSnapshot` has its second disjunct; an ID whose document was deleted is offered
again, since intake keeps no record of past IDs (`architecture.md:90` speaks of silent
reuse; the guard proves an ID *free*, not new); a transitive dependency is ranked by its
least distance, so that `depends_on` beyond the first hop may be listed as `read` where
`agent-contract.md:350` describes the direct case.

Where the checks are weaker than their names. `AuthorityBinding` ties the pin of a command to
the authority its generation was admitted under; it would not notice if one of the looks at the
authority *during* validation were dropped, and of these `AuthorityHolds` sees only the last one
before publication. `NothingLost` leaves out what an author writes under the lock, which is the
subject of `RollbackUndoesOwnWritesOnly`.

## 6. Not modelled

* `config.py`, `profiles.py`, `metadata.py`, `inventory.py`, `strict_json.py`: text
  processing without state, whose correctness is a matter of formats.
* `program_plan.py`: a pure evaluation of one document; its cycle check is the
  acyclicity that `Cycles` states for the dependency graph.
* `readiness.py`, `health.py`, `delivery.py`, `promotion.py`: counts and tables over
  catalog views, with one reading and no state.
* Of the journal: `copy_generation_to_cloud`, which verifies and copies an immutable
  generation to a place no other command reads; schema-1 generations, line-range
  admission of edits, patch files, hash collisions, `fsync` ordering below the atomic
  rename.
* Of the projection: the byte layout of shards. Of the federation: the content of the
  merged catalog beside the sources it was read from.
* Of the MCP adapter: the mapping of tools to arguments, and the JSON framing of the
  session, which handles one request after the other.
* Of provider snapshots: schemas, visibility classes and identity pins.
* Formatting, wording and exit codes of all commands, except where a property is about
  what is printed.

What would come next: the replica plan of `Maintenance` with two replicas and two sessions
at once, which is beyond the run's time; and a proof of the refinement with completed recovery
and crashes from something weaker than `Orderly`.
