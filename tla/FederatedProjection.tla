------------------------ MODULE FederatedProjection ------------------------
(***************************************************************************)
(* The cache of a federated workspace                                      *)
(* (src/src/docsystem/federated_projection.py): `federation index --write` *)
(* builds a generation from all registered sources, publishes it in a      *)
(* content-addressed object store and collects garbage; federated reads    *)
(* and `federation changes` verify it against the sources, without a lock. *)
(*                                                                         *)
(* A source is one value, its Markdown and configuration together; an      *)
(* object and a generation are named by their content, as their hashes     *)
(* name them. A damaged object is not told from a missing one: every       *)
(* operation treats the two alike. So is a generation directory without a  *)
(* manifest and one whose manifest is damaged (`torn`).                    *)
(***************************************************************************)
EXTENDS Naturals, Sequences, FiniteSets, SequencesExt

CONSTANTS
  Sources,    \* source names, as numbers in their sorted order
  Contents,   \* what a source may hold
  Unfit,      \* contents with which no federation can be built
  Manifests,  \* workspace manifests: the visibility of each source or Absent
  Absent,     \* of a source that a manifest does not register
  Nothing,    \* no value
  Unreadable, \* a pointer file that cannot be parsed
  Writers, Readers,
  Keep,       \* DEFAULT_KEEP_GENERATIONS
  MaxEdits, MaxManifests, MaxCrashes, MaxDamage,
  MaxEvents   \* bounds on what disturbs the commands, each kind and in all

ASSUME SourcesAssumption == IsFiniteSet(Sources) /\ Sources \subseteq Nat \ {0}
ASSUME ContentsAssumption == Unfit \subseteq Contents /\ Nothing \notin Contents
ASSUME KeepAssumption == Keep \in 1 .. 20
ASSUME BudgetAssumption ==
  /\ MaxEdits \in Nat /\ MaxManifests \in Nat /\ MaxCrashes \in Nat
  /\ MaxDamage \in Nat /\ MaxEvents \in Nat

VARIABLES
  source,    \* source[s]: what stands in source s
  manifest,  \* workspace.toml
  objects,   \* the intact files below objects/
  recent,    \* the directories of generations/, oldest modification first
  torn,      \* those of them without an intact manifest.json
  pointer,   \* current.json
  writer,    \* writer[w]: what the index command w is doing
  reader,    \* reader[r]: what the reading command r is doing
  damaged,   \* history: damage that no later, undisturbed write has repaired
  budget     \* what is left of the bounds on the environment

store == <<objects, recent, torn, pointer, damaged>>
world == <<source, manifest>>
vars == <<source, manifest, objects, recent, torn, pointer, writer, reader,
          damaged, budget>>

Views == [Sources -> Contents \cup {Nothing}]
Generations == [hash : Manifests, entry : Manifests, inv : Views, docs : Views]
Members(m) == {s \in Sources : m[s] # Absent}
\* Per-source objects carry the state of the source and its documents; the
\* graph object is a function of all documents.
Graph(g) == <<0, g.docs>>
SourceObject(g, s) == <<s, g.entry[s], g.inv[s], g.docs[s]>>
ObjectsOf(g) == {SourceObject(g, s) : s \in Members(g.entry)} \cup {Graph(g)}
Present == ToSet(recent)
Intact(g) == g \in Present \ torn
Complete(g) == Intact(g) /\ ObjectsOf(g) \subseteq objects
\* Every registered source, and no other, has its inventory and its documents.
Whole(g) == \A s \in Sources :
  /\ g.inv[s] = Nothing <=> g.entry[s] = Absent
  /\ g.docs[s] = Nothing <=> g.entry[s] = Absent

Blank == [s \in Sources |-> Nothing]
WriterIdle ==
  [pc |-> "idle", ws |-> Nothing, hash |-> Nothing, inv |-> Blank, docs |-> Blank,
   todo |-> {}, refs |-> {}, moved |-> [s \in Sources |-> 0], calm |-> TRUE]
ReaderIdle ==
  [pc |-> "idle", ws |-> Nothing, gen |-> Nothing, todo |-> {}, diff |-> {},
   seen |-> [s \in Sources |-> {}]]

WriterPhases == {"idle", "hash", "before", "catalog", "rehash", "after", "object",
                 "publish", "point", "list", "drop", "refs", "sweep"}
ReaderPhases == {"idle", "pointer", "hash", "states", "objects", "compare",
                 "served", "compared", "fallback"}

TypeOK ==
  /\ source \in [Sources -> Contents] /\ manifest \in Manifests
  /\ torn \subseteq Present /\ Present \subseteq Generations
  /\ pointer \in Generations \cup {Nothing, Unreadable}
  /\ \A w \in Writers : writer[w].pc \in WriterPhases
  /\ \A r \in Readers : reader[r].pc \in ReaderPhases
  /\ \A g \in Present : Whole(g)
  /\ damaged \in BOOLEAN

Init ==
  /\ source \in [Sources -> Contents \ Unfit]
  /\ manifest \in Manifests
  /\ objects = {} /\ recent = <<>> /\ torn = {} /\ pointer = Nothing
  /\ writer = [w \in Writers |-> WriterIdle]
  /\ reader = [r \in Readers |-> ReaderIdle]
  /\ damaged = FALSE
  /\ budget = [edit |-> MaxEdits, manifest |-> MaxManifests,
               crash |-> MaxCrashes, damage |-> MaxDamage, all |-> MaxEvents]

-----------------------------------------------------------------------------
(* Helpers *)

Spend(k) ==
  /\ budget[k] > 0 /\ budget.all > 0
  /\ budget' = [budget EXCEPT ![k] = @ - 1, !.all = @ - 1]
First(S) == CHOOSE x \in S : \A y \in S : x <= y
Without(g) ==
  IF g \in Present
  THEN RemoveAt(recent, CHOOSE i \in DOMAIN recent : recent[i] = g) ELSE recent
\* A directory that is created or changed becomes the most recent one.
Touched(g) == Append(Without(g), g)
Becomes(w, r) == writer' = [writer EXCEPT ![w] = r]
Answers(r, a) == reader' = [reader EXCEPT ![r] = a]
Built(w) == [hash |-> writer[w].hash, entry |-> writer[w].ws,
             inv |-> writer[w].inv, docs |-> writer[w].docs]
\* The command ends, with success or with an error.
Ended(w) == Becomes(w, WriterIdle)
\* A reader between two commands: it has been answered, or fell back to Markdown.
AtRest == {"idle", "served", "compared", "fallback"}
FallsBack(r) == Answers(r, [ReaderIdle EXCEPT !.pc = "fallback"])
\* Readers and writers whose histories an author's change must reach.
Saw(s, b) == [r \in Readers |->
               IF reader[r].pc \in AtRest THEN reader[r]
               ELSE [reader[r] EXCEPT !.seen[s] = @ \cup {b}]]
Disturbed(s) == [w \in Writers |->
  IF writer[w].pc \in {"hash", "before", "catalog", "rehash", "after"}
  THEN [writer[w] EXCEPT !.moved[s] = IF @ < 2 THEN @ + 1 ELSE 2]
  ELSE writer[w]]
Restless == [w \in Writers |-> IF writer[w].pc = "idle" THEN writer[w]
                               ELSE [writer[w] EXCEPT !.calm = FALSE]]

-----------------------------------------------------------------------------
(* federation index --write *)

\* resolve_workspace: the manifest is parsed once, and hashed later.
WStart(w) ==
  /\ writer[w].pc = "idle"
  /\ writer' = [v \in Writers |->
       IF v = w
       THEN [WriterIdle EXCEPT !.pc = "hash", !.ws = manifest,
               !.calm = \A u \in Writers \ {w} : writer[u].pc = "idle"]
       ELSE Restless[v]]
  /\ UNCHANGED <<world, store, reader, budget>>

WHash(w) ==
  /\ writer[w].pc = "hash"
  /\ IF Members(writer[w].ws) = {} THEN Ended(w)
     ELSE Becomes(w, [writer[w] EXCEPT !.pc = "before", !.hash = manifest,
                                       !.todo = Members(writer[w].ws)])
  /\ UNCHANGED <<world, store, reader, budget>>

\* One source after another: its state, then (all sources) its catalog.
WBefore(w) ==
  LET s == First(writer[w].todo) rest == writer[w].todo \ {s} IN
  /\ writer[w].pc = "before"
  /\ Becomes(w, [writer[w] EXCEPT
       !.inv[s] = source[s],
       !.pc = IF rest = {} THEN "catalog" ELSE "before",
       !.todo = IF rest = {} THEN Members(writer[w].ws) ELSE rest])
  /\ UNCHANGED <<world, store, reader, budget>>

WCatalog(w) ==
  LET s == First(writer[w].todo) rest == writer[w].todo \ {s} IN
  /\ writer[w].pc = "catalog"
  /\ IF source[s] \in Unfit THEN Ended(w)
     ELSE Becomes(w, [writer[w] EXCEPT
            !.docs[s] = source[s],
            !.pc = IF rest = {} THEN "rehash" ELSE "catalog",
            !.todo = IF rest = {} THEN Members(writer[w].ws) ELSE rest])
  /\ UNCHANGED <<world, store, reader, budget>>

\* The second reading must equal the first: the sources did not change.
WRehash(w) ==
  /\ writer[w].pc = "rehash"
  /\ IF manifest # writer[w].hash THEN Ended(w)
     ELSE Becomes(w, [writer[w] EXCEPT !.pc = "after"])
  /\ UNCHANGED <<world, store, reader, budget>>

WAfter_NotCompared(w) ==
  /\ writer[w].pc = "after"
  /\ Becomes(w, [writer[w] EXCEPT !.pc = "object", !.todo = ObjectsOf(Built(w))])
  /\ UNCHANGED <<world, store, reader, budget>>

WAfter(w) ==
  LET s == First(writer[w].todo) rest == writer[w].todo \ {s} IN
  /\ writer[w].pc = "after"
  /\ IF source[s] # writer[w].inv[s] THEN Ended(w)
     ELSE Becomes(w, [writer[w] EXCEPT
            !.pc = IF rest = {} THEN "object" ELSE "after",
            !.todo = IF rest = {} THEN ObjectsOf(Built(w)) ELSE rest])
  /\ UNCHANGED <<world, store, reader, budget>>

\* _write_object: in the order of their hashes, which is any order; an intact
\* object stays as it is.
WObject(w) ==
  \E o \in writer[w].todo :
    LET rest == writer[w].todo \ {o} IN
    /\ writer[w].pc = "object"
    /\ objects' = objects \cup {o}
    /\ Becomes(w, [writer[w] EXCEPT !.todo = rest,
                     !.pc = IF rest = {} THEN "publish" ELSE "object"])
    /\ UNCHANGED <<world, recent, torn, pointer, damaged, reader, budget>>

\* A new directory is renamed into place, an invalid manifest is replaced, a
\* valid one is kept with its modification time.
WPublish(w) ==
  LET g == Built(w) IN
  /\ writer[w].pc = "publish"
  /\ IF Intact(g) THEN UNCHANGED <<recent, torn>>
     ELSE recent' = Touched(g) /\ torn' = torn \ {g}
  /\ Becomes(w, [writer[w] EXCEPT !.pc = "point"])
  /\ UNCHANGED <<world, objects, pointer, damaged, reader, budget>>

WPoint(w) ==
  /\ writer[w].pc = "point"
  /\ pointer' = Built(w)
  /\ damaged' = (damaged /\ ~writer[w].calm)
  /\ Becomes(w, [WriterIdle EXCEPT !.pc = "list"])
  /\ UNCHANGED <<world, objects, recent, torn, reader, budget>>

-----------------------------------------------------------------------------
(* _garbage_collect *)

\* The selected generation and then the most recent others are kept.
Retained ==
  LET others == Without(pointer)
      kept == SubSeq(others, Len(others) - Keep + 2, Len(others)) IN
  IF Len(others) < Keep THEN Present ELSE {pointer} \cup ToSet(kept)

\* A pointer that cannot be read, or selects nothing, ends the collection.
WList(w) ==
  /\ writer[w].pc = "list"
  /\ IF pointer \notin Present THEN Ended(w)
     ELSE Becomes(w, [writer[w] EXCEPT !.pc = "drop", !.refs = Retained,
                        !.todo = Present \ Retained])
  /\ UNCHANGED <<world, store, reader, budget>>

WDrop(w) ==
  /\ writer[w].pc = "drop"
  /\ \/ \E g \in writer[w].todo :
          /\ recent' = Without(g)
          /\ torn' = torn \ {g}
          /\ Becomes(w, [writer[w] EXCEPT !.todo = @ \ {g}])
     \/ /\ writer[w].todo = {}
        /\ Becomes(w, [writer[w] EXCEPT !.pc = "refs"])
        /\ UNCHANGED <<recent, torn>>
  /\ UNCHANGED <<world, objects, pointer, damaged, reader, budget>>

\* A retained manifest that cannot be read ends the collection.
WRefs_NoGraph(w) ==
  LET refs == UNION {ObjectsOf(g) \ {Graph(g)} : g \in writer[w].refs} IN
  /\ writer[w].pc = "refs"
  /\ Becomes(w, [writer[w] EXCEPT !.pc = "sweep", !.refs = refs, !.todo = objects \ refs])
  /\ UNCHANGED <<world, store, reader, budget>>

WRefs(w) ==
  LET refs == UNION {ObjectsOf(g) : g \in writer[w].refs} IN
  /\ writer[w].pc = "refs"
  /\ IF \E g \in writer[w].refs : ~Intact(g) THEN Ended(w)
     ELSE Becomes(w, [writer[w] EXCEPT !.pc = "sweep", !.refs = refs,
                        !.todo = objects \ refs])
  /\ UNCHANGED <<world, store, reader, budget>>

\* The directory listing goes on while objects are removed and added; an
\* object that another collector removed first raises an error.
WSweep(w) ==
  /\ writer[w].pc = "sweep"
  /\ \/ \E o \in objects \ writer[w].refs :
          /\ objects' = objects \ {o}
          /\ Becomes(w, [writer[w] EXCEPT !.todo = @ \ {o}])
     \/ /\ writer[w].todo \cap objects = {}
        /\ Ended(w) /\ UNCHANGED objects
  /\ UNCHANGED <<world, recent, torn, pointer, damaged, reader, budget>>

-----------------------------------------------------------------------------
(* Reads: load_verified_federated_projection, evaluate_federated_changes *)

RStart(r) ==
  /\ reader[r].pc \in AtRest
  /\ Answers(r, [ReaderIdle EXCEPT !.pc = "pointer", !.ws = manifest,
                   !.seen = [s \in Sources |-> {source[s]}]])
  /\ UNCHANGED <<world, store, writer, budget>>

\* _current_manifest; the two commands part here.
RPointer(r) ==
  /\ reader[r].pc = "pointer"
  /\ IF pointer \in Generations /\ Intact(pointer)
     THEN \E next \in {"hash", "compare"} :
            Answers(r, [reader[r] EXCEPT !.pc = next, !.gen = pointer,
              !.todo = IF next = "hash" THEN {}
                       ELSE Members(reader[r].ws) \cup Members(pointer.entry)])
     ELSE FallsBack(r)
  /\ UNCHANGED <<world, store, writer, budget>>

\* _freshness_reason: the manifest file, the membership, then every source.
RHash_AnyMembership(r) ==
  /\ reader[r].pc = "hash"
  /\ IF reader[r].gen.hash = manifest
     THEN Answers(r, [reader[r] EXCEPT !.pc = "states", !.todo = Members(reader[r].ws)])
     ELSE FallsBack(r)
  /\ UNCHANGED <<world, store, writer, budget>>

RHash(r) ==
  /\ reader[r].pc = "hash"
  /\ IF /\ reader[r].gen.hash = manifest
        /\ Members(reader[r].gen.entry) = Members(reader[r].ws)
     THEN Answers(r, [reader[r] EXCEPT !.pc = "states", !.todo = Members(reader[r].ws)])
     ELSE FallsBack(r)
  /\ UNCHANGED <<world, store, writer, budget>>

Unchanged(r, s) ==
  /\ reader[r].gen.entry[s] = reader[r].ws[s]
  /\ reader[r].gen.inv[s] = source[s]

RState(r) ==
  LET s == First(reader[r].todo) rest == reader[r].todo \ {s} IN
  /\ reader[r].pc = "states"
  /\ IF Unchanged(r, s)
     THEN Answers(r, [reader[r] EXCEPT
            !.pc = IF rest = {} THEN "objects" ELSE "states",
            !.todo = IF rest = {} THEN Members(reader[r].ws) \cup {0} ELSE rest])
     ELSE FallsBack(r)
  /\ UNCHANGED <<world, store, writer, budget>>

\* The source objects in the order of their names, the graph at the end.
RObject(r) ==
  LET named == reader[r].todo \ {0}
      s == IF named = {} THEN 0 ELSE First(named)
      o == IF s = 0 THEN Graph(reader[r].gen) ELSE SourceObject(reader[r].gen, s) IN
  /\ reader[r].pc = "objects"
  /\ IF o \notin objects THEN FallsBack(r)
     ELSE IF s = 0 THEN Answers(r, [ReaderIdle EXCEPT !.pc = "served"])
     ELSE Answers(r, [reader[r] EXCEPT !.todo = @ \ {s}])
  /\ UNCHANGED <<world, store, writer, budget>>

\* `federation changes` compares source by source and never looks at the
\* manifest file; a source that cannot be loaded makes it unavailable.
RCompare(r) ==
  LET s == First(reader[r].todo) IN
  /\ reader[r].pc = "compare" /\ reader[r].todo # {}
  /\ \/ Answers(r, [reader[r] EXCEPT !.todo = @ \ {s},
                       !.diff = IF Unchanged(r, s) THEN @ ELSE @ \cup {s}])
     \/ s \in Members(reader[r].ws) /\ source[s] \in Unfit /\ FallsBack(r)
  /\ UNCHANGED <<world, store, writer, budget>>

RReport(r) ==
  /\ reader[r].pc = "compare" /\ reader[r].todo = {}
  /\ Answers(r, [ReaderIdle EXCEPT !.pc = "compared"])
  /\ UNCHANGED <<world, store, writer, budget>>

-----------------------------------------------------------------------------
(* The environment *)

Edit ==
  \E s \in Sources, b \in Contents :
    /\ b # source[s] /\ Spend("edit")
    /\ source' = [source EXCEPT ![s] = b]
    /\ reader' = Saw(s, b) /\ writer' = Disturbed(s)
    /\ UNCHANGED <<manifest, store>>

Register ==
  /\ Spend("manifest") /\ manifest' \in Manifests \ {manifest}
  /\ UNCHANGED <<source, store, writer, reader>>

\* A process dies, or gives up with an I/O error. A removal cut short leaves
\* a directory without manifest and with a new modification time.
Crash(w) ==
  /\ writer[w].pc # "idle" /\ Spend("crash") /\ Ended(w)
  /\ \/ UNCHANGED <<recent, torn>>
     \/ /\ writer[w].pc = "drop"
        /\ \E g \in writer[w].todo \cap Present :
             recent' = Touched(g) /\ torn' = torn \cup {g}
  /\ UNCHANGED <<world, objects, pointer, damaged, reader>>

Damage ==
  /\ Spend("damage")
  /\ damaged' = TRUE /\ writer' = Restless
  /\ \/ \E o \in objects : objects' = objects \ {o} /\ UNCHANGED <<torn, pointer>>
     \/ \E g \in Present \ torn : torn' = torn \cup {g} /\ UNCHANGED <<objects, pointer>>
     \/ pointer # Unreadable /\ pointer' = Unreadable /\ UNCHANGED <<objects, torn>>
  /\ UNCHANGED <<world, recent, reader>>

Next ==
  \/ \E w \in Writers :
       \/ WStart(w) \/ WHash(w) \/ WBefore(w) \/ WCatalog(w) \/ WRehash(w) \/ WAfter(w)
       \/ WObject(w) \/ WPublish(w) \/ WPoint(w)
       \/ WList(w) \/ WDrop(w) \/ WRefs(w) \/ WSweep(w) \/ Crash(w)
  \/ \E r \in Readers :
       \/ RStart(r) \/ RPointer(r) \/ RHash(r) \/ RState(r) \/ RObject(r)
       \/ RCompare(r) \/ RReport(r)
  \/ Edit \/ Register \/ Damage

Spec == Init /\ [][Next]_vars

-----------------------------------------------------------------------------
(* Properties *)

Served(r) == reader[r].pc = "objects" /\ reader'[r].pc = "served"
Compared(r) == reader[r].pc = "compare" /\ reader'[r].pc = "compared"

\* What a federated read serves, and every source that `federation changes`
\* calls unchanged, was verified against what stood in each registered source
\* at a moment of that command, under the registration it loaded; and a source
\* is reported as changed only if it really differed from the generation.
AnswersAreFresh ==
  [][\A r \in Readers :
       LET g == reader[r].gen ws == reader[r].ws IN
       /\ Served(r) =>
            g.entry = ws /\ \A s \in Members(ws) : g.inv[s] \in reader[r].seen[s]
       /\ Compared(r) =>
            \A s \in Members(ws) \cup Members(g.entry) :
              IF s \in reader[r].diff
              THEN ~(g.entry[s] = ws[s] /\ reader[r].seen[s] = {g.inv[s]})
              ELSE g.entry[s] = ws[s] /\ g.inv[s] \in reader[r].seen[s]]_vars

\* A build publishes documents that differ from the inventory it binds them
\* to only if an author changed that source twice while it was read: one
\* change is always noticed by the second reading.
BuildIsSnapshot ==
  [][\A w \in Writers : (writer[w].pc = "point" /\ pointer' = Built(w)) =>
       \A s \in Members(writer[w].ws) :
         writer[w].docs[s] = writer[w].inv[s] \/ writer[w].moved[s] = 2]_vars

\* While one index command works at a time, whatever it dies of or collects: as
\* long as no file was damaged behind the last undisturbed write, the pointer
\* selects a generation all of whose objects are there, so that reads of
\* unchanged sources are served.
PointerSelectsComplete ==
  ~damaged /\ pointer # Nothing => Complete(pointer)

=============================================================================
