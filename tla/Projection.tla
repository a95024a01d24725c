----------------------------- MODULE Projection -----------------------------
(***************************************************************************)
(* The derived projection cache (src/src/docsystem/projection.py): writers *)
(* that run `index --write`, readers that serve from a generation or fall  *)
(* back to Markdown, and authors, crashes, I/O faults and damage between   *)
(* any two of their file operations.                                       *)
(*                                                                         *)
(* A generation id is a hash of everything that shaped the generation; it  *)
(* is modelled by that content itself. A file of a generation is there as  *)
(* it was written, there with other content, or gone.                      *)
(***************************************************************************)
EXTENDS Naturals, FiniteSets, Sequences, SequencesExt

CONSTANTS
  Docs,       \* documents, numbered in the sorted order of their paths
  Contents,   \* what a document may contain
  Faulty,     \* contents for which validate_catalog reports errors
  Configs,    \* configuration fingerprints
  Missing,    \* no such source file
  Manifest,   \* the part of a generation that is not a document shard
  NoGen,      \* no pointer file
  BadPointer, \* an unreadable pointer file
  Writers, Readers,
  Kinds,      \* the kinds of read that are run: a subset of AllKinds
  Keep,       \* projection.keep_generations
  MaxEdits, MaxConfigs, MaxCrashes, MaxFaults, MaxDamage,
  MaxEvents   \* bounds on what disturbs the cache, each kind and in all

AllKinds == {"live", "targeted", "since", "pinned"}
Bytes == Contents \cup {Missing}
Gens == [view : [Docs -> Bytes], cfg : Configs]
Parts == Docs \cup {Manifest}

ASSUME DocsAssumption == Docs \subseteq Nat /\ Manifest \notin Docs
ASSUME MissingAssumption == Missing \notin Contents
ASSUME FaultyAssumption == Faulty \subseteq Contents
ASSUME PointerAssumption ==
  NoGen \notin Gens /\ BadPointer \notin Gens /\ NoGen # BadPointer
ASSUME BoundAssumption ==
  /\ Kinds \subseteq AllKinds /\ Keep \in Nat \ {0}
  /\ MaxEdits \in Nat /\ MaxConfigs \in Nat /\ MaxCrashes \in Nat
  /\ MaxFaults \in Nat /\ MaxDamage \in Nat /\ MaxEvents \in Nat

VARIABLES
  source,   \* source[d]: current Markdown of document d
  config,   \* current configuration fingerprint
  dir,      \* dir[g]: the directory generations/<g>
  recent,   \* the directories in the order of their modification times
  pointer,  \* current.json
  writer,   \* writer[w]: what writer w is doing
  reader,   \* reader[r]: what reader r is doing
  left      \* what is left of the bounds on the environment

vars == <<source, config, dir, recent, pointer, writer, reader, left>>

Whole(g) == {d \in Docs : g.view[d] # Missing} \cup {Manifest}
NoDir == [made |-> FALSE, file |-> [x \in Parts |-> "gone"]]
Dir == [made : BOOLEAN, file : [Parts -> {"ok", "bad", "gone"}]]
Written(g) ==
  [made |-> TRUE,
   file |-> [x \in Parts |-> IF x \in Whole(g) THEN "ok" ELSE "gone"]]
\* The directories that are ordered by time: generations, and a writer's
\* staging directory and quarantine, which keep their time when renamed.
Dated == ({"home"} \X Gens) \cup ({"staging", "quarantine"} \X Writers)

WriterPhases == {"idle", "scan", "probe", "aside", "stage", "publish", "point",
                 "clean", "prune", "status"}
Nobody == [x \in Docs |-> Missing]
WriterIdle == [pc |-> "idle", cfg |-> "none", view |-> Nobody, todo |-> {},
               quar |-> NoDir, victims |-> {}, calm |-> TRUE]
Writer == [pc : WriterPhases, cfg : Configs \cup {"none"},
           view : [Docs -> Bytes],
           todo : SUBSET Docs,      \* documents still to be read
           quar : Dir,              \* the generation moved aside, if any
           victims : SUBSET Gens,   \* generations still to be removed
           calm : BOOLEAN]          \* history: no damage since the start

ReaderPhases == {"idle", "pointer", "manifest", "list", "sources", "shards",
                 "served", "fallback"}
ReaderIdle == [pc |-> "idle", kind |-> "live", cfg |-> "none", gen |-> NoGen,
               todo |-> {}, got |-> [d \in Docs |-> "gone"],
               seen |-> [d \in Docs |-> {}], calm |-> FALSE]
Reader == [pc : ReaderPhases, kind : AllKinds, cfg : Configs \cup {"none"},
           gen : Gens \cup {NoGen},
           todo : SUBSET Docs,                  \* files still to be read
           got : [Docs -> {"ok", "bad", "gone"}], \* the shards it returns
           seen : [Docs -> SUBSET Bytes],       \* history: sources during the read
           calm : BOOLEAN]                      \* history: nothing moved

Events == {"edit", "config", "crash", "fault", "damage", "all"}

TypeOK ==
  /\ source \in [Docs -> Bytes]
  /\ config \in Configs
  /\ dir \in [Gens -> Dir]
  /\ recent \in Seq(Dated)
  /\ pointer \in Gens \cup {NoGen, BadPointer}
  /\ writer \in [Writers -> Writer]
  /\ reader \in [Readers -> Reader]
  /\ left \in [Events -> Nat]

Init ==
  /\ source \in [Docs -> Bytes]
  /\ config \in Configs
  /\ dir = [g \in Gens |-> NoDir]
  /\ recent = <<>>
  /\ pointer = NoGen
  /\ writer = [w \in Writers |-> WriterIdle]
  /\ reader = [r \in Readers |-> ReaderIdle]
  /\ left = [k \in Events |->
              CASE k = "edit" -> MaxEdits [] k = "config" -> MaxConfigs
                [] k = "crash" -> MaxCrashes [] k = "fault" -> MaxFaults
                [] k = "damage" -> MaxDamage
                [] k = "all" -> MaxEvents]

-----------------------------------------------------------------------------
(* Helpers *)

world == <<source, config>>
cache == <<dir, recent, pointer>>

Spend(k) ==
  /\ left[k] > 0 /\ left["all"] > 0
  /\ left' = [left EXCEPT ![k] = @ - 1, !["all"] = @ - 1]
Least(S, x) == x \in S /\ \A y \in S : x <= y

\* _verify_generation_directory: the manifest and every shard as expected
Intact(g) == dir[g].made /\ \A x \in Whole(g) : dir[g].file[x] = "ok"
Made == {g \in Gens : dir[g].made}
\* modification times: a change of a directory, a removal, a rename
Without(seq, x) ==
  IF x \in ToSet(seq)
  THEN RemoveAt(seq, CHOOSE i \in DOMAIN seq : seq[i] = x) ELSE seq
Drop(x) == Without(recent, x)
Touch(x) == Append(Drop(x), x)
Rename(x, y) ==
  LET others == Drop(y) IN
  [i \in 1..Len(others) |-> IF others[i] = x THEN y ELSE others[i]]
Home(g) == <<"home", g>>
Newer(h, S) == {k \in S : \E i, j \in 1..Len(recent) :
                  i < j /\ recent[i] = Home(h) /\ recent[j] = Home(k)}

\* the id the projection of writer w hashes to
Target(w) == [view |-> writer[w].view, cfg |-> writer[w].cfg]

WAt(w, phase) == writer[w].pc = phase
WGoto(w, phase) == writer' = [writer EXCEPT ![w].pc = phase]
\* The directories of a writer that has ended count no more.
Left(seq, w) == Without(Without(seq, <<"staging", w>>), <<"quarantine", w>>)
WEnd(w) == writer' = [writer EXCEPT ![w] = WriterIdle]
WLeave(w) == WEnd(w) /\ recent' = Left(recent, w)
RAt(r, phase) == reader[r].pc = phase
RGoto(r, phase) == reader' = [reader EXCEPT ![r].pc = phase]

\* Readers notice that the pointer has moved, or the sources or the generation
\* it selects.
Disturb(moved) ==
  reader' = [r \in Readers |->
              [reader[r] EXCEPT !.calm = @ /\ ~moved]]

-----------------------------------------------------------------------------
(* Writers: index --write *)

\* load_config, then the enumeration of build_catalog
WStart(w) ==
  /\ WAt(w, "idle")
  /\ writer' = [writer EXCEPT ![w] =
       [WriterIdle EXCEPT !.pc = "scan", !.cfg = config,
                          !.todo = {d \in Docs : source[d] # Missing}]]
  /\ UNCHANGED <<world, cache, reader, left>>

\* Documents are read one after another; one that is gone by now is skipped.
\* A catalog with errors is not projected.
Scan(w) ==
  /\ WAt(w, "scan")
  /\ \/ /\ writer[w].todo = {}
        /\ IF \E d \in Docs : writer[w].view[d] \in Faulty
           THEN WEnd(w) ELSE WGoto(w, "probe")
     \/ \E d \in Docs :
          /\ Least(writer[w].todo, d)
          /\ writer' = [writer EXCEPT ![w].view[d] = source[d],
                                      ![w].todo = @ \ {d}]
  /\ UNCHANGED <<world, cache, reader, left>>

\* Is the content address taken, and by an intact generation?
Probe_TrustsName(w) ==
  /\ WAt(w, "probe")
  /\ WGoto(w, IF dir[Target(w)].made THEN "point" ELSE "stage")
  /\ UNCHANGED <<world, cache, reader, left>>
Probe(w) ==
  /\ WAt(w, "probe")
  /\ WGoto(w, IF Intact(Target(w)) THEN "point"
              ELSE IF dir[Target(w)].made THEN "aside" ELSE "stage")
  /\ UNCHANGED <<world, cache, reader, left>>

\* generation_dir.replace(quarantine): the whole directory is moved aside
Aside(w) ==
  LET g == Target(w) IN
  /\ WAt(w, "aside")
  /\ \/ /\ \/ Spend("fault")
           \/ ~dir[g].made /\ UNCHANGED left
        /\ WLeave(w)
        /\ UNCHANGED dir
     \/ /\ dir[g].made
        /\ writer' = [writer EXCEPT ![w].pc = "stage", ![w].quar = dir[g]]
        /\ dir' = [dir EXCEPT ![g] = NoDir]
        /\ recent' = Rename(Home(g), <<"quarantine", w>>)
        /\ UNCHANGED left
  /\ UNCHANGED <<world, pointer, reader>>

\* The except branch: the quarantined directory goes back if its place is free.
PutBack(w) ==
  LET g == Target(w) IN
  /\ WEnd(w)
  /\ IF writer[w].quar.made /\ ~dir[g].made
     THEN /\ dir' = [dir EXCEPT ![g] = writer[w].quar]
          /\ recent' = Left(Rename(<<"quarantine", w>>, Home(g)), w)
     ELSE recent' = Left(recent, w) /\ UNCHANGED dir

\* All shards and the manifest are written to a private directory and verified.
\* A failure to create that directory does not reach the except branch.
WStage(w) ==
  /\ WAt(w, "stage")
  /\ \/ Spend("fault") /\ PutBack(w)
     \/ Spend("fault") /\ WLeave(w) /\ UNCHANGED dir
     \/ /\ recent' = Touch(<<"staging", w>>)
        /\ WGoto(w, "publish")
        /\ UNCHANGED <<dir, left>>
  /\ UNCHANGED <<world, pointer, reader>>

\* staging.replace(generation_dir): fails on a directory that is not empty
Publish(w) ==
  LET g == Target(w)
      taken == dir[g].made /\ \E x \in Parts : dir[g].file[x] # "gone"
  IN
  /\ WAt(w, "publish")
  /\ \/ /\ \/ Spend("fault")
           \/ taken /\ UNCHANGED left
        /\ PutBack(w)
     \/ /\ ~taken
        /\ dir' = [dir EXCEPT ![g] = Written(g)]
        /\ recent' = Rename(<<"staging", w>>, Home(g))
        /\ WGoto(w, "point")
        /\ UNCHANGED left
  /\ UNCHANGED <<world, pointer, reader>>

\* current.json is replaced atomically, after the generation is in place.
Point(w) ==
  /\ WAt(w, "point")
  /\ \/ Spend("fault") /\ WLeave(w) /\ UNCHANGED <<pointer, reader>>
     \/ /\ pointer' = Target(w)
        /\ Disturb(pointer # Target(w))
        /\ WGoto(w, "clean")
        /\ UNCHANGED <<recent, left>>
  /\ UNCHANGED <<world, dir>>

\* The quarantine is dropped and the generations to remove are listed: all but
\* this one and the Keep - 1 others that were modified last.
Obsolete_ByTime(g) ==
  {h \in Made : Cardinality(Newer(h, Made \ {g})) >= Keep - 1}
Obsolete_OneTooMany(g) ==
  {h \in Made \ {g} : Cardinality(Newer(h, Made \ {g})) + 1 >= Keep - 1}
Obsolete(g) ==
  {h \in Made \ {g} : Cardinality(Newer(h, Made \ {g})) >= Keep - 1}
Clean(w) ==
  /\ WAt(w, "clean")
  /\ \/ Spend("fault") /\ WLeave(w)
     \/ /\ writer' = [writer EXCEPT ![w].pc = "prune", ![w].quar = NoDir,
                                    ![w].victims = Obsolete(Target(w))]
        /\ recent' = Left(recent, w)
        /\ UNCHANGED left
  /\ UNCHANGED <<world, dir, pointer, reader>>

\* shutil.rmtree removes file after file, then the directory. Removing an entry
\* of the directory itself - the manifest, or the last shard - dates it anew.
Prune(w) ==
  LET there(h) == {x \in Parts : dir[h].file[x] # "gone"} IN
  /\ WAt(w, "prune")
  /\ \/ /\ writer[w].victims = {}
        /\ WGoto(w, "status")
        /\ UNCHANGED <<dir, recent, left>>
     \/ /\ writer[w].victims # {}
        /\ Spend("fault")
        /\ WEnd(w)
        /\ UNCHANGED <<dir, recent>>
     \/ \E h \in writer[w].victims :
          \/ \E x \in there(h) :
               /\ dir' = [dir EXCEPT ![h].file[x] = "gone"]
               /\ recent' = IF x = Manifest \/ there(h) \ {Manifest} = {x}
                            THEN Touch(Home(h)) ELSE recent
               /\ UNCHANGED <<writer, left>>
          \/ /\ there(h) = {}
             /\ dir' = [dir EXCEPT ![h] = NoDir]
             /\ recent' = Drop(Home(h))
             /\ writer' = [writer EXCEPT ![w].victims = @ \ {h}]
             /\ UNCHANGED left
  /\ UNCHANGED <<world, pointer, reader>>

\* index_projection checks the result with projection_status and reports it.
Status(w) ==
  /\ WAt(w, "status")
  /\ WEnd(w)
  /\ UNCHANGED <<world, cache, reader, left>>

-----------------------------------------------------------------------------
(* Readers *)

\* load_config; a live read then looks for the pointer, a selected read for
\* the retained generation that its selector names.
ROpen(r) ==
  /\ RAt(r, "idle")
  /\ \E kind \in Kinds, g \in Made \cup {NoGen} :
       /\ kind \in {"live", "targeted"} <=> g = NoGen
       /\ reader' = [reader EXCEPT ![r] =
            [ReaderIdle EXCEPT
               !.pc = IF g = NoGen THEN "pointer" ELSE "manifest",
               !.kind = kind, !.cfg = config, !.gen = g,
               !.seen = [d \in Docs |-> {source[d]}],
               !.calm = /\ g = NoGen
                        /\ pointer = [view |-> source, cfg |-> config]
                        /\ pointer \in Gens /\ Intact(pointer)]]
  /\ UNCHANGED <<world, cache, writer, left>>

RPointer_Unparsed(r) ==
  /\ RAt(r, "pointer")
  /\ IF pointer # NoGen
     THEN reader' = [reader EXCEPT ![r].pc = "manifest", ![r].gen = pointer]
     ELSE RGoto(r, "fallback")
  /\ UNCHANGED <<world, cache, writer, left>>
RPointer(r) ==
  /\ RAt(r, "pointer")
  /\ IF pointer \in Gens
     THEN reader' = [reader EXCEPT ![r].pc = "manifest", ![r].gen = pointer]
     ELSE RGoto(r, "fallback")
  /\ UNCHANGED <<world, cache, writer, left>>

\* The manifest hashes to the generation id; all but the pinned reads bind it
\* to the active configuration. Live reads go on to the sources.
RManifest_Unbound(r) ==
  LET j == reader[r] IN
  /\ RAt(r, "manifest")
  /\ IF dir[j.gen].file[Manifest] = "ok"
     THEN reader' = [reader EXCEPT
            ![r].pc = IF j.kind \in {"live", "targeted"} THEN "list"
                      ELSE "shards",
            ![r].todo = Whole(j.gen) \ {Manifest}]
     ELSE RGoto(r, "fallback")
  /\ UNCHANGED <<world, cache, writer, left>>
RManifest(r) ==
  LET j == reader[r]
      bound == /\ dir[j.gen].file[Manifest] = "ok"
               /\ j.kind = "pinned" \/ j.gen.cfg = j.cfg
      shards == Whole(j.gen) \ {Manifest}
  IN
  /\ RAt(r, "manifest")
  /\ IF bound
     THEN reader' = [reader EXCEPT
            ![r].pc = IF j.kind \in {"live", "targeted"} THEN "list"
                      ELSE "shards",
            ![r].todo = shards]
     ELSE RGoto(r, "fallback")
  /\ UNCHANGED <<world, cache, writer, left>>

\* The included sources are listed: they must be those of the manifest.
RList_Subset(r) ==
  LET j == reader[r] IN
  /\ RAt(r, "list")
  /\ RGoto(r, IF j.todo \subseteq {d \in Docs : source[d] # Missing}
              THEN "sources" ELSE "fallback")
  /\ UNCHANGED <<world, cache, writer, left>>
RList(r) ==
  LET j == reader[r] IN
  /\ RAt(r, "list")
  /\ RGoto(r, IF {d \in Docs : source[d] # Missing} = j.todo
              THEN "sources" ELSE "fallback")
  /\ UNCHANGED <<world, cache, writer, left>>

\* Every listed source is re-read and compared with the manifest; a targeted
\* read goes on with the shards its query touches only.
RSource(r) ==
  LET j == reader[r] IN
  /\ RAt(r, "sources")
  /\ \/ \E d \in Docs :
          /\ Least(j.todo, d)
          /\ IF source[d] = j.gen.view[d]
             THEN reader' = [reader EXCEPT ![r].todo = @ \ {d}]
             ELSE RGoto(r, "fallback")
     \/ /\ j.todo = {}
        /\ \E touched \in SUBSET (Whole(j.gen) \ {Manifest}) :
             /\ j.kind = "live" => touched = Whole(j.gen) \ {Manifest}
             /\ reader' = [reader EXCEPT ![r].pc = "shards", ![r].todo = touched]
  /\ UNCHANGED <<world, cache, writer, left>>

\* A shard is served only if it hashes to what the manifest in memory says.
RShard_Unverified(r) ==
  LET j == reader[r] IN
  /\ RAt(r, "shards")
  /\ \/ j.todo = {} /\ RGoto(r, "served")
     \/ \E d \in Docs :
          /\ Least(j.todo, d)
          /\ IF dir[j.gen].file[d] # "gone"
             THEN reader' = [reader EXCEPT ![r].got[d] = dir[j.gen].file[d],
                                           ![r].todo = @ \ {d}]
             ELSE RGoto(r, "fallback")
  /\ UNCHANGED <<world, cache, writer, left>>
RShard(r) ==
  LET j == reader[r] IN
  /\ RAt(r, "shards")
  /\ \/ j.todo = {} /\ RGoto(r, "served")
     \/ \E d \in Docs :
          /\ Least(j.todo, d)
          /\ IF dir[j.gen].file[d] = "ok"
             THEN reader' = [reader EXCEPT ![r].got[d] = "ok",
                                           ![r].todo = @ \ {d}]
             ELSE RGoto(r, "fallback")
  /\ UNCHANGED <<world, cache, writer, left>>

RClose(r) ==
  /\ reader[r].pc \in {"served", "fallback"}
  /\ reader' = [reader EXCEPT ![r] = ReaderIdle]
  /\ UNCHANGED <<world, cache, writer, left>>

-----------------------------------------------------------------------------
(* Environment *)

\* An author or a bounded transaction changes a document.
Edit(d, content) ==
  /\ source[d] # content
  /\ Spend("edit")
  /\ source' = [source EXCEPT ![d] = content]
  /\ reader' = [r \in Readers |->
       IF RAt(r, "idle") THEN reader[r]
       ELSE [reader[r] EXCEPT !.seen[d] = @ \cup {content}, !.calm = FALSE]]
  /\ UNCHANGED <<config, cache, writer>>

Configure(c) ==
  /\ config # c
  /\ Spend("config")
  /\ config' = c
  /\ Disturb(TRUE)
  /\ UNCHANGED <<source, cache, writer>>

\* A file of the cache is tampered with or damaged; its content no longer
\* hashes to what the manifest, or the generation id, says.
Damage ==
  /\ Spend("damage")
  /\ \/ \E g \in Made : \E x \in Whole(g) :
          /\ dir[g].file[x] = "ok"
          /\ dir' = [dir EXCEPT ![g].file[x] = "bad"]
          /\ UNCHANGED pointer
     \/ pointer # NoGen /\ pointer' = BadPointer /\ UNCHANGED dir
  /\ Disturb(TRUE)
  /\ writer' = [w \in Writers |->
       IF WAt(w, "idle") THEN writer[w] ELSE [writer[w] EXCEPT !.calm = FALSE]]
  /\ UNCHANGED <<world, recent>>

\* Staging and quarantine directories stay behind; nothing ever reads them.
WCrash(w) ==
  /\ ~WAt(w, "idle")
  /\ Spend("crash")
  /\ WLeave(w)
  /\ UNCHANGED <<world, dir, pointer, reader>>

Write(w) ==
  \/ WStart(w) \/ Scan(w) \/ Probe(w) \/ Aside(w) \/ WStage(w) \/ Publish(w)
  \/ Point(w) \/ Clean(w) \/ Prune(w) \/ Status(w)
Read(r) == \/ ROpen(r) \/ RPointer(r) \/ RManifest(r) \/ RList(r)
           \/ RSource(r) \/ RShard(r) \/ RClose(r)

Next ==
  \/ \E w \in Writers : Write(w) \/ WCrash(w)
  \/ \E r \in Readers : Read(r)
  \/ \E d \in Docs, content \in Bytes : Edit(d, content)
  \/ \E c \in Configs : Configure(c)
  \/ Damage

Spec == Init /\ [][Next]_vars

\* `index --write` is run again and again and runs on until it ends or dies;
\* so do the reads.
FairSpec ==
  /\ Spec
  /\ \A w \in Writers : WF_vars(Write(w))
  /\ \A r \in Readers : WF_vars(Read(r))

-----------------------------------------------------------------------------
(* Properties *)

Undamaged == left["damage"] = MaxDamage
Undisturbed ==
  Undamaged /\ left["crash"] = MaxCrashes /\ left["fault"] = MaxFaults

(* A read that is served is true: every shard it returns is the one its
   generation was built with, and for a read of the current state each source
   held, at some moment of the read, exactly the bytes the generation was
   built from, under the configuration the read was started with - whatever
   edits, writers, retention and damage did meanwhile
   (load_verified_projection, TargetedProjection, load_pinned_projection). *)
ServedIsTrue ==
  \A r \in Readers : RAt(r, "served") =>
    LET j == reader[r] IN
    /\ \A d \in Docs : j.got[d] # "bad"
    /\ j.kind # "targeted" =>
         \A d \in Docs : j.gen.view[d] # Missing => j.got[d] = "ok"
    /\ j.kind # "pinned" => j.gen.cfg = j.cfg
    /\ j.kind \in {"live", "targeted"} =>
         \A d \in Docs : j.gen.view[d] \in j.seen[d]

(* A single writer never leaves the pointer on a generation that is not
   completely there, wherever it crashes or fails: neither publication nor
   retention passes through a state in which readers of an undamaged cache
   would have to fall back (write_projection). *)
PointerSelectsIntact == Undamaged /\ pointer \in Gens => Intact(pointer)

(* With a single writer and an undamaged cache a read falls back to Markdown
   only for a cause: the sources, the configuration or the pointer moved while
   it ran, or it started with a generation that was stale. *)
FallbackHasCause ==
  \A r \in Readers : RAt(r, "fallback") => ~reader[r].calm

(* When a single writer reaches its final check, the generation it built is
   selected and intact and retention has left no more than keep_generations
   directories, whatever crashes, faults and damage earlier writes suffered;
   only damage during this write excuses it (index_projection). *)
WriteYieldsCurrent ==
  \A w \in Writers : WAt(w, "status") /\ writer[w].calm =>
    /\ pointer = Target(w) /\ Intact(Target(w))
    /\ Cardinality(Made) <= Keep

(* Retention leaves pinned and delta reads their window: while no write was cut
   short and the cache not damaged, a generation stops being intact only if
   keep_generations others are (the retention loop of write_projection). *)
RetentionKeepsWindow ==
  [][\A g \in Gens : Undisturbed' /\ Intact(g) /\ ~Intact(g)' =>
       Cardinality({h \in Gens : Intact(h)'}) >= Keep]_vars

(* The cache heals: however it was damaged and whatever faults writers met,
   readers are served from it again and again once authors leave the sources
   without errors (the repair and fallback rules of write_projection and
   load_verified_projection). *)
ReadsAreServed ==
  <>[](\A d \in Docs : source[d] \notin Faulty)
    => []<>(\E r \in Readers : RAt(r, "served"))
=============================================================================
