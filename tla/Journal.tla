------------------------------- MODULE Journal -------------------------------
(***************************************************************************)
(* The bounded-write journal (src/src/docsystem/journal.py): processes     *)
(* that run a bounded transaction, an interrupted recovery or a completed  *)
(* recovery over one documentation tree and one journal directory.         *)
(*                                                                         *)
(* A process takes one step per durable effect or per check that another   *)
(* writer can invalidate, so a crash, an I/O fault, an edit by an author   *)
(* or a change of the authority files can fall between any two of them.    *)
(* Byte contents are opaque values; a hash comparison is an equality.      *)
(***************************************************************************)
EXTENDS Naturals, FiniteSets

CONSTANTS
  Procs,       \* processes that run docsystem commands
  Gens,        \* generation ids: workstream id + timestamp of one second
  Stamps,      \* timestamps that name recovery records
  Paths,       \* source-relative paths, numbered in their sorted order
  Contents,    \* byte contents of a file
  Auths,       \* versions of the authority files (config, workspace manifest)
  Absent,      \* no file at a path
  Unguarded,   \* the command was not selected through a workspace
  NoProc, NoGen, NoStamp, Author,
  Selected,    \* TRUE in it: a command may come through a workspace selection,
               \* FALSE in it: it may name its project directly
  Commands,    \* the commands that are run: a subset of AllCommands
  EditAnytime, \* an author may also edit while a command holds the lock
  ResolveFirst,\* no write is planned over an unresolved interrupted attempt
  MaxCrashes, MaxFaults, MaxEdits, MaxAuths  \* bounds on the environment

AllCommands == {"write", "interrupted", "completed"}
Bytes == Contents \cup {Absent}

ASSUME PathsAssumption == Paths \subseteq Nat
ASSUME AbsentAssumption == Absent \notin Contents
ASSUME NoProcAssumption == NoProc \notin Procs
ASSUME AuthorAssumption == NoGen \notin Gens /\ Author \notin Gens
ASSUME UnguardedAssumption == Unguarded \notin Auths
ASSUME BoundAssumption ==
  /\ Commands \subseteq AllCommands /\ Selected \subseteq BOOLEAN
  /\ EditAnytime \in BOOLEAN /\ ResolveFirst \in BOOLEAN
  /\ MaxCrashes \in Nat /\ MaxFaults \in Nat
  /\ MaxEdits \in Nat /\ MaxAuths \in Nat

VARIABLES
  src,        \* src[x]: bytes at path x of the documentation tree
  lock,       \* the process that holds the journal lock
  authority,  \* current version of the authority files
  stage,      \* stage[g]: how far the generation directory was prepared
  files,      \* files[g]: paths in the prepared manifest
  before,     \* before[g]: the before copies and their recorded hashes
  after,      \* after[g]: the after copies and their recorded hashes
  gauth,      \* gauth[g]: authority recorded in the prepared manifest
  terminal,   \* terminal[g]: state of verification.json
  rec,        \* rec[g][s]: recovery record recoveries/g/s
  job,        \* job[p]: what process p is running
  writer,     \* history: whose bytes stand at each path
  left        \* what is left of the bounds on the environment

genVars == <<stage, files, before, after, gauth, terminal>>
vars == <<src, lock, authority, stage, files, before, after, gauth, terminal,
          rec, job, writer, left>>

TxnPhases == {"admit", "prepare", "stage", "check", "replace", "validate",
              "confirm", "finalize", "restore", "rbverify", "rbpublish"}
IntPhases == {"iload", "irecord", "icheck", "iwrite", "ifinal", "ipublish"}
CmpPhases == {"cload", "crecord", "cpreflight", "crestore", "cverify",
              "cdrop", "cpublish", "cundo"}
Critical == TxnPhases \cup IntPhases \cup CmpPhases
Waiting == {"planned", "iwait", "cwait"}

RecoveryPhases == {"iwait", "cwait"} \cup IntPhases \cup CmpPhases

JobRecord == [pc : {"idle"} \cup Waiting \cup Critical,
        cur : Gens \cup {NoGen},          \* the generation
        stamp : Stamps \cup {NoStamp},    \* the recovery record
        pin : Auths \cup {Unguarded},     \* authority hash guard
        edits : SUBSET Paths,             \* declared edits
        guards : SUBSET Paths,            \* read guards
        view : [Paths -> Bytes],          \* bytes the declaration was made for
        goal : [Paths -> Bytes],          \* bytes to write
        todo : SUBSET Paths,              \* paths still to be handled
        did : SUBSET Paths,               \* paths already handled
        held : [Paths -> Bytes]]          \* set-aside bytes of an undone create
Job == {j \in JobRecord : /\ j.pc # "idle" => j.cur \in Gens
                          /\ j.pc \in RecoveryPhases => j.stamp \in Stamps}

NoBytes == [x \in Paths |-> Absent]
Idle == [pc |-> "idle", cur |-> NoGen, stamp |-> NoStamp, pin |-> Unguarded,
         edits |-> {}, guards |-> {}, view |-> NoBytes, goal |-> NoBytes,
         todo |-> {}, did |-> {}, held |-> NoBytes]

RecStates == {"none", "i-pending", "i-done", "c-dir", "c-pending", "c-done"}

TypeOK ==
  /\ src \in [Paths -> Bytes]
  /\ lock \in Procs \cup {NoProc}
  /\ authority \in Auths
  /\ stage \in [Gens -> {"none", "dir", "prepared"}]
  /\ files \in [Gens -> SUBSET Paths]
  /\ before \in [Gens -> [Paths -> Bytes]]
  /\ after \in [Gens -> [Paths -> Bytes]]
  /\ gauth \in [Gens -> Auths \cup {Unguarded}]
  /\ terminal \in [Gens -> {"absent", "applied", "rolled-back"}]
  /\ rec \in [Gens -> [Stamps -> RecStates]]
  /\ job \in [Procs -> Job]
  /\ writer \in [Paths -> Gens \cup {Author}]
  /\ left \in [{"crash", "fault", "edit", "auth"} -> Nat]

Init ==
  /\ src \in [Paths -> Bytes]
  /\ lock = NoProc
  /\ authority \in Auths
  /\ stage = [g \in Gens |-> "none"]
  /\ files = [g \in Gens |-> {}]
  /\ before = [g \in Gens |-> NoBytes]
  /\ after = [g \in Gens |-> NoBytes]
  /\ gauth = [g \in Gens |-> Unguarded]
  /\ terminal = [g \in Gens |-> "absent"]
  /\ rec = [g \in Gens |-> [s \in Stamps |-> "none"]]
  /\ job = [p \in Procs |-> Idle]
  /\ writer = [x \in Paths |-> Author]
  /\ left = [k \in {"crash", "fault", "edit", "auth"} |->
              CASE k = "crash" -> MaxCrashes [] k = "fault" -> MaxFaults
                [] k = "edit" -> MaxEdits [] k = "auth" -> MaxAuths]

-----------------------------------------------------------------------------
(* Helpers *)

tree == <<src, writer>>
evidence == <<stage, files, before, after, gauth, terminal, rec>>

Spend(k) == left[k] > 0 /\ left' = [left EXCEPT ![k] = @ - 1]

At(p, phase) == job[p].pc = phase
Goto(p, phase) == job' = [job EXCEPT ![p].pc = phase]

\* The command returns or raises: the context manager releases the lock.
End(p) == job' = [job EXCEPT ![p] = Idle] /\ lock' = NoProc

\* The command ends without a further effect.
Refuse(p) == End(p) /\ UNCHANGED <<tree, evidence, authority, left>>

\* An I/O error that the command reports without a further effect.
Fail(p) == Spend("fault") /\ End(p) /\ UNCHANGED <<tree, evidence, authority>>

\* Loops over the admitted files run in sorted path order.
Least(S, x) == x \in S /\ \A y \in S : x <= y
Greatest(S, x) == x \in S /\ \A y \in S : y <= x

Holds(S, content) == \A x \in S : src[x] = content[x]
Only(S, content) == [x \in Paths |-> IF x \in S THEN content[x] ELSE Absent]

\* The authority a command pins when it is started
Pins == {IF selected THEN authority ELSE Unguarded : selected \in Selected}

\* _verify_authority_guards: the pinned files are byte-identical
AuthorityOk(p) == job[p].pin \in {Unguarded, authority}

\* _recovery_authority_preflight
RecoveryAuthorized_AnyManifest(p) == AuthorityOk(p)
RecoveryAuthorized(p) ==
  /\ AuthorityOk(p)
  /\ job[p].pin # Unguarded => gauth[job[p].cur] = job[p].pin

WriteSource(x, content, by) ==
  /\ src' = [src EXCEPT ![x] = content]
  /\ writer' = [writer EXCEPT ![x] = by]

\* the next file to unlink is no longer there
Gone(S, content) ==
  \E x \in S : Least(S, x) /\ content[x] = Absent /\ src[x] = Absent

Records(g) == {s \in Stamps : rec[g][s] # "none"}
Recovered(g) == \E s \in Stamps : rec[g][s] = "i-done"
Interrupted_MissesTerminal(g) == stage[g] = "prepared"
Interrupted(g) == stage[g] = "prepared" /\ terminal[g] = "absent"
\* generation_root.mkdir() is exclusive
Fresh_ExistOk(g) == g \in Gens
Fresh(g) == stage[g] = "none"
\* _interrupted_recovery_record: the one record there is, still pending
Resumable_Completed(g, s) == Records(g) = {s}
Resumable_Never(g, s) == FALSE
Resumable(g, s) == Records(g) = {s} /\ rec[g][s] = "i-pending"
Unresolved(g) == Interrupted(g) /\ ~Recovered(g)

-----------------------------------------------------------------------------
(* Bounded transaction *)

Declare(p, g, pin, E, G, goal) ==
  /\ E # {}
  /\ ResolveFirst =>
       \A h \in Gens : Unresolved(h) => files[h] \cap (E \cup G) = {}
  /\ job' = [job EXCEPT ![p] =
       [Idle EXCEPT !.pc = "planned", !.cur = g, !.pin = pin,
          !.edits = E, !.guards = G, !.view = Only(E \cup G, src),
          !.goal = [x \in Paths |-> IF x \in E THEN goal[x] ELSE Absent]]]

\* A command declares edits and read guards from the tree it has just read;
\* no lock is held. The generation id may be one that is already in use.
Plan(p) ==
  /\ At(p, "idle")
  /\ "write" \in Commands
  /\ \E g \in Gens, pin \in Pins, E \in SUBSET Paths :
     \E G \in SUBSET {x \in Paths \ E : src[x] # Absent},
        goal \in [E -> Contents] : Declare(p, g, pin, E, G, goal)
  /\ UNCHANGED <<tree, evidence, lock, authority, left>>

Entry == [planned |-> "admit", iwait |-> "iload", cwait |-> "cload"]

\* _exclusive_journal_lock: non-blocking, a held lock is an error
Lock_Shared(p) ==
  /\ job[p].pc \in Waiting
  /\ lock' = p
  /\ Goto(p, Entry[job[p].pc])
  /\ UNCHANGED <<tree, evidence, authority, left>>
Lock(p) ==
  /\ job[p].pc \in Waiting
  /\ lock = NoProc
  /\ lock' = p
  /\ Goto(p, Entry[job[p].pc])
  /\ UNCHANGED <<tree, evidence, authority, left>>

LockBusy(p) ==
  /\ job[p].pc \in Waiting
  /\ lock # NoProc
  /\ job' = [job EXCEPT ![p] = Idle]
  /\ UNCHANGED <<tree, evidence, lock, authority, left>>

\* _admit, _admit_guards and the exclusive mkdir of the generation
Admit(p) ==
  LET j == job[p]
      admitted == /\ AuthorityOk(p)
                  /\ Holds(j.edits \cup j.guards, j.view)
                  /\ Fresh(j.cur)
  IN
  /\ At(p, "admit")
  /\ \/ ~admitted /\ Refuse(p)
     \/ /\ admitted
        /\ stage' = [stage EXCEPT ![j.cur] = "dir"]
        /\ Goto(p, "prepare")
        /\ UNCHANGED <<tree, files, before, after, gauth, terminal, rec,
                       lock, authority, left>>

\* before and after copies, patches, then manifest.json with status prepared
Prepare_NoBeforeCopy(p) ==
  LET j == job[p] IN
  /\ At(p, "prepare")
  /\ stage' = [stage EXCEPT ![j.cur] = "prepared"]
  /\ files' = [files EXCEPT ![j.cur] = j.edits]
  /\ after' = [after EXCEPT ![j.cur] = j.goal]
  /\ gauth' = [gauth EXCEPT ![j.cur] = j.pin]
  /\ Goto(p, "stage")
  /\ UNCHANGED <<tree, before, terminal, rec, lock, authority, left>>
Prepare(p) ==
  LET j == job[p] IN
  /\ At(p, "prepare")
  /\ \/ Fail(p)
     \/ /\ stage' = [stage EXCEPT ![j.cur] = "prepared"]
        /\ files' = [files EXCEPT ![j.cur] = j.edits]
        /\ before' = [before EXCEPT ![j.cur] = Only(j.edits, j.view)]
        /\ after' = [after EXCEPT ![j.cur] = j.goal]
        /\ gauth' = [gauth EXCEPT ![j.cur] = j.pin]
        /\ Goto(p, "stage")
        /\ UNCHANGED <<tree, terminal, rec, lock, authority, left>>

\* _revalidate_admitted, _revalidate_guards, authority; temporary files
Stage(p) ==
  LET j == job[p]
      fresh == AuthorityOk(p) /\ Holds(j.edits \cup j.guards, j.view)
  IN
  /\ At(p, "stage")
  /\ \/ ~fresh /\ Refuse(p)
     \/ Fail(p)
     \/ /\ fresh
        /\ job' = [job EXCEPT ![p].pc = "check", ![p].todo = j.edits]
        /\ UNCHANGED <<tree, evidence, lock, authority, left>>

\* _rollback restores targets, in sorted order, whatever stands there now
BeginRollback_RestoresNothing(p, targets) == Goto(p, "rbpublish")
BeginRollback(p, targets) ==
  job' = [job EXCEPT ![p].pc = IF targets = {} THEN "rbverify" ELSE "restore",
                     ![p].todo = targets, ![p].did = targets]

Check(p) ==
  LET j == job[p] IN
  /\ At(p, "check")
  /\ \E x \in Paths :
       /\ Least(j.todo, x)
       /\ IF src[x] = j.view[x] THEN Goto(p, "replace")
          ELSE BeginRollback(p, j.did)
  /\ UNCHANGED <<tree, evidence, lock, authority, left>>

\* temp_path.replace(final_path): atomic, and blind to what it replaces
Replace(p) ==
  LET j == job[p] IN
  /\ At(p, "replace")
  /\ \E x \in Paths :
       /\ Least(j.todo, x)
       /\ \/ /\ Spend("fault")
             /\ BeginRollback(p, j.did)
             /\ UNCHANGED tree
          \/ /\ WriteSource(x, j.goal[x], j.cur)
             /\ job' = [job EXCEPT
                  ![p].pc = IF j.todo = {x} THEN "validate" ELSE "check",
                  ![p].todo = @ \ {x}, ![p].did = @ \cup {x}]
             /\ UNCHANGED left
  /\ UNCHANGED <<evidence, lock, authority>>

\* The caller's validate hook decides either way; when it accepts, guards and
\* authority are checked again.
Validate(p) ==
  LET j == job[p] IN
  /\ At(p, "validate")
  /\ \E verdict \in BOOLEAN :
       IF verdict /\ Holds(j.guards, j.view) /\ AuthorityOk(p)
       THEN Goto(p, "confirm") ELSE BeginRollback(p, j.edits)
  /\ UNCHANGED <<tree, evidence, lock, authority, left>>

Confirm(p) ==
  LET j == job[p] IN
  /\ At(p, "confirm")
  /\ IF Holds(j.edits, j.goal) /\ AuthorityOk(p)
     THEN Goto(p, "finalize") ELSE BeginRollback(p, j.edits)
  /\ UNCHANGED <<tree, evidence, lock, authority, left>>

\* verification.json with status applied, published by an atomic rename
Finalize(p) ==
  LET j == job[p] IN
  /\ At(p, "finalize")
  /\ \/ /\ \/ Spend("fault")
           \/ ~AuthorityOk(p) /\ UNCHANGED left
        /\ BeginRollback(p, j.edits)
        /\ UNCHANGED <<terminal, lock>>
     \/ /\ AuthorityOk(p)
        /\ terminal' = [terminal EXCEPT ![j.cur] = "applied"]
        /\ End(p)
        /\ UNCHANGED left
  /\ UNCHANGED <<tree, stage, files, before, after, gauth, rec, authority>>

\* _restore_source: before bytes, or unlink(missing_ok) for a create
Restore_NeverAdvances(p) ==
  LET j == job[p] IN
  /\ At(p, "restore")
  /\ \E x \in Paths : Least(j.todo, x) /\ WriteSource(x, before[j.cur][x], j.cur)
  /\ UNCHANGED <<evidence, job, lock, authority, left>>
Restore(p) ==
  LET j == job[p] IN
  /\ At(p, "restore")
  /\ \/ Fail(p)
     \/ /\ \E x \in Paths :
             /\ Least(j.todo, x)
             /\ WriteSource(x, before[j.cur][x], j.cur)
             /\ job' = [job EXCEPT
                  ![p].pc = IF j.todo = {x} THEN "rbverify" ELSE "restore",
                  ![p].todo = @ \ {x}]
        /\ UNCHANGED <<evidence, lock, authority, left>>

RbVerify(p) ==
  LET j == job[p] IN
  /\ At(p, "rbverify")
  /\ \/ ~Holds(j.did, before[j.cur]) /\ Refuse(p)
     \/ /\ Holds(j.did, before[j.cur])
        /\ Goto(p, "rbpublish")
        /\ UNCHANGED <<tree, evidence, lock, authority, left>>

\* recovery.json, then verification.json with status rolled-back
RbPublish_Restored(p) ==
  /\ At(p, "rbpublish")
  /\ terminal' = [terminal EXCEPT ![job[p].cur] = "restored"]
  /\ End(p)
  /\ UNCHANGED <<tree, stage, files, before, after, gauth, rec, authority, left>>
RbPublish(p) ==
  /\ At(p, "rbpublish")
  /\ \/ Fail(p)
     \/ /\ terminal' = [terminal EXCEPT ![job[p].cur] = "rolled-back"]
        /\ End(p)
        /\ UNCHANGED <<tree, stage, files, before, after, gauth, rec,
                       authority, left>>

-----------------------------------------------------------------------------
(* Interrupted recovery: recover_interrupted_generation *)

IStart(p) ==
  /\ At(p, "idle")
  /\ "interrupted" \in Commands
  /\ \E g \in Gens, s \in Stamps, pin \in Pins :
       job' = [job EXCEPT ![p] = [Idle EXCEPT !.pc = "iwait", !.cur = g,
                                              !.stamp = s, !.pin = pin]]
  /\ UNCHANGED <<tree, evidence, lock, authority, left>>

\* Prepared evidence without a terminal record, a known state at every path,
\* and no record or the one pending record, which a rerun adopts.
ILoad(p) ==
  LET g == job[p].cur
      eligible == /\ Interrupted(g) /\ RecoveryAuthorized(p)
                  /\ \A x \in files[g] : src[x] \in {before[g][x], after[g][x]}
      written == {x \in files[g] : src[x] # before[g][x]}
      resume(phase, s) ==
        /\ job' = [job EXCEPT ![p].pc = phase, ![p].stamp = s,
                              ![p].todo = written]
        /\ UNCHANGED <<tree, evidence, lock, authority, left>>
  IN
  /\ At(p, "iload")
  /\ \/ /\ eligible
        /\ Records(g) = {}
        /\ resume("irecord", job[p].stamp)
     \/ /\ eligible
        /\ \E s \in Stamps :
             /\ Resumable(g, s)
             /\ resume(IF written = {} THEN "ifinal" ELSE "icheck", s)
     \/ /\ ~eligible \/ (Records(g) # {} /\ \A s \in Stamps : ~Resumable(g, s))
        /\ Refuse(p)

\* _prepare_interrupted_recovery_record: staged, then renamed into place
IRecord(p) ==
  LET j == job[p] IN
  /\ At(p, "irecord")
  /\ \/ Fail(p)
     \/ /\ rec' = [rec EXCEPT ![j.cur][j.stamp] = "i-pending"]
        /\ Goto(p, IF j.todo = {} THEN "ifinal" ELSE "icheck")
        /\ UNCHANGED <<tree, genVars, lock, authority, left>>

ICheck(p) ==
  LET j == job[p] IN
  /\ At(p, "icheck")
  /\ \E x \in Paths :
       /\ Least(j.todo, x)
       /\ IF AuthorityOk(p) /\ src[x] = after[j.cur][x]
          THEN Goto(p, "iwrite") /\ UNCHANGED lock
          ELSE End(p)
  /\ UNCHANGED <<tree, evidence, authority, left>>

IWrite(p) ==
  LET j == job[p] IN
  /\ At(p, "iwrite")
  /\ \/ Fail(p)
     \/ Gone(j.todo, before[j.cur]) /\ Refuse(p)
     \/ /\ ~Gone(j.todo, before[j.cur])
        /\ \E x \in Paths :
             /\ Least(j.todo, x)
             /\ WriteSource(x, before[j.cur][x], j.cur)
             /\ job' = [job EXCEPT
                  ![p].pc = IF j.todo = {x} THEN "ifinal" ELSE "icheck",
                  ![p].todo = @ \ {x}]
        /\ UNCHANGED <<evidence, lock, authority, left>>

IFinal(p) ==
  LET g == job[p].cur IN
  /\ At(p, "ifinal")
  /\ IF AuthorityOk(p) /\ Holds(files[g], before[g])
     THEN Goto(p, "ipublish") /\ UNCHANGED lock
     ELSE End(p)
  /\ UNCHANGED <<tree, evidence, authority, left>>

IPublish(p) ==
  LET j == job[p] IN
  /\ At(p, "ipublish")
  /\ \/ Fail(p)
     \/ /\ rec' = [rec EXCEPT ![j.cur][j.stamp] = "i-done"]
        /\ End(p)
        /\ UNCHANGED <<tree, genVars, authority, left>>

-----------------------------------------------------------------------------
(* Completed recovery: recover_generation *)

CStart(p) ==
  /\ At(p, "idle")
  /\ "completed" \in Commands
  /\ \E g \in Gens, s \in Stamps, pin \in Pins :
       job' = [job EXCEPT ![p] = [Idle EXCEPT !.pc = "cwait", !.cur = g,
                                              !.stamp = s, !.pin = pin]]
  /\ UNCHANGED <<tree, evidence, lock, authority, left>>

\* A terminal record of either status; nothing to do in the before state,
\* refused unless every path is in the after state.
CLoad(p) ==
  LET j == job[p]
      g == j.cur
      eligible == /\ terminal[g] # "absent"
                  /\ RecoveryAuthorized(p)
                  /\ ~Holds(files[g], before[g])
                  /\ Holds(files[g], after[g])
  IN
  /\ At(p, "cload")
  /\ \/ ~eligible /\ Refuse(p)
     \/ /\ eligible
        /\ Goto(p, "crecord")
        /\ UNCHANGED <<tree, evidence, lock, authority, left>>

\* exclusive mkdir of the record, then its manifest
CRecord(p) ==
  LET j == job[p] IN
  /\ At(p, "crecord")
  /\ \/ rec[j.cur][j.stamp] # "none" /\ Refuse(p)
     \/ /\ rec[j.cur][j.stamp] = "none"
        /\ \/ /\ Spend("fault")
              /\ rec' = [rec EXCEPT ![j.cur][j.stamp] = "c-dir"]
              /\ End(p)
           \/ /\ rec' = [rec EXCEPT ![j.cur][j.stamp] = "c-pending"]
              /\ Goto(p, "cpreflight")
              /\ UNCHANGED <<lock, left>>
        /\ UNCHANGED <<tree, genVars, authority>>

\* The attempt raises; with nothing staged there is nothing to undo.
BeginUndo_Skipped(p) == End(p)
BeginUndo(p) ==
  IF job[p].did = {} THEN End(p) ELSE Goto(p, "cundo") /\ UNCHANGED lock

CPreflight(p) ==
  LET j == job[p] IN
  /\ At(p, "cpreflight")
  /\ IF AuthorityOk(p) /\ Holds(files[j.cur], after[j.cur])
     THEN /\ job' = [job EXCEPT ![p].pc = "crestore", ![p].todo = files[j.cur]]
          /\ UNCHANGED lock
     ELSE BeginUndo(p)
  /\ UNCHANGED <<tree, evidence, authority, left>>

\* A created file is set aside, an edited one replaced; no check in between.
CRestore(p) ==
  LET j == job[p] IN
  /\ At(p, "crestore")
  /\ \/ /\ \/ Spend("fault")
           \/ Gone(j.todo, before[j.cur]) /\ UNCHANGED left
        /\ BeginUndo(p)
        /\ UNCHANGED tree
     \/ /\ ~Gone(j.todo, before[j.cur])
        /\ \E x \in Paths :
             /\ Least(j.todo, x)
             /\ WriteSource(x, before[j.cur][x], j.cur)
             /\ job' = [job EXCEPT
                  ![p].pc = IF j.todo = {x} THEN "cverify" ELSE "crestore",
                  ![p].todo = @ \ {x}, ![p].did = @ \cup {x},
                  ![p].held = [@ EXCEPT ![x] =
                    IF before[j.cur][x] = Absent THEN src[x] ELSE Absent]]
        /\ UNCHANGED <<lock, left>>
  /\ UNCHANGED <<evidence, authority>>

CVerify(p) ==
  LET j == job[p] IN
  /\ At(p, "cverify")
  /\ IF AuthorityOk(p) /\ Holds(j.did, before[j.cur])
     THEN Goto(p, "cdrop") /\ UNCHANGED lock
     ELSE BeginUndo(p)
  /\ UNCHANGED <<tree, evidence, authority, left>>

\* The set-aside files are unlinked; a fault may come after some of them.
CDrop(p) ==
  /\ At(p, "cdrop")
  /\ \/ /\ Spend("fault")
        /\ \E kept \in SUBSET job[p].did :
             job' = [job EXCEPT ![p].pc = "cundo",
                                ![p].held = Only(kept, job[p].held)]
     \/ /\ job' = [job EXCEPT ![p].pc = "cpublish", ![p].held = NoBytes]
        /\ UNCHANGED left
  /\ UNCHANGED <<tree, evidence, lock, authority>>

CPublish(p) ==
  LET j == job[p] IN
  /\ At(p, "cpublish")
  /\ \/ /\ \/ Spend("fault")
           \/ ~AuthorityOk(p) /\ UNCHANGED left
        /\ BeginUndo(p)
        /\ UNCHANGED rec
     \/ /\ AuthorityOk(p)
        /\ rec' = [rec EXCEPT ![j.cur][j.stamp] = "c-done"]
        /\ End(p)
        /\ UNCHANGED left
  /\ UNCHANGED <<tree, genVars, authority>>

\* Undo of the attempt in reverse order, from the set-aside file if it is
\* still there and from the after copy otherwise. A fault here is final.
CUndo(p) ==
  LET j == job[p] IN
  /\ At(p, "cundo")
  /\ \/ Fail(p)
     \/ /\ \E x \in Paths :
             LET bytes == IF j.held[x] # Absent THEN j.held[x]
                          ELSE after[j.cur][x] IN
             /\ Greatest(j.did, x)
             /\ WriteSource(x, bytes, IF bytes = after[j.cur][x]
                                      THEN j.cur ELSE Author)
             /\ IF j.did = {x} THEN End(p)
                ELSE job' = [job EXCEPT ![p].did = @ \ {x}] /\ UNCHANGED lock
        /\ UNCHANGED <<evidence, authority, left>>

-----------------------------------------------------------------------------
(* Environment *)

\* The process dies; the operating system releases its lock.
Crash(p) ==
  /\ ~At(p, "idle")
  /\ Spend("crash")
  /\ job' = [job EXCEPT ![p] = Idle]
  /\ lock' = IF lock = p THEN NoProc ELSE lock
  /\ UNCHANGED <<tree, evidence, authority>>

Edit(x, content) ==
  /\ lock = NoProc \/ EditAnytime
  /\ src[x] # content
  /\ Spend("edit")
  /\ WriteSource(x, content, Author)
  /\ UNCHANGED <<evidence, lock, job, authority>>

AuthorityChange ==
  /\ Spend("auth")
  /\ authority' \in Auths \ {authority}
  /\ UNCHANGED <<tree, evidence, lock, job>>

TxnStep(p) ==
  \/ Admit(p) \/ Prepare(p) \/ Stage(p) \/ Check(p) \/ Replace(p)
  \/ Validate(p) \/ Confirm(p) \/ Finalize(p)
  \/ Restore(p) \/ RbVerify(p) \/ RbPublish(p)
IntStep(p) == \/ ILoad(p) \/ IRecord(p) \/ ICheck(p) \/ IWrite(p)
              \/ IFinal(p) \/ IPublish(p)
CmpStep(p) == \/ CLoad(p) \/ CRecord(p) \/ CPreflight(p) \/ CRestore(p)
              \/ CVerify(p) \/ CDrop(p) \/ CPublish(p) \/ CUndo(p)
Continue(p) == Lock(p) \/ LockBusy(p) \/ TxnStep(p) \/ IntStep(p) \/ CmpStep(p)
Start(p) == Plan(p) \/ IStart(p) \/ CStart(p)

Next ==
  \/ \E p \in Procs : Start(p) \/ Continue(p) \/ Crash(p)
  \/ \E x \in Paths, content \in Bytes : Edit(x, content)
  \/ AuthorityChange

Spec == Init /\ [][Next]_vars

\* A started command runs on until it ends or dies, and the operator reruns
\* the interrupted recovery whenever the process is free to take it.
Rerun(p, g) ==
  IStart(p) /\ job'[p].cur = g /\ job'[p].pin = Unguarded
FairSpec ==
  /\ Spec
  /\ \A p \in Procs : WF_vars(Continue(p))
  /\ \A p \in Procs, g \in Gens : SF_vars(Rerun(p, g))

-----------------------------------------------------------------------------
(* Properties *)

\* What the evidence of a generation says about bytes it last wrote.
Undone(g) ==
  \/ terminal[g] = "rolled-back" /\ Records(g) = {}
  \/ Recovered(g)
  \/ Records(g) # {} /\ \A s \in Records(g) : rec[g][s] = "c-done"
AttributedBytesMatch(x, g) ==
  /\ stage[g] = "prepared" /\ x \in files[g]
  /\ src[x] \in {before[g][x], after[g][x]}
  /\ terminal[g] = "applied" /\ Records(g) = {} => src[x] = after[g][x]
  /\ Undone(g) => src[x] = before[g][x]

(* Evidence on disk never says of a file more than is true: where a
   generation's bytes were the last ones written, they are its before or its
   after copy, the after copy once verification.json says applied, and the
   before copy once it says rolled-back or a recovery record is complete.
   Every order of crash, fault, edit and recovery is covered
   (run_bounded_transaction, recover_generation,
   recover_interrupted_generation). *)
EvidenceMatchesSource ==
  \A x \in Paths : writer[x] # Author => AttributedBytesMatch(x, writer[x])

(* The two recovery routes never meet on one generation: records of an
   interrupted attempt exist only without terminal evidence and there is at
   most one of them, completed-recovery records exist only with it
   (_load_interrupted_generation, _interrupted_recovery_record). *)
OneRecoveryRoute ==
  \A g \in Gens :
    IF terminal[g] = "absent"
    THEN \A s, t \in Records(g) : s = t /\ rec[g][s] \in {"i-pending", "i-done"}
    ELSE \A s \in Records(g) : rec[g][s] \in {"c-dir", "c-pending", "c-done"}

(* A published recovery terminal fences replay: once it is there, no step
   puts bytes of that generation into the tree again
   (recover_interrupted_generation, "already-recovered" and "refused"). *)
ReplayFenced ==
  [][\A g \in Gens, x \in Paths :
       Recovered(g) /\ writer'[x] = g => writer[x] = g /\ src'[x] = src[x]]_vars

(* Immutable evidence: a terminal record, a prepared manifest with its copies
   and a completed recovery record are never changed or removed, and a
   recovery record never changes its kind. *)
EvidenceImmutable ==
  [][\A g \in Gens :
       /\ terminal[g] # "absent" => terminal'[g] = terminal[g]
       /\ stage[g] = "prepared" =>
            /\ stage'[g] = "prepared" /\ gauth'[g] = gauth[g]
            /\ files'[g] = files[g]
            /\ before'[g] = before[g] /\ after'[g] = after[g]
       /\ \A s \in Stamps :
            /\ rec[g][s] \in {"i-done", "c-done", "c-dir"} =>
                 rec'[g][s] = rec[g][s]
            /\ rec[g][s] = "i-pending" => rec'[g][s] \in {"i-pending", "i-done"}
            /\ rec[g][s] = "c-pending" => rec'[g][s] \in {"c-pending", "c-done"}
    ]_vars

(* A command that replaces bytes replaces only bytes of which the generation
   it works for keeps a copy, so nothing an author wrote is lost; holds while
   authors do not write under the lock (module docstring, "No operation in
   this module can delete authored source content"). *)
NothingLost ==
  [][\A p \in Procs, x \in Paths :
       src'[x] # src[x] /\ job'[p] # job[p] =>
         src[x] \in {before[job[p].cur][x], after[job[p].cur][x]}]_vars

(* A command pinned to one authority writes only for generations that were
   prepared under exactly that authority, whatever happened to the authority
   files since the command was selected (_verify_authority_guards,
   _recovery_authority_preflight). *)
AuthorityBinding ==
  [][\A p \in Procs, x \in Paths :
       src'[x] # src[x] /\ job'[p] # job[p] /\ job[p].pin # Unguarded =>
         gauth[job[p].cur] = job[p].pin]_vars

(* A completed recovery restores every file of its generation or leaves every
   one as it found it, whatever check or I/O operation of it fails, while
   authors do not write under the lock; only its death and a second failure,
   in the undo, may leave a mixture (_recover_generation_unlocked). *)
RecoveryAllOrNothing ==
  [][\A p \in Procs :
       LET g == job[p].cur IN
       /\ job[p].pc \in CmpPhases \ {"cload"}
       /\ At(p, "idle")'
       /\ left'["crash"] = left["crash"]
       /\ ~(At(p, "cundo") /\ left'["fault"] # left["fault"])
       => \/ \A x \in files[g] : src'[x] = after[g][x]
          \/ \A x \in files[g] : src'[x] = before[g][x]]_vars

(* Rollback puts back only what this transaction had written: the path it
   restores carries the transaction's own bytes at that moment
   (_rollback, _restore_source). *)
RollbackUndoesOwnWritesOnly ==
  [][\A p \in Procs, x \in Paths :
       At(p, "restore") /\ src'[x] # src[x] /\ job'[p] # job[p] =>
         writer[x] = job[p].cur]_vars

(* Completed recovery undoes only a completed, verified write: the generation
   it restores from was applied (docs/interrupted-recovery.md). *)
UndoesVerifiedWriteOnly ==
  [][\A p \in Procs, x \in Paths :
       At(p, "crestore") /\ src'[x] # src[x] /\ job'[p] # job[p] =>
         terminal[job[p].cur] = "applied"]_vars

(* One process at a time works under the journal lock, and a crash or an
   error in it never leaves the lock taken (_exclusive_journal_lock). *)
LockExclusion ==
  \A p \in Procs : job[p].pc \in Critical <=> lock = p

(* Every command ends: it publishes, refuses, fails or dies. *)
CommandsFinish ==
  \A p \in Procs : ~At(p, "idle") ~> At(p, "idle")

(* No attempt stays open for ever: it gets its terminal record, or rerunning
   the recovery brings every path back to its before copy and fences it,
   however many of the bounded crashes and faults hit the recovery itself. *)
AttemptsResolve ==
  \A g \in Gens :
    Unresolved(g) ~> \/ terminal[g] # "absent"
                     \/ Recovered(g) /\ Holds(files[g], before[g])
=============================================================================
