-------------------------- MODULE JournalStoreProofs --------------------------
(* What the journal does to the bytes of the tree, proved for every value of *)
(* its constants: while authors keep off the tree under the lock, nothing is *)
(* lost and a completed recovery is all or nothing; and over settled bytes   *)
(* the journal implements DocumentStore.                                     *)
EXTENDS JournalRefinement, JournalProofs

USE DEF At

-----------------------------------------------------------------------------
(* How a step of the lock holder changes its job and the tree *)

\* p goes on with another phase, todo and did, its declaration as it was.
Becomes(p, ph, T, D) ==
  /\ job'[p].pc = ph /\ job'[p].todo = T /\ job'[p].did = D
  /\ job'[p].cur = job[p].cur /\ job'[p].edits = job[p].edits
  /\ job'[p].guards = job[p].guards /\ job'[p].view = job[p].view
  /\ job'[p].goal = job[p].goal
  /\ \A q \in Procs \ {p} : job'[q] = job[q]

\* One file is written and no other one.
Writes(x, c, by) ==
  /\ src'[x] = c /\ writer'[x] = by
  /\ \A y \in Paths \ {x} : src'[y] = src[y] /\ writer'[y] = writer[y]

LEMMA WriteSourceWrites ==
  ASSUME TypeOK, NEW x \in Paths, NEW c, NEW by, WriteSource(x, c, by)
  PROVE  Writes(x, c, by)
BY DEF WriteSource, Writes, TypeOK

LEMMA GotoBecomes ==
  ASSUME TypeOK, NEW p \in Procs, NEW ph, Goto(p, ph)
  PROVE  Becomes(p, ph, job[p].todo, job[p].did) /\ job'[p].held = job[p].held
<1>1. job[p] \in Job /\ job' = [job EXCEPT ![p] = [job[p] EXCEPT !.pc = ph]]
  BY Zenon DEF Goto, TypeOK
<1>2. /\ job'[p] = [job[p] EXCEPT !.pc = ph]
      /\ \A q \in Procs \ {p} : job'[q] = job[q]
  BY <1>1 DEF TypeOK
<1> QED
  BY <1>1, <1>2 DEF Becomes, Job, JobRecord

LEMMA JobBecomes ==
  ASSUME TypeOK, NEW p \in Procs, NEW ph, NEW T, NEW D,
         job' = [job EXCEPT ![p] =
                   [job[p] EXCEPT !.pc = ph, !.todo = T, !.did = D]]
  PROVE  Becomes(p, ph, T, D)
<1>1. job[p] \in Job
  BY DEF TypeOK
<1>2. /\ job'[p] = [job[p] EXCEPT !.pc = ph, !.todo = T, !.did = D]
      /\ \A q \in Procs \ {p} : job'[q] = job[q]
  BY DEF TypeOK
<1>3. job'[p].pc = ph
  <2> DEFINE k == [job[p] EXCEPT !.pc = ph]
  <2>1. k.pc = ph /\ DOMAIN k = DOMAIN job[p]
    BY <1>1 DEF Job, JobRecord
  <2>2. [k EXCEPT !.todo = T].pc = k.pc /\ [k EXCEPT !.todo = T, !.did = D].pc = k.pc
    BY <1>1, <2>1 DEF Job, JobRecord
  <2> QED
    BY <1>2, <2>1, <2>2
<1>4. job'[p].todo = T
  BY <1>1, <1>2 DEF Job, JobRecord
<1>5. job'[p].did = D
  BY <1>1, <1>2 DEF Job, JobRecord
<1>6. /\ job'[p].cur = job[p].cur /\ job'[p].edits = job[p].edits
      /\ job'[p].guards = job[p].guards /\ job'[p].view = job[p].view
      /\ job'[p].goal = job[p].goal
  BY <1>1, <1>2 DEF Job, JobRecord
<1> QED
  BY <1>2, <1>3, <1>4, <1>5, <1>6 DEF Becomes

LEMMA RollbackBecomes ==
  ASSUME TypeOK, NEW p \in Procs, NEW S, BeginRollback(p, S)
  PROVE  Becomes(p, IF S = {} THEN "rbverify" ELSE "restore", S, S)
<1> DEFINE ph == IF S = {} THEN "rbverify" ELSE "restore"
<1>1. job' = [job EXCEPT ![p] =
                [job[p] EXCEPT !.pc = ph, !.todo = S, !.did = S]]
  BY DEF BeginRollback
<1> HIDE DEF ph
<1>2. Becomes(p, ph, S, S)
  BY <1>1, JobBecomes
<1> QED
  BY <1>2 DEF ph

\* A step that takes a path off todo, or moves it from todo to did.
LEMMA TakesBecomes ==
  ASSUME TypeOK, NEW p \in Procs, NEW x, NEW ph,
         job' = [job EXCEPT ![p].pc = ph, ![p].todo = @ \ {x}]
  PROVE  Becomes(p, ph, job[p].todo \ {x}, job[p].did)
<1> DEFINE T == job[p].todo \ {x}
<1>1. /\ job[p] \in Job
      /\ job' = [job EXCEPT ![p] = [job[p] EXCEPT !.pc = ph, !.todo = T]]
  BY DEF TypeOK
<1> HIDE DEF T
<1>2. /\ job'[p] = [job[p] EXCEPT !.pc = ph, !.todo = T]
      /\ \A q \in Procs \ {p} : job'[q] = job[q]
  BY <1>1 DEF TypeOK
<1>3. Becomes(p, ph, T, job[p].did)
  BY <1>1, <1>2 DEF Becomes, Job, JobRecord
<1> QED
  BY <1>3 DEF T

LEMMA MovesBecomes ==
  ASSUME TypeOK, NEW p \in Procs, NEW x, NEW ph,
         job' = [job EXCEPT ![p].pc = ph, ![p].todo = @ \ {x},
                            ![p].did = @ \cup {x}]
  PROVE  Becomes(p, ph, job[p].todo \ {x}, job[p].did \cup {x})
<1> DEFINE T == job[p].todo \ {x}  D == job[p].did \cup {x}
<1>1. job' = [job EXCEPT ![p] =
                [job[p] EXCEPT !.pc = ph, !.todo = T, !.did = D]]
  OBVIOUS
<1> HIDE DEF T, D
<1>2. Becomes(p, ph, T, D)
  BY <1>1, JobBecomes
<1> QED
  BY <1>2 DEF T, D

-----------------------------------------------------------------------------
(* What the holder of the lock knows of the tree: TreeInductive *)

\* Outside the lock a job knows of the tree what its declaration says.
LEMMA OutsideTree ==
  ASSUME NEW j, j.pc \notin Critical
  PROVE  /\ TxnTree(j) <=> (j.pc = "planned" => j.edits \cap j.guards = {})
         /\ RecoveryTree(j)
BY Phases DEF TxnTree, RecoveryTree, PhaseSets

LEMMA IdleTree ==
  ASSUME NEW p \in Procs, job'[p] = Idle
  PROVE  TxnTree(job[p])' /\ RecoveryTree(job[p])'
<1>1. job'[p].pc = "idle"
  BY DEF Idle
<1> QED
  BY <1>1, Phases DEF TxnTree, RecoveryTree, PhaseSets

\* A step of the lock holder keeps TreeInductive if its own part stays true.
LEMMA HolderTree ==
  ASSUME TypeOK, EvidenceInductive, TreeInductive, NEW p \in Procs,
         job[p].pc \in Critical, \A q \in Procs \ {p} : job'[q] = job[q],
         job'[p] # Idle => TxnTree(job[p])' /\ RecoveryTree(job[p])'
  PROVE  TreeInductive'
<1> SUFFICES ASSUME NEW q \in Procs
             PROVE  TxnTree(job[q])' /\ RecoveryTree(job[q])'
  BY DEF TreeInductive
<1>1. CASE q = p
  BY <1>1, IdleTree
<1>2. CASE q # p
  <2>1. job'[q] = job[q] /\ job[q].pc \notin Critical
    BY <1>2 DEF EvidenceInductive, LockExclusion
  <2>2. job[q].pc = "planned" => job[q].edits \cap job[q].guards = {}
    BY DEF TreeInductive, TxnTree
  <2> QED
    BY <2>1, <2>2, Phases DEF TxnTree, RecoveryTree, PhaseSets
<1> QED
  BY <1>1, <1>2

LEMMA EndTree ==
  ASSUME TypeOK, EvidenceInductive, TreeInductive, NEW p \in Procs,
         job[p].pc \in Critical, End(p)
  PROVE  TreeInductive'
BY HolderTree DEF End, TypeOK

\* What the holder knows, and that nothing but its job changes.
LEMMA HolderKnows ==
  ASSUME TypeOK, EvidenceInductive, TreeInductive, NEW p \in Procs,
         job[p].pc \in Critical
  PROVE  /\ job[p] \in Job /\ job[p].cur \in Gens /\ lock = p
         /\ Knows(job[p]) /\ TxnTree(job[p]) /\ RecoveryTree(job[p])
BY Holder DEF Knows, TreeInductive

LEMMA AdmitTree ==
  ASSUME TypeOK, EvidenceInductive, TreeInductive, NEW p \in Procs, Admit(p)
  PROVE  TreeInductive'
<1>0. job[p].pc = "admit" /\ job[p].pc \in Critical
  BY Phases DEF Admit, PhaseSets
<1>1. CASE Refuse(p)
  BY <1>0, <1>1, EndTree DEF Refuse
<1>2. CASE Goto(p, "prepare")
  <2>1. Becomes(p, "prepare", job[p].todo, job[p].did)
    BY <1>2, GotoBecomes
  <2>2. job[p].edits \cap job[p].guards = {}
    BY <1>0, HolderKnows, Phases DEF TxnTree, PhaseSets
  <2>3. TxnTree(job[p])' /\ RecoveryTree(job[p])'
    BY <2>1, <2>2, Phases DEF Becomes, TxnTree, RecoveryTree, PhaseSets
  <2> QED
    BY <1>0, <2>1, <2>3, HolderTree DEF Becomes
<1> QED
  BY <1>1, <1>2 DEF Admit

LEMMA PrepareTree ==
  ASSUME TypeOK, EvidenceInductive, TreeInductive, NEW p \in Procs, Prepare(p)
  PROVE  TreeInductive'
<1> DEFINE j == job[p]  g == job[p].cur
<1>0. job[p].pc = "prepare" /\ job[p].pc \in Critical
  BY Phases DEF Prepare, PhaseSets
<1>1. CASE Fail(p)
  BY <1>0, <1>1, EndTree DEF Fail
<1>2. CASE ~Fail(p)
  <2>1. /\ before' = [before EXCEPT ![g] = Only(j.edits, j.view)]
        /\ Goto(p, "stage")
    BY <1>2 DEF Prepare
  <2>2. Becomes(p, "stage", job[p].todo, job[p].did)
    BY <2>1, GotoBecomes
  <2>3. j.edits \cap j.guards = {} /\ g \in Gens
    BY <1>0, HolderKnows, Phases DEF TxnTree, PhaseSets
  <2>4. before'[g] = Only(j.edits, j.view)
    BY <2>1, <2>3 DEF TypeOK
  <2>5. TxnTree(job[p])' /\ RecoveryTree(job[p])'
    BY <2>2, <2>3, <2>4, Phases
       DEF Becomes, TxnTree, RecoveryTree, PhaseSets, Only
  <2> QED
    BY <1>0, <2>2, <2>5, HolderTree DEF Becomes
<1> QED
  BY <1>1, <1>2

LEMMA StageTree ==
  ASSUME TypeOK, EvidenceInductive, TreeInductive, NEW p \in Procs, Stage(p)
  PROVE  TreeInductive'
<1> DEFINE j == job[p]  g == job[p].cur
<1>0. job[p].pc = "stage" /\ job[p].pc \in Critical
  BY Phases DEF Stage, PhaseSets
<1>1. CASE Fail(p) \/ Refuse(p)
  BY <1>0, <1>1, EndTree DEF Fail, Refuse
<1>2. CASE ~Fail(p) /\ ~Refuse(p)
  <2>1. /\ job' = [job EXCEPT ![p].pc = "check", ![p].todo = j.edits]
        /\ UNCHANGED <<tree, evidence>>
        /\ Holds(j.edits \cup j.guards, j.view)
    BY <1>2 DEF Stage
  <2>2. /\ j \in Job /\ j.did = {} /\ j.edits \cap j.guards = {}
        /\ before[g] = Only(j.edits, j.view)
    BY <1>0, HolderKnows, Phases DEF Knows, LoopPhase, TxnTree, PhaseSets
  <2>3. Becomes(p, "check", j.edits, {})
    BY <2>1, <2>2 DEF Becomes, Job, JobRecord, TypeOK
  <2>4. UNCHANGED <<src, writer, before, after>>
    BY <2>1 DEF tree, evidence
  <2>5. TxnTree(job[p])' /\ RecoveryTree(job[p])'
    BY <2>1, <2>2, <2>3, <2>4, Phases
       DEF Becomes, TxnTree, RecoveryTree, PhaseSets, Only, Holds, Carries
  <2> QED
    BY <1>0, <2>3, <2>5, HolderTree DEF Becomes
<1> QED
  BY <1>1, <1>2

\* What a transaction knows while it replaces and verifies.
LEMMA WritingKnows ==
  ASSUME TypeOK, EvidenceInductive, TreeInductive, NEW p \in Procs,
         job[p].pc \in {"check", "replace", "validate", "confirm", "finalize"}
  PROVE  LET j == job[p]  g == job[p].cur IN
         /\ j \in Job /\ g \in Gens /\ lock = p /\ j.pc \in Critical
         /\ stage[g] = "prepared" /\ terminal[g] = "absent" /\ Records(g) = {}
         /\ files[g] = j.edits /\ after[g] = j.goal
         /\ before[g] = Only(j.edits, j.view) /\ j.edits \cap j.guards = {}
         /\ j.did \subseteq j.edits
         /\ Holds((j.edits \ j.did) \cup j.guards, j.view)
         /\ Holds(j.did, after[g]) /\ Carries(j.did, g)
         /\ \A x \in Paths : writer[x] = g => x \in j.did
         /\ j.pc \in {"check", "replace"} => j.todo = j.edits \ j.did
         /\ j.pc \in {"validate", "confirm", "finalize"} => j.did = j.edits
<1> DEFINE j == job[p]  g == job[p].cur
<1>0. j.pc \in Critical
  BY Phases DEF PhaseSets
<1>1. j \in Job /\ g \in Gens /\ lock = p /\ Knows(j) /\ TxnTree(j)
  BY <1>0, HolderKnows
<1>2. /\ stage[g] = "prepared" /\ terminal[g] = "absent" /\ Records(g) = {}
      /\ files[g] = j.edits /\ after[g] = j.goal
  BY <1>1, Phases DEF Knows, EvidencePhase, PhaseSets
<1>3. /\ before[g] = Only(j.edits, j.view) /\ j.edits \cap j.guards = {}
      /\ Holds((j.edits \ j.did) \cup j.guards, j.view)
      /\ Holds(j.did, after[g]) /\ Carries(j.did, g)
      /\ j.pc \in {"check", "replace"} => j.todo = j.edits \ j.did
      /\ j.pc \in {"validate", "confirm", "finalize"} => j.did = j.edits
  BY <1>1, Phases DEF TxnTree, PhaseSets
<1>4. j.did \subseteq j.edits
  BY <1>1, <1>2, <1>3, Phases DEF Knows, LoopPhase, PhaseSets
<1>5. \A x \in Paths : writer[x] = g => x \in j.did
  BY <1>1, <1>2, <1>3, WriterFiles, Phases DEF Knows, BytesPhase, PhaseSets
<1> QED
  BY <1>0, <1>1, <1>2, <1>3, <1>4, <1>5

LEMMA RollbackTree ==
  ASSUME TypeOK, EvidenceInductive, TreeInductive, NEW p \in Procs,
         job[p].pc \in {"check", "replace", "validate", "confirm", "finalize"},
         BeginRollback(p, job[p].did), UNCHANGED <<tree, files, before, after>>
  PROVE  TreeInductive'
<1> DEFINE j == job[p]  g == job[p].cur
           ph == IF j.did = {} THEN "rbverify" ELSE "restore"
<1>1. /\ j.pc \in Critical /\ files[g] = j.edits /\ j.did \subseteq j.edits
      /\ before[g] = Only(j.edits, j.view)
      /\ Holds(j.did, after[g]) /\ Carries(j.did, g)
      /\ j.edits \cap j.guards = {}
  BY WritingKnows
<1>2. Becomes(p, ph, j.did, j.did)
  BY RollbackBecomes
<1>3. ph \in {"restore", "rbverify"} /\ (ph = "rbverify" => j.did = {})
  OBVIOUS
<1> HIDE DEF ph
<1>4. UNCHANGED <<src, writer>>
  BY DEF tree
<1>5. RecoveryTree(job[p])'
  BY <1>2, <1>3, Phases DEF Becomes, RecoveryTree, PhaseSets
<1>6. TxnTree(job[p])'
  BY <1>1, <1>2, <1>3, <1>4, Phases
     DEF Becomes, TxnTree, PhaseSets, Only, Holds, Carries
<1> QED
  BY <1>1, <1>2, <1>5, <1>6, HolderTree DEF Becomes

LEMMA CheckTree ==
  ASSUME TypeOK, EvidenceInductive, TreeInductive, NEW p \in Procs, Check(p)
  PROVE  TreeInductive'
<1> DEFINE j == job[p]  g == job[p].cur
<1>0. j.pc = "check" /\ UNCHANGED <<tree, evidence>>
  BY DEF Check
<1>1. CASE BeginRollback(p, j.did)
  BY <1>0, <1>1, RollbackTree DEF evidence
<1>2. CASE Goto(p, "replace")
  <2>1. Becomes(p, "replace", j.todo, j.did)
    BY <1>2, GotoBecomes
  <2>2. UNCHANGED <<src, writer, files, before, after>>
    BY <1>0 DEF tree, evidence
  <2>3. j.pc \in Critical /\ TxnTree(j)
    BY <1>0, HolderKnows, Phases DEF PhaseSets
  <2>4. RecoveryTree(job[p])'
    BY <2>1, Phases DEF Becomes, RecoveryTree, PhaseSets
  <2>5. TxnTree(job[p])'
    BY <1>0, <2>1, <2>2, <2>3, Phases
       DEF Becomes, TxnTree, PhaseSets, Only, Holds, Carries
  <2> QED
    BY <2>1, <2>3, <2>4, <2>5, HolderTree DEF Becomes
<1> QED
  BY <1>1, <1>2 DEF Check

LEMMA ReplaceTree ==
  ASSUME TypeOK, EvidenceInductive, TreeInductive, NEW p \in Procs, Replace(p)
  PROVE  TreeInductive'
<1> DEFINE j == job[p]  g == job[p].cur
<1>0. j.pc = "replace" /\ UNCHANGED evidence
  BY DEF Replace
<1>1. CASE BeginRollback(p, j.did) /\ UNCHANGED tree
  BY <1>0, <1>1, RollbackTree DEF evidence
<1>2. CASE ~(BeginRollback(p, j.did) /\ UNCHANGED tree)
  <2> DEFINE ph(x) == IF j.todo = {x} THEN "validate" ELSE "check"
  <2>1. PICK x \in Paths :
          /\ Least(j.todo, x) /\ WriteSource(x, j.goal[x], g)
          /\ job' = [job EXCEPT ![p].pc = ph(x), ![p].todo = @ \ {x},
                                ![p].did = @ \cup {x}]
    BY <1>2 DEF Replace
  <2>2. /\ j.pc \in Critical /\ after[g] = j.goal
        /\ before[g] = Only(j.edits, j.view) /\ j.edits \cap j.guards = {}
        /\ j.did \subseteq j.edits /\ j.todo = j.edits \ j.did
        /\ Holds((j.edits \ j.did) \cup j.guards, j.view)
        /\ Holds(j.did, after[g]) /\ Carries(j.did, g)
        /\ j.edits \subseteq Paths /\ j.guards \subseteq Paths
    BY <1>0, WritingKnows DEF Job, JobRecord
  <2>3. x \in j.todo /\ Writes(x, j.goal[x], g)
    BY <2>1, WriteSourceWrites DEF Least
  <2>4. /\ ph(x) \in {"check", "validate"}
        /\ ph(x) = "validate" => j.todo = {x}
    OBVIOUS
  <2>5. Becomes(p, ph(x), j.todo \ {x}, j.did \cup {x})
    BY <2>1, MovesBecomes
  <2> HIDE DEF ph
  <2>6. UNCHANGED <<before, after>>
    BY <1>0 DEF evidence
  <2>7. RecoveryTree(job[p])'
    BY <2>4, <2>5, Phases DEF Becomes, RecoveryTree, PhaseSets
  <2>8. /\ \A y \in (j.edits \ (j.did \cup {x})) \cup j.guards : src'[y] = j.view[y]
        /\ \A y \in j.did \cup {x} : src'[y] = after[g][y] /\ writer'[y] = g
    BY <2>2, <2>3 DEF Writes, Holds, Carries
  <2>9. TxnTree(job[p])'
    BY <2>2, <2>3, <2>4, <2>5, <2>6, <2>8, Phases
       DEF Becomes, TxnTree, PhaseSets, Only, Holds, Carries
  <2> QED
    BY <2>2, <2>5, <2>7, <2>9, HolderTree DEF Becomes
<1> QED
  BY <1>1, <1>2

LEMMA VerdictTree ==
  ASSUME TypeOK, EvidenceInductive, TreeInductive, NEW p \in Procs,
         Validate(p) \/ Confirm(p) \/ Finalize(p)
  PROVE  TreeInductive'
<1> DEFINE j == job[p]  g == job[p].cur
<1>0. /\ j.pc \in {"validate", "confirm", "finalize"}
      /\ UNCHANGED <<tree, files, before, after>>
  BY DEF Validate, Confirm, Finalize, evidence
<1>1. j.did = j.edits /\ j.pc \in Critical /\ TxnTree(j)
  BY <1>0, WritingKnows, HolderKnows
<1>2. CASE BeginRollback(p, j.edits)
  BY <1>0, <1>1, <1>2, RollbackTree
<1>3. CASE End(p)
  BY <1>1, <1>3, EndTree
<1>4. ASSUME NEW ph \in {"confirm", "finalize"}, Goto(p, ph)
      PROVE  TreeInductive'
  <2>1. Becomes(p, ph, j.todo, j.did)
    BY <1>4, GotoBecomes
  <2>2. UNCHANGED <<src, writer>>
    BY <1>0 DEF tree
  <2>3. RecoveryTree(job[p])'
    BY <2>1, Phases DEF Becomes, RecoveryTree, PhaseSets
  <2>4. TxnTree(job[p])'
    BY <1>0, <1>1, <2>1, <2>2, Phases
       DEF Becomes, TxnTree, PhaseSets, Only, Holds, Carries
  <2> QED
    BY <1>1, <2>1, <2>3, <2>4, HolderTree DEF Becomes
<1> QED
  BY <1>2, <1>3, <1>4 DEF Validate, Confirm, Finalize

\* What a transaction knows while it rolls back.
LEMMA RestoringKnows ==
  ASSUME TypeOK, EvidenceInductive, TreeInductive, NEW p \in Procs,
         job[p].pc \in {"restore", "rbverify"}
  PROVE  LET j == job[p]  g == job[p].cur IN
         /\ j \in Job /\ g \in Gens /\ lock = p /\ j.pc \in Critical
         /\ stage[g] = "prepared" /\ terminal[g] = "absent" /\ Records(g) = {}
         /\ files[g] = j.edits /\ before[g] = Only(j.edits, j.view)
         /\ j.edits \cap j.guards = {}
         /\ j.todo \subseteq j.did /\ j.did \subseteq files[g]
         /\ Holds(j.todo, after[g]) /\ Holds(j.did \ j.todo, before[g])
         /\ Carries(j.did, g)
         /\ j.pc = "rbverify" => j.todo = {}
<1> DEFINE j == job[p]  g == job[p].cur
<1>0. j.pc \in Critical
  BY Phases DEF PhaseSets
<1>1. j \in Job /\ g \in Gens /\ lock = p /\ Knows(j) /\ TxnTree(j)
  BY <1>0, HolderKnows
<1>2. /\ stage[g] = "prepared" /\ terminal[g] = "absent" /\ Records(g) = {}
      /\ files[g] = j.edits
  BY <1>1, Phases DEF Knows, EvidencePhase, PhaseSets
<1>3. /\ before[g] = Only(j.edits, j.view) /\ j.edits \cap j.guards = {}
      /\ j.todo \subseteq j.did /\ j.did \subseteq files[g]
      /\ Holds(j.todo, after[g]) /\ Holds(j.did \ j.todo, before[g])
      /\ Carries(j.did, g)
      /\ j.pc = "rbverify" => j.todo = {}
  BY <1>1, Phases DEF TxnTree, PhaseSets
<1> QED
  BY <1>0, <1>1, <1>2, <1>3

LEMMA RestoreTree ==
  ASSUME TypeOK, EvidenceInductive, TreeInductive, NEW p \in Procs, Restore(p)
  PROVE  TreeInductive'
<1> DEFINE j == job[p]  g == job[p].cur
           ph(x) == IF j.todo = {x} THEN "rbverify" ELSE "restore"
<1>0. j.pc = "restore" /\ j.pc \in Critical
  BY Phases DEF Restore, PhaseSets
<1>1. CASE Fail(p)
  BY <1>0, <1>1, EndTree DEF Fail
<1>2. CASE ~Fail(p)
  <2>1. PICK x \in Paths :
          /\ Least(j.todo, x) /\ WriteSource(x, before[g][x], g)
          /\ job' = [job EXCEPT ![p].pc = ph(x), ![p].todo = @ \ {x}]
    BY <1>2 DEF Restore
  <2>2. /\ j.todo \subseteq j.did /\ j.did \subseteq files[g]
        /\ Holds(j.todo, after[g]) /\ Holds(j.did \ j.todo, before[g])
        /\ Carries(j.did, g) /\ before[g] = Only(j.edits, j.view)
        /\ j.edits \cap j.guards = {} /\ j.did \subseteq Paths
    BY <1>0, RestoringKnows DEF Job, JobRecord
  <2>3. x \in j.todo /\ Writes(x, before[g][x], g)
    BY <2>1, WriteSourceWrites DEF Least
  <2>4. /\ ph(x) \in {"restore", "rbverify"}
        /\ ph(x) = "rbverify" => j.todo \ {x} = {}
    OBVIOUS
  <2>5. Becomes(p, ph(x), j.todo \ {x}, j.did)
    BY <2>1, TakesBecomes
  <2> HIDE DEF ph
  <2>6. UNCHANGED <<files, before, after>>
    BY <1>2 DEF Restore, evidence
  <2>7. RecoveryTree(job[p])'
    BY <2>4, <2>5, Phases DEF Becomes, RecoveryTree, PhaseSets
  <2>8. /\ \A y \in j.todo \ {x} : src'[y] = after[g][y]
        /\ \A y \in j.did \ (j.todo \ {x}) : src'[y] = before[g][y]
        /\ \A y \in j.did : writer'[y] = g
    BY <2>2, <2>3 DEF Writes, Holds, Carries
  <2>9. TxnTree(job[p])'
    BY <2>2, <2>4, <2>5, <2>6, <2>8, Phases
       DEF Becomes, TxnTree, PhaseSets, Only, Holds, Carries
  <2> QED
    BY <1>0, <2>5, <2>7, <2>9, HolderTree DEF Becomes
<1> QED
  BY <1>1, <1>2

LEMMA RbTree ==
  ASSUME TypeOK, EvidenceInductive, TreeInductive, NEW p \in Procs,
         RbVerify(p) \/ RbPublish(p)
  PROVE  TreeInductive'
<1> DEFINE j == job[p]
<1>0. j.pc \in {"rbverify", "rbpublish"} /\ j.pc \in Critical
  BY Phases DEF RbVerify, RbPublish, PhaseSets
<1>1. CASE End(p)
  BY <1>0, <1>1, EndTree
<1>2. CASE Goto(p, "rbpublish") /\ UNCHANGED <<tree, evidence>>
  <2>1. Becomes(p, "rbpublish", j.todo, j.did)
    BY <1>2, GotoBecomes
  <2>2. TxnTree(j) /\ UNCHANGED before
    BY <1>0, <1>2, HolderKnows DEF evidence
  <2>3. TxnTree(job[p])' /\ RecoveryTree(job[p])'
    BY <1>0, <2>1, <2>2, Phases
       DEF Becomes, TxnTree, RecoveryTree, PhaseSets, Only
  <2> QED
    BY <1>0, <2>1, <2>3, HolderTree DEF Becomes
<1> QED
  BY <1>1, <1>2 DEF RbVerify, RbPublish, Refuse, Fail

LEMMA TxnTreeInductive ==
  ASSUME TypeOK, EvidenceInductive, TreeInductive, NEW p \in Procs, TxnStep(p)
  PROVE  TreeInductive'
BY AdmitTree, PrepareTree, StageTree, CheckTree, ReplaceTree, VerdictTree,
   RestoreTree, RbTree DEF TxnStep

\* A step of a recovery is correct if what it knows of the tree stays true.
LEMMA RecoveryHolder ==
  ASSUME TypeOK, EvidenceInductive, TreeInductive, NEW p \in Procs,
         NEW ph \in IntPhases \cup CmpPhases, job[p].pc \in Critical,
         job'[p].pc = ph, \A q \in Procs \ {p} : job'[q] = job[q],
         RecoveryTree(job[p])'
  PROVE  TreeInductive'
<1>1. TxnTree(job[p])'
  BY Phases DEF TxnTree, PhaseSets
<1> QED
  BY <1>1, HolderTree

LEMMA ILoadTree ==
  ASSUME TypeOK, EvidenceInductive, TreeInductive, NEW p \in Procs, ILoad(p)
  PROVE  TreeInductive'
<1> DEFINE j == job[p]  g == job[p].cur
           written == {x \in files[g] : src[x] # before[g][x]}
<1>0. j.pc = "iload" /\ j.pc \in Critical /\ j \in Job
  BY HolderKnows, Phases DEF ILoad, PhaseSets
<1>1. CASE Refuse(p)
  BY <1>0, <1>1, EndTree DEF Refuse
<1>2. CASE ~Refuse(p)
  <2>1. PICK ph \in {"irecord", "ifinal", "icheck"}, s \in Stamps :
          job' = [job EXCEPT ![p].pc = ph, ![p].stamp = s, ![p].todo = written]
    BY <1>0, <1>2 DEF ILoad, Job, JobRecord, IntPhases, RecoveryPhases
  <2>2. /\ \A x \in files[g] : src[x] \in {before[g][x], after[g][x]}
        /\ UNCHANGED <<tree, evidence>>
    BY <1>2 DEF ILoad
  <2>3. /\ job'[p].pc = ph /\ job'[p].todo = written /\ job'[p].cur = g
        /\ \A q \in Procs \ {p} : job'[q] = job[q]
    BY <1>0, <2>1 DEF Job, JobRecord, TypeOK
  <2>4. UNCHANGED <<src, after>>
    BY <2>2 DEF tree, evidence
  <2>5. Holds(written, after[g])
    BY <2>2 DEF Holds
  <2>6. RecoveryTree(job[p])'
    BY <2>3, <2>4, <2>5 DEF RecoveryTree, Holds
  <2>7. ph \in IntPhases \cup CmpPhases
    BY Phases DEF PhaseSets
  <2> QED
    BY <1>0, <2>3, <2>6, <2>7, RecoveryHolder
<1> QED
  BY <1>1, <1>2

LEMMA QuietIntTree ==
  ASSUME TypeOK, EvidenceInductive, TreeInductive, NEW p \in Procs,
         IRecord(p) \/ ICheck(p) \/ IFinal(p) \/ IPublish(p)
  PROVE  TreeInductive'
<1> DEFINE j == job[p]  g == job[p].cur
<1>0. /\ j.pc \in {"irecord", "icheck", "ifinal", "ipublish"} /\ j.pc \in Critical
      /\ RecoveryTree(j)
  BY HolderKnows, Phases DEF IRecord, ICheck, IFinal, IPublish, PhaseSets
<1>1. UNCHANGED <<src, after>>
  BY DEF IRecord, ICheck, IFinal, IPublish, Fail, tree, genVars, evidence
<1>2. CASE End(p)
  BY <1>0, <1>2, EndTree
<1>3. ASSUME NEW ph \in {"icheck", "iwrite", "ifinal", "ipublish"}, Goto(p, ph),
             ph \in {"icheck", "iwrite"} => j.pc \in {"irecord", "icheck"}
      PROVE  TreeInductive'
  <2>1. Becomes(p, ph, j.todo, j.did)
    BY <1>3, GotoBecomes
  <2>2. RecoveryTree(job[p])'
    BY <1>0, <1>1, <1>3, <2>1 DEF Becomes, RecoveryTree, Holds
  <2>3. ph \in IntPhases \cup CmpPhases
    BY Phases DEF PhaseSets
  <2> QED
    BY <1>0, <2>1, <2>2, <2>3, RecoveryHolder DEF Becomes
<1> QED
  BY <1>2, <1>3 DEF IRecord, ICheck, IFinal, IPublish, Fail

LEMMA IWriteTree ==
  ASSUME TypeOK, EvidenceInductive, TreeInductive, NEW p \in Procs, IWrite(p)
  PROVE  TreeInductive'
<1> DEFINE j == job[p]  g == job[p].cur
           ph(x) == IF j.todo = {x} THEN "ifinal" ELSE "icheck"
<1>0. /\ j.pc = "iwrite" /\ j.pc \in Critical /\ RecoveryTree(j)
      /\ j.todo \subseteq Paths
  BY HolderKnows, Phases DEF IWrite, PhaseSets, Job, JobRecord
<1>1. CASE Fail(p) \/ Refuse(p)
  BY <1>0, <1>1, EndTree DEF Fail, Refuse
<1>2. CASE ~Fail(p) /\ ~Refuse(p)
  <2>1. PICK x \in Paths :
          /\ Least(j.todo, x) /\ WriteSource(x, before[g][x], g)
          /\ job' = [job EXCEPT ![p].pc = ph(x), ![p].todo = @ \ {x}]
    BY <1>2 DEF IWrite
  <2>2. Writes(x, before[g][x], g)
    BY <2>1, WriteSourceWrites
  <2>3. ph(x) \in {"ifinal", "icheck"} /\ ph(x) \in IntPhases \cup CmpPhases
    BY Phases DEF PhaseSets
  <2>4. Becomes(p, ph(x), j.todo \ {x}, j.did)
    BY <2>1, TakesBecomes
  <2> HIDE DEF ph
  <2>5. UNCHANGED after
    BY <1>2 DEF IWrite, evidence
  <2>6. Holds(j.todo, after[g])
    BY <1>0 DEF RecoveryTree
  <2>7. RecoveryTree(job[p])'
    BY <1>0, <2>2, <2>3, <2>4, <2>5, <2>6
       DEF Becomes, RecoveryTree, Holds, Writes
  <2> QED
    BY <1>0, <2>3, <2>4, <2>7, RecoveryHolder DEF Becomes
<1> QED
  BY <1>1, <1>2

LEMMA IntTreeInductive ==
  ASSUME TypeOK, EvidenceInductive, TreeInductive, NEW p \in Procs, IntStep(p)
  PROVE  TreeInductive'
BY ILoadTree, QuietIntTree, IWriteTree DEF IntStep

\* What a completed recovery knows once it restores, and while it undoes.
LEMMA UndoingKnows ==
  ASSUME TypeOK, EvidenceInductive, TreeInductive, NEW p \in Procs,
         job[p].pc \in Undoing
  PROVE  LET j == job[p]  g == job[p].cur IN
         /\ j \in Job /\ g \in Gens /\ lock = p /\ j.pc \in Critical
         /\ stage[g] = "prepared" /\ terminal[g] # "absent"
         /\ j.did \subseteq files[g] /\ files[g] \subseteq Paths
         /\ Holds(files[g] \ j.did, after[g]) /\ Holds(j.did, before[g])
         /\ Carries(j.did, g)
         /\ \A x \in j.did : j.held[x] \in {Absent, after[g][x]}
         /\ j.pc = "crestore" => j.todo = files[g] \ j.did
         /\ j.pc \in {"cverify", "cdrop", "cpublish"} => j.did = files[g]
<1> DEFINE j == job[p]  g == job[p].cur
<1>0. j.pc \in Critical /\ j.pc \in CmpPhases \ {"cload", "crecord"}
  BY Phases DEF PhaseSets, Undoing
<1>1. j \in Job /\ g \in Gens /\ lock = p /\ Knows(j) /\ RecoveryTree(j)
  BY <1>0, HolderKnows
<1>2. stage[g] = "prepared" /\ terminal[g] # "absent" /\ files[g] \subseteq Paths
  BY <1>0, <1>1, OpenRecord DEF TypeOK
<1>3. /\ Holds(files[g] \ j.did, after[g]) /\ Holds(j.did, before[g])
      /\ Carries(j.did, g)
      /\ \A x \in j.did : j.held[x] \in {Absent, after[g][x]}
      /\ j.pc = "crestore" => j.todo = files[g] \ j.did
      /\ j.pc \in {"cverify", "cdrop", "cpublish"} => j.did = files[g]
  BY <1>1 DEF RecoveryTree, Undoing
<1>4. j.did \subseteq files[g]
  BY <1>1 DEF Knows, LoopPhase, Undoing
<1> QED
  BY <1>0, <1>1, <1>2, <1>3, <1>4

LEMMA UndoBegins ==
  ASSUME TypeOK, EvidenceInductive, TreeInductive, NEW p \in Procs,
         job[p].pc \in Undoing \/ (job[p].pc = "cpreflight" /\ job[p].did = {}),
         BeginUndo(p), UNCHANGED <<tree, files, before, after>>
  PROVE  TreeInductive'
<1> DEFINE j == job[p]
<1>0. j.pc \in Critical /\ "cundo" \in IntPhases \cup CmpPhases
  BY Phases DEF PhaseSets, Undoing
<1>1. CASE j.did = {}
  BY <1>0, <1>1, EndTree DEF BeginUndo
<1>2. CASE j.did # {}
  <2>1. Becomes(p, "cundo", j.todo, j.did) /\ job'[p].held = j.held
    BY <1>2, GotoBecomes DEF BeginUndo
  <2>2. UNCHANGED <<src, writer, files, before, after>>
    BY DEF tree
  <2>3. RecoveryTree(job[p])'
    BY <1>2, <2>1, <2>2, UndoingKnows DEF Becomes, RecoveryTree, Holds, Carries
  <2> QED
    BY <1>0, <2>1, <2>3, RecoveryHolder DEF Becomes
<1> QED
  BY <1>1, <1>2

LEMMA CLoadTree ==
  ASSUME TypeOK, EvidenceInductive, TreeInductive, NEW p \in Procs, CLoad(p)
  PROVE  TreeInductive'
<1> DEFINE j == job[p]  g == job[p].cur
<1>0. j.pc = "cload" /\ j.pc \in Critical /\ "crecord" \in IntPhases \cup CmpPhases
  BY Phases DEF CLoad, PhaseSets
<1>1. CASE Refuse(p)
  BY <1>0, <1>1, EndTree DEF Refuse
<1>2. CASE ~Refuse(p)
  <2>1. /\ Goto(p, "crecord") /\ UNCHANGED <<tree, evidence>>
        /\ Holds(files[g], after[g])
    BY <1>2 DEF CLoad
  <2>2. Becomes(p, "crecord", j.todo, j.did)
    BY <2>1, GotoBecomes
  <2>3. UNCHANGED <<src, files, after>>
    BY <2>1 DEF tree, evidence
  <2>4. RecoveryTree(job[p])'
    BY <2>1, <2>2, <2>3 DEF Becomes, RecoveryTree, Holds
  <2> QED
    BY <1>0, <2>2, <2>4, RecoveryHolder DEF Becomes
<1> QED
  BY <1>1, <1>2

LEMMA CRecordTree ==
  ASSUME TypeOK, EvidenceInductive, TreeInductive, NEW p \in Procs, CRecord(p)
  PROVE  TreeInductive'
<1> DEFINE j == job[p]  g == job[p].cur
<1>0. /\ j.pc = "crecord" /\ j.pc \in Critical /\ RecoveryTree(j)
      /\ "cpreflight" \in IntPhases \cup CmpPhases
  BY HolderKnows, Phases DEF CRecord, PhaseSets
<1>1. CASE End(p)
  BY <1>0, <1>1, EndTree
<1>2. CASE Goto(p, "cpreflight") /\ UNCHANGED <<tree, genVars>>
  <2>1. Becomes(p, "cpreflight", j.todo, j.did)
    BY <1>2, GotoBecomes
  <2>2. UNCHANGED <<src, files, after>>
    BY <1>2 DEF tree, genVars
  <2>3. RecoveryTree(job[p])'
    BY <1>0, <2>1, <2>2 DEF Becomes, RecoveryTree, Holds
  <2> QED
    BY <1>0, <2>1, <2>3, RecoveryHolder DEF Becomes
<1> QED
  BY <1>1, <1>2 DEF CRecord, Refuse

LEMMA CPreflightTree ==
  ASSUME TypeOK, EvidenceInductive, TreeInductive, NEW p \in Procs, CPreflight(p)
  PROVE  TreeInductive'
<1> DEFINE j == job[p]  g == job[p].cur
<1>0. /\ j.pc = "cpreflight" /\ j.pc \in Critical /\ j \in Job /\ RecoveryTree(j)
      /\ Knows(j) /\ "crestore" \in IntPhases \cup CmpPhases
      /\ UNCHANGED <<tree, evidence>>
  BY HolderKnows, Phases DEF CPreflight, PhaseSets
<1>1. j.did = {}
  BY <1>0 DEF Knows, LoopPhase
<1>2. UNCHANGED <<src, files, before, after>>
  BY <1>0 DEF tree, evidence
<1>3. CASE BeginUndo(p)
  BY <1>0, <1>1, <1>2, <1>3, UndoBegins
<1>4. CASE job' = [job EXCEPT ![p].pc = "crestore", ![p].todo = files[g]]
  <2>1. Becomes(p, "crestore", files[g], {})
    BY <1>0, <1>1, <1>4 DEF Becomes, Job, JobRecord, TypeOK
  <2>2. RecoveryTree(job[p])'
    BY <1>0, <1>2, <2>1 DEF Becomes, RecoveryTree, Holds, Carries
  <2> QED
    BY <1>0, <2>1, <2>2, RecoveryHolder DEF Becomes
<1> QED
  BY <1>3, <1>4 DEF CPreflight

\* The step that puts one file back, whatever it sets aside.
LEMMA PutsBack ==
  ASSUME TypeOK, NEW p \in Procs, job[p].pc = "crestore", CRestore(p)
  PROVE  \/ BeginUndo(p) /\ UNCHANGED <<tree, evidence>>
         \/ \E x \in Paths :
              LET ph == IF job[p].todo = {x} THEN "cverify" ELSE "crestore"
                  g == job[p].cur IN
              /\ Least(job[p].todo, x) /\ ~Gone(job[p].todo, before[g])
              /\ Writes(x, before[g][x], g)
              /\ Becomes(p, ph, job[p].todo \ {x}, job[p].did \cup {x})
              /\ job'[p].held[x] \in {Absent, src[x]}
              /\ \A y \in Paths \ {x} : job'[p].held[y] = job[p].held[y]
              /\ UNCHANGED <<evidence, lock, left>>
<1> DEFINE j == job[p]  g == job[p].cur
<1>1. UNCHANGED evidence
  BY DEF CRestore
<1>2. CASE BeginUndo(p) /\ UNCHANGED tree
  BY <1>1, <1>2
<1>3. CASE ~(BeginUndo(p) /\ UNCHANGED tree)
  <2> DEFINE ph(x) == IF j.todo = {x} THEN "cverify" ELSE "crestore"
             H(x) == [j.held EXCEPT ![x] =
                        IF before[g][x] = Absent THEN src[x] ELSE Absent]
  <2>1. PICK x \in Paths :
          /\ Least(j.todo, x) /\ ~Gone(j.todo, before[g])
          /\ WriteSource(x, before[g][x], g)
          /\ job' = [job EXCEPT ![p].pc = ph(x), ![p].todo = @ \ {x},
               ![p].did = @ \cup {x},
               ![p].held = [@ EXCEPT ![x] =
                 IF before[g][x] = Absent THEN src[x] ELSE Absent]]
          /\ UNCHANGED <<lock, left>>
    BY <1>3 DEF CRestore
  <2>2. j \in Job /\ j.held \in [Paths -> Bytes]
    BY DEF TypeOK, Job, JobRecord
  <2>3. /\ H(x)[x] \in {Absent, src[x]}
        /\ \A y \in Paths \ {x} : H(x)[y] = j.held[y]
    BY <2>2
  <2> DEFINE T == j.todo \ {x}  D == j.did \cup {x}  f == ph(x)  h == H(x)
  <2>4. job' = [job EXCEPT ![p] =
                  [j EXCEPT !.pc = f, !.todo = T, !.did = D, !.held = h]]
    BY <2>1
  <2> HIDE DEF T, D, f, h, H, ph
  <2>5. /\ job'[p] = [j EXCEPT !.pc = f, !.todo = T, !.did = D, !.held = h]
        /\ \A q \in Procs \ {p} : job'[q] = job[q]
    BY <2>4 DEF TypeOK
  <2>6. job'[p].held = h
    BY <2>2, <2>5 DEF Job, JobRecord
  <2>7. Becomes(p, f, T, D)
    BY <2>2, <2>5 DEF Becomes, Job, JobRecord
  <2>8. Writes(x, before[g][x], g)
    BY <2>1, WriteSourceWrites
  <2> QED
    BY <1>1, <2>1, <2>3, <2>6, <2>7, <2>8 DEF T, D, f, h, ph
<1> QED
  BY <1>2, <1>3

LEMMA CRestoreTree ==
  ASSUME TypeOK, EvidenceInductive, TreeInductive, NEW p \in Procs, CRestore(p)
  PROVE  TreeInductive'
<1> DEFINE j == job[p]  g == job[p].cur
<1>0. j.pc = "crestore" /\ j.pc \in Undoing
  BY DEF CRestore, Undoing
<1>1. CASE BeginUndo(p) /\ UNCHANGED <<tree, evidence>>
  <2>1. UNCHANGED <<tree, files, before, after>>
    BY <1>1 DEF evidence
  <2> QED
    BY <1>0, <1>1, <2>1, UndoBegins
<1>2. CASE ~(BeginUndo(p) /\ UNCHANGED <<tree, evidence>>)
  <2> DEFINE ph(x) == IF j.todo = {x} THEN "cverify" ELSE "crestore"
  <2>1. PICK x \in Paths :
          /\ Least(j.todo, x) /\ Writes(x, before[g][x], g)
          /\ Becomes(p, ph(x), j.todo \ {x}, j.did \cup {x})
          /\ job'[p].held[x] \in {Absent, src[x]}
          /\ \A y \in Paths \ {x} : job'[p].held[y] = j.held[y]
          /\ UNCHANGED evidence
    BY <1>0, <1>2, PutsBack
  <2>2. /\ j.did \subseteq files[g] /\ files[g] \subseteq Paths /\ j.pc \in Critical
        /\ Holds(files[g] \ j.did, after[g]) /\ Holds(j.did, before[g])
        /\ Carries(j.did, g) /\ j.todo = files[g] \ j.did
        /\ \A y \in j.did : j.held[y] \in {Absent, after[g][y]}
    BY <1>0, UndoingKnows
  <2>3. x \in j.todo /\ src[x] = after[g][x]
    BY <2>1, <2>2 DEF Least, Holds
  <2>4. /\ ph(x) \in {"crestore", "cverify"}
        /\ ph(x) = "cverify" => j.todo = {x}
        /\ ph(x) \in IntPhases \cup CmpPhases
    BY Phases DEF PhaseSets
  <2> HIDE DEF ph
  <2>5. UNCHANGED <<files, before, after>>
    BY <2>1 DEF evidence
  <2>6. /\ \A y \in files[g] \ (j.did \cup {x}) : src'[y] = after[g][y]
        /\ \A y \in j.did \cup {x} :
             /\ src'[y] = before[g][y] /\ writer'[y] = g
             /\ job'[p].held[y] \in {Absent, after[g][y]}
    BY <2>1, <2>2, <2>3 DEF Writes, Holds, Carries
  <2>7. RecoveryTree(job[p])'
    BY <2>1, <2>2, <2>3, <2>4, <2>5, <2>6
       DEF Becomes, RecoveryTree, Holds, Carries
  <2> QED
    BY <2>1, <2>2, <2>4, <2>7, RecoveryHolder DEF Becomes
<1> QED
  BY <1>1, <1>2

LEMMA CVerifyTree ==
  ASSUME TypeOK, EvidenceInductive, TreeInductive, NEW p \in Procs, CVerify(p)
  PROVE  TreeInductive'
<1> DEFINE j == job[p]  g == job[p].cur
<1>0. /\ j.pc = "cverify" /\ j.pc \in Undoing /\ UNCHANGED <<tree, evidence>>
      /\ "cdrop" \in IntPhases \cup CmpPhases
  BY Phases DEF CVerify, Undoing, PhaseSets
<1>1. CASE BeginUndo(p)
  <2>1. UNCHANGED <<tree, files, before, after>>
    BY <1>0 DEF evidence
  <2> QED
    BY <1>0, <1>1, <2>1, UndoBegins
<1>2. CASE Goto(p, "cdrop")
  <2>1. Becomes(p, "cdrop", j.todo, j.did) /\ job'[p].held = j.held
    BY <1>2, GotoBecomes
  <2>2. UNCHANGED <<src, writer, files, before, after>>
    BY <1>0 DEF tree, evidence
  <2>3. j.pc \in Critical /\ RecoveryTree(job[p])'
    BY <1>0, <2>1, <2>2, UndoingKnows DEF Becomes, RecoveryTree, Holds, Carries
  <2> QED
    BY <1>0, <2>1, <2>3, RecoveryHolder DEF Becomes
<1> QED
  BY <1>1, <1>2 DEF CVerify

\* Some of the files set aside are dropped, or all of them.
LEMMA Drops ==
  ASSUME TypeOK, NEW p \in Procs, CDrop(p)
  PROVE  \E ph \in {"cundo", "cpublish"} :
           /\ Becomes(p, ph, job[p].todo, job[p].did)
           /\ \A x \in Paths : job'[p].held[x] \in {Absent, job[p].held[x]}
<1> DEFINE j == job[p]
<1>1. PICK ph \in {"cundo", "cpublish"} :
        \E h : /\ job' = [job EXCEPT ![p].pc = ph, ![p].held = h]
              /\ \A x \in Paths : h[x] \in {Absent, j.held[x]}
  <2>1. ASSUME NEW kept \in SUBSET j.did
        PROVE  \A x \in Paths : Only(kept, j.held)[x] \in {Absent, j.held[x]}
    BY DEF Only
  <2>2. \A x \in Paths : NoBytes[x] = Absent
    BY DEF NoBytes
  <2> QED
    BY <2>1, <2>2 DEF CDrop
<1>2. PICK h : /\ job' = [job EXCEPT ![p].pc = ph, ![p].held = h]
               /\ \A x \in Paths : h[x] \in {Absent, j.held[x]}
  BY <1>1
<1>3. j \in Job
  BY DEF TypeOK
<1>4. /\ job'[p] = [j EXCEPT !.pc = ph, !.held = h]
      /\ \A q \in Procs \ {p} : job'[q] = job[q]
  BY <1>2 DEF TypeOK
<1>5. job'[p].held = h
  BY <1>3, <1>4 DEF Job, JobRecord
<1>6. Becomes(p, ph, j.todo, j.did)
  BY <1>3, <1>4 DEF Becomes, Job, JobRecord
<1> QED
  BY <1>2, <1>5, <1>6

LEMMA CDropTree ==
  ASSUME TypeOK, EvidenceInductive, TreeInductive, NEW p \in Procs, CDrop(p)
  PROVE  TreeInductive'
<1> DEFINE j == job[p]  g == job[p].cur
<1>0. j.pc = "cdrop" /\ j.pc \in Undoing /\ UNCHANGED <<tree, evidence>>
  BY DEF CDrop, Undoing
<1>1. PICK ph \in {"cundo", "cpublish"} :
        /\ Becomes(p, ph, j.todo, j.did)
        /\ \A x \in Paths : job'[p].held[x] \in {Absent, j.held[x]}
  BY Drops
<1>2. UNCHANGED <<src, writer, files, before, after>>
  BY <1>0 DEF tree, evidence
<1>3. j.pc \in Critical /\ RecoveryTree(job[p])'
  BY <1>0, <1>1, <1>2, UndoingKnows DEF Becomes, RecoveryTree, Holds, Carries
<1>4. ph \in IntPhases \cup CmpPhases
  BY Phases DEF PhaseSets
<1> QED
  BY <1>1, <1>3, <1>4, RecoveryHolder DEF Becomes

LEMMA CPublishTree ==
  ASSUME TypeOK, EvidenceInductive, TreeInductive, NEW p \in Procs, CPublish(p)
  PROVE  TreeInductive'
<1>0. job[p].pc = "cpublish" /\ job[p].pc \in Undoing
      /\ UNCHANGED <<tree, genVars>>
  BY DEF CPublish, Undoing
<1>1. CASE BeginUndo(p)
  <2>1. UNCHANGED <<tree, files, before, after>>
    BY <1>0 DEF genVars
  <2> QED
    BY <1>0, <1>1, <2>1, UndoBegins
<1>2. CASE End(p)
  BY <1>0, <1>2, EndTree, UndoingKnows
<1> QED
  BY <1>1, <1>2 DEF CPublish

\* The step that puts the after bytes back at one file.
LEMMA UndoesOne ==
  ASSUME TypeOK, EvidenceInductive, TreeInductive, NEW p \in Procs, CUndo(p),
         ~Fail(p)
  PROVE  \E x \in job[p].did :
           /\ Writes(x, after[job[p].cur][x], job[p].cur)
           /\ src[x] = before[job[p].cur][x]
           /\ \/ job[p].did = {x} /\ End(p)
              \/ /\ job[p].did # {x} /\ UNCHANGED lock
                 /\ Becomes(p, "cundo", job[p].todo, job[p].did \ {x})
                 /\ job'[p].held = job[p].held
<1> DEFINE j == job[p]  g == job[p].cur
           bytes(x) == IF j.held[x] # Absent THEN j.held[x] ELSE after[g][x]
<1>0. j.pc = "cundo" /\ j.pc \in Undoing
  BY DEF CUndo, Undoing
<1>1. PICK x \in Paths :
        /\ Greatest(j.did, x)
        /\ WriteSource(x, bytes(x), IF bytes(x) = after[g][x] THEN g ELSE Author)
        /\ IF j.did = {x} THEN End(p)
           ELSE job' = [job EXCEPT ![p].did = @ \ {x}] /\ UNCHANGED lock
  BY DEF CUndo
<1>2. x \in j.did /\ bytes(x) = after[g][x] /\ src[x] = before[g][x]
  BY <1>0, <1>1, UndoingKnows DEF Greatest, Holds
<1> HIDE DEF bytes
<1>3. Writes(x, after[g][x], g)
  BY <1>1, <1>2, WriteSourceWrites
<1>4. CASE j.did # {x}
  <2> DEFINE D == j.did \ {x}
  <2>1. j \in Job /\ job' = [job EXCEPT ![p] = [j EXCEPT !.did = D]]
    BY <1>1, <1>4 DEF TypeOK
  <2> HIDE DEF D
  <2>2. /\ job'[p] = [j EXCEPT !.did = D]
        /\ \A q \in Procs \ {p} : job'[q] = job[q]
    BY <2>1 DEF TypeOK
  <2>3. Becomes(p, "cundo", j.todo, D) /\ job'[p].held = j.held
    BY <1>0, <2>1, <2>2 DEF Becomes, Job, JobRecord
  <2> QED
    BY <1>1, <1>2, <1>3, <1>4, <2>3 DEF D
<1> QED
  BY <1>1, <1>2, <1>3, <1>4

LEMMA CUndoTree ==
  ASSUME TypeOK, EvidenceInductive, TreeInductive, NEW p \in Procs, CUndo(p)
  PROVE  TreeInductive'
<1> DEFINE j == job[p]  g == job[p].cur
<1>0. j.pc = "cundo" /\ j.pc \in Undoing /\ "cundo" \in IntPhases \cup CmpPhases
  BY Phases DEF CUndo, Undoing, PhaseSets
<1>1. /\ j.pc \in Critical /\ j.did \subseteq files[g] /\ files[g] \subseteq Paths
      /\ Holds(files[g] \ j.did, after[g]) /\ Holds(j.did, before[g])
      /\ Carries(j.did, g)
      /\ \A x \in j.did : j.held[x] \in {Absent, after[g][x]}
  BY <1>0, UndoingKnows
<1>2. CASE Fail(p)
  BY <1>1, <1>2, EndTree DEF Fail
<1>3. CASE ~Fail(p)
  <2>1. PICK x \in j.did :
          /\ Writes(x, after[g][x], g)
          /\ \/ End(p)
             \/ /\ Becomes(p, "cundo", j.todo, j.did \ {x})
                /\ job'[p].held = j.held
    BY <1>3, UndoesOne
  <2>2. CASE End(p)
    BY <1>1, <2>2, EndTree
  <2>3. CASE /\ Becomes(p, "cundo", j.todo, j.did \ {x})
             /\ job'[p].held = j.held
    <3>1. UNCHANGED <<files, before, after>>
      BY <1>3 DEF CUndo, evidence
    <3>2. /\ \A y \in files[g] \ (j.did \ {x}) : src'[y] = after[g][y]
          /\ \A y \in j.did \ {x} : src'[y] = before[g][y] /\ writer'[y] = g
      BY <1>1, <2>1 DEF Writes, Holds, Carries
    <3>3. RecoveryTree(job[p])'
      BY <1>1, <2>3, <3>1, <3>2 DEF Becomes, RecoveryTree, Holds, Carries
    <3> QED
      BY <1>0, <1>1, <2>3, <3>3, RecoveryHolder DEF Becomes
  <2> QED
    BY <2>1, <2>2, <2>3
<1> QED
  BY <1>2, <1>3

LEMMA CmpTreeInductive ==
  ASSUME TypeOK, EvidenceInductive, TreeInductive, NEW p \in Procs, CmpStep(p)
  PROVE  TreeInductive'
BY CLoadTree, CRecordTree, CPreflightTree, CRestoreTree, CVerifyTree,
   CDropTree, CPublishTree, CUndoTree DEF CmpStep

\* An idle process declares a write or takes up a recovery.
LEMMA StartTree ==
  ASSUME TypeOK, EvidenceInductive, TreeInductive, NEW p \in Procs, Start(p)
  PROVE  TreeInductive'
<1>1. /\ UNCHANGED <<src, writer, files, before, after>>
      /\ \A q \in Procs \ {p} : job'[q] = job[q]
  BY DEF Start, Plan, Declare, IStart, CStart, tree, evidence, TypeOK
<1>2. job'[p].pc \in {"planned", "iwait", "cwait"}
  <2>1. ASSUME NEW g, NEW pin, NEW E, NEW G, NEW goal,
               Declare(p, g, pin, E, G, goal)
        PROVE  job'[p].pc = "planned"
    BY <2>1 DEF Declare, Idle, TypeOK
  <2>2. CASE Plan(p)
    BY <2>1, <2>2 DEF Plan
  <2>3. p \in DOMAIN job
    BY DEF TypeOK
  <2>4. CASE IStart(p)
    BY <2>3, <2>4 DEF IStart, Idle
  <2>5. CASE CStart(p)
    BY <2>3, <2>5 DEF CStart, Idle
  <2> QED
    BY <2>2, <2>4, <2>5 DEF Start
<1>3. job'[p].pc = "planned" => job'[p].edits \cap job'[p].guards = {}
  <2>1. ASSUME NEW g, NEW pin, NEW E, NEW G, NEW goal,
               E \cap G = {}, Declare(p, g, pin, E, G, goal)
        PROVE  job'[p].edits \cap job'[p].guards = {}
    BY <2>1 DEF Declare, Idle, TypeOK
  <2>2. CASE Plan(p)
    BY <2>1, <2>2 DEF Plan
  <2>3. ~IStart(p) /\ ~CStart(p) => Plan(p)
    BY DEF Start
  <2>4. p \in DOMAIN job
    BY DEF TypeOK
  <2>5. CASE IStart(p)
    BY <2>4, <2>5 DEF IStart, Idle
  <2>6. CASE CStart(p)
    BY <2>4, <2>6 DEF CStart, Idle
  <2> QED
    BY <2>2, <2>3, <2>5, <2>6
<1> SUFFICES ASSUME NEW q \in Procs
             PROVE  TxnTree(job[q])' /\ RecoveryTree(job[q])'
  BY DEF TreeInductive
<1>4. CASE q = p
  BY <1>2, <1>3, <1>4, Phases DEF TxnTree, RecoveryTree, PhaseSets
<1>5. CASE q # p
  <2>1. job'[q] = job[q] /\ TxnTree(job[q]) /\ RecoveryTree(job[q])
    BY <1>1, <1>5 DEF TreeInductive
  <2> QED
    BY <1>1, <2>1 DEF TxnTree, RecoveryTree, Holds, Only, Carries
<1> QED
  BY <1>4, <1>5

\* A waiting command gets the lock, or is told that it is held.
LEMMA LockTree ==
  ASSUME TypeOK, EvidenceInductive, TreeInductive, NEW p \in Procs,
         Lock(p) \/ LockBusy(p)
  PROVE  TreeInductive'
<1>1. /\ UNCHANGED <<src, writer, files, before, after>>
      /\ job[p].pc \in Waiting
  BY DEF Lock, LockBusy, tree, evidence
<1>2. /\ \A q \in Procs \ {p} : job'[q] = job[q]
      /\ \/ job'[p] = Idle
         \/ Becomes(p, Entry[job[p].pc], job[p].todo, job[p].did)
  <2>1. CASE Lock(p)
    <3>1. Becomes(p, Entry[job[p].pc], job[p].todo, job[p].did)
      BY <2>1, GotoBecomes DEF Lock
    <3> QED
      BY <3>1 DEF Becomes
  <2>2. CASE LockBusy(p)
    BY <2>2 DEF LockBusy, TypeOK
  <2> QED
    BY <2>1, <2>2
<1>3. \/ job[p].pc = "planned" /\ Entry[job[p].pc] = "admit"
      \/ job[p].pc # "planned" /\ Entry[job[p].pc] \in {"iload", "cload"}
  BY <1>1 DEF Waiting, Entry
<1>4. TxnTree(job[p])' /\ RecoveryTree(job[p])'
  <2>1. CASE job'[p] = Idle
    BY <2>1, IdleTree
  <2>2. CASE Becomes(p, Entry[job[p].pc], job[p].todo, job[p].did)
    <3>1. job[p].pc = "planned" => job[p].edits \cap job[p].guards = {}
      BY DEF TreeInductive, TxnTree
    <3> QED
      BY <1>3, <2>2, <3>1, Phases
         DEF Becomes, TxnTree, RecoveryTree, PhaseSets
  <2> QED
    BY <1>2, <2>1, <2>2
<1> SUFFICES ASSUME NEW q \in Procs \ {p}
             PROVE  TxnTree(job[q])' /\ RecoveryTree(job[q])'
  BY <1>4 DEF TreeInductive
<1>5. job'[q] = job[q] /\ TxnTree(job[q]) /\ RecoveryTree(job[q])
  BY <1>2 DEF TreeInductive
<1> QED
  BY <1>1, <1>5 DEF TxnTree, RecoveryTree, Holds, Only, Carries

\* A step that leaves the lock to somebody else or to nobody: a death, a change
\* of the authority files, or an edit while the lock is free.
LEMMA EnvironmentTree ==
  ASSUME TypeOK, EvidenceInductive, TreeInductive, EditAnytime = FALSE,
         \/ \E p \in Procs : Crash(p)
         \/ \E x \in Paths, content \in Bytes : Edit(x, content)
         \/ AuthorityChange
         \/ UNCHANGED vars
  PROVE  TreeInductive'
<1>1. UNCHANGED <<files, before, after>>
  BY DEF Crash, Edit, AuthorityChange, vars, evidence
<1>2. CASE \E p \in Procs : Crash(p)
  <2>1. PICK p \in Procs : Crash(p)
    BY <1>2
  <2>2. UNCHANGED <<src, writer>> /\ job' = [job EXCEPT ![p] = Idle]
    BY <2>1 DEF Crash, tree
  <2> SUFFICES ASSUME NEW q \in Procs
               PROVE  TxnTree(job[q])' /\ RecoveryTree(job[q])'
    BY DEF TreeInductive
  <2>3. CASE q = p
    BY <2>2, <2>3, IdleTree DEF TypeOK
  <2>4. CASE q # p
    <3>1. job'[q] = job[q] /\ TxnTree(job[q]) /\ RecoveryTree(job[q])
      BY <2>2, <2>4 DEF TreeInductive, TypeOK
    <3> QED
      BY <1>1, <2>2, <3>1 DEF TxnTree, RecoveryTree, Holds, Only, Carries
  <2> QED
    BY <2>3, <2>4
<1>3. CASE AuthorityChange \/ UNCHANGED vars
  <2>1. UNCHANGED <<src, writer, job>>
    BY <1>3 DEF AuthorityChange, vars, tree
  <2> QED
    BY <1>1, <2>1 DEF TreeInductive, TxnTree, RecoveryTree, Holds, Only, Carries
<1>4. CASE \E x \in Paths, content \in Bytes : Edit(x, content)
  <2>1. lock = NoProc /\ UNCHANGED job
    BY <1>4 DEF Edit
  <2> SUFFICES ASSUME NEW q \in Procs
               PROVE  TxnTree(job[q])' /\ RecoveryTree(job[q])'
    BY DEF TreeInductive
  <2>2. job'[q] = job[q] /\ job[q].pc \notin Critical
    BY <2>1, NoProcAssumption DEF EvidenceInductive, LockExclusion
  <2>3. job[q].pc = "planned" => job[q].edits \cap job[q].guards = {}
    BY DEF TreeInductive, TxnTree
  <2> QED
    BY <2>2, <2>3, Phases DEF TxnTree, RecoveryTree, PhaseSets
<1> QED
  BY <1>2, <1>3, <1>4

LEMMA TreeInductiveInit ==
  ASSUME Init
  PROVE  TreeInductive
<1> SUFFICES ASSUME NEW q \in Procs
             PROVE  TxnTree(job[q]) /\ RecoveryTree(job[q])
  BY DEF TreeInductive
<1>1. job[q].pc = "idle"
  BY DEF Init, Idle
<1> QED
  BY <1>1, Phases DEF TxnTree, RecoveryTree, PhaseSets

LEMMA TreeInductiveNext ==
  ASSUME TypeOK, EvidenceInductive, TreeInductive, EditAnytime = FALSE,
         [Next]_vars
  PROVE  TreeInductive'
<1>1. ASSUME NEW p \in Procs, Start(p) \/ Continue(p)
      PROVE  TreeInductive'
  BY <1>1, StartTree, LockTree, TxnTreeInductive, IntTreeInductive,
     CmpTreeInductive DEF Continue
<1> QED
  BY <1>1, EnvironmentTree DEF Next

(* While authors keep off the tree under the lock, the holder of the lock
   knows at every step which of its files hold which of its copies. *)
THEOREM TreeKnown ==
  ASSUME EditAnytime = FALSE
  PROVE  Spec => []TreeInductive
<1>1. Init => TreeInductive
  BY TreeInductiveInit
<1>2. TypeOK /\ EvidenceInductive /\ TreeInductive /\ [Next]_vars => TreeInductive'
  BY TreeInductiveNext
<1> QED
  BY <1>1, <1>2, TypeCorrect, InductiveInvariant, PTL DEF Spec

-----------------------------------------------------------------------------
(* The steps that write a file: what they find there and what they leave *)

LEMMA ReplacesOne ==
  ASSUME TypeOK, EvidenceInductive, TreeInductive, NEW p \in Procs, Replace(p)
  PROVE  LET j == job[p]  g == job[p].cur IN
         \/ BeginRollback(p, j.did) /\ UNCHANGED tree
         \/ \E x \in j.edits \ j.did :
              /\ src[x] = before[g][x] /\ Writes(x, after[g][x], g)
              /\ Becomes(p, IF j.todo = {x} THEN "validate" ELSE "check",
                         j.todo \ {x}, j.did \cup {x})
              /\ UNCHANGED left
<1> DEFINE j == job[p]  g == job[p].cur
           ph(x) == IF j.todo = {x} THEN "validate" ELSE "check"
<1>1. CASE ~(BeginRollback(p, j.did) /\ UNCHANGED tree)
  <2>1. PICK x \in Paths :
          /\ Least(j.todo, x) /\ WriteSource(x, j.goal[x], g) /\ UNCHANGED left
          /\ job' = [job EXCEPT ![p].pc = ph(x), ![p].todo = @ \ {x},
                                ![p].did = @ \cup {x}]
    BY <1>1 DEF Replace
  <2>2. /\ after[g] = j.goal /\ before[g] = Only(j.edits, j.view)
        /\ j.todo = j.edits \ j.did
        /\ Holds((j.edits \ j.did) \cup j.guards, j.view)
    BY WritingKnows DEF Replace
  <2>3. x \in j.edits \ j.did /\ src[x] = before[g][x]
    BY <2>1, <2>2 DEF Least, Holds, Only
  <2>4. Writes(x, after[g][x], g)
    BY <2>1, <2>2, WriteSourceWrites
  <2>5. Becomes(p, ph(x), j.todo \ {x}, j.did \cup {x})
    BY <2>1, MovesBecomes
  <2> QED
    BY <2>1, <2>3, <2>4, <2>5
<1> QED
  BY <1>1

LEMMA RestoresOne ==
  ASSUME TypeOK, EvidenceInductive, TreeInductive, NEW p \in Procs, Restore(p),
         ~Fail(p)
  PROVE  LET j == job[p]  g == job[p].cur IN
         \E x \in j.todo :
           /\ src[x] = after[g][x] /\ writer[x] = g /\ Writes(x, before[g][x], g)
           /\ Becomes(p, IF j.todo = {x} THEN "rbverify" ELSE "restore",
                      j.todo \ {x}, j.did)
           /\ UNCHANGED <<evidence, left>>
<1> DEFINE j == job[p]  g == job[p].cur
           ph(x) == IF j.todo = {x} THEN "rbverify" ELSE "restore"
<1>1. PICK x \in Paths :
        /\ Least(j.todo, x) /\ WriteSource(x, before[g][x], g)
        /\ job' = [job EXCEPT ![p].pc = ph(x), ![p].todo = @ \ {x}]
        /\ UNCHANGED <<evidence, left>>
  BY DEF Restore
<1>2. /\ j.todo \subseteq j.did
      /\ Holds(j.todo, after[g]) /\ Carries(j.did, g)
  BY RestoringKnows DEF Restore
<1>3. x \in j.todo /\ src[x] = after[g][x] /\ writer[x] = g
  BY <1>1, <1>2 DEF Least, Holds, Carries
<1>4. Writes(x, before[g][x], g)
  BY <1>1, WriteSourceWrites
<1>5. Becomes(p, ph(x), j.todo \ {x}, j.did)
  BY <1>1, TakesBecomes
<1> QED
  BY <1>1, <1>3, <1>4, <1>5

LEMMA RecoversOne ==
  ASSUME TypeOK, EvidenceInductive, TreeInductive, NEW p \in Procs, IWrite(p),
         ~Fail(p), ~Refuse(p)
  PROVE  LET j == job[p]  g == job[p].cur IN
         \E x \in j.todo :
           /\ src[x] = after[g][x] /\ Writes(x, before[g][x], g)
           /\ Becomes(p, IF j.todo = {x} THEN "ifinal" ELSE "icheck",
                      j.todo \ {x}, j.did)
           /\ UNCHANGED <<evidence, left>>
<1> DEFINE j == job[p]  g == job[p].cur
           ph(x) == IF j.todo = {x} THEN "ifinal" ELSE "icheck"
<1>1. PICK x \in Paths :
        /\ Least(j.todo, x) /\ WriteSource(x, before[g][x], g)
        /\ job' = [job EXCEPT ![p].pc = ph(x), ![p].todo = @ \ {x}]
        /\ UNCHANGED <<evidence, left>>
  BY DEF IWrite
<1>2. Holds(j.todo, after[g])
  BY HolderKnows, Phases DEF IWrite, PhaseSets, RecoveryTree
<1>3. x \in j.todo /\ src[x] = after[g][x]
  BY <1>1, <1>2 DEF Least, Holds
<1>4. Writes(x, before[g][x], g)
  BY <1>1, WriteSourceWrites
<1>5. Becomes(p, ph(x), j.todo \ {x}, j.did)
  BY <1>1, TakesBecomes
<1> QED
  BY <1>1, <1>3, <1>4, <1>5

LEMMA PutsBackOne ==
  ASSUME TypeOK, EvidenceInductive, TreeInductive, NEW p \in Procs, CRestore(p)
  PROVE  LET j == job[p]  g == job[p].cur IN
         \/ BeginUndo(p) /\ UNCHANGED <<tree, evidence>>
         \/ \E x \in files[g] \ j.did :
              /\ src[x] = after[g][x] /\ Writes(x, before[g][x], g)
              /\ Becomes(p, IF j.todo = {x} THEN "cverify" ELSE "crestore",
                         j.todo \ {x}, j.did \cup {x})
              /\ UNCHANGED <<evidence, lock, left>>
<1> DEFINE j == job[p]  g == job[p].cur
           ph(x) == IF j.todo = {x} THEN "cverify" ELSE "crestore"
<1>0. j.pc = "crestore" /\ j.pc \in Undoing
  BY DEF CRestore, Undoing
<1>1. CASE ~(BeginUndo(p) /\ UNCHANGED <<tree, evidence>>)
  <2>1. PICK x \in Paths :
          /\ Least(j.todo, x) /\ Writes(x, before[g][x], g)
          /\ Becomes(p, ph(x), j.todo \ {x}, j.did \cup {x})
          /\ UNCHANGED <<evidence, lock, left>>
    BY <1>0, <1>1, PutsBack
  <2>2. j.todo = files[g] \ j.did /\ Holds(files[g] \ j.did, after[g])
    BY <1>0, UndoingKnows
  <2>3. x \in files[g] \ j.did /\ src[x] = after[g][x]
    BY <2>1, <2>2 DEF Least, Holds
  <2> QED
    BY <2>1, <2>3
<1> QED
  BY <1>1

-----------------------------------------------------------------------------
(* Nothing is lost *)

LEMMA HolderLosesNothing ==
  ASSUME TypeOK, EvidenceInductive, TreeInductive, NEW p \in Procs,
         TxnStep(p) \/ IntStep(p) \/ CmpStep(p),
         NEW x \in Paths, src'[x] # src[x]
  PROVE  LET g == job[p].cur IN src[x] \in {before[g][x], after[g][x]}
<1> DEFINE g == job[p].cur
<1>1. CASE UNCHANGED tree
  BY <1>1 DEF tree
<1>2. ASSUME NEW y \in Paths, NEW c, Writes(y, c, g),
             src[y] \in {before[g][y], after[g][y]}
      PROVE  src[x] \in {before[g][x], after[g][x]}
  BY <1>2 DEF Writes
<1>3. CASE Replace(p)
  <2>1. CASE UNCHANGED tree
    BY <1>1, <2>1
  <2>2. CASE ~UNCHANGED tree
    <3>1. PICK y \in job[p].edits \ job[p].did :
            src[y] = before[g][y] /\ Writes(y, after[g][y], g)
      BY <1>3, <2>2, ReplacesOne
    <3>2. job[p].edits \subseteq Paths
      BY DEF TypeOK, Job, JobRecord
    <3> QED
      BY <1>2, <3>1, <3>2
  <2> QED
    BY <2>1, <2>2
<1>4. CASE Restore(p)
  <2>1. CASE Fail(p)
    BY <1>1, <2>1 DEF Fail
  <2>2. CASE ~Fail(p)
    <3>1. PICK y \in job[p].todo :
            src[y] = after[g][y] /\ Writes(y, before[g][y], g)
      BY <1>4, <2>2, RestoresOne
    <3>2. job[p].todo \subseteq Paths
      BY DEF TypeOK, Job, JobRecord
    <3> QED
      BY <1>2, <3>1, <3>2
  <2> QED
    BY <2>1, <2>2
<1>5. CASE IWrite(p)
  <2>1. CASE Fail(p) \/ Refuse(p)
    BY <1>1, <2>1 DEF Fail, Refuse
  <2>2. CASE ~Fail(p) /\ ~Refuse(p)
    <3>1. PICK y \in job[p].todo :
            src[y] = after[g][y] /\ Writes(y, before[g][y], g)
      BY <1>5, <2>2, RecoversOne
    <3>2. job[p].todo \subseteq Paths
      BY DEF TypeOK, Job, JobRecord
    <3> QED
      BY <1>2, <3>1, <3>2
  <2> QED
    BY <2>1, <2>2
<1>6. CASE CRestore(p)
  <2>1. CASE UNCHANGED tree
    BY <1>1, <2>1
  <2>2. CASE ~UNCHANGED tree
    <3>1. PICK y \in files[g] \ job[p].did :
            src[y] = after[g][y] /\ Writes(y, before[g][y], g)
      BY <1>6, <2>2, PutsBackOne
    <3>2. files[g] \subseteq Paths
      BY <1>6, UndoingKnows DEF CRestore, Undoing
    <3> QED
      BY <1>2, <3>1, <3>2
  <2> QED
    BY <2>1, <2>2
<1>7. CASE CUndo(p)
  <2>1. CASE Fail(p)
    BY <1>1, <2>1 DEF Fail
  <2>2. CASE ~Fail(p)
    <3>1. PICK y \in job[p].did :
            src[y] = before[g][y] /\ Writes(y, after[g][y], g)
      BY <1>7, <2>2, UndoesOne
    <3>2. job[p].did \subseteq Paths
      BY DEF TypeOK, Job, JobRecord
    <3> QED
      BY <1>2, <3>1, <3>2
  <2> QED
    BY <2>1, <2>2
<1>8. CASE \/ Admit(p) \/ Prepare(p) \/ Stage(p) \/ Check(p) \/ Validate(p)
           \/ Confirm(p) \/ Finalize(p) \/ RbVerify(p) \/ RbPublish(p)
  BY <1>1, <1>8 DEF Admit, Prepare, Stage, Check, Validate, Confirm, Finalize,
                    RbVerify, RbPublish, Refuse, Fail
<1>9. CASE \/ ILoad(p) \/ IRecord(p) \/ ICheck(p) \/ IFinal(p) \/ IPublish(p)
  BY <1>1, <1>9 DEF ILoad, IRecord, ICheck, IFinal, IPublish, Refuse, Fail
<1>10. CASE \/ CLoad(p) \/ CRecord(p) \/ CPreflight(p) \/ CVerify(p)
            \/ CDrop(p) \/ CPublish(p)
  BY <1>1, <1>10 DEF CLoad, CRecord, CPreflight, CVerify, CDrop, CPublish, Refuse
<1> QED
  BY <1>3, <1>4, <1>5, <1>6, <1>7, <1>8, <1>9, <1>10 DEF TxnStep, IntStep, CmpStep

\* The only other step that changes the tree is an edit, which is nobody's job.
LEMMA WhoWrites ==
  ASSUME TypeOK, EvidenceInductive, [Next]_vars,
         NEW p \in Procs, NEW x \in Paths, src'[x] # src[x], job'[p] # job[p]
  PROVE  TxnStep(p) \/ IntStep(p) \/ CmpStep(p)
<1>1. PICK q \in Procs : TxnStep(q) \/ IntStep(q) \/ CmpStep(q)
  BY DEF Next, Continue, Start, Plan, IStart, CStart, Lock, LockBusy, Crash, Edit,
         AuthorityChange, tree, vars
<1>2. Continues(q)
  BY <1>1, TxnContinues, IntContinues, CmpContinues
<1> QED
  BY <1>1, <1>2 DEF Continues

(* While authors keep off the tree under the lock, a command that replaces
   bytes replaces only bytes of which its generation keeps a copy: no edit an
   author made is lost, in whatever order commands, crashes and faults come
   (run_bounded_transaction, _rollback, recover_generation,
   recover_interrupted_generation). *)
THEOREM NothingIsLost ==
  ASSUME EditAnytime = FALSE
  PROVE  Spec => NothingLost
<1>1. TypeOK /\ EvidenceInductive /\ TreeInductive /\ [Next]_vars =>
        [\A p \in Procs, x \in Paths :
           src'[x] # src[x] /\ job'[p] # job[p] =>
             src[x] \in {before[job[p].cur][x], after[job[p].cur][x]}]_vars
  BY WhoWrites, HolderLosesNothing
<1> QED
  BY <1>1, TypeCorrect, InductiveInvariant, TreeKnown, PTL DEF Spec, NothingLost

LEMMA RollbackRestoresOwn ==
  ASSUME TypeOK, EvidenceInductive, TreeInductive, [Next]_vars,
         NEW p \in Procs, NEW x \in Paths, job[p].pc = "restore",
         src'[x] # src[x], job'[p] # job[p]
  PROVE  writer[x] = job[p].cur
<1>1. Restore(p)
  BY WhoWrites, Phases
     DEF PhaseSets, TxnStep, IntStep, CmpStep, Admit, Prepare, Stage, Check,
         Replace, Validate, Confirm, Finalize, RbVerify, RbPublish, ILoad, IRecord,
         ICheck, IWrite, IFinal, IPublish, CLoad, CRecord, CPreflight, CRestore,
         CVerify, CDrop, CPublish, CUndo
<1>2. ~Fail(p)
  BY DEF Fail, tree
<1>3. PICK y \in job[p].todo :
        writer[y] = job[p].cur /\ Writes(y, before[job[p].cur][y], job[p].cur)
  BY <1>1, <1>2, RestoresOne
<1> QED
  BY <1>3 DEF Writes

(* While authors keep off the tree under the lock, a rollback puts back only
   paths that still carry the bytes of its own transaction (_rollback,
   _restore_source). *)
THEOREM RollbackIsOwn ==
  ASSUME EditAnytime = FALSE
  PROVE  Spec => RollbackUndoesOwnWritesOnly
<1>1. TypeOK /\ EvidenceInductive /\ TreeInductive /\ [Next]_vars =>
        [\A p \in Procs, x \in Paths :
           At(p, "restore") /\ src'[x] # src[x] /\ job'[p] # job[p] =>
             writer[x] = job[p].cur]_vars
  BY RollbackRestoresOwn
<1> QED
  BY <1>1, TypeCorrect, InductiveInvariant, TreeKnown, PTL
     DEF Spec, RollbackUndoesOwnWritesOnly

-----------------------------------------------------------------------------
(* A completed recovery is all or nothing *)

\* A command in a completed recovery ends by a step of its own or dies.
LEMMA WhoEnds ==
  ASSUME TypeOK, [Next]_vars, NEW p \in Procs, job[p].pc \in CmpPhases,
         job'[p].pc = "idle"
  PROVE  Crash(p) \/ CmpStep(p)
<1>1. job[p].pc \notin Waiting \cup TxnPhases \cup IntPhases /\ job[p].pc # "idle"
  BY Phases DEF PhaseSets
<1>2. job'[p] # job[p]
  BY <1>1
<1>3. ASSUME NEW q \in Procs, q # p, Start(q) \/ Lock(q) \/ LockBusy(q) \/ Crash(q)
      PROVE  FALSE
  BY <1>2, <1>3 DEF Start, Plan, Declare, IStart, CStart, Lock, Goto, LockBusy,
                    Crash, TypeOK
<1>4. ASSUME NEW q \in Procs, q # p, TxnStep(q) \/ IntStep(q) \/ CmpStep(q)
      PROVE  FALSE
  BY <1>2, <1>4, TxnContinues, IntContinues, CmpContinues DEF Continues
<1>5. ~Start(p) /\ ~Lock(p) /\ ~LockBusy(p)
  BY <1>1 DEF Start, Plan, IStart, CStart, Lock, LockBusy
<1>6. ~TxnStep(p) /\ ~IntStep(p)
  BY <1>1, Phases
     DEF PhaseSets, TxnStep, IntStep, Admit, Prepare, Stage, Check, Replace,
         Validate, Confirm, Finalize, Restore, RbVerify, RbPublish, ILoad, IRecord,
         ICheck, IWrite, IFinal, IPublish
<1>7. PICK q \in Procs : Start(q) \/ Continue(q) \/ Crash(q)
  BY <1>2 DEF Next, Edit, AuthorityChange, vars
<1> QED
  BY <1>3, <1>4, <1>5, <1>6, <1>7 DEF Continue

LEMMA UndoneOrNot ==
  ASSUME TypeOK, EvidenceInductive, TreeInductive, NEW p \in Procs, CmpStep(p),
         job[p].pc # "cload", job'[p].pc = "idle",
         ~(job[p].pc = "cundo" /\ left'["fault"] # left["fault"])
  PROVE  LET g == job[p].cur IN
         \/ \A x \in files[g] : src'[x] = after[g][x]
         \/ \A x \in files[g] : src'[x] = before[g][x]
<1> DEFINE j == job[p]  g == job[p].cur
<1>0. j.pc \in Critical /\ j \in Job
  BY HolderCritical DEF TypeOK
<1>1. CASE Holds(files[g], after[g]) /\ UNCHANGED tree
  BY <1>1 DEF Holds, tree
<1>2. CASE BeginUndo(p) /\ UNCHANGED tree /\ j.pc \in Undoing
  <2>1. j.did = {}
    <3>1. CASE Goto(p, "cundo")
      <4>1. job'[p].pc = "cundo"
        BY <3>1, GotoBecomes DEF Becomes
      <4> QED
        BY <4>1
    <3> QED
      BY <1>2, <3>1 DEF BeginUndo
  <2>2. Holds(files[g], after[g])
    BY <1>2, <2>1, UndoingKnows DEF Holds
  <2> QED
    BY <1>1, <1>2, <2>2
<1>3. CASE CRecord(p) \/ CPreflight(p)
  <2>1. UNCHANGED tree /\ j.pc \in {"crecord", "cpreflight"}
    BY <1>3 DEF CRecord, CPreflight, Refuse
  <2>2. Holds(files[g], after[g])
    BY <1>0, <2>1, HolderKnows DEF RecoveryTree
  <2> QED
    BY <1>1, <2>1, <2>2
<1>4. CASE CRestore(p)
  <2>1. j.pc \in Undoing
    BY <1>4 DEF CRestore, Undoing
  <2>2. \A ph \in {"cverify", "crestore"} : \A T, D : ~Becomes(p, ph, T, D)
    BY DEF Becomes
  <2> QED
    BY <1>2, <1>4, <2>1, <2>2, PutsBackOne
<1>5. CASE CVerify(p)
  <2>1. j.pc \in Undoing /\ UNCHANGED tree
    BY <1>5 DEF CVerify, Undoing
  <2>2. ~Goto(p, "cdrop")
    BY GotoBecomes DEF Becomes
  <2> QED
    BY <1>2, <1>5, <2>1, <2>2 DEF CVerify
<1>6. CASE CDrop(p)
  BY <1>6, Drops DEF Becomes
<1>7. CASE CPublish(p)
  <2>1. j.pc = "cpublish" /\ j.pc \in Undoing /\ UNCHANGED tree
    BY <1>7 DEF CPublish, Undoing
  <2>2. Holds(files[g], before[g])
    BY <2>1, UndoingKnows
  <2> QED
    BY <2>1, <2>2 DEF Holds, tree
<1>8. CASE CUndo(p)
  <2>1. j.pc \in Undoing /\ j.pc = "cundo"
    BY <1>8 DEF CUndo, Undoing
  <2>2. ~Fail(p)
    <3>1. Fail(p) => left["fault"] > 0 /\ left' = [left EXCEPT !["fault"] = @ - 1]
      BY DEF Fail, Spend
    <3>2. left \in [{"crash", "fault", "edit", "auth"} -> Nat]
      BY DEF TypeOK
    <3>3. Fail(p) => left'["fault"] = left["fault"] - 1 /\ left["fault"] \in Nat
      BY <3>1, <3>2
    <3> QED
      BY <2>1, <3>3
  <2>3. PICK x \in j.did :
          /\ Writes(x, after[g][x], g)
          /\ j.did = {x} \/ Becomes(p, "cundo", j.todo, j.did \ {x})
    BY <1>8, <2>2, UndoesOne
  <2>4. j.did = {x}
    BY <2>3 DEF Becomes
  <2>5. Holds(files[g] \ j.did, after[g]) /\ files[g] \subseteq Paths
    BY <2>1, UndoingKnows
  <2> QED
    BY <2>3, <2>4, <2>5 DEF Writes, Holds
<1>9. ~CLoad(p)
  BY DEF CLoad
<1> QED
  BY <1>3, <1>4, <1>5, <1>6, <1>7, <1>8, <1>9 DEF CmpStep

(* While authors keep off the tree under the lock, a completed recovery that
   ends has put back every file of its generation or none, whichever check or
   I/O operation of it failed; its death and a failure of its own undo are the
   exceptions (_recover_generation_unlocked). *)
THEOREM RecoveryIsAllOrNothing ==
  ASSUME EditAnytime = FALSE
  PROVE  Spec => RecoveryAllOrNothing
<1>1. ASSUME TypeOK, EvidenceInductive, TreeInductive, [Next]_vars, NEW p \in Procs,
             job[p].pc \in CmpPhases \ {"cload"}, job'[p].pc = "idle",
             left'["crash"] = left["crash"],
             ~(job[p].pc = "cundo" /\ left'["fault"] # left["fault"])
      PROVE  LET g == job[p].cur IN
             \/ \A x \in files[g] : src'[x] = after[g][x]
             \/ \A x \in files[g] : src'[x] = before[g][x]
  <2>1. ~Crash(p)
    <3>1. Crash(p) => left["crash"] > 0 /\ left' = [left EXCEPT !["crash"] = @ - 1]
      BY DEF Crash, Spend
    <3>2. left \in [{"crash", "fault", "edit", "auth"} -> Nat]
      BY <1>1 DEF TypeOK
    <3>3. Crash(p) => left'["crash"] = left["crash"] - 1 /\ left["crash"] \in Nat
      BY <3>1, <3>2
    <3> QED
      BY <1>1, <3>3
  <2> QED
    BY <1>1, <2>1, WhoEnds, UndoneOrNot
<1>2. TypeOK /\ EvidenceInductive /\ TreeInductive /\ [Next]_vars =>
        [\A p \in Procs :
           LET g == job[p].cur IN
           /\ job[p].pc \in CmpPhases \ {"cload"}
           /\ At(p, "idle")'
           /\ left'["crash"] = left["crash"]
           /\ ~(At(p, "cundo") /\ left'["fault"] # left["fault"])
           => \/ \A x \in files[g] : src'[x] = after[g][x]
              \/ \A x \in files[g] : src'[x] = before[g][x]]_vars
  BY <1>1
<1> QED
  BY <1>2, TypeCorrect, InductiveInvariant, TreeKnown, PTL
     DEF Spec, RecoveryAllOrNothing

-----------------------------------------------------------------------------
(* Over settled bytes: SettledInductive *)

LEMMA StepImmutable ==
  ASSUME TypeOK, EvidenceInductive, [Next]_vars
  PROVE  \A g \in Gens : Immutable(g)
BY StepKeeps

\* An attempt becomes unresolved only when its preparation is complete, and
\* then nothing carries it yet.
LEMMA StaysResolved ==
  ASSUME TypeOK, EvidenceInductive, [Next]_vars, NEW h \in Gens,
         stage[h] = "prepared", ~Unresolved(h)
  PROVE  ~Unresolved(h)'
<1>1. Immutable(h)
  BY StepImmutable
<1>2. terminal[h] # "absent" \/ \E s \in Stamps : rec[h][s] = "i-done"
  BY DEF Unresolved, Interrupted, Recovered
<1> QED
  BY <1>1, <1>2 DEF Immutable, Unresolved, Interrupted, Recovered

LEMMA WriterPrepared ==
  ASSUME TypeOK, EvidenceInductive, NEW x \in Paths, writer[x] # Author
  PROVE  writer[x] \in Gens /\ stage[writer[x]] = "prepared"
BY DEF TypeOK, EvidenceInductive, EvidenceMatchesSource, AttributedBytesMatch

LEMMA StaysSettled ==
  ASSUME TypeOK, EvidenceInductive, [Next]_vars, NEW x \in Paths,
         writer'[x] = writer[x], Settled(x)
  PROVE  Settled(x)'
BY WriterPrepared, StaysResolved DEF Settled

\* Only the part of the process that moves has to be shown.
LEMMA OthersSettled ==
  ASSUME EvidenceInductive, SettledInductive, NEW p \in Procs,
         job[p].pc \in Critical, \A q \in Procs \ {p} : job'[q] = job[q],
         SettledTree(job[p])'
  PROVE  SettledInductive'
<1> SUFFICES ASSUME NEW q \in Procs \ {p} PROVE SettledTree(job[q])'
  BY DEF SettledInductive
<1>1. job'[q] = job[q] /\ job[q].pc \notin Critical
  BY DEF EvidenceInductive, LockExclusion
<1> QED
  BY <1>1, Phases DEF SettledTree, Declared, Undoing, PhaseSets

LEMMA EndSettled ==
  ASSUME TypeOK, EvidenceInductive, SettledInductive, NEW p \in Procs,
         job[p].pc \in Critical, End(p)
  PROVE  SettledInductive'
<1>1. job'[p] = Idle /\ \A q \in Procs \ {p} : job'[q] = job[q]
  BY DEF End, TypeOK
<1>2. SettledTree(job[p])'
  BY <1>1 DEF Idle, SettledTree, Declared, Undoing
<1> QED
  BY <1>1, <1>2, OthersSettled

\* The phases in which a process knows nothing of the writers.
LEMMA PlainSettled ==
  ASSUME EvidenceInductive, SettledInductive, NEW p \in Procs,
         job[p].pc \in Critical, \A q \in Procs \ {p} : job'[q] = job[q],
         job'[p].pc \in {"restore", "rbverify", "rbpublish", "ifinal", "ipublish"}
  PROVE  SettledInductive'
<1>1. SettledTree(job[p])'
  BY DEF SettledTree, Declared, Undoing
<1> QED
  BY <1>1, OthersSettled

LEMMA RollbackSettled ==
  ASSUME TypeOK, EvidenceInductive, SettledInductive, NEW p \in Procs,
         job[p].pc \in Critical, NEW S, BeginRollback(p, S)
  PROVE  SettledInductive'
BY RollbackBecomes, PlainSettled DEF Becomes

\* A transaction that goes on with the tree as it was.
LEMMA WritingSettled ==
  ASSUME TypeOK, EvidenceInductive, SettledInductive, [Next]_vars, NEW p \in Procs,
         job[p].pc \in Critical \cap (Declared \ {"admit"}), UNCHANGED tree,
         NEW ph \in Declared \ {"planned", "admit"}, NEW T,
         Becomes(p, ph, T, job[p].did)
  PROVE  SettledInductive'
<1> DEFINE j == job[p]
<1>1. j.pc \in Declared \ {"planned", "admit"} /\ j \in Job
  BY Phases DEF TypeOK, PhaseSets
<1>2. \A x \in (j.edits \ j.did) \cup j.guards : x \in Paths /\ Settled(x)
  BY <1>1 DEF SettledInductive, SettledTree, Job, JobRecord
<1>3. \A x \in (j.edits \ j.did) \cup j.guards : Settled(x)'
  BY <1>2, StaysSettled DEF tree
<1>4. SettledTree(job[p])'
  BY <1>3 DEF Becomes, SettledTree, Declared, Undoing
<1> QED
  BY <1>4, OthersSettled DEF Becomes

LEMMA AdmitSettled ==
  ASSUME TypeOK, EvidenceInductive, SettledInductive, [Next]_vars, NEW p \in Procs,
         BeginsSettled(p), Admit(p)
  PROVE  SettledInductive'
<1> DEFINE j == job[p]
<1>0. j.pc = "admit" /\ j.pc \in Critical /\ j \in Job
  BY Phases DEF Admit, PhaseSets, TypeOK
<1>1. CASE Refuse(p)
  BY <1>0, <1>1, EndSettled DEF Refuse
<1>2. CASE Goto(p, "prepare") /\ UNCHANGED tree
  <2>1. Becomes(p, "prepare", j.todo, j.did)
    BY <1>2, GotoBecomes
  <2>2. \A x \in j.edits \cup j.guards : x \in Paths /\ Settled(x)
    BY <1>0, <2>1 DEF BeginsSettled, Becomes, Job, JobRecord
  <2>3. \A x \in j.edits \cup j.guards : Settled(x)'
    BY <1>2, <2>2, StaysSettled DEF tree
  <2>4. SettledTree(job[p])'
    BY <2>1, <2>3 DEF Becomes, SettledTree, Declared, Undoing
  <2> QED
    BY <1>0, <2>1, <2>4, OthersSettled DEF Becomes
<1> QED
  BY <1>1, <1>2 DEF Admit

LEMMA PrepareSettled ==
  ASSUME TypeOK, EvidenceInductive, SettledInductive, [Next]_vars, NEW p \in Procs,
         Prepare(p)
  PROVE  SettledInductive'
<1>0. job[p].pc = "prepare" /\ job[p].pc \in Critical \cap (Declared \ {"admit"})
  BY Phases DEF Prepare, PhaseSets, Declared
<1>1. CASE Fail(p)
  BY <1>0, <1>1, EndSettled DEF Fail
<1>2. CASE Goto(p, "stage") /\ UNCHANGED tree
  BY <1>0, <1>2, GotoBecomes, WritingSettled DEF Declared
<1> QED
  BY <1>1, <1>2 DEF Prepare

LEMMA StageSettled ==
  ASSUME TypeOK, EvidenceInductive, SettledInductive, [Next]_vars, NEW p \in Procs,
         Stage(p)
  PROVE  SettledInductive'
<1> DEFINE j == job[p]
<1>0. /\ j.pc = "stage" /\ j.pc \in Critical \cap (Declared \ {"admit"})
      /\ j \in Job
  BY Phases DEF Stage, PhaseSets, Declared, TypeOK
<1>1. CASE Refuse(p) \/ Fail(p)
  BY <1>0, <1>1, EndSettled DEF Refuse, Fail
<1>2. CASE /\ job' = [job EXCEPT ![p].pc = "check", ![p].todo = j.edits]
           /\ UNCHANGED tree
  <2>1. Becomes(p, "check", j.edits, j.did)
    BY <1>0, <1>2 DEF Becomes, Job, JobRecord, TypeOK
  <2> QED
    BY <1>0, <1>2, <2>1, WritingSettled DEF Declared
<1> QED
  BY <1>1, <1>2 DEF Stage

LEMMA VerdictSettled ==
  ASSUME TypeOK, EvidenceInductive, SettledInductive, [Next]_vars, NEW p \in Procs,
         Check(p) \/ Validate(p) \/ Confirm(p) \/ Finalize(p)
  PROVE  SettledInductive'
<1>0. /\ job[p].pc \in Critical \cap (Declared \ {"admit"}) /\ UNCHANGED tree
      /\ job[p].pc \in Critical
  BY Phases DEF Check, Validate, Confirm, Finalize, PhaseSets, Declared
<1>1. CASE End(p)
  BY <1>0, <1>1, EndSettled
<1>2. CASE \E S : BeginRollback(p, S)
  BY <1>0, <1>2, RollbackSettled
<1>3. CASE \E ph \in {"replace", "confirm", "finalize"} : Goto(p, ph)
  <2>1. PICK ph \in {"replace", "confirm", "finalize"} : Goto(p, ph)
    BY <1>3
  <2>2. Becomes(p, ph, job[p].todo, job[p].did)
    BY <2>1, GotoBecomes
  <2> QED
    BY <1>0, <2>2, WritingSettled DEF Declared
<1> QED
  BY <1>1, <1>2, <1>3 DEF Check, Validate, Confirm, Finalize

LEMMA ReplaceSettled ==
  ASSUME TypeOK, EvidenceInductive, TreeInductive, SettledInductive, [Next]_vars,
         NEW p \in Procs, Replace(p)
  PROVE  SettledInductive'
<1> DEFINE j == job[p]  g == job[p].cur
           ph(x) == IF j.todo = {x} THEN "validate" ELSE "check"
<1>0. j.pc = "replace" /\ j.pc \in Critical /\ j \in Job
  BY Phases DEF Replace, PhaseSets, TypeOK
<1>1. CASE BeginRollback(p, j.did)
  BY <1>0, <1>1, RollbackSettled
<1>2. CASE ~BeginRollback(p, j.did)
  <2>1. PICK x \in j.edits \ j.did :
          /\ Writes(x, after[g][x], g)
          /\ Becomes(p, ph(x), j.todo \ {x}, j.did \cup {x})
    BY <1>2, ReplacesOne
  <2>2. ph(x) \in Declared \ {"planned", "admit"}
    BY DEF Declared
  <2>3. \A y \in (j.edits \ j.did) \cup j.guards : y \in Paths /\ Settled(y)
    BY <1>0 DEF SettledInductive, SettledTree, Declared, Job, JobRecord
  <2>4. x \notin j.guards
    BY <1>0, WritingKnows
  <2>5. \A y \in (j.edits \ (j.did \cup {x})) \cup j.guards : Settled(y)'
    BY <2>1, <2>3, <2>4, StaysSettled DEF Writes
  <2> HIDE DEF ph
  <2>6. SettledTree(job[p])'
    BY <2>1, <2>2, <2>5 DEF Becomes, SettledTree, Declared, Undoing
  <2> QED
    BY <1>0, <2>1, <2>6, OthersSettled DEF Becomes
<1> QED
  BY <1>1, <1>2

LEMMA RestoreSettled ==
  ASSUME TypeOK, EvidenceInductive, TreeInductive, SettledInductive,
         NEW p \in Procs, Restore(p) \/ RbVerify(p) \/ RbPublish(p)
  PROVE  SettledInductive'
<1>0. job[p].pc \in Critical
  BY Phases DEF Restore, RbVerify, RbPublish, PhaseSets
<1>1. CASE End(p)
  BY <1>0, <1>1, EndSettled
<1>2. CASE Goto(p, "rbpublish")
  BY <1>0, <1>2, GotoBecomes, PlainSettled DEF Becomes
<1>3. CASE Restore(p) /\ ~Fail(p)
  <2>1. PICK x : Becomes(p, IF job[p].todo = {x} THEN "rbverify" ELSE "restore",
                         job[p].todo \ {x}, job[p].did)
    BY <1>3, RestoresOne
  <2> QED
    BY <1>0, <2>1, PlainSettled DEF Becomes
<1> QED
  BY <1>1, <1>2, <1>3 DEF Restore, RbVerify, RbPublish, Fail, Refuse

LEMMA TxnSettled ==
  ASSUME TypeOK, EvidenceInductive, TreeInductive, SettledInductive, [Next]_vars,
         NEW p \in Procs, BeginsSettled(p), TxnStep(p)
  PROVE  SettledInductive'
BY AdmitSettled, PrepareSettled, StageSettled, VerdictSettled, ReplaceSettled,
   RestoreSettled DEF TxnStep

\* A loaded interrupted recovery has still to put back only what it carries.
LEMMA ILoadSettled ==
  ASSUME TypeOK, EvidenceInductive, TreeInductive, SettledInductive,
         NEW p \in Procs, RecoversOwnBytes(p), ILoad(p)
  PROVE  SettledInductive'
<1> DEFINE j == job[p]  g == job[p].cur
           written == {x \in files[g] : src[x] # before[g][x]}
<1>0. j.pc = "iload" /\ j.pc \in Critical /\ j \in Job
  BY HolderKnows, Phases DEF ILoad, PhaseSets
<1>1. CASE Refuse(p)
  BY <1>0, <1>1, EndSettled DEF Refuse
<1>2. CASE ~Refuse(p)
  <2>1. PICK ph \in {"irecord", "ifinal", "icheck"}, s \in Stamps :
          job' = [job EXCEPT ![p].pc = ph, ![p].stamp = s, ![p].todo = written]
    BY <1>0, <1>2 DEF ILoad, Job, JobRecord, IntPhases, RecoveryPhases
  <2>2. UNCHANGED writer
    BY <1>2 DEF ILoad, tree
  <2>3. /\ job'[p].pc = ph /\ job'[p].todo = written /\ job'[p].cur = g
        /\ \A q \in Procs \ {p} : job'[q] = job[q]
    BY <1>0, <2>1 DEF Job, JobRecord, TypeOK
  <2>4. ph \in {"irecord", "icheck"} => Carries(written, g)
    BY <1>0, <2>3 DEF RecoversOwnBytes, Carries
  <2>5. SettledTree(job[p])'
    BY <2>2, <2>3, <2>4 DEF SettledTree, Carries, Declared, Undoing
  <2> QED
    BY <1>0, <2>3, <2>5, OthersSettled
<1> QED
  BY <1>1, <1>2

LEMMA IntSettled ==
  ASSUME TypeOK, EvidenceInductive, TreeInductive, SettledInductive,
         NEW p \in Procs, RecoversOwnBytes(p), IntStep(p)
  PROVE  SettledInductive'
<1> DEFINE j == job[p]  g == job[p].cur
<1>0. j.pc \in Critical
  BY HolderCritical
<1>1. CASE ILoad(p)
  BY <1>1, ILoadSettled
<1>2. CASE End(p)
  BY <1>0, <1>2, EndSettled
<1>3. CASE Goto(p, "ifinal") \/ Goto(p, "ipublish")
  BY <1>0, <1>3, GotoBecomes, PlainSettled DEF Becomes
<1>4. CASE IRecord(p) \/ ICheck(p)
  <2>1. UNCHANGED writer /\ Carries(j.todo, g)
    BY <1>4 DEF IRecord, ICheck, tree, Fail, SettledInductive, SettledTree
  <2>2. ASSUME NEW ph \in {"icheck", "iwrite"}, Goto(p, ph)
        PROVE  SettledInductive'
    <3>1. Becomes(p, ph, j.todo, j.did)
      BY <2>2, GotoBecomes
    <3>2. SettledTree(job[p])'
      BY <2>1, <3>1 DEF Becomes, SettledTree, Carries, Declared, Undoing
    <3> QED
      BY <1>0, <3>1, <3>2, OthersSettled DEF Becomes
  <2> QED
    BY <1>2, <1>3, <1>4, <2>2 DEF IRecord, ICheck, Fail
<1>5. CASE IWrite(p) /\ ~Fail(p) /\ ~Refuse(p)
  <2>1. PICK x \in j.todo :
          /\ Writes(x, before[g][x], g)
          /\ Becomes(p, IF j.todo = {x} THEN "ifinal" ELSE "icheck",
                     j.todo \ {x}, j.did)
    BY <1>5, RecoversOne
  <2>2. Carries(j.todo, g) /\ j.todo \subseteq Paths
    BY <1>5 DEF IWrite, SettledInductive, SettledTree, TypeOK, Job, JobRecord
  <2>3. SettledTree(job[p])'
    BY <2>1, <2>2 DEF Becomes, Writes, SettledTree, Carries, Declared, Undoing
  <2> QED
    BY <1>0, <2>1, <2>3, OthersSettled DEF Becomes
<1> QED
  BY <1>1, <1>2, <1>3, <1>4, <1>5
     DEF IntStep, IWrite, IFinal, IPublish, Fail, Refuse

\* A completed recovery that goes on without a change of writers.
LEMMA RecoverySettled ==
  ASSUME TypeOK, EvidenceInductive, TreeInductive, SettledInductive, [Next]_vars,
         NEW p \in Procs, UNCHANGED <<tree, files>>, NEW ph, NEW T,
         Becomes(p, ph, T, job[p].did),
         \/ job[p].pc = "crecord" /\ ph = "cpreflight"
         \/ job[p].pc = "cpreflight" /\ ph = "crestore"
         \/ job[p].pc \in Undoing /\ ph \in Undoing
  PROVE  SettledInductive'
<1> DEFINE j == job[p]  g == job[p].cur
<1>1. j.pc \in Critical /\ g \in Gens /\ files[g] \subseteq Paths
  <2>1. j.pc \in Critical
    BY Phases DEF Undoing, PhaseSets
  <2> QED
    BY <2>1, HolderKnows DEF TypeOK
<1>2. \A x \in files[g] \ j.did : Settled(x)
  BY DEF SettledInductive, SettledTree
<1>3. \A x \in files[g] \ j.did : Settled(x)'
  BY <1>1, <1>2, StaysSettled DEF tree
<1>4. j.pc \in {"crecord", "cpreflight"} => j.did = {}
  BY <1>1, HolderKnows DEF Knows, LoopPhase
<1>5. SettledTree(job[p])'
  BY <1>3, <1>4 DEF Becomes, SettledTree, Declared, Undoing
<1> QED
  BY <1>1, <1>5, OthersSettled DEF Becomes

LEMMA UndoBeginsSettled ==
  ASSUME TypeOK, EvidenceInductive, TreeInductive, SettledInductive, [Next]_vars,
         NEW p \in Procs, UNCHANGED <<tree, files>>, BeginUndo(p),
         job[p].pc \in Undoing \/ (job[p].pc = "cpreflight" /\ job[p].did = {})
  PROVE  SettledInductive'
<1>0. job[p].pc \in Critical
  BY Phases DEF Undoing, PhaseSets
<1>1. CASE job[p].did = {}
  BY <1>0, <1>1, EndSettled DEF BeginUndo
<1>2. CASE job[p].did # {}
  <2>1. Becomes(p, "cundo", job[p].todo, job[p].did)
    BY <1>2, GotoBecomes DEF BeginUndo
  <2>2. job[p].pc \in Undoing /\ "cundo" \in Undoing
    BY <1>2 DEF Undoing
  <2> QED
    BY <2>1, <2>2, RecoverySettled
<1> QED
  BY <1>1, <1>2

LEMMA CmpSettled ==
  ASSUME TypeOK, EvidenceInductive, TreeInductive, SettledInductive, [Next]_vars,
         NEW p \in Procs, BeginsSettled(p), CmpStep(p)
  PROVE  SettledInductive'
<1> DEFINE j == job[p]  g == job[p].cur
<1>0. j.pc \in Critical /\ j \in Job /\ g \in Gens /\ files[g] \subseteq Paths
  <2>1. j.pc \in Critical
    BY HolderCritical
  <2> QED
    BY <2>1, HolderKnows DEF TypeOK
<1>1. CASE End(p)
  BY <1>0, <1>1, EndSettled
<1>2. CASE CLoad(p)
  <2>1. CASE Goto(p, "crecord") /\ UNCHANGED <<tree, evidence>>
    <3>1. Becomes(p, "crecord", j.todo, j.did)
      BY <2>1, GotoBecomes
    <3>2. \A x \in files[g] : Settled(x)
      BY <1>2, <3>1 DEF CLoad, BeginsSettled, Becomes
    <3>3. UNCHANGED <<writer, files>>
      BY <2>1 DEF tree, evidence
    <3>4. \A x \in files[g] : Settled(x)'
      BY <1>0, <3>2, <3>3, StaysSettled
    <3>5. SettledTree(job[p])'
      BY <3>1, <3>3, <3>4 DEF Becomes, SettledTree, Declared, Undoing
    <3> QED
      BY <1>0, <3>1, <3>5, OthersSettled DEF Becomes
  <2> QED
    BY <1>1, <1>2, <2>1 DEF CLoad, Refuse
<1>3. CASE CRecord(p)
  <2>1. CASE Goto(p, "cpreflight")
    <3>1. Becomes(p, "cpreflight", j.todo, j.did)
      BY <2>1, GotoBecomes
    <3>2. UNCHANGED <<tree, files>> /\ j.pc = "crecord"
      BY <1>3 DEF CRecord, Refuse, genVars, evidence
    <3> QED
      BY <3>1, <3>2, RecoverySettled
  <2> QED
    BY <1>1, <1>3, <2>1 DEF CRecord, Refuse
<1>4. CASE CPreflight(p)
  <2>1. UNCHANGED <<tree, files>> /\ j.pc = "cpreflight"
    BY <1>4 DEF CPreflight, evidence
  <2>2. j.did = {}
    BY <1>0, <2>1, HolderKnows DEF Knows, LoopPhase
  <2>3. CASE job' = [job EXCEPT ![p].pc = "crestore", ![p].todo = files[g]]
    <3>1. Becomes(p, "crestore", files[g], j.did)
      BY <1>0, <2>3 DEF Becomes, Job, JobRecord, TypeOK
    <3> QED
      BY <2>1, <3>1, RecoverySettled
  <2>4. CASE BeginUndo(p)
    BY <2>1, <2>2, <2>4, UndoBeginsSettled
  <2> QED
    BY <1>4, <2>3, <2>4 DEF CPreflight
<1>5. CASE CRestore(p)
  <2>0. j.pc = "crestore" /\ j.pc \in Undoing /\ UNCHANGED files
    BY <1>5 DEF CRestore, Undoing, evidence
  <2>1. CASE BeginUndo(p) /\ UNCHANGED tree
    BY <2>0, <2>1, UndoBeginsSettled
  <2>2. CASE ~(BeginUndo(p) /\ UNCHANGED tree)
    <3>1. PICK x \in files[g] \ j.did :
            /\ Writes(x, before[g][x], g)
            /\ Becomes(p, IF j.todo = {x} THEN "cverify" ELSE "crestore",
                       j.todo \ {x}, j.did \cup {x})
      BY <1>5, <2>2, PutsBackOne
    <3>2. \A y \in files[g] \ j.did : Settled(y)
      BY <2>0 DEF SettledInductive, SettledTree
    <3>3. \A y \in files[g] \ (j.did \cup {x}) : Settled(y)'
      BY <1>0, <3>1, <3>2, StaysSettled DEF Writes
    <3>4. SettledTree(job[p])'
      BY <2>0, <3>1, <3>3 DEF Becomes, SettledTree, Declared, Undoing
    <3> QED
      BY <1>0, <3>1, <3>4, OthersSettled DEF Becomes
  <2> QED
    BY <2>1, <2>2
<1>6. CASE CVerify(p) \/ CPublish(p)
  <2>1. UNCHANGED <<tree, files>> /\ j.pc \in Undoing
    BY <1>6 DEF CVerify, CPublish, evidence, genVars, Undoing
  <2>2. CASE BeginUndo(p)
    BY <2>1, <2>2, UndoBeginsSettled
  <2>3. CASE Goto(p, "cdrop")
    <3>1. Becomes(p, "cdrop", j.todo, j.did) /\ "cdrop" \in Undoing
      BY <2>3, GotoBecomes DEF Undoing
    <3> QED
      BY <2>1, <3>1, RecoverySettled
  <2> QED
    BY <1>1, <1>6, <2>2, <2>3 DEF CVerify, CPublish
<1>7. CASE CDrop(p)
  <2>1. UNCHANGED <<tree, files>> /\ j.pc \in Undoing
    BY <1>7 DEF CDrop, evidence, Undoing
  <2>2. PICK ph \in {"cundo", "cpublish"} : Becomes(p, ph, j.todo, j.did)
    BY <1>7, Drops
  <2>3. ph \in Undoing
    BY DEF Undoing
  <2> QED
    BY <2>1, <2>2, <2>3, RecoverySettled
<1>8. CASE CUndo(p)
  <2>0. j.pc \in Undoing /\ UNCHANGED files
    BY <1>8 DEF CUndo, Undoing, Fail, evidence
  <2>1. CASE Fail(p)
    BY <1>1, <2>1 DEF Fail
  <2>2. CASE ~Fail(p)
    <3>1. PICK x \in j.did :
            /\ Writes(x, after[g][x], g)
            /\ End(p) \/ Becomes(p, "cundo", j.todo, j.did \ {x})
      BY <1>8, <2>2, UndoesOne
    <3>2. CASE Becomes(p, "cundo", j.todo, j.did \ {x})
      <4>1. \A y \in files[g] \ j.did : Settled(y)
        BY <2>0 DEF SettledInductive, SettledTree
      <4>2. PICK h \in Gens : h = g
        BY <1>0
      <4>3. ~Unresolved(h) /\ stage[h] = "prepared"
        BY <2>0, <4>2, UndoingKnows DEF Unresolved, Interrupted
      <4>4. Settled(x)'
        BY <3>1, <4>2, <4>3, StaysResolved DEF Writes, Settled
      <4>5. \A y \in files[g] \ (j.did \ {x}) : Settled(y)'
        BY <1>0, <3>1, <4>1, <4>4, StaysSettled DEF Writes
      <4>6. SettledTree(job[p])'
        BY <2>0, <3>2, <4>5 DEF Becomes, SettledTree, Declared, Undoing
      <4> QED
        BY <1>0, <3>2, <4>6, OthersSettled DEF Becomes
    <3> QED
      BY <1>1, <3>1, <3>2
  <2> QED
    BY <2>1, <2>2
<1> QED
  BY <1>2, <1>3, <1>4, <1>5, <1>6, <1>7, <1>8 DEF CmpStep

\* A process outside the lock knows nothing of the writers.
LEMMA OutsideSettled ==
  ASSUME NEW j, j.pc \notin Critical
  PROVE  SettledTree(j)
BY Phases DEF SettledTree, Declared, Undoing, PhaseSets

LEMMA SettledNext ==
  ASSUME TypeOK, EvidenceInductive, TreeInductive, SettledInductive,
         EditAnytime = FALSE, [Next]_vars, Orderly
  PROVE  SettledInductive'
<1>1. ASSUME NEW p \in Procs, TxnStep(p) \/ IntStep(p) \/ CmpStep(p)
      PROVE  SettledInductive'
  BY <1>1, TxnSettled, IntSettled, CmpSettled DEF Orderly
<1>2. ASSUME NEW q \in Procs, job'[q] = job[q], UNCHANGED <<writer, files>>
      PROVE  SettledTree(job[q])'
  <2>1. SettledTree(job[q])
    BY DEF SettledInductive
  <2>2. job[q] \in Job
    BY DEF TypeOK
  <2>3. job[q].edits \subseteq Paths /\ job[q].guards \subseteq Paths
    BY <2>2 DEF Job, JobRecord
  <2>4. job[q].pc \in Critical => files[job[q].cur] \subseteq Paths
    BY HolderKnows DEF TypeOK
  <2>5. CASE job[q].pc \notin Critical
    BY <1>2, <2>5, Phases DEF SettledTree, Declared, Undoing, PhaseSets
  <2>6. CASE job[q].pc \in Critical
    BY <1>2, <2>1, <2>3, <2>4, <2>6, StaysSettled DEF SettledTree, Carries
  <2> QED
    BY <2>5, <2>6
<1>3. ASSUME NEW p \in Procs, Start(p) \/ Lock(p) \/ LockBusy(p) \/ Crash(p)
      PROVE  SettledInductive'
  <2>1. UNCHANGED <<writer, files>>
    BY <1>3 DEF Start, Plan, IStart, CStart, Lock, LockBusy, Crash, tree, evidence
  <2>2. \A q \in Procs \ {p} : job'[q] = job[q]
    BY <1>3 DEF Start, Plan, Declare, IStart, CStart, Lock, Goto, LockBusy, Crash,
                TypeOK
  <2>3. job'[p].pc \in {"idle", "planned", "iwait", "cwait", "admit", "iload", "cload"}
    <3>1. CASE Start(p)
      <4>1. Plan(p) => job'[p].pc = "planned"
        BY DEF Plan, Declare, Idle, TypeOK
      <4>2. IStart(p) => job'[p].pc = "iwait"
        BY DEF IStart, Idle, TypeOK
      <4>3. CStart(p) => job'[p].pc = "cwait"
        BY DEF CStart, Idle, TypeOK
      <4> QED
        BY <3>1, <4>1, <4>2, <4>3 DEF Start
    <3>2. CASE Lock(p)
      <4>1. job'[p].pc = Entry[job[p].pc] /\ job[p].pc \in Waiting
        BY <3>2, GotoBecomes DEF Lock, Becomes
      <4> QED
        BY <4>1 DEF Entry, Waiting
    <3>3. CASE LockBusy(p) \/ Crash(p)
      BY <3>3 DEF LockBusy, Crash, Idle, TypeOK
    <3> QED
      BY <1>3, <3>1, <3>2, <3>3
  <2>4. SettledTree(job[p])'
    BY <2>3 DEF SettledTree, Declared, Undoing
  <2> QED
    BY <1>2, <2>1, <2>2, <2>4 DEF SettledInductive
<1>4. CASE AuthorityChange \/ UNCHANGED vars
  BY <1>2, <1>4 DEF AuthorityChange, vars, tree, evidence, SettledInductive
<1>5. CASE \E x \in Paths, content \in Bytes : Edit(x, content)
  <2>1. lock = NoProc /\ UNCHANGED job
    BY <1>5 DEF Edit
  <2>2. \A q \in Procs : job'[q].pc \notin Critical
    BY <2>1, NoProcAssumption DEF EvidenceInductive, LockExclusion
  <2>3. ASSUME NEW q \in Procs PROVE SettledTree(job[q])'
    BY <2>2, Phases DEF SettledTree, Declared, Undoing, PhaseSets
  <2> QED
    BY <2>3 DEF SettledInductive
<1> QED
  BY <1>1, <1>3, <1>4, <1>5 DEF Next, Continue

-----------------------------------------------------------------------------
(* The journal implements DocumentStore: what does not show in the store *)

\* What p has put back in a completed recovery that is not finished.
Back(p) == IF job[p].pc \in Undoing THEN job[p].did ELSE {}

LEMMA BackStays ==
  ASSUME NEW p \in Procs, \A q \in Procs \ {p} : job'[q] = job[q],
         Back(p)' = Back(p), NEW x
  PROVE  BeingUndone(x)' <=> BeingUndone(x)
<1>1. BeingUndone(x) <=> \E q \in Procs : x \in Back(q)
  BY DEF BeingUndone, Back
<1>2. BeingUndone(x)' <=> \E q \in Procs : x \in Back(q)'
  BY DEF BeingUndone, Back
<1>3. \A q \in Procs : Back(q)' = Back(q)
  BY DEF Back
<1> QED
  BY <1>1, <1>2, <1>3

\* Only the holder of the lock is undoing anything.
LEMMA OnlyHolder ==
  ASSUME EvidenceInductive, NEW p \in Procs, job[p].pc \in Critical, NEW x
  PROVE  /\ BeingUndone(x) <=> x \in Back(p)
         /\ (\A q \in Procs \ {p} : job'[q] = job[q]) =>
              (BeingUndone(x)' <=> x \in Back(p)')
<1>1. \A q \in Procs \ {p} : job[q].pc \notin Undoing
  BY Phases DEF EvidenceInductive, LockExclusion, Undoing, PhaseSets
<1> QED
  BY <1>1 DEF BeingUndone, Back

LEMMA LogicalStays ==
  ASSUME TypeOK, EvidenceInductive, [Next]_vars, NEW x \in Paths,
         src'[x] = src[x], writer'[x] = writer[x],
         \A h \in Gens : h = writer[x] => (Unresolved(h)' <=> Unresolved(h)),
         BeingUndone(x)' <=> BeingUndone(x)
  PROVE  Logical(x)' = Logical(x)
<1>1. CASE writer[x] = Author
  BY <1>1 DEF Logical
<1>2. CASE writer[x] # Author
  <2>1. PICK h \in Gens : h = writer[x] /\ stage[h] = "prepared"
    BY <1>2, WriterPrepared
  <2>2. before'[h] = before[h] /\ after'[h] = after[h]
    BY <2>1, StepImmutable DEF Immutable
  <2> QED
    BY <2>1, <2>2 DEF Logical
<1> QED
  BY <1>1, <1>2

LEMMA TreeStays ==
  ASSUME \A x \in Paths : Logical(x)' = Logical(x)
  PROVE  LogicalTree' = LogicalTree
BY DEF LogicalTree

LEMMA LogStays ==
  ASSUME TypeOK, EvidenceInductive, [Next]_vars, UNCHANGED terminal
  PROVE  Decided' = Decided
<1> DEFINE entry(g) == [view |-> [x \in files[g] |-> before[g][x]],
                        goal |-> [x \in files[g] |-> after[g][x]]]
<1>1. ASSUME NEW g \in Gens, terminal[g] # "absent"
      PROVE  entry(g)' = entry(g)
  <2>1. stage[g] = "prepared"
    BY <1>1 DEF EvidenceInductive, Pristine
  <2> QED
    BY <2>1, StepImmutable DEF Immutable
<1> HIDE DEF entry
<1>2. /\ Decided = [g \in Gens |-> IF terminal[g] # "absent" THEN entry(g) ELSE None]
      /\ Decided' = [g \in Gens |-> IF terminal'[g] # "absent" THEN entry(g)' ELSE None]
  BY DEF Decided, entry
<1> QED
  BY <1>1, <1>2

\* Without a terminal record or a recovery published, attempts stay open.
LEMMA StaysOpen ==
  ASSUME TypeOK, EvidenceInductive, [Next]_vars, UNCHANGED terminal,
         \A h \in Gens, s \in Stamps : rec'[h][s] = "i-done" => rec[h][s] = "i-done",
         NEW h \in Gens, stage[h] = "prepared"
  PROVE  Unresolved(h)' <=> Unresolved(h)
<1>1. CASE Unresolved(h)
  BY <1>1, StepImmutable DEF Immutable, Unresolved, Interrupted, Recovered
<1>2. CASE ~Unresolved(h)
  BY <1>2, StaysResolved
<1> QED
  BY <1>1, <1>2

\* A step that leaves tree and terminal records alone and publishes no recovery.
Quiet(p) ==
  /\ \A q \in Procs \ {p} : job'[q] = job[q]
  /\ UNCHANGED <<tree, terminal>>
  /\ \A h \in Gens, s \in Stamps : rec'[h][s] = "i-done" => rec[h][s] = "i-done"
  /\ left'["edit"] = left["edit"]

LEMMA QuietTree ==
  ASSUME TypeOK, EvidenceInductive, [Next]_vars, NEW p \in Procs, Quiet(p),
         Back(p)' = Back(p)
  PROVE  LogicalTree' = LogicalTree /\ Decided' = Decided
<1>1. ASSUME NEW x \in Paths PROVE Logical(x)' = Logical(x)
  <2>1. src'[x] = src[x] /\ writer'[x] = writer[x]
    BY DEF Quiet, tree
  <2>2. BeingUndone(x)' <=> BeingUndone(x)
    BY BackStays DEF Quiet
  <2>3. ASSUME NEW h \in Gens, h = writer[x]
        PROVE  Unresolved(h)' <=> Unresolved(h)
    <3>1. stage[h] = "prepared"
      BY <2>3, WriterPrepared, AuthorAssumption
    <3> QED
      BY <3>1, StaysOpen DEF Quiet
  <2> QED
    BY <2>1, <2>2, <2>3, LogicalStays
<1> QED
  BY <1>1, TreeStays, LogStays DEF Quiet

\* The declaration of p stays, or p gives it up.
Goes(p) ==
  job'[p].pc \in Declared =>
    job[p].pc \in Declared /\ DeclaredWrite(job'[p]) = DeclaredWrite(job[p])

LEMMA DeclaredIsWrite ==
  ASSUME TypeOK, NEW p \in Procs, job[p].pc \in Declared
  PROVE  DeclaredWrite(job[p]) \in Store!Write /\ DeclaredWrite(job[p]) # None
<1>1. job[p] \in Job /\ job[p].pc # "idle"
  BY DEF TypeOK, Declared
<1>2. DeclaredWrite(job[p]) \in Store!Write
  BY <1>1 DEF Job, JobRecord, DeclaredWrite, Store!Write
<1> QED
  BY <1>2, NoneAssumption

LEMMA StoreStutters ==
  ASSUME TypeOK, NEW p \in Procs, \A q \in Procs \ {p} : job'[q] = job[q],
         LogicalTree' = LogicalTree, Decided' = Decided,
         left'["edit"] = left["edit"], Goes(p)
  PROVE  [Store!DocNext]_(Store!docVars)
<1>1. CASE job[p].pc \in Declared /\ job'[p].pc \notin Declared
  <2>1. Declarations[p] # None
    BY <1>1, DeclaredIsWrite DEF Declarations
  <2>2. Declarations' = [Declarations EXCEPT ![p] = None]
    BY <1>1 DEF Declarations
  <2>3. Store!Abandon(p)
    BY <2>1, <2>2 DEF Store!Abandon
  <2> QED
    BY <2>3 DEF Store!DocNext
<1>2. CASE job[p].pc \in Declared <=> job'[p].pc \in Declared
  <2>1. Declarations' = Declarations
    BY <1>2 DEF Declarations, Goes
  <2> QED
    BY <2>1 DEF Store!docVars
<1> QED
  BY <1>1, <1>2 DEF Goes

LEMMA QuietStutters ==
  ASSUME TypeOK, EvidenceInductive, [Next]_vars, NEW p \in Procs, Quiet(p),
         Back(p)' = Back(p), Goes(p)
  PROVE  [Store!DocNext]_(Store!docVars)
BY QuietTree, StoreStutters DEF Quiet

LEMMA EndStutters ==
  ASSUME TypeOK, EvidenceInductive, [Next]_vars, NEW p \in Procs, Quiet(p),
         job'[p].pc = "idle", Back(p) = {}
  PROVE  [Store!DocNext]_(Store!docVars)
<1>1. Back(p)' = {} /\ Goes(p)
  BY DEF Back, Goes, Undoing, Declared
<1> QED
  BY <1>1, QuietStutters

LEMMA BecomesStutters ==
  ASSUME TypeOK, EvidenceInductive, [Next]_vars, NEW p \in Procs, Quiet(p),
         NEW ph, NEW T, NEW D, Becomes(p, ph, T, D),
         ph \in Declared => job[p].pc \in Declared,
         (IF ph \in Undoing THEN D ELSE {}) = Back(p)
  PROVE  [Store!DocNext]_(Store!docVars)
<1>1. Back(p)' = Back(p) /\ Goes(p)
  BY DEF Back, Goes, Becomes, DeclaredWrite
<1> QED
  BY <1>1, QuietStutters

LEMMA KeepsEdits ==
  ASSUME TypeOK, \/ UNCHANGED left
                 \/ Spend("fault") \/ Spend("crash") \/ Spend("auth")
  PROVE  left'["edit"] = left["edit"]
BY DEF Spend, TypeOK

\* A step of the holder that writes nothing and publishes nothing is quiet.
LEMMA HolderQuiet ==
  ASSUME TypeOK, NEW p \in Procs, TxnStep(p) \/ IntStep(p) \/ CmpStep(p),
         UNCHANGED <<tree, terminal>>, ~IPublish(p) \/ UNCHANGED rec
  PROVE  Quiet(p)
<1>1. \A q \in Procs \ {p} : job'[q] = job[q]
  BY TxnContinues, IntContinues, CmpContinues DEF Continues
<1>2. UNCHANGED left \/ Spend("fault")
  BY DEF TxnStep, IntStep, CmpStep, Admit, Prepare, Stage, Check, Replace, Validate,
         Confirm, Finalize, Restore, RbVerify, RbPublish, ILoad, IRecord, ICheck,
         IWrite, IFinal, IPublish, CLoad, CRecord, CPreflight, CRestore, CVerify,
         CDrop, CPublish, CUndo, Fail, Refuse
<1>3. \/ UNCHANGED rec
      \/ \E g, s : \E v \in {"i-pending", "c-dir", "c-pending", "c-done"} :
           rec' = [rec EXCEPT ![g][s] = v]
  BY DEF TxnStep, IntStep, CmpStep, Admit, Prepare, Stage, Check, Replace, Validate,
         Confirm, Finalize, Restore, RbVerify, RbPublish, ILoad, IRecord, ICheck,
         IWrite, IFinal, CLoad, CRecord, CPreflight, CRestore, CVerify,
         CDrop, CPublish, CUndo, Fail, Refuse, evidence
<1>4. \A h \in Gens, s \in Stamps : rec'[h][s] = "i-done" => rec[h][s] = "i-done"
  <2>1. ASSUME NEW g, NEW t, NEW v \in {"i-pending", "c-dir", "c-pending", "c-done"},
               rec' = [rec EXCEPT ![g][t] = v], NEW h \in Gens, NEW s \in Stamps
        PROVE  rec'[h][s] = rec[h][s] \/ rec'[h][s] = v
    BY <2>1 DEF TypeOK
  <2> QED
    BY <1>3, <2>1
<1> QED
  BY <1>1, <1>2, <1>4, KeepsEdits DEF Quiet

\* The ways a bounded transaction goes on without a write.
LEMMA TxnStutters ==
  ASSUME TypeOK, EvidenceInductive, [Next]_vars, NEW p \in Procs, TxnStep(p),
         UNCHANGED <<tree, terminal>>,
         \/ End(p)
         \/ \E S : BeginRollback(p, S)
         \/ \E ph : /\ Goto(p, ph) /\ ph \notin Undoing
                    /\ ph \in Declared => job[p].pc \in Declared
  PROVE  [Store!DocNext]_(Store!docVars)
<1>1. job[p].pc \in TxnPhases /\ Back(p) = {}
  BY Phases DEF PhaseSets, Back, Undoing, TxnStep, Admit, Prepare, Stage, Check,
     Replace, Validate, Confirm, Finalize, Restore, RbVerify, RbPublish
<1>2. Quiet(p)
  BY <1>1, Phases, HolderQuiet DEF IPublish, PhaseSets
<1>3. CASE End(p)
  <2>1. job'[p].pc = "idle"
    BY <1>3 DEF End, TypeOK, Idle
  <2> QED
    BY <1>1, <1>2, <2>1, EndStutters
<1>4. CASE \E S : BeginRollback(p, S)
  <2>1. PICK S : BeginRollback(p, S)
    BY <1>4
  <2>2. Becomes(p, IF S = {} THEN "rbverify" ELSE "restore", S, S)
    BY <2>1, RollbackBecomes
  <2>3. (IF S = {} THEN "rbverify" ELSE "restore") \notin Declared \cup Undoing
    BY DEF Declared, Undoing
  <2> QED
    BY <1>1, <1>2, <2>2, <2>3, BecomesStutters
<1>5. ASSUME NEW ph, Goto(p, ph), ph \notin Undoing,
             ph \in Declared => job[p].pc \in Declared
      PROVE  [Store!DocNext]_(Store!docVars)
  BY <1>1, <1>2, <1>5, GotoBecomes, BecomesStutters
<1> QED
  BY <1>3, <1>4, <1>5

LEMMA StageStutters ==
  ASSUME TypeOK, EvidenceInductive, [Next]_vars, NEW p \in Procs, Stage(p)
  PROVE  [Store!DocNext]_(Store!docVars)
<1>0. TxnStep(p) /\ UNCHANGED <<tree, terminal>> /\ job[p].pc = "stage"
  BY DEF TxnStep, Stage, Refuse, Fail, evidence
<1>1. CASE End(p)
  BY <1>0, <1>1, TxnStutters
<1>2. CASE job' = [job EXCEPT ![p].pc = "check", ![p].todo = job[p].edits]
  <2>1. Becomes(p, "check", job[p].edits, job[p].did)
    BY <1>2 DEF Becomes, Job, JobRecord, TypeOK
  <2>2. Quiet(p)
    BY <1>0, HolderQuiet DEF IPublish
  <2> QED
    BY <1>0, <2>1, <2>2, BecomesStutters DEF Back, Undoing, Declared
<1> QED
  BY <1>1, <1>2 DEF Stage, Refuse, Fail

LEMMA QuietTxnSteps ==
  ASSUME TypeOK, EvidenceInductive, [Next]_vars, NEW p \in Procs,
         \/ Admit(p) \/ Prepare(p) \/ Check(p) \/ Validate(p) \/ Confirm(p)
         \/ RbVerify(p)
         \/ (Replace(p) /\ BeginRollback(p, job[p].did) /\ UNCHANGED tree)
         \/ (Finalize(p) /\ BeginRollback(p, job[p].edits) /\ UNCHANGED terminal)
         \/ (Restore(p) /\ Fail(p)) \/ (RbPublish(p) /\ Fail(p))
  PROVE  [Store!DocNext]_(Store!docVars)
<1>1. TxnStep(p)
  BY DEF TxnStep
<1>2. UNCHANGED <<tree, terminal>>
  BY DEF Admit, Prepare, Check, Validate, Confirm, RbVerify, Replace, Finalize,
         Restore, RbPublish, Fail, Refuse, evidence
<1>3. \/ End(p)
      \/ \E S : BeginRollback(p, S)
      \/ \E ph : /\ Goto(p, ph) /\ ph \notin Undoing
                 /\ ph \in Declared => job[p].pc \in Declared
  BY DEF Admit, Prepare, Check, Validate, Confirm, RbVerify, Fail, Refuse,
         Declared, Undoing
<1> QED
  BY <1>1, <1>2, <1>3, TxnStutters

LEMMA QuietIntSteps ==
  ASSUME TypeOK, EvidenceInductive, [Next]_vars, NEW p \in Procs,
         \/ ILoad(p) \/ IRecord(p) \/ ICheck(p) \/ IFinal(p)
         \/ (IWrite(p) /\ (Fail(p) \/ Refuse(p))) \/ (IPublish(p) /\ Fail(p))
  PROVE  [Store!DocNext]_(Store!docVars)
<1>1. IntStep(p) /\ Back(p) = {} /\ job[p] \in Job
  BY DEF IntStep, TypeOK, Back, Undoing, ILoad, IRecord, ICheck, IFinal, IWrite,
         IPublish
<1>2. UNCHANGED <<tree, terminal>> /\ (IPublish(p) => UNCHANGED rec)
  BY DEF ILoad, IRecord, ICheck, IFinal, IWrite, IPublish, Fail, Refuse, evidence,
         genVars
<1>3. Quiet(p)
  BY <1>1, <1>2, HolderQuiet
<1>4. CASE End(p)
  <2>1. job'[p].pc = "idle"
    BY <1>4 DEF End, TypeOK, Idle
  <2> QED
    BY <1>1, <1>3, <2>1, EndStutters
<1>5. CASE \E ph \in {"icheck", "iwrite", "ifinal", "ipublish"} : Goto(p, ph)
  <2>1. PICK ph \in {"icheck", "iwrite", "ifinal", "ipublish"} : Goto(p, ph)
    BY <1>5
  <2>2. ph \notin Declared \cup Undoing
    BY DEF Declared, Undoing
  <2> QED
    BY <1>1, <1>3, <2>1, <2>2, GotoBecomes, BecomesStutters
<1>6. CASE ILoad(p) /\ ~End(p)
  <2> DEFINE T == {x \in files[job[p].cur] : src[x] # before[job[p].cur][x]}
  <2>1. PICK ph \in {"irecord", "ifinal", "icheck"}, s \in Stamps :
          job' = [job EXCEPT ![p].pc = ph, ![p].stamp = s, ![p].todo = T]
    BY <1>1, <1>6 DEF ILoad, Refuse, Job, JobRecord, IntPhases, RecoveryPhases
  <2>2. job'[p].pc \notin Declared \cup Undoing
    BY <1>1, <2>1 DEF Job, JobRecord, TypeOK, Declared, Undoing
  <2>3. Back(p)' = Back(p) /\ Goes(p)
    BY <1>1, <2>2 DEF Back, Goes
  <2> QED
    BY <1>3, <2>3, QuietStutters
<1> QED
  BY <1>4, <1>5, <1>6 DEF ILoad, IRecord, ICheck, IFinal, IWrite, IPublish, Fail,
                          Refuse

\* A recovery that stops with nothing put back, or begins to undo.
LEMMA UndoStutters ==
  ASSUME TypeOK, EvidenceInductive, [Next]_vars, NEW p \in Procs, Quiet(p),
         BeginUndo(p),
         job[p].pc \in Undoing \/ (job[p].pc = "cpreflight" /\ job[p].did = {})
  PROVE  [Store!DocNext]_(Store!docVars)
<1>1. CASE job[p].did = {}
  <2>1. job'[p].pc = "idle"
    BY <1>1 DEF BeginUndo, End, TypeOK, Idle
  <2> QED
    BY <1>1, <2>1, EndStutters DEF Back
<1>2. CASE job[p].did # {}
  <2>1. Becomes(p, "cundo", job[p].todo, job[p].did)
    BY <1>2, GotoBecomes DEF BeginUndo
  <2>2. "cundo" \in Undoing /\ "cundo" \notin Declared /\ job[p].pc \in Undoing
    BY <1>2 DEF Undoing, Declared
  <2> QED
    BY <2>1, <2>2, BecomesStutters DEF Back
<1> QED
  BY <1>1, <1>2

LEMMA QuietCmpSteps ==
  ASSUME TypeOK, EvidenceInductive, [Next]_vars, NEW p \in Procs,
         \/ CLoad(p) \/ CRecord(p) \/ CPreflight(p) \/ CVerify(p) \/ CDrop(p)
         \/ (CRestore(p) /\ BeginUndo(p) /\ UNCHANGED tree)
         \/ (CPublish(p) /\ BeginUndo(p))
  PROVE  [Store!DocNext]_(Store!docVars)
<1> DEFINE j == job[p]
<1>1. CmpStep(p) /\ j \in Job
  BY DEF CmpStep, TypeOK
<1>2. UNCHANGED <<tree, terminal>> /\ ~IPublish(p)
  BY DEF CLoad, CRecord, CPreflight, CVerify, CDrop, CRestore, CPublish, IPublish,
         Refuse, evidence, genVars
<1>3. Quiet(p)
  BY <1>1, <1>2, HolderQuiet
<1>4. j.pc = "cpreflight" => j.did = {}
  BY <1>1, HolderCritical, Holder DEF LoopPhase
<1>5. CASE CLoad(p) \/ CRecord(p)
  <2>1. Back(p) = {}
    BY <1>5 DEF CLoad, CRecord, Back, Undoing
  <2>2. CASE End(p)
    <3>1. job'[p].pc = "idle"
      BY <2>2 DEF End, TypeOK, Idle
    <3> QED
      BY <1>3, <2>1, <3>1, EndStutters
  <2>3. ASSUME NEW ph \in {"crecord", "cpreflight"}, Goto(p, ph)
        PROVE  [Store!DocNext]_(Store!docVars)
    <3>1. ph \notin Declared \cup Undoing
      BY DEF Declared, Undoing
    <3> QED
      BY <1>3, <2>1, <2>3, <3>1, GotoBecomes, BecomesStutters
  <2> QED
    BY <1>5, <2>2, <2>3 DEF CLoad, CRecord, Refuse
<1>6. CASE BeginUndo(p) /\ ~(CLoad(p) \/ CRecord(p))
  <2>1. j.pc \in Undoing \/ j.pc = "cpreflight"
    BY <1>6 DEF CPreflight, CVerify, CDrop, CRestore, CPublish, Undoing
  <2> QED
    BY <1>3, <1>4, <1>6, <2>1, UndoStutters
<1>7. CASE CPreflight(p) /\ ~BeginUndo(p)
  <2>1. Becomes(p, "crestore", files[j.cur], j.did) /\ j.did = {}
    BY <1>1, <1>4, <1>7 DEF CPreflight, Becomes, Job, JobRecord, TypeOK
  <2>2. Back(p) = {} /\ "crestore" \notin Declared
    BY <1>7 DEF CPreflight, Back, Undoing, Declared
  <2> QED
    BY <1>3, <2>1, <2>2, BecomesStutters
<1>8. CASE CVerify(p) /\ ~BeginUndo(p)
  <2>1. Becomes(p, "cdrop", j.todo, j.did) /\ j.pc = "cverify"
    BY <1>8, GotoBecomes DEF CVerify
  <2>2. "cdrop" \in Undoing /\ j.pc \in Undoing /\ "cdrop" \notin Declared
    BY <2>1 DEF Undoing, Declared
  <2> QED
    BY <1>3, <2>1, <2>2, BecomesStutters DEF Back
<1>9. CASE CDrop(p)
  <2>1. PICK ph \in {"cundo", "cpublish"} : Becomes(p, ph, j.todo, j.did)
    BY <1>9, Drops
  <2>2. ph \in Undoing /\ j.pc \in Undoing /\ ph \notin Declared
    BY <1>9 DEF Undoing, Declared, CDrop
  <2> QED
    BY <1>3, <2>1, <2>2, BecomesStutters DEF Back
<1> QED
  BY <1>5, <1>6, <1>7, <1>8, <1>9

-----------------------------------------------------------------------------
(* The writes of single files do not show in the store either *)

LEMMA WriteStutters ==
  ASSUME TypeOK, EvidenceInductive, [Next]_vars, NEW p \in Procs,
         job[p].pc \in Critical, \A q \in Procs \ {p} : job'[q] = job[q],
         UNCHANGED evidence, left'["edit"] = left["edit"], Goes(p),
         NEW x \in Paths, NEW c, NEW by, Writes(x, c, by),
         \A y \in Paths \ {x} : y \in Back(p)' <=> y \in Back(p),
         Logical(x)' = Logical(x)
  PROVE  [Store!DocNext]_(Store!docVars)
<1>1. ASSUME NEW y \in Paths, y # x PROVE Logical(y)' = Logical(y)
  <2>1. src'[y] = src[y] /\ writer'[y] = writer[y]
    BY <1>1 DEF Writes
  <2>2. BeingUndone(y)' <=> BeingUndone(y)
    BY <1>1, OnlyHolder
  <2>3. \A h \in Gens : Unresolved(h)' <=> Unresolved(h)
    BY DEF evidence, Unresolved, Interrupted, Recovered
  <2> QED
    BY <2>1, <2>2, <2>3, LogicalStays
<1>2. LogicalTree' = LogicalTree
  BY <1>1, TreeStays
<1>3. Decided' = Decided
  BY LogStays DEF evidence
<1> QED
  BY <1>2, <1>3, StoreStutters

\* The face of a path that an unresolved attempt carries is its before copy.
LEMMA UnresolvedFace ==
  ASSUME NEW h \in Gens, NEW x, Unresolved(h)
  PROVE  /\ writer[x] = h => Logical(x) = before[h][x]
         /\ UNCHANGED evidence /\ writer'[x] = h => Logical(x)' = before[h][x]
<1>1. h # Author
  BY AuthorAssumption
<1>2. UNCHANGED evidence => Unresolved(h)' /\ before'[h] = before[h]
  BY DEF evidence, Unresolved, Interrupted, Recovered
<1> QED
  BY <1>1, <1>2 DEF Logical

\* The face of settled bytes that nobody is undoing is what they are.
LEMMA SettledFace ==
  ASSUME NEW x, Settled(x), ~BeingUndone(x)
  PROVE  Logical(x) = src[x]
BY DEF Settled, Logical

LEMMA OpenTransaction ==
  ASSUME NEW g \in Gens, stage[g] = "prepared", terminal[g] = "absent",
         Records(g) = {}
  PROVE  Unresolved(g)
BY DEF Unresolved, Interrupted, Recovered, Records

LEMMA ReplaceStutters ==
  ASSUME TypeOK, EvidenceInductive, TreeInductive, SettledInductive, [Next]_vars,
         NEW p \in Procs, Replace(p)
  PROVE  [Store!DocNext]_(Store!docVars)
<1> DEFINE j == job[p]
<1>1. CASE BeginRollback(p, j.did) /\ UNCHANGED tree
  BY <1>1, QuietTxnSteps
<1>2. CASE ~(BeginRollback(p, j.did) /\ UNCHANGED tree)
  <2>1. PICK g \in Gens : g = j.cur
    BY WritingKnows DEF Replace
  <2>2. PICK x \in j.edits \ j.did :
          /\ src[x] = before[g][x] /\ Writes(x, after[g][x], g)
          /\ Becomes(p, IF j.todo = {x} THEN "validate" ELSE "check",
                     j.todo \ {x}, j.did \cup {x})
          /\ UNCHANGED left
    BY <1>2, <2>1, ReplacesOne
  <2>3. j.pc = "replace" /\ j.pc \in Critical /\ UNCHANGED evidence /\ j \in Job
    BY WritingKnows DEF Replace
  <2>4. Unresolved(g)
    BY <2>1, <2>3, WritingKnows, OpenTransaction
  <2>5. x \in Paths /\ Settled(x)
    BY <2>3 DEF SettledInductive, SettledTree, Declared, Job, JobRecord
  <2>6. Back(p) = {} /\ Back(p)' = {} /\ Goes(p)
    BY <2>2, <2>3 DEF Back, Goes, Becomes, Undoing, Declared, DeclaredWrite
  <2>7. ~BeingUndone(x)
    BY <2>3, <2>6, OnlyHolder
  <2>8. Logical(x) = before[g][x]
    BY <2>2, <2>5, <2>7, SettledFace
  <2>9. Logical(x)' = before[g][x]
    BY <2>2, <2>3, <2>4, UnresolvedFace DEF Writes
  <2> QED
    BY <2>2, <2>3, <2>5, <2>6, <2>8, <2>9, WriteStutters DEF Becomes
<1> QED
  BY <1>1, <1>2

LEMMA RestoreStutters ==
  ASSUME TypeOK, EvidenceInductive, TreeInductive, [Next]_vars,
         NEW p \in Procs, Restore(p)
  PROVE  [Store!DocNext]_(Store!docVars)
<1> DEFINE j == job[p]
<1>1. CASE Fail(p)
  BY <1>1, QuietTxnSteps
<1>2. CASE ~Fail(p)
  <2>1. PICK g \in Gens : g = j.cur
    BY RestoringKnows DEF Restore
  <2>2. PICK x \in j.todo :
          /\ writer[x] = g /\ Writes(x, before[g][x], g)
          /\ Becomes(p, IF j.todo = {x} THEN "rbverify" ELSE "restore",
                     j.todo \ {x}, j.did)
          /\ UNCHANGED <<evidence, left>>
    BY <1>2, <2>1, RestoresOne
  <2>3. j.pc = "restore" /\ j.pc \in Critical /\ j.todo \subseteq Paths
    BY RestoringKnows DEF Restore, Job, JobRecord
  <2>4. Unresolved(g)
    BY <2>1, <2>3, RestoringKnows, OpenTransaction
  <2>5. Back(p) = {} /\ Back(p)' = {} /\ Goes(p)
    BY <2>2, <2>3 DEF Back, Goes, Becomes, Undoing, Declared
  <2>6. Logical(x)' = Logical(x)
    BY <2>2, <2>4, UnresolvedFace DEF Writes
  <2> QED
    BY <2>2, <2>3, <2>5, <2>6, WriteStutters DEF Becomes
<1> QED
  BY <1>1, <1>2

LEMMA IWriteStutters ==
  ASSUME TypeOK, EvidenceInductive, TreeInductive, SettledInductive, [Next]_vars,
         NEW p \in Procs, IWrite(p)
  PROVE  [Store!DocNext]_(Store!docVars)
<1> DEFINE j == job[p]
<1>1. CASE Fail(p) \/ Refuse(p)
  BY <1>1, QuietIntSteps
<1>2. CASE ~(Fail(p) \/ Refuse(p))
  <2>0. /\ j.pc = "iwrite" /\ j.pc \in Critical /\ j \in Job /\ j.cur \in Gens
        /\ Knows(j) /\ Carries(j.todo, j.cur)
    BY HolderKnows, Phases
       DEF IWrite, PhaseSets, SettledInductive, SettledTree
  <2>1. PICK g \in Gens : g = j.cur
    BY <2>0
  <2>2. PICK x \in j.todo :
          /\ Writes(x, before[g][x], g)
          /\ Becomes(p, IF j.todo = {x} THEN "ifinal" ELSE "icheck",
                     j.todo \ {x}, j.did)
          /\ UNCHANGED <<evidence, left>>
    BY <1>2, <2>1, RecoversOne
  <2>3. writer[x] = g /\ j.todo \subseteq Paths
    BY <2>0, <2>1 DEF Carries, Job, JobRecord
  <2>4. Unresolved(g)
    <3>1. Interrupted(g) /\ j.stamp \in Stamps /\ rec[g][j.stamp] = "i-pending"
      BY <2>0, <2>1, Phases
         DEF Knows, EvidencePhase, PhaseSets, Job, JobRecord, RecoveryPhases
    <3>2. \A s \in Stamps : rec[g][s] = "i-done" => s = j.stamp
      BY <3>1 DEF EvidenceInductive, OneRecoveryRoute, Records, Interrupted
    <3> QED
      BY <3>1, <3>2 DEF Unresolved, Recovered
  <2>5. Back(p) = {} /\ Back(p)' = {} /\ Goes(p)
    BY <2>0, <2>2 DEF Back, Goes, Becomes, Undoing, Declared
  <2>6. Logical(x)' = Logical(x)
    BY <2>2, <2>3, <2>4, UnresolvedFace DEF Writes
  <2> QED
    BY <2>0, <2>2, <2>3, <2>5, <2>6, WriteStutters DEF Becomes
<1> QED
  BY <1>1, <1>2

\* The face of a path written under terminal evidence.
LEMMA ResolvedFace ==
  ASSUME NEW h \in Gens, NEW x, terminal[h] # "absent"
  PROVE  /\ writer[x] = h =>
              Logical(x) = IF BeingUndone(x) THEN after[h][x] ELSE src[x]
         /\ UNCHANGED evidence /\ writer'[x] = h =>
              Logical(x)' = IF BeingUndone(x)' THEN after[h][x] ELSE src'[x]
<1>1. h # Author
  BY AuthorAssumption
<1>2. UNCHANGED evidence => ~Unresolved(h)' /\ after'[h] = after[h]
  BY DEF evidence, Unresolved, Interrupted
<1> QED
  BY <1>1, <1>2 DEF Logical, Unresolved, Interrupted

LEMMA CRestoreStutters ==
  ASSUME TypeOK, EvidenceInductive, TreeInductive, SettledInductive, [Next]_vars,
         NEW p \in Procs, CRestore(p)
  PROVE  [Store!DocNext]_(Store!docVars)
<1> DEFINE j == job[p]
<1>0. j.pc = "crestore" /\ j.pc \in Undoing
  BY DEF CRestore, Undoing
<1>1. CASE BeginUndo(p) /\ UNCHANGED tree
  BY <1>1, QuietCmpSteps
<1>2. CASE ~(BeginUndo(p) /\ UNCHANGED tree)
  <2>1. PICK g \in Gens : g = j.cur
    BY <1>0, UndoingKnows
  <2>2. PICK x \in files[g] \ j.did :
          /\ src[x] = after[g][x] /\ Writes(x, before[g][x], g)
          /\ Becomes(p, IF j.todo = {x} THEN "cverify" ELSE "crestore",
                     j.todo \ {x}, j.did \cup {x})
          /\ UNCHANGED <<evidence, left>>
    BY <1>2, <2>1, PutsBackOne
  <2>3. /\ j.pc \in Critical /\ terminal[g] # "absent" /\ files[g] \subseteq Paths
    BY <1>0, <2>1, UndoingKnows
  <2>4. Settled(x)
    BY <1>0, <2>1, <2>2 DEF SettledInductive, SettledTree
  <2>5. Back(p) = j.did /\ Back(p)' = j.did \cup {x} /\ Goes(p)
    BY <1>0, <2>2 DEF Back, Goes, Becomes, Undoing, Declared
  <2>6. ~BeingUndone(x) /\ BeingUndone(x)'
    BY <2>2, <2>3, <2>5, OnlyHolder DEF Becomes
  <2>7. Logical(x) = after[g][x]
    BY <2>2, <2>4, <2>6, SettledFace
  <2>8. Logical(x)' = after[g][x]
    BY <2>2, <2>3, <2>6, ResolvedFace DEF Writes
  <2> QED
    BY <2>2, <2>3, <2>5, <2>7, <2>8, WriteStutters DEF Becomes
<1> QED
  BY <1>1, <1>2

LEMMA CUndoStutters ==
  ASSUME TypeOK, EvidenceInductive, TreeInductive, [Next]_vars, NEW p \in Procs,
         UndoesToTheEnd(p), CUndo(p)
  PROVE  [Store!DocNext]_(Store!docVars)
<1> DEFINE j == job[p]
<1>0. j.pc = "cundo" /\ j.pc \in Undoing
  BY DEF CUndo, Undoing
<1>1. PICK g \in Gens : g = j.cur
  BY <1>0, UndoingKnows
<1>2. /\ j.pc \in Critical /\ terminal[g] # "absent" /\ Carries(j.did, g)
      /\ j.did \subseteq Paths /\ UNCHANGED evidence
  BY <1>0, <1>1, UndoingKnows DEF CUndo, Fail
<1>3. CASE Fail(p)
  <2>1. left["fault"] \in Nat /\ left'["fault"] = left["fault"] - 1
    BY <1>3 DEF Fail, Spend, TypeOK
  <2>2. job'[p].pc = "idle"
    BY <1>3 DEF Fail, End, TypeOK, Idle
  <2>3. j.did = {}
    BY <1>0, <2>1, <2>2 DEF UndoesToTheEnd
  <2>4. Quiet(p)
    <3>1. CmpStep(p) /\ UNCHANGED <<tree, terminal>> /\ UNCHANGED rec
      BY <1>3 DEF CmpStep, Fail, evidence
    <3> QED
      BY <3>1, HolderQuiet
  <2> QED
    BY <2>2, <2>3, <2>4, EndStutters DEF Back
<1>4. CASE ~Fail(p)
  <2>1. PICK x \in j.did :
          /\ Writes(x, after[g][x], g)
          /\ \/ j.did = {x} /\ End(p)
             \/ Becomes(p, "cundo", j.todo, j.did \ {x})
    BY <1>1, <1>4, UndoesOne
  <2>2. UNCHANGED left
    BY <1>4 DEF CUndo
  <2>3. \A q \in Procs \ {p} : job'[q] = job[q]
    BY <2>1 DEF End, Becomes, TypeOK
  <2>4. Back(p) = j.did /\ Back(p)' = j.did \ {x} /\ Goes(p)
    <3>1. CASE j.did = {x} /\ End(p)
      <4>1. job'[p].pc = "idle"
        BY <3>1 DEF End, TypeOK, Idle
      <4> QED
        BY <1>0, <3>1, <4>1 DEF Back, Goes, Undoing, Declared
    <3>2. CASE Becomes(p, "cundo", j.todo, j.did \ {x})
      BY <1>0, <3>2 DEF Back, Goes, Becomes, Undoing, Declared
    <3> QED
      BY <2>1, <3>1, <3>2
  <2>5. BeingUndone(x) /\ ~BeingUndone(x)'
    BY <1>2, <2>3, <2>4, OnlyHolder
  <2>6. Logical(x) = after[g][x]
    BY <1>2, <2>1, <2>5, ResolvedFace DEF Carries
  <2>7. Logical(x)' = after[g][x]
    BY <1>2, <2>1, <2>5, ResolvedFace DEF Writes
  <2> QED
    BY <1>2, <2>1, <2>2, <2>3, <2>4, <2>6, <2>7, WriteStutters
<1> QED
  BY <1>3, <1>4

-----------------------------------------------------------------------------
(* The steps that show: a write commits, is rejected or is undone *)

\* A terminal record makes one entry of the log.
LEMMA LogEntry ==
  ASSUME TypeOK, EvidenceInductive, [Next]_vars, NEW g \in Gens,
         terminal[g] = "absent", NEW v, v # "absent",
         terminal' = [terminal EXCEPT ![g] = v], UNCHANGED <<files, before, after>>
  PROVE  Decided' = [Decided EXCEPT ![g] =
                       [view |-> [x \in files[g] |-> before[g][x]],
                        goal |-> [x \in files[g] |-> after[g][x]]]]
<1> DEFINE entry(h) == [view |-> [x \in files[h] |-> before[h][x]],
                        goal |-> [x \in files[h] |-> after[h][x]]]
<1>1. \A h \in Gens : entry(h)' = entry(h)
  OBVIOUS
<1> HIDE DEF entry
<1>2. /\ Decided = [h \in Gens |-> IF terminal[h] # "absent" THEN entry(h) ELSE None]
      /\ Decided' = [h \in Gens |-> IF terminal'[h] # "absent" THEN entry(h)' ELSE None]
  BY DEF Decided, entry
<1>3. \A h \in Gens : terminal'[h] = IF h = g THEN v ELSE terminal[h]
  BY DEF TypeOK
<1>4. Decided' = [Decided EXCEPT ![g] = entry(g)]
  BY <1>1, <1>2, <1>3
<1> QED
  BY <1>4 DEF entry

\* The faces of the paths that other generations carry stay.
LEMMA OtherFaces ==
  ASSUME TypeOK, EvidenceInductive, [Next]_vars, NEW p \in Procs,
         job[p].pc \in Critical, \A q \in Procs \ {p} : job'[q] = job[q],
         UNCHANGED tree, NEW g,
         \A h \in Gens \ {g} : Unresolved(h)' <=> Unresolved(h),
         NEW x \in Paths, writer[x] # g, x \in Back(p)' <=> x \in Back(p)
  PROVE  Logical(x)' = Logical(x)
<1>1. BeingUndone(x)' <=> BeingUndone(x)
  BY OnlyHolder
<1> QED
  BY <1>1, LogicalStays DEF tree

LEMMA FinalizeCommits ==
  ASSUME TypeOK, EvidenceInductive, TreeInductive, SettledInductive, [Next]_vars,
         NEW p \in Procs, Finalize(p)
  PROVE  [Store!DocNext]_(Store!docVars)
<1> DEFINE j == job[p]
<1>1. CASE BeginRollback(p, j.edits) /\ UNCHANGED terminal
  BY <1>1, QuietTxnSteps
<1>2. CASE ~(BeginRollback(p, j.edits) /\ UNCHANGED terminal)
  <2>1. PICK g \in Gens : g = j.cur
    BY WritingKnows DEF Finalize
  <2>2. /\ terminal' = [terminal EXCEPT ![g] = "applied"] /\ End(p)
        /\ UNCHANGED <<tree, stage, files, before, after, gauth, rec, left>>
    BY <1>2, <2>1 DEF Finalize
  <2>3. /\ j.pc = "finalize" /\ j.pc \in Critical /\ j \in Job
        /\ stage[g] = "prepared" /\ terminal[g] = "absent" /\ Records(g) = {}
        /\ files[g] = j.edits /\ after[g] = j.goal
        /\ before[g] = Only(j.edits, j.view) /\ j.did = j.edits
        /\ Holds(j.guards, j.view) /\ Holds(j.edits, after[g])
        /\ Carries(j.edits, g) /\ j.edits \cap j.guards = {}
        /\ \A x \in Paths : writer[x] = g => x \in j.edits
    BY <2>1, WritingKnows DEF Finalize, Holds
  <2>4. j.edits \subseteq Paths /\ j.guards \subseteq Paths
    BY <2>3 DEF Job, JobRecord
  <2>5. Unresolved(g)
    BY <2>3, OpenTransaction
  <2>6. /\ \A q \in Procs \ {p} : job'[q] = job[q]
        /\ job'[p].pc = "idle" /\ Back(p) = {} /\ Back(p)' = {}
    BY <2>2, <2>3 DEF End, TypeOK, Idle, Back, Undoing
  <2>7. \A x : ~BeingUndone(x) /\ ~BeingUndone(x)'
    BY <2>3, <2>6, OnlyHolder
  <2>8. \A x \in j.edits : Logical(x) = j.view[x]
    BY <2>3, <2>4, <2>5, UnresolvedFace DEF Carries, Only
  <2>9. \A x \in j.guards : Logical(x) = j.view[x]
    BY <2>3, <2>4, <2>7, SettledFace
       DEF SettledInductive, SettledTree, Declared, Holds
  <2>10. \A x \in j.edits : Logical(x)' = j.goal[x]
    <3>1. ~Unresolved(g)'
      BY <2>2 DEF Unresolved, Interrupted, TypeOK
    <3>2. g # Author
      BY AuthorAssumption
    <3>3. \A x \in j.edits : writer'[x] = g /\ src'[x] = j.goal[x]
      BY <2>2, <2>3 DEF Carries, Holds, tree
    <3> QED
      BY <2>7, <3>1, <3>2, <3>3 DEF Logical
  <2>11. \A h \in Gens \ {g} : Unresolved(h)' <=> Unresolved(h)
    BY <2>2 DEF Unresolved, Interrupted, Recovered, TypeOK
  <2>12. \A x \in Paths \ j.edits : Logical(x)' = Logical(x)
    BY <2>2, <2>3, <2>6, <2>11, OtherFaces
  <2> DEFINE w == Declarations[p]
  <2>13. w = DeclaredWrite(j) /\ w # None
    BY <2>3, DeclaredIsWrite DEF Declarations, Declared
  <2>14. /\ w.gen = g /\ w.edits = j.edits /\ w.guards = j.guards
         /\ w.view = j.view /\ w.goal = j.goal
    BY <2>1, <2>13 DEF DeclaredWrite
  <2>15. Decided[g] = None
    BY <2>3 DEF Decided
  <2>16. Store!Agrees(w.edits \cup w.guards, w.view)
    BY <2>4, <2>8, <2>9, <2>14 DEF Store!Agrees, LogicalTree
  <2>17. LogicalTree' = [x \in Paths |-> IF x \in w.edits THEN w.goal[x]
                                         ELSE LogicalTree[x]]
    BY <2>10, <2>12, <2>14 DEF LogicalTree
  <2>18. Decided' = [Decided EXCEPT ![g] = Store!Logged(w)]
    <3>1. Decided' = [Decided EXCEPT ![g] =
                        [view |-> [x \in files[g] |-> before[g][x]],
                         goal |-> [x \in files[g] |-> after[g][x]]]]
      BY <2>2, <2>3, LogEntry
    <3>2. [x \in files[g] |-> before[g][x]] = [x \in w.edits |-> w.view[x]]
      BY <2>3, <2>4, <2>14 DEF Only
    <3>3. [x \in files[g] |-> after[g][x]] = [x \in w.edits |-> w.goal[x]]
      BY <2>3, <2>14
    <3> QED
      BY <3>1, <3>2, <3>3 DEF Store!Logged
  <2>19. Declarations' = [Declarations EXCEPT ![p] = None]
    BY <2>6 DEF Declarations, Declared
  <2>20. MaxEdits - left'["edit"] = MaxEdits - left["edit"]
    BY <2>2
  <2> HIDE DEF w
  <2>21. Store!Commit(p)
    BY <2>13, <2>14, <2>15, <2>16, <2>17, <2>18, <2>19, <2>20
       DEF Store!Commit, w
  <2> QED
    BY <2>21 DEF Store!DocNext
<1> QED
  BY <1>1, <1>2

LEMMA RbPublishRejects ==
  ASSUME TypeOK, EvidenceInductive, [Next]_vars, NEW p \in Procs, RbPublish(p)
  PROVE  [Store!DocNext]_(Store!docVars)
<1> DEFINE j == job[p]
<1>1. CASE Fail(p)
  BY <1>1, QuietTxnSteps
<1>2. CASE ~Fail(p)
  <2>0. j.pc = "rbpublish" /\ j.pc \in Critical
    BY Phases DEF RbPublish, PhaseSets
  <2>1. PICK g \in Gens : g = j.cur
    BY <2>0, Holder
  <2>2. /\ terminal' = [terminal EXCEPT ![g] = "rolled-back"] /\ End(p)
        /\ UNCHANGED <<tree, stage, files, before, after, gauth, rec, left>>
    BY <1>2, <2>1 DEF RbPublish
  <2>3. /\ stage[g] = "prepared" /\ terminal[g] = "absent" /\ Records(g) = {}
        /\ AllBefore(g)
    BY <2>0, <2>1, Holder, Phases DEF EvidencePhase, BytesPhase, PhaseSets
  <2>4. /\ \A q \in Procs \ {p} : job'[q] = job[q]
        /\ job'[p].pc = "idle" /\ Back(p) = {} /\ Back(p)' = {}
    BY <2>0, <2>2 DEF End, TypeOK, Idle, Back, Undoing
  <2>5. \A x : ~BeingUndone(x) /\ ~BeingUndone(x)'
    BY <2>0, <2>4, OnlyHolder
  <2>6. ASSUME NEW x \in Paths PROVE Logical(x)' = Logical(x)
    <3>1. CASE writer[x] = g
      <4>1. Logical(x) = before[g][x]
        BY <2>3, <3>1, OpenTransaction, UnresolvedFace
      <4>2. ~Unresolved(g)' /\ g # Author
        BY <2>2, AuthorAssumption DEF Unresolved, Interrupted, TypeOK
      <4>3. writer'[x] = g /\ src'[x] = before[g][x]
        BY <2>2, <2>3, <3>1 DEF tree, AllBefore
      <4> QED
        BY <2>5, <4>1, <4>2, <4>3 DEF Logical
    <3>2. CASE writer[x] # g
      <4>1. \A h \in Gens \ {g} : Unresolved(h)' <=> Unresolved(h)
        BY <2>2 DEF Unresolved, Interrupted, Recovered, TypeOK
      <4> QED
        BY <2>0, <2>2, <2>4, <3>2, <4>1, OtherFaces
    <3> QED
      BY <3>1, <3>2
  <2>7. LogicalTree' = LogicalTree
    BY <2>6, TreeStays
  <2>8. Declarations' = Declarations
    BY <2>0, <2>4 DEF Declarations, Declared
  <2>9. Decided' = [Decided EXCEPT ![g] =
                      [view |-> [x \in files[g] |-> before[g][x]],
                       goal |-> [x \in files[g] |-> after[g][x]]]]
    BY <2>2, <2>3, LogEntry
  <2>10. Decided[g] = None /\ DOMAIN Decided = Gens
    BY <2>3 DEF Decided
  <2>11. /\ files[g] \in SUBSET Paths
         /\ [x \in files[g] |-> before[g][x]] \in [files[g] -> Bytes]
         /\ [x \in files[g] |-> after[g][x]] \in [files[g] -> Bytes]
    BY DEF TypeOK
  <2>12. Decided'[g] \in [view : [files[g] -> Bytes], goal : [files[g] -> Bytes]]
    BY <2>9, <2>10, <2>11
  <2>13. \A h \in Gens \ {g} : Decided'[h] = Decided[h]
    BY <2>9, <2>10
  <2>14. MaxEdits - left'["edit"] = MaxEdits - left["edit"]
    BY <2>2
  <2>15. Store!Reject(g)
    BY <2>7, <2>8, <2>10, <2>11, <2>12, <2>13, <2>14 DEF Store!Reject
  <2> QED
    BY <2>15 DEF Store!DocNext
<1> QED
  BY <1>1, <1>2

\* A recovered attempt has its before copies in place already.
LEMMA IPublishStutters ==
  ASSUME TypeOK, EvidenceInductive, [Next]_vars, NEW p \in Procs, IPublish(p)
  PROVE  [Store!DocNext]_(Store!docVars)
<1> DEFINE j == job[p]
<1>1. CASE Fail(p)
  BY <1>1, QuietIntSteps
<1>2. CASE ~Fail(p)
  <2>0. j.pc = "ipublish" /\ j.pc \in Critical /\ j.stamp \in Stamps
    BY Phases DEF IPublish, PhaseSets, TypeOK, Job, RecoveryPhases
  <2>1. PICK g \in Gens : g = j.cur
    BY <2>0, Holder
  <2>2. /\ rec' = [rec EXCEPT ![g][j.stamp] = "i-done"] /\ End(p)
        /\ UNCHANGED <<tree, genVars, left>>
    BY <1>2, <2>1 DEF IPublish
  <2>3. AllBefore(g) /\ Interrupted(g) /\ rec[g][j.stamp] = "i-pending"
    BY <2>0, <2>1, Holder, Phases DEF EvidencePhase, BytesPhase, PhaseSets
  <2>4. /\ \A q \in Procs \ {p} : job'[q] = job[q]
        /\ job'[p].pc = "idle" /\ Back(p) = {} /\ Back(p)' = {}
    BY <2>0, <2>2 DEF End, TypeOK, Idle, Back, Undoing
  <2>5. \A x : ~BeingUndone(x) /\ ~BeingUndone(x)'
    BY <2>0, <2>4, OnlyHolder
  <2>6. Unresolved(g)
    <3>1. \A s \in Stamps : rec[g][s] = "i-done" => s = j.stamp
      BY <2>0, <2>3 DEF EvidenceInductive, OneRecoveryRoute, Records, Interrupted
    <3> QED
      BY <2>3, <3>1 DEF Unresolved, Recovered
  <2>7. \A h \in Gens, s \in Stamps :
          rec'[h][s] = IF h = g /\ s = j.stamp THEN "i-done" ELSE rec[h][s]
    BY <2>2 DEF TypeOK
  <2>8. UNCHANGED <<stage, terminal>>
    BY <2>2 DEF genVars
  <2>9. ASSUME NEW x \in Paths PROVE Logical(x)' = Logical(x)
    <3>1. CASE writer[x] = g
      <4>1. Logical(x) = before[g][x]
        BY <2>6, <3>1, UnresolvedFace
      <4>2. ~Unresolved(g)' /\ g # Author
        BY <2>0, <2>7, AuthorAssumption DEF Unresolved, Recovered
      <4>3. writer'[x] = g /\ src'[x] = before[g][x]
        BY <2>2, <2>3, <3>1 DEF tree, AllBefore
      <4> QED
        BY <2>5, <4>1, <4>2, <4>3 DEF Logical
    <3>2. CASE writer[x] # g
      <4>1. \A h \in Gens \ {g} : Unresolved(h)' <=> Unresolved(h)
        BY <2>7, <2>8 DEF Unresolved, Interrupted, Recovered
      <4> QED
        BY <2>0, <2>2, <2>4, <3>2, <4>1, OtherFaces
    <3> QED
      BY <3>1, <3>2
  <2>10. LogicalTree' = LogicalTree /\ Decided' = Decided
    BY <2>8, <2>9, TreeStays, LogStays
  <2>11. Goes(p)
    BY <2>4 DEF Goes, Declared
  <2> QED
    BY <2>2, <2>4, <2>10, <2>11, StoreStutters
<1> QED
  BY <1>1, <1>2

LEMMA CPublishUndoes ==
  ASSUME TypeOK, EvidenceInductive, TreeInductive, [Next]_vars,
         NEW p \in Procs, CPublish(p)
  PROVE  [Store!DocNext]_(Store!docVars)
<1> DEFINE j == job[p]
<1>1. CASE BeginUndo(p)
  BY <1>1, QuietCmpSteps
<1>2. CASE ~BeginUndo(p)
  <2>0. j.pc = "cpublish" /\ j.pc \in Undoing
    BY DEF CPublish, Undoing
  <2>1. PICK g \in Gens : g = j.cur
    BY <2>0, UndoingKnows
  <2>2. /\ rec' = [rec EXCEPT ![g][j.stamp] = "c-done"] /\ End(p)
        /\ UNCHANGED <<tree, genVars, left>>
    BY <1>2, <2>1 DEF CPublish
  <2>3. /\ j.pc \in Critical /\ terminal[g] # "absent" /\ files[g] \subseteq Paths
        /\ j.did = files[g] /\ Holds(files[g], before[g]) /\ Carries(files[g], g)
    BY <2>0, <2>1, UndoingKnows
  <2>4. /\ \A q \in Procs \ {p} : job'[q] = job[q]
        /\ job'[p].pc = "idle" /\ Back(p) = files[g] /\ Back(p)' = {}
    BY <2>0, <2>2, <2>3 DEF End, TypeOK, Idle, Back, Undoing
  <2>5. \A x : (BeingUndone(x) <=> x \in files[g]) /\ ~BeingUndone(x)'
    BY <2>3, <2>4, OnlyHolder
  <2>6. \A x \in files[g] : Logical(x) = after[g][x]
    BY <2>3, <2>5, ResolvedFace DEF Carries
  <2>7. \A x \in files[g] : Logical(x)' = before[g][x]
    <3>1. ~Unresolved(g)' /\ g # Author
      BY <2>2, <2>3, AuthorAssumption DEF genVars, Unresolved, Interrupted
    <3>2. \A x \in files[g] : writer'[x] = g /\ src'[x] = before[g][x]
      BY <2>2, <2>3 DEF tree, Carries, Holds
    <3> QED
      BY <2>5, <3>1, <3>2 DEF Logical
  <2>8. \A x \in Paths \ files[g] : Logical(x)' = Logical(x)
    <3>1. \A h \in Gens, s \in Stamps : rec'[h][s] = "i-done" => rec[h][s] = "i-done"
      BY <2>2 DEF TypeOK
    <3>2. ASSUME NEW x \in Paths \ files[g], NEW h \in Gens, h = writer[x]
          PROVE  Unresolved(h)' <=> Unresolved(h)
      <4>1. stage[h] = "prepared" /\ UNCHANGED terminal
        BY <2>2, <3>2, WriterPrepared, AuthorAssumption DEF genVars
      <4> QED
        BY <3>1, <4>1, StaysOpen
    <3> QED
      BY <2>2, <2>5, <3>2, LogicalStays DEF tree
  <2>9. /\ Decided[g] = [view |-> [x \in files[g] |-> before[g][x]],
                         goal |-> [x \in files[g] |-> after[g][x]]]
        /\ Decided[g] # None
    <3>1. files[g] \in SUBSET Paths
      BY <2>3
    <3>2. /\ [x \in files[g] |-> before[g][x]] \in [files[g] -> Bytes]
          /\ [x \in files[g] |-> after[g][x]] \in [files[g] -> Bytes]
      BY <2>3 DEF TypeOK
    <3> QED
      BY <2>3, <3>1, <3>2, NoneAssumption DEF Decided
  <2>10. Store!Agrees(DOMAIN Decided[g].goal, Decided[g].goal)
    BY <2>3, <2>6, <2>9 DEF Store!Agrees, LogicalTree
  <2>11. LogicalTree' = [x \in Paths |-> IF x \in DOMAIN Decided[g].view
                                         THEN Decided[g].view[x] ELSE LogicalTree[x]]
    BY <2>7, <2>8, <2>9 DEF LogicalTree
  <2>12. Decided' = Decided
    BY <2>2, LogStays DEF genVars
  <2>13. Declarations' = Declarations
    BY <2>0, <2>4 DEF Declarations, Declared
  <2>14. MaxEdits - left'["edit"] = MaxEdits - left["edit"]
    BY <2>2
  <2>15. Store!Undo(g)
    BY <2>9, <2>10, <2>11, <2>12, <2>13, <2>14 DEF Store!Undo
  <2> QED
    BY <2>15 DEF Store!DocNext
<1> QED
  BY <1>1, <1>2

LEMMA StartDeclares ==
  ASSUME TypeOK, TypeOK', EvidenceInductive, [Next]_vars, NEW p \in Procs, Start(p)
  PROVE  [Store!DocNext]_(Store!docVars)
<1>1. /\ job[p].pc = "idle" /\ UNCHANGED <<tree, evidence, left>>
      /\ \A q \in Procs \ {p} : job'[q] = job[q]
  BY DEF Start, Plan, Declare, IStart, CStart, TypeOK
<1>2. Quiet(p)
  BY <1>1 DEF Quiet, evidence
<1>3. CASE IStart(p) \/ CStart(p)
  <2>1. job'[p].pc \in {"iwait", "cwait"}
    <3>1. IStart(p) => job'[p].pc = "iwait"
      BY DEF IStart, Idle, TypeOK
    <3>2. CStart(p) => job'[p].pc = "cwait"
      BY DEF CStart, Idle, TypeOK
    <3> QED
      BY <1>3, <3>1, <3>2
  <2>2. Back(p)' = Back(p) /\ Goes(p)
    BY <1>1, <2>1 DEF Back, Goes, Undoing, Declared
  <2> QED
    BY <1>2, <2>2, QuietStutters
<1>4. CASE Plan(p)
  <2>1. job'[p].pc = "planned"
    <3>1. ASSUME NEW g, NEW pin, NEW E, NEW G, NEW goal,
                 Declare(p, g, pin, E, G, goal)
          PROVE  job'[p].pc = "planned"
      BY <3>1 DEF Declare, Idle, TypeOK
    <3> QED
      BY <1>4, <3>1 DEF Plan
  <2>2. Back(p)' = Back(p)
    BY <1>1, <2>1 DEF Back, Undoing
  <2>3. LogicalTree' = LogicalTree /\ Decided' = Decided
    BY <1>2, <2>2, QuietTree
  <2>4. Declarations[p] = None
    BY <1>1 DEF Declarations, Declared
  <2>5. Declarations'[p] \in Store!Write
    <3>1. job'[p] \in Job /\ job'[p].pc # "idle"
      BY <2>1 DEF TypeOK
    <3>2. DeclaredWrite(job'[p]) \in Store!Write
      BY <3>1 DEF Job, JobRecord, DeclaredWrite, Store!Write
    <3> QED
      BY <2>1, <3>2 DEF Declarations, Declared
  <2>6. \A q \in Procs \ {p} : Declarations'[q] = Declarations[q]
    BY <1>1 DEF Declarations
  <2>7. MaxEdits - left'["edit"] = MaxEdits - left["edit"]
    BY <1>1
  <2>8. Store!Declare(p)
    BY <2>3, <2>4, <2>5, <2>6, <2>7 DEF Store!Declare
  <2> QED
    BY <2>8 DEF Store!DocNext
<1> QED
  BY <1>3, <1>4 DEF Start

LEMMA LockStutters ==
  ASSUME TypeOK, EvidenceInductive, [Next]_vars, NEW p \in Procs,
         Lock(p) \/ LockBusy(p)
  PROVE  [Store!DocNext]_(Store!docVars)
<1>1. /\ job[p].pc \in Waiting /\ UNCHANGED <<tree, evidence, left>>
      /\ Back(p) = {}
  BY DEF Lock, LockBusy, Back, Undoing, Waiting
<1>2. CASE Lock(p)
  <2>1. Becomes(p, Entry[job[p].pc], job[p].todo, job[p].did)
    BY <1>2, GotoBecomes DEF Lock
  <2>2. /\ Entry[job[p].pc] \notin Undoing
        /\ Entry[job[p].pc] \in Declared => job[p].pc \in Declared
    BY <1>1 DEF Entry, Waiting, Declared, Undoing
  <2>3. Quiet(p)
    BY <1>1, <2>1 DEF Quiet, Becomes, evidence
  <2> QED
    BY <1>1, <2>1, <2>2, <2>3, BecomesStutters
<1>3. CASE LockBusy(p)
  <2>1. job'[p].pc = "idle" /\ \A q \in Procs \ {p} : job'[q] = job[q]
    BY <1>3 DEF LockBusy, Idle, TypeOK
  <2>2. Quiet(p)
    BY <1>1, <2>1 DEF Quiet, evidence
  <2> QED
    BY <1>1, <2>1, <2>2, EndStutters
<1> QED
  BY <1>2, <1>3

LEMMA CrashStutters ==
  ASSUME TypeOK, EvidenceInductive, [Next]_vars, NEW p \in Procs,
         UndoesToTheEnd(p), Crash(p)
  PROVE  [Store!DocNext]_(Store!docVars)
<1>1. /\ job'[p].pc = "idle" /\ \A q \in Procs \ {p} : job'[q] = job[q]
      /\ UNCHANGED <<tree, evidence>> /\ Spend("crash")
  BY DEF Crash, Idle, TypeOK
<1>2. Quiet(p)
  BY <1>1, KeepsEdits DEF Quiet, evidence
<1>3. ~UNCHANGED left
  <2>1. left["crash"] \in Nat /\ left'["crash"] = left["crash"] - 1
    BY <1>1 DEF Spend, TypeOK
  <2> QED
    BY <2>1
<1>4. Back(p) = {}
  BY <1>1, <1>3 DEF UndoesToTheEnd, Back
<1> QED
  BY <1>1, <1>2, <1>4, EndStutters

LEMMA EditEdits ==
  ASSUME TypeOK, EvidenceInductive, [Next]_vars, EditAnytime = FALSE,
         NEW x \in Paths, NEW content \in Bytes, Edit(x, content)
  PROVE  [Store!DocNext]_(Store!docVars)
<1>1. /\ lock = NoProc /\ UNCHANGED <<evidence, job>> /\ Spend("edit")
      /\ WriteSource(x, content, Author)
  BY DEF Edit
<1>2. Writes(x, content, Author)
  BY <1>1, WriteSourceWrites
<1>3. \A y : ~BeingUndone(y) /\ ~BeingUndone(y)'
  BY <1>1, NoProcAssumption, Phases
     DEF EvidenceInductive, LockExclusion, BeingUndone, Undoing, PhaseSets
<1>4. Logical(x)' = content
  BY <1>2 DEF Writes, Logical
<1>5. ASSUME NEW y \in Paths \ {x} PROVE Logical(y)' = Logical(y)
  <2>1. src'[y] = src[y] /\ writer'[y] = writer[y]
    BY <1>2 DEF Writes
  <2>2. \A h \in Gens : Unresolved(h)' <=> Unresolved(h)
    BY <1>1 DEF evidence, Unresolved, Interrupted, Recovered
  <2> QED
    BY <1>3, <2>1, <2>2, LogicalStays
<1>6. /\ LogicalTree' = [LogicalTree EXCEPT ![x] = LogicalTree'[x]]
      /\ LogicalTree'[x] \in Bytes
  BY <1>4, <1>5 DEF LogicalTree
<1>7. Declarations' = Declarations
  BY <1>1 DEF Declarations
<1>8. Decided' = Decided
  BY <1>1, LogStays DEF evidence
<1>9. MaxEdits - left'["edit"] = (MaxEdits - left["edit"]) + 1
  <2>1. left["edit"] \in Nat /\ left'["edit"] = left["edit"] - 1 /\ MaxEdits \in Nat
    BY <1>1, BoundAssumption DEF Spend, TypeOK
  <2> QED
    BY <2>1
<1>10. Store!AuthorEdit(x)
  BY <1>6, <1>7, <1>8, <1>9 DEF Store!AuthorEdit
<1> QED
  BY <1>10 DEF Store!DocNext

LEMMA InitStore ==
  ASSUME Init
  PROVE  Store!Init
<1>1. \A x \in Paths : Logical(x) = src[x] /\ src[x] \in Bytes
  BY DEF Init, Logical
<1>2. LogicalTree \in [Paths -> Bytes]
  BY <1>1 DEF LogicalTree
<1>3. Declarations = [p \in Procs |-> None]
  BY DEF Init, Declarations, Declared, Idle
<1>4. Decided = [g \in Gens |-> None]
  BY DEF Init, Decided
<1>5. MaxEdits - left["edit"] = 0
  BY BoundAssumption DEF Init
<1> QED
  BY <1>2, <1>3, <1>4, <1>5 DEF Store!Init

LEMMA StepImplements ==
  ASSUME TypeOK, TypeOK', EvidenceInductive, TreeInductive, SettledInductive,
         EditAnytime = FALSE, [Next]_vars, Orderly
  PROVE  [Store!DocNext]_(Store!docVars)
<1>1. ASSUME NEW p \in Procs, TxnStep(p)
      PROVE  [Store!DocNext]_(Store!docVars)
  BY <1>1, QuietTxnSteps, StageStutters, ReplaceStutters, FinalizeCommits,
     RestoreStutters, RbPublishRejects DEF TxnStep
<1>2. ASSUME NEW p \in Procs, IntStep(p)
      PROVE  [Store!DocNext]_(Store!docVars)
  BY <1>2, QuietIntSteps, IWriteStutters, IPublishStutters DEF IntStep
<1>3. ASSUME NEW p \in Procs, CmpStep(p)
      PROVE  [Store!DocNext]_(Store!docVars)
  BY <1>3, QuietCmpSteps, CRestoreStutters, CPublishUndoes, CUndoStutters
     DEF CmpStep, Orderly
<1>4. ASSUME NEW p \in Procs, Start(p) \/ Lock(p) \/ LockBusy(p) \/ Crash(p)
      PROVE  [Store!DocNext]_(Store!docVars)
  BY <1>4, StartDeclares, LockStutters, CrashStutters DEF Orderly
<1>5. ASSUME NEW x \in Paths, NEW content \in Bytes, Edit(x, content)
      PROVE  [Store!DocNext]_(Store!docVars)
  BY <1>5, EditEdits
<1>6. CASE AuthorityChange \/ UNCHANGED vars
  <2>1. UNCHANGED <<tree, evidence, job>> /\ left'["edit"] = left["edit"]
    BY <1>6, KeepsEdits DEF AuthorityChange, vars, tree, evidence
  <2>2. UNCHANGED <<src, writer, stage, files, before, after, terminal, rec>>
    BY <2>1 DEF tree, evidence
  <2>3. LogicalTree' = LogicalTree
    BY <2>1, <2>2 DEF LogicalTree, Logical, BeingUndone, Unresolved, Interrupted,
                      Recovered
  <2>4. Declarations' = Declarations /\ Decided' = Decided
    BY <2>1, <2>2 DEF Declarations, Decided
  <2> QED
    BY <2>1, <2>3, <2>4 DEF Store!docVars
<1> QED
  BY <1>1, <1>2, <1>3, <1>4, <1>5, <1>6 DEF Next, Continue

(* The journal implements the abstract store, for any number of processes,
   generations, paths, crashes, faults and edits: while authors keep off the
   tree under the lock and operators begin over settled bytes (Orderly), every
   step of it declares, abandons, commits, rejects or undoes one whole write,
   is an edit of an author, or does not show (run_bounded_transaction,
   recover_interrupted_generation, recover_generation). *)
THEOREM JournalImplementsStore ==
  ASSUME EditAnytime = FALSE
  PROVE  Spec /\ [][Orderly]_vars => ImplementsDocumentStore
<1>1. Init => SettledInductive /\ Store!Init
  <2>1. Init => SettledInductive
    BY DEF Init, Idle, SettledInductive, SettledTree, Declared, Undoing
  <2> QED
    BY <2>1, InitStore
<1>2. /\ TypeOK /\ EvidenceInductive /\ TreeInductive /\ SettledInductive
      /\ [Next]_vars /\ [Orderly]_vars
      => SettledInductive'
  <2>1. CASE UNCHANGED vars
    BY <2>1 DEF vars, SettledInductive, SettledTree, Settled, Unresolved, Interrupted,
                Recovered, Carries
  <2>2. CASE Orderly
    BY <2>2, SettledNext
  <2> QED
    BY <2>1, <2>2
<1>3. /\ TypeOK /\ TypeOK' /\ EvidenceInductive /\ TreeInductive /\ SettledInductive
      /\ [Next]_vars /\ [Orderly]_vars
      => [Store!DocNext]_(Store!docVars)
  <2>1. CASE UNCHANGED vars
    <3>1. LogicalTree' = LogicalTree
      BY <2>1 DEF vars, LogicalTree, Logical, BeingUndone, Unresolved, Interrupted,
                  Recovered
    <3>2. Declarations' = Declarations /\ Decided' = Decided
      BY <2>1 DEF vars, Declarations, Decided
    <3> QED
      BY <2>1, <3>1, <3>2 DEF vars, Store!docVars
  <2>2. CASE Orderly
    BY <2>2, StepImplements
  <2> QED
    BY <2>1, <2>2
<1> QED
  BY <1>1, <1>2, <1>3, TypeCorrect, InductiveInvariant, TreeKnown, PTL
     DEF Spec, ImplementsDocumentStore, Store!DocSpec

-----------------------------------------------------------------------------
(* Where operators are orderly by themselves: no crash and no I/O fault *)

LEMMA HolderSpends ==
  ASSUME NEW p \in Procs, TxnStep(p) \/ IntStep(p) \/ CmpStep(p)
  PROVE  UNCHANGED left \/ Spend("fault")
BY DEF TxnStep, IntStep, CmpStep, Admit, Prepare, Stage, Check, Replace, Validate,
       Confirm, Finalize, Restore, RbVerify, RbPublish, ILoad, IRecord, ICheck,
       IWrite, IFinal, IPublish, CLoad, CRecord, CPreflight, CRestore, CVerify,
       CDrop, CPublish, CUndo, Fail, Refuse

NothingFails == left["crash"] = 0 /\ left["fault"] = 0

LEMMA NoFailure ==
  ASSUME NothingFails
  PROVE  ~Spend("fault") /\ ~Spend("crash")
BY DEF NothingFails, Spend

LEMMA NothingFailsNext ==
  ASSUME TypeOK, NothingFails, [Next]_vars
  PROVE  NothingFails'
<1>1. UNCHANGED left \/ Spend("edit") \/ Spend("auth")
  BY HolderSpends, NoFailure
     DEF Next, Continue, Start, Plan, IStart, CStart, Lock, LockBusy, Crash, Edit,
         AuthorityChange, vars
<1> QED
  BY <1>1 DEF NothingFails, Spend, TypeOK

\* The phases in which an attempt may have bytes in the tree.
OpenWriting == {"check", "replace", "validate", "confirm", "finalize",
                "restore", "rbverify", "rbpublish"}

\* Whoever carries bytes of an unresolved attempt, its transaction still runs.
Attended ==
  \A x \in Paths : writer[x] # Author /\ Unresolved(writer[x]) =>
    \E p \in Procs : job[p].pc \in OpenWriting /\ job[p].cur = writer[x]

LEMMA KeepsWriting ==
  ASSUME TypeOK, EvidenceInductive, TreeInductive, NothingFails, NEW p \in Procs,
         TxnStep(p), job[p].pc \in OpenWriting
  PROVE  \/ job'[p].pc \in OpenWriting /\ job'[p].cur = job[p].cur
         \/ terminal'[job[p].cur] # "absent"
<1>0. ~Fail(p) /\ job[p].cur \in Gens
  BY HolderCritical, Holder, NoFailure DEF Fail
<1>1. ASSUME NEW ph \in OpenWriting, NEW T, NEW D, Becomes(p, ph, T, D)
      PROVE  job'[p].pc \in OpenWriting /\ job'[p].cur = job[p].cur
  BY <1>1 DEF Becomes
<1>2. CASE \E ph \in OpenWriting : Goto(p, ph)
  BY <1>1, <1>2, GotoBecomes
<1>3. CASE \E S : BeginRollback(p, S)
  BY <1>1, <1>3, RollbackBecomes DEF OpenWriting
<1>4. CASE Check(p) \/ Validate(p) \/ Confirm(p)
  BY <1>2, <1>3, <1>4 DEF Check, Validate, Confirm, OpenWriting
<1>5. CASE Replace(p)
  BY <1>1, <1>3, <1>5, ReplacesOne DEF OpenWriting
<1>6. CASE Finalize(p) \/ RbPublish(p)
  BY <1>0, <1>3, <1>6 DEF Finalize, RbPublish, TypeOK
<1>7. CASE Restore(p)
  BY <1>0, <1>1, <1>7, RestoresOne DEF OpenWriting
<1>8. CASE RbVerify(p)
  <2>1. Holds(job[p].did, before[job[p].cur])
    BY <1>8, RestoringKnows DEF RbVerify, Holds
  <2> QED
    BY <1>2, <1>8, <2>1 DEF RbVerify, OpenWriting
<1> QED
  BY <1>4, <1>5, <1>6, <1>7, <1>8 DEF TxnStep, OpenWriting, Admit, Prepare, Stage

LEMMA AttendedNext ==
  ASSUME TypeOK, TypeOK', EvidenceInductive, TreeInductive, NothingFails, Attended,
         "interrupted" \notin Commands,
         \A p \in Procs : job[p].pc \notin IntPhases, [Next]_vars
  PROVE  Attended'
<1> SUFFICES ASSUME NEW x \in Paths, writer'[x] # Author, Unresolved(writer[x])'
             PROVE  (\E p \in Procs : job[p].pc \in OpenWriting
                                    /\ job[p].cur = writer[x])'
  BY DEF Attended
<1>1. PICK h \in Gens : h = writer'[x]
  BY DEF TypeOK
<1>2. Unresolved(h)' /\ terminal'[h] = "absent"
  BY <1>1 DEF Unresolved, Interrupted
<1>3. CASE writer'[x] = writer[x]
  <2>1. stage[h] = "prepared" /\ Unresolved(h)
    BY <1>1, <1>2, <1>3, WriterPrepared, StaysResolved
  <2>2. PICK p \in Procs : job[p].pc \in OpenWriting /\ job[p].cur = h
    BY <1>1, <1>3, <2>1 DEF Attended
  <2>3. job[p].pc \in Critical /\ job[p].pc \in TxnPhases
    BY <2>2, Phases DEF OpenWriting, PhaseSets, TxnPhases
  <2>4. CASE job'[p] = job[p]
    BY <1>1, <2>2, <2>4
  <2>5. CASE job'[p] # job[p]
    <3>1. TxnStep(p)
      <4>1. ~Crash(p)
        BY NoFailure DEF Crash
      <4>2. ~Start(p) /\ ~Lock(p) /\ ~LockBusy(p)
        BY <2>3, Phases
           DEF PhaseSets, Start, Plan, IStart, CStart, Lock, LockBusy
      <4>3. ~IntStep(p) /\ ~CmpStep(p)
        BY <2>3, Phases
           DEF PhaseSets, IntStep, ILoad, IRecord, ICheck, IWrite, IFinal, IPublish,
               CmpStep, CLoad, CRecord, CPreflight, CRestore, CVerify, CDrop,
               CPublish, CUndo
      <4>4. ASSUME NEW q \in Procs, q # p, Start(q) \/ Continue(q) \/ Crash(q)
            PROVE  FALSE
        <5>1. CASE TxnStep(q) \/ IntStep(q) \/ CmpStep(q)
          BY <2>5, <4>4, <5>1, TxnContinues, IntContinues, CmpContinues DEF Continues
        <5>2. CASE Start(q) \/ Lock(q) \/ LockBusy(q) \/ Crash(q)
          BY <2>5, <4>4, <5>2 DEF Start, Plan, Declare, IStart, CStart, Lock, Goto,
                                  LockBusy, Crash, TypeOK
        <5> QED
          BY <4>4, <5>1, <5>2 DEF Continue
      <4> QED
        BY <2>5, <4>1, <4>2, <4>3, <4>4 DEF Next, Continue, Edit, AuthorityChange, vars
    <3> QED
      BY <1>1, <1>2, <2>2, <3>1, KeepsWriting
  <2> QED
    BY <2>4, <2>5
<1>4. CASE writer'[x] # writer[x]
  <2>1. PICK p \in Procs : TxnStep(p) \/ IntStep(p) \/ CmpStep(p)
    BY <1>4 DEF Next, Continue, Start, Plan, IStart, CStart, Lock, LockBusy, Crash,
                Edit, WriteSource, TypeOK, AuthorityChange, tree, vars
  <2>2. ~IntStep(p)
    BY Phases DEF PhaseSets, IntStep, ILoad, IRecord, ICheck, IWrite, IFinal, IPublish
  <2>3. Replace(p) \/ Restore(p) \/ CRestore(p) \/ CUndo(p)
    BY <1>4, <2>1, <2>2
       DEF TxnStep, CmpStep, Admit, Prepare, Stage, Check, Validate, Confirm,
           Finalize, RbVerify, RbPublish, CLoad, CRecord, CPreflight, CVerify,
           CDrop, CPublish, Refuse, Fail, tree
  <2>4. h = job[p].cur
    <3>1. ASSUME NEW y, NEW c, NEW by, WriteSource(y, c, by),
                 by \in {job[p].cur, Author}
          PROVE  writer'[x] \in {job[p].cur, Author}
      BY <1>4, <3>1 DEF WriteSource, TypeOK
    <3>2. writer'[x] \in {job[p].cur, Author}
      BY <1>4, <2>3, <3>1
         DEF Replace, Restore, CRestore, CUndo, Fail, tree
    <3> QED
      BY <1>1, <3>2
  <2>5. CASE Replace(p) \/ Restore(p)
    <3>1. job[p].pc \in OpenWriting /\ TxnStep(p)
      BY <2>5 DEF OpenWriting, Replace, Restore, TxnStep
    <3> QED
      BY <1>1, <1>2, <2>4, <3>1, KeepsWriting
  <2>6. CASE CRestore(p) \/ CUndo(p)
    <3>1. terminal[h] # "absent" /\ UNCHANGED terminal
      BY <2>4, <2>6, UndoingKnows DEF CRestore, CUndo, Undoing, Fail, evidence
    <3> QED
      BY <1>2, <3>1
  <2> QED
    BY <2>3, <2>5, <2>6
<1> QED
  BY <1>3, <1>4

\* A command stays among the phases of its own kind, with its declaration.
SameWrite(p) ==
  /\ job'[p].cur = job[p].cur /\ job'[p].edits = job[p].edits
  /\ job'[p].guards = job[p].guards /\ job'[p].view = job[p].view

LEMMA TxnStays ==
  ASSUME TypeOK, EvidenceInductive, TreeInductive, NEW p \in Procs, TxnStep(p)
  PROVE  \/ job'[p].pc = "idle"
         \/ /\ SameWrite(p) /\ job'[p].pc \in TxnPhases
            /\ job'[p].pc = "prepare" => Admit(p)
<1> DEFINE Stays == /\ SameWrite(p) /\ job'[p].pc \in TxnPhases
                    /\ job'[p].pc = "prepare" => Admit(p)
<1>1. CASE End(p)
  BY <1>1 DEF End, TypeOK, Idle
<1>2. ASSUME NEW ph \in TxnPhases \ {"prepare"}, NEW T, NEW D, Becomes(p, ph, T, D)
      PROVE  Stays
  BY <1>2 DEF Becomes, SameWrite
<1>3. CASE \E ph \in TxnPhases \ {"prepare"} : Goto(p, ph)
  BY <1>2, <1>3, GotoBecomes
<1>4. CASE \E S : BeginRollback(p, S)
  <2>1. {"restore", "rbverify"} \subseteq TxnPhases \ {"prepare"}
    BY DEF TxnPhases
  <2> QED
    BY <1>2, <1>4, <2>1, RollbackBecomes
<1>5. CASE Replace(p)
  <2>1. {"validate", "check"} \subseteq TxnPhases \ {"prepare"}
    BY DEF TxnPhases
  <2> QED
    BY <1>2, <1>4, <1>5, <2>1, ReplacesOne
<1>6. CASE Restore(p)
  <2>1. {"rbverify", "restore"} \subseteq TxnPhases \ {"prepare"}
    BY DEF TxnPhases
  <2> QED
    BY <1>1, <1>2, <1>6, <2>1, RestoresOne DEF Fail
<1>7. CASE Stage(p) /\ ~End(p)
  <2>1. Becomes(p, "check", job[p].edits, job[p].did)
    BY <1>7 DEF Stage, Refuse, Fail, Becomes, TypeOK, Job, JobRecord
  <2>2. "check" \in TxnPhases \ {"prepare"}
    BY DEF TxnPhases
  <2> QED
    BY <1>2, <2>1, <2>2
<1>8. CASE Admit(p) /\ Goto(p, "prepare")
  BY <1>8, GotoBecomes DEF Becomes, SameWrite, TxnPhases
<1> QED
  BY <1>1, <1>3, <1>4, <1>5, <1>6, <1>7, <1>8
     DEF TxnStep, Admit, Prepare, Check, Validate, Confirm, Finalize, RbVerify,
         RbPublish, Refuse, Fail, TxnPhases

LEMMA IntStays ==
  ASSUME TypeOK, EvidenceInductive, TreeInductive, NEW p \in Procs, IntStep(p)
  PROVE  job'[p].pc \in IntPhases \cup {"idle"}
<1>1. CASE End(p)
  BY <1>1 DEF End, TypeOK, Idle
<1>2. ASSUME NEW ph \in IntPhases, NEW T, NEW D, Becomes(p, ph, T, D)
      PROVE  job'[p].pc \in IntPhases
  BY <1>2 DEF Becomes
<1>3. CASE \E ph \in IntPhases : Goto(p, ph)
  BY <1>2, <1>3, GotoBecomes
<1>4. CASE IWrite(p)
  BY <1>1, <1>2, <1>4, RecoversOne DEF IntPhases, Fail, Refuse
<1>5. CASE ILoad(p) /\ ~End(p)
  <2> DEFINE T == {x \in files[job[p].cur] : src[x] # before[job[p].cur][x]}
  <2>1. PICK ph \in {"irecord", "ifinal", "icheck"} : \E s :
          job' = [job EXCEPT ![p].pc = ph, ![p].stamp = s, ![p].todo = T]
    BY <1>5 DEF ILoad, Refuse
  <2> QED
    BY <2>1 DEF TypeOK, Job, JobRecord, IntPhases
<1> QED
  BY <1>1, <1>3, <1>4, <1>5
     DEF IntStep, IRecord, ICheck, IFinal, IPublish, Refuse, Fail, IntPhases

LEMMA CmpStays ==
  ASSUME TypeOK, EvidenceInductive, TreeInductive, NEW p \in Procs, CmpStep(p)
  PROVE  job'[p].pc \in CmpPhases \cup {"idle"}
<1>1. CASE End(p)
  BY <1>1 DEF End, TypeOK, Idle
<1>2. ASSUME NEW ph \in CmpPhases, NEW T, NEW D, Becomes(p, ph, T, D)
      PROVE  job'[p].pc \in CmpPhases
  BY <1>2 DEF Becomes
<1>3. CASE \E ph \in CmpPhases : Goto(p, ph)
  BY <1>2, <1>3, GotoBecomes
<1>4. CASE BeginUndo(p)
  BY <1>1, <1>3, <1>4 DEF BeginUndo, CmpPhases
<1>5. CASE CRestore(p)
  BY <1>2, <1>4, <1>5, PutsBack DEF CmpPhases, CRestore
<1>6. CASE CUndo(p)
  BY <1>1, <1>2, <1>6, UndoesOne DEF CmpPhases, Fail
<1>7. CASE CDrop(p)
  BY <1>2, <1>7, Drops DEF CmpPhases
<1>8. CASE CPreflight(p) /\ ~BeginUndo(p)
  BY <1>8 DEF CPreflight, TypeOK, Job, JobRecord, CmpPhases
<1> QED
  BY <1>1, <1>3, <1>4, <1>5, <1>6, <1>7, <1>8
     DEF CmpStep, CLoad, CRecord, CVerify, CPublish, Refuse, CmpPhases

\* No process runs an interrupted recovery.
NoRecovery == \A p \in Procs : job[p].pc \notin IntPhases \cup {"iwait"}

LEMMA NoRecoveryNext ==
  ASSUME TypeOK, EvidenceInductive, TreeInductive, NoRecovery,
         "interrupted" \notin Commands, [Next]_vars
  PROVE  NoRecovery'
<1> SUFFICES ASSUME NEW q \in Procs, job'[q] # job[q]
             PROVE  job'[q].pc \notin IntPhases \cup {"iwait"}
  BY DEF NoRecovery
<1>1. PICK p \in Procs : Start(p) \/ Continue(p) \/ Crash(p)
  BY DEF Next, Edit, AuthorityChange, vars
<1>2. CASE TxnStep(p) \/ CmpStep(p)
  <2>1. q = p
    BY <1>2, TxnContinues, CmpContinues DEF Continues
  <2> QED
    BY <1>2, <2>1, TxnStays, CmpStays DEF TxnPhases, CmpPhases, IntPhases
<1>3. ~IntStep(p)
  BY DEF NoRecovery, IntPhases, IntStep, ILoad, IRecord, ICheck, IWrite, IFinal,
         IPublish
<1>4. CASE Start(p) \/ Lock(p) \/ LockBusy(p) \/ Crash(p)
  <2>1. q = p
    BY <1>4 DEF Start, Plan, Declare, IStart, CStart, Lock, Goto, LockBusy, Crash,
                TypeOK
  <2>2. CASE Plan(p)
    <3>1. job'[p].pc = "planned"
      BY <2>2 DEF Plan, Declare, Idle, TypeOK
    <3> QED
      BY <2>1, <3>1 DEF IntPhases
  <2>3. CASE CStart(p)
    <3>1. job'[p].pc = "cwait"
      BY <2>3 DEF CStart, Idle, TypeOK
    <3> QED
      BY <2>1, <3>1 DEF IntPhases
  <2>4. CASE Lock(p)
    <3>1. job'[p].pc = Entry[job[p].pc] /\ job[p].pc \in Waiting
      BY <2>4, GotoBecomes DEF Lock, Becomes
    <3> QED
      BY <2>1, <3>1 DEF NoRecovery, Entry, Waiting, IntPhases
  <2>5. CASE LockBusy(p) \/ Crash(p)
    BY <2>1, <2>5 DEF LockBusy, Crash, Idle, TypeOK, IntPhases
  <2> QED
    BY <1>4, <2>2, <2>3, <2>4, <2>5 DEF Start, IStart
<1> QED
  BY <1>1, <1>2, <1>3, <1>4 DEF Continue

LEMMA CalmIsOrderly ==
  ASSUME TypeOK, EvidenceInductive, TreeInductive, NothingFails, Attended, NoRecovery,
         [Next]_vars
  PROVE  Orderly
<1> SUFFICES ASSUME NEW p \in Procs
             PROVE  BeginsSettled(p) /\ RecoversOwnBytes(p) /\ UndoesToTheEnd(p)
  BY DEF Orderly
<1>1. ASSUME job[p].pc \in {"admit", "cload"}, NEW x \in Paths
      PROVE  Settled(x)
  <2>1. \A q \in Procs : job[q].pc \in Critical => q = p
    BY <1>1, Phases DEF PhaseSets, EvidenceInductive, LockExclusion
  <2>2. \A q \in Procs : job[q].pc \notin OpenWriting
    BY <1>1, <2>1, Phases DEF PhaseSets, OpenWriting
  <2> QED
    BY <2>2 DEF Attended, Settled
<1>2. BeginsSettled(p)
  <2>1. job[p].edits \subseteq Paths /\ job[p].guards \subseteq Paths
    BY DEF TypeOK, Job, JobRecord
  <2>2. At(p, "cload") => files[job[p].cur] \subseteq Paths
    BY HolderKnows, Phases DEF PhaseSets, TypeOK
  <2> QED
    BY <1>1, <2>1, <2>2 DEF BeginsSettled
<1>3. RecoversOwnBytes(p)
  BY DEF NoRecovery, RecoversOwnBytes, IntPhases
<1>4. UndoesToTheEnd(p)
  <2>1. ASSUME job[p].pc \in Undoing, At(p, "idle")' PROVE UNCHANGED left
    <3>1. Crash(p) \/ CmpStep(p)
      BY <2>1, WhoEnds DEF Undoing, CmpPhases
    <3> QED
      BY <3>1, NoFailure, HolderSpends DEF Crash
  <2> QED
    BY <2>1 DEF UndoesToTheEnd
<1> QED
  BY <1>2, <1>3, <1>4

(* Where no command dies, meets an I/O fault or takes up an interrupted
   attempt, the journal implements the abstract store as it is: whatever any
   number of writers and completed recoveries and the edits of authors do
   between them, operators need not watch what they begin over, because every
   attempt over which the lock is released has its terminal evidence
   (run_bounded_transaction, recover_generation). *)
THEOREM CalmJournalImplementsStore ==
  ASSUME EditAnytime = FALSE, MaxCrashes = 0, MaxFaults = 0,
         "interrupted" \notin Commands
  PROVE  Spec => ImplementsDocumentStore
<1> DEFINE Calm == NothingFails /\ Attended /\ NoRecovery
<1>1. Init => Calm
  BY DEF Init, NothingFails, Attended, NoRecovery, Idle, IntPhases
<1>2. TypeOK /\ TypeOK' /\ EvidenceInductive /\ TreeInductive /\ Calm /\ [Next]_vars
      => Calm'
  BY NothingFailsNext, AttendedNext, NoRecoveryNext DEF NoRecovery
<1>3. TypeOK /\ EvidenceInductive /\ TreeInductive /\ Calm /\ [Next]_vars
      => [Orderly]_vars
  BY CalmIsOrderly
<1> HIDE DEF Calm
<1>4. Spec => [][Orderly]_vars
  BY <1>1, <1>2, <1>3, TypeCorrect, InductiveInvariant, TreeKnown, PTL DEF Spec
<1> QED
  BY <1>4, JournalImplementsStore, PTL

-----------------------------------------------------------------------------
(* Where operators are orderly by discipline: one writes at a time and       *)
(* resolves an interrupted attempt before writing over its files             *)

\* Attempts that are open at the same time have no file in common.
Apart ==
  \A g, h \in Gens : g # h /\ Unresolved(g) /\ Unresolved(h) =>
    files[g] \cap files[h] = {}

\* A file of an open attempt carries its bytes or still holds the before copy.
Owns ==
  \A g \in Gens : Unresolved(g) =>
    \A x \in files[g] : writer[x] = g \/ src[x] = before[g][x]

\* A write keeps away from the files of every other open attempt.
Clear(p) ==
  At(p, "planned") \/ job[p].pc \in TxnPhases =>
    \A h \in Gens \ {job[p].cur} : Unresolved(h) =>
      files[h] \cap (job[p].edits \cup job[p].guards) = {}
Admitted(p) == At(p, "prepare") => Holds(job[p].edits, job[p].view)
NoUndo(p) == job[p].pc \notin CmpPhases \cup {"cwait"}

Tidy ==
  /\ Apart /\ Owns /\ left["edit"] = 0
  /\ \A p \in Procs : Clear(p) /\ Admitted(p) /\ NoUndo(p)

\* Only the end of a preparation opens an attempt.
LEMMA NewlyUnresolved ==
  ASSUME TypeOK, EvidenceInductive, [Next]_vars, NEW h \in Gens, Unresolved(h)',
         \A p \in Procs : Prepare(p) => job[p].cur # h \/ Fail(p)
  PROVE  Unresolved(h) /\ files'[h] = files[h] /\ before'[h] = before[h]
<1>1. stage[h] = "prepared"
  <2>1. stage'[h] = "prepared"
    BY DEF Unresolved, Interrupted
  <2>2. \/ UNCHANGED stage
        \/ \E p \in Procs : Admit(p) /\ stage' = [stage EXCEPT ![job[p].cur] = "dir"]
        \/ \E p \in Procs : /\ Prepare(p) /\ ~UNCHANGED stage
                            /\ stage' = [stage EXCEPT ![job[p].cur] = "prepared"]
    <3>1. ASSUME NEW p \in Procs, TxnStep(p), ~Admit(p), ~Prepare(p)
          PROVE  UNCHANGED stage
      BY <3>1 DEF TxnStep, Stage, Check, Replace, Validate, Confirm, Finalize,
                  Restore, RbVerify, RbPublish, Fail, Refuse, evidence
    <3>2. ASSUME NEW p \in Procs, IntStep(p) \/ CmpStep(p)
          PROVE  UNCHANGED stage
      BY <3>2 DEF IntStep, CmpStep, ILoad, IRecord, ICheck, IWrite, IFinal, IPublish,
                  CLoad, CRecord, CPreflight, CRestore, CVerify, CDrop, CPublish,
                  CUndo, Fail, Refuse, evidence, genVars
    <3>3. ASSUME NEW p \in Procs, Start(p) \/ Lock(p) \/ LockBusy(p) \/ Crash(p)
          PROVE  UNCHANGED stage
      BY <3>3 DEF Start, Plan, IStart, CStart, Lock, LockBusy, Crash, evidence
    <3>4. ASSUME NEW x \in Paths, NEW c \in Bytes, Edit(x, c)
          PROVE  UNCHANGED stage
      BY <3>4 DEF Edit, evidence
    <3>5. CASE AuthorityChange \/ UNCHANGED vars
      BY <3>5 DEF AuthorityChange, evidence, vars
    <3>6. ASSUME NEW p \in Procs, Admit(p), ~UNCHANGED stage
          PROVE  stage' = [stage EXCEPT ![job[p].cur] = "dir"]
      BY <3>6 DEF Admit, Refuse, evidence
    <3>7. ASSUME NEW p \in Procs, Prepare(p), ~UNCHANGED stage
          PROVE  stage' = [stage EXCEPT ![job[p].cur] = "prepared"]
      BY <3>7 DEF Prepare, Fail, evidence
    <3> QED
      BY <3>1, <3>2, <3>3, <3>4, <3>5, <3>6, <3>7 DEF Next, Continue
  <2>3. ASSUME NEW p \in Procs, Prepare(p), ~UNCHANGED stage
        PROVE  job[p].cur # h
    BY <2>3 DEF Fail, evidence
  <2> QED
    BY <2>1, <2>2, <2>3 DEF TypeOK
<1> QED
  BY <1>1, StaysResolved, StepImmutable DEF Immutable

\* Nothing is opened, at most one file of an attempt is written, and other
\* open attempts do not have that file.
LEMMA StaysTidy ==
  ASSUME TypeOK, Apart, Owns,
         \A h \in Gens : Unresolved(h)' =>
           Unresolved(h) /\ files'[h] = files[h] /\ before'[h] = before[h],
         \/ UNCHANGED tree
         \/ \E x \in Paths, g \in Gens : \E c :
              /\ Writes(x, c, g)
              /\ \A h \in Gens \ {g} : Unresolved(h) => x \notin files[h]
  PROVE  Apart' /\ Owns'
<1>1. Apart'
  BY DEF Apart
<1>2. Owns'
  <2> SUFFICES ASSUME NEW h \in Gens, Unresolved(h)', NEW y \in files'[h]
               PROVE  writer'[y] = h \/ src'[y] = before'[h][y]
    BY DEF Owns
  <2>1. Unresolved(h) /\ y \in files[h] /\ before'[h] = before[h] /\ y \in Paths
    BY DEF TypeOK
  <2>2. writer[y] = h \/ src[y] = before[h][y]
    BY <2>1 DEF Owns
  <2>3. CASE UNCHANGED tree
    BY <2>1, <2>2, <2>3 DEF tree
  <2>4. ASSUME NEW x \in Paths, NEW g \in Gens, NEW c, Writes(x, c, g),
               \A k \in Gens \ {g} : Unresolved(k) => x \notin files[k]
        PROVE  writer'[y] = h \/ src'[y] = before'[h][y]
    BY <2>1, <2>2, <2>4 DEF Writes
  <2> QED
    BY <2>3, <2>4
<1> QED
  BY <1>1, <1>2
\* The steps of the one process, its write apart.
LEMMA TxnTidy ==
  ASSUME TypeOK, EvidenceInductive, TreeInductive, Tidy, [Next]_vars,
         NEW p \in Procs, TxnStep(p), ~Prepare(p) \/ Fail(p)
  PROVE  Apart' /\ Owns'
<1> DEFINE j == job[p]
<1>0. j.pc \in TxnPhases /\ j.pc \in Critical
  BY Phases DEF PhaseSets, TxnStep, Admit, Prepare, Stage, Check, Replace, Validate,
     Confirm, Finalize, Restore, RbVerify, RbPublish
<1>1. PICK g \in Gens : g = j.cur
  BY <1>0, Holder
<1>2. ASSUME NEW h \in Gens, Unresolved(h)'
      PROVE  Unresolved(h) /\ files'[h] = files[h] /\ before'[h] = before[h]
  <2>1. ASSUME NEW q \in Procs, Prepare(q) PROVE Fail(q)
    <3>1. q = p
      BY <1>0, <2>1, Phases
         DEF EvidenceInductive, LockExclusion, Prepare, PhaseSets
    <3> QED
      BY <2>1, <3>1
  <2> QED
    BY <1>2, <2>1, NewlyUnresolved
<1>3. ASSUME NEW x \in j.edits, NEW c, Writes(x, c, g)
      PROVE  Apart' /\ Owns'
  <2>1. x \in Paths
    BY DEF TypeOK, Job, JobRecord
  <2>2. \A h \in Gens \ {g} : Unresolved(h) => x \notin files[h]
    BY <1>0, <1>1, <1>3 DEF Tidy, Clear
  <2>3. \E y \in Paths, k \in Gens : \E d :
          Writes(y, d, k) /\ \A h \in Gens \ {k} : Unresolved(h) => y \notin files[h]
    BY <1>3, <2>1, <2>2
  <2> QED
    BY <1>2, <2>3, StaysTidy DEF Tidy
<1>4. CASE UNCHANGED tree
  BY <1>2, <1>4, StaysTidy DEF Tidy
<1>5. CASE Replace(p)
  BY <1>1, <1>3, <1>4, <1>5, ReplacesOne
<1>6. CASE Restore(p)
  <2>1. j.todo \subseteq j.edits
    BY <1>1, <1>6, RestoringKnows DEF Restore
  <2> QED
    BY <1>1, <1>3, <1>4, <1>6, <2>1, RestoresOne DEF Fail
<1> QED
  BY <1>4, <1>5, <1>6
     DEF TxnStep, Admit, Prepare, Stage, Check, Validate, Confirm, Finalize,
         RbVerify, RbPublish, Fail, Refuse

LEMMA PrepareTidy ==
  ASSUME TypeOK, EvidenceInductive, TreeInductive, Tidy, [Next]_vars,
         NEW p \in Procs, Prepare(p), ~Fail(p)
  PROVE  Apart' /\ Owns'
<1> DEFINE j == job[p]
<1>0. j.pc = "prepare" /\ j.pc \in TxnPhases /\ j.pc \in Critical
  BY Phases DEF Prepare, PhaseSets
<1>1. PICK g \in Gens : g = j.cur
  BY <1>0, Holder
<1>2. /\ UNCHANGED tree /\ files'[g] = j.edits
      /\ \A x \in j.edits : before'[g][x] = j.view[x]
  BY <1>1 DEF Prepare, Only, TypeOK, Job, JobRecord
<1>3. ASSUME NEW h \in Gens \ {g}, Unresolved(h)'
      PROVE  Unresolved(h) /\ files'[h] = files[h] /\ before'[h] = before[h]
  <2>1. /\ stage' = [stage EXCEPT ![g] = "prepared"]
        /\ files' = [files EXCEPT ![g] = j.edits]
        /\ before' = [before EXCEPT ![g] = Only(j.edits, j.view)]
        /\ UNCHANGED <<terminal, rec>>
    BY <1>1 DEF Prepare
  <2>2. stage'[h] = stage[h] /\ files'[h] = files[h] /\ before'[h] = before[h]
    BY <2>1 DEF TypeOK
  <2> QED
    BY <1>3, <2>1, <2>2 DEF Unresolved, Interrupted, Recovered
<1>4. \A h \in Gens \ {g} : Unresolved(h) => files[h] \cap j.edits = {}
  BY <1>0, <1>1 DEF Tidy, Clear
<1>5. Holds(j.edits, j.view) /\ j.edits \subseteq Paths
  BY <1>0 DEF Tidy, Admitted, TypeOK, Job, JobRecord
<1>6. Apart'
  BY <1>2, <1>3, <1>4 DEF Tidy, Apart
<1>7. Owns'
  <2>1. \A x \in j.edits : src'[x] = before'[g][x]
    BY <1>2, <1>5 DEF Holds, tree
  <2> QED
    BY <1>2, <1>3, <2>1 DEF Tidy, Owns, tree
<1> QED
  BY <1>6, <1>7

LEMMA IntTidy ==
  ASSUME TypeOK, EvidenceInductive, TreeInductive, Tidy, [Next]_vars,
         NEW p \in Procs, IntStep(p)
  PROVE  Apart' /\ Owns'
<1> DEFINE j == job[p]
<1>0. j.pc \in IntPhases /\ j.pc \in Critical
  BY Phases DEF PhaseSets, IntStep, ILoad, IRecord, ICheck, IWrite, IFinal, IPublish
<1>1. PICK g \in Gens : g = j.cur
  BY <1>0, Holder
<1>2. ASSUME NEW h \in Gens, Unresolved(h)'
      PROVE  Unresolved(h) /\ files'[h] = files[h] /\ before'[h] = before[h]
  <2>1. \A q \in Procs : ~Prepare(q)
    BY <1>0, Phases DEF EvidenceInductive, LockExclusion, Prepare, PhaseSets
  <2> QED
    BY <1>2, <2>1, NewlyUnresolved
<1>3. CASE UNCHANGED tree
  BY <1>2, <1>3, StaysTidy DEF Tidy
<1>4. CASE IWrite(p) /\ ~Fail(p) /\ ~Refuse(p)
  <2>1. Interrupted(g) /\ rec[g][j.stamp] = "i-pending" /\ j.todo \subseteq files[g]
        /\ j.stamp \in Stamps
    BY <1>0, <1>1, <1>4, Holder, Phases
       DEF EvidencePhase, LoopPhase, PhaseSets, IWrite, TypeOK, Job, RecoveryPhases
  <2>2. Unresolved(g)
    BY <2>1 DEF EvidenceInductive, OneRecoveryRoute, Interrupted, Records, Recovered,
                Unresolved
  <2>3. PICK x \in j.todo : Writes(x, before[g][x], g)
    BY <1>1, <1>4, RecoversOne
  <2>4. x \in Paths
    BY <2>1, <2>3 DEF TypeOK
  <2>5. \A h \in Gens \ {g} : Unresolved(h) => x \notin files[h]
    BY <2>1, <2>2 DEF Tidy, Apart
  <2>6. \E y \in Paths, k \in Gens : \E d :
          Writes(y, d, k) /\ \A h \in Gens \ {k} : Unresolved(h) => y \notin files[h]
    BY <2>3, <2>4, <2>5
  <2> QED
    BY <1>2, <2>6, StaysTidy DEF Tidy
<1> QED
  BY <1>3, <1>4
     DEF IntStep, ILoad, IRecord, ICheck, IWrite, IFinal, IPublish, Fail, Refuse
LEMMA TidyNext ==
  ASSUME TypeOK, EvidenceInductive, TreeInductive, Tidy, [Next]_vars,
         \A p, q \in Procs : p = q, ResolveFirst = TRUE, "completed" \notin Commands
  PROVE  Tidy'
<1> USE DEF Tidy
<1>1. CASE UNCHANGED <<tree, evidence, job, left>>
  BY <1>1 DEF tree, evidence, Apart, Owns, Clear, Admitted, NoUndo, Holds, Unresolved,
              Interrupted, Recovered
<1>2. ~\E x \in Paths, c \in Bytes : Edit(x, c)
  BY DEF Edit, Spend
<1>3. CASE AuthorityChange
  <2>1. left'["edit"] = 0 /\ UNCHANGED <<tree, evidence, job>>
    BY <1>3, KeepsEdits DEF AuthorityChange
  <2> QED
    BY <2>1 DEF tree, evidence, Apart, Owns, Clear, Admitted, NoUndo, Holds,
                Unresolved, Interrupted, Recovered
<1>4. ASSUME NEW p \in Procs, Start(p) \/ Lock(p) \/ LockBusy(p) \/ Crash(p)
      PROVE  Tidy'
  <2>1. UNCHANGED <<tree, evidence>> /\ left'["edit"] = 0
    BY <1>4, KeepsEdits DEF Start, Plan, IStart, CStart, Lock, LockBusy, Crash
  <2>2. Apart' /\ Owns'
    BY <2>1 DEF tree, evidence, Apart, Owns, Unresolved, Interrupted, Recovered
  <2>3. \A h \in Gens : (Unresolved(h)' <=> Unresolved(h)) /\ files'[h] = files[h]
    BY <2>1 DEF evidence, Unresolved, Interrupted, Recovered
  <2>4. CASE Plan(p)
    <3>1. ASSUME NEW g, NEW pin, NEW E, NEW G, NEW goal, Declare(p, g, pin, E, G, goal)
          PROVE  /\ job'[p].pc = "planned" /\ job'[p].edits = E /\ job'[p].guards = G
                 /\ \A h \in Gens : Unresolved(h) => files[h] \cap (E \cup G) = {}
      BY <3>1 DEF Declare, Idle, TypeOK
    <3>2. /\ job'[p].pc = "planned"
          /\ \A h \in Gens : Unresolved(h) =>
               files[h] \cap (job'[p].edits \cup job'[p].guards) = {}
      BY <2>4, <3>1 DEF Plan
    <3>3. Clear(p)' /\ Admitted(p)' /\ NoUndo(p)'
      BY <2>3, <3>2 DEF Clear, Admitted, NoUndo, CmpPhases
    <3> QED
      BY <2>1, <2>2, <3>3
  <2>5. CASE Lock(p)
    <3>1. job[p].pc \in {"planned", "iwait"}
      BY <2>5 DEF Lock, Waiting, NoUndo
    <3>2. SameWrite(p) /\ job'[p].pc = Entry[job[p].pc]
      BY <2>5, GotoBecomes DEF Lock, Becomes, SameWrite
    <3>3. /\ job[p].pc = "planned" => job'[p].pc = "admit"
          /\ job[p].pc = "iwait" => job'[p].pc = "iload"
      BY <3>2 DEF Entry
    <3>4. Clear(p)' /\ Admitted(p)' /\ NoUndo(p)'
      BY <2>3, <3>1, <3>2, <3>3
         DEF SameWrite, Clear, Admitted, NoUndo, CmpPhases, TxnPhases
    <3> QED
      BY <2>1, <2>2, <3>4
  <2>6. CASE IStart(p)
    <3>1. job'[p].pc = "iwait"
      BY <2>6 DEF IStart, Idle, TypeOK
    <3> QED
      BY <2>1, <2>2, <3>1 DEF Clear, Admitted, NoUndo, CmpPhases, TxnPhases
  <2>7. CASE LockBusy(p) \/ Crash(p)
    <3>1. job'[p].pc = "idle"
      BY <2>7 DEF LockBusy, Crash, Idle, TypeOK
    <3> QED
      BY <2>1, <2>2, <3>1 DEF Clear, Admitted, NoUndo, CmpPhases, TxnPhases
  <2> QED
    BY <1>4, <2>4, <2>5, <2>6, <2>7 DEF Start, CStart
<1>5. ASSUME NEW p \in Procs, TxnStep(p)
      PROVE  Tidy'
  <2>1. Apart' /\ Owns'
    BY <1>5, TxnTidy, PrepareTidy
  <2>2. left'["edit"] = 0
    BY <1>5, KeepsEdits, HolderSpends
  <2>3. CASE job'[p].pc = "idle"
    BY <2>1, <2>2, <2>3 DEF Clear, Admitted, NoUndo, CmpPhases, TxnPhases
  <2>4. CASE job'[p].pc # "idle"
    <3>1. /\ SameWrite(p) /\ job'[p].pc \in TxnPhases
          /\ job'[p].pc = "prepare" => Admit(p)
      BY <1>5, <2>4, TxnStays
    <3>2. job[p].pc \in TxnPhases
      BY <1>5 DEF TxnStep, Admit, Prepare, Stage, Check, Replace, Validate, Confirm,
                  Finalize, Restore, RbVerify, RbPublish, TxnPhases
    <3>3. ASSUME NEW h \in Gens \ {job[p].cur}, Unresolved(h)'
          PROVE  Unresolved(h) /\ files'[h] = files[h]
      BY <3>3, NewlyUnresolved
    <3>4. Clear(p)'
      BY <3>1, <3>2, <3>3 DEF Clear, SameWrite
    <3>5. Admitted(p)'
      <4>1. ASSUME Admit(p), job'[p].pc # "idle"
            PROVE  Holds(job[p].edits, job[p].view) /\ UNCHANGED tree
        <5>1. ~Refuse(p)
          BY <4>1 DEF Refuse, End, Idle, TypeOK
        <5> QED
          BY <4>1, <5>1 DEF Admit, Holds
      <4> QED
        BY <2>4, <3>1, <4>1 DEF Admitted, SameWrite, Holds, tree
    <3>6. NoUndo(p)'
      BY <3>1 DEF NoUndo, TxnPhases, CmpPhases
    <3> QED
      BY <2>1, <2>2, <3>4, <3>5, <3>6
  <2> QED
    BY <2>3, <2>4
<1>6. ASSUME NEW p \in Procs, IntStep(p)
      PROVE  Tidy'
  <2>1. Apart' /\ Owns'
    BY <1>6, IntTidy
  <2>2. left'["edit"] = 0
    BY <1>6, KeepsEdits, HolderSpends
  <2>3. job'[p].pc \in IntPhases \cup {"idle"}
    BY <1>6, IntStays
  <2> QED
    BY <2>1, <2>2, <2>3 DEF Clear, Admitted, NoUndo, IntPhases, CmpPhases, TxnPhases
<1>7. \A p \in Procs : ~CmpStep(p)
  BY DEF NoUndo, CmpPhases, CmpStep, CLoad, CRecord, CPreflight, CRestore, CVerify,
         CDrop, CPublish, CUndo
<1>8. UNCHANGED vars => UNCHANGED <<tree, evidence, job, left>>
  BY DEF vars, tree, evidence
<1> QED
  BY <1>1, <1>2, <1>3, <1>4, <1>5, <1>6, <1>7, <1>8 DEF Next, Continue

\* A command that holds the lock moves by a step of its own or dies.
LEMMA WhoMoves ==
  ASSUME TypeOK, [Next]_vars, NEW p \in Procs, job[p].pc \in Critical,
         job'[p].pc # job[p].pc, job'[p].pc # "idle"
  PROVE  TxnStep(p) \/ IntStep(p) \/ CmpStep(p)
<1>1. PICK q \in Procs : Start(q) \/ Continue(q) \/ Crash(q)
  BY DEF Next, Edit, AuthorityChange, vars
<1>2. CASE TxnStep(q) \/ IntStep(q) \/ CmpStep(q)
  <2>1. q = p
    BY <1>2, TxnContinues, IntContinues, CmpContinues DEF Continues
  <2> QED
    BY <1>2, <2>1
<1>3. CASE Start(q) \/ Lock(q) \/ LockBusy(q) \/ Crash(q)
  <2>1. q = p
    BY <1>3 DEF Start, Plan, Declare, IStart, CStart, Lock, Goto, LockBusy, Crash,
                TypeOK
  <2>2. job[p].pc \notin Waiting \cup {"idle"}
    BY Phases DEF PhaseSets
  <2>3. Crash(p)
    BY <1>3, <2>1, <2>2 DEF Start, Plan, IStart, CStart, Lock, LockBusy
  <2> QED
    BY <2>3 DEF Crash, Idle, TypeOK
<1> QED
  BY <1>1, <1>2, <1>3 DEF Continue

LEMMA TidyIsOrderly ==
  ASSUME TypeOK, EvidenceInductive, TreeInductive, Tidy, [Next]_vars
  PROVE  Orderly
<1> SUFFICES ASSUME NEW p \in Procs
             PROVE  BeginsSettled(p) /\ RecoversOwnBytes(p) /\ UndoesToTheEnd(p)
  BY DEF Orderly
<1> USE DEF Tidy
<1>1. ASSUME job[p].pc = "admit", job'[p].pc = "prepare",
             NEW x \in job[p].edits \cup job[p].guards
      PROVE  Settled(x)
  <2>1. x \in Paths
    BY DEF TypeOK, Job, JobRecord
  <2>2. SUFFICES ASSUME writer[x] # Author, Unresolved(writer[x]) PROVE FALSE
    BY DEF Settled
  <2>3. PICK h \in Gens : h = writer[x]
    BY <2>1, <2>2, WriterPrepared
  <2>4. x \in files[h]
    BY <2>1, <2>2, <2>3
       DEF EvidenceInductive, EvidenceMatchesSource, AttributedBytesMatch
  <2>5. h = job[p].cur
    BY <1>1, <2>2, <2>3, <2>4 DEF Clear, TxnPhases
  <2>6. stage[h] = "prepared"
    BY <2>1, <2>2, <2>3, WriterPrepared
  <2>7. Admit(p) /\ ~Refuse(p)
    <3>1. ~Refuse(p)
      BY <1>1 DEF Refuse, End, Idle, TypeOK
    <3>2. TxnStep(p) \/ IntStep(p) \/ CmpStep(p)
      BY <1>1, WhoMoves, Phases DEF PhaseSets
    <3>3. ~IntStep(p) /\ ~CmpStep(p)
      BY <1>1 DEF IntStep, ILoad, IRecord, ICheck, IWrite, IFinal, IPublish,
                  CmpStep, CLoad, CRecord, CPreflight, CRestore, CVerify, CDrop,
                  CPublish, CUndo
    <3> QED
      BY <1>1, <3>1, <3>2, <3>3, TxnStays
  <2> QED
    BY <2>5, <2>6, <2>7 DEF Admit, Fresh
<1>2. BeginsSettled(p)
  BY <1>1 DEF BeginsSettled, NoUndo, CmpPhases
<1>3. RecoversOwnBytes(p)
  <2> DEFINE g == job[p].cur
  <2>1. ASSUME job[p].pc = "iload", job'[p].pc \in {"irecord", "icheck"}
        PROVE  g \in Gens /\ Unresolved(g)
    <3>1. g \in Gens
      BY <2>1, Holder, Phases DEF PhaseSets
    <3>2. TxnStep(p) \/ IntStep(p) \/ CmpStep(p)
      BY <2>1, WhoMoves, Phases DEF PhaseSets
    <3>3. ILoad(p)
      BY <2>1, <3>2 DEF TxnStep, Admit, Prepare, Stage, Check, Replace, Validate,
                        Confirm, Finalize, Restore, RbVerify, RbPublish, IntStep,
                        IRecord, ICheck, IWrite, IFinal, IPublish, CmpStep, CLoad,
                        CRecord, CPreflight, CRestore, CVerify, CDrop, CPublish, CUndo
    <3>4. ~Refuse(p)
      BY <2>1 DEF Refuse, End, Idle, TypeOK
    <3>5. Interrupted(g) /\ (Records(g) = {} \/ \E s \in Stamps : Resumable(g, s))
      BY <3>3, <3>4 DEF ILoad
    <3> QED
      BY <3>1, <3>5 DEF Unresolved, Recovered, Resumable, Records
  <2> QED
    BY <2>1 DEF Owns, RecoversOwnBytes
<1>4. UndoesToTheEnd(p)
  BY DEF UndoesToTheEnd, NoUndo, Undoing, CmpPhases
<1> QED
  BY <1>2, <1>3, <1>4

(* Where one process works at a time, resolves an interrupted attempt before
   it writes over its files and authors leave the tree alone meanwhile, the
   journal implements the abstract store across every crash and every I/O
   fault: an attempt that died at any step is as if it had not happened, also
   while its recovery puts the files back and dies on the way
   (run_bounded_transaction, recover_interrupted_generation). *)
THEOREM CrashingJournalImplementsStore ==
  ASSUME \A p, q \in Procs : p = q, ResolveFirst = TRUE, EditAnytime = FALSE,
         MaxEdits = 0, "completed" \notin Commands
  PROVE  Spec => ImplementsDocumentStore
<1>1. Init => Tidy
  BY DEF Init, Idle, Tidy, Apart, Owns, Unresolved, Interrupted, Clear, Admitted,
         NoUndo, CmpPhases, TxnPhases
<1>2. TypeOK /\ EvidenceInductive /\ TreeInductive /\ Tidy /\ [Next]_vars => Tidy'
  BY TidyNext
<1>3. TypeOK /\ EvidenceInductive /\ TreeInductive /\ Tidy /\ [Next]_vars
      => [Orderly]_vars
  BY TidyIsOrderly
<1>4. Spec => [][Orderly]_vars
  BY <1>1, <1>2, <1>3, TypeCorrect, InductiveInvariant, TreeKnown, PTL DEF Spec
<1> QED
  BY <1>4, JournalImplementsStore, PTL
=============================================================================
