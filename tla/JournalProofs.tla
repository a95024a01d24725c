---------------------------- MODULE JournalProofs ----------------------------
(* Theorems about Journal, proved for every value of its constants: types,  *)
(* what the evidence on disk says of the tree, and what no step ever does.  *)
EXTENDS JournalInvariant, TLAPS

USE DEF At

LEMMA IdleType == Idle \in Job
BY DEF Idle, Job, JobRecord, NoBytes, Bytes, RecoveryPhases, IntPhases, CmpPhases

\* The process bookkeeping of a command that ends.
LEMMA EndType ==
  ASSUME TypeOK, NEW p \in Procs, End(p)
  PROVE  job' \in [Procs -> Job] /\ lock' \in Procs \cup {NoProc}
BY IdleType DEF End, TypeOK

\* A running command may move to a phase of its own kind.
LEMMA PhaseType ==
  ASSUME NEW j \in Job, j.pc # "idle", NEW phase \in Waiting \cup Critical,
         phase \in RecoveryPhases => j.pc \in RecoveryPhases
  PROVE  [j EXCEPT !.pc = phase] \in Job
BY DEF Job, JobRecord

LEMMA GotoType ==
  ASSUME TypeOK, NEW p \in Procs, NEW phase \in Waiting \cup Critical,
         job[p].pc # "idle",
         phase \in RecoveryPhases => job[p].pc \in RecoveryPhases,
         Goto(p, phase)
  PROVE  job' \in [Procs -> Job]
<1>1. job[p] \in Job /\ job \in [Procs -> Job]
  BY DEF TypeOK
<1>2. [job[p] EXCEPT !.pc = phase] \in Job
  BY <1>1, PhaseType
<1> QED
  BY <1>1, <1>2, Zenon DEF Goto

LEMMA WriteSourceType ==
  ASSUME TypeOK, NEW x \in Paths, NEW c \in Bytes, NEW w \in Gens \cup {Author},
         WriteSource(x, c, w)
  PROVE  src' \in [Paths -> Bytes] /\ writer' \in [Paths -> Gens \cup {Author}]
BY DEF WriteSource, TypeOK

LEMMA SpendType ==
  ASSUME TypeOK, NEW k \in {"crash", "fault", "edit", "auth"}, Spend(k)
  PROVE  left' \in [{"crash", "fault", "edit", "auth"} -> Nat]
BY DEF Spend, TypeOK

LEMMA BeginRollbackType ==
  ASSUME TypeOK, NEW p \in Procs, NEW S \in SUBSET Paths,
         job[p].pc # "idle", BeginRollback(p, S)
  PROVE  job' \in [Procs -> Job]
<1>1. job[p] \in Job /\ job \in [Procs -> Job]
  BY DEF TypeOK
<1>2. \A phase \in {"rbverify", "restore"} :
        [job[p] EXCEPT !.pc = phase, !.todo = S, !.did = S] \in Job
  BY <1>1 DEF Job, JobRecord, Critical, TxnPhases, RecoveryPhases, IntPhases,
              CmpPhases
<1> QED
  BY <1>1, <1>2 DEF BeginRollback

LEMMA OnlyType ==
  ASSUME NEW S, NEW f \in [Paths -> Bytes]
  PROVE  Only(S, f) \in [Paths -> Bytes]
BY DEF Only, Bytes

\* A refusal or a reported I/O error changes only the bookkeeping.
LEMMA RefuseType == ASSUME TypeOK, NEW p \in Procs, Refuse(p) PROVE TypeOK'
BY EndType DEF Refuse, tree, evidence, TypeOK

LEMMA FailType == ASSUME TypeOK, NEW p \in Procs, Fail(p) PROVE TypeOK'
BY EndType, SpendType DEF Fail, tree, evidence, TypeOK

LEMMA StartType ==
  ASSUME TypeOK, NEW p \in Procs, Start(p) PROVE TypeOK'
<1>0. /\ job \in [Procs -> Job]
      /\ Pins \in SUBSET (Auths \cup {Unguarded})
  BY DEF TypeOK, Pins
<1>1. CASE Plan(p)
  <2> SUFFICES ASSUME NEW g \in Gens, NEW pin \in Pins, NEW E \in SUBSET Paths,
                      NEW G \in SUBSET {x \in Paths \ E : src[x] # Absent},
                      NEW goal \in [E -> Contents],
                      Declare(p, g, pin, E, G, goal)
               PROVE  TypeOK'
    BY <1>1, Zenon DEF Plan
  <2> DEFINE new == [Idle EXCEPT !.pc = "planned", !.cur = g, !.pin = pin,
          !.edits = E, !.guards = G, !.view = Only(E \cup G, src),
          !.goal = [x \in Paths |-> IF x \in E THEN goal[x] ELSE Absent]]
  <2>3. Only(E \cup G, src) \in [Paths -> Bytes]
    BY OnlyType DEF TypeOK
  <2>4. [x \in Paths |-> IF x \in E THEN goal[x] ELSE Absent]
          \in [Paths -> Bytes]
    BY DEF Bytes
  <2>5. new \in Job
    BY <1>0, <2>3, <2>4, IdleType
       DEF Job, JobRecord, Waiting, RecoveryPhases, IntPhases,
           CmpPhases
  <2>6. job' \in [Procs -> Job]
    BY <1>0, <2>5 DEF Declare
  <2> QED
    BY <1>1, <2>6 DEF Plan, tree, evidence, TypeOK
<1>2. CASE IStart(p)
  <2>1. PICK g \in Gens, s \in Stamps, pin \in Pins :
          job' = [job EXCEPT ![p] = [Idle EXCEPT !.pc = "iwait", !.cur = g,
                                       !.stamp = s, !.pin = pin]]
    BY <1>2 DEF IStart
  <2>2. [Idle EXCEPT !.pc = "iwait", !.cur = g, !.stamp = s, !.pin = pin] \in Job
    BY <1>0, IdleType DEF Job, JobRecord, Waiting
  <2>3. job' \in [Procs -> Job]
    BY <1>0, <2>1, <2>2
  <2> QED
    BY <1>2, <2>3 DEF IStart, tree, evidence, TypeOK
<1>3. CASE CStart(p)
  <2>1. PICK g \in Gens, s \in Stamps, pin \in Pins :
          job' = [job EXCEPT ![p] = [Idle EXCEPT !.pc = "cwait", !.cur = g,
                                       !.stamp = s, !.pin = pin]]
    BY <1>3 DEF CStart
  <2>2. [Idle EXCEPT !.pc = "cwait", !.cur = g, !.stamp = s, !.pin = pin] \in Job
    BY <1>0, IdleType DEF Job, JobRecord, Waiting
  <2>3. job' \in [Procs -> Job]
    BY <1>0, <2>1, <2>2
  <2> QED
    BY <1>3, <2>3 DEF CStart, tree, evidence, TypeOK
<1> QED
  BY <1>1, <1>2, <1>3 DEF Start

LEMMA WaitingType ==
  ASSUME TypeOK, NEW p \in Procs, Lock(p) \/ LockBusy(p) PROVE TypeOK'
<1>1. CASE Lock(p)
  <2>1. /\ Entry[job[p].pc] \in Waiting \cup Critical
        /\ job[p].pc # "idle"
        /\ Entry[job[p].pc] \in RecoveryPhases => job[p].pc \in RecoveryPhases
    BY <1>1 DEF Lock, Waiting, Entry, Critical, TxnPhases, IntPhases, CmpPhases,
                RecoveryPhases
  <2> QED
    BY <1>1, <2>1, GotoType DEF Lock, tree, evidence, TypeOK
<1>2. CASE LockBusy(p)
  BY <1>2, IdleType DEF LockBusy, tree, evidence, TypeOK
<1> QED
  BY <1>1, <1>2

\* The fields of a running command.
LEMMA RunningType ==
  ASSUME TypeOK, NEW p \in Procs, job[p].pc # "idle"
  PROVE  /\ job[p].cur \in Gens
         /\ job[p].pin \in Auths \cup {Unguarded}
         /\ job[p].edits \in SUBSET Paths /\ job[p].guards \in SUBSET Paths
         /\ job[p].view \in [Paths -> Bytes] /\ job[p].goal \in [Paths -> Bytes]
         /\ job[p].todo \in SUBSET Paths /\ job[p].did \in SUBSET Paths
         /\ job[p].held \in [Paths -> Bytes]
         /\ job[p].pc \in RecoveryPhases => job[p].stamp \in Stamps
         /\ before[job[p].cur] \in [Paths -> Bytes]
         /\ after[job[p].cur] \in [Paths -> Bytes]
         /\ files[job[p].cur] \in SUBSET Paths
<1>1. job[p] \in Job
  BY DEF TypeOK
<1> QED
  BY <1>1 DEF Job, JobRecord, TypeOK

\* The updates of a loop step, each of them within Job.
LEMMA TodoType ==
  ASSUME TypeOK, NEW p \in Procs, NEW phase \in Waiting \cup Critical,
         NEW S \in SUBSET Paths, job[p].pc # "idle",
         phase \in RecoveryPhases => job[p].pc \in RecoveryPhases,
         job' = [job EXCEPT ![p].pc = phase, ![p].todo = S]
  PROVE  job' \in [Procs -> Job]
<1>1. job[p] \in Job /\ job \in [Procs -> Job]
  BY DEF TypeOK
<1>2. [job[p] EXCEPT !.pc = phase, !.todo = S] \in Job
  BY <1>1 DEF Job, JobRecord
<1> QED
  BY <1>1, <1>2

LEMMA DidType ==
  ASSUME TypeOK, NEW p \in Procs, NEW phase \in Waiting \cup Critical,
         NEW S \in SUBSET Paths, NEW D \in SUBSET Paths, job[p].pc # "idle",
         phase \in RecoveryPhases => job[p].pc \in RecoveryPhases,
         job' = [job EXCEPT ![p].pc = phase, ![p].todo = S, ![p].did = D]
  PROVE  job' \in [Procs -> Job]
<1>1. job[p] \in Job /\ job \in [Procs -> Job]
  BY DEF TypeOK
<1>2. [job[p] EXCEPT !.pc = phase, !.todo = S, !.did = D] \in Job
  BY <1>1 DEF Job, JobRecord
<1> QED
  BY <1>1, <1>2

LEMMA RecordType ==
  ASSUME TypeOK, NEW g \in Gens, NEW s \in Stamps, NEW v \in RecStates,
         rec' = [rec EXCEPT ![g][s] = v]
  PROVE  rec' \in [Gens -> [Stamps -> RecStates]]
<1>1. rec[g] \in [Stamps -> RecStates] /\ rec \in [Gens -> [Stamps -> RecStates]]
  BY DEF TypeOK
<1>2. [rec[g] EXCEPT ![s] = v] \in [Stamps -> RecStates]
  BY <1>1
<1> QED
  BY <1>1, <1>2

LEMMA TxnType ==
  ASSUME TypeOK, NEW p \in Procs, TxnStep(p) PROVE TypeOK'
<1> USE DEF tree, evidence
<1> DEFINE Phases == Waiting \cup Critical
<1>0. /\ \A ph \in TxnPhases : ph \in Phases /\ ph \notin RecoveryPhases
      /\ TxnPhases = {"admit", "prepare", "stage", "check", "replace",
           "validate", "confirm", "finalize", "restore", "rbverify", "rbpublish"}
  BY DEF Critical, TxnPhases, RecoveryPhases, IntPhases, CmpPhases
<1>1. CASE Admit(p)
  <2>1. CASE Refuse(p)
    BY <2>1, RefuseType
  <2>2. CASE /\ stage' = [stage EXCEPT ![job[p].cur] = "dir"]
             /\ Goto(p, "prepare")
             /\ UNCHANGED <<tree, files, before, after, gauth, terminal, rec,
                            lock, authority, left>>
    BY <1>0, <1>1, <2>2, GotoType DEF Admit, TypeOK
  <2> QED
    BY <1>1, <2>1, <2>2 DEF Admit
<1>2. CASE Prepare(p)
  <2>1. CASE Fail(p)
    BY <2>1, FailType
  <2>2. CASE ~Fail(p)
    <3>1. job[p].pc # "idle" /\ Goto(p, "stage")
      BY <1>2, <2>2 DEF Prepare
    <3>2. Only(job[p].edits, job[p].view) \in [Paths -> Bytes]
      BY <3>1, RunningType, OnlyType
    <3>3. job' \in [Procs -> Job]
      BY <1>0, <3>1, GotoType
    <3>4. /\ job[p].cur \in Gens /\ job[p].edits \in SUBSET Paths
          /\ job[p].goal \in [Paths -> Bytes]
          /\ job[p].pin \in Auths \cup {Unguarded}
      BY <3>1, RunningType
    <3>5. /\ stage' = [stage EXCEPT ![job[p].cur] = "prepared"]
          /\ files' = [files EXCEPT ![job[p].cur] = job[p].edits]
          /\ before' = [before EXCEPT
                          ![job[p].cur] = Only(job[p].edits, job[p].view)]
          /\ after' = [after EXCEPT ![job[p].cur] = job[p].goal]
          /\ gauth' = [gauth EXCEPT ![job[p].cur] = job[p].pin]
          /\ UNCHANGED <<src, writer, terminal, rec, lock, authority, left>>
      BY <1>2, <2>2 DEF Prepare
    <3> QED
      BY <3>2, <3>3, <3>4, <3>5 DEF TypeOK
  <2> QED
    BY <2>1, <2>2
<1>3. CASE Stage(p)
  <2>1. CASE Fail(p) \/ Refuse(p)
    BY <2>1, FailType, RefuseType
  <2>2. CASE ~Fail(p) /\ ~Refuse(p)
    <3>1. /\ job[p].pc # "idle"
          /\ job' = [job EXCEPT ![p].pc = "check", ![p].todo = job[p].edits]
          /\ UNCHANGED <<tree, evidence, lock, authority, left>>
      BY <1>3, <2>2 DEF Stage
    <3>2. job' \in [Procs -> Job]
      BY <1>0, <3>1, TodoType, RunningType
    <3> QED
      BY <3>1, <3>2 DEF TypeOK
  <2> QED
    BY <2>1, <2>2
<1>4. CASE Check(p)
  <2>1. job[p].pc # "idle" /\ (Goto(p, "replace") \/ BeginRollback(p, job[p].did))
    BY <1>4 DEF Check
  <2>2. job' \in [Procs -> Job]
    BY <1>0, <2>1, GotoType, BeginRollbackType, RunningType
  <2> QED
    BY <1>4, <2>2 DEF Check, TypeOK
<1>5. CASE Replace(p)
  <2>1. job[p].pc # "idle"
    BY <1>5 DEF Replace
  <2>2. PICK x \in Paths :
          \/ Spend("fault") /\ BeginRollback(p, job[p].did) /\ UNCHANGED tree
          \/ /\ WriteSource(x, job[p].goal[x], job[p].cur)
             /\ job' = [job EXCEPT
                  ![p].pc = IF job[p].todo = {x} THEN "validate" ELSE "check",
                  ![p].todo = @ \ {x}, ![p].did = @ \cup {x}]
             /\ UNCHANGED left
    BY <1>5 DEF Replace
  <2>3. UNCHANGED <<evidence, lock, authority>>
    BY <1>5 DEF Replace
  <2>4. CASE Spend("fault") /\ BeginRollback(p, job[p].did) /\ UNCHANGED tree
    BY <2>1, <2>3, <2>4, BeginRollbackType, RunningType, SpendType DEF TypeOK
  <2>5. CASE /\ WriteSource(x, job[p].goal[x], job[p].cur)
             /\ job' = [job EXCEPT
                  ![p].pc = IF job[p].todo = {x} THEN "validate" ELSE "check",
                  ![p].todo = @ \ {x}, ![p].did = @ \cup {x}]
             /\ UNCHANGED left
    <3>1. job[p].goal[x] \in Bytes /\ job[p].cur \in Gens
      BY <2>1, RunningType
    <3>2. src' \in [Paths -> Bytes] /\ writer' \in [Paths -> Gens \cup {Author}]
      BY <2>5, <3>1, WriteSourceType
    <3>3. job' \in [Procs -> Job]
      <4>1. /\ job[p].todo \ {x} \in SUBSET Paths
            /\ job[p].did \cup {x} \in SUBSET Paths
        BY <2>1, RunningType
      <4>2. \A ph \in {"validate", "check"} :
              ph \in Waiting \cup Critical /\ ph \notin RecoveryPhases
        BY <1>0
      <4> QED
        BY <2>1, <2>5, <4>1, <4>2, DidType
    <3> QED
      BY <2>3, <2>5, <3>2, <3>3 DEF TypeOK
  <2> QED
    BY <2>2, <2>4, <2>5
<1>6. CASE Validate(p)
  <2>1. job[p].pc # "idle" /\ (Goto(p, "confirm") \/ BeginRollback(p, job[p].edits))
    BY <1>6 DEF Validate
  <2>2. job' \in [Procs -> Job]
    BY <1>0, <2>1, GotoType, BeginRollbackType, RunningType
  <2> QED
    BY <1>6, <2>2 DEF Validate, TypeOK
<1>7. CASE Confirm(p)
  <2>1. job[p].pc # "idle" /\ (Goto(p, "finalize") \/ BeginRollback(p, job[p].edits))
    BY <1>7 DEF Confirm
  <2>2. job' \in [Procs -> Job]
    BY <1>0, <2>1, GotoType, BeginRollbackType, RunningType
  <2> QED
    BY <1>7, <2>2 DEF Confirm, TypeOK
<1>8. CASE Finalize(p)
  <2>1. job[p].pc # "idle" /\ job[p].cur \in Gens /\ job[p].edits \in SUBSET Paths
    BY <1>8, RunningType DEF Finalize
  <2>2. CASE BeginRollback(p, job[p].edits) /\ UNCHANGED <<terminal, lock>>
    <3>1. left' \in [{"crash", "fault", "edit", "auth"} -> Nat]
      BY <1>8, SpendType DEF Finalize, TypeOK
    <3> QED
      BY <1>8, <2>1, <2>2, <3>1, BeginRollbackType DEF Finalize, TypeOK
  <2>3. CASE /\ terminal' = [terminal EXCEPT ![job[p].cur] = "applied"]
             /\ End(p) /\ UNCHANGED left
    BY <1>8, <2>1, <2>3, EndType DEF Finalize, TypeOK
  <2> QED
    BY <1>8, <2>2, <2>3 DEF Finalize
<1>9. CASE Restore(p)
  <2>1. CASE Fail(p)
    BY <2>1, FailType
  <2>2. CASE ~Fail(p)
    <3>1. job[p].pc # "idle" /\ UNCHANGED <<evidence, lock, authority, left>>
      BY <1>9, <2>2 DEF Restore
    <3>2. PICK x \in Paths :
            /\ WriteSource(x, before[job[p].cur][x], job[p].cur)
            /\ job' = [job EXCEPT
                 ![p].pc = IF job[p].todo = {x} THEN "rbverify" ELSE "restore",
                 ![p].todo = @ \ {x}]
      BY <1>9, <2>2 DEF Restore
    <3>3. src' \in [Paths -> Bytes] /\ writer' \in [Paths -> Gens \cup {Author}]
      BY <3>1, <3>2, RunningType, WriteSourceType
    <3>4. job' \in [Procs -> Job]
      <4>1. job[p].todo \ {x} \in SUBSET Paths
        BY <3>1, RunningType
      <4>2. \A ph \in {"rbverify", "restore"} :
              ph \in Waiting \cup Critical /\ ph \notin RecoveryPhases
        BY <1>0
      <4> QED
        BY <3>1, <3>2, <4>1, <4>2, TodoType
    <3> QED
      BY <3>1, <3>3, <3>4 DEF TypeOK
  <2> QED
    BY <2>1, <2>2
<1>10. CASE RbVerify(p)
  <2>1. CASE Refuse(p)
    BY <2>1, RefuseType
  <2>2. CASE ~Refuse(p)
    BY <1>0, <1>10, <2>2, GotoType DEF RbVerify, TypeOK
  <2> QED
    BY <2>1, <2>2
<1>11. CASE RbPublish(p)
  <2>1. CASE Fail(p)
    BY <2>1, FailType
  <2>2. CASE ~Fail(p)
    BY <1>11, <2>2, EndType, RunningType DEF RbPublish, TypeOK
  <2> QED
    BY <2>1, <2>2
<1> QED
  BY <1>1, <1>2, <1>3, <1>4, <1>5, <1>6, <1>7, <1>8, <1>9, <1>10, <1>11
     DEF TxnStep

LEMMA IntType ==
  ASSUME TypeOK, NEW p \in Procs, IntStep(p) PROVE TypeOK'
<1> USE DEF tree, evidence
<1>0. /\ \A ph \in IntPhases : /\ ph \in Waiting \cup Critical
                               /\ ph \in RecoveryPhases
      /\ IntPhases = {"iload", "irecord", "icheck", "iwrite", "ifinal", "ipublish"}
  BY DEF Critical, RecoveryPhases, IntPhases
<1>a. ASSUME NEW ph \in IntPhases, At(p, ph)
      PROVE  /\ job[p].pc # "idle" /\ job[p].pc \in RecoveryPhases
             /\ job[p].cur \in Gens /\ job[p].stamp \in Stamps
  BY <1>0, <1>a, RunningType
<1>1. CASE ILoad(p)
  <2>1. CASE Refuse(p)
    BY <2>1, RefuseType
  <2>2. CASE ~Refuse(p)
    <3> DEFINE written == {x \in files[job[p].cur] :
                             src[x] # before[job[p].cur][x]}
    <3>1. job[p].pc # "idle" /\ job[p].pc \in RecoveryPhases
          /\ job[p].stamp \in Stamps
      BY <1>0, <1>1, <1>a DEF ILoad
    <3>2. PICK ph \in {"irecord", "ifinal", "icheck"}, s \in Stamps :
            /\ job' = [job EXCEPT ![p].pc = ph, ![p].stamp = s,
                                  ![p].todo = written]
            /\ UNCHANGED <<tree, evidence, lock, authority, left>>
      BY <1>1, <2>2, <3>1 DEF ILoad
    <3>3. written \in SUBSET Paths /\ job[p] \in Job /\ job \in [Procs -> Job]
      BY <3>1, RunningType DEF TypeOK
    <3>4. [job[p] EXCEPT !.pc = ph, !.stamp = s, !.todo = written] \in Job
      BY <1>0, <3>1, <3>3 DEF Job, JobRecord
    <3>5. job' \in [Procs -> Job]
      BY <3>2, <3>3, <3>4
    <3> QED
      BY <3>2, <3>5 DEF TypeOK
  <2> QED
    BY <2>1, <2>2
<1>2. CASE IRecord(p)
  <2>1. CASE Fail(p)
    BY <2>1, FailType
  <2>2. CASE ~Fail(p)
    <3>1. job' \in [Procs -> Job]
      BY <1>0, <1>2, <1>a, <2>2, GotoType DEF IRecord
    <3>2. rec' \in [Gens -> [Stamps -> RecStates]]
      <4>1. /\ job[p].cur \in Gens /\ job[p].stamp \in Stamps
            /\ rec' = [rec EXCEPT ![job[p].cur][job[p].stamp] = "i-pending"]
        BY <1>0, <1>2, <1>a, <2>2 DEF IRecord
      <4> QED
        BY <4>1, RecordType DEF RecStates
    <3> QED
      BY <1>2, <2>2, <3>1, <3>2 DEF IRecord, genVars, TypeOK
  <2> QED
    BY <2>1, <2>2
<1>3. CASE ICheck(p)
  <2>1. (Goto(p, "iwrite") /\ UNCHANGED lock) \/ End(p)
    BY <1>3 DEF ICheck
  <2>2. job' \in [Procs -> Job] /\ lock' \in Procs \cup {NoProc}
    BY <1>0, <1>3, <1>a, <2>1, GotoType, EndType DEF ICheck, TypeOK
  <2> QED
    BY <1>3, <2>2 DEF ICheck, TypeOK
<1>4. CASE IWrite(p)
  <2>1. CASE Fail(p) \/ Refuse(p)
    BY <2>1, FailType, RefuseType
  <2>2. CASE ~Fail(p) /\ ~Refuse(p)
    <3>1. /\ UNCHANGED <<evidence, lock, authority, left>>
          /\ job[p].pc # "idle" /\ job[p].pc \in RecoveryPhases
      BY <1>0, <1>4, <1>a, <2>2 DEF IWrite
    <3>2. PICK x \in Paths :
            /\ WriteSource(x, before[job[p].cur][x], job[p].cur)
            /\ job' = [job EXCEPT
                 ![p].pc = IF job[p].todo = {x} THEN "ifinal" ELSE "icheck",
                 ![p].todo = @ \ {x}]
      BY <1>4, <2>2 DEF IWrite
    <3>3. src' \in [Paths -> Bytes] /\ writer' \in [Paths -> Gens \cup {Author}]
      BY <3>1, <3>2, RunningType, WriteSourceType
    <3>4. job' \in [Procs -> Job]
      <4>1. job[p].todo \ {x} \in SUBSET Paths
        BY <3>1, RunningType
      <4>2. \A ph \in {"ifinal", "icheck"} : ph \in Waiting \cup Critical
        BY <1>0
      <4> QED
        BY <3>1, <3>2, <4>1, <4>2, TodoType
    <3> QED
      BY <3>1, <3>3, <3>4 DEF TypeOK
  <2> QED
    BY <2>1, <2>2
<1>5. CASE IFinal(p)
  <2>1. (Goto(p, "ipublish") /\ UNCHANGED lock) \/ End(p)
    BY <1>5 DEF IFinal
  <2>2. job' \in [Procs -> Job] /\ lock' \in Procs \cup {NoProc}
    BY <1>0, <1>5, <1>a, <2>1, GotoType, EndType DEF IFinal, TypeOK
  <2> QED
    BY <1>5, <2>2 DEF IFinal, TypeOK
<1>6. CASE IPublish(p)
  <2>1. CASE Fail(p)
    BY <2>1, FailType
  <2>2. CASE ~Fail(p)
    <3>1. rec' \in [Gens -> [Stamps -> RecStates]]
      <4>1. /\ job[p].cur \in Gens /\ job[p].stamp \in Stamps
            /\ rec' = [rec EXCEPT ![job[p].cur][job[p].stamp] = "i-done"]
        BY <1>0, <1>6, <1>a, <2>2 DEF IPublish
      <4> QED
        BY <4>1, RecordType DEF RecStates
    <3> QED
      BY <1>6, <2>2, <3>1, EndType DEF IPublish, genVars, TypeOK
  <2> QED
    BY <2>1, <2>2
<1> QED
  BY <1>1, <1>2, <1>3, <1>4, <1>5, <1>6 DEF IntStep
LEMMA CmpType ==
  ASSUME TypeOK, NEW p \in Procs, CmpStep(p) PROVE TypeOK'
<1> USE DEF tree, evidence, genVars
<1>0. /\ \A ph \in CmpPhases : /\ ph \in Waiting \cup Critical
                               /\ ph \in RecoveryPhases
      /\ CmpPhases = {"cload", "crecord", "cpreflight", "crestore", "cverify",
                      "cdrop", "cpublish", "cundo"}
  BY DEF Critical, RecoveryPhases, CmpPhases
<1>a. ASSUME NEW ph \in CmpPhases, At(p, ph)
      PROVE  /\ job[p].pc # "idle" /\ job[p].pc \in RecoveryPhases
             /\ job[p].cur \in Gens /\ job[p].stamp \in Stamps
  BY <1>0, <1>a, RunningType
<1>b. ASSUME NEW ph \in CmpPhases, At(p, ph), BeginUndo(p)
      PROVE  job' \in [Procs -> Job] /\ lock' \in Procs \cup {NoProc}
  <2>1. CASE End(p)
    BY <2>1, EndType
  <2>2. CASE Goto(p, "cundo") /\ UNCHANGED lock
    BY <1>0, <1>a, <1>b, <2>2, GotoType DEF TypeOK
  <2> QED
    BY <1>b, <2>1, <2>2 DEF BeginUndo
<1>c. Spend("fault") \/ UNCHANGED left
        => left' \in [{"crash", "fault", "edit", "auth"} -> Nat]
  BY SpendType DEF TypeOK
<1>1. CASE CLoad(p)
  <2>1. CASE Refuse(p)
    BY <2>1, RefuseType
  <2>2. CASE ~Refuse(p)
    BY <1>0, <1>1, <1>a, <2>2, GotoType DEF CLoad, TypeOK
  <2> QED
    BY <2>1, <2>2
<1>2. CASE CRecord(p)
  <2>1. CASE Refuse(p)
    BY <2>1, RefuseType
  <2>2. CASE ~Refuse(p)
    <3>1. job[p].pc = "crecord" /\ job[p].cur \in Gens /\ job[p].stamp \in Stamps
      BY <1>0, <1>2, <1>a DEF CRecord
    <3>2. PICK v \in {"c-dir", "c-pending"} :
            rec' = [rec EXCEPT ![job[p].cur][job[p].stamp] = v]
      BY <1>2, <2>2 DEF CRecord
    <3>3. rec' \in [Gens -> [Stamps -> RecStates]]
      BY <3>1, <3>2, RecordType DEF RecStates
    <3>4. job' \in [Procs -> Job] /\ lock' \in Procs \cup {NoProc}
      BY <1>0, <1>2, <2>2, <3>1, EndType, GotoType DEF CRecord, TypeOK
    <3> QED
      BY <1>2, <1>c, <2>2, <3>3, <3>4 DEF CRecord, TypeOK
  <2> QED
    BY <2>1, <2>2
<1>3. CASE CPreflight(p)
  <2>1. CASE BeginUndo(p)
    BY <1>0, <1>3, <1>b, <2>1 DEF CPreflight, TypeOK
  <2>2. CASE /\ job' = [job EXCEPT ![p].pc = "crestore",
                                   ![p].todo = files[job[p].cur]]
             /\ UNCHANGED lock
    <3>1. job' \in [Procs -> Job]
      BY <1>0, <1>3, <1>a, <2>2, TodoType, RunningType DEF CPreflight
    <3> QED
      BY <1>3, <2>2, <3>1 DEF CPreflight, TypeOK
  <2> QED
    BY <1>3, <2>1, <2>2 DEF CPreflight
<1>4. CASE CRestore(p)
  <2>1. CASE BeginUndo(p) /\ UNCHANGED tree
    BY <1>0, <1>4, <1>b, <1>c, <2>1 DEF CRestore, TypeOK
  <2>2. CASE ~(BeginUndo(p) /\ UNCHANGED tree)
    <3>1. /\ UNCHANGED <<evidence, lock, authority, left>>
          /\ job[p].pc = "crestore"
      BY <1>4, <2>2 DEF CRestore
    <3>2. PICK x \in Paths :
            /\ WriteSource(x, before[job[p].cur][x], job[p].cur)
            /\ job' = [job EXCEPT
                 ![p].pc = IF job[p].todo = {x} THEN "cverify" ELSE "crestore",
                 ![p].todo = @ \ {x}, ![p].did = @ \cup {x},
                 ![p].held = [@ EXCEPT ![x] =
                   IF before[job[p].cur][x] = Absent THEN src[x] ELSE Absent]]
      BY <1>4, <2>2 DEF CRestore
    <3>3. src' \in [Paths -> Bytes] /\ writer' \in [Paths -> Gens \cup {Author}]
      BY <3>1, <3>2, RunningType, WriteSourceType
    <3>4. job' \in [Procs -> Job]
      <4> DEFINE h == [job[p].held EXCEPT ![x] =
                         IF before[job[p].cur][x] = Absent THEN src[x] ELSE Absent]
      <4>1. h \in [Paths -> Bytes]
        BY <3>1, RunningType DEF TypeOK, Bytes
      <4>2. job[p] \in Job /\ job \in [Procs -> Job]
        BY DEF TypeOK
      <4>3. \A ph \in {"cverify", "crestore"} :
              [job[p] EXCEPT !.pc = ph, !.todo = @ \ {x}, !.did = @ \cup {x},
                             !.held = h] \in Job
        BY <1>0, <3>1, <4>1, <4>2 DEF Job, JobRecord
      <4> QED
        BY <3>2, <4>2, <4>3
    <3> QED
      BY <3>1, <3>3, <3>4 DEF TypeOK
  <2> QED
    BY <2>1, <2>2
<1>5. CASE CVerify(p)
  <2>1. BeginUndo(p) \/ (Goto(p, "cdrop") /\ UNCHANGED lock)
    BY <1>5 DEF CVerify
  <2>2. job' \in [Procs -> Job] /\ lock' \in Procs \cup {NoProc}
    BY <1>0, <1>5, <1>a, <1>b, <2>1, GotoType DEF CVerify, TypeOK
  <2> QED
    BY <1>5, <2>2 DEF CVerify, TypeOK
<1>6. CASE CDrop(p)
  <2>1. PICK ph, h :
          /\ ph \in {"cundo", "cpublish"}
          /\ job' = [job EXCEPT ![p].pc = ph, ![p].held = h]
          /\ h = NoBytes \/ \E kept \in SUBSET job[p].did :
                              h = Only(kept, job[p].held)
    BY <1>6 DEF CDrop
  <2>2. job[p] \in Job /\ job \in [Procs -> Job] /\ job[p].pc = "cdrop"
    BY <1>6 DEF CDrop, TypeOK
  <2>5. h \in [Paths -> Bytes]
    <3>1. CASE h = NoBytes
      BY <3>1 DEF NoBytes, Bytes
    <3>2. ASSUME NEW kept \in SUBSET job[p].did, h = Only(kept, job[p].held)
          PROVE  h \in [Paths -> Bytes]
      BY <2>2, <3>2, RunningType, OnlyType
    <3> QED
      BY <2>1, <3>1, <3>2
  <2>3. [job[p] EXCEPT !.pc = ph, !.held = h] \in Job
    BY <1>0, <2>1, <2>2, <2>5 DEF Job, JobRecord
  <2>4. job' \in [Procs -> Job]
    BY <2>1, <2>2, <2>3
  <2> QED
    BY <1>6, <1>c, <2>4 DEF CDrop, TypeOK
<1>7. CASE CPublish(p)
  <2>1. CASE BeginUndo(p) /\ UNCHANGED rec
    BY <1>0, <1>7, <1>b, <1>c, <2>1 DEF CPublish, TypeOK
  <2>2. CASE /\ rec' = [rec EXCEPT ![job[p].cur][job[p].stamp] = "c-done"]
             /\ End(p) /\ UNCHANGED left
    <3>1. rec' \in [Gens -> [Stamps -> RecStates]]
      <4>1. job[p].cur \in Gens /\ job[p].stamp \in Stamps
        BY <1>0, <1>7, <1>a DEF CPublish
      <4> QED
        BY <2>2, <4>1, RecordType DEF RecStates
    <3> QED
      BY <1>7, <2>2, <3>1, EndType DEF CPublish, TypeOK
  <2> QED
    BY <1>7, <2>1, <2>2 DEF CPublish
<1>8. CASE CUndo(p)
  <2>1. CASE Fail(p)
    BY <2>1, FailType
  <2>2. CASE ~Fail(p)
    <3>1. UNCHANGED <<evidence, authority, left>> /\ job[p].pc = "cundo"
      BY <1>8, <2>2 DEF CUndo
    <3>2. PICK x \in Paths :
            LET bytes == IF job[p].held[x] # Absent THEN job[p].held[x]
                         ELSE after[job[p].cur][x] IN
            /\ WriteSource(x, bytes, IF bytes = after[job[p].cur][x]
                                     THEN job[p].cur ELSE Author)
            /\ \/ End(p)
               \/ job' = [job EXCEPT ![p].did = @ \ {x}] /\ UNCHANGED lock
      BY <1>8, <2>2 DEF CUndo
    <3>3. src' \in [Paths -> Bytes] /\ writer' \in [Paths -> Gens \cup {Author}]
      BY <3>1, <3>2, RunningType, WriteSourceType
    <3>4. job' \in [Procs -> Job] /\ lock' \in Procs \cup {NoProc}
      <4>1. job[p] \in Job /\ job \in [Procs -> Job]
            /\ lock \in Procs \cup {NoProc}
        BY DEF TypeOK
      <4>2. [job[p] EXCEPT !.did = @ \ {x}] \in Job
        BY <4>1 DEF Job, JobRecord
      <4> QED
        BY <3>2, <4>1, <4>2, EndType
    <3> QED
      BY <3>1, <3>3, <3>4 DEF TypeOK
  <2> QED
    BY <2>1, <2>2
<1> QED
  BY <1>1, <1>2, <1>3, <1>4, <1>5, <1>6, <1>7, <1>8 DEF CmpStep

LEMMA EnvType ==
  ASSUME TypeOK,
         \/ \E p \in Procs : Crash(p)
         \/ \E x \in Paths, content \in Bytes : Edit(x, content)
         \/ AuthorityChange
  PROVE  TypeOK'
<1> USE DEF tree, evidence
<1>1. ASSUME NEW p \in Procs, Crash(p) PROVE TypeOK'
  BY <1>1, IdleType, SpendType DEF Crash, TypeOK
<1>2. ASSUME NEW x \in Paths, NEW content \in Bytes, Edit(x, content) PROVE TypeOK'
  BY <1>2, SpendType, WriteSourceType DEF Edit, TypeOK
<1>3. CASE AuthorityChange
  BY <1>3, SpendType DEF AuthorityChange, TypeOK
<1> QED
  BY <1>1, <1>2, <1>3

(* Type correctness: whatever crashes, faults, edits and commands come, every
   record of the journal and of its commands stays well formed. *)
THEOREM TypeCorrect == Spec => []TypeOK
<1>1. Init => TypeOK
  <2> SUFFICES ASSUME Init PROVE TypeOK
    OBVIOUS
  <2>1. job \in [Procs -> Job] /\ NoBytes \in [Paths -> Bytes]
    BY IdleType DEF Init, NoBytes, Bytes
  <2>2. left \in [{"crash", "fault", "edit", "auth"} -> Nat]
    BY BoundAssumption DEF Init
  <2> QED
    BY <2>1, <2>2 DEF Init, TypeOK, RecStates
<1>2. TypeOK /\ [Next]_vars => TypeOK'
  <2> SUFFICES ASSUME TypeOK, [Next]_vars PROVE TypeOK'
    OBVIOUS
  <2>1. CASE UNCHANGED vars
    BY <2>1 DEF vars, TypeOK
  <2>2. CASE Next
    BY <2>2, StartType, WaitingType, TxnType, IntType, CmpType, EnvType
       DEF Next, Continue
  <2> QED
    BY <2>1, <2>2
<1> QED
  BY <1>1, <1>2, PTL DEF Spec

-----------------------------------------------------------------------------
(* The evidence on disk never says of a file more than is true *)

PhaseSets == /\ Critical = TxnPhases \cup IntPhases \cup CmpPhases
             /\ TxnPhases = {"admit", "prepare", "stage", "check", "replace",
                  "validate", "confirm", "finalize", "restore", "rbverify",
                  "rbpublish"}
             /\ IntPhases = {"iload", "irecord", "icheck", "iwrite", "ifinal",
                  "ipublish"}
             /\ CmpPhases = {"cload", "crecord", "cpreflight", "crestore",
                  "cverify", "cdrop", "cpublish", "cundo"}
             /\ Waiting = {"planned", "iwait", "cwait"}

LEMMA Phases == PhaseSets
BY DEF PhaseSets, Critical, TxnPhases, IntPhases, CmpPhases, Waiting

\* A step of the process that holds the lock: it goes on or it ends.
Moves(p) ==
  /\ \A q \in Procs \ {p} : job'[q] = job[q]
  /\ \/ job'[p].pc \in Critical /\ lock' = lock
     \/ job'[p] = Idle /\ lock' = NoProc

LEMMA GotoMoves ==
  ASSUME TypeOK, NEW p \in Procs, NEW ph \in Critical, Goto(p, ph),
         UNCHANGED lock
  PROVE  Moves(p) /\ job'[p] = [job[p] EXCEPT !.pc = ph]
<1>1. job \in [Procs -> Job] /\ job[p] \in Job
  BY DEF TypeOK
<1>2. job' = [job EXCEPT ![p] = [job[p] EXCEPT !.pc = ph]]
  BY Zenon DEF Goto
<1>3. job'[p] = [job[p] EXCEPT !.pc = ph] /\ \A q \in Procs \ {p} : job'[q] = job[q]
  BY <1>1, <1>2
<1>4. [job[p] EXCEPT !.pc = ph].pc = ph
  BY <1>1 DEF Job, JobRecord
<1> QED
  BY <1>3, <1>4 DEF Moves

LEMMA EndMoves ==
  ASSUME TypeOK, NEW p \in Procs, End(p)
  PROVE  Moves(p) /\ job'[p] = Idle
BY DEF End, Moves, TypeOK

LEMMA IdleLocal ==
  ASSUME NEW p \in Procs, job'[p] = Idle
  PROVE  Local(p)'
<1>1. job'[p].pc = "idle"
  BY DEF Idle
<1> QED
  BY <1>1, Phases DEF Local, EvidencePhase, LoopPhase, BytesPhase, PhaseSets

\* Only the holder of the lock is in a phase that looks at the evidence.
LEMMA BystanderLocal ==
  ASSUME TypeOK, EvidenceInductive, NEW p \in Procs, NEW q \in Procs,
         lock = p, q # p, job'[q] = job[q]
  PROVE  Local(q)'
<1>1. job[q].pc \notin Critical
  BY DEF EvidenceInductive, LockExclusion
<1>2. LoopPhase(job[q])
  BY DEF EvidenceInductive, Local
<1> QED
  BY <1>1, <1>2, Phases DEF Local, EvidencePhase, LoopPhase, BytesPhase, PhaseSets

\* A step of the lock holder is correct if its own knowledge stays correct.
LEMMA HolderStep ==
  ASSUME TypeOK, EvidenceInductive, NEW p \in Procs, job[p].pc \in Critical,
         Moves(p), OneRecoveryRoute', EvidenceMatchesSource', Pristine',
         job'[p] # Idle => Local(p)'
  PROVE  EvidenceInductive'
<1>1. lock = p
  BY DEF EvidenceInductive, LockExclusion
<1>2. \A q \in Procs : Local(q)'
  BY <1>1, BystanderLocal, IdleLocal DEF Moves
<1>3. \A q \in Procs \ {p} : job'[q].pc \notin Critical
  BY <1>1 DEF Moves, EvidenceInductive, LockExclusion
<1>4. LockExclusion'
  <2>1. CASE job'[p].pc \in Critical /\ lock' = lock
    BY <1>1, <1>3, <2>1 DEF LockExclusion
  <2>2. CASE job'[p] = Idle /\ lock' = NoProc
    <3>1. job'[p].pc \notin Critical
      BY <2>2, Phases DEF Idle, PhaseSets
    <3> QED
      BY <1>3, <2>2, <3>1, NoProcAssumption DEF LockExclusion
  <2> QED
    BY <2>1, <2>2 DEF Moves
<1> QED
  BY <1>2, <1>4 DEF EvidenceInductive

\* Without an effect on tree or evidence the global parts carry over.
LEMMA QuietGlobal ==
  ASSUME EvidenceInductive, UNCHANGED <<tree, evidence>>
  PROVE  OneRecoveryRoute' /\ EvidenceMatchesSource' /\ Pristine'
BY DEF EvidenceInductive, tree, evidence, OneRecoveryRoute, Records,
       EvidenceMatchesSource, AttributedBytesMatch, Undone, Recovered, Pristine

LEMMA QuietStep ==
  ASSUME TypeOK, EvidenceInductive, NEW p \in Procs, job[p].pc \in Critical,
         Moves(p), UNCHANGED <<tree, evidence>>, job'[p] # Idle => Local(p)'
  PROVE  EvidenceInductive'
BY QuietGlobal, HolderStep

LEMMA RefuseStep ==
  ASSUME TypeOK, EvidenceInductive, NEW p \in Procs, job[p].pc \in Critical,
         Refuse(p) \/ Fail(p)
  PROVE  EvidenceInductive'
<1>1. Moves(p) /\ job'[p] = Idle /\ UNCHANGED <<tree, evidence>>
  BY EndMoves DEF Refuse, Fail
<1> QED
  BY <1>1, QuietStep

\* Bytes of generation g written at x, where its evidence allows them.
LEMMA WriteGlobal ==
  ASSUME TypeOK, EvidenceInductive, NEW x \in Paths, NEW g \in Gens, NEW c,
         WriteSource(x, c, g), UNCHANGED evidence,
         stage[g] = "prepared", x \in files[g], c \in {before[g][x], after[g][x]},
         terminal[g] = "applied" /\ Records(g) = {} => c = after[g][x],
         Undone(g) => c = before[g][x]
  PROVE  /\ OneRecoveryRoute' /\ EvidenceMatchesSource' /\ Pristine'
         /\ src'[x] = c /\ writer'[x] = g
         /\ \A y \in Paths \ {x} : src'[y] = src[y] /\ writer'[y] = writer[y]
<1>1. /\ src'[x] = c /\ writer'[x] = g
      /\ \A y \in Paths \ {x} : src'[y] = src[y] /\ writer'[y] = writer[y]
  BY DEF WriteSource, TypeOK
<1>2. UNCHANGED <<stage, files, before, after, gauth, terminal, rec>>
  BY DEF evidence
<1>3. \A h : /\ Undone(h)' = Undone(h) /\ Records(h)' = Records(h)
  BY <1>2 DEF Undone, Records, Recovered
<1>4. OneRecoveryRoute'
  BY <1>2, <1>3 DEF EvidenceInductive, OneRecoveryRoute
<1>5. EvidenceMatchesSource'
  <2> SUFFICES ASSUME NEW y \in Paths, writer'[y] # Author
               PROVE  AttributedBytesMatch(y, writer[y])'
    BY DEF EvidenceMatchesSource
  <2>1. CASE y = x
    BY <1>1, <1>2, <1>3, <2>1 DEF AttributedBytesMatch
  <2>2. CASE y # x
    BY <1>1, <1>2, <1>3, <2>2
       DEF EvidenceInductive, EvidenceMatchesSource, AttributedBytesMatch
  <2> QED
    BY <2>1, <2>2
<1>6. Pristine'
  BY <1>1, <1>2, <1>3 DEF EvidenceInductive, Pristine
<1> QED
  BY <1>1, <1>4, <1>5, <1>6

\* A recovery record of generation g published or opened.
LEMMA RecordGlobal ==
  ASSUME TypeOK, EvidenceInductive, NEW g \in Gens, NEW s \in Stamps,
         NEW v \in {"i-pending", "i-done", "c-dir", "c-pending", "c-done"},
         rec' = [rec EXCEPT ![g][s] = v], UNCHANGED <<tree, genVars>>,
         stage[g] = "prepared",
         terminal[g] = "absent" =>
           v \in {"i-pending", "i-done"} /\ Records(g) \subseteq {s},
         terminal[g] # "absent" => v \in {"c-dir", "c-pending", "c-done"},
         v \in {"i-done", "c-done"} => AllBefore(g)
  PROVE  OneRecoveryRoute' /\ EvidenceMatchesSource' /\ Pristine'
<1>1. /\ \A h \in Gens \ {g} : rec'[h] = rec[h]
      /\ rec'[g][s] = v
      /\ \A t \in Stamps \ {s} : rec'[g][t] = rec[g][t]
  BY DEF TypeOK
<1>2. UNCHANGED <<src, writer, stage, files, before, after, gauth, terminal>>
  BY DEF tree, genVars
<1>3. Records(g)' = Records(g) \cup {s}
  BY <1>1 DEF Records
<1>4. \A h \in Gens \ {g} : Records(h)' = Records(h) /\ Undone(h)' = Undone(h)
  BY <1>1, <1>2 DEF Records, Undone, Recovered
<1>5. OneRecoveryRoute'
  <2> SUFFICES ASSUME NEW h \in Gens
               PROVE  IF terminal[h] = "absent"
                      THEN \A t, u \in Records(h)' :
                             t = u /\ rec'[h][t] \in {"i-pending", "i-done"}
                      ELSE \A t \in Records(h)' :
                             rec'[h][t] \in {"c-dir", "c-pending", "c-done"}
    BY <1>2 DEF OneRecoveryRoute
  <2>1. CASE h = g
    BY <1>1, <1>3, <2>1 DEF EvidenceInductive, OneRecoveryRoute, Records
  <2>2. CASE h # g
    BY <1>1, <1>4, <2>2 DEF EvidenceInductive, OneRecoveryRoute
  <2> QED
    BY <2>1, <2>2
<1>6. Undone(g)' => Undone(g) \/ AllBefore(g)
  BY <1>1, <1>2, <1>3 DEF Undone, Recovered, Records
<1>7. EvidenceMatchesSource'
  <2> SUFFICES ASSUME NEW y \in Paths, writer[y] # Author
               PROVE  AttributedBytesMatch(y, writer[y])'
    BY <1>2 DEF EvidenceMatchesSource
  <2>1. AttributedBytesMatch(y, writer[y]) /\ writer[y] \in Gens
    BY DEF EvidenceInductive, EvidenceMatchesSource, TypeOK
  <2>2. CASE writer[y] = g
    BY <1>2, <1>3, <1>6, <2>1, <2>2 DEF AttributedBytesMatch, AllBefore
  <2>3. CASE writer[y] # g
    BY <1>2, <1>4, <2>1, <2>3 DEF AttributedBytesMatch
  <2> QED
    BY <2>2, <2>3
<1>8. Pristine'
  BY <1>2, <1>4 DEF EvidenceInductive, Pristine
<1> QED
  BY <1>5, <1>7, <1>8

\* The terminal record of generation g published by its own transaction.
LEMMA TerminalGlobal ==
  ASSUME TypeOK, EvidenceInductive, NEW g \in Gens,
         NEW v \in {"applied", "rolled-back"},
         terminal' = [terminal EXCEPT ![g] = v],
         UNCHANGED <<tree, stage, files, before, after, gauth, rec>>,
         stage[g] = "prepared", Records(g) = {},
         v = "applied" => AllAfter(g), v = "rolled-back" => AllBefore(g)
  PROVE  OneRecoveryRoute' /\ EvidenceMatchesSource' /\ Pristine'
<1>1. terminal'[g] = v /\ \A h \in Gens \ {g} : terminal'[h] = terminal[h]
  BY DEF TypeOK
<1>2. UNCHANGED <<src, writer, stage, files, before, after, gauth, rec>>
  BY DEF tree
<1>3. \A h : Records(h)' = Records(h) /\ Recovered(h)' = Recovered(h)
  BY <1>2 DEF Records, Recovered
<1>4. OneRecoveryRoute'
  BY <1>1, <1>2, <1>3 DEF EvidenceInductive, OneRecoveryRoute
<1>5. EvidenceMatchesSource'
  <2> SUFFICES ASSUME NEW y \in Paths, writer[y] # Author
               PROVE  AttributedBytesMatch(y, writer[y])'
    BY <1>2 DEF EvidenceMatchesSource
  <2>1. AttributedBytesMatch(y, writer[y]) /\ writer[y] \in Gens
    BY DEF EvidenceInductive, EvidenceMatchesSource, TypeOK
  <2>2. CASE writer[y] = g
    <3>1. Undone(g)' => v = "rolled-back"
      BY <1>1, <1>2, <1>3 DEF Undone, Recovered, Records
    <3> QED
      BY <1>1, <1>2, <1>3, <2>1, <2>2, <3>1
         DEF AttributedBytesMatch, AllBefore, AllAfter
  <2>3. CASE writer[y] # g
    BY <1>1, <1>2, <1>3, <2>1, <2>3 DEF AttributedBytesMatch, Undone
  <2> QED
    BY <2>2, <2>3
<1>6. Pristine'
  BY <1>1, <1>2, <1>3 DEF EvidenceInductive, Pristine
<1> QED
  BY <1>4, <1>5, <1>6

-----------------------------------------------------------------------------
(* Steps of a bounded transaction *)

\* What the holder of the lock knows.
LEMMA Holder ==
  ASSUME TypeOK, EvidenceInductive, NEW p \in Procs, job[p].pc \in Critical
  PROVE  /\ job[p] \in Job /\ job[p].pc # "idle" /\ job[p].cur \in Gens
         /\ EvidencePhase(job[p]) /\ LoopPhase(job[p]) /\ BytesPhase(job[p])
         /\ lock = p
<1>1. job[p].pc # "idle"
  BY Phases DEF PhaseSets
<1>2. job[p] \in Job /\ job[p].cur \in Gens
  BY <1>1 DEF TypeOK, Job, JobRecord
<1> QED
  BY <1>1, <1>2 DEF EvidenceInductive, Local, LockExclusion

LEMMA AdmitStep ==
  ASSUME TypeOK, EvidenceInductive, NEW p \in Procs, Admit(p)
  PROVE  EvidenceInductive'
<1> DEFINE g == job[p].cur
<1>0. job[p].pc = "admit" /\ job[p].pc \in Critical
  BY Phases DEF Admit, PhaseSets
<1>1. CASE Refuse(p)
  BY <1>0, <1>1, RefuseStep
<1>2. CASE ~Refuse(p)
  <2>1. /\ stage[g] = "none" /\ stage' = [stage EXCEPT ![g] = "dir"]
        /\ Goto(p, "prepare")
        /\ UNCHANGED <<tree, files, before, after, gauth, terminal, rec, lock>>
    BY <1>2 DEF Admit, Fresh
  <2>2. Moves(p) /\ job'[p] = [job[p] EXCEPT !.pc = "prepare"]
    BY <2>1, Phases, GotoMoves DEF PhaseSets
  <2>3. g \in Gens /\ job[p] \in Job /\ LoopPhase(job[p])
    BY <1>0, Holder
  <2>4. stage'[g] = "dir" /\ \A h \in Gens \ {g} : stage'[h] = stage[h]
    BY <2>1, <2>3 DEF TypeOK
  <2>5. UNCHANGED <<src, writer, files, before, after, terminal, rec>>
    BY <2>1 DEF tree
  <2>6. \A h : /\ Records(h)' = Records(h) /\ Undone(h)' = Undone(h)
    BY <2>5 DEF Records, Undone, Recovered
  <2>7. /\ terminal[g] = "absent" /\ Records(g) = {}
        /\ \A x \in Paths : writer[x] # g
    BY <2>1, <2>3 DEF EvidenceInductive, Pristine
  <2>8. OneRecoveryRoute'
    BY <2>5, <2>6 DEF EvidenceInductive, OneRecoveryRoute
  <2>9. EvidenceMatchesSource'
    BY <2>4, <2>5, <2>6, <2>7
       DEF EvidenceInductive, EvidenceMatchesSource, AttributedBytesMatch, TypeOK
  <2>10. Pristine'
    BY <2>4, <2>5, <2>6, <2>7 DEF EvidenceInductive, Pristine
  <2>11. Local(p)'
    <3>1. /\ job'[p].pc = "prepare" /\ job'[p].cur = g
          /\ job'[p].did = job[p].did
      BY <2>2, <2>3 DEF Job, JobRecord
    <3> QED
      BY <1>0, <2>3, <2>4, <2>5, <2>6, <2>7, <3>1, Phases
         DEF Local, EvidencePhase, LoopPhase, BytesPhase, PhaseSets
  <2> QED
    BY <1>0, <2>2, <2>8, <2>9, <2>10, <2>11, HolderStep
<1> QED
  BY <1>1, <1>2

LEMMA PrepareStep ==
  ASSUME TypeOK, EvidenceInductive, NEW p \in Procs, Prepare(p)
  PROVE  EvidenceInductive'
<1> DEFINE j == job[p]  g == job[p].cur
<1>0. job[p].pc = "prepare" /\ job[p].pc \in Critical
  BY Phases DEF Prepare, PhaseSets
<1>1. CASE Fail(p)
  BY <1>0, <1>1, RefuseStep
<1>2. CASE ~Fail(p)
  <2>1. /\ stage' = [stage EXCEPT ![g] = "prepared"]
        /\ files' = [files EXCEPT ![g] = j.edits]
        /\ before' = [before EXCEPT ![g] = Only(j.edits, j.view)]
        /\ after' = [after EXCEPT ![g] = j.goal]
        /\ Goto(p, "stage")
        /\ UNCHANGED <<tree, terminal, rec, lock>>
    BY <1>2 DEF Prepare
  <2>2. Moves(p) /\ job'[p] = [job[p] EXCEPT !.pc = "stage"]
    BY <2>1, Phases, GotoMoves DEF PhaseSets
  <2>3. /\ g \in Gens /\ job[p] \in Job
        /\ LoopPhase(job[p]) /\ EvidencePhase(job[p])
    BY <1>0, Holder
  <2>4. /\ stage'[g] = "prepared" /\ files'[g] = j.edits /\ after'[g] = j.goal
        /\ \A h \in Gens \ {g} :
             /\ stage'[h] = stage[h] /\ files'[h] = files[h]
             /\ before'[h] = before[h] /\ after'[h] = after[h]
    BY <2>1, <2>3 DEF TypeOK
  <2>5. UNCHANGED <<src, writer, terminal, rec>>
    BY <2>1 DEF tree
  <2>6. \A h : /\ Records(h)' = Records(h) /\ Undone(h)' = Undone(h)
    BY <2>5 DEF Records, Undone, Recovered
  <2>7. stage[g] = "dir" /\ terminal[g] = "absent" /\ Records(g) = {}
    BY <1>0, <2>3, Phases DEF EvidencePhase, PhaseSets
  <2>8. \A x \in Paths : writer[x] # g
    BY <2>3, <2>7 DEF EvidenceInductive, Pristine
  <2>9. OneRecoveryRoute'
    BY <2>5, <2>6 DEF EvidenceInductive, OneRecoveryRoute
  <2>10. EvidenceMatchesSource'
    BY <2>4, <2>5, <2>6, <2>8
       DEF EvidenceInductive, EvidenceMatchesSource, AttributedBytesMatch, TypeOK
  <2>11. Pristine'
    BY <2>4, <2>5, <2>6, <2>8 DEF EvidenceInductive, Pristine
  <2>12. Local(p)'
    <3>1. /\ job'[p].pc = "stage" /\ job'[p].cur = g
          /\ job'[p].did = j.did /\ job'[p].edits = j.edits
          /\ job'[p].goal = j.goal
      BY <2>2, <2>3 DEF Job, JobRecord
    <3> QED
      BY <1>0, <2>3, <2>4, <2>5, <2>6, <2>7, <2>8, <3>1, Phases
         DEF Local, EvidencePhase, LoopPhase, BytesPhase, PhaseSets, NoneOf
  <2> QED
    BY <1>0, <2>2, <2>9, <2>10, <2>11, <2>12, HolderStep
<1> QED
  BY <1>1, <1>2

LEMMA StageStep ==
  ASSUME TypeOK, EvidenceInductive, NEW p \in Procs, Stage(p)
  PROVE  EvidenceInductive'
<1> DEFINE j == job[p]  g == job[p].cur
<1>0. job[p].pc = "stage" /\ job[p].pc \in Critical
  BY Phases DEF Stage, PhaseSets
<1>1. CASE Fail(p) \/ Refuse(p)
  BY <1>0, <1>1, RefuseStep
<1>2. CASE ~Fail(p) /\ ~Refuse(p)
  <2>1. /\ job' = [job EXCEPT ![p].pc = "check", ![p].todo = j.edits]
        /\ UNCHANGED <<tree, evidence, lock>>
    BY <1>2 DEF Stage
  <2>2. g \in Gens /\ j \in Job /\ EvidencePhase(j) /\ LoopPhase(j) /\ BytesPhase(j)
    BY <1>0, Holder
  <2>3. /\ job'[p].pc = "check" /\ job'[p].cur = g /\ job'[p].did = j.did
        /\ job'[p].todo = j.edits /\ job'[p].edits = j.edits
        /\ job'[p].goal = j.goal
        /\ \A q \in Procs \ {p} : job'[q] = job[q]
    BY <2>1, <2>2 DEF Job, JobRecord, TypeOK
  <2>4. Moves(p)
    <3>1. "check" \in Critical
      BY Phases DEF PhaseSets
    <3> QED
      BY <2>1, <2>3, <3>1 DEF Moves
  <2>5. UNCHANGED <<src, writer, stage, files, before, after, terminal, rec>>
    BY <2>1 DEF tree, evidence
  <2>6. Local(p)'
    BY <1>0, <2>2, <2>3, <2>5, Phases
       DEF Local, EvidencePhase, LoopPhase, BytesPhase, PhaseSets, NoneOf,
           AllAfter, Records
  <2> QED
    BY <1>0, <2>1, <2>4, <2>6, QuietStep
<1> QED
  BY <1>1, <1>2

\* What a phase says of a job, whoever runs it.
Knows(j) == EvidencePhase(j) /\ LoopPhase(j) /\ BytesPhase(j)

\* A step that only moves on to a phase of which everything is known already.
LEMMA AdvanceStep ==
  ASSUME TypeOK, EvidenceInductive, NEW p \in Procs, job[p].pc \in Critical,
         NEW j, Knows(j), j.pc \in Critical,
         job' = [job EXCEPT ![p] = j], UNCHANGED <<tree, evidence, lock>>
  PROVE  EvidenceInductive'
<1>1. job'[p] = j /\ \A q \in Procs \ {p} : job'[q] = job[q]
  BY DEF TypeOK
<1>2. Moves(p)
  BY <1>1 DEF Moves
<1>3. UNCHANGED <<src, writer, stage, files, before, after, terminal, rec>>
  BY DEF tree, evidence
<1>4. /\ EvidencePhase(j)' <=> EvidencePhase(j)
      /\ LoopPhase(j)' <=> LoopPhase(j)
      /\ BytesPhase(j)' <=> BytesPhase(j)
  BY <1>3 DEF EvidencePhase, LoopPhase, BytesPhase, NoneOf, AllAfter, AllBefore,
              Records, Interrupted
<1>5. Local(p)'
  BY <1>1, <1>4 DEF Local, Knows
<1> QED
  BY <1>2, <1>5, QuietStep

LEMMA GotoStep ==
  ASSUME TypeOK, EvidenceInductive, NEW p \in Procs, job[p].pc \in Critical,
         NEW ph \in Critical, Goto(p, ph), UNCHANGED <<tree, evidence, lock>>,
         Knows([job[p] EXCEPT !.pc = ph])
  PROVE  EvidenceInductive'
<1>1. [job[p] EXCEPT !.pc = ph].pc = ph
  BY Holder DEF Job, JobRecord
<1>2. job' = [job EXCEPT ![p] = [job[p] EXCEPT !.pc = ph]]
  BY Zenon DEF Goto
<1> QED
  BY <1>1, <1>2, AdvanceStep

\* A transaction starts to roll back a set of files that has all it wrote.
LEMMA RollbackStep ==
  ASSUME TypeOK, EvidenceInductive, NEW p \in Procs,
         job[p].pc \in {"check", "replace", "validate", "confirm", "finalize"},
         NEW S \in SUBSET files[job[p].cur],
         \A x \in Paths : writer[x] = job[p].cur => x \in S,
         BeginRollback(p, S), UNCHANGED <<tree, evidence, lock>>
  PROVE  EvidenceInductive'
<1> DEFINE g == job[p].cur
           ph == IF S = {} THEN "rbverify" ELSE "restore"
           j == [job[p] EXCEPT !.pc = ph, !.todo = S, !.did = S]
<1>1. job[p].pc \in Critical /\ ph \in Critical
  BY Phases DEF PhaseSets
<1>2. job[p] \in Job /\ Knows(job[p]) /\ g \in Gens
  BY <1>1, Holder DEF Knows
<1>3. /\ j.pc = ph /\ j.todo = S /\ j.did = S /\ j.cur = g
      /\ j.edits = job[p].edits /\ j.goal = job[p].goal
  BY <1>2 DEF Job, JobRecord
<1>4. /\ stage[g] = "prepared" /\ terminal[g] = "absent" /\ Records(g) = {}
      /\ files[g] = job[p].edits /\ after[g] = job[p].goal
  BY <1>2, Phases DEF Knows, EvidencePhase, PhaseSets
<1>5. EvidencePhase(j)
  BY <1>3, <1>4, Phases DEF EvidencePhase, PhaseSets
<1>6. LoopPhase(j) /\ BytesPhase(j)
  BY <1>3, Phases DEF LoopPhase, BytesPhase, AllBefore, PhaseSets
<1>7. job' = [job EXCEPT ![p] = j]
  BY DEF BeginRollback
<1> HIDE DEF j
<1> QED
  BY <1>1, <1>3, <1>5, <1>6, <1>7, AdvanceStep DEF Knows

\* Bytes of a generation stand only at its own files.
LEMMA WriterFiles ==
  ASSUME TypeOK, EvidenceInductive, NEW g \in Gens, NEW x \in Paths, writer[x] = g
  PROVE  x \in files[g] /\ src[x] \in {before[g][x], after[g][x]}
BY AuthorAssumption DEF EvidenceInductive, EvidenceMatchesSource,
                        AttributedBytesMatch

LEMMA CheckStep ==
  ASSUME TypeOK, EvidenceInductive, NEW p \in Procs, Check(p)
  PROVE  EvidenceInductive'
<1> DEFINE j == [job[p] EXCEPT !.pc = "replace"]
<1>0. job[p].pc = "check" /\ job[p].pc \in Critical /\ "replace" \in Critical
  BY Phases DEF Check, PhaseSets
<1>1. UNCHANGED <<tree, evidence, lock>>
  BY DEF Check
<1>2. job[p] \in Job /\ Knows(job[p])
  BY <1>0, Holder DEF Knows
<1>3. CASE Goto(p, "replace")
  <2>1. /\ j.pc = "replace" /\ j.cur = job[p].cur /\ j.todo = job[p].todo
        /\ j.did = job[p].did /\ j.edits = job[p].edits /\ j.goal = job[p].goal
    BY <1>2 DEF Job, JobRecord
  <2> HIDE DEF j
  <2>2. Knows(j)
    BY <1>0, <1>2, <2>1, Phases
       DEF Knows, EvidencePhase, LoopPhase, BytesPhase, PhaseSets
  <2> QED
    BY <1>0, <1>1, <1>3, <2>2, GotoStep DEF j
<1>4. CASE BeginRollback(p, job[p].did)
  BY <1>0, <1>1, <1>2, <1>4, RollbackStep, Phases
     DEF Knows, LoopPhase, BytesPhase, PhaseSets
<1> QED
  BY <1>3, <1>4 DEF Check

\* No evidence yet speaks of undone bytes.
LEMMA NothingUndone ==
  ASSUME NEW g, terminal[g] = "absent", Records(g) = {} PROVE ~Undone(g)
BY DEF Undone, Recovered, Records

LEMMA ReplaceStep ==
  ASSUME TypeOK, EvidenceInductive, NEW p \in Procs, Replace(p)
  PROVE  EvidenceInductive'
<1> DEFINE j == job[p]  g == job[p].cur
<1>0. j.pc = "replace" /\ j.pc \in Critical
  BY Phases DEF Replace, PhaseSets
<1>1. j \in Job /\ Knows(j) /\ g \in Gens /\ lock = p
  BY <1>0, Holder DEF Knows
<1>2. UNCHANGED <<evidence, lock>>
  BY DEF Replace
<1>3. CASE UNCHANGED tree /\ BeginRollback(p, j.did)
  BY <1>0, <1>1, <1>2, <1>3, RollbackStep, Phases
     DEF Knows, LoopPhase, BytesPhase, PhaseSets
<1>4. CASE ~(UNCHANGED tree /\ BeginRollback(p, j.did))
  <2> DEFINE ph(x) == IF j.todo = {x} THEN "validate" ELSE "check"
  <2>1. PICK x \in Paths :
          /\ Least(j.todo, x) /\ WriteSource(x, j.goal[x], g)
          /\ job' = [job EXCEPT ![p].pc = ph(x), ![p].todo = @ \ {x},
                                ![p].did = @ \cup {x}]
    BY <1>4 DEF Replace
  <2>2. /\ stage[g] = "prepared" /\ terminal[g] = "absent" /\ Records(g) = {}
        /\ files[g] = j.edits /\ after[g] = j.goal
        /\ j.todo \subseteq files[g] /\ j.did \subseteq files[g] /\ AllAfter(g)
        /\ \A y \in Paths : writer[y] = g => y \in j.did
    BY <1>0, <1>1, Phases
       DEF Knows, EvidencePhase, LoopPhase, BytesPhase, PhaseSets
  <2>3. x \in files[g]
    BY <2>1, <2>2 DEF Least
  <2>4. /\ OneRecoveryRoute' /\ EvidenceMatchesSource' /\ Pristine'
        /\ src'[x] = j.goal[x] /\ writer'[x] = g
        /\ \A y \in Paths \ {x} : src'[y] = src[y] /\ writer'[y] = writer[y]
    BY <1>1, <1>2, <2>1, <2>2, <2>3, NothingUndone, WriteGlobal
  <2>5. /\ job'[p].pc = ph(x) /\ job'[p].cur = g
        /\ job'[p].todo = j.todo \ {x} /\ job'[p].did = j.did \cup {x}
        /\ job'[p].edits = j.edits /\ job'[p].goal = j.goal
        /\ \A q \in Procs \ {p} : job'[q] = job[q]
    BY <1>1, <2>1 DEF Job, JobRecord, TypeOK
  <2>6. ph(x) \in Critical /\ ph(x) \in {"check", "validate"}
    BY Phases DEF PhaseSets
  <2>7. Moves(p)
    BY <1>2, <2>5, <2>6 DEF Moves
  <2>8. /\ UNCHANGED <<stage, files, after, terminal, rec>>
        /\ Records(g)' = Records(g)
    BY <1>2, <2>5 DEF evidence, Records
  <2>9. AllAfter(g)' /\ \A y \in Paths : writer'[y] = g => y \in j.did \cup {x}
    BY <2>2, <2>4, <2>5, <2>8 DEF AllAfter
  <2>10. EvidencePhase(job[p])'
    BY <2>2, <2>5, <2>6, <2>8, Phases DEF EvidencePhase, PhaseSets
  <2>11. LoopPhase(job[p])' /\ BytesPhase(job[p])'
    BY <2>2, <2>3, <2>5, <2>6, <2>8, <2>9, Phases
       DEF LoopPhase, BytesPhase, PhaseSets
  <2> QED
    BY <1>0, <2>4, <2>7, <2>10, <2>11, HolderStep DEF Local
<1> QED
  BY <1>3, <1>4

LEMMA VerdictStep ==
  ASSUME TypeOK, EvidenceInductive, NEW p \in Procs, Validate(p) \/ Confirm(p)
  PROVE  EvidenceInductive'
<1>0. /\ job[p].pc \in {"validate", "confirm"} /\ job[p].pc \in Critical
      /\ "confirm" \in Critical /\ "finalize" \in Critical
  BY Phases DEF Validate, Confirm, PhaseSets
<1>1. UNCHANGED <<tree, evidence, lock>>
  BY DEF Validate, Confirm
<1>2. job[p] \in Job /\ Knows(job[p]) /\ job[p].cur \in Gens
  BY <1>0, Holder DEF Knows
<1>3. ASSUME NEW ph \in {"confirm", "finalize"}, Goto(p, ph)
      PROVE  EvidenceInductive'
  <2> DEFINE j == [job[p] EXCEPT !.pc = ph]
  <2>1. /\ j.pc = ph /\ j.cur = job[p].cur
        /\ j.edits = job[p].edits /\ j.goal = job[p].goal
    BY <1>2 DEF Job, JobRecord
  <2> HIDE DEF j
  <2>2. Knows(j)
    BY <1>0, <1>2, <2>1, Phases
       DEF Knows, EvidencePhase, LoopPhase, BytesPhase, PhaseSets
  <2> QED
    BY <1>0, <1>1, <1>3, <2>2, GotoStep DEF j
<1>4. CASE BeginRollback(p, job[p].edits)
  <2>1. files[job[p].cur] = job[p].edits
    BY <1>0, <1>2, Phases DEF Knows, EvidencePhase, PhaseSets
  <2> QED
    BY <1>0, <1>1, <1>2, <1>4, <2>1, RollbackStep, WriterFiles
<1> QED
  BY <1>3, <1>4 DEF Validate, Confirm

LEMMA FinalizeStep ==
  ASSUME TypeOK, EvidenceInductive, NEW p \in Procs, Finalize(p)
  PROVE  EvidenceInductive'
<1> DEFINE g == job[p].cur
<1>0. job[p].pc = "finalize" /\ job[p].pc \in Critical
  BY Phases DEF Finalize, PhaseSets
<1>1. Knows(job[p]) /\ g \in Gens
  BY <1>0, Holder DEF Knows
<1>2. /\ stage[g] = "prepared" /\ Records(g) = {} /\ AllAfter(g)
      /\ files[g] = job[p].edits
  BY <1>0, <1>1, Phases DEF Knows, EvidencePhase, BytesPhase, PhaseSets
<1>3. UNCHANGED <<tree, stage, files, before, after, gauth, rec>>
  BY DEF Finalize
<1>4. CASE BeginRollback(p, job[p].edits) /\ UNCHANGED <<terminal, lock>>
  <2>1. UNCHANGED <<tree, evidence, lock>>
    BY <1>3, <1>4 DEF evidence
  <2> QED
    BY <1>0, <1>1, <1>2, <1>4, <2>1, RollbackStep, WriterFiles
<1>5. CASE terminal' = [terminal EXCEPT ![g] = "applied"] /\ End(p)
  <2>1. OneRecoveryRoute' /\ EvidenceMatchesSource' /\ Pristine'
    BY <1>1, <1>2, <1>3, <1>5, TerminalGlobal
  <2> QED
    BY <1>0, <1>5, <2>1, EndMoves, HolderStep
<1> QED
  BY <1>4, <1>5 DEF Finalize

LEMMA RestoreStep ==
  ASSUME TypeOK, EvidenceInductive, NEW p \in Procs, Restore(p)
  PROVE  EvidenceInductive'
<1> DEFINE j == job[p]  g == job[p].cur
<1>0. j.pc = "restore" /\ j.pc \in Critical
  BY Phases DEF Restore, PhaseSets
<1>1. j \in Job /\ Knows(j) /\ g \in Gens /\ lock = p
  BY <1>0, Holder DEF Knows
<1>2. CASE Fail(p)
  BY <1>0, <1>2, RefuseStep
<1>3. CASE ~Fail(p)
  <2> DEFINE ph(x) == IF j.todo = {x} THEN "rbverify" ELSE "restore"
  <2>1. PICK x \in Paths :
          /\ Least(j.todo, x) /\ WriteSource(x, before[g][x], g)
          /\ job' = [job EXCEPT ![p].pc = ph(x), ![p].todo = @ \ {x}]
    BY <1>3 DEF Restore
  <2>2. UNCHANGED <<evidence, lock>>
    BY <1>3 DEF Restore
  <2>3. /\ stage[g] = "prepared" /\ terminal[g] = "absent" /\ Records(g) = {}
        /\ files[g] = j.edits /\ after[g] = j.goal /\ j.todo \subseteq files[g]
        /\ \A y \in Paths :
             writer[y] = g => y \in j.todo \/ src[y] = before[g][y]
    BY <1>0, <1>1, Phases
       DEF Knows, EvidencePhase, LoopPhase, BytesPhase, PhaseSets
  <2>4. x \in files[g]
    BY <2>1, <2>3 DEF Least
  <2>5. /\ OneRecoveryRoute' /\ EvidenceMatchesSource' /\ Pristine'
        /\ src'[x] = before[g][x] /\ writer'[x] = g
        /\ \A y \in Paths \ {x} : src'[y] = src[y] /\ writer'[y] = writer[y]
    BY <1>1, <2>1, <2>2, <2>3, <2>4, NothingUndone, WriteGlobal
  <2>6. /\ job'[p].pc = ph(x) /\ job'[p].cur = g
        /\ job'[p].todo = j.todo \ {x} /\ job'[p].did = j.did
        /\ job'[p].edits = j.edits /\ job'[p].goal = j.goal
        /\ \A q \in Procs \ {p} : job'[q] = job[q]
    BY <1>1, <2>1 DEF Job, JobRecord, TypeOK
  <2>7. ph(x) \in Critical /\ ph(x) \in {"restore", "rbverify"}
    BY Phases DEF PhaseSets
  <2>8. Moves(p)
    BY <2>2, <2>6, <2>7 DEF Moves
  <2>9. /\ UNCHANGED <<stage, files, before, after, terminal, rec>>
        /\ Records(g)' = Records(g)
    BY <2>2, <2>6 DEF evidence, Records
  <2>10. \A y \in Paths : writer'[y] = g =>
           y \in j.todo \ {x} \/ src'[y] = before[g][y]
    BY <2>3, <2>5
  <2>11. EvidencePhase(job[p])'
    BY <2>3, <2>6, <2>7, <2>9, Phases DEF EvidencePhase, PhaseSets
  <2>12. LoopPhase(job[p])' /\ BytesPhase(job[p])'
    BY <2>3, <2>6, <2>7, <2>9, <2>10, Phases
       DEF LoopPhase, BytesPhase, AllBefore, PhaseSets
  <2> QED
    BY <1>0, <2>5, <2>8, <2>11, <2>12, HolderStep DEF Local
<1> QED
  BY <1>2, <1>3

LEMMA RbStep ==
  ASSUME TypeOK, EvidenceInductive, NEW p \in Procs, RbVerify(p) \/ RbPublish(p)
  PROVE  EvidenceInductive'
<1> DEFINE g == job[p].cur  j == [job[p] EXCEPT !.pc = "rbpublish"]
<1>0. /\ job[p].pc \in {"rbverify", "rbpublish"} /\ job[p].pc \in Critical
      /\ "rbpublish" \in Critical
  BY Phases DEF RbVerify, RbPublish, PhaseSets
<1>1. job[p] \in Job /\ Knows(job[p]) /\ g \in Gens
  BY <1>0, Holder DEF Knows
<1>2. CASE Refuse(p) \/ Fail(p)
  BY <1>0, <1>2, RefuseStep
<1>3. CASE Goto(p, "rbpublish") /\ UNCHANGED <<tree, evidence, lock>>
  <2>1. /\ j.pc = "rbpublish" /\ j.cur = g
        /\ j.edits = job[p].edits /\ j.goal = job[p].goal
    BY <1>1 DEF Job, JobRecord
  <2> HIDE DEF j
  <2>2. Knows(j)
    BY <1>0, <1>1, <2>1, Phases
       DEF Knows, EvidencePhase, LoopPhase, BytesPhase, PhaseSets
  <2> QED
    BY <1>0, <1>3, <2>2, GotoStep DEF j
<1>4. CASE /\ terminal' = [terminal EXCEPT ![g] = "rolled-back"] /\ End(p)
           /\ UNCHANGED <<tree, stage, files, before, after, gauth, rec>>
  <2>1. stage[g] = "prepared" /\ Records(g) = {} /\ AllBefore(g)
    BY <1>0, <1>1, Phases DEF Knows, EvidencePhase, BytesPhase, PhaseSets
  <2>2. OneRecoveryRoute' /\ EvidenceMatchesSource' /\ Pristine'
    BY <1>1, <1>4, <2>1, TerminalGlobal
  <2> QED
    BY <1>0, <1>4, <2>2, EndMoves, HolderStep
<1> QED
  BY <1>2, <1>3, <1>4 DEF RbVerify, RbPublish

LEMMA TxnInductive ==
  ASSUME TypeOK, EvidenceInductive, NEW p \in Procs, TxnStep(p)
  PROVE  EvidenceInductive'
BY AdmitStep, PrepareStep, StageStep, CheckStep, ReplaceStep, VerdictStep,
   FinalizeStep, RestoreStep, RbStep DEF TxnStep

-----------------------------------------------------------------------------
(* Steps of an interrupted recovery *)

LEMMA EndStep ==
  ASSUME TypeOK, EvidenceInductive, NEW p \in Procs, job[p].pc \in Critical,
         End(p), UNCHANGED <<tree, evidence>>
  PROVE  EvidenceInductive'
BY EndMoves, QuietStep

LEMMA ILoadStep ==
  ASSUME TypeOK, EvidenceInductive, NEW p \in Procs, ILoad(p)
  PROVE  EvidenceInductive'
<1> DEFINE g == job[p].cur
           written == {x \in files[g] : src[x] # before[g][x]}
<1>0. job[p].pc = "iload" /\ job[p].pc \in Critical
     /\ job[p].pc \in RecoveryPhases
  BY Phases DEF ILoad, PhaseSets, RecoveryPhases
<1>1. job[p] \in Job /\ g \in Gens /\ job[p].stamp \in Stamps
  BY <1>0, Holder DEF Job
<1>2. CASE Refuse(p)
  BY <1>0, <1>2, RefuseStep
<1>3. CASE ~Refuse(p)
  <2>1. PICK ph \in {"irecord", "ifinal", "icheck"}, s \in Stamps :
          /\ job' = [job EXCEPT ![p].pc = ph, ![p].stamp = s, ![p].todo = written]
          /\ UNCHANGED <<tree, evidence, lock>>
          /\ Interrupted(g)
          /\ ph = "irecord" => Records(g) = {}
          /\ ph \in {"ifinal", "icheck"} => rec[g][s] = "i-pending"
          /\ ph = "ifinal" => written = {}
    BY <1>1, <1>3 DEF ILoad, Resumable
  <2> DEFINE j == [job[p] EXCEPT !.pc = ph, !.stamp = s, !.todo = written]
  <2>2. j.pc = ph /\ j.stamp = s /\ j.todo = written /\ j.cur = g
    BY <1>1 DEF Job, JobRecord
  <2>3. job' = [job EXCEPT ![p] = j]
    BY <2>1
  <2> HIDE DEF j
  <2>4. \A x \in Paths : writer[x] = g => x \in written \/ src[x] = before[g][x]
    BY <1>1, WriterFiles
  <2>5. written \subseteq files[g]
    OBVIOUS
  <2> HIDE DEF written
  <2>6. EvidencePhase(j)
    BY <2>1, <2>2, Phases DEF EvidencePhase, PhaseSets
  <2>7. LoopPhase(j) /\ BytesPhase(j)
    BY <2>1, <2>2, <2>4, <2>5, Phases
       DEF LoopPhase, BytesPhase, AllBefore, PhaseSets
  <2>8. j.pc \in Critical
    BY <2>2, Phases DEF PhaseSets
  <2> QED
    BY <1>0, <2>1, <2>3, <2>6, <2>7, <2>8, AdvanceStep DEF Knows
<1> QED
  BY <1>2, <1>3

LEMMA IRecordStep ==
  ASSUME TypeOK, EvidenceInductive, NEW p \in Procs, IRecord(p)
  PROVE  EvidenceInductive'
<1> DEFINE g == job[p].cur  s == job[p].stamp
           ph == IF job[p].todo = {} THEN "ifinal" ELSE "icheck"
<1>0. job[p].pc = "irecord" /\ job[p].pc \in Critical /\ job[p].pc \in RecoveryPhases
  BY Phases DEF IRecord, PhaseSets, RecoveryPhases
<1>1. job[p] \in Job /\ Knows(job[p]) /\ g \in Gens /\ s \in Stamps
  BY <1>0, Holder DEF Knows, Job
<1>2. CASE Fail(p)
  BY <1>0, <1>2, RefuseStep
<1>3. CASE ~Fail(p)
  <2>1. /\ rec' = [rec EXCEPT ![g][s] = "i-pending"] /\ Goto(p, ph)
        /\ UNCHANGED <<tree, genVars, lock>>
    BY <1>3 DEF IRecord
  <2>2. ph \in Critical /\ ph \in {"ifinal", "icheck"}
    BY Phases DEF PhaseSets
  <2>3. Moves(p) /\ job'[p] = [job[p] EXCEPT !.pc = ph]
    BY <2>1, <2>2, GotoMoves
  <2>4. /\ Interrupted(g) /\ Records(g) = {} /\ job[p].todo \subseteq files[g]
        /\ \A x \in Paths :
             writer[x] = g => x \in job[p].todo \/ src[x] = before[g][x]
    BY <1>0, <1>1, Phases
       DEF Knows, EvidencePhase, LoopPhase, BytesPhase, PhaseSets
  <2>5. OneRecoveryRoute' /\ EvidenceMatchesSource' /\ Pristine'
    BY <1>1, <2>1, <2>4, RecordGlobal DEF Interrupted
  <2>6. /\ job'[p].pc = ph /\ job'[p].cur = g /\ job'[p].stamp = s
        /\ job'[p].todo = job[p].todo
    BY <1>1, <2>3 DEF Job, JobRecord
  <2>7. rec'[g][s] = "i-pending"
    BY <1>1, <2>1 DEF TypeOK
  <2>8. UNCHANGED <<src, writer, stage, files, before, terminal>>
    BY <2>1 DEF tree, genVars
  <2>9. EvidencePhase(job[p])'
    BY <2>2, <2>4, <2>6, <2>7, <2>8, Phases
       DEF EvidencePhase, Interrupted, PhaseSets
  <2>10. LoopPhase(job[p])' /\ BytesPhase(job[p])'
    BY <2>2, <2>4, <2>6, <2>8, Phases
       DEF LoopPhase, BytesPhase, AllBefore, PhaseSets
  <2> QED
    BY <1>0, <2>3, <2>5, <2>9, <2>10, HolderStep DEF Local
<1> QED
  BY <1>2, <1>3

\* The checks before a write and before the record is published.
LEMMA ICheckStep ==
  ASSUME TypeOK, EvidenceInductive, NEW p \in Procs, ICheck(p) \/ IFinal(p)
  PROVE  EvidenceInductive'
<1>0. /\ job[p].pc \in {"icheck", "ifinal"} /\ job[p].pc \in Critical
      /\ "iwrite" \in Critical /\ "ipublish" \in Critical
  BY Phases DEF ICheck, IFinal, PhaseSets
<1>1. job[p] \in Job /\ Knows(job[p])
  BY <1>0, Holder DEF Knows
<1>2. UNCHANGED <<tree, evidence>>
  BY DEF ICheck, IFinal
<1>3. CASE End(p)
  BY <1>0, <1>2, <1>3, EndStep
<1>4. ASSUME NEW ph \in {"iwrite", "ipublish"}, Goto(p, ph), UNCHANGED lock,
             ph = "iwrite" <=> job[p].pc = "icheck"
      PROVE  EvidenceInductive'
  <2> DEFINE j == [job[p] EXCEPT !.pc = ph]
  <2>1. /\ j.pc = ph /\ j.cur = job[p].cur /\ j.stamp = job[p].stamp
        /\ j.todo = job[p].todo
    BY <1>1 DEF Job, JobRecord
  <2> HIDE DEF j
  <2>2. Knows(j)
    BY <1>0, <1>1, <1>4, <2>1, Phases
       DEF Knows, EvidencePhase, LoopPhase, BytesPhase, PhaseSets
  <2> QED
    BY <1>0, <1>2, <1>4, <2>2, GotoStep DEF j
<1> QED
  BY <1>3, <1>4 DEF ICheck, IFinal

LEMMA IWriteStep ==
  ASSUME TypeOK, EvidenceInductive, NEW p \in Procs, IWrite(p)
  PROVE  EvidenceInductive'
<1> DEFINE j == job[p]  g == job[p].cur
<1>0. j.pc = "iwrite" /\ j.pc \in Critical
  BY Phases DEF IWrite, PhaseSets
<1>1. j \in Job /\ Knows(j) /\ g \in Gens /\ lock = p
  BY <1>0, Holder DEF Knows
<1>2. CASE Fail(p) \/ Refuse(p)
  BY <1>0, <1>2, RefuseStep
<1>3. CASE ~Fail(p) /\ ~Refuse(p)
  <2> DEFINE ph(x) == IF j.todo = {x} THEN "ifinal" ELSE "icheck"
  <2>1. PICK x \in Paths :
          /\ Least(j.todo, x) /\ WriteSource(x, before[g][x], g)
          /\ job' = [job EXCEPT ![p].pc = ph(x), ![p].todo = @ \ {x}]
    BY <1>3 DEF IWrite
  <2>2. UNCHANGED <<evidence, lock>>
    BY <1>3 DEF IWrite
  <2>3. /\ Interrupted(g) /\ rec[g][j.stamp] = "i-pending"
        /\ j.todo \subseteq files[g]
        /\ \A y \in Paths :
             writer[y] = g => y \in j.todo \/ src[y] = before[g][y]
    BY <1>0, <1>1, Phases
       DEF Knows, EvidencePhase, LoopPhase, BytesPhase, PhaseSets
  <2>4. x \in files[g] /\ stage[g] = "prepared" /\ terminal[g] = "absent"
    BY <2>1, <2>3 DEF Least, Interrupted
  <2>5. /\ OneRecoveryRoute' /\ EvidenceMatchesSource' /\ Pristine'
        /\ src'[x] = before[g][x] /\ writer'[x] = g
        /\ \A y \in Paths \ {x} : src'[y] = src[y] /\ writer'[y] = writer[y]
    BY <1>1, <2>1, <2>2, <2>4, WriteGlobal
  <2>6. /\ job'[p].pc = ph(x) /\ job'[p].cur = g /\ job'[p].stamp = j.stamp
        /\ job'[p].todo = j.todo \ {x}
        /\ \A q \in Procs \ {p} : job'[q] = job[q]
    BY <1>1, <2>1 DEF Job, JobRecord, TypeOK
  <2>7. ph(x) \in Critical /\ ph(x) \in {"ifinal", "icheck"}
    BY Phases DEF PhaseSets
  <2>8. Moves(p)
    BY <2>2, <2>6, <2>7 DEF Moves
  <2>9. UNCHANGED <<stage, files, before, after, terminal, rec>>
    BY <2>2 DEF evidence
  <2>10. \A y \in Paths : writer'[y] = g =>
           y \in j.todo \ {x} \/ src'[y] = before[g][y]
    BY <2>3, <2>5
  <2>11. EvidencePhase(job[p])'
    BY <2>3, <2>6, <2>7, <2>9, Phases DEF EvidencePhase, Interrupted, PhaseSets
  <2>12. LoopPhase(job[p])' /\ BytesPhase(job[p])'
    BY <2>3, <2>6, <2>7, <2>9, <2>10, Phases
       DEF LoopPhase, BytesPhase, AllBefore, PhaseSets
  <2> QED
    BY <1>0, <2>5, <2>8, <2>11, <2>12, HolderStep DEF Local
<1> QED
  BY <1>2, <1>3

LEMMA IPublishStep ==
  ASSUME TypeOK, EvidenceInductive, NEW p \in Procs, IPublish(p)
  PROVE  EvidenceInductive'
<1> DEFINE g == job[p].cur  s == job[p].stamp
<1>0. job[p].pc = "ipublish" /\ job[p].pc \in Critical /\ job[p].pc \in RecoveryPhases
  BY Phases DEF IPublish, PhaseSets, RecoveryPhases
<1>1. Knows(job[p]) /\ g \in Gens /\ s \in Stamps
  BY <1>0, Holder DEF Knows, Job
<1>2. CASE Fail(p)
  BY <1>0, <1>2, RefuseStep
<1>3. CASE ~Fail(p)
  <2>1. /\ rec' = [rec EXCEPT ![g][s] = "i-done"] /\ End(p)
        /\ UNCHANGED <<tree, genVars>>
    BY <1>3 DEF IPublish
  <2>2. Interrupted(g) /\ rec[g][s] = "i-pending" /\ AllBefore(g)
    BY <1>0, <1>1, Phases DEF Knows, EvidencePhase, BytesPhase, PhaseSets
  <2>3. Records(g) \subseteq {s}
    BY <1>1, <2>2 DEF EvidenceInductive, OneRecoveryRoute, Interrupted, Records
  <2>4. OneRecoveryRoute' /\ EvidenceMatchesSource' /\ Pristine'
    BY <1>1, <2>1, <2>2, <2>3, RecordGlobal DEF Interrupted
  <2> QED
    BY <1>0, <2>1, <2>4, EndMoves, HolderStep
<1> QED
  BY <1>2, <1>3

LEMMA IntInductive ==
  ASSUME TypeOK, EvidenceInductive, NEW p \in Procs, IntStep(p)
  PROVE  EvidenceInductive'
BY ILoadStep, IRecordStep, ICheckStep, IWriteStep, IPublishStep DEF IntStep

-----------------------------------------------------------------------------
(* Steps of a completed recovery *)

\* What an attempt knows once its record is open: nothing calls it undone yet.
LEMMA OpenRecord ==
  ASSUME TypeOK, EvidenceInductive, NEW p \in Procs,
         job[p].pc \in CmpPhases \ {"cload", "crecord"}
  PROVE  /\ stage[job[p].cur] = "prepared" /\ terminal[job[p].cur] # "absent"
         /\ rec[job[p].cur][job[p].stamp] = "c-pending"
         /\ job[p].stamp \in Records(job[p].cur) /\ ~Undone(job[p].cur)
<1> DEFINE g == job[p].cur  s == job[p].stamp
<1>0. job[p].pc \in Critical /\ job[p].pc \in RecoveryPhases
  BY Phases DEF PhaseSets, RecoveryPhases
<1>1. job[p] \in Job /\ Knows(job[p]) /\ g \in Gens /\ s \in Stamps
  BY <1>0, Holder DEF Knows, Job
<1>2. stage[g] = "prepared" /\ terminal[g] # "absent" /\ rec[g][s] = "c-pending"
  BY <1>1 DEF Knows, EvidencePhase
<1>3. s \in Records(g)
  BY <1>1, <1>2 DEF Records
<1>4. ~Recovered(g)
  BY <1>1, <1>2 DEF EvidenceInductive, OneRecoveryRoute, Recovered, Records
<1> QED
  BY <1>2, <1>3, <1>4 DEF Undone

\* An attempt that failed starts to undo what it staged.
LEMMA UndoStep ==
  ASSUME TypeOK, EvidenceInductive, NEW p \in Procs,
         job[p].pc \in {"cpreflight", "crestore", "cverify", "cdrop", "cpublish"},
         BeginUndo(p), UNCHANGED <<tree, evidence>>
  PROVE  EvidenceInductive'
<1>0. job[p].pc \in Critical /\ "cundo" \in Critical
  BY Phases DEF PhaseSets
<1>1. job[p] \in Job /\ Knows(job[p])
  BY <1>0, Holder DEF Knows
<1>2. CASE job[p].did = {}
  BY <1>0, <1>2, EndStep DEF BeginUndo
<1>3. CASE job[p].did # {}
  <2> DEFINE j == [job[p] EXCEPT !.pc = "cundo"]
  <2>1. /\ j.pc = "cundo" /\ j.cur = job[p].cur /\ j.stamp = job[p].stamp
        /\ j.did = job[p].did
    BY <1>1 DEF Job, JobRecord
  <2> HIDE DEF j
  <2>2. EvidencePhase(j)
    BY <1>1, <2>1, Phases DEF Knows, EvidencePhase, PhaseSets
  <2>3. job[p].did \subseteq files[job[p].cur]
    BY <1>1, <1>3, Phases DEF Knows, LoopPhase, PhaseSets
  <2>4. LoopPhase(j) /\ BytesPhase(j)
    BY <2>1, <2>3, Phases DEF LoopPhase, BytesPhase, PhaseSets
  <2>5. Goto(p, "cundo") /\ UNCHANGED lock
    BY <1>3 DEF BeginUndo
  <2> QED
    BY <1>0, <2>2, <2>4, <2>5, GotoStep DEF Knows, j
<1> QED
  BY <1>2, <1>3

LEMMA CLoadStep ==
  ASSUME TypeOK, EvidenceInductive, NEW p \in Procs, CLoad(p)
  PROVE  EvidenceInductive'
<1> DEFINE g == job[p].cur  j == [job[p] EXCEPT !.pc = "crecord"]
<1>0. /\ job[p].pc = "cload" /\ job[p].pc \in Critical /\ "crecord" \in Critical
  BY Phases DEF CLoad, PhaseSets
<1>1. job[p] \in Job /\ Knows(job[p]) /\ g \in Gens
  BY <1>0, Holder DEF Knows
<1>2. CASE Refuse(p)
  BY <1>0, <1>2, RefuseStep
<1>3. CASE ~Refuse(p)
  <2>1. /\ terminal[g] # "absent" /\ Goto(p, "crecord")
        /\ UNCHANGED <<tree, evidence, lock>>
    BY <1>3 DEF CLoad
  <2>2. stage[g] = "prepared"
    BY <1>1, <2>1 DEF EvidenceInductive, Pristine
  <2>3. j.pc = "crecord" /\ j.cur = g /\ j.did = job[p].did
    BY <1>1 DEF Job, JobRecord
  <2> HIDE DEF j
  <2>4. Knows(j)
    BY <1>0, <1>1, <2>1, <2>2, <2>3, Phases
       DEF Knows, EvidencePhase, LoopPhase, BytesPhase, PhaseSets
  <2> QED
    BY <1>0, <2>1, <2>4, GotoStep DEF j
<1> QED
  BY <1>2, <1>3

LEMMA CRecordStep ==
  ASSUME TypeOK, EvidenceInductive, NEW p \in Procs, CRecord(p)
  PROVE  EvidenceInductive'
<1> DEFINE g == job[p].cur  s == job[p].stamp
<1>0. job[p].pc = "crecord" /\ job[p].pc \in Critical /\ job[p].pc \in RecoveryPhases
  BY Phases DEF CRecord, PhaseSets, RecoveryPhases
<1>1. job[p] \in Job /\ Knows(job[p]) /\ g \in Gens /\ s \in Stamps
  BY <1>0, Holder DEF Knows, Job
<1>2. CASE Refuse(p)
  BY <1>0, <1>2, RefuseStep
<1>3. CASE ~Refuse(p)
  <2>1. PICK v \in {"c-dir", "c-pending"} :
          /\ rec' = [rec EXCEPT ![g][s] = v]
          /\ UNCHANGED <<tree, genVars>>
          /\ \/ v = "c-dir" /\ End(p)
             \/ v = "c-pending" /\ Goto(p, "cpreflight") /\ UNCHANGED lock
    BY <1>3 DEF CRecord
  <2>2. stage[g] = "prepared" /\ terminal[g] # "absent" /\ job[p].did = {}
    BY <1>0, <1>1, Phases DEF Knows, EvidencePhase, LoopPhase, PhaseSets
  <2>3. OneRecoveryRoute' /\ EvidenceMatchesSource' /\ Pristine'
    BY <1>1, <2>1, <2>2, RecordGlobal
  <2>4. CASE End(p)
    BY <1>0, <2>3, <2>4, EndMoves, HolderStep
  <2>5. CASE v = "c-pending" /\ Goto(p, "cpreflight") /\ UNCHANGED lock
    <3>1. "cpreflight" \in Critical
      BY Phases DEF PhaseSets
    <3>2. Moves(p) /\ job'[p] = [job[p] EXCEPT !.pc = "cpreflight"]
      BY <2>5, <3>1, GotoMoves
    <3>3. /\ job'[p].pc = "cpreflight" /\ job'[p].cur = g /\ job'[p].stamp = s
          /\ job'[p].did = {}
      BY <1>1, <2>2, <3>2 DEF Job, JobRecord
    <3>4. rec'[g][s] = "c-pending" /\ UNCHANGED <<stage, terminal>>
      BY <1>1, <2>1, <2>5 DEF TypeOK, genVars
    <3>5. Local(p)'
      BY <2>2, <3>3, <3>4, Phases
         DEF Local, EvidencePhase, LoopPhase, BytesPhase, PhaseSets
    <3> QED
      BY <1>0, <2>3, <3>2, <3>5, HolderStep
  <2> QED
    BY <2>1, <2>4, <2>5
<1> QED
  BY <1>2, <1>3

LEMMA CPreflightStep ==
  ASSUME TypeOK, EvidenceInductive, NEW p \in Procs, CPreflight(p)
  PROVE  EvidenceInductive'
<1> DEFINE g == job[p].cur
           j == [job[p] EXCEPT !.pc = "crestore", !.todo = files[g]]
<1>0. /\ job[p].pc = "cpreflight" /\ job[p].pc \in Critical
      /\ "crestore" \in Critical /\ job[p].pc \in CmpPhases \ {"cload", "crecord"}
  BY Phases DEF CPreflight, PhaseSets
<1>1. job[p] \in Job /\ Knows(job[p]) /\ g \in Gens
  BY <1>0, Holder DEF Knows
<1>2. UNCHANGED <<tree, evidence>>
  BY DEF CPreflight
<1>3. CASE BeginUndo(p)
  BY <1>0, <1>2, <1>3, UndoStep
<1>4. CASE /\ job' = [job EXCEPT ![p].pc = "crestore", ![p].todo = files[g]]
           /\ UNCHANGED lock
  <2>1. /\ j.pc = "crestore" /\ j.cur = g /\ j.stamp = job[p].stamp
        /\ j.did = job[p].did /\ j.todo = files[g]
    BY <1>1 DEF Job, JobRecord
  <2>2. job' = [job EXCEPT ![p] = j]
    BY <1>4
  <2> HIDE DEF j
  <2>3. \A x \in Paths : writer[x] = g => x \in files[g]
    BY <1>1, WriterFiles
  <2>4. job[p].did = {}
    BY <1>0, <1>1, Phases DEF Knows, LoopPhase, PhaseSets
  <2>5. EvidencePhase(j)
    BY <1>0, <2>1, OpenRecord, Phases DEF EvidencePhase, PhaseSets
  <2>6. LoopPhase(j) /\ BytesPhase(j)
    BY <2>1, <2>3, <2>4, Phases DEF LoopPhase, BytesPhase, PhaseSets
  <2> QED
    BY <1>0, <1>2, <1>4, <2>1, <2>2, <2>5, <2>6, AdvanceStep DEF Knows
<1> QED
  BY <1>3, <1>4 DEF CPreflight

LEMMA CRestoreStep ==
  ASSUME TypeOK, EvidenceInductive, NEW p \in Procs, CRestore(p)
  PROVE  EvidenceInductive'
<1> DEFINE j == job[p]  g == job[p].cur
<1>0. /\ j.pc = "crestore" /\ j.pc \in Critical
      /\ j.pc \in CmpPhases \ {"cload", "crecord"}
  BY Phases DEF CRestore, PhaseSets
<1>1. j \in Job /\ Knows(j) /\ g \in Gens /\ lock = p
  BY <1>0, Holder DEF Knows
<1>2. UNCHANGED evidence
  BY DEF CRestore
<1>3. CASE BeginUndo(p) /\ UNCHANGED tree
  BY <1>0, <1>2, <1>3, UndoStep
<1>4. CASE ~(BeginUndo(p) /\ UNCHANGED tree)
  <2> DEFINE ph(x) == IF j.todo = {x} THEN "cverify" ELSE "crestore"
  <2>1. PICK x \in Paths :
          /\ Least(j.todo, x) /\ WriteSource(x, before[g][x], g)
          /\ job' = [job EXCEPT ![p].pc = ph(x), ![p].todo = @ \ {x},
               ![p].did = @ \cup {x},
               ![p].held = [@ EXCEPT ![x] =
                 IF before[g][x] = Absent THEN src[x] ELSE Absent]]
          /\ UNCHANGED lock
    BY <1>4 DEF CRestore
  <2>2. /\ j.todo \subseteq files[g] /\ j.did \subseteq files[g]
        /\ \A y \in Paths :
             writer[y] = g => y \in j.todo \/ src[y] = before[g][y]
    BY <1>0, <1>1, Phases DEF Knows, LoopPhase, BytesPhase, PhaseSets
  <2>3. /\ x \in files[g] /\ stage[g] = "prepared" /\ terminal[g] # "absent"
        /\ rec[g][j.stamp] = "c-pending" /\ Records(g) # {}
    BY <1>0, <2>1, <2>2, OpenRecord DEF Least
  <2>4. /\ OneRecoveryRoute' /\ EvidenceMatchesSource' /\ Pristine'
        /\ src'[x] = before[g][x] /\ writer'[x] = g
        /\ \A y \in Paths \ {x} : src'[y] = src[y] /\ writer'[y] = writer[y]
    BY <1>1, <1>2, <2>1, <2>3, WriteGlobal
  <2>5. /\ job'[p].pc = ph(x) /\ job'[p].cur = g /\ job'[p].stamp = j.stamp
        /\ job'[p].todo = j.todo \ {x} /\ job'[p].did = j.did \cup {x}
        /\ \A q \in Procs \ {p} : job'[q] = job[q]
    BY <1>1, <2>1 DEF Job, JobRecord, TypeOK
  <2>6. ph(x) \in Critical /\ ph(x) \in {"cverify", "crestore"}
    BY Phases DEF PhaseSets
  <2>7. Moves(p)
    BY <2>1, <2>5, <2>6 DEF Moves
  <2>8. UNCHANGED <<stage, files, before, after, terminal, rec>>
    BY <1>2 DEF evidence
  <2>9. \A y \in Paths : writer'[y] = g =>
          y \in j.todo \ {x} \/ src'[y] = before[g][y]
    BY <2>2, <2>4
  <2>10. EvidencePhase(job[p])'
    BY <2>3, <2>5, <2>6, <2>8, Phases DEF EvidencePhase, PhaseSets
  <2>11. LoopPhase(job[p])' /\ BytesPhase(job[p])'
    BY <2>2, <2>3, <2>5, <2>6, <2>8, <2>9, Phases
       DEF LoopPhase, BytesPhase, AllBefore, PhaseSets
  <2> QED
    BY <1>0, <2>4, <2>7, <2>10, <2>11, HolderStep DEF Local
<1> QED
  BY <1>3, <1>4

LEMMA CVerifyStep ==
  ASSUME TypeOK, EvidenceInductive, NEW p \in Procs, CVerify(p)
  PROVE  EvidenceInductive'
<1> DEFINE j == [job[p] EXCEPT !.pc = "cdrop"]
<1>0. job[p].pc = "cverify" /\ job[p].pc \in Critical /\ "cdrop" \in Critical
  BY Phases DEF CVerify, PhaseSets
<1>1. job[p] \in Job /\ Knows(job[p])
  BY <1>0, Holder DEF Knows
<1>2. UNCHANGED <<tree, evidence>>
  BY DEF CVerify
<1>3. CASE BeginUndo(p)
  BY <1>0, <1>2, <1>3, UndoStep
<1>4. CASE Goto(p, "cdrop") /\ UNCHANGED lock
  <2>1. /\ j.pc = "cdrop" /\ j.cur = job[p].cur /\ j.stamp = job[p].stamp
        /\ j.did = job[p].did
    BY <1>1 DEF Job, JobRecord
  <2> HIDE DEF j
  <2>2. Knows(j)
    BY <1>0, <1>1, <2>1, Phases
       DEF Knows, EvidencePhase, LoopPhase, BytesPhase, PhaseSets
  <2> QED
    BY <1>0, <1>2, <1>4, <2>2, GotoStep DEF j
<1> QED
  BY <1>3, <1>4 DEF CVerify

LEMMA CDropStep ==
  ASSUME TypeOK, EvidenceInductive, NEW p \in Procs, CDrop(p)
  PROVE  EvidenceInductive'
<1>0. job[p].pc = "cdrop" /\ job[p].pc \in Critical
  BY Phases DEF CDrop, PhaseSets
<1>1. job[p] \in Job /\ Knows(job[p])
  BY <1>0, Holder DEF Knows
<1>2. PICK ph, h :
        /\ ph \in {"cundo", "cpublish"}
        /\ job' = [job EXCEPT ![p].pc = ph, ![p].held = h]
  BY DEF CDrop
<1>3. UNCHANGED <<tree, evidence, lock>>
  BY DEF CDrop
<1> DEFINE j == [job[p] EXCEPT !.pc = ph, !.held = h]
<1>4. /\ j.pc = ph /\ j.cur = job[p].cur /\ j.stamp = job[p].stamp
      /\ j.did = job[p].did
  BY <1>1 DEF Job, JobRecord
<1>5. job' = [job EXCEPT ![p] = j]
  BY <1>2
<1> HIDE DEF j
<1>6. j.pc \in Critical
  BY <1>2, <1>4, Phases DEF PhaseSets
<1>7. Knows(j)
  BY <1>0, <1>1, <1>2, <1>4, Phases
     DEF Knows, EvidencePhase, LoopPhase, BytesPhase, PhaseSets
<1> QED
  BY <1>0, <1>3, <1>5, <1>6, <1>7, AdvanceStep

LEMMA CPublishStep ==
  ASSUME TypeOK, EvidenceInductive, NEW p \in Procs, CPublish(p)
  PROVE  EvidenceInductive'
<1> DEFINE g == job[p].cur  s == job[p].stamp
<1>0. /\ job[p].pc = "cpublish" /\ job[p].pc \in Critical
      /\ job[p].pc \in CmpPhases \ {"cload", "crecord"}
      /\ job[p].pc \in RecoveryPhases
  BY Phases DEF CPublish, PhaseSets, RecoveryPhases
<1>1. Knows(job[p]) /\ g \in Gens /\ s \in Stamps
  BY <1>0, Holder DEF Knows, Job
<1>2. UNCHANGED <<tree, genVars>>
  BY DEF CPublish
<1>3. CASE BeginUndo(p) /\ UNCHANGED rec
  <2>1. UNCHANGED <<tree, evidence>>
    BY <1>2, <1>3 DEF genVars, evidence
  <2> QED
    BY <1>0, <1>3, <2>1, UndoStep
<1>4. CASE rec' = [rec EXCEPT ![g][s] = "c-done"] /\ End(p)
  <2>1. stage[g] = "prepared" /\ terminal[g] # "absent" /\ AllBefore(g)
    BY <1>0, <1>1, OpenRecord, Phases DEF Knows, BytesPhase, PhaseSets
  <2>2. OneRecoveryRoute' /\ EvidenceMatchesSource' /\ Pristine'
    BY <1>1, <1>2, <1>4, <2>1, RecordGlobal
  <2> QED
    BY <1>0, <1>4, <2>2, EndMoves, HolderStep
<1> QED
  BY <1>3, <1>4 DEF CPublish

\* Bytes of an author, new or put back, are attributed to no generation.
LEMMA AuthorGlobal ==
  ASSUME TypeOK, EvidenceInductive, NEW x \in Paths, NEW c,
         WriteSource(x, c, Author), UNCHANGED evidence
  PROVE  /\ OneRecoveryRoute' /\ EvidenceMatchesSource' /\ Pristine'
         /\ writer'[x] = Author
         /\ \A y \in Paths \ {x} : src'[y] = src[y] /\ writer'[y] = writer[y]
<1>1. /\ writer'[x] = Author
      /\ \A y \in Paths \ {x} : src'[y] = src[y] /\ writer'[y] = writer[y]
  BY DEF WriteSource, TypeOK
<1>2. UNCHANGED <<stage, files, before, after, gauth, terminal, rec>>
  BY DEF evidence
<1>3. \A h : Undone(h)' = Undone(h) /\ Records(h)' = Records(h)
  BY <1>2 DEF Undone, Records, Recovered
<1>4. OneRecoveryRoute'
  BY <1>2, <1>3 DEF EvidenceInductive, OneRecoveryRoute
<1>5. EvidenceMatchesSource'
  BY <1>1, <1>2, <1>3
     DEF EvidenceInductive, EvidenceMatchesSource, AttributedBytesMatch
<1>6. Pristine'
  BY <1>1, <1>2, <1>3, AuthorAssumption DEF EvidenceInductive, Pristine
<1> QED
  BY <1>1, <1>4, <1>5, <1>6

LEMMA CUndoStep ==
  ASSUME TypeOK, EvidenceInductive, NEW p \in Procs, CUndo(p)
  PROVE  EvidenceInductive'
<1> DEFINE j == job[p]  g == job[p].cur
<1>0. /\ j.pc = "cundo" /\ j.pc \in Critical
      /\ j.pc \in CmpPhases \ {"cload", "crecord"}
  BY Phases DEF CUndo, PhaseSets
<1>1. j \in Job /\ Knows(j) /\ g \in Gens /\ lock = p
  BY <1>0, Holder DEF Knows
<1>2. CASE Fail(p)
  BY <1>0, <1>2, RefuseStep
<1>3. CASE ~Fail(p)
  <2> DEFINE bytes(x) == IF j.held[x] # Absent THEN j.held[x] ELSE after[g][x]
  <2>1. PICK x \in Paths :
          /\ Greatest(j.did, x)
          /\ WriteSource(x, bytes(x), IF bytes(x) = after[g][x] THEN g ELSE Author)
          /\ IF j.did = {x} THEN End(p)
             ELSE job' = [job EXCEPT ![p].did = @ \ {x}] /\ UNCHANGED lock
    BY <1>3 DEF CUndo
  <2>2. UNCHANGED evidence
    BY <1>3 DEF CUndo
  <2>3. /\ j.did \subseteq files[g] /\ x \in files[g] /\ stage[g] = "prepared"
        /\ terminal[g] # "absent" /\ ~Undone(g) /\ Records(g) # {}
        /\ rec[g][j.stamp] = "c-pending"
    BY <1>0, <1>1, <2>1, OpenRecord, Phases
       DEF Knows, LoopPhase, Greatest, PhaseSets
  <2>4. OneRecoveryRoute' /\ EvidenceMatchesSource' /\ Pristine'
    <3>1. CASE bytes(x) = after[g][x]
      BY <1>1, <2>1, <2>2, <2>3, <3>1, WriteGlobal
    <3>2. CASE bytes(x) # after[g][x]
      BY <2>1, <2>2, <3>2, AuthorGlobal
    <3> QED
      BY <3>1, <3>2
  <2>5. CASE End(p)
    BY <1>0, <2>4, <2>5, EndMoves, HolderStep
  <2>6. CASE job' = [job EXCEPT ![p].did = @ \ {x}] /\ UNCHANGED lock
    <3>1. /\ job'[p].pc = "cundo" /\ job'[p].cur = g /\ job'[p].stamp = j.stamp
          /\ job'[p].did = j.did \ {x}
          /\ \A q \in Procs \ {p} : job'[q] = job[q]
      BY <1>0, <1>1, <2>6 DEF Job, JobRecord, TypeOK
    <3>2. Moves(p)
      BY <1>0, <2>6, <3>1 DEF Moves
    <3>3. UNCHANGED <<stage, files, terminal, rec>>
      BY <2>2 DEF evidence
    <3>4. Local(p)'
      BY <2>3, <3>1, <3>3, Phases
         DEF Local, EvidencePhase, LoopPhase, BytesPhase, PhaseSets
    <3> QED
      BY <1>0, <2>4, <3>2, <3>4, HolderStep
  <2> QED
    BY <2>1, <2>5, <2>6
<1> QED
  BY <1>2, <1>3

LEMMA CmpInductive ==
  ASSUME TypeOK, EvidenceInductive, NEW p \in Procs, CmpStep(p)
  PROVE  EvidenceInductive'
BY CLoadStep, CRecordStep, CPreflightStep, CRestoreStep, CVerifyStep,
   CDropStep, CPublishStep, CUndoStep DEF CmpStep

-----------------------------------------------------------------------------
(* Steps outside the lock, the environment and the theorems *)

\* Without an effect on tree or evidence, what a job knows stays true.
LEMMA KnowledgeStays ==
  ASSUME EvidenceInductive, UNCHANGED <<tree, evidence>>, NEW q \in Procs,
         job'[q] = job[q]
  PROVE  Local(q)'
<1>1. UNCHANGED <<src, writer, stage, files, before, after, terminal, rec>>
  BY DEF tree, evidence
<1> QED
  BY <1>1 DEF EvidenceInductive, Local, EvidencePhase, LoopPhase, BytesPhase,
              NoneOf, AllAfter, AllBefore, Records, Interrupted

\* A command that is not under the lock starts, waits or gives up.
LEMMA OutsideStep ==
  ASSUME TypeOK, EvidenceInductive, NEW p \in Procs, job[p].pc \notin Critical,
         \A q \in Procs \ {p} : job'[q] = job[q],
         job'[p].pc \notin Critical, LoopPhase(job[p])',
         UNCHANGED <<tree, evidence, lock>>
  PROVE  EvidenceInductive'
<1>1. EvidencePhase(job[p])' /\ BytesPhase(job[p])'
  BY Phases DEF EvidencePhase, BytesPhase, PhaseSets
<1>2. \A q \in Procs : Local(q)'
  BY <1>1, KnowledgeStays DEF Local
<1>3. LockExclusion'
  BY DEF EvidenceInductive, LockExclusion
<1> QED
  BY <1>2, <1>3, QuietGlobal DEF EvidenceInductive

LEMMA StartInductive ==
  ASSUME TypeOK, EvidenceInductive, NEW p \in Procs, Start(p)
  PROVE  EvidenceInductive'
<1>1. job[p].pc = "idle" /\ UNCHANGED <<tree, evidence, lock>>
  BY DEF Start, Plan, IStart, CStart
<1>2. job'[p].pc \in Waiting /\ job'[p].did = {}
  <2>1. CASE Plan(p)
    <3>1. PICK g, pin, E, G, goal : Declare(p, g, pin, E, G, goal)
      BY <2>1 DEF Plan
    <3>2. job' = [job EXCEPT ![p] =
            [Idle EXCEPT !.pc = "planned", !.cur = g, !.pin = pin,
               !.edits = E, !.guards = G, !.view = Only(E \cup G, src),
               !.goal = [x \in Paths |-> IF x \in E THEN goal[x] ELSE Absent]]]
      BY <3>1 DEF Declare
    <3>3. job'[p] = [Idle EXCEPT !.pc = "planned", !.cur = g, !.pin = pin,
               !.edits = E, !.guards = G, !.view = Only(E \cup G, src),
               !.goal = [x \in Paths |-> IF x \in E THEN goal[x] ELSE Absent]]
      BY <3>2 DEF TypeOK
    <3> QED
      BY <3>3, Phases DEF Idle, PhaseSets
  <2>2. ASSUME NEW ph \in {"iwait", "cwait"}, NEW g, NEW s, NEW pin,
               job' = [job EXCEPT ![p] = [Idle EXCEPT !.pc = ph, !.cur = g,
                                                !.stamp = s, !.pin = pin]]
        PROVE  job'[p].pc \in Waiting /\ job'[p].did = {}
    BY <2>2, Phases DEF Idle, PhaseSets, TypeOK
  <2> QED
    BY <2>1, <2>2 DEF Start, IStart, CStart
<1>3. \A q \in Procs \ {p} : job'[q] = job[q]
  BY DEF Start, Plan, Declare, IStart, CStart, TypeOK
<1>4. job[p].pc \notin Critical /\ job'[p].pc \notin Critical
  BY <1>1, <1>2, Phases DEF PhaseSets
<1>5. LoopPhase(job[p])'
  BY <1>2, Phases DEF LoopPhase, PhaseSets
<1> QED
  BY <1>1, <1>3, <1>4, <1>5, OutsideStep

LEMMA WaitingInductive ==
  ASSUME TypeOK, EvidenceInductive, NEW p \in Procs, Lock(p) \/ LockBusy(p)
  PROVE  EvidenceInductive'
<1>1. job[p].pc \in Waiting /\ job[p].pc \notin Critical
  BY Phases DEF Lock, LockBusy, PhaseSets
<1>2. UNCHANGED <<tree, evidence>>
  BY DEF Lock, LockBusy
<1>3. CASE LockBusy(p)
  <2>1. job'[p] = Idle /\ \A q \in Procs \ {p} : job'[q] = job[q]
    BY <1>3 DEF LockBusy, TypeOK
  <2>2. job'[p].pc \notin Critical /\ LoopPhase(job[p])'
    BY <2>1, Phases DEF Idle, LoopPhase, PhaseSets
  <2> QED
    BY <1>1, <1>2, <1>3, <2>1, <2>2, OutsideStep DEF LockBusy
<1>4. CASE Lock(p)
  <2> DEFINE ph == Entry[job[p].pc]
             j == [job[p] EXCEPT !.pc = ph]
  <2>1. ph \in {"admit", "iload", "cload"} /\ ph \in Critical
    BY <1>1, Phases DEF Entry, PhaseSets
  <2>2. job[p] \in Job /\ LoopPhase(job[p])
    BY DEF TypeOK, EvidenceInductive, Local
  <2>3. job' = [job EXCEPT ![p] = j]
    BY <1>4, Zenon DEF Lock, Goto
  <2>4. /\ job'[p] = j /\ j.pc = ph /\ j.did = job[p].did
        /\ \A q \in Procs \ {p} : job'[q] = job[q]
    BY <2>2, <2>3 DEF Job, JobRecord, TypeOK
  <2>5. (ph = "cload" <=> job[p].pc = "cwait") /\ (ph = "admit" <=> job[p].pc = "planned")
    BY <1>1, Phases DEF Entry, PhaseSets
  <2> HIDE DEF ph, j
  <2>6. EvidencePhase(job[p])' /\ LoopPhase(job[p])' /\ BytesPhase(job[p])'
    BY <2>1, <2>2, <2>4, <2>5, Phases
       DEF EvidencePhase, LoopPhase, BytesPhase, PhaseSets
  <2>7. \A q \in Procs : Local(q)'
    BY <1>2, <2>4, <2>6, KnowledgeStays DEF Local
  <2>8. lock = NoProc /\ lock' = p
    BY <1>4 DEF Lock
  <2>9. \A q \in Procs : job[q].pc \notin Critical
    BY <2>8, NoProcAssumption DEF EvidenceInductive, LockExclusion
  <2>10. LockExclusion'
    BY <2>1, <2>4, <2>8, <2>9 DEF LockExclusion
  <2> QED
    BY <1>2, <2>7, <2>10, QuietGlobal DEF EvidenceInductive
<1> QED
  BY <1>3, <1>4

LEMMA CrashInductive ==
  ASSUME TypeOK, EvidenceInductive, NEW p \in Procs, Crash(p)
  PROVE  EvidenceInductive'
<1>1. /\ job'[p] = Idle /\ \A q \in Procs \ {p} : job'[q] = job[q]
      /\ lock' = (IF lock = p THEN NoProc ELSE lock)
      /\ UNCHANGED <<tree, evidence>>
  BY DEF Crash, TypeOK
<1>2. CASE job[p].pc \in Critical
  <2>1. lock' = NoProc
    BY <1>1, <1>2 DEF EvidenceInductive, LockExclusion
  <2> QED
    BY <1>1, <1>2, <2>1, QuietStep DEF Moves
<1>3. CASE job[p].pc \notin Critical
  <2>1. lock' = lock
    BY <1>1, <1>3 DEF EvidenceInductive, LockExclusion
  <2>2. job'[p].pc \notin Critical /\ LoopPhase(job[p])'
    BY <1>1, Phases DEF Idle, LoopPhase, PhaseSets
  <2> QED
    BY <1>1, <1>3, <2>1, <2>2, OutsideStep
<1> QED
  BY <1>2, <1>3

LEMMA EditInductive ==
  ASSUME TypeOK, EvidenceInductive, NEW x \in Paths, NEW c \in Bytes, Edit(x, c)
  PROVE  EvidenceInductive'
<1>1. UNCHANGED <<evidence, lock, job>> /\ WriteSource(x, c, Author)
  BY DEF Edit
<1>2. /\ OneRecoveryRoute' /\ EvidenceMatchesSource' /\ Pristine'
      /\ writer'[x] = Author
      /\ \A y \in Paths \ {x} : src'[y] = src[y] /\ writer'[y] = writer[y]
  BY <1>1, AuthorGlobal
<1>3. LockExclusion'
  BY <1>1 DEF EvidenceInductive, LockExclusion
<1>4. UNCHANGED <<stage, files, before, after, terminal, rec, job>>
  BY <1>1 DEF evidence
<1>5. ASSUME NEW q \in Procs PROVE Local(q)'
  <2>1. EvidencePhase(job[q])' /\ LoopPhase(job[q])'
    BY <1>4 DEF EvidenceInductive, Local, EvidencePhase, LoopPhase, Records,
                Interrupted
  <2>2. CASE job[q].pc \in Critical
    <3>1. job[q].cur \in Gens /\ BytesPhase(job[q])
      BY <2>2, Holder
    <3>2. \A y \in Paths : writer'[y] = job[q].cur =>
            writer[y] = job[q].cur /\ src'[y] = src[y]
      BY <1>2, <3>1, AuthorAssumption
    <3>3. BytesPhase(job[q])'
      BY <1>4, <3>1, <3>2 DEF BytesPhase, NoneOf, AllAfter, AllBefore
    <3> QED
      BY <2>1, <3>3 DEF Local
  <2>3. CASE job[q].pc \notin Critical
    BY <1>4, <2>1, <2>3, Phases DEF Local, BytesPhase, PhaseSets
  <2> QED
    BY <2>2, <2>3
<1> QED
  BY <1>2, <1>3, <1>5 DEF EvidenceInductive

LEMMA QuietInductive ==
  ASSUME EvidenceInductive, UNCHANGED <<tree, evidence, lock, job>>
  PROVE  EvidenceInductive'
<1>1. LockExclusion'
  BY DEF EvidenceInductive, LockExclusion
<1>2. \A q \in Procs : Local(q)'
  BY KnowledgeStays
<1> QED
  BY <1>1, <1>2, QuietGlobal DEF EvidenceInductive

LEMMA InitInductive == ASSUME Init PROVE EvidenceInductive
<1>1. \A q \in Procs : job[q] = Idle /\ job[q].pc = "idle"
  BY DEF Init, Idle
<1>2. LockExclusion
  BY <1>1, Phases, NoProcAssumption DEF Init, LockExclusion, PhaseSets
<1>3. \A g \in Gens : Records(g) = {}
  BY DEF Init, Records
<1>4. OneRecoveryRoute
  BY <1>3 DEF Init, OneRecoveryRoute
<1>5. EvidenceMatchesSource
  BY DEF Init, EvidenceMatchesSource
<1>6. Pristine
  BY <1>3, AuthorAssumption DEF Init, Pristine
<1>7. \A q \in Procs : Local(q)
  BY <1>1, Phases DEF Local, EvidencePhase, LoopPhase, BytesPhase, PhaseSets
<1> QED
  BY <1>2, <1>4, <1>5, <1>6, <1>7 DEF EvidenceInductive

LEMMA NextInductive ==
  ASSUME TypeOK, EvidenceInductive, [Next]_vars
  PROVE  EvidenceInductive'
<1>1. CASE UNCHANGED vars
  BY <1>1, QuietInductive DEF vars, tree, evidence
<1>2. ASSUME NEW p \in Procs, Start(p) \/ Continue(p) \/ Crash(p)
      PROVE  EvidenceInductive'
  BY <1>2, StartInductive, WaitingInductive, TxnInductive, IntInductive,
     CmpInductive, CrashInductive DEF Continue
<1>3. ASSUME NEW x \in Paths, NEW c \in Bytes, Edit(x, c)
      PROVE  EvidenceInductive'
  BY <1>3, EditInductive
<1>4. CASE AuthorityChange
  BY <1>4, QuietInductive DEF AuthorityChange
<1> QED
  BY <1>1, <1>2, <1>3, <1>4 DEF Next

(* The phases of every command agree with the evidence and the tree in every
   reachable state, for any number of processes, generations and files. *)
THEOREM InductiveInvariant == Spec => []EvidenceInductive
<1>1. Init => EvidenceInductive
  BY InitInductive
<1>2. TypeOK /\ EvidenceInductive /\ [Next]_vars => EvidenceInductive'
  BY NextInductive
<1> QED
  BY <1>1, <1>2, TypeCorrect, PTL DEF Spec

(* What the evidence on disk says of the bytes of a generation is true in every
   reachable state, between any two steps of any command, after any crash,
   fault or edit. *)
THEOREM EvidenceCorrect == Spec => []EvidenceMatchesSource
<1>1. EvidenceInductive => EvidenceMatchesSource
  BY DEF EvidenceInductive
<1> QED
  BY <1>1, InductiveInvariant, PTL

(* The interrupted and the completed recovery never both own a generation, and
   an interrupted attempt never has a second record. *)
THEOREM RoutesDisjoint == Spec => []OneRecoveryRoute
<1>1. EvidenceInductive => OneRecoveryRoute
  BY DEF EvidenceInductive
<1> QED
  BY <1>1, InductiveInvariant, PTL

(* Commands exclude each other under the journal lock, and no crash or error
   leaves the lock taken. *)
THEOREM LockSafe == Spec => []LockExclusion
<1>1. EvidenceInductive => LockExclusion
  BY DEF EvidenceInductive
<1> QED
  BY <1>1, InductiveInvariant, PTL

-----------------------------------------------------------------------------
(* What a step may never do to evidence, or to bytes behind a fence *)

\* The clauses of EvidenceImmutable and ReplayFenced, of one generation.
Immutable(g) ==
  /\ terminal[g] # "absent" => terminal'[g] = terminal[g]
  /\ stage[g] = "prepared" =>
       /\ stage'[g] = "prepared" /\ gauth'[g] = gauth[g]
       /\ files'[g] = files[g]
       /\ before'[g] = before[g] /\ after'[g] = after[g]
  /\ \A s \in Stamps :
       /\ rec[g][s] \in {"i-done", "c-done", "c-dir"} => rec'[g][s] = rec[g][s]
       /\ rec[g][s] = "i-pending" => rec'[g][s] \in {"i-pending", "i-done"}
       /\ rec[g][s] = "c-pending" => rec'[g][s] \in {"c-pending", "c-done"}
Fenced(g, x) ==
  Recovered(g) /\ writer'[x] = g => writer[x] = g /\ src'[x] = src[x]

LEMMA SameEvidence ==
  ASSUME UNCHANGED evidence PROVE \A g \in Gens : Immutable(g)
BY DEF evidence, Immutable

LEMMA SameTree ==
  ASSUME UNCHANGED tree PROVE \A g \in Gens, x \in Paths : Fenced(g, x)
BY DEF tree, Fenced

\* A terminal record is published only where there was none.
LEMMA PublishTerminal ==
  ASSUME TypeOK, NEW h \in Gens, NEW v, terminal[h] = "absent",
         terminal' = [terminal EXCEPT ![h] = v],
         UNCHANGED <<stage, files, before, after, gauth, rec>>
  PROVE  \A g \in Gens : Immutable(g)
BY DEF TypeOK, Immutable

\* A recovery record is made where there was none, and completed once.
LEMMA PublishRecord ==
  ASSUME TypeOK, NEW h \in Gens, NEW t \in Stamps, NEW v,
         rec' = [rec EXCEPT ![h][t] = v], UNCHANGED genVars,
         \/ rec[h][t] = "none"
         \/ rec[h][t] = "i-pending" /\ v = "i-done"
         \/ rec[h][t] = "c-pending" /\ v = "c-done"
  PROVE  \A g \in Gens : Immutable(g)
<1> SUFFICES ASSUME NEW g \in Gens PROVE Immutable(g)
  OBVIOUS
<1>1. ASSUME NEW s \in Stamps
      PROVE  rec'[g][s] = (IF g = h /\ s = t THEN v ELSE rec[g][s])
  BY DEF TypeOK
<1> QED
  BY <1>1 DEF genVars, Immutable

LEMMA HolderImmutable ==
  ASSUME TypeOK, EvidenceInductive, NEW p \in Procs, job[p].pc \in Critical,
         TxnStep(p) \/ IntStep(p) \/ CmpStep(p)
  PROVE  \A g \in Gens : Immutable(g)
<1> DEFINE g == job[p].cur  s == job[p].stamp
<1>0. job[p] \in Job /\ g \in Gens /\ EvidencePhase(job[p])
  BY Holder
<1>1. CASE UNCHANGED evidence
  BY <1>1, SameEvidence
<1>2. CASE Admit(p)
  <2>1. CASE Refuse(p)
    BY <1>1, <2>1 DEF Refuse
  <2>2. CASE ~Refuse(p)
    <3>1. /\ stage[g] = "none" /\ stage' = [stage EXCEPT ![g] = "dir"]
          /\ UNCHANGED <<files, before, after, gauth, terminal, rec>>
      BY <1>2, <2>2 DEF Admit, Fresh
    <3> QED
      BY <1>0, <3>1 DEF Immutable, TypeOK
  <2> QED
    BY <2>1, <2>2
<1>3. CASE Prepare(p)
  <2>1. CASE Fail(p)
    BY <1>1, <2>1 DEF Fail
  <2>2. CASE ~Fail(p)
    <3>1. stage[g] = "dir"
      BY <1>0, <1>3 DEF Prepare, EvidencePhase
    <3>2. /\ stage' = [stage EXCEPT ![g] = "prepared"]
          /\ files' = [files EXCEPT ![g] = job[p].edits]
          /\ before' = [before EXCEPT ![g] = Only(job[p].edits, job[p].view)]
          /\ after' = [after EXCEPT ![g] = job[p].goal]
          /\ gauth' = [gauth EXCEPT ![g] = job[p].pin]
          /\ UNCHANGED <<terminal, rec>>
      BY <1>3, <2>2 DEF Prepare
    <3> QED
      BY <1>0, <3>1, <3>2 DEF Immutable, TypeOK
  <2> QED
    BY <2>1, <2>2
<1>4. CASE Finalize(p) \/ RbPublish(p)
  <2>1. terminal[g] = "absent"
    BY <1>0, <1>4, Phases DEF Finalize, RbPublish, EvidencePhase, PhaseSets
  <2>2. \/ UNCHANGED evidence
        \/ /\ \E v : terminal' = [terminal EXCEPT ![g] = v]
           /\ UNCHANGED <<stage, files, before, after, gauth, rec>>
    BY <1>4 DEF Finalize, RbPublish, Fail, evidence
  <2> QED
    BY <1>0, <1>1, <2>1, <2>2, PublishTerminal
<1>5. CASE IRecord(p) \/ IPublish(p) \/ CRecord(p) \/ CPublish(p)
  <2>1. job[p].pc \in {"irecord", "ipublish", "crecord", "cpublish"}
    BY <1>5 DEF IRecord, IPublish, CRecord, CPublish
  <2>2. s \in Stamps
    BY <1>0, <2>1, Phases DEF Job, PhaseSets, RecoveryPhases
  <2>3. /\ IRecord(p) => rec[g][s] = "none"
        /\ IPublish(p) => rec[g][s] = "i-pending"
        /\ CPublish(p) => rec[g][s] = "c-pending"
    BY <1>0, <2>2, Phases
       DEF IRecord, IPublish, CPublish, EvidencePhase, PhaseSets, Records
  <2>4. \/ UNCHANGED evidence
        \/ /\ UNCHANGED genVars
           /\ \E v : /\ rec' = [rec EXCEPT ![g][s] = v]
                     /\ \/ rec[g][s] = "none"
                        \/ rec[g][s] = "i-pending" /\ v = "i-done"
                        \/ rec[g][s] = "c-pending" /\ v = "c-done"
    BY <1>5, <2>3
       DEF IRecord, IPublish, CRecord, CPublish, Fail, Refuse, evidence, genVars
  <2> QED
    BY <1>0, <1>1, <2>2, <2>4, PublishRecord
<1>6. CASE \/ Stage(p) \/ Check(p) \/ Replace(p) \/ Validate(p) \/ Confirm(p)
           \/ Restore(p) \/ RbVerify(p)
  BY <1>1, <1>6 DEF Stage, Check, Replace, Validate, Confirm, Restore, RbVerify,
                    Refuse, Fail
<1>7. CASE ILoad(p) \/ ICheck(p) \/ IWrite(p) \/ IFinal(p)
  BY <1>1, <1>7 DEF ILoad, ICheck, IWrite, IFinal, Refuse, Fail
<1>8. CASE \/ CLoad(p) \/ CPreflight(p) \/ CRestore(p) \/ CVerify(p)
           \/ CDrop(p) \/ CUndo(p)
  BY <1>1, <1>8 DEF CLoad, CPreflight, CRestore, CVerify, CDrop, CUndo, Refuse,
                    Fail
<1> QED
  BY <1>2, <1>3, <1>4, <1>5, <1>6, <1>7, <1>8 DEF TxnStep, IntStep, CmpStep

\* A command that puts bytes into the tree works for an attempt that no
\* completed recovery record fences.
LEMMA OpenAttempt ==
  ASSUME TypeOK, EvidenceInductive, NEW p \in Procs,
         job[p].pc \in {"replace", "restore", "iwrite", "crestore", "cundo"}
  PROVE  job[p].cur \in Gens /\ ~Recovered(job[p].cur)
<1> DEFINE g == job[p].cur  s == job[p].stamp
<1>0. job[p].pc \in Critical
  BY Phases DEF PhaseSets
<1>1. job[p] \in Job /\ g \in Gens /\ EvidencePhase(job[p])
  BY <1>0, Holder
<1>2. CASE job[p].pc \in {"replace", "restore"}
  BY <1>1, <1>2, Phases DEF EvidencePhase, PhaseSets, Records, Recovered
<1>3. CASE job[p].pc = "iwrite"
  <2>1. s \in Stamps /\ rec[g][s] = "i-pending" /\ terminal[g] = "absent"
    BY <1>1, <1>3, Phases
       DEF Job, RecoveryPhases, EvidencePhase, Interrupted, PhaseSets
  <2> QED
    BY <1>1, <2>1
       DEF EvidenceInductive, OneRecoveryRoute, Recovered, Records
<1>4. CASE job[p].pc \in {"crestore", "cundo"}
  BY <1>1, <1>4, OpenRecord, Phases DEF PhaseSets, Undone
<1> QED
  BY <1>1, <1>2, <1>3, <1>4

LEMMA WriteFenced ==
  ASSUME TypeOK, NEW y \in Paths, NEW c, NEW by,
         WriteSource(y, c, by), by \in Gens => ~Recovered(by)
  PROVE  \A g \in Gens, x \in Paths : Fenced(g, x)
BY DEF TypeOK, WriteSource, Fenced

LEMMA HolderFenced ==
  ASSUME TypeOK, EvidenceInductive, NEW p \in Procs,
         TxnStep(p) \/ IntStep(p) \/ CmpStep(p)
  PROVE  \A g \in Gens, x \in Paths : Fenced(g, x)
<1>1. CASE UNCHANGED tree
  BY <1>1, SameTree
<1>2. CASE Replace(p) \/ Restore(p) \/ IWrite(p) \/ CRestore(p) \/ CUndo(p)
  <2>1. job[p].cur \in Gens /\ ~Recovered(job[p].cur)
    BY <1>2, OpenAttempt DEF Replace, Restore, IWrite, CRestore, CUndo
  <2>2. \/ UNCHANGED tree
        \/ \E y \in Paths : \E c, by :
             WriteSource(y, c, by) /\ by \in {job[p].cur, Author}
    BY <1>2, Zenon
       DEF Replace, Restore, IWrite, CRestore, CUndo, Fail, Refuse
  <2> QED
    BY <1>1, <2>1, <2>2, WriteFenced, AuthorAssumption
<1>3. CASE \/ Admit(p) \/ Prepare(p) \/ Stage(p) \/ Check(p) \/ Validate(p)
           \/ Confirm(p) \/ Finalize(p) \/ RbVerify(p) \/ RbPublish(p)
  BY <1>1, <1>3 DEF Admit, Prepare, Stage, Check, Validate, Confirm, Finalize,
                    RbVerify, RbPublish, Refuse, Fail
<1>4. CASE \/ ILoad(p) \/ IRecord(p) \/ ICheck(p) \/ IFinal(p) \/ IPublish(p)
  BY <1>1, <1>4 DEF ILoad, IRecord, ICheck, IFinal, IPublish, Refuse, Fail
<1>5. CASE \/ CLoad(p) \/ CRecord(p) \/ CPreflight(p) \/ CVerify(p)
           \/ CDrop(p) \/ CPublish(p)
  BY <1>1, <1>5 DEF CLoad, CRecord, CPreflight, CVerify, CDrop, CPublish,
                    Refuse
<1> QED
  BY <1>2, <1>3, <1>4, <1>5 DEF TxnStep, IntStep, CmpStep

LEMMA HolderCritical ==
  ASSUME NEW p \in Procs, TxnStep(p) \/ IntStep(p) \/ CmpStep(p)
  PROVE  job[p].pc \in Critical
BY Phases
   DEF TxnStep, IntStep, CmpStep, PhaseSets, Admit, Prepare, Stage, Check, Replace,
       Validate, Confirm, Finalize, Restore, RbVerify, RbPublish, ILoad, IRecord,
       ICheck, IWrite, IFinal, IPublish, CLoad, CRecord, CPreflight, CRestore,
       CVerify, CDrop, CPublish, CUndo

LEMMA StepKeeps ==
  ASSUME TypeOK, EvidenceInductive, [Next]_vars
  PROVE  /\ \A g \in Gens : Immutable(g)
         /\ \A g \in Gens, x \in Paths : Fenced(g, x)
<1>1. CASE UNCHANGED <<tree, evidence>>
  BY <1>1, SameEvidence, SameTree
<1>2. CASE UNCHANGED vars
  BY <1>1, <1>2 DEF vars, tree, evidence
<1>3. ASSUME NEW p \in Procs, Start(p) \/ Lock(p) \/ LockBusy(p) \/ Crash(p)
      PROVE  UNCHANGED <<tree, evidence>>
  BY <1>3 DEF Start, Plan, IStart, CStart, Lock, LockBusy, Crash
<1>4. ASSUME NEW p \in Procs, TxnStep(p) \/ IntStep(p) \/ CmpStep(p)
      PROVE  /\ \A g \in Gens : Immutable(g)
             /\ \A g \in Gens, x \in Paths : Fenced(g, x)
  <2>1. job[p].pc \in Critical
    BY <1>4, HolderCritical
  <2> QED
    BY <1>4, <2>1, HolderImmutable, HolderFenced
<1>5. ASSUME NEW y \in Paths, NEW c \in Bytes, Edit(y, c)
      PROVE  /\ \A g \in Gens : Immutable(g)
             /\ \A g \in Gens, x \in Paths : Fenced(g, x)
  <2>1. UNCHANGED evidence /\ WriteSource(y, c, Author)
    BY <1>5 DEF Edit
  <2> QED
    BY <2>1, SameEvidence, WriteFenced, AuthorAssumption
<1>6. CASE AuthorityChange
  BY <1>1, <1>6 DEF AuthorityChange
<1> QED
  BY <1>1, <1>2, <1>3, <1>4, <1>5, <1>6 DEF Next, Continue

(* No command, whatever crashes, faults and authors do around it, changes a
   terminal record, a prepared manifest with its copies or a completed
   recovery record (run_bounded_transaction, recover_generation,
   recover_interrupted_generation). *)
THEOREM EvidenceStands == Spec => EvidenceImmutable
<1>1. TypeOK /\ EvidenceInductive /\ [Next]_vars =>
        [\A g \in Gens : Immutable(g)]_vars
  BY StepKeeps
<1> QED
  BY <1>1, TypeCorrect, InductiveInvariant, PTL
     DEF Spec, EvidenceImmutable, Immutable

(* Once an interrupted attempt has its completed recovery record, nothing puts
   bytes of its generation into the tree again
   (recover_interrupted_generation). *)
THEOREM ReplayStaysFenced == Spec => ReplayFenced
<1>1. TypeOK /\ EvidenceInductive /\ [Next]_vars =>
        [\A g \in Gens, x \in Paths :
           Recovered(g) /\ writer'[x] = g =>
             writer[x] = g /\ src'[x] = src[x]]_vars
  BY StepKeeps DEF Fenced
<1> QED
  BY <1>1, TypeCorrect, InductiveInvariant, PTL DEF Spec, ReplayFenced

-----------------------------------------------------------------------------
(* Writes stay bound to the authority under which they were prepared *)

\* The phases in which the generation of a command is prepared for certain.
Steady == Critical \ {"admit", "prepare", "iload", "cload"}
Bound(p) ==
  job[p].pc \in Steady /\ job[p].pin # Unguarded => gauth[job[p].cur] = job[p].pin
AllBound == \A p \in Procs : Bound(p)

\* A command goes on for the generation and under the pin it was started with.
Continues(p) ==
  /\ \A q \in Procs \ {p} : job'[q] = job[q]
  /\ \/ job'[p].pc = "idle"
     \/ job'[p].cur = job[p].cur /\ job'[p].pin = job[p].pin

LEMMA SteadyPrepared ==
  ASSUME TypeOK, EvidenceInductive, NEW p \in Procs, job[p].pc \in Steady
  PROVE  /\ job[p].cur \in Gens /\ stage[job[p].cur] = "prepared"
         /\ job[p].pc \in Critical
<1>1. job[p].pc \in Critical /\ job[p].cur \in Gens /\ EvidencePhase(job[p])
  BY Holder DEF Steady
<1> QED
  BY <1>1, Phases DEF Steady, PhaseSets, EvidencePhase, Interrupted

LEMMA GotoContinues ==
  ASSUME TypeOK, NEW p \in Procs, NEW ph, Goto(p, ph) PROVE Continues(p)
<1>1. job[p] \in JobRecord /\ job' = [job EXCEPT ![p] = [job[p] EXCEPT !.pc = ph]]
  BY Zenon DEF TypeOK, Job, Goto
<1> QED
  BY <1>1 DEF TypeOK, JobRecord, Continues

LEMMA EndContinues ==
  ASSUME TypeOK, NEW p \in Procs, End(p) \/ Refuse(p) \/ Fail(p)
  PROVE  Continues(p) /\ job'[p].pc = "idle"
<1>1. job'[p] = Idle /\ \A q \in Procs \ {p} : job'[q] = job[q]
  BY DEF TypeOK, End, Refuse, Fail
<1> QED
  BY <1>1 DEF Idle, Continues

LEMMA RollbackContinues ==
  ASSUME TypeOK, NEW p \in Procs, NEW S, BeginRollback(p, S) PROVE Continues(p)
<1>1. ASSUME NEW ph, job' = [job EXCEPT ![p].pc = ph, ![p].todo = S, ![p].did = S]
      PROVE  Continues(p)
  BY <1>1 DEF TypeOK, Job, JobRecord, Continues
<1> QED
  BY <1>1 DEF BeginRollback

LEMMA TxnContinues ==
  ASSUME TypeOK, NEW p \in Procs, TxnStep(p) PROVE Continues(p)
<1>1. CASE Admit(p) \/ Prepare(p) \/ RbVerify(p) \/ RbPublish(p)
  BY <1>1, GotoContinues, EndContinues DEF Admit, Prepare, RbVerify, RbPublish
<1>2. CASE Stage(p)
  <2>1. CASE job' = [job EXCEPT ![p].pc = "check", ![p].todo = job[p].edits]
    BY <2>1 DEF TypeOK, Job, JobRecord, Continues
  <2> QED
    BY <1>2, <2>1, EndContinues DEF Stage
<1>3. CASE Check(p) \/ Validate(p) \/ Confirm(p) \/ Finalize(p)
  BY <1>3, GotoContinues, EndContinues, RollbackContinues
     DEF Check, Validate, Confirm, Finalize
<1>4. CASE Replace(p)
  <2>1. ASSUME NEW x, NEW ph,
               job' = [job EXCEPT ![p].pc = ph,
                         ![p].todo = @ \ {x}, ![p].did = @ \cup {x}]
        PROVE  Continues(p)
    BY <2>1 DEF TypeOK, Job, JobRecord, Continues
  <2> QED
    BY <1>4, <2>1, RollbackContinues DEF Replace
<1>5. CASE Restore(p)
  <2>1. ASSUME NEW x, NEW ph,
               job' = [job EXCEPT ![p].pc = ph, ![p].todo = @ \ {x}]
        PROVE  Continues(p)
    BY <2>1 DEF TypeOK, Job, JobRecord, Continues
  <2> QED
    BY <1>5, <2>1, EndContinues DEF Restore
<1> QED
  BY <1>1, <1>2, <1>3, <1>4, <1>5 DEF TxnStep

LEMMA IntContinues ==
  ASSUME TypeOK, NEW p \in Procs, IntStep(p) PROVE Continues(p)
<1>1. CASE ILoad(p)
  <2>1. ASSUME NEW ph, NEW s, NEW written,
               job' = [job EXCEPT ![p].pc = ph, ![p].stamp = s, ![p].todo = written]
        PROVE  Continues(p)
    BY <2>1 DEF TypeOK, Job, JobRecord, Continues
  <2> DEFINE written == {x \in files[job[p].cur] : src[x] # before[job[p].cur][x]}
  <2>2. CASE Refuse(p)
    BY <2>2, EndContinues
  <2>3. CASE ~Refuse(p)
    <3>1. PICK ph \in {"irecord", "ifinal", "icheck"}, s \in Stamps \cup {job[p].stamp} :
            job' = [job EXCEPT ![p].pc = ph, ![p].stamp = s, ![p].todo = written]
      BY <1>1, <2>3 DEF ILoad
    <3> QED
      BY <2>1, <3>1
  <2> QED
    BY <2>2, <2>3
<1>2. CASE IRecord(p) \/ ICheck(p) \/ IFinal(p) \/ IPublish(p)
  BY <1>2, GotoContinues, EndContinues DEF IRecord, ICheck, IFinal, IPublish
<1>3. CASE IWrite(p)
  <2>1. ASSUME NEW x, NEW ph,
               job' = [job EXCEPT ![p].pc = ph, ![p].todo = @ \ {x}]
        PROVE  Continues(p)
    BY <2>1 DEF TypeOK, Job, JobRecord, Continues
  <2> QED
    BY <1>3, <2>1, EndContinues DEF IWrite
<1> QED
  BY <1>1, <1>2, <1>3 DEF IntStep

LEMMA UndoContinues ==
  ASSUME TypeOK, NEW p \in Procs, BeginUndo(p) PROVE Continues(p)
BY GotoContinues, EndContinues DEF BeginUndo

LEMMA CmpContinues ==
  ASSUME TypeOK, NEW p \in Procs, CmpStep(p) PROVE Continues(p)
<1>1. CASE CLoad(p) \/ CRecord(p) \/ CVerify(p) \/ CPublish(p)
  BY <1>1, GotoContinues, EndContinues, UndoContinues
     DEF CLoad, CRecord, CVerify, CPublish
<1>2. CASE CPreflight(p)
  <2>1. ASSUME NEW S, job' = [job EXCEPT ![p].pc = "crestore", ![p].todo = S]
        PROVE  Continues(p)
    BY <2>1 DEF TypeOK, Job, JobRecord, Continues
  <2> QED
    BY <1>2, <2>1, UndoContinues DEF CPreflight
<1>3. CASE CRestore(p)
  <2>1. ASSUME NEW x, NEW ph, NEW bytes,
               job' = [job EXCEPT ![p].pc = ph, ![p].todo = @ \ {x},
                         ![p].did = @ \cup {x},
                         ![p].held = [@ EXCEPT ![x] = bytes]]
        PROVE  Continues(p)
    BY <2>1 DEF TypeOK, Job, JobRecord, Continues
  <2> DEFINE ph(x) == IF job[p].todo = {x} THEN "cverify" ELSE "crestore"
             bytes(x) == IF before[job[p].cur][x] = Absent THEN src[x] ELSE Absent
  <2>2. CASE ~BeginUndo(p)
    <3>1. PICK x \in Paths :
            job' = [job EXCEPT ![p].pc = ph(x), ![p].todo = @ \ {x},
                      ![p].did = @ \cup {x},
                      ![p].held = [@ EXCEPT ![x] = bytes(x)]]
      BY <1>3, <2>2 DEF CRestore
    <3> QED
      BY <2>1, <3>1
  <2> QED
    BY <2>2, UndoContinues
<1>4. CASE CDrop(p)
  <2>1. ASSUME NEW ph, NEW h, job' = [job EXCEPT ![p].pc = ph, ![p].held = h]
        PROVE  Continues(p)
    BY <2>1 DEF TypeOK, Job, JobRecord, Continues
  <2> QED
    BY <1>4, <2>1 DEF CDrop
<1>5. CASE CUndo(p)
  <2>1. ASSUME NEW x, job' = [job EXCEPT ![p].did = @ \ {x}]
        PROVE  Continues(p)
    BY <2>1 DEF TypeOK, Job, JobRecord, Continues
  <2> QED
    BY <1>5, <2>1, EndContinues DEF CUndo
<1> QED
  BY <1>1, <1>2, <1>3, <1>4, <1>5 DEF CmpStep

\* A command that is pinned becomes steady only under the authority of its
\* generation: it prepared it itself, or compared the two.
LEMMA BecomesSteady ==
  ASSUME TypeOK, EvidenceInductive, NEW p \in Procs, job[p].pc \in Critical \ Steady,
         TxnStep(p) \/ IntStep(p) \/ CmpStep(p),
         job'[p].pc \in Steady, job[p].pin # Unguarded
  PROVE  gauth'[job[p].cur] = job[p].pin
<1>1. job[p].pc \in {"admit", "prepare", "iload", "cload"} /\ job[p].cur \in Gens
  BY Holder DEF Steady
<1>2. job'[p].pc # "idle" /\ ~Refuse(p) /\ ~Fail(p)
  BY Phases, EndContinues DEF PhaseSets, Steady
<1>3. Admit(p) \/ Prepare(p) \/ ILoad(p) \/ CLoad(p)
  BY <1>1 DEF TxnStep, IntStep, CmpStep, Stage, Check, Replace, Validate, Confirm,
              Finalize, Restore, RbVerify, RbPublish, IRecord, ICheck, IWrite,
              IFinal, IPublish, CRecord, CPreflight, CRestore, CVerify, CDrop,
              CPublish, CUndo, Admit, Prepare, ILoad, CLoad
<1>4. CASE Admit(p)
  <2>1. Goto(p, "prepare")
    BY <1>2, <1>4 DEF Admit
  <2>2. job'[p].pc = "prepare"
    BY <2>1 DEF Goto, TypeOK, Job, JobRecord
  <2> QED
    BY <2>2 DEF Steady
<1>5. CASE Prepare(p)
  <2>1. gauth' = [gauth EXCEPT ![job[p].cur] = job[p].pin]
    BY <1>2, <1>5 DEF Prepare
  <2> QED
    BY <1>1, <2>1 DEF TypeOK
<1>6. CASE ILoad(p) \/ CLoad(p)
  <2>1. RecoveryAuthorized(p) /\ UNCHANGED gauth
    BY <1>2, <1>6 DEF ILoad, CLoad, evidence
  <2> QED
    BY <2>1 DEF RecoveryAuthorized
<1> QED
  BY <1>3, <1>4, <1>5, <1>6

LEMMA RestBound ==
  ASSUME TypeOK, EvidenceInductive, AllBound, [Next]_vars, NEW q \in Procs,
         job'[q] = job[q]
  PROVE  Bound(q)'
<1>1. CASE job[q].pc \in Steady
  <2>1. gauth'[job[q].cur] = gauth[job[q].cur]
    BY <1>1, SteadyPrepared, StepKeeps DEF Immutable
  <2> QED
    BY <2>1 DEF AllBound, Bound
<1> QED
  BY <1>1 DEF Bound

LEMMA NextBound ==
  ASSUME TypeOK, EvidenceInductive, AllBound, [Next]_vars PROVE AllBound'
<1>1. CASE UNCHANGED job
  BY <1>1, RestBound DEF AllBound
<1>2. ASSUME NEW p \in Procs, \A q \in Procs \ {p} : job'[q] = job[q], Bound(p)'
      PROVE  AllBound'
  BY <1>2, RestBound DEF AllBound
<1>3. ASSUME NEW p \in Procs, Start(p) \/ Lock(p) \/ LockBusy(p) \/ Crash(p)
      PROVE  AllBound'
  <2>1. \A q \in Procs \ {p} : job'[q] = job[q]
    BY <1>3 DEF Start, Plan, Declare, IStart, CStart, Lock, Goto, LockBusy, Crash,
                TypeOK
  <2>2. job'[p].pc \notin Steady
    <3>1. CASE Start(p)
      <4>1. Plan(p) => job'[p].pc = "planned"
        BY DEF Plan, Declare, Idle, TypeOK
      <4>2. IStart(p) => job'[p].pc = "iwait"
        BY DEF IStart, Idle, TypeOK
      <4>3. CStart(p) => job'[p].pc = "cwait"
        BY DEF CStart, Idle, TypeOK
      <4> QED
        BY <3>1, <4>1, <4>2, <4>3, Phases DEF Start, Steady, PhaseSets
    <3>2. CASE Lock(p)
      <4>1. /\ job[p].pc \in Waiting
            /\ job' = [job EXCEPT ![p] = [job[p] EXCEPT !.pc = Entry[job[p].pc]]]
        BY <3>2, Zenon DEF Lock, Goto
      <4>2. Entry[job[p].pc] \in {"admit", "iload", "cload"}
        BY <4>1, Phases DEF Entry, PhaseSets
      <4>3. job'[p].pc = Entry[job[p].pc]
        BY <4>1 DEF TypeOK, Job, JobRecord
      <4> QED
        BY <4>2, <4>3 DEF Steady
    <3>3. CASE LockBusy(p) \/ Crash(p)
      <4>1. job'[p].pc = "idle"
        BY <3>3 DEF LockBusy, Crash, Idle, TypeOK
      <4> QED
        BY <4>1, Phases DEF Steady, PhaseSets
    <3> QED
      BY <1>3, <3>1, <3>2, <3>3
  <2> QED
    BY <1>2, <2>1, <2>2 DEF Bound
<1>4. ASSUME NEW p \in Procs, TxnStep(p) \/ IntStep(p) \/ CmpStep(p)
      PROVE  AllBound'
  <2>1. Continues(p)
    BY <1>4, TxnContinues, IntContinues, CmpContinues
  <2>2. job[p].pc \in Critical
    BY <1>4, HolderCritical
  <2>3. Bound(p)'
    <3> SUFFICES ASSUME job'[p].pc \in Steady, job'[p].pin # Unguarded
                 PROVE  gauth'[job'[p].cur] = job'[p].pin
      BY DEF Bound
    <3>1. job'[p].cur = job[p].cur /\ job'[p].pin = job[p].pin
      BY <2>1, Phases DEF Continues, Steady, PhaseSets
    <3>2. CASE job[p].pc \in Steady
      <4>1. gauth'[job[p].cur] = gauth[job[p].cur]
        BY <3>2, SteadyPrepared, StepKeeps DEF Immutable
      <4> QED
        BY <3>1, <3>2, <4>1 DEF AllBound, Bound
    <3>3. CASE job[p].pc \notin Steady
      BY <1>4, <2>2, <3>1, <3>3, BecomesSteady
    <3> QED
      BY <3>2, <3>3
  <2> QED
    BY <1>2, <2>1, <2>3 DEF Continues
<1> QED
  BY <1>1, <1>3, <1>4 DEF Next, Continue, Edit, AuthorityChange, vars

\* A step that replaces bytes is one of a steady command.
LEMMA BoundWrite ==
  ASSUME TypeOK, EvidenceInductive, AllBound, [Next]_vars,
         NEW p \in Procs, NEW x \in Paths,
         src'[x] # src[x], job'[p] # job[p], job[p].pin # Unguarded
  PROVE  gauth[job[p].cur] = job[p].pin
<1>1. PICK q \in Procs : TxnStep(q) \/ IntStep(q) \/ CmpStep(q)
  BY DEF Next, Continue, Start, Plan, IStart, CStart, Lock, LockBusy, Crash, Edit,
         AuthorityChange, tree, vars
<1>2. Continues(q)
  BY <1>1, TxnContinues, IntContinues, CmpContinues
<1>3. q = p
  BY <1>2 DEF Continues
<1>4. Replace(p) \/ Restore(p) \/ IWrite(p) \/ CRestore(p) \/ CUndo(p)
  BY <1>1, <1>3
     DEF TxnStep, IntStep, CmpStep, Admit, Prepare, Stage, Check, Validate, Confirm,
         Finalize, RbVerify, RbPublish, ILoad, IRecord, ICheck, IFinal, IPublish,
         CLoad, CRecord, CPreflight, CVerify, CDrop, CPublish, Refuse, Fail, tree
<1>5. job[p].pc \in Steady
  BY <1>4, Phases DEF Replace, Restore, IWrite, CRestore, CUndo, Steady, PhaseSets
<1> QED
  BY <1>5 DEF AllBound, Bound

(* A command pinned to one authority puts bytes into the tree only for
   generations prepared under exactly that authority, whenever the authority
   files change (_verify_authority_guards, _recovery_authority_preflight). *)
THEOREM AuthorityBound == Spec => AuthorityBinding
<1>1. Init => AllBound
  BY Phases DEF Init, Idle, AllBound, Bound, Steady, PhaseSets
<1>2. TypeOK /\ EvidenceInductive /\ AllBound /\ [Next]_vars => AllBound'
  BY NextBound
<1>3. TypeOK /\ EvidenceInductive /\ AllBound /\ [Next]_vars =>
        [\A p \in Procs, x \in Paths :
           src'[x] # src[x] /\ job'[p] # job[p] /\ job[p].pin # Unguarded =>
             gauth[job[p].cur] = job[p].pin]_vars
  BY BoundWrite
<1> QED
  BY <1>1, <1>2, <1>3, TypeCorrect, InductiveInvariant, PTL
     DEF Spec, AuthorityBinding
=============================================================================
