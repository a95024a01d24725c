-------------------------- MODULE JournalInvariant --------------------------
(* The inductive strengthening of EvidenceMatchesSource: what a process in   *)
(* each phase knows about the evidence and the bytes of its generation.      *)
EXTENDS Journal

\* Nothing refers to a generation before its preparation is complete.
Pristine ==
  \A g \in Gens : stage[g] # "prepared" =>
    /\ terminal[g] = "absent" /\ Records(g) = {}
    /\ \A x \in Paths : writer[x] # g

NoneOf(g) == \A x \in Paths : writer[x] # g
AllAfter(g) == \A x \in Paths : writer[x] = g => src[x] = after[g][x]
AllBefore(g) == \A x \in Paths : writer[x] = g => src[x] = before[g][x]

\* How far the evidence of the generation is when a command is in a phase.
EvidencePhase(j) ==
  LET g == j.cur IN
  /\ j.pc \in TxnPhases \ {"admit"} => terminal[g] = "absent" /\ Records(g) = {}
  /\ j.pc = "prepare" => stage[g] = "dir"
  /\ j.pc \in TxnPhases \ {"admit", "prepare"} =>
       stage[g] = "prepared" /\ files[g] = j.edits /\ after[g] = j.goal
  /\ j.pc \in IntPhases \ {"iload"} => Interrupted(g)
  /\ j.pc = "irecord" => Records(g) = {}
  /\ j.pc \in IntPhases \ {"iload", "irecord"} => rec[g][j.stamp] = "i-pending"
  /\ j.pc \in CmpPhases \ {"cload"} =>
       stage[g] = "prepared" /\ terminal[g] # "absent"
  /\ j.pc \in CmpPhases \ {"cload", "crecord"} => rec[g][j.stamp] = "c-pending"

\* What its loop has still to do and has done.
LoopPhase(j) ==
  LET g == j.cur IN
  /\ j.pc \in {"planned", "admit", "prepare", "stage",
               "cwait", "cload", "crecord", "cpreflight"} => j.did = {}
  /\ j.pc \in {"check", "replace", "restore", "irecord", "icheck", "iwrite",
               "crestore"} => j.todo \subseteq files[g]
  /\ j.pc \in {"check", "replace", "crestore", "cverify", "cdrop", "cpublish",
               "cundo"} => j.did \subseteq files[g]

\* What it knows of the bytes that carry its generation.
BytesPhase(j) ==
  LET g == j.cur IN
  /\ j.pc = "stage" => NoneOf(g)
  /\ j.pc \in {"check", "replace"} =>
       \A x \in Paths : writer[x] = g => x \in j.did
  /\ j.pc \in {"check", "replace", "validate", "confirm", "finalize"} =>
       AllAfter(g)
  /\ j.pc \in {"restore", "irecord", "icheck", "iwrite", "crestore"} =>
       \A x \in Paths : writer[x] = g => x \in j.todo \/ src[x] = before[g][x]
  /\ j.pc \in {"rbverify", "rbpublish", "ifinal", "ipublish",
               "cverify", "cdrop", "cpublish"} => AllBefore(g)

Local(p) == EvidencePhase(job[p]) /\ LoopPhase(job[p]) /\ BytesPhase(job[p])

(* Every phase of every command agrees with the evidence on disk and with the
   bytes in the tree, so publishing a terminal record in the next step never
   says more than is true. *)
EvidenceInductive ==
  /\ LockExclusion
  /\ OneRecoveryRoute
  /\ EvidenceMatchesSource
  /\ Pristine
  /\ \A p \in Procs : Local(p)
-----------------------------------------------------------------------------
(* What the holder of the lock knows of the tree while authors keep off it   *)
(* for as long as the lock is held.                                          *)

Carries(S, g) == \A x \in S : writer[x] = g

\* A transaction: edited so far are exactly the paths in did, the rest of the
\* edits and every guard still hold the bytes it was declared for; a rollback
\* has its own bytes in front of it and the before copies behind it.
TxnTree(j) ==
  LET g == j.cur IN
  /\ j.pc = "planned" \/ j.pc \in TxnPhases => j.edits \cap j.guards = {}
  /\ j.pc \in TxnPhases \ {"admit", "prepare"} =>
       before[g] = Only(j.edits, j.view)
  /\ j.pc \in {"check", "replace", "validate", "confirm", "finalize"} =>
       /\ Holds((j.edits \ j.did) \cup j.guards, j.view)
       /\ Holds(j.did, after[g]) /\ Carries(j.did, g)
  /\ j.pc \in {"check", "replace"} => j.todo = j.edits \ j.did
  /\ j.pc \in {"validate", "confirm", "finalize"} => j.did = j.edits
  /\ j.pc \in {"restore", "rbverify"} =>
       /\ j.todo \subseteq j.did /\ j.did \subseteq files[g]
       /\ Holds(j.todo, after[g]) /\ Holds(j.did \ j.todo, before[g])
       /\ Carries(j.did, g)
  /\ j.pc = "rbverify" => j.todo = {}

\* A recovery: what it has still to put back holds the after copies, what a
\* completed recovery has put back holds the before copies.
RecoveryTree(j) ==
  LET g == j.cur IN
  /\ j.pc \in {"irecord", "icheck", "iwrite"} => Holds(j.todo, after[g])
  /\ j.pc \in {"crecord", "cpreflight"} => Holds(files[g], after[g])
  /\ j.pc \in {"crestore", "cverify", "cdrop", "cpublish", "cundo"} =>
       /\ Holds(files[g] \ j.did, after[g]) /\ Holds(j.did, before[g])
       /\ Carries(j.did, g)
       /\ \A x \in j.did : j.held[x] \in {Absent, after[g][x]}
  /\ j.pc = "crestore" => j.todo = files[g] \ j.did
  /\ j.pc \in {"cverify", "cdrop", "cpublish"} => j.did = files[g]

(* Every command that holds the lock knows which of its files hold which of
   its copies, at every step of its loops. *)
TreeInductive == \A p \in Procs : TxnTree(job[p]) /\ RecoveryTree(job[p])
=============================================================================
