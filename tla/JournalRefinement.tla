-------------------------- MODULE JournalRefinement --------------------------
(* The journal implements DocumentStore: the tree an operator may rely on is *)
(* the one in which every attempt without terminal evidence has not happened *)
(* and every recovery without a complete record has not happened yet.        *)
EXTENDS JournalInvariant

CONSTANT None

Undoing == {"crestore", "cverify", "cdrop", "cpublish", "cundo"}
Declared == {"planned", "admit", "prepare", "stage", "check", "replace",
             "validate", "confirm", "finalize"}

\* Bytes of an unfinished attempt count as its before copy, bytes that an
\* unfinished completed recovery has put back as the after copy.
BeingUndone(x) == \E p \in Procs : job[p].pc \in Undoing /\ x \in job[p].did
Logical(x) ==
  LET g == writer[x] IN
  IF g = Author THEN src[x]
  ELSE IF Unresolved(g) THEN before[g][x]
  ELSE IF BeingUndone(x) THEN after[g][x]
  ELSE src[x]

DeclaredWrite(j) == [gen |-> j.cur, edits |-> j.edits, guards |-> j.guards,
                     view |-> j.view, goal |-> j.goal]
LogicalTree == [x \in Paths |-> Logical(x)]
Declarations == [p \in Procs |-> IF job[p].pc \in Declared
                                 THEN DeclaredWrite(job[p]) ELSE None]
Decided == [g \in Gens |->
              IF terminal[g] # "absent"
              THEN [view |-> [x \in files[g] |-> before[g][x]],
                    goal |-> [x \in files[g] |-> after[g][x]]]
              ELSE None]

Store == INSTANCE DocumentStore WITH
  store <- LogicalTree, want <- Declarations, log <- Decided,
  edited <- MaxEdits - left["edit"]

ASSUME NoneAssumption ==
  /\ None \notin Store!Write
  /\ \A E \in SUBSET Paths : None \notin [view : [E -> Bytes], goal : [E -> Bytes]]

(* Every step of the journal is a step of the abstract store or changes
   nothing of it: a write of several files commits at the publication of
   verification.json, only on the bytes and guards it was declared for, and is
   invisible when it crashes, fails, is rolled back or is recovered; a
   completed recovery undoes all of it at the publication of its record, or
   nothing (run_bounded_transaction, recover_interrupted_generation,
   recover_generation). *)
ImplementsDocumentStore == Store!DocSpec

-----------------------------------------------------------------------------
(* What the implementation asks of its operators *)

\* The bytes at a path are not those of an attempt that is still unresolved.
Settled(x) == writer[x] = Author \/ ~Unresolved(writer[x])

\* A write is admitted, and a completed recovery loaded, over settled bytes.
BeginsSettled(p) ==
  /\ At(p, "admit") /\ At(p, "prepare")' =>
       \A x \in job[p].edits \cup job[p].guards : Settled(x)
  /\ At(p, "cload") /\ At(p, "crecord")' =>
       \A x \in files[job[p].cur] : Settled(x)

\* An interrupted recovery meets after bytes only where its attempt wrote them.
RecoversOwnBytes(p) ==
  LET g == job[p].cur IN
  At(p, "iload") /\ job'[p].pc \in {"irecord", "icheck"} =>
    \A x \in files[g] : src[x] # before[g][x] => writer[x] = g

\* A completed recovery that has put a file back neither dies nor fails to
\* undo that.
UndoesToTheEnd(p) ==
  job[p].pc \in Undoing /\ job[p].did # {} /\ At(p, "idle")' => UNCHANGED left

Orderly ==
  \A p \in Procs : BeginsSettled(p) /\ RecoversOwnBytes(p) /\ UndoesToTheEnd(p)

\* What the holder of the lock knows of the writers then.
SettledTree(j) ==
  /\ j.pc \in Declared \ {"planned", "admit"} =>
       \A x \in (j.edits \ j.did) \cup j.guards : Settled(x)
  /\ j.pc \in {"irecord", "icheck", "iwrite"} => Carries(j.todo, j.cur)
  /\ j.pc \in {"crecord", "cpreflight"} => \A x \in files[j.cur] : Settled(x)
  /\ j.pc \in Undoing => \A x \in files[j.cur] \ j.did : Settled(x)

SettledInductive == \A p \in Procs : SettledTree(job[p])
=============================================================================
