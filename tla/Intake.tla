------------------------------- MODULE Intake -------------------------------
(***************************************************************************)
(* `intake` (src/src/docsystem/intake.py and its command in cli.py): the    *)
(* placement of an idea. The command writes nothing; a later, authorized    *)
(* writer creates what was proposed, after evaluating the request again.    *)
(* IDs are their numbers in one namespace, and the path of ID n is n.       *)
(***************************************************************************)
EXTENDS Integers, FiniteSets

CONSTANTS
  Numbers,   \* numbers of IDs and of paths
  Decisions  \* the sets of decisions a criterion may allow

Free == -1      \* no file at a path
Anonymous == 0  \* a file that the guard does not list: excluded, or without metadata

VARIABLES
  files,    \* what is at each path: an ID, Anonymous or Free
  revised,  \* how often a document changed, up to the bound of one
  proposal  \* what the command last printed

vars == <<files, revised, proposal>>

Used == {files[p] : p \in Numbers} \cap Numbers
UsedPaths == {p \in Numbers : files[p] # Free}

\* _catalog_allocation_guard: IDs, revisions and paths.
Guard == [listed |-> {<<files[p], p>> : p \in {q \in Numbers : files[q] \in Numbers}},
          revised |-> revised]

\* _intake_new_target: beyond every ID, the first whose path is free.
Above_Counted == {n \in Numbers : n > Cardinality(Used)}
Above == {n \in Numbers : \A u \in Used : n > u}
NewTarget == {n \in Above \ UsedPaths : \A m \in Above \ UsedPaths : n <= m}

\* evaluate_request: conflicts block; a sufficient owner must be the only one;
\* what the criterion does not authorize blocks.
Signals == [conflict : BOOLEAN, lifecycle : BOOLEAN, owned : BOOLEAN]
Decide(s, owners, allowed) ==
  LET desired == IF s.owned THEN "update-existing"
                 ELSE IF s.lifecycle THEN "create-workstream" ELSE "create-draft" IN
  IF s.conflict \/ (s.owned /\ s.lifecycle) THEN "blocked"
  ELSE IF s.owned /\ owners # 1 THEN "blocked"
  ELSE IF desired \notin allowed THEN "blocked"
  ELSE desired

-----------------------------------------------------------------------------

NoProposal == [decision |-> "none"]

\* IDs are unique in a catalog that validates.
Init ==
  /\ files \in [Numbers -> Numbers \cup {Free, Anonymous}]
  /\ \A p, q \in Numbers : p # q /\ files[p] \in Numbers => files[p] # files[q]
  /\ revised = 0
  /\ proposal = NoProposal

\* `intake`: one evaluation over one catalog, which must have room (the
\* numbers are bounded here, not in the code).
Propose ==
  /\ \E s \in Signals, owners \in 0 .. 2, allowed \in Decisions :
       LET decision == Decide(s, owners, allowed) IN
       IF decision \in {"create-draft", "create-workstream"}
         THEN \E n \in NewTarget :
                proposal' = [decision |-> decision, id |-> n, guard |-> Guard]
         ELSE proposal' = [decision |-> decision]
  /\ UNCHANGED <<files, revised>>

\* Authors create, move, revise and delete; IDs stay unique.
Author ==
  \/ /\ \E p \in Numbers, x \in (Numbers \ Used) \cup {Anonymous} :
          files[p] = Free /\ files' = [files EXCEPT ![p] = x]
     /\ UNCHANGED <<revised, proposal>>
  \/ /\ \E p \in UsedPaths : files' = [files EXCEPT ![p] = Free]
     /\ UNCHANGED <<revised, proposal>>
  \/ /\ \E p \in UsedPaths, q \in Numbers \ UsedPaths :
          files' = [files EXCEPT ![q] = files[p], ![p] = Free]
     /\ UNCHANGED <<revised, proposal>>
  \/ /\ revised = 0 /\ Used # {}
     /\ revised' = 1
     /\ UNCHANGED <<files, proposal>>

Next == Propose \/ Author

Spec == Init /\ [][Next]_vars

-----------------------------------------------------------------------------
(* Properties *)

\* A proposal is not a reservation, but as long as the guard it came with still
\* matches the catalog, whatever happened in between, its ID belongs to no
\* document, so that the writer who checks the guard duplicates none.
GuardProvesFree ==
  proposal.decision \in {"create-draft", "create-workstream"} =>
    (proposal.guard = Guard => proposal.id \notin Used)

=============================================================================
