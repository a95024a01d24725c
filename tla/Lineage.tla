------------------------------- MODULE Lineage -------------------------------
(***************************************************************************)
(* The evidence that accompanies delegated work: `admission`, then          *)
(* `execution-handoff` and its `--verify`, then `execution-result` and      *)
(* `lifecycle` (src/src/docsystem/admission.py, execution.py, lifecycle.py  *)
(* and their commands in cli.py). Every command only reads: the policy with *)
(* the catalog, the caller's JSON artifacts and the files in scope, one     *)
(* after the other, while the executor, the host and the maintainers write  *)
(* them. A hash stands for the value it is taken of.                        *)
(***************************************************************************)
EXTENDS Naturals, FiniteSets

CONSTANTS
  Paths,     \* files a request may put in scope
  Contents,  \* what a file may hold; absence is one of them
  Trees,     \* what the paths may hold at first
  Requests,  \* admission requests [scope, actions, targets]
  Policies,  \* admission criteria: the sets of actions they allow
  Records,   \* workstream records [ready, changes, independent]
  Nothing,   \* an artifact that was not written, or does not load
  MaxChanges \* bound on what others write

\* What the constants are taken to be: requests put known files in scope.
Shapes ==
  /\ Trees \subseteq [Paths -> Contents]
  /\ \A r \in Requests : DOMAIN r.scope \subseteq Paths

VARIABLES
  tree,     \* content of each path
  policy, mandate, request, packet, result, record, \* what stands on disk
  cmd,      \* the command that runs, with what it has read
  since,    \* contents each path has had since the command started
  changes

world == <<tree, policy, mandate, request, packet, result, record>>
vars == <<tree, policy, mandate, request, packet, result, record, cmd, since, changes>>

Idle == [doing |-> "idle", at |-> "idle"]
Here == [p \in Paths |-> {tree[p]}]

Init ==
  /\ tree \in Trees
  /\ policy \in Policies
  /\ mandate = [revision |-> 1, open |-> TRUE]
  /\ request \in Requests
  /\ packet = Nothing
  /\ result = Nothing
  /\ record \in Records \cup {Nothing}
  /\ cmd = Idle
  /\ since = Here
  /\ changes = 0

-----------------------------------------------------------------------------
(* What others write *)

Wrote ==
  /\ changes < MaxChanges
  /\ changes' = changes + 1

Edit ==
  /\ Wrote
  /\ \E p \in Paths, c \in Contents :
       /\ tree[p] # c
       /\ tree' = [tree EXCEPT ![p] = c]
       /\ since' = [since EXCEPT ![p] = @ \cup {c}]
  /\ UNCHANGED <<policy, mandate, request, packet, result, record, cmd>>

Govern ==
  /\ Wrote
  /\ \/ policy' \in Policies \ {policy} /\ UNCHANGED <<mandate, request>>
     \/ request' \in Requests \ {request} /\ UNCHANGED <<policy, mandate>>
     \/ mandate' = [revision |-> mandate.revision + 1, open |-> FALSE]
        /\ mandate.open /\ UNCHANGED <<policy, request>>
  /\ UNCHANGED <<tree, packet, result, record, cmd, since>>

\* The host keeps the packet that a handoff printed.
Persist ==
  /\ cmd.doing = "handoff" /\ cmd.at = "printed"
  /\ packet # cmd.packet
  /\ packet' = cmd.packet
  /\ UNCHANGED <<tree, policy, mandate, request, result, record, cmd, since, changes>>

\* An executor declares changed files, truly or not, for the packet it was given.
Partial(S) == UNION {[D -> Contents] : D \in SUBSET S}
Declare ==
  /\ Wrote
  /\ packet # Nothing
  /\ \E d \in Partial(Paths) : result' = [packet |-> packet, declared |-> d]
  /\ UNCHANGED <<tree, policy, mandate, request, packet, record, cmd, since>>

Evidence ==
  /\ Wrote
  /\ record' \in Records \ {record}
  /\ UNCHANGED <<tree, policy, mandate, request, packet, result, cmd, since>>

-----------------------------------------------------------------------------
(* The commands *)

Goto(rec) ==
  /\ cmd' = rec
  /\ UNCHANGED <<world, since, changes>>

Refuse == Goto([doing |-> cmd.doing, at |-> "refused"])

\* load_config and, of all but lifecycle, build_catalog with validation;
\* `execution-result` starts at the packet.
Start(what) ==
  /\ cmd.at \in {"idle", "refused", "printed"}
  /\ cmd' = [doing |-> what, at |-> IF what = "result" THEN "packet" ELSE "request",
             policy |-> policy, mandate |-> mandate, request |-> Nothing,
             packet |-> Nothing, result |-> Nothing, read |-> <<>>, blocked |-> FALSE]
  /\ since' = Here
  /\ UNCHANGED <<world, changes>>

\* load_request and evaluate_request: what the criterion does not allow blocks.
Blocked(r, p) == ~(r.actions \subseteq p)
Request ==
  /\ cmd.at = "request"
  /\ LET blocked == Blocked(request, cmd.policy) IN
     Goto([cmd EXCEPT !.request = request, !.blocked = blocked,
             !.at = IF cmd.doing = "lifecycle" THEN "packet" ELSE "scope"])

\* _validate_admission_source_scope: each file in scope, against its baseline.
Scope ==
  /\ cmd.at = "scope"
  /\ \E p \in (DOMAIN cmd.request.scope) \ DOMAIN cmd.read :
       IF tree[p] = cmd.request.scope[p]
         THEN Goto([cmd EXCEPT !.read = [q \in (DOMAIN cmd.read) \cup {p} |-> tree[p]]])
         ELSE Refuse

\* The mandate as the catalog had it, and the packet sealed over all of that.
Sealed == [request |-> cmd.request, mandate |-> cmd.mandate]

Admit ==
  /\ cmd.at = "scope"
  /\ DOMAIN cmd.read = DOMAIN cmd.request.scope
  /\ IF ~cmd.mandate.open \/ (cmd.doing # "admission" /\ cmd.blocked) THEN Refuse
     ELSE IF cmd.doing = "verify" THEN Goto([cmd EXCEPT !.at = "compare"])
     ELSE Goto([cmd EXCEPT !.at = "printed", !.packet = Sealed])

\* --verify: what stands against what was rebuilt.
Compare ==
  /\ cmd.at = "compare"
  /\ IF packet = Sealed THEN Goto([cmd EXCEPT !.at = "printed", !.packet = packet])
                        ELSE Refuse

\* load_packet and load_execution_result.
LoadPacket ==
  /\ cmd.at = "packet"
  /\ IF packet = Nothing THEN Refuse
     ELSE Goto([cmd EXCEPT !.packet = packet, !.at = "result"])

\* validate_execution_result, up to the files: the result names the packet,
\* which has a scope, and stays within it.
LoadResult ==
  /\ cmd.at = "result"
  /\ IF /\ result # Nothing
        /\ result.packet = cmd.packet
        /\ DOMAIN cmd.packet.request.scope # {}
        /\ DOMAIN result.declared \subseteq DOMAIN cmd.packet.request.scope
       THEN Goto([cmd EXCEPT !.result = result, !.at = "files"])
       ELSE Refuse

Hash ==
  /\ cmd.at = "files"
  /\ \E p \in (DOMAIN cmd.packet.request.scope) \ DOMAIN cmd.read :
       Goto([cmd EXCEPT !.read =
               [q \in (DOMAIN cmd.read) \cup {p} |-> IF q = p THEN tree[p] ELSE cmd.read[q]]])

\* What changed is what was declared, with the hashes declared.
Declared_Listed(current, base, declared) ==
  {p \in DOMAIN base : current[p] # base[p]} = DOMAIN declared
Declared(current, base, declared) ==
  /\ {p \in DOMAIN base : current[p] # base[p]} = DOMAIN declared
  /\ \A p \in DOMAIN declared : declared[p] = current[p]

Validate ==
  /\ cmd.at = "files"
  /\ DOMAIN cmd.read = DOMAIN cmd.packet.request.scope
  /\ IF ~Declared(cmd.read, cmd.packet.request.scope, cmd.result.declared) THEN Refuse
     ELSE Goto([cmd EXCEPT !.at = IF cmd.doing = "lifecycle" THEN "record" ELSE "printed"])

\* evaluate_lifecycle, on the record as it is now: the packet is the one of this
\* request. The mandate may have moved on.
Linked_ById(p, r) == p.request.targets = r.targets
Linked(p, r) == p.request = r

Lifecycle ==
  /\ cmd.at = "record"
  /\ IF /\ record # Nothing
        /\ ~cmd.blocked
        /\ Linked(cmd.packet, cmd.request)
        /\ record.ready /\ record.independent
        /\ cmd.request.targets \subseteq record.changes
       THEN Goto([cmd EXCEPT !.at = "printed"])
       ELSE Refuse

Next ==
  \/ Edit \/ Govern \/ Persist \/ Declare \/ Evidence
  \/ \E what \in {"admission", "handoff", "verify", "result", "lifecycle"} : Start(what)
  \/ Request \/ Scope \/ Admit \/ Compare \/ LoadPacket \/ LoadResult \/ Hash
  \/ Validate \/ Lifecycle

Spec == Init /\ [][Next]_vars

-----------------------------------------------------------------------------
(* Properties *)

Accepted == cmd.doing = "lifecycle" /\ cmd.at = "printed"

\* When `lifecycle` (and, of the files, `execution-result`) accepts, the lineage
\* is true of the tree: every file in the scope that was admitted stood, at some
\* moment of the command, as the result declares it, different from its
\* baseline, or at its baseline if the result does not list it; and the request
\* that the command judged by the policy of that moment is the very one the
\* packet was sealed for, whatever was written between handoff and lifecycle.
LineageIsTrue ==
  cmd.doing \in {"result", "lifecycle"} /\ cmd.at = "printed" =>
    LET base == cmd.packet.request.scope
        declared == cmd.result.declared IN
    /\ DOMAIN declared \subseteq DOMAIN base
    /\ \A p \in DOMAIN base :
         IF p \in DOMAIN declared
           THEN declared[p] # base[p] /\ declared[p] \in since[p]
           ELSE base[p] \in since[p]
    /\ Accepted =>
         /\ cmd.packet.request = cmd.request
         /\ cmd.request.actions \subseteq cmd.policy

=============================================================================
