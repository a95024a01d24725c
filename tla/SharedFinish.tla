---------------------------- MODULE SharedFinish ----------------------------
(***************************************************************************)
(* `federation finish` (src/src/docsystem/cli.py, shared_finish.py): one    *)
(* packet about the writes of a workstream in several sources, assembled    *)
(* without a lock from their journals while writes, recoveries and changes  *)
(* of the workspace manifest and the configurations go on.                  *)
(*                                                                         *)
(* The journals appear by what their readers see of one generation per      *)
(* source: Journal shows that this evidence is true and immutable, and      *)
(* Maintenance that a selected write is published under the authority it    *)
(* records. A generation without terminal evidence is refused like a        *)
(* missing one; `ours` is one of the workstream and manifest hash that the  *)
(* record declares.                                                         *)
(***************************************************************************)
EXTENDS Naturals, FiniteSets

CONSTANTS
  Sources,   \* the sources that are registered, as numbers
  Policies,  \* manifests: the sources with write = "managed-maintenance"
  Configs,   \* versions of a source's .docsystem.toml
  Unfit,     \* those that cannot be loaded
  Nothing,
  MaxChanges \* bound on the changes of these files

\* Sources are numbers, and no manifest is the value that stands for none.
Registered == Sources \subseteq Nat /\ Nothing \notin Policies

VARIABLES
  man,   \* workspace.toml
  cfg,   \* cfg[s]: .docsystem.toml of a source
  gen,   \* gen[s]: its generation in the journal
  rec,   \* rec[s]: the recovery record of that generation
  fin,   \* the finish command
  left   \* what is left of MaxChanges

vars == <<man, cfg, gen, rec, fin, left>>

World == [man |-> man, cfg |-> cfg]
NoGen == [state |-> "none", ours |-> FALSE, man |-> Nothing, cfg |-> Nothing]
Waiting ==
  [pc |-> "idle", rows |-> {}, ws |-> Nothing,
   hash |-> Nothing, conf |-> [s \in Sources |-> Nothing], todo |-> {},
   stood |-> {}, moved |-> {}, twice |-> FALSE, undone |-> {}]

Init ==
  /\ man \in Policies
  /\ cfg \in [Sources -> Configs \ Unfit]
  /\ gen = [s \in Sources |-> NoGen]
  /\ rec = [s \in Sources |-> "none"]
  /\ fin = Waiting
  /\ left = MaxChanges

-----------------------------------------------------------------------------
(* The journals and the files, as other commands and the operator move them *)

\* A write ends: of this workstream or another, selected through the workspace
\* or not, applied under the authority that stands, or rolled back.
Write(s) ==
  /\ gen[s].state = "none"
  /\ \/ s \in man /\ gen' = [gen EXCEPT ![s] =
            [state |-> "applied", ours |-> TRUE, man |-> man, cfg |-> cfg[s]]]
     \/ \E ours \in BOOLEAN, state \in {"applied", "rolled-back"} :
          gen' = [gen EXCEPT ![s] = [NoGen EXCEPT !.state = state, !.ours = ours]]
  /\ UNCHANGED <<man, cfg, rec, fin, left>>

\* A completed recovery creates its record, and later its terminal evidence.
Recover(s) ==
  /\ gen[s].state \in {"applied", "rolled-back"}
  /\ \/ rec[s] = "none" /\ rec' = [rec EXCEPT ![s] = "pending"]
     \/ rec[s] = "pending" /\ rec' = [rec EXCEPT ![s] = "recovered"]
  /\ UNCHANGED <<man, cfg, gen, fin, left>>

\* What the command's history notes of a change; file 0 is the manifest.
Noted(f, m, c) ==
  IF fin.pc = "idle" THEN fin
  ELSE [fin EXCEPT !.stood = @ \cup {[man |-> m, cfg |-> c]}, !.moved = @ \cup {f},
                   !.twice = @ \/ f \in fin.moved]

ChangeManifest ==
  /\ left > 0 /\ left' = left - 1
  /\ man' \in Policies \ {man}
  /\ fin' = Noted(0, man', cfg)
  /\ UNCHANGED <<cfg, gen, rec>>

Configure(s) ==
  /\ left > 0 /\ left' = left - 1
  /\ \E c \in Configs \ {cfg[s]} : cfg' = [cfg EXCEPT ![s] = c]
  /\ fin' = Noted(s, man, cfg')
  /\ UNCHANGED <<man, gen, rec>>

-----------------------------------------------------------------------------
(* federation finish *)

First(S) == CHOOSE x \in S : \A y \in S : x <= y
Goes(f) == fin' = f /\ UNCHANGED <<man, cfg, gen, rec, left>>
Refuses == Goes(Waiting)
\* The participants are taken in turn; after the last one comes a new phase.
Advance(f, pc, next, todo) ==
  IF fin.todo = {First(fin.todo)}
  THEN [f EXCEPT !.pc = next, !.todo = todo]
  ELSE [f EXCEPT !.pc = pc, !.todo = @ \ {First(@)}]

\* A record declares rows applied, or gives a reason why not; the others only
\* tell a partial packet from a complete one.
FStart ==
  /\ fin.pc = "idle"
  /\ \E rows \in (SUBSET Sources) \ {{}} :
       Goes([Waiting EXCEPT !.pc = "hash", !.ws = man, !.rows = rows,
               !.stood = {World}, !.undone = {s \in rows : rec[s] = "recovered"}])

FHash ==
  /\ fin.pc = "hash"
  /\ Goes([fin EXCEPT !.pc = "status", !.hash = man])

FStatus ==
  /\ fin.pc = "status"
  /\ IF \E s \in fin.rows : cfg[s] \in Unfit \/ s \notin fin.ws THEN Refuses
     ELSE Goes([fin EXCEPT !.todo = fin.rows,
                           !.pc = "config"])

FConfig ==
  LET s == First(fin.todo) IN
  /\ fin.pc = "config"
  /\ IF cfg[s] \in Unfit THEN Refuses
     ELSE Goes([fin EXCEPT !.pc = "evidence", !.conf[s] = cfg[s]])

\* inspect_generation and _verified_finish_evidence: the generation, and then
\* its recovery records, of which an unfinished one is an error.
FEvidence ==
  LET s == First(fin.todo) IN
  /\ fin.pc = "evidence"
  /\ IF gen[s] = [state |-> "applied", ours |-> TRUE,
                  man |-> fin.hash, cfg |-> fin.conf[s]]
     THEN Goes([fin EXCEPT !.pc = "records"])
     ELSE Refuses

FRecords_Finished ==
  /\ fin.pc = "records"
  /\ Goes(Advance(fin, "config", "manifest", fin.rows))

FRecords ==
  /\ fin.pc = "records"
  /\ IF rec[First(fin.todo)] # "none" THEN Refuses
     ELSE Goes(Advance(fin, "config", "manifest", fin.rows))

FManifest ==
  /\ fin.pc = "manifest"
  /\ IF man # fin.hash THEN Refuses
     ELSE Goes([fin EXCEPT !.pc = "recheck"])

FRecheck_NotCompared ==
  /\ fin.pc = "recheck"
  /\ Goes(Advance(fin, "recheck", "packet", {}))

FRecheck ==
  LET s == First(fin.todo) IN
  /\ fin.pc = "recheck"
  /\ IF cfg[s] # fin.conf[s] THEN Refuses
     ELSE Goes(Advance(fin, "recheck", "packet", {}))

\* The packet is printed, and is complete when every row is applied.
FPacket == fin.pc = "packet" /\ Goes(Waiting)

Next ==
  \/ \E s \in Sources : Write(s) \/ Recover(s) \/ Configure(s)
  \/ ChangeManifest
  \/ FStart \/ FHash \/ FStatus \/ FConfig \/ FEvidence \/ FRecords
  \/ FManifest \/ FRecheck \/ FPacket

Spec == Init /\ [][Next]_vars

-----------------------------------------------------------------------------
(* Properties *)

\* What a packet says of its applied participants is true of all of them
\* together: each is an applied write of this workstream that no recovery had
\* undone when the command began, and there was one moment of the command at
\* which the manifest and every participant's configuration were those the
\* writes were made under, and allowed them. Only a file that changed and
\* changed back in that time can make the moments differ.
PacketIsTrue ==
  fin.pc = "packet" =>
    /\ \A s \in fin.rows : gen[s].state = "applied" /\ gen[s].ours
    /\ fin.undone = {}
    /\ \/ fin.twice
       \/ \E w \in fin.stood : \A s \in fin.rows :
            gen[s].man = w.man /\ s \in w.man /\ gen[s].cfg = w.cfg[s]

=============================================================================
