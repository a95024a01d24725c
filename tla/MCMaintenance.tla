---------------------------- MODULE MCMaintenance ----------------------------
(* Instances of Maintenance for TLC. *)
EXTENDS Maintenance, TLC

CONSTANTS s1, s2, g1, g2, b1, b2, k1, k2, m1, m2

TwoSessions == {s1, s2}
TwoGens == {g1, g2}
OneDoc == {1}
SourceDoc == 0
TwoBlocks == {b1, b2}
OneConfig == {k1}
\* The second configuration excludes the last document.
OneExcluded == [c \in Configs |-> IF c = k1 THEN Docs ELSE {1}]
TwoManifests == {m1, m2}
FirstManaged == {m1}

Symmetry == Permutations(Sessions) \cup Permutations(Gens)
              \cup Permutations(Blocks)

\* A command that was selected by a workspace has left a trace.
SelectedUsed ==
  \/ \E s \in Sessions : sess[s].selected
  \/ \E g \in Gens : gen[g] # None /\ gen[g].sha # None
  \/ approved # None /\ approved.man # None

\* Either two commands of both kinds while the manifest may change, or three
\* direct ones while it stands; a manifest that nobody has read yet may as
\* well have been the first.
Explored ==
  /\ left["start"] = 0 => left["auth"] = MaxAuths /\ ~SelectedUsed
  /\ left["auth"] = MaxAuths \/ SelectedUsed
=============================================================================
