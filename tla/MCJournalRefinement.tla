------------------------- MODULE MCJournalRefinement -------------------------
(* Instances of JournalRefinement for TLC. *)
EXTENDS JournalRefinement, JournalInvariant, TLC

CONSTANTS p1, p2, g1, g2, c1, c2, s1, v1, v2

OneProc == {p1}
TwoProcs == {p1, p2}
TwoGens == {g1, g2}
TwoPaths == {1, 2}
OneContent == {c1}
Direct == {FALSE}
OneStamp == {s1}
OneAuth == {v1}
WriteAndInterrupted == {"write", "interrupted"}
WriteAndCompleted == {"write", "completed"}

Symmetry == Permutations(Procs) \cup Permutations(Gens)
              \cup Permutations(Contents) \cup Permutations(Auths)
=============================================================================
