------------------------------ MODULE MCJournal ------------------------------
(* Instances of Journal for TLC. *)
EXTENDS JournalInvariant, TLC

CONSTANTS p1, p2, g1, g2, c1, c2, c3, s1, s2, v1, v2

OneProc == {p1}
OneGen == {g1}
TwoGens == {g1, g2}
OnePath == {1}
TwoPaths == {1, 2}
TwoContents == {c1, c2}
ThreeContents == {c1, c2, c3}
Direct == {FALSE}
SelectedOnly == {TRUE}
OneStamp == {s1}
TwoStamps == {s1, s2}
OneAuth == {v1}
TwoAuths == {v1, v2}
WriteOnly == {"write"}
WriteAndCompleted == {"write", "completed"}

Symmetry ==
  Permutations(Procs) \cup Permutations(Gens) \cup Permutations(Contents)
    \cup Permutations(Stamps) \cup Permutations(Auths)
=============================================================================
