---------------------------- MODULE MCProjection ----------------------------
(* An instance of Projection for TLC. *)
EXTENDS Projection

CONSTANTS a, c, k1, k2, w1, r1

OneDoc == {1}
TwoContents == {a, c}
SecondFaulty == {c}
TwoConfigs == {k1, k2}
OneWriter == {w1}
OneReader == {r1}
LiveOnly == {"live"}

=============================================================================
