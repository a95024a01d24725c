-------------------------- MODULE MCBoundedExecution --------------------------
(* A call of the MCP adapter whose wrapper is interrupted, for TLC. *)
EXTENDS BoundedExecution

BothStreams == {"stdout", "stderr"}
TwoUnits == [n \in Streams |-> 2]
=============================================================================
