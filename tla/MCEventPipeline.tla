-------------------------- MODULE MCEventPipeline --------------------------
(* The event pipeline over the short chain of MCBridge. *)
EXTENDS EventPipeline

CONSTANTS RotationBlocks, SetCount

MCSigners ==
  [s \in 0 .. MaxSeq + 1 |->
     Cardinality({r \in RotationBlocks : r < s}) % SetCount]

MCCommitment == 0 .. SetCount - 1

MCZero == -1
=============================================================================
