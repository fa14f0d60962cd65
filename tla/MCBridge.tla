------------------------------ MODULE MCBridge ------------------------------
(* A short chain with a rotation at each of the blocks in RotationBlocks.  The
   sets are numbered in the order the chain introduces them; with SetCount
   below their number, an old set comes back. *)
EXTENDS Bridge

CONSTANTS RotationBlocks, SetCount

MCSigners ==
  [s \in 0 .. MaxSeq + 1 |->
     Cardinality({r \in RotationBlocks : r < s}) % SetCount]

MCCommitment == 0 .. SetCount - 1

MCZero == -1
=============================================================================
