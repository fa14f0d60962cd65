-------------------------- MODULE MCRotationStream --------------------------
(* RotationStream for TLC: two signers and two keys.  The rows exchange a key,
   remove and return a signer, leave a change unrecognised or have no height;
   the chain can come back to a set it had before. *)
EXTENDS RotationStream, TLC

CONSTANTS k1, k2

MCIndex == {1, 2}
MCKey   == {k1, k2}

Add(i, k) == [changes |-> (i :> k), seen |-> {i}, dated |-> TRUE]

MCRows ==
  {Add(1, k1), Add(1, k2),
   [changes |-> (1 :> NoKey) @@ (2 :> k2), seen |-> {1, 2}, dated |-> TRUE],
   [changes |-> (1 :> k1) @@ (2 :> NoKey), seen |-> {1}, dated |-> TRUE],
   [changes |-> (1 :> k1), seen |-> {1}, dated |-> FALSE]}

MCFirst == {EmptyTable, [i \in MCIndex |-> IF i = 1 THEN k1 ELSE NoKey]}

MCConfigs == {NoTable, [i \in MCIndex |-> IF i = 1 THEN k1 ELSE NoKey]}
=============================================================================
