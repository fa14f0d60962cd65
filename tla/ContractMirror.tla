--------------------------- MODULE ContractMirror ---------------------------
(***************************************************************************)
(* What the bridge promises about its history record, without saying how   *)
(* it is stored: a bundle of layer roots is pushed into windows that keep  *)
(* the newest W entries, and a block-keeper-set update moves the           *)
(* commitment forward along the chain of updates.  BridgeState implements  *)
(* it with ring buffers.                                                   *)
(***************************************************************************)
EXTENDS HistoryData

VARIABLE mirror

Init == mirror = NewMirror

AppendStep ==
  \E n \in 0 .. MaxLayers, height \in Height, seq \in SeqNo, c \in Commitment :
     \E roots \in [1 .. n -> Hash] :
        mirror' = AppendBundle(mirror, roots, height, seq, c)

UpdateStep ==
  \E new \in Commitment, seq \in SeqNo :
     /\ seq > mirror.updCursor
     /\ mirror' = ApplyBkSetUpdate(mirror, new, seq)

Next == AppendStep \/ UpdateStep

Spec == Init /\ [][Next]_mirror
=============================================================================
