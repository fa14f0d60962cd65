--------------------------- MODULE MCBridgeState ---------------------------
(* Two layers of ring buffers of two slots, so that every window wraps. *)
EXTENDS BridgeState

CONSTANTS h0, h1, c1, zc

MCHash       == {h0, h1}
MCCommitment == {c1}
=============================================================================
