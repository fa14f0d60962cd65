---------------------------- MODULE HistoryData ----------------------------
(***************************************************************************)
(* The bridge's history record as its readers see it: the value that the   *)
(* Rust `BridgeState` (bridge-prover-lib/src/bridge_state.rs) stands for   *)
(* once the ring buffers are read in chronological order.  It is the       *)
(* off-chain mirror of the contract's `GlobalHistoryData`.                 *)
(*                                                                         *)
(* The module holds operators only, so that the contract specification     *)
(* (ContractMirror), the ring-buffer implementation (BridgeState) and the  *)
(* two daemons (ProverDaemon, VerifierDaemon) share one vocabulary.        *)
(***************************************************************************)
EXTENDS Naturals, Sequences

CONSTANTS
  W,           \* HISTORY_PROOF_WINDOW_SIZE: entries kept per layer
  MaxLayers,   \* MAX_LAYERS: number of layer windows
  Hash,        \* layer root hashes
  Height,      \* thread-anchored block heights
  SeqNo,       \* block sequence numbers
  Commitment,  \* Poseidon commitments of block-keeper sets
  ZeroCommitment   \* the all-zero commitment of an uninitialised state

ASSUME WindowAssumption     == W \in Nat \ {0}
ASSUME LayersAssumption     == MaxLayers \in Nat \ {0}
ASSUME NumberAssumption     == Height \subseteq Nat /\ SeqNo \subseteq Nat
ASSUME CommitmentAssumption == ZeroCommitment \notin Commitment

Layers == 1 .. MaxLayers

AnyCommitment == Commitment \union {ZeroCommitment}

(* One slot of a window: the root and the thread-anchored block height of
   the key block that published it. *)
Entry == [hash : Hash, height : Height]

Mirror ==
  [recent      : [Layers -> Seq(Entry)],   \* per layer, oldest first
   commitment  : AnyCommitment,            \* stored_bk_set_commitment
   lastSeq     : Nat,                      \* stored_last_seen_block_seq_no
   lastHeight  : Nat,                      \* stored_last_seen_block_height
   initialized : BOOLEAN,
   updCursor   : Nat]                      \* stored_last_bk_set_update_seq_no

(* BridgeState::new *)
NewMirror ==
  [recent      |-> [l \in Layers |-> << >>],
   commitment  |-> ZeroCommitment,
   lastSeq     |-> 0,
   lastHeight  |-> 0,
   initialized |-> FALSE,
   updCursor   |-> 0]

(* Slip: a window that never drops its oldest entry. *)
PushForever(win, e) == Append(win, e)

(* A window keeps its newest W entries. *)
Push(win, e) ==
  IF Len(win) < W THEN Append(win, e) ELSE Append(Tail(win), e)

(* append_bundle.  `roots` maps the layers a key block published to their
   roots, and is empty when the prover could not fetch them; every root enters
   its own window under one height, and the cursors and the commitment are
   overwritten.  The update cursor is not touched. *)
AppendBundle(m, roots, height, seq, c) ==
  [recent      |-> [l \in Layers |->
                      IF l \in DOMAIN roots
                      THEN Push(m.recent[l], [hash |-> roots[l], height |-> height])
                      ELSE m.recent[l]],
   commitment  |-> c,
   lastSeq     |-> seq,
   lastHeight  |-> height,
   initialized |-> TRUE,
   updCursor   |-> m.updCursor]

(* The preconditions of apply_bk_set_update, and its effect. *)
CanApplyUpdate(m, old, seq) ==
  /\ old = m.commitment
  /\ seq > m.updCursor

(* Slip: the update cursor is not moved with the commitment. *)
ApplyUpdateKeepingCursor(m, new, seq) == [m EXCEPT !.commitment = new]

ApplyBkSetUpdate(m, new, seq) ==
  [recent      |-> m.recent,
   commitment  |-> new,
   lastSeq     |-> m.lastSeq,
   lastHeight  |-> m.lastHeight,
   initialized |-> m.initialized,
   updCursor   |-> seq]

(* The newest root of a layer's window; only for a layer that has one. *)
LatestHash(win) == win[Len(win)].hash
=============================================================================
