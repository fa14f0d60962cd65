---------------------------- MODULE BridgeState ----------------------------
(***************************************************************************)
(* `BridgeState` (bridge-prover-lib/src/bridge_state.rs) as both daemons   *)
(* hold it: one ring buffer per layer, the stored commitment and cursors,  *)
(* and the ring of recent self-verification outcomes.  One action per      *)
(* mutating method; the persisted file is a copy of this value, replaced   *)
(* atomically by save, and is modelled with the daemons that save it.      *)
(***************************************************************************)
EXTENDS HistoryWindow, FiniteSets

CONSTANT RecentBundlesCap    \* RECENT_BUNDLES_CAP

ASSUME CapAssumption == RecentBundlesCap \in Nat \ {0}

VARIABLES
  windows,      \* layer_windows
  stored,       \* the scalar fields of BridgeState
  recent        \* recent_bundles, oldest first

vars == <<windows, stored, recent>>

Stored ==
  [commitment  : AnyCommitment,
   lastSeq     : Nat,
   lastHeight  : Nat,
   initialized : BOOLEAN,
   updCursor   : Nat]

BundleResult == [seq : SeqNo, verify_ok : BOOLEAN]

(* BridgeState::new *)
Init ==
  /\ windows = [l \in Layers |-> NewWindow]
  /\ stored = [commitment |-> ZeroCommitment, lastSeq |-> 0, lastHeight |-> 0,
               initialized |-> FALSE, updCursor |-> 0]
  /\ recent = << >>

(* append_bundle.  A key block publishes a root for each layer up to its
   highest one, so the layers of `roots` are 1 .. n; none when the prover could
   not fetch them. *)
DoAppendBundle(roots, height, seq, c) ==
  /\ windows' = [l \in Layers |->
                   IF l \in DOMAIN roots
                   THEN WindowAppend(windows[l], roots[l], height)
                   ELSE windows[l]]
  /\ stored' = [stored EXCEPT !.commitment = c, !.lastSeq = seq,
                              !.lastHeight = height, !.initialized = TRUE]
  /\ UNCHANGED recent

(* apply_bk_set_update: refused (state unchanged) unless the update starts
   from the stored commitment and is newer than the last applied one. *)
DoApplyBkSetUpdate(old, new, seq) ==
  /\ old = stored.commitment
  /\ seq > stored.updCursor
  /\ stored' = [stored EXCEPT !.commitment = new, !.updCursor = seq]
  /\ UNCHANGED <<windows, recent>>

(* push_bundle_result: evict the oldest outcome once the cap is reached. *)
DoPushBundleResult(r) ==
  /\ recent' = Append(IF Len(recent) >= RecentBundlesCap THEN Tail(recent)
                                                        ELSE recent, r)
  /\ UNCHANGED <<windows, stored>>

Next ==
  \/ \E n \in 0 .. MaxLayers, height \in Height, seq \in SeqNo, c \in Commitment :
       \E roots \in [1 .. n -> Hash] : DoAppendBundle(roots, height, seq, c)
  \/ \E old \in AnyCommitment, new \in Commitment, seq \in SeqNo :
       DoApplyBkSetUpdate(old, new, seq)
  \/ \E r \in BundleResult : DoPushBundleResult(r)

Spec == Init /\ [][Next]_vars

-----------------------------------------------------------------------------
(* Readers of the state. *)

(* num_active_layers *)
NumActiveLayers == Cardinality({l \in Layers : windows[l].data_len > 0})

(* prev_max_level_layer_hash_for: the root Circuit 2 chains from when the
   new key block publishes n layers. *)
PrevMaxLevelLayerHashFor(n) ==
  LET t    == NumActiveLayers
      pick == IF n >= t THEN t ELSE n
  IN  IF t = 0 \/ pick = 0 \/ windows[pick].data_len = 0
      THEN ZeroHash
      ELSE WindowLatest(windows[pick])

-----------------------------------------------------------------------------
(* Properties. *)

(* Type invariant: slot arrays of width W, cursor inside the array, length
   at most W, and no more than RECENT_BUNDLES_CAP outcomes. *)
TypeOK ==
  /\ windows \in [Layers -> Window]
  /\ stored \in Stored
  /\ recent \in Seq(BundleResult) /\ Len(recent) <= RecentBundlesCap

(* A window that is not full has its cursor right behind its entries.  The
   chronological readers start at slot 0 until the window is full and at the
   cursor afterwards; they are right only because of this. *)
CursorAtLength ==
  \A l \in Layers : windows[l].data_len < W =>
                       windows[l].write_cursor = windows[l].data_len

(* The chain that Circuit 2 proves starts at the newest root of the highest
   layer the mirror knows, capped at the layers of the new key block: counting
   the non-empty windows finds that layer (real_chain_builder.rs relies on
   "count == max-index"). *)
ChainStartIsNewestRoot ==
  \A n \in Layers :
    LET known == {l \in Layers : l <= n /\ windows[l].data_len > 0}
    IN  known # {} =>
          \E top \in known :
             /\ \A l \in known : l <= top
             /\ LET view == Chronological(windows[top])
                IN  PrevMaxLevelLayerHashFor(n) = view[Len(view)].hash

(* The value the ring buffers stand for. *)
Abstract ==
  [recent      |-> [l \in Layers |-> Chronological(windows[l])],
   commitment  |-> stored.commitment,
   lastSeq     |-> stored.lastSeq,
   lastHeight  |-> stored.lastHeight,
   initialized |-> stored.initialized,
   updCursor   |-> stored.updCursor]

Contract == INSTANCE ContractMirror WITH mirror <- Abstract

(* The ring buffers implement the contract's history record: read in
   chronological order they hold exactly the newest W entries of each layer,
   across every wrap of the write cursor, and the commitment moves only by a
   bundle or along the chain of updates. *)
ImplementsContract == Contract!Spec
=============================================================================
