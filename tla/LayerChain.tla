----------------------------- MODULE LayerChain -----------------------------
(***************************************************************************)
(* The layers of the chain's history, and the chain of Merkle paths that   *)
(* Circuit 2 walks from a root the mirror holds to the highest root of a   *)
(* new key block (bridge-prover-lib/src/real_chain_builder.rs).            *)
(*                                                                         *)
(* Layer l has a root at every block that W^l divides.  The tree under it  *)
(* holds the layer's previous root (leaf 1) and, for l > 1, the last W     *)
(* roots of layer l-1, its own block's included.  A root is named by its   *)
(* layer and block; block 0 names the zero hash where there is none yet.   *)
(*                                                                         *)
(* The builder has the leaves from the node, except for the one it chains  *)
(* through; a rebuilt tree has the node's root exactly when that leaf is   *)
(* the node's leaf.  Operators only.                                       *)
(***************************************************************************)
EXTENDS HistoryData, Integers, FiniteSets

CONSTANT MaxChainLen    \* MAX_CHAIN_LEN: links Circuit 2 has room for

(* The powers of the window width. *)
spans[l \in 0 .. MaxLayers] == IF l = 0 THEN 1 ELSE W * spans[l - 1]

(* Distance of two roots of layer l. *)
Span(l) == spans[l]

LayersOf(b) == {l \in Layers : b % Span(l) = 0}

NumLayers(b) == Cardinality(LayersOf(b))

(* The node's leaf 1 of the tree of layer l at block b. *)
PrevSameLayerRoot(l, b) == <<l, b - Span(l)>>

(* build_layer_n_leaves: the roots of the layer below. *)
DataLeaves(l, b) == {<<l - 1, b - i * Span(l - 1)>> : i \in 0 .. W - 1}

-----------------------------------------------------------------------------
(* What the mirror m offers. *)

(* num_active_layers *)
NumActiveLayers(m) == Cardinality({l \in Layers : m.recent[l] # << >>})

(* Slip: always the newest root of the highest layer. *)
PrevHashHighest(m, n) ==
  LET t == NumActiveLayers(m)
  IN  IF t = 0 THEN <<n, 0>> ELSE LatestHash(m.recent[t])

(* prev_max_level_layer_hash_for: the newest root of the highest layer, or of
   layer n if the new key block goes no higher; zero when there is nothing. *)
PrevHash(m, n) ==
  LET t == NumActiveLayers(m)
      l == IF n >= t THEN t ELSE n
  IN  IF l = 0 THEN <<n, 0>> ELSE LatestHash(m.recent[l])

(* The key block publishes more layers than the mirror has roots of. *)
NewLayerAppeared(m, b) ==
  NumLayers(b) > NumActiveLayers(m) /\ NumActiveLayers(m) > 0

-----------------------------------------------------------------------------
(* build_chain_same_layer: one link per root of the layer from the last seen
   block on, always ending in the target. *)

(* Slip: the target is in the chain only if the steps happen to meet it. *)
ChainBlocksWithoutTarget(last, b) ==
  LET step == Span(NumLayers(b))
  IN  {k \in last + step .. b : (k - last) % step = 0 /\ k % step = 0}

ChainBlocks(last, b) ==
  LET step == Span(NumLayers(b))
  IN  {k \in last + step .. b : (k - last) % step = 0 /\ k % step = 0}
        \union {b}

(* Slip: the first link need not start at the mirror's root. *)
SameLayerClosesUnanchored(m, b) ==
  LET n    == NumLayers(b)
      keys == ChainBlocks(m.lastSeq, b)
  IN  \A k \in keys : PrevSameLayerRoot(n, k) \in {n} \X (keys \union 0 .. m.lastSeq)

(* Every link has the root before it as its leaf: the mirror's, or the one of
   the previous link. *)
SameLayerCloses(m, b) ==
  LET n    == NumLayers(b)
      keys == ChainBlocks(m.lastSeq, b)
  IN  \A k \in keys :
        PrevSameLayerRoot(n, k) \in ({n} \X keys) \union {PrevHash(m, n)}

(* build_chain_for_new_layer: a single link, through the data leaf that holds
   the mirror's newest root; leaf 1 is taken to be zero. *)
FoundInNewLayer(m, b) == PrevHash(m, NumLayers(b)) \in DataLeaves(NumLayers(b), b)

NewLayerCloses(m, b) == PrevSameLayerRoot(NumLayers(b), b)[2] = 0

-----------------------------------------------------------------------------
(* build_real_chain: a chain can be built, and (when it can) it ends in the
   root the key block published, so that Circuit 2 verifies. *)
Buildable(m, b) ==
  IF NewLayerAppeared(m, b)
  THEN FoundInNewLayer(m, b)
  ELSE /\ ChainBlocks(m.lastSeq, b) # {}
       /\ Cardinality(ChainBlocks(m.lastSeq, b)) <= MaxChainLen

Closes(m, b) ==
  IF NewLayerAppeared(m, b) THEN NewLayerCloses(m, b) ELSE SameLayerCloses(m, b)
=============================================================================
