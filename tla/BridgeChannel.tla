--------------------------- MODULE BridgeChannel ---------------------------
(***************************************************************************)
(* What the prover daemon and the verifier daemon share.                   *)
(*                                                                         *)
(* The chain: blocks 0 .. MaxSeq, of which the first `head` are visible.   *)
(* Every block commits to the block-keeper set that signed it (leaf L2)    *)
(* and to the set that signs its successor (leaf L3); they differ at a     *)
(* rotation.  A key block publishes the layer roots of LayerChain.         *)
(*                                                                         *)
(* The files: state/bootstrap_seed.json is replaced atomically (write to   *)
(* .tmp, rename).  The four kinds of files under proofs/ are written with  *)
(* fs::write (bridge-prover-lib/src/ipc.rs), which truncates first: a      *)
(* reader, or a crash, can catch a file between the truncation and the     *)
(* last byte.  Such a file exists and does not parse; it is "torn".        *)
(* No file is ever deleted.                                                *)
(***************************************************************************)
EXTENDS Integers, Sequences, FiniteSets

CONSTANTS
  W,               \* HISTORY_PROOF_WINDOW_SIZE
  P,               \* THINNING_FACTOR_P: every P-th key block is proven
  MaxLayers,       \* MAX_LAYERS
  MaxChainLen,     \* MAX_CHAIN_LEN
  MaxSeq,          \* last block of the chain (bound of the model)
  Head0,           \* chain head when the daemons are first started
  Commitment,      \* commitments of block-keeper sets
  ZeroCommitment,  \* the commitment of a state that was never initialised
  Signers,         \* for each block the set that signs it
  FallbackBlocks,  \* blocks finalised via the fallback path
  MaxFaults        \* bound on crashes, failed queries and torn writes

ASSUME ChainAssumption ==
  /\ W \in Nat \ {0} /\ P \in Nat \ {0}
  /\ MaxLayers \in Nat \ {0} /\ MaxChainLen \in Nat
  /\ MaxSeq \in Nat /\ Head0 \in 0 .. MaxSeq
  /\ Signers \in [0 .. MaxSeq + 1 -> Commitment] /\ ZeroCommitment \notin Commitment
  /\ FallbackBlocks \subseteq 0 .. MaxSeq
ASSUME FaultAssumption == MaxFaults \in Nat

Blocks == 0 .. MaxSeq

(* Distance of two proven key blocks. *)
Step == W * P

INSTANCE LayerChain
  WITH Hash <- (1 .. MaxLayers) \X Blocks, Height <- Blocks, SeqNo <- Blocks

VARIABLES
  head,        \* newest visible block
  seedFile,    \* state/bootstrap_seed.json
  proofs,      \* proofs/proof_NNN.json, by key block
  results,     \* proofs/result_NNN.json
  bkupds,      \* proofs/bkupd_NNN.json, by rotation block
  bkResults,   \* proofs/bkupd_result_NNN.json
  faults       \* how many faults have happened

fileVars == <<seedFile, proofs, results, bkupds, bkResults>>

-----------------------------------------------------------------------------
(* The chain. *)

(* Leaves 2 and 3 of the block-id tree of block s. *)
L2(s) == Signers[s]
L3(s) == Signers[s + 1]

Rotations == {s \in Blocks : L3(s) # L2(s)}

(* Layer roots published by key block s. *)
Roots(s) == [l \in LayersOf(s) |-> <<l, s>>]
NoRoots  == << >>

(* Slip: one step too far. *)
NextKeyBlockButOne(last) == ((last \div Step) + 2) * Step

(* find_next_thinned_key_block, before the comparison with the chain head:
   the next multiple of the step strictly after the cursor. *)
NextKeyBlock(last) == ((last \div Step) + 1) * Step

(* Slip: the newest rotation past the cursor, not the oldest. *)
NewestUpdate(u, cursor) ==
  /\ u \in Rotations /\ cursor < u /\ u <= head
  /\ \A r \in Rotations : cursor < r /\ r <= head => r <= u

(* Slip: the comparison with the cursor is not strict. *)
NextUpdateInclusive(u, cursor) ==
  /\ u \in Rotations /\ cursor <= u /\ u <= head
  /\ \A r \in Rotations : cursor <= r /\ r <= head => u <= r

(* next_update_after: the oldest visible rotation past the cursor. *)
NextUpdate(u, cursor) ==
  /\ u \in Rotations /\ cursor < u /\ u <= head
  /\ \A r \in Rotations : cursor < r /\ r <= head => u <= r

-----------------------------------------------------------------------------
(* The files. *)

Status == {"absent", "torn", "whole"}

Seed ==
  [present : BOOLEAN, seq : Blocks, commitment : AnyCommitment]

(* fetch_attestation_evidence: one attestation, or a primary and a fallback
   one.  They are proven by different circuits with keys of their own. *)
Circuits == {"primary", "fallback"}
EvidenceCircuit(s) == IF s \in FallbackBlocks THEN "fallback" ELSE "primary"

(* ProofRequest.  `circuit` tags the attestation proof.  `valid`: the chain
   ends in the root that the key block published, which is when Circuit 2
   verifies. *)
ProofFile ==
  [status : Status, commitment : AnyCommitment, circuit : Circuits, valid : BOOLEAN]

(* BkUpdateRequest *)
BkUpdateFile ==
  [status : Status, old : AnyCommitment, new : AnyCommitment]

(* VerifyResult and BkUpdateResult: `ok` is the conjunction of the flags. *)
ResultFile == [status : Status, ok : BOOLEAN]

NoSeed     == [present |-> FALSE, seq |-> 0, commitment |-> ZeroCommitment]
NoProof    == [status |-> "absent", commitment |-> ZeroCommitment,
               circuit |-> "primary", valid |-> FALSE]
TornProof  == [status |-> "torn", commitment |-> ZeroCommitment,
               circuit |-> "primary", valid |-> FALSE]
NoBkUpdate   == [status |-> "absent", old |-> ZeroCommitment, new |-> ZeroCommitment]
TornBkUpdate == [status |-> "torn", old |-> ZeroCommitment, new |-> ZeroCommitment]
NoResult   == [status |-> "absent", ok |-> FALSE]
TornResult == [status |-> "torn", ok |-> FALSE]

Exists(f) == f.status # "absent"
Verdict(ok) == [status |-> "whole", ok |-> ok]

(* Both proofs of a request verify when the attestation proof is checked with
   the key of the circuit `key`. *)
Verifies(req, key) == req.status = "whole" /\ req.valid /\ req.circuit = key

(* A reader that finds a torn file gets a parse error, never a verdict. *)
Accepted(f) == f.status = "whole" /\ f.ok

-----------------------------------------------------------------------------
(* The environment. *)

ChannelInit ==
  /\ head = Head0
  /\ seedFile = NoSeed
  /\ proofs = [s \in Blocks |-> NoProof]
  /\ results = [s \in Blocks |-> NoResult]
  /\ bkupds = [s \in Blocks |-> NoBkUpdate]
  /\ bkResults = [s \in Blocks |-> NoResult]
  /\ faults = 0

(* One of the bounded faults happens in this step. *)
Fault == faults < MaxFaults /\ faults' = faults + 1

ChannelTypeOK ==
  /\ head \in Blocks
  /\ seedFile \in Seed
  /\ proofs \in [Blocks -> ProofFile]
  /\ results \in [Blocks -> ResultFile]
  /\ bkupds \in [Blocks -> BkUpdateFile]
  /\ bkResults \in [Blocks -> ResultFile]
  /\ faults \in 0 .. MaxFaults
=============================================================================
