------------------------- MODULE AttestationEvidence -------------------------
(***************************************************************************)
(* The attestations of a block as the GraphQL client returns them, how     *)
(* fetch_attestation_evidence classifies them, and what a proof made from  *)
(* them establishes.                                                       *)
(*                                                                         *)
(* A row is one entry of Block.attestations[]: its target type, the block  *)
(* it attests, the number of distinct signers and the sum of the           *)
(* occurrence counts (the aggregate may hold a signer more than once).     *)
(* A row that cannot be parsed has type "unparsable".                      *)
(***************************************************************************)
EXTENDS Integers, Sequences

CONSTANT SetSize      \* number N of block keepers

ASSUME SetSizeAssumption == SetSize \in Nat \ {0}

TargetTypes == {"PRIMARY", "FALLBACK", "unparsable"}

Row == [type : TargetTypes, block_id : Nat, signers : 1 .. SetSize, occurrences : Nat]

Attestation(type, id, signers, occurrences) ==
  [type |-> type, block_id |-> id, signers |-> signers, occurrences |-> occurrences]

Entries(rows, type) == {i \in DOMAIN rows : rows[i].type = type}

(* Exactly one PRIMARY entry and nothing else. *)
IsPrimaryEvidence(rows) == Len(rows) = 1 /\ Entries(rows, "PRIMARY") = {1}

(* Slip: only one of the two orders is accepted. *)
IsFallbackFirst(rows) ==
  /\ Len(rows) = 2
  /\ rows[1].type = "FALLBACK" /\ rows[2].type = "PRIMARY"
  /\ rows[1].block_id = rows[2].block_id

(* A PRIMARY and a FALLBACK entry for the same block, in either order. *)
IsFallbackEvidence(rows) ==
  /\ Len(rows) = 2
  /\ \E i, j \in 1 .. 2 :
       /\ Entries(rows, "PRIMARY") = {i} /\ Entries(rows, "FALLBACK") = {j}
       /\ rows[i].block_id = rows[j].block_id

(* Everything else, no entry at all included, is an error. *)
Usable(rows) == IsPrimaryEvidence(rows) \/ IsFallbackEvidence(rows)

(* Slip: the circuit is told from the number of signers, not from the shape. *)
CircuitOfBySigners(rows) ==
  IF \E i \in DOMAIN rows : 3 * rows[i].signers >= 2 * SetSize
  THEN "primary" ELSE "fallback"

CircuitOf(rows) == IF IsFallbackEvidence(rows) THEN "fallback" ELSE "primary"

PrimaryEntry(rows) == rows[CHOOSE i \in Entries(rows, "PRIMARY") : TRUE]

-----------------------------------------------------------------------------
(* The sequence number inside the attestation.  The GraphQL row has none, so
   the client writes 0 and the fetcher patches the number in. *)

SeqNoOffset == 80     \* of the sequence number, in the attestation data

(* Start of the attestation data behind n signer entries of 4 bytes. *)
DataOffset(n) == 208 + 4 * n

(* parse_block_attestation writes one entry per distinct signer. *)
RawLength(row) == DataOffset(row.signers) + SeqNoOffset + 4 + 32 + 4

(* patch_seq_no_in_raw_bytes counts the occurrences, and patches nothing when
   that leads past the end. *)
PatchOffset(row) == DataOffset(row.occurrences) + SeqNoOffset

Patched(row) == PatchOffset(row) + 4 <= RawLength(row)

(* Slip: the bytes are not patched. *)
SeqNoUnpatched(row, seq) == 0

(* extract_block_seq_no counts the entries.  All fields are multiples of four
   bytes long, so the patch hits the slot or leaves it as it is. *)
SeqNoRead(row, seq) ==
  IF Patched(row) /\ PatchOffset(row) = DataOffset(row.signers) + SeqNoOffset
  THEN seq ELSE 0

(* The patch went into another field, and what was signed is not what the
   bytes say any more. *)
Overwritten(row) == Patched(row) /\ PatchOffset(row) # DataOffset(row.signers) + SeqNoOffset

-----------------------------------------------------------------------------
(* The circuits. *)

(* Circuit 1a wants two thirds of the set, Circuit 1b more than half of it in
   both attestations. *)
EnoughSigners(circuit, rows) ==
  IF circuit = "primary"
  THEN 3 * PrimaryEntry(rows).signers >= 2 * SetSize
  ELSE \A i \in DOMAIN rows : 2 * rows[i].signers > SetSize

(* The witness is not checked when a proof is made; one that breaks a
   constraint, or has another public instance than the verifier computes from
   the number of the block, gives a proof that does not verify. *)
EvidenceProves(rows, seq) ==
  /\ EnoughSigners(CircuitOf(rows), rows)
  /\ SeqNoRead(PrimaryEntry(rows), seq) = seq
  /\ \A i \in DOMAIN rows : ~Overwritten(rows[i])
=============================================================================
