--------------------------- MODULE KeyBlockProving ---------------------------
(***************************************************************************)
(* What the prover daemon does between two key blocks: its start-up with   *)
(* the generation of the keys, and for each key block the attestation      *)
(* evidence, the two proofs and the proving keys it holds meanwhile.       *)
(* Bridge models the same daemon over what the proofs establish; here they *)
(* are made.  The key blocks are numbered 1 .. MaxBlock; rotations, chain  *)
(* proofs and verdicts are left to Bridge.                                 *)
(*                                                                         *)
(* The chain finalises a block by one attestation of two thirds of the set *)
(* or, the deadline passed, by a prefinalisation of more than half of it   *)
(* (type PRIMARY) and later a second attestation (type FALLBACK).          *)
(***************************************************************************)
EXTENDS KeyCache, AttestationEvidence, FiniteSets

CONSTANTS
  MaxBlock,      \* last key block (bound of the model)
  Finality,      \* the ways in which a block may be finalised
  Malformed,     \* answers to the attestation query that are not a block's rows
  MaxFaults,     \* bound on crashes, failed proofs and malformed answers
  MaxLostWrites  \* bound on write errors that go unnoticed

(* A block's finality: its path and, for the entries, the number of signers
   and of occurrences. *)
FinalityRecord ==
  [path : {"primary", "fallback"}, signers : 1 .. SetSize, occurrences : Nat]

ASSUME ProvingAssumption ==
  /\ MaxBlock \in Nat /\ MaxFaults \in Nat /\ MaxLostWrites \in Nat
  /\ Circuit = {"primary", "fallback", "layer"}
  /\ Finality \subseteq FinalityRecord
  /\ \A f \in Finality : IF f.path = "primary" THEN 3 * f.signers >= 2 * SetSize
                                               ELSE 2 * f.signers > SetSize
  /\ Malformed \subseteq Seq(Row) /\ \A rows \in Malformed : ~Usable(rows)

VARIABLES
  finality,    \* how each block is finalised
  shown,       \* how many of its attestations the chain has committed
  pc,          \* where the daemon is
  ensuring,    \* the circuit whose keys are being ensured
  last,        \* stored_last_seen_block_seq_no
  evidence,    \* the rows the daemon has classified
  sent,        \* the proof requests written so far
  faults, lostWrites

chainVars   == <<finality, shown>>
sessionVars == <<pc, ensuring, last, evidence, sent>>
vars == <<keyFiles, keyMemory, chainVars, sessionVars, faults, lostWrites>>

Blocks == 1 .. MaxBlock

(* main ensures the keys of the circuits in this order. *)
Ensured == <<"primary", "fallback", "layer">>

PC ==
  {"down",       \* not running
   "ensure",     \* about to ensure the keys of Ensured[ensuring]
   "savePk",     \* generated, verifying key saved
   "saveConfig", \* proving key saved as well
   "idle",       \* top of the main loop
   "evidence",   \* evidence classified, proving key not loaded
   "attest",     \* proving the attestation
   "bundle",     \* attestation proven, its key unloaded
   "layer",      \* proving the layer movement
   "request",    \* both proven, request not yet written
   "wait"}       \* request written, no verdict yet

(* A request: the circuit tag, and whether its attestation proof verifies. *)
Request == [circuit : {"none", "primary", "fallback"}, verifies : BOOLEAN]

NoRequest == [circuit |-> "none", verifies |-> FALSE]

TypeOK ==
  /\ KeyCacheTypeOK
  /\ finality \in [Blocks -> Finality]
  /\ shown \in [Blocks -> 0 .. 2]
  /\ pc \in PC /\ ensuring \in 1 .. 3
  /\ last \in 0 .. MaxBlock
  /\ evidence \in Seq(Row)
  /\ sent \in [Blocks -> Request]
  /\ faults \in 0 .. MaxFaults /\ lostWrites \in 0 .. MaxLostWrites

Init ==
  /\ KeyCacheInit
  /\ finality \in [Blocks -> Finality]
  /\ shown = [b \in Blocks |-> 0]
  /\ pc = "down" /\ ensuring = 1
  /\ last = 0 /\ evidence = << >>
  /\ sent = [b \in Blocks |-> NoRequest]
  /\ faults = 0 /\ lostWrites = 0

Fault == faults < MaxFaults /\ faults' = faults + 1 /\ UNCHANGED lostWrites
NoFault == UNCHANGED <<faults, lostWrites>>

-----------------------------------------------------------------------------
(* The chain. *)

FinalAt(b) == IF finality[b].path = "primary" THEN 1 ELSE 2

(* A later block commits the next attestation of block b. *)
Attest(b) ==
  /\ shown[b] < FinalAt(b)
  /\ shown' = [shown EXCEPT ![b] = @ + 1]
  /\ UNCHANGED <<keyFiles, keyMemory, finality, sessionVars>>
  /\ NoFault

(* The first n attestations of block b, as rows. *)
FirstRows(b, n) ==
  LET f == finality[b]
  IN  [i \in 1 .. n |->
         Attestation(IF i = 1 THEN "PRIMARY" ELSE "FALLBACK", b, f.signers, f.occurrences)]

(* What the attestation query answers with. *)
Rows(b) == FirstRows(b, shown[b])

-----------------------------------------------------------------------------
(* Start-up. *)

Start ==
  /\ pc = "down"
  /\ NewKeyManager
  /\ pc' = "ensure" /\ ensuring' = 1
  /\ UNCHANGED <<keyFiles, chainVars, last, evidence, sent>>
  /\ NoFault

(* Slip: one circuit too many. *)
EnsureOneMore ==
  IF ensuring <= 3 THEN pc' = "ensure" /\ ensuring' = ensuring + 1
                   ELSE pc' = "idle" /\ ensuring' = 1

EnsureNext ==
  IF ensuring < 3 THEN pc' = "ensure" /\ ensuring' = ensuring + 1
                  ELSE pc' = "idle" /\ ensuring' = 1

KeysReady ==
  /\ pc = "ensure" /\ Available(Ensured[ensuring])
  /\ EnsureNext
  /\ UNCHANGED <<keyFiles, keyMemory, chainVars, last, evidence, sent>>
  /\ NoFault

(* Slip: the configuration is written with the verifying key. *)
GenerateVkAndConfig(status) ==
  /\ pc = "ensure" /\ ~Available(Ensured[ensuring])
  /\ SaveVk(Ensured[ensuring], status)
  /\ SaveConfig(Ensured[ensuring], "whole")
  /\ pc' = "savePk"
  /\ UNCHANGED <<pkFile, keyMemory, chainVars, ensuring, last, evidence, sent>>

(* Keygen, then the three files one after the other. *)
GenerateVk(status) ==
  /\ pc = "ensure" /\ ~Available(Ensured[ensuring])
  /\ SaveVk(Ensured[ensuring], status)
  /\ pc' = "savePk"
  /\ UNCHANGED <<pkFile, cfgFile, keyMemory, chainVars, ensuring, last, evidence, sent>>

GeneratePk(status) ==
  /\ pc = "savePk"
  /\ SavePk(Ensured[ensuring], status)
  /\ pc' = "saveConfig"
  /\ UNCHANGED <<vkFile, cfgFile, keyMemory, chainVars, ensuring, last, evidence, sent>>

GenerateConfig ==
  /\ pc = "saveConfig"
  /\ SaveConfig(Ensured[ensuring], "whole")
  /\ Keep(Ensured[ensuring])
  /\ EnsureNext
  /\ UNCHANGED <<vkFile, pkFile, chainVars, last, evidence, sent>>
  /\ NoFault

(* save_vk and save_pk write through a BufWriter that is dropped, not flushed:
   an error on its last buffer is lost, and the file torn. *)
LoseWrite ==
  /\ lostWrites < MaxLostWrites
  /\ GenerateVk("torn") \/ GeneratePk("torn")
  /\ lostWrites' = lostWrites + 1
  /\ UNCHANGED faults

Generate ==
  \/ (GenerateVk("whole") \/ GeneratePk("whole")) /\ NoFault
  \/ GenerateConfig

-----------------------------------------------------------------------------
(* The main loop. *)

Target == last + 1

(* fetch_attestation_evidence returns evidence, not an error. *)
FetchEvidence ==
  /\ pc = "idle" /\ Target \in Blocks
  /\ Usable(Rows(Target))
  /\ evidence' = Rows(Target)
  /\ pc' = "evidence"
  /\ UNCHANGED <<keyFiles, keyMemory, chainVars, ensuring, last, sent>>
  /\ NoFault

(* A malformed answer; a usable one would be taken. *)
FetchMalformed(rows) ==
  /\ pc = "idle" /\ Target \in Blocks
  /\ IF Usable(rows) THEN evidence' = rows /\ pc' = "evidence"
                         ELSE UNCHANGED <<evidence, pc>>
  /\ Fault
  /\ UNCHANGED <<keyFiles, keyMemory, chainVars, ensuring, last, sent>>

Attesting == CircuitOf(evidence)

LoadAttestationPk ==
  /\ pc = "evidence" /\ Loadable(Attesting)
  /\ LoadPk(Attesting)
  /\ pc' = "attest"
  /\ UNCHANGED <<keyFiles, vkMem, cfgMem, chainVars, ensuring, last, evidence, sent>>
  /\ NoFault

(* generate_primary_proof or generate_fallback_proof, and the key is unloaded. *)
ProveAttestation ==
  /\ pc = "attest"
  /\ UnloadPk(Attesting)
  /\ pc' = "bundle"
  /\ UNCHANGED <<keyFiles, vkMem, cfgMem, chainVars, ensuring, last, evidence, sent>>
  /\ NoFault

LoadLayerPk ==
  /\ pc = "bundle" /\ Loadable("layer")
  /\ LoadPk("layer")
  /\ pc' = "layer"
  /\ UNCHANGED <<keyFiles, vkMem, cfgMem, chainVars, ensuring, last, evidence, sent>>
  /\ NoFault

ProveLayer ==
  /\ pc = "layer"
  /\ UnloadPk("layer")
  /\ pc' = "request"
  /\ UNCHANGED <<keyFiles, vkMem, cfgMem, chainVars, ensuring, last, evidence, sent>>
  /\ NoFault

(* A proof could not be made: the key is unloaded, the block skipped. *)
ProofFails ==
  /\ \/ pc = "attest" /\ UnloadPk(Attesting)
     \/ pc = "layer" /\ UnloadPk("layer")
  /\ Fault
  /\ pc' = "idle" /\ last' = Target /\ evidence' = << >>
  /\ UNCHANGED <<keyFiles, vkMem, cfgMem, chainVars, ensuring, sent>>

SendRequest ==
  /\ pc = "request"
  /\ sent' = [sent EXCEPT ![Target] =
                [circuit |-> Attesting, verifies |-> EvidenceProves(evidence, Target)]]
  /\ pc' = "wait"
  /\ UNCHANGED <<keyFiles, keyMemory, chainVars, ensuring, last, evidence>>
  /\ NoFault

(* Whatever the verifier has answered, and when it has not, the cursor moves to
   the key block. *)
Proceed ==
  /\ pc = "wait"
  /\ pc' = "idle" /\ last' = Target /\ evidence' = << >>
  /\ UNCHANGED <<keyFiles, keyMemory, chainVars, ensuring, sent>>
  /\ NoFault

Exit ==
  /\ ForgetKeys
  /\ pc' = "down" /\ ensuring' = 1 /\ evidence' = << >>
  /\ UNCHANGED <<chainVars, last, sent>>

(* A proving key that does not load ends the daemon (the `?` in main). *)
LoadFails ==
  /\ \/ pc = "evidence" /\ ~Loadable(Attesting)
     \/ pc = "bundle" /\ ~Loadable("layer")
  /\ Exit
  /\ UNCHANGED keyFiles
  /\ NoFault

(* The daemon dies, or exits on a write error it notices, in the middle of a
   file or anywhere else. *)
Crash ==
  /\ pc # "down"
  /\ Fault
  /\ Exit
  /\ LET c == Ensured[ensuring]
     IN  \/ UNCHANGED keyFiles
         \/ /\ pc = "ensure" /\ ~Available(c)
            /\ SaveVk(c, "torn") /\ UNCHANGED <<pkFile, cfgFile>>
         \/ pc = "savePk" /\ SavePk(c, "torn") /\ UNCHANGED <<vkFile, cfgFile>>
         \/ pc = "saveConfig" /\ SaveConfig(c, "torn") /\ UNCHANGED <<vkFile, pkFile>>

SessionStep ==
  \/ Start \/ KeysReady \/ Generate
  \/ FetchEvidence \/ LoadAttestationPk \/ ProveAttestation
  \/ LoadLayerPk \/ ProveLayer \/ SendRequest \/ Proceed \/ LoadFails

Next ==
  \/ \E b \in Blocks : Attest(b)
  \/ SessionStep
  \/ LoseWrite \/ ProofFails \/ Crash
  \/ \E rows \in Malformed : FetchMalformed(rows)

Spec == Init /\ [][Next]_vars

(* The daemon is one task that runs whenever it can and is started again when
   it is down; every block is finalised in the end. *)
FairSpec ==
  /\ Spec
  /\ WF_vars(SessionStep)
  /\ \A b \in Blocks : WF_vars(Attest(b))

-----------------------------------------------------------------------------
(* Without an unnoticed write error, a configuration file stands for a complete
   set of keys, whenever the daemon died before: ensure_*_keys writes it last. *)
ConfigCommitsKeys == lostWrites = 0 => \A c \in Circuit : Complete(c)

(* No two proving keys are in memory at once, through failed proofs, crashes and
   restarts: "each branch loads its own PK on demand and unloads immediately
   after so we stay within the ~3.7 GB single-PK memory envelope". *)
SinglePk == Cardinality(loaded) <= 1

(* A torn proving key behind a good configuration and verifying key is never
   repaired: ensure_*_keys looks whether the file exists, and every run ends
   where the key is loaded. *)
TornPkIsFinal == \A c \in Circuit : [](pc = "idle" /\ Stuck(c) => []Stuck(c))

(* Nothing is handed over for more than it is.  Whatever the GraphQL server
   answered and however often the daemon died, a request is tagged fallback only
   when both attestations of a fallback block were on the chain, and a proof that
   verifies is of a block that was final: the block had all its attestations, or
   two thirds of the set had signed. *)
VerifiedIsFinal ==
  \A b \in Blocks :
    /\ sent[b].circuit = "fallback" => finality[b].path = "fallback" /\ shown[b] = 2
    /\ sent[b].verifies => shown[b] = FinalAt(b) \/ 3 * finality[b].signers >= 2 * SetSize

(* Exactly which requests verify: the attestations have no signer twice, and the
   proof was not made with Circuit 1a from a prefinalisation that has too few
   signers for it.  The two conditions are what the code lacks; EvidenceAsPromised
   states what it is said to do. *)
RequestsVerify ==
  \A b \in Blocks : sent[b].circuit # "none" =>
    LET f == finality[b]
    IN  /\ sent[b].circuit = "fallback" => f.path = "fallback"
        /\ sent[b].verifies <=>
             /\ f.occurrences = f.signers
             /\ sent[b].circuit = "primary" => 3 * f.signers >= 2 * SetSize

(* Every key block gets its turn, unless a proving key is torn for good. *)
AllProven == <>[](\E c \in Circuit : Stuck(c)) \/ <>(last = MaxBlock)

-----------------------------------------------------------------------------
(* Promises of the comments and the documentation that the code does not keep. *)

(* "returned as an error so the daemon retries instead of silently choosing the
   wrong circuit", "Once a fallback event occurs the daemon will automatically
   route to 1b": a block is proven with the circuit of the path it is finalised
   on, whenever the daemon asks for its attestations.  "Patch it in here so
   downstream consumers read the correct value from raw_bytes": what the prover
   reads out of the attestation is the number of the key block. *)
EvidenceAsPromised ==
  pc = "attest" =>
    /\ Attesting = finality[Target].path
    /\ SeqNoRead(PrimaryEntry(evidence), Target) = Target
=============================================================================
