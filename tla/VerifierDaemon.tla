--------------------------- MODULE VerifierDaemon ---------------------------
(***************************************************************************)
(* The verifier daemon: the main task of bridge-verifier-daemon/src/main.rs*)
(* with its bk-update handler.  It polls the proofs directory, checks what *)
(* it finds and mirrors the contract's history.  `verifier` is both the    *)
(* in-memory BridgeState and verifier_state.json.                          *)
(*                                                                         *)
(* One pass of its loop looks at the seed file, then for the lowest        *)
(* unseen bk-update, then for the lowest unseen proof.  A pass that finds  *)
(* nothing takes far less time than the generation of a proof, or the      *)
(* 300-second timeout, that separates two writes of the prover: the looks  *)
(* of one pass are one step.                                               *)
(***************************************************************************)
EXTENDS BridgeChannel

VARIABLES
  vpc,        \* where the verifier is
  verifier,   \* its BridgeState
  seen,       \* last_seen_seqno
  bkSeen,     \* last_seen_bk_update_seqno
  booted,     \* bootstrapped
  job         \* the request being processed

verifierVars == <<vpc, verifier, seen, bkSeen, booted, job>>

VerifierPC ==
  {"down",          \* not running
   "loop",          \* top of the main loop
   "bkResult",      \* bk-update decided and applied, verdict not yet written
   "bkResultWrite", \* verdict file truncated, not yet written
   "result",        \* proof verified, verdict not yet written
   "resultWrite",   \* verdict file truncated, not yet written
   "append"}        \* verdict written, bundle not yet appended

Job == [seq : Blocks, ok : BOOLEAN, commitment : AnyCommitment]

NoJob == [seq |-> 0, ok |-> FALSE, commitment |-> ZeroCommitment]

VerifierInit ==
  /\ vpc = "down"
  /\ verifier = NewMirror
  /\ seen = 0 /\ bkSeen = 0 /\ booted = FALSE
  /\ job = NoJob

VerifierTypeOK ==
  /\ vpc \in VerifierPC
  /\ verifier \in Mirror /\ \A l \in Layers : Len(verifier.recent[l]) <= W
  /\ seen \in Nat /\ bkSeen \in Nat
  /\ booted \in BOOLEAN
  /\ job \in Job

(* BootstrapSeed::apply *)
Seeded(m) == AppendBundle(m, Roots(seedFile.seq), seedFile.seq, seedFile.seq,
                          seedFile.commitment)

-----------------------------------------------------------------------------
(* Start-up: load the state, seed it if it is new and the seed is there, and
   take the cursors from it. *)
VStart ==
  /\ vpc = "down"
  /\ LET m == IF ~verifier.initialized /\ seedFile.present THEN Seeded(verifier)
                                                          ELSE verifier
     IN  /\ verifier' = m
         /\ seen' = m.lastSeq
         /\ bkSeen' = m.updCursor
         /\ booted' = m.initialized
  /\ vpc' = "loop"
  /\ UNCHANGED <<job, head, fileVars, faults>>

(* Slip: `bootstrapped` is not set, so every pass applies the seed. *)
VSeedEveryPass ==
  /\ vpc = "loop" /\ ~booted /\ seedFile.present
  /\ verifier' = Seeded(verifier)
  /\ seen' = seedFile.seq
  /\ UNCHANGED <<vpc, bkSeen, booted, job, head, fileVars, faults>>

(* Started before the prover: the seed is picked up by the loop. *)
VSeed ==
  /\ vpc = "loop" /\ ~booted /\ seedFile.present
  /\ verifier' = Seeded(verifier)
  /\ seen' = seedFile.seq
  /\ booted' = TRUE
  /\ UNCHANGED <<vpc, bkSeen, job, head, fileVars, faults>>

(* A pass looks for the seed before it looks for bundles. *)
SeedChecked == booted \/ ~seedFile.present

(* Slip: the file at the cursor is found again. *)
NextFileInclusive(f, s, cursor) ==
  /\ cursor <= s /\ Exists(f[s])
  /\ \A r \in Blocks : cursor <= r /\ Exists(f[r]) => s <= r

(* find_next_bk_update_file, find_next_proof_file: the lowest-numbered file
   past the cursor. *)
NextFile(f, s, cursor) ==
  /\ cursor < s /\ Exists(f[s])
  /\ \A r \in Blocks : cursor < r /\ Exists(f[r]) => s <= r

-----------------------------------------------------------------------------
(* process_bk_update_bundle *)

(* Read and check the request; on success the update is applied and saved
   before anything is reported. *)
VBkUpdate(u) ==
  /\ vpc = "loop" /\ SeedChecked /\ NextFile(bkupds, u, bkSeen)
  /\ LET req == bkupds[u]
         ok  == req.status = "whole" /\ CanApplyUpdate(verifier, req.old, u)
     IN  /\ verifier' = IF ok THEN ApplyBkSetUpdate(verifier, req.new, u)
                              ELSE verifier
         /\ job' = [seq |-> u, ok |-> ok, commitment |-> ZeroCommitment]
  /\ vpc' = "bkResult"
  /\ UNCHANGED <<seen, bkSeen, booted, head, fileVars, faults>>

BkReport ==
  /\ bkResults' = [bkResults EXCEPT ![job.seq] = Verdict(job.ok)]
  /\ bkSeen' = job.seq
  /\ vpc' = "loop" /\ job' = NoJob
  /\ UNCHANGED <<verifier, seen, booted, head, seedFile, proofs, results,
                 bkupds, faults>>

VBkResult    == vpc = "bkResult" /\ BkReport
VBkResultEnd == vpc = "bkResultWrite" /\ BkReport

VBkResultTear ==
  /\ vpc = "bkResult"
  /\ Fault
  /\ bkResults' = [bkResults EXCEPT ![job.seq] = TornResult]
  /\ vpc' = "bkResultWrite"
  /\ UNCHANGED <<verifier, seen, bkSeen, booted, job, head, seedFile, proofs,
                 results, bkupds>>

-----------------------------------------------------------------------------
(* A layer bundle.  Bk-updates take priority over it.  The attestation proof is
   checked with the key its tag names. *)

VProof(s) ==
  /\ vpc = "loop" /\ SeedChecked
  /\ \A u \in Blocks : ~NextFile(bkupds, u, bkSeen)
  /\ NextFile(proofs, s, seen)
  /\ LET req == proofs[s]
     IN  job' = [seq |-> s, ok |-> Verifies(req, req.circuit),
                 commitment |-> req.commitment]
  /\ vpc' = "result"
  /\ UNCHANGED <<verifier, seen, bkSeen, booted, head, fileVars, faults>>

Report ==
  /\ results' = [results EXCEPT ![job.seq] = Verdict(job.ok)]
  /\ vpc' = "append"
  /\ UNCHANGED <<verifier, seen, bkSeen, booted, job, head, seedFile, proofs,
                 bkupds, bkResults, faults>>

VResult    == vpc = "result" /\ Report
VResultEnd == vpc = "resultWrite" /\ Report

VResultTear ==
  /\ vpc = "result"
  /\ Fault
  /\ results' = [results EXCEPT ![job.seq] = TornResult]
  /\ vpc' = "resultWrite"
  /\ UNCHANGED <<verifier, seen, bkSeen, booted, job, head, seedFile, proofs,
                 bkupds, bkResults>>

(* Slip: a bundle right after the mirrored one is refused. *)
AppendableSkipping(m, s) == ~(m.initialized /\ s <= m.lastSeq + Step)

(* Only a bundle that verified and is newer than what is mirrored is appended;
   the commitment it carries replaces the stored one. *)
Appendable(m, s) == ~(m.initialized /\ s <= m.lastSeq)

(* Slip: the bundle is appended under the commitment of the seed. *)
VAppendStartupSet ==
  /\ vpc = "append"
  /\ verifier' = IF job.ok /\ Appendable(verifier, job.seq)
                 THEN AppendBundle(verifier, Roots(job.seq), job.seq, job.seq,
                                   seedFile.commitment)
                 ELSE verifier
  /\ seen' = job.seq
  /\ vpc' = "loop" /\ job' = NoJob
  /\ UNCHANGED <<bkSeen, booted, head, fileVars, faults>>

(* Slip: the outcome of the verification is not looked at. *)
VAppendUnverified ==
  /\ vpc = "append"
  /\ verifier' = IF Appendable(verifier, job.seq)
                 THEN AppendBundle(verifier, Roots(job.seq), job.seq, job.seq,
                                   job.commitment)
                 ELSE verifier
  /\ seen' = job.seq
  /\ vpc' = "loop" /\ job' = NoJob
  /\ UNCHANGED <<bkSeen, booted, head, fileVars, faults>>

VAppend ==
  /\ vpc = "append"
  /\ verifier' = IF job.ok /\ Appendable(verifier, job.seq)
                 THEN AppendBundle(verifier, Roots(job.seq), job.seq, job.seq,
                                   job.commitment)
                 ELSE verifier
  /\ seen' = job.seq
  /\ vpc' = "loop" /\ job' = NoJob
  /\ UNCHANGED <<bkSeen, booted, head, fileVars, faults>>

-----------------------------------------------------------------------------
VCrash ==
  /\ vpc # "down"
  /\ Fault
  /\ vpc' = "down"
  /\ seen' = 0 /\ bkSeen' = 0 /\ booted' = FALSE /\ job' = NoJob
  /\ UNCHANGED <<verifier, head, fileVars>>

VerifierStep ==
  \/ VStart \/ VSeed
  \/ \E u \in Blocks : VBkUpdate(u)
  \/ VBkResult \/ VBkResultEnd
  \/ \E s \in Blocks : VProof(s)
  \/ VResult \/ VResultEnd \/ VAppend

VerifierFault == VBkResultTear \/ VResultTear \/ VCrash
=============================================================================
