---------------------------- MODULE ProverDaemon ----------------------------
(***************************************************************************)
(* The prover daemon: the main task of bridge-prover-daemon/src/main.rs.   *)
(* It seeds itself from a key block, then for every thinned key block      *)
(* first drains the block-keeper-set rotations up to it, then proves it,   *)
(* hands the proof to the verifier and advances its own mirror.            *)
(*                                                                         *)
(* `prover` is both the in-memory BridgeState and prover_state.json: every *)
(* change is saved in the step that makes it.  `table` is both the         *)
(* in-memory ProverBkSet (and the bk_set map derived from it) and          *)
(* prover_bk_set.json.  ppc names the point the task has reached; all      *)
(* other variables are lost in a crash.                                    *)
(***************************************************************************)
EXTENDS BridgeChannel

CONSTANTS
  BootstrapSeqno,     \* BRIDGE_BOOTSTRAP_SEQNO, 0 when unset (auto mode)
  SelfVerify,         \* built with --features self-verify
  Timeouts,           \* whether waiting for the verifier may time out
  RecentBundlesCap    \* RECENT_BUNDLES_CAP

ASSUME ProverAssumption ==
  /\ BootstrapSeqno \in Nat /\ BootstrapSeqno % Step = 0
  /\ SelfVerify \in BOOLEAN /\ Timeouts \in BOOLEAN
  /\ RecentBundlesCap \in Nat \ {0}

VARIABLES
  ppc,       \* where the prover is
  prover,    \* its BridgeState
  outcomes,  \* recent_bundles of that state
  table,     \* its ProverBkSet
  target,    \* the key block being seeded from or proven
  update,    \* the rotation block being drained
  fetched    \* whether the layer roots could be fetched after proving

proverVars == <<ppc, prover, outcomes, table, target, update, fetched>>

ProverPC ==
  {"down",       \* not running
   "refused",    \* exited: the two state files disagree
   "seed",       \* waiting for the chain to reach the seed block
   "seedSave",   \* state saved, seed file not yet written
   "idle",       \* top of the main loop
   "drain",      \* top of the drain loop
   "bkWrite",    \* bk-update request truncated, not yet written
   "bkWait",     \* waiting for the verdict on a bk-update
   "bkRotate",   \* state saved with the update, pubkey table not yet
   "bundle",     \* drain left, about to prove the key block
   "request",    \* proofs generated, request not yet written
   "write",      \* proof request truncated, not yet written
   "wait"}       \* waiting for the verdict on a proof

Table == [present : BOOLEAN, commitment : AnyCommitment, cursor : Nat]

NoTable == [present |-> FALSE, commitment |-> ZeroCommitment, cursor |-> 0]

Outcome == [seq : Nat, verify_ok : BOOLEAN]

ProverInit ==
  /\ ppc = "down"
  /\ prover = NewMirror
  /\ outcomes = << >>
  /\ table = NoTable
  /\ target = 0 /\ update = 0 /\ fetched = TRUE

ProverTypeOK ==
  /\ ppc \in ProverPC
  /\ prover \in Mirror /\ \A l \in Layers : Len(prover.recent[l]) <= W
  /\ outcomes \in Seq(Outcome) /\ Len(outcomes) <= RecentBundlesCap
  /\ table \in Table
  /\ target \in Nat /\ update \in Blocks /\ fetched \in BOOLEAN

(* Back at the top of the main loop. *)
Restart(pc) == ppc' = pc /\ target' = 0 /\ update' = 0 /\ fetched' = TRUE

-----------------------------------------------------------------------------
(* Start-up. *)

FilesDisagree ==
  table.present /\ prover.initialized /\ table.commitment # prover.commitment

(* Slip: every start takes the set of the chain and forgets the saved table. *)
LoadTableFromChain ==
  table' = [present |-> TRUE, commitment |-> L3(head), cursor |-> 0]

(* Without a pubkey table, start from the set the chain has now, with no
   rotation counted as applied; with one, the table is the authority. *)
LoadTable ==
  table' = IF table.present THEN table
           ELSE [present |-> TRUE, commitment |-> L3(head), cursor |-> 0]

SeedSeqno == IF BootstrapSeqno > 0 THEN BootstrapSeqno ELSE NextKeyBlock(head)

PStart ==
  /\ ppc = "down" /\ ~FilesDisagree
  /\ LoadTable
  /\ IF prover.initialized
     THEN ppc' = "idle" /\ UNCHANGED target
     ELSE ppc' = "seed" /\ target' = SeedSeqno
  /\ UNCHANGED <<prover, outcomes, update, fetched, head, fileVars, faults>>

PRefuse ==
  /\ ppc = "down" /\ FilesDisagree
  /\ ppc' = "refused"
  /\ UNCHANGED <<prover, outcomes, table, target, update, fetched, head,
                 fileVars, faults>>

(* The seed block is there: apply it as if it were a verified bundle. *)
PSeedApply ==
  /\ ppc = "seed" /\ target <= head
  /\ prover' = AppendBundle(prover, Roots(target), target, target, table.commitment)
  /\ ppc' = "seedSave"
  /\ UNCHANGED <<outcomes, table, target, update, fetched, head, fileVars, faults>>

PSeedWrite ==
  /\ ppc = "seedSave"
  /\ seedFile' = [present |-> TRUE, seq |-> target, commitment |-> table.commitment]
  /\ Restart("idle")
  /\ UNCHANGED <<prover, outcomes, table, head, proofs, results, bkupds,
                 bkResults, faults>>

-----------------------------------------------------------------------------
(* The drain of block-keeper-set rotations. *)

PPoll ==
  /\ ppc = "idle" /\ NextKeyBlock(prover.lastSeq) <= head
  /\ target' = NextKeyBlock(prover.lastSeq)
  /\ ppc' = "drain"
  /\ UNCHANGED <<prover, outcomes, table, update, fetched, head, fileVars, faults>>

(* Slip: a rotation past the target is drained as well. *)
DrainableAnyTarget(u) ==
  NextUpdate(u, prover.updCursor) /\ L2(u) = table.commitment

(* The next rotation is due by the target and starts from the set the prover
   holds (L2 == prover_bk_set.commitment). *)
Drainable(u) ==
  /\ NextUpdate(u, prover.updCursor)
  /\ u <= target
  /\ L2(u) = table.commitment

(* Nothing to drain, or not the rotation the prover can prove; or the queries
   or the proof generation for it failed. *)
PDrainDone ==
  /\ ppc = "drain"
  /\ \A u \in Blocks : ~Drainable(u)
  /\ ppc' = "bundle"
  /\ UNCHANGED <<prover, outcomes, table, target, update, fetched, head,
                 fileVars, faults>>

PDrainFail ==
  /\ ppc = "drain"
  /\ \E u \in Blocks : Drainable(u)
  /\ Fault
  /\ ppc' = "bundle"
  /\ UNCHANGED <<prover, outcomes, table, target, update, fetched, head, fileVars>>

BkRequest(u) == [status |-> "whole", old |-> L2(u), new |-> L3(u)]

PBkWrite(u) ==
  /\ ppc = "drain" /\ Drainable(u)
  /\ bkupds' = [bkupds EXCEPT ![u] = BkRequest(u)]
  /\ update' = u
  /\ ppc' = "bkWait"
  /\ UNCHANGED <<prover, outcomes, table, target, fetched, head, seedFile,
                 proofs, results, bkResults, faults>>

(* The same write, caught between the truncation and the last byte. *)
PBkTear(u) ==
  /\ ppc = "drain" /\ Drainable(u)
  /\ Fault
  /\ bkupds' = [bkupds EXCEPT ![u] = TornBkUpdate]
  /\ update' = u
  /\ ppc' = "bkWrite"
  /\ UNCHANGED <<prover, outcomes, table, target, fetched, head, seedFile,
                 proofs, results, bkResults>>

PBkWriteEnd ==
  /\ ppc = "bkWrite"
  /\ bkupds' = [bkupds EXCEPT ![update] = BkRequest(update)]
  /\ ppc' = "bkWait"
  /\ UNCHANGED <<prover, outcomes, table, target, update, fetched, head, seedFile,
                 proofs, results, bkResults, faults>>

(* Self-verify builds synthesise the verdict. *)
BkVerdictArrived == SelfVerify \/ Exists(bkResults[update])

BkVerdictOk == SelfVerify \/ Accepted(bkResults[update])

PBkApply ==
  /\ ppc = "bkWait" /\ BkVerdictOk
  /\ CanApplyUpdate(prover, L2(update), update)
  /\ prover' = ApplyBkSetUpdate(prover, L3(update), update)
  /\ ppc' = "bkRotate"
  /\ UNCHANGED <<outcomes, table, target, update, fetched, head, fileVars, faults>>

(* A verdict that is negative or unreadable, or an update the prover's own
   state refuses, leaves the drain; the bundle is still attempted. *)
PBkReject ==
  /\ ppc = "bkWait" /\ BkVerdictArrived
  /\ ~(BkVerdictOk /\ CanApplyUpdate(prover, L2(update), update))
  /\ ppc' = "bundle" /\ update' = 0
  /\ UNCHANGED <<prover, outcomes, table, target, fetched, head, fileVars, faults>>

PBkTimeout ==
  /\ ppc = "bkWait" /\ ~SelfVerify /\ Timeouts /\ ~Exists(bkResults[update])
  /\ ppc' = "bundle" /\ update' = 0
  /\ UNCHANGED <<prover, outcomes, table, target, fetched, head, fileVars, faults>>

(* ProverBkSet::rotate, refused unless newer than the last one applied. *)
PBkRotate ==
  /\ ppc = "bkRotate"
  /\ IF update > table.cursor
     THEN /\ table' = [present |-> TRUE, commitment |-> L3(update), cursor |-> update]
          /\ ppc' = "drain"
     ELSE UNCHANGED table /\ ppc' = "bundle"
  /\ update' = 0
  /\ UNCHANGED <<prover, outcomes, target, fetched, head, fileVars, faults>>

-----------------------------------------------------------------------------
(* The bundle of a key block. *)

(* Attestation evidence not there yet: back to the top of the loop. *)
PEvidenceNotReady ==
  /\ ppc = "bundle"
  /\ Fault
  /\ Restart("idle")
  /\ UNCHANGED <<prover, outcomes, table, head, fileVars>>

(* Slip: `continue` without moving the cursors. *)
SkipTargetUnsaved == Restart("idle") /\ UNCHANGED <<prover, outcomes, table, head, fileVars>>

(* The four early `continue`s: the evidence unusable, either attestation
   circuit or Circuit 2 failing.  The cursors move past the key block, its roots are not appended. *)
SkipTarget ==
  /\ prover' = [recent      |-> prover.recent,
                commitment  |-> prover.commitment,
                lastSeq     |-> target,
                lastHeight  |-> target,
                initialized |-> prover.initialized,
                updCursor   |-> prover.updCursor]
  /\ Restart("idle")
  /\ UNCHANGED <<outcomes, table, head, fileVars>>

(* The prover's set is not the one that signed the key block. *)
PSkipForeignSet ==
  /\ ppc = "bundle" /\ table.commitment # L2(target)
  /\ SkipTarget
  /\ UNCHANGED faults

(* A failed query or a failed proof while generating. *)
PSkipFailure ==
  /\ ppc = "bundle" /\ table.commitment = L2(target)
  /\ Fault
  /\ SkipTarget

(* No chain can be built from the mirror to the key block. *)
PSkipNoChain ==
  /\ ppc = "bundle" /\ table.commitment = L2(target) /\ ~Buildable(prover, target)
  /\ SkipTarget
  /\ UNCHANGED faults

(* The witness is not checked when the proof is made: a chain that does not
   close gives a proof that does not verify. *)
Request ==
  [status |-> "whole", commitment |-> table.commitment,
   circuit |-> EvidenceCircuit(target), valid |-> Closes(prover, target)]

(* Both proofs generated; the envelope is fetched once more for the roots the
   prover will append.  If that fails it goes on without them. *)
PProve ==
  /\ ppc = "bundle" /\ table.commitment = L2(target) /\ Buildable(prover, target)
  /\ ppc' = "request" /\ fetched' = TRUE
  /\ UNCHANGED <<prover, outcomes, table, target, update, head, fileVars, faults>>

PProveNoRoots ==
  /\ ppc = "bundle" /\ table.commitment = L2(target) /\ Buildable(prover, target)
  /\ Fault
  /\ ppc' = "request" /\ fetched' = FALSE
  /\ UNCHANGED <<prover, outcomes, table, target, update, head, fileVars>>

WriteRequest ==
  /\ proofs' = [proofs EXCEPT ![target] = Request]
  /\ ppc' = "wait"
  /\ UNCHANGED <<prover, outcomes, table, target, update, fetched, head, seedFile,
                 results, bkupds, bkResults, faults>>

PProofWrite    == ppc = "request" /\ WriteRequest
PProofWriteEnd == ppc = "write" /\ WriteRequest

PProofTear ==
  /\ ppc = "request"
  /\ Fault
  /\ proofs' = [proofs EXCEPT ![target] = TornProof]
  /\ ppc' = "write"
  /\ UNCHANGED <<prover, outcomes, table, target, update, fetched, head, seedFile,
                 results, bkupds, bkResults>>

AppendTarget ==
  prover' = AppendBundle(prover, IF fetched THEN Roots(target) ELSE NoRoots,
                         target, target, table.commitment)

(* Paired mode: whatever the verdict says, and when none arrives, the prover
   appends the bundle. *)
PResult ==
  /\ ppc = "wait" /\ ~SelfVerify /\ Exists(results[target])
  /\ AppendTarget
  /\ Restart("idle")
  /\ UNCHANGED <<outcomes, table, head, fileVars, faults>>

PTimeout ==
  /\ ppc = "wait" /\ ~SelfVerify /\ Timeouts /\ ~Exists(results[target])
  /\ AppendTarget
  /\ Restart("idle")
  /\ UNCHANGED <<outcomes, table, head, fileVars, faults>>

(* push_bundle_result *)
PushOutcome(ok) ==
  outcomes' = Append(IF Len(outcomes) >= RecentBundlesCap THEN Tail(outcomes)
                                                          ELSE outcomes,
                     [seq |-> target, verify_ok |-> ok])

(* Self-verify mode checks the attestation proof with the primary key, whatever
   its circuit.  Append a verified bundle; on a failed one save the outcome and
   exit without advancing. *)
SelfVerified == Verifies(proofs[target], "primary")

(* Slip: the outcome of the self-verification is not looked at. *)
PSelfVerifiedUnchecked ==
  /\ ppc = "wait" /\ SelfVerify
  /\ PushOutcome(TRUE)
  /\ AppendTarget
  /\ Restart("idle")
  /\ UNCHANGED <<table, head, fileVars, faults>>

PSelfVerified ==
  /\ ppc = "wait" /\ SelfVerify /\ SelfVerified
  /\ PushOutcome(TRUE)
  /\ AppendTarget
  /\ Restart("idle")
  /\ UNCHANGED <<table, head, fileVars, faults>>

PSelfVerifyFailed ==
  /\ ppc = "wait" /\ SelfVerify /\ ~SelfVerified
  /\ PushOutcome(FALSE)
  /\ Restart("down")
  /\ UNCHANGED <<prover, table, head, fileVars, faults>>

-----------------------------------------------------------------------------
(* The process dies, or exits on the error of a query it does not catch. *)
PCrash ==
  /\ ppc \notin {"down", "refused"}
  /\ Fault
  /\ Restart("down")
  /\ UNCHANGED <<prover, outcomes, table, head, fileVars>>

(* The steps the daemon takes by itself when nothing fails. *)
ProverStep ==
  \/ PStart \/ PRefuse \/ PSeedApply \/ PSeedWrite
  \/ PPoll \/ PDrainDone
  \/ \E u \in Blocks : PBkWrite(u)
  \/ PBkWriteEnd \/ PBkApply \/ PBkReject \/ PBkTimeout \/ PBkRotate
  \/ PSkipForeignSet \/ PSkipNoChain \/ PProve \/ PProofWrite \/ PProofWriteEnd
  \/ PResult \/ PTimeout \/ PSelfVerified \/ PSelfVerifyFailed

ProverFault ==
  \/ PDrainFail \/ PEvidenceNotReady \/ PSkipFailure \/ PProveNoRoots \/ PProofTear \/ PCrash
  \/ \E u \in Blocks : PBkTear(u)
=============================================================================
