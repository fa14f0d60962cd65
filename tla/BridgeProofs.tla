---------------------------- MODULE BridgeProofs ----------------------------
(***************************************************************************)
(* Types and safety of the paired daemons, for every chain, every step,    *)
(* every window width and any number of faults: all state stays well       *)
(* formed, the prover's two files agree wherever both are read, no         *)
(* rotation is counted as applied by the prover before the verifier has    *)
(* applied it, and the verifier is at most one rotation and one bundle     *)
(* ahead.                                                                  *)
(***************************************************************************)
EXTENDS Bridge, TLAPS

USE ChainAssumption, FaultAssumption, ProverAssumption

-----------------------------------------------------------------------------
(* The history record. *)

LEMMA ChainTypes ==
  ASSUME NEW s \in Blocks
  PROVE  /\ L2(s) \in AnyCommitment /\ L3(s) \in AnyCommitment
         /\ s \in Nat
  BY DEF Blocks, L2, L3, AnyCommitment

(* A mirror whose windows hold at most W entries. *)
BoundedMirror == {m \in Mirror : \A l \in Layers : Len(m.recent[l]) <= W}

LEMMA NewMirrorType == NewMirror \in BoundedMirror
  BY DEF NewMirror, Mirror, AnyCommitment, BoundedMirror

LEMMA PushType ==
  ASSUME NEW win \in Seq(Entry), Len(win) <= W, NEW e \in Entry
  PROVE  Push(win, e) \in Seq(Entry) /\ Len(Push(win, e)) <= W
<1>1. CASE Len(win) < W
  BY <1>1 DEF Push
<1>2. CASE ~(Len(win) < W)
  <2>1. Len(win) = W /\ win # << >>
    BY <1>2
  <2>2. Tail(win) \in Seq(Entry) /\ Len(Tail(win)) = W - 1
    BY <2>1
  <2>. QED  BY <1>2, <2>2 DEF Push
<1>. QED  BY <1>1, <1>2

(* Whatever roots a bundle carries, the record stays well formed and its
   window within W entries. *)
LEMMA AppendBundleType ==
  ASSUME NEW m \in BoundedMirror,
         NEW s \in Blocks, NEW roots \in {Roots(s), NoRoots},
         NEW c \in AnyCommitment
  PROVE  AppendBundle(m, roots, s, s, c) \in BoundedMirror
<1> DEFINE new(l) == IF l \in DOMAIN roots
                     THEN Push(m.recent[l], [hash |-> roots[l], height |-> s])
                     ELSE m.recent[l]
           b == AppendBundle(m, roots, s, s, c)
<1>1. m \in Mirror /\ \A l \in Layers : m.recent[l] \in Seq(Entry) /\ Len(m.recent[l]) <= W
  BY DEF BoundedMirror, Mirror
<1>2. ASSUME NEW l \in Layers, l \in DOMAIN roots
      PROVE  [hash |-> roots[l], height |-> s] \in Entry
  <2>1. CASE roots = Roots(s)
    BY <1>2, <2>1 DEF Roots, LayersOf, Layers, Entry
  <2>2. CASE roots = NoRoots
    BY <1>2, <2>2 DEF NoRoots
  <2>. QED  BY <2>1, <2>2
<1>3. ASSUME NEW l \in Layers
      PROVE  new(l) \in Seq(Entry) /\ Len(new(l)) <= W
  <2>1. CASE l \in DOMAIN roots
    BY <1>1, <1>2, <2>1, PushType
  <2>2. CASE l \notin DOMAIN roots
    BY <1>1, <2>2
  <2>. QED  BY <2>1, <2>2
<1>4. b = [recent |-> [l \in Layers |-> new(l)], commitment |-> c, lastSeq |-> s,
           lastHeight |-> s, initialized |-> TRUE, updCursor |-> m.updCursor]
  BY DEF AppendBundle
<1>5. m.updCursor \in Nat
  BY <1>1 DEF Mirror
<1> HIDE DEF new, b
<1>6. b \in Mirror
  BY <1>3, <1>4, <1>5, ChainTypes DEF Mirror
<1>7. \A l \in Layers : b.recent[l] = new(l)
  BY <1>4
<1>. QED  BY <1>3, <1>6, <1>7 DEF BoundedMirror, b

LEMMA ApplyBkSetUpdateType ==
  ASSUME NEW m \in BoundedMirror,
         NEW s \in Blocks, NEW c \in AnyCommitment
  PROVE  ApplyBkSetUpdate(m, c, s) \in BoundedMirror
  BY ChainTypes DEF ApplyBkSetUpdate, Mirror, BoundedMirror

LEMMA PushOutcomeType ==
  ASSUME outcomes \in Seq(Outcome), Len(outcomes) <= RecentBundlesCap,
         target \in Nat, NEW ok \in BOOLEAN, PushOutcome(ok)
  PROVE  outcomes' \in Seq(Outcome) /\ Len(outcomes') <= RecentBundlesCap
<1> DEFINE o == [seq |-> target, verify_ok |-> ok]
<1>1. o \in Outcome
  BY DEF Outcome
<1>2. CASE Len(outcomes) >= RecentBundlesCap
  <2>1. outcomes' = Append(Tail(outcomes), o)
    BY <1>2 DEF PushOutcome
  <2>2. outcomes # << >> /\ Len(outcomes) = RecentBundlesCap
    BY <1>2
  <2>3. Tail(outcomes) \in Seq(Outcome) /\ Len(Tail(outcomes)) = RecentBundlesCap - 1
    BY <2>2
  <2>. QED  BY <1>1, <2>1, <2>3
<1>3. CASE ~(Len(outcomes) >= RecentBundlesCap)
  <2>1. outcomes' = Append(outcomes, o)
    BY <1>3 DEF PushOutcome
  <2>. QED  BY <1>1, <1>3, <2>1
<1>. QED  BY <1>2, <1>3

LEMMA StepType == Step \in Nat \ {0}
  BY DEF Step

LEMMA DivType ==
  ASSUME NEW n \in Nat, NEW s \in Nat \ {0}
  PROVE  n \div s \in Nat /\ (n \div s + 1) * s \in Nat
<1>1. n \div s \in Nat
  OBVIOUS
<1> DEFINE q == n \div s
<1> HIDE DEF q
<1>2. q \in Nat
  BY <1>1 DEF q
<1>3. (q + 1) * s \in Nat
  BY <1>2
<1>. QED  BY <1>1, <1>3 DEF q

LEMMA NextKeyBlockType ==
  ASSUME NEW n \in Nat
  PROVE  NextKeyBlock(n) \in Nat
  BY StepType, DivType DEF NextKeyBlock

LEMMA ClosesType ==
  ASSUME NEW m, NEW s
  PROVE  Closes(m, s) \in BOOLEAN
  BY DEF Closes, NewLayerCloses, SameLayerCloses

-----------------------------------------------------------------------------
(* Type correctness. *)

(* Past the seed's waiting loop the target is a block of the chain; only while
   waiting may it lie beyond the chain's end. *)
TargetVisible == ppc \in ProverPC \ {"down", "refused", "seed", "idle"} => target \in Blocks

Typed == TypeOK /\ TargetVisible

LEMMA InitTyped == Init => Typed
<1>. SUFFICES ASSUME Init PROVE Typed
  OBVIOUS
<1>1. ChannelTypeOK
  <2>1. /\ NoSeed \in Seed /\ NoProof \in ProofFile
        /\ NoBkUpdate \in BkUpdateFile /\ NoResult \in ResultFile
    BY DEF Blocks, Seed, ProofFile, BkUpdateFile, ResultFile, NoSeed, NoProof,
           NoBkUpdate, NoResult, Status, Circuits, AnyCommitment
  <2>. QED  BY <2>1 DEF Init, ChannelInit, ChannelTypeOK, Blocks
<1>2. ProverTypeOK
  BY NewMirrorType
     DEF Init, ProverInit, BoundedMirror, ProverTypeOK, ProverPC, Table, NoTable,
         AnyCommitment, Blocks
<1>3. VerifierTypeOK
  <2>1. NoJob \in Job
    BY DEF NoJob, Job, Blocks, AnyCommitment
  <2>. QED  BY <2>1, NewMirrorType
     DEF Init, VerifierInit, BoundedMirror, VerifierTypeOK, VerifierPC
<1>4. TargetVisible
  BY DEF Init, ProverInit, TargetVisible
<1>. QED  BY <1>1, <1>2, <1>3, <1>4 DEF BoundedMirror, Typed, TypeOK

(* Every step of the prover keeps it. *)
LEMMA PStartTyped ==
  ASSUME Typed, PStart, UNCHANGED verifierVars
  PROVE  Typed'
  BY ChainTypes, NextKeyBlockType
     DEF PStart, LoadTable, SeedSeqno, Table, Blocks, Typed, TypeOK,
         TargetVisible, ChannelTypeOK, ProverTypeOK, VerifierTypeOK, ProverPC,
         verifierVars, fileVars

LEMMA PRefuseTyped ==
  ASSUME Typed, PRefuse, UNCHANGED verifierVars
  PROVE  Typed'
  BY DEF PRefuse, Typed, TypeOK, TargetVisible, ChannelTypeOK, ProverTypeOK,
         VerifierTypeOK, ProverPC, verifierVars, fileVars

LEMMA PSeedApplyTyped ==
  ASSUME Typed, PSeedApply, UNCHANGED verifierVars
  PROVE  Typed'
<1>1. target \in Blocks
  BY DEF PSeedApply, BoundedMirror, Typed, TypeOK, ProverTypeOK, ChannelTypeOK, Blocks
<1>2. prover' \in BoundedMirror
  BY <1>1, AppendBundleType DEF PSeedApply, BoundedMirror, Typed, TypeOK, ProverTypeOK, Table
<1>. QED
  BY <1>1, <1>2
     DEF PSeedApply, BoundedMirror, Typed, TypeOK, TargetVisible, ChannelTypeOK, ProverTypeOK,
         VerifierTypeOK, ProverPC, verifierVars, fileVars

LEMMA PSeedWriteTyped ==
  ASSUME Typed, PSeedWrite, UNCHANGED verifierVars
  PROVE  Typed'
<1>1. seedFile' \in Seed
  BY DEF PSeedWrite, Seed, Table, Typed, TypeOK, TargetVisible, ProverTypeOK,
         ProverPC
<1>. QED
  BY <1>1
     DEF PSeedWrite, Restart, Blocks, Typed, TypeOK, TargetVisible,
         ChannelTypeOK, ProverTypeOK, VerifierTypeOK, ProverPC, verifierVars,
         fileVars

LEMMA PPollTyped ==
  ASSUME Typed, PPoll, UNCHANGED verifierVars
  PROVE  Typed'
<1>1. target' \in Nat
  BY NextKeyBlockType DEF PPoll, Typed, TypeOK, ProverTypeOK, Mirror
<1>2. target' \in Blocks
  BY <1>1 DEF PPoll, Typed, TypeOK, ChannelTypeOK, Blocks
<1>. QED
  BY <1>1, <1>2
     DEF PPoll, Typed, TypeOK, TargetVisible, ChannelTypeOK, ProverTypeOK,
         VerifierTypeOK, ProverPC, verifierVars, fileVars

LEMMA PDrainDoneTyped ==
  ASSUME Typed, PDrainDone, UNCHANGED verifierVars
  PROVE  Typed'
  BY DEF PDrainDone, Typed, TypeOK, TargetVisible, ChannelTypeOK, ProverTypeOK,
         VerifierTypeOK, ProverPC, verifierVars, fileVars

LEMMA PDrainFailTyped ==
  ASSUME Typed, PDrainFail, UNCHANGED verifierVars
  PROVE  Typed'
  BY DEF PDrainFail, Fault, Typed, TypeOK, TargetVisible, ChannelTypeOK,
         ProverTypeOK, VerifierTypeOK, ProverPC, verifierVars, fileVars

LEMMA PBkWriteTyped ==
  ASSUME NEW u \in Blocks, Typed, PBkWrite(u), UNCHANGED verifierVars
  PROVE  Typed'
  BY ChainTypes
     DEF PBkWrite, BkRequest, BkUpdateFile, Status, Typed, TypeOK,
         TargetVisible, ChannelTypeOK, ProverTypeOK, VerifierTypeOK, ProverPC,
         verifierVars, fileVars

LEMMA PBkTearTyped ==
  ASSUME NEW u \in Blocks, Typed, PBkTear(u), UNCHANGED verifierVars
  PROVE  Typed'
  BY DEF PBkTear, Fault, TornBkUpdate, BkUpdateFile, Status, AnyCommitment,
         Typed, TypeOK, TargetVisible, ChannelTypeOK, ProverTypeOK,
         VerifierTypeOK, ProverPC, verifierVars, fileVars

LEMMA PBkWriteEndTyped ==
  ASSUME Typed, PBkWriteEnd, UNCHANGED verifierVars
  PROVE  Typed'
  BY ChainTypes
     DEF PBkWriteEnd, BkRequest, BkUpdateFile, Status, Typed, TypeOK,
         TargetVisible, ChannelTypeOK, ProverTypeOK, VerifierTypeOK, ProverPC,
         verifierVars, fileVars

LEMMA PBkApplyTyped ==
  ASSUME Typed, PBkApply, UNCHANGED verifierVars
  PROVE  Typed'
  BY ChainTypes, ApplyBkSetUpdateType
     DEF PBkApply, BoundedMirror, Typed, TypeOK, TargetVisible, ChannelTypeOK, ProverTypeOK,
         VerifierTypeOK, ProverPC, verifierVars, fileVars

LEMMA PBkRejectTyped ==
  ASSUME Typed, PBkReject, UNCHANGED verifierVars
  PROVE  Typed'
  BY DEF PBkReject, Blocks, Typed, TypeOK, TargetVisible, ChannelTypeOK,
         ProverTypeOK, VerifierTypeOK, ProverPC, verifierVars, fileVars

LEMMA PBkTimeoutTyped ==
  ASSUME Typed, PBkTimeout, UNCHANGED verifierVars
  PROVE  Typed'
  BY DEF PBkTimeout, Blocks, Typed, TypeOK, TargetVisible, ChannelTypeOK,
         ProverTypeOK, VerifierTypeOK, ProverPC, verifierVars, fileVars

LEMMA PBkRotateTyped ==
  ASSUME Typed, PBkRotate, UNCHANGED verifierVars
  PROVE  Typed'
<1>1. table' \in Table
  <2>1. [present |-> TRUE, commitment |-> L3(update), cursor |-> update] \in Table
    BY ChainTypes DEF Table, Typed, TypeOK, ProverTypeOK
  <2>. QED  BY <2>1 DEF PBkRotate, Typed, TypeOK, ProverTypeOK
<1>2. ppc' \in {"drain", "bundle"} /\ ppc = "bkRotate"
  BY DEF PBkRotate
<1>. QED
  BY <1>1, <1>2
     DEF PBkRotate, Blocks, Typed, TypeOK, TargetVisible, ChannelTypeOK,
         ProverTypeOK, VerifierTypeOK, ProverPC, verifierVars, fileVars

LEMMA PEvidenceNotReadyTyped ==
  ASSUME Typed, PEvidenceNotReady, UNCHANGED verifierVars
  PROVE  Typed'
  BY DEF PEvidenceNotReady, Fault, Restart, Blocks, Typed, TypeOK,
         TargetVisible, ChannelTypeOK, ProverTypeOK, VerifierTypeOK, ProverPC,
         verifierVars, fileVars

LEMMA PSkipForeignSetTyped ==
  ASSUME Typed, PSkipForeignSet, UNCHANGED verifierVars
  PROVE  Typed'
  BY DEF PSkipForeignSet, SkipTarget, Restart, Mirror, Blocks, Typed, TypeOK,
         TargetVisible, ChannelTypeOK, ProverTypeOK, VerifierTypeOK, ProverPC,
         verifierVars, fileVars

LEMMA PSkipNoChainTyped ==
  ASSUME Typed, PSkipNoChain, UNCHANGED verifierVars
  PROVE  Typed'
  BY DEF PSkipNoChain, SkipTarget, Restart, Mirror, Blocks, Typed, TypeOK,
         TargetVisible, ChannelTypeOK, ProverTypeOK, VerifierTypeOK, ProverPC,
         verifierVars, fileVars

LEMMA PSkipFailureTyped ==
  ASSUME Typed, PSkipFailure, UNCHANGED verifierVars
  PROVE  Typed'
  BY DEF PSkipFailure, SkipTarget, Restart, Mirror, Blocks, Fault, Typed,
         TypeOK, TargetVisible, ChannelTypeOK, ProverTypeOK, VerifierTypeOK,
         ProverPC, verifierVars, fileVars

LEMMA PProveTyped ==
  ASSUME Typed, PProve, UNCHANGED verifierVars
  PROVE  Typed'
  BY DEF PProve, Typed, TypeOK, TargetVisible, ChannelTypeOK, ProverTypeOK,
         VerifierTypeOK, ProverPC, verifierVars, fileVars

LEMMA PProveNoRootsTyped ==
  ASSUME Typed, PProveNoRoots, UNCHANGED verifierVars
  PROVE  Typed'
<1>1. faults' \in 0 .. MaxFaults
  BY DEF PProveNoRoots, Fault, Typed, TypeOK, ChannelTypeOK
<1>2. fetched' \in BOOLEAN /\ ppc' = "request" /\ target' \in Blocks
  BY DEF PProveNoRoots, Typed, TargetVisible, ProverPC
<1>. QED
  BY <1>1, <1>2
     DEF PProveNoRoots, Typed, TypeOK, TargetVisible, ChannelTypeOK,
         ProverTypeOK, VerifierTypeOK, ProverPC, verifierVars, fileVars

LEMMA PProofWriteTyped ==
  ASSUME Typed, PProofWrite, UNCHANGED verifierVars
  PROVE  Typed'
  BY ClosesType DEF PProofWrite, WriteRequest, Request, EvidenceCircuit, Circuits,
         ProofFile, Status, Table, Typed, TypeOK, TargetVisible,
         ChannelTypeOK, ProverTypeOK, VerifierTypeOK, ProverPC, verifierVars,
         fileVars

LEMMA PProofWriteEndTyped ==
  ASSUME Typed, PProofWriteEnd, UNCHANGED verifierVars
  PROVE  Typed'
  BY ClosesType DEF PProofWriteEnd, WriteRequest, Request, EvidenceCircuit, Circuits,
         ProofFile, Status, Table, Typed, TypeOK, TargetVisible,
         ChannelTypeOK, ProverTypeOK, VerifierTypeOK, ProverPC, verifierVars,
         fileVars

LEMMA PProofTearTyped ==
  ASSUME Typed, PProofTear, UNCHANGED verifierVars
  PROVE  Typed'
  BY DEF PProofTear, Fault, TornProof, ProofFile, Circuits, Status,
         AnyCommitment, Typed, TypeOK, TargetVisible, ChannelTypeOK,
         ProverTypeOK, VerifierTypeOK, ProverPC, verifierVars, fileVars

LEMMA AppendTargetType ==
  ASSUME ProverTypeOK, target \in Blocks, AppendTarget
  PROVE  prover' \in BoundedMirror
<1>1. (IF fetched THEN Roots(target) ELSE NoRoots) \in {Roots(target), NoRoots}
  OBVIOUS
<1>. QED  BY <1>1, AppendBundleType DEF AppendTarget, BoundedMirror, ProverTypeOK, Table

LEMMA PResultTyped ==
  ASSUME Typed, PResult, UNCHANGED verifierVars
  PROVE  Typed'
<1>1. target \in Blocks
  BY DEF PResult, Typed, TargetVisible, ProverPC
<1>2. prover' \in BoundedMirror
  BY <1>1, AppendTargetType DEF PResult, BoundedMirror, Typed, TypeOK, ProverTypeOK
<1>. QED
  BY <1>2
     DEF PResult, Restart, Blocks, BoundedMirror, Typed, TypeOK, TargetVisible, ChannelTypeOK,
         ProverTypeOK, VerifierTypeOK, ProverPC, verifierVars, fileVars

LEMMA PTimeoutTyped ==
  ASSUME Typed, PTimeout, UNCHANGED verifierVars
  PROVE  Typed'
<1>1. target \in Blocks
  BY DEF PTimeout, Typed, TargetVisible, ProverPC
<1>2. prover' \in BoundedMirror
  BY <1>1, AppendTargetType DEF PTimeout, BoundedMirror, Typed, TypeOK, ProverTypeOK
<1>. QED
  BY <1>2
     DEF PTimeout, Restart, Blocks, BoundedMirror, Typed, TypeOK, TargetVisible, ChannelTypeOK,
         ProverTypeOK, VerifierTypeOK, ProverPC, verifierVars, fileVars

LEMMA PSelfVerifiedTyped ==
  ASSUME Typed, PSelfVerified, UNCHANGED verifierVars
  PROVE  Typed'
<1>1. target \in Blocks
  BY DEF PSelfVerified, Typed, TargetVisible, ProverPC
<1>2. prover' \in BoundedMirror
  BY <1>1, AppendTargetType DEF PSelfVerified, BoundedMirror, Typed, TypeOK, ProverTypeOK
<1>3. outcomes' \in Seq(Outcome) /\ Len(outcomes') <= RecentBundlesCap
  BY PushOutcomeType DEF PSelfVerified, BoundedMirror, Typed, TypeOK, ProverTypeOK
<1>. QED
  BY <1>2, <1>3
     DEF PSelfVerified, Restart, Blocks, BoundedMirror, Typed, TypeOK, TargetVisible,
         ChannelTypeOK, ProverTypeOK, VerifierTypeOK, ProverPC, verifierVars,
         fileVars

LEMMA PSelfVerifyFailedTyped ==
  ASSUME Typed, PSelfVerifyFailed, UNCHANGED verifierVars
  PROVE  Typed'
<1>1. outcomes' \in Seq(Outcome) /\ Len(outcomes') <= RecentBundlesCap
  BY PushOutcomeType DEF PSelfVerifyFailed, Typed, TypeOK, ProverTypeOK
<1>. QED
  BY <1>1
     DEF PSelfVerifyFailed, Restart, Blocks, Typed, TypeOK, TargetVisible,
         ChannelTypeOK, ProverTypeOK, VerifierTypeOK, ProverPC, verifierVars,
         fileVars

LEMMA PCrashTyped ==
  ASSUME Typed, PCrash, UNCHANGED verifierVars
  PROVE  Typed'
  BY DEF PCrash, Fault, Restart, Blocks, Typed, TypeOK, TargetVisible,
         ChannelTypeOK, ProverTypeOK, VerifierTypeOK, ProverPC, verifierVars,
         fileVars

LEMMA ProverTyped ==
  ASSUME Typed, ProverStep \/ ProverFault, UNCHANGED verifierVars
  PROVE  Typed'
  BY PStartTyped, PRefuseTyped, PSeedApplyTyped, PSeedWriteTyped, PPollTyped,
     PDrainDoneTyped, PDrainFailTyped, PBkWriteTyped, PBkTearTyped,
     PBkWriteEndTyped, PBkApplyTyped, PBkRejectTyped, PBkTimeoutTyped,
     PBkRotateTyped, PEvidenceNotReadyTyped, PSkipForeignSetTyped,
     PSkipNoChainTyped, PSkipFailureTyped, PProveTyped, PProveNoRootsTyped, PProofWriteTyped,
     PProofWriteEndTyped, PProofTearTyped, PResultTyped, PTimeoutTyped,
     PSelfVerifiedTyped, PSelfVerifyFailedTyped, PCrashTyped
     DEF ProverStep, ProverFault

(* Every step of the verifier keeps it. *)
LEMMA SeededType ==
  ASSUME TypeOK
  PROVE  Seeded(verifier) \in BoundedMirror
  BY AppendBundleType DEF BoundedMirror, Seeded, TypeOK, ChannelTypeOK, VerifierTypeOK, Seed

LEMMA VStartTyped ==
  ASSUME Typed, VStart, UNCHANGED proverVars
  PROVE  Typed'
  BY SeededType
     DEF VStart, Mirror, BoundedMirror, Typed, TypeOK, TargetVisible, ChannelTypeOK,
         ProverTypeOK, VerifierTypeOK, VerifierPC, proverVars, fileVars

LEMMA VSeedTyped ==
  ASSUME Typed, VSeed, UNCHANGED proverVars
  PROVE  Typed'
  BY SeededType
     DEF VSeed, Blocks, Seed, BoundedMirror, Typed, TypeOK, TargetVisible, ChannelTypeOK,
         ProverTypeOK, VerifierTypeOK, VerifierPC, proverVars, fileVars

LEMMA VBkUpdateTyped ==
  ASSUME NEW u \in Blocks, Typed, VBkUpdate(u), UNCHANGED proverVars
  PROVE  Typed'
<1>1. bkupds[u] \in BkUpdateFile
  BY DEF BoundedMirror, Typed, TypeOK, ChannelTypeOK
<1>2. verifier' \in BoundedMirror
  <2>1. verifier \in BoundedMirror
    BY DEF BoundedMirror, Typed, TypeOK, VerifierTypeOK
  <2>2. ApplyBkSetUpdate(verifier, bkupds[u].new, u) \in BoundedMirror
    BY <1>1, <2>1, ApplyBkSetUpdateType DEF BkUpdateFile
  <2>. QED  BY <2>1, <2>2 DEF VBkUpdate
<1>3. job' \in Job
  BY DEF VBkUpdate, Job, AnyCommitment
<1>. QED
  BY <1>2, <1>3
     DEF VBkUpdate, BoundedMirror, Typed, TypeOK, TargetVisible, ChannelTypeOK, ProverTypeOK,
         VerifierTypeOK, VerifierPC, proverVars, fileVars

LEMMA VBkResultTyped ==
  ASSUME Typed, VBkResult, UNCHANGED proverVars
  PROVE  Typed'
  BY DEF VBkResult, BkReport, Verdict, ResultFile, Status, Job, NoJob, Blocks,
         AnyCommitment, Typed, TypeOK, TargetVisible, ChannelTypeOK,
         ProverTypeOK, VerifierTypeOK, VerifierPC, proverVars, fileVars

LEMMA VBkResultEndTyped ==
  ASSUME Typed, VBkResultEnd, UNCHANGED proverVars
  PROVE  Typed'
  BY DEF VBkResultEnd, BkReport, Verdict, ResultFile, Status, Job, NoJob,
         Blocks, AnyCommitment, Typed, TypeOK, TargetVisible, ChannelTypeOK,
         ProverTypeOK, VerifierTypeOK, VerifierPC, proverVars, fileVars

LEMMA VBkResultTearTyped ==
  ASSUME Typed, VBkResultTear, UNCHANGED proverVars
  PROVE  Typed'
<1>1. bkResults' \in [Blocks -> ResultFile] /\ faults' \in 0 .. MaxFaults
  <2>1. TornResult \in ResultFile
    BY DEF TornResult, ResultFile, Status
  <2>2. bkResults' \in [Blocks -> ResultFile]
    BY <2>1 DEF VBkResultTear, Typed, TypeOK, ChannelTypeOK
  <2>. QED  BY <2>2 DEF VBkResultTear, Fault, Typed, TypeOK, ChannelTypeOK
<1>. QED
  BY <1>1
     DEF VBkResultTear, Typed, TypeOK, TargetVisible, ChannelTypeOK,
         ProverTypeOK, VerifierTypeOK, VerifierPC, proverVars, fileVars

LEMMA VProofTyped ==
  ASSUME NEW u \in Blocks, Typed, VProof(u), UNCHANGED proverVars
  PROVE  Typed'
  BY DEF VProof, Verifies, Job, ProofFile, Typed, TypeOK, TargetVisible,
         ChannelTypeOK, ProverTypeOK, VerifierTypeOK, VerifierPC, proverVars,
         fileVars

LEMMA VResultTyped ==
  ASSUME Typed, VResult, UNCHANGED proverVars
  PROVE  Typed'
  BY DEF VResult, Report, Verdict, ResultFile, Status, Job, Typed, TypeOK,
         TargetVisible, ChannelTypeOK, ProverTypeOK, VerifierTypeOK, VerifierPC,
         proverVars, fileVars

LEMMA VResultEndTyped ==
  ASSUME Typed, VResultEnd, UNCHANGED proverVars
  PROVE  Typed'
  BY DEF VResultEnd, Report, Verdict, ResultFile, Status, Job, Typed, TypeOK,
         TargetVisible, ChannelTypeOK, ProverTypeOK, VerifierTypeOK, VerifierPC,
         proverVars, fileVars

LEMMA VResultTearTyped ==
  ASSUME Typed, VResultTear, UNCHANGED proverVars
  PROVE  Typed'
<1>1. results' \in [Blocks -> ResultFile] /\ faults' \in 0 .. MaxFaults
  <2>1. TornResult \in ResultFile
    BY DEF TornResult, ResultFile, Status
  <2>2. results' \in [Blocks -> ResultFile]
    BY <2>1 DEF VResultTear, Typed, TypeOK, ChannelTypeOK
  <2>. QED  BY <2>2 DEF VResultTear, Fault, Typed, TypeOK, ChannelTypeOK
<1>. QED
  BY <1>1
     DEF VResultTear, Typed, TypeOK, TargetVisible, ChannelTypeOK, ProverTypeOK,
         VerifierTypeOK, VerifierPC, proverVars, fileVars

LEMMA VAppendTyped ==
  ASSUME Typed, VAppend, UNCHANGED proverVars
  PROVE  Typed'
<1>1. job.seq \in Blocks /\ job.commitment \in AnyCommitment
  BY DEF BoundedMirror, Typed, TypeOK, VerifierTypeOK, Job
<1>2. verifier' \in BoundedMirror
  BY <1>1, AppendBundleType DEF VAppend, BoundedMirror, Typed, TypeOK, VerifierTypeOK
<1>3. NoJob \in Job /\ job.seq \in Nat
  BY <1>1, ChainTypes DEF NoJob, Job, Blocks, AnyCommitment
<1>. QED
  BY <1>2, <1>3
     DEF VAppend, BoundedMirror, Typed, TypeOK, TargetVisible, ChannelTypeOK, ProverTypeOK,
         VerifierTypeOK, VerifierPC, proverVars, fileVars

LEMMA VCrashTyped ==
  ASSUME Typed, VCrash, UNCHANGED proverVars
  PROVE  Typed'
<1>1. NoJob \in Job /\ 0 \in Nat /\ FALSE \in BOOLEAN
  BY DEF NoJob, Job, Blocks, AnyCommitment
<1>2. faults' \in 0 .. MaxFaults
  BY DEF VCrash, Fault, Typed, TypeOK, ChannelTypeOK
<1>. QED
  BY <1>1, <1>2
     DEF VCrash, Typed, TypeOK, TargetVisible, ChannelTypeOK, ProverTypeOK,
         VerifierTypeOK, VerifierPC, proverVars, fileVars

LEMMA VerifierTyped ==
  ASSUME Typed, VerifierStep \/ VerifierFault, UNCHANGED proverVars
  PROVE  Typed'
  BY VStartTyped, VSeedTyped, VBkUpdateTyped, VBkResultTyped, VBkResultEndTyped,
     VBkResultTearTyped, VProofTyped, VResultTyped, VResultEndTyped,
     VResultTearTyped, VAppendTyped, VCrashTyped
     DEF VerifierStep, VerifierFault

LEMMA StepTyped == Typed /\ [Next]_vars => Typed'
<1>. SUFFICES ASSUME Typed, [Next]_vars PROVE Typed'
  OBVIOUS
<1>1. CASE Grow
  BY <1>1
     DEF Grow, Blocks, Typed, TypeOK, TargetVisible, ChannelTypeOK,
         ProverTypeOK, VerifierTypeOK, proverVars, verifierVars, fileVars
<1>2. CASE ProverMoves
  BY <1>2, ProverTyped DEF ProverMoves
<1>3. CASE VerifierMoves
  BY <1>3, VerifierTyped DEF VerifierMoves
<1>4. CASE UNCHANGED vars
  BY <1>4
     DEF vars, Typed, TypeOK, TargetVisible, ChannelTypeOK, ProverTypeOK,
         VerifierTypeOK, proverVars, verifierVars, fileVars
<1>. QED  BY <1>1, <1>2, <1>3, <1>4 DEF Next

(* Type correctness: in every state the daemons reach, both mirrors are well
   formed with at most W roots each, the outcome list is within its cap and
   every file is absent, torn or a record of its kind. *)
THEOREM TypeCorrect == Spec => []TypeOK
<1>1. Typed => TypeOK
  BY DEF Typed
<1>. QED  BY InitTyped, StepTyped, <1>1, PTL DEF Spec

-----------------------------------------------------------------------------
(* The prover's state file and its pubkey table. *)

Agree == table.commitment = prover.commitment /\ table.cursor = prover.updCursor

(* A rotation that the table can still make. *)
Pending(u) == u \in Rotations /\ L2(u) = table.commitment /\ table.cursor < u

(* What ties the two files together at each point of the prover.  A crash
   between the two saves leaves different commitments, because a rotation
   changes the set: the check at start-up sees it. *)
FilesInv ==
  /\ prover.initialized => table.present
  /\ ~prover.initialized => prover.updCursor = 0 /\ table.cursor = 0
  /\ ppc = "seed" => ~prover.initialized /\ table.present
  /\ ppc \in MainLoop => prover.initialized /\ Agree
  /\ ppc \in {"down", "refused"} /\ prover.initialized =>
        Agree \/ table.commitment # prover.commitment
  /\ ppc \in {"bkWrite", "bkWait"} => Pending(update)
  /\ ppc = "bkRotate" =>
        /\ prover.initialized /\ Pending(update)
        /\ prover.commitment = L3(update) /\ prover.updCursor = update

-----------------------------------------------------------------------------
(* Acknowledgements. *)

(* A positive verdict, on disk or about to be written, is for a rotation the
   verifier has applied. *)
AckInv ==
  /\ \A u \in Blocks : Accepted(bkResults[u]) => u <= verifier.updCursor
  /\ vpc \in {"bkResult", "bkResultWrite"} /\ job.ok => job.seq <= verifier.updCursor
  /\ RotationAcknowledged

(* No rotation past the prover's cursor comes before u. *)
NotPastNext(u) == \A r \in Rotations : prover.updCursor < r => u <= r

(* The prover requests rotations one at a time. *)
RotationInv ==
  /\ \A u \in Blocks : Exists(bkupds[u]) => NotPastNext(u)
  /\ ppc = "bkWrite" => NotPastNext(update)
  /\ NotPastNext(verifier.updCursor)

-----------------------------------------------------------------------------
(* Key blocks. *)

AtKeyBlock == {"drain", "bkWrite", "bkWait", "bkRotate", "bundle", "request",
               "write", "wait"}

(* No further from the prover's mirror than the next key block. *)
WithinStep(s) == s <= prover.lastSeq + Step

(* Everything the verifier may still append is within one step of the prover's
   own mirror. *)
LagInv ==
  /\ ~prover.initialized => prover.lastSeq = 0
  /\ ppc \in AtKeyBlock => prover.lastSeq < target /\ WithinStep(target)
  /\ ppc = "seedSave" => target = prover.lastSeq
  /\ \A s \in Blocks : Exists(proofs[s]) => WithinStep(s)
  /\ WithinStep(seedFile.seq)
  /\ vpc \in {"result", "resultWrite", "append"} => WithinStep(job.seq)
  /\ WithinStep(verifier.lastSeq)

(* Every step of the prover keeps the two files tied. *)
LEMMA FilesProver ==
  ASSUME Typed, FilesInv, ProverStep \/ ProverFault
  PROVE  FilesInv'
<1>1. CASE PStart
  BY <1>1 DEF PStart, LoadTable, FilesDisagree, FilesInv, Agree, Pending,
         MainLoop
<1>2. CASE PRefuse
  BY <1>2 DEF PRefuse, FilesDisagree, FilesInv, Agree, Pending, MainLoop
<1>3. CASE PSeedApply
  BY <1>3 DEF PSeedApply, AppendBundle, FilesInv, Agree, Pending, MainLoop
<1>4. CASE PSeedWrite
  BY <1>4 DEF PSeedWrite, Restart, FilesInv, Agree, Pending, MainLoop
<1>5. CASE PPoll
  BY <1>5 DEF PPoll, FilesInv, Agree, Pending, MainLoop
<1>6. CASE PDrainDone
  BY <1>6 DEF PDrainDone, FilesInv, Agree, Pending, MainLoop
<1>7. CASE PDrainFail
  BY <1>7 DEF PDrainFail, FilesInv, Agree, Pending, MainLoop
<1>8. CASE \E u \in Blocks : PBkWrite(u)
  BY <1>8 DEF PBkWrite, Drainable, NextUpdate, FilesInv, Agree, Pending,
         MainLoop
<1>9. CASE \E u \in Blocks : PBkTear(u)
  BY <1>9 DEF PBkTear, Drainable, NextUpdate, FilesInv, Agree, Pending, MainLoop
<1>10. CASE PBkWriteEnd
  BY <1>10 DEF PBkWriteEnd, FilesInv, Agree, Pending, MainLoop
<1>11. CASE PBkApply
  BY <1>11 DEF PBkApply, ApplyBkSetUpdate, FilesInv, Agree, Pending, MainLoop
<1>12. CASE PBkReject
  BY <1>12 DEF PBkReject, FilesInv, Agree, Pending, MainLoop
<1>13. CASE PBkTimeout
  BY <1>13 DEF PBkTimeout, FilesInv, Agree, Pending, MainLoop
<1>14. CASE PBkRotate
  BY <1>14 DEF PBkRotate, FilesInv, Agree, Pending, MainLoop
<1>15. CASE PEvidenceNotReady
  BY <1>15 DEF PEvidenceNotReady, Restart, FilesInv, Agree, Pending, MainLoop
<1>16. CASE PSkipForeignSet
  BY <1>16 DEF PSkipForeignSet, SkipTarget, Restart, FilesInv, Agree, Pending,
         MainLoop
<1>17. CASE PSkipFailure
  BY <1>17 DEF PSkipFailure, SkipTarget, Restart, FilesInv, Agree, Pending,
         MainLoop
<1>18. CASE PProve
  BY <1>18 DEF PProve, FilesInv, Agree, Pending, MainLoop
<1>19. CASE PProveNoRoots
  BY <1>19 DEF PProveNoRoots, FilesInv, Agree, Pending, MainLoop
<1>20. CASE PProofWrite
  BY <1>20 DEF PProofWrite, WriteRequest, FilesInv, Agree, Pending, MainLoop
<1>21. CASE PProofWriteEnd
  BY <1>21 DEF PProofWriteEnd, WriteRequest, FilesInv, Agree, Pending, MainLoop
<1>22. CASE PProofTear
  BY <1>22 DEF PProofTear, FilesInv, Agree, Pending, MainLoop
<1>23. CASE PResult
  BY <1>23 DEF PResult, AppendTarget, AppendBundle, Restart, FilesInv, Agree,
         Pending, MainLoop
<1>24. CASE PTimeout
  BY <1>24 DEF PTimeout, AppendTarget, AppendBundle, Restart, FilesInv, Agree,
         Pending, MainLoop
<1>25. CASE PSelfVerified
  BY <1>25 DEF PSelfVerified, AppendTarget, AppendBundle, Restart, FilesInv,
         Agree, Pending, MainLoop
<1>26. CASE PSelfVerifyFailed
  BY <1>26 DEF PSelfVerifyFailed, Restart, FilesInv, Agree, Pending, MainLoop
<1>27. CASE PCrash
  BY <1>27 DEF PCrash, Restart, Rotations, Typed, TypeOK, ProverTypeOK,
         ProverPC, FilesInv, Agree, Pending, MainLoop
<1>28. CASE PSkipNoChain
  BY <1>28 DEF PSkipNoChain, SkipTarget, Restart, FilesInv, Agree, Pending,
         MainLoop
<1>. QED
  BY <1>1, <1>2, <1>3, <1>4, <1>5, <1>6, <1>7, <1>8, <1>9, <1>10, <1>11, <1>12,
         <1>13, <1>14, <1>15, <1>16, <1>17, <1>18, <1>19, <1>20, <1>21, <1>22,
         <1>23, <1>24, <1>25, <1>26, <1>27, <1>28 DEF ProverStep, ProverFault

LEMMA FilesStep == Typed /\ FilesInv /\ [Next]_vars => FilesInv'
<1>. SUFFICES ASSUME Typed, FilesInv, [Next]_vars PROVE FilesInv'
  OBVIOUS
<1>1. CASE ProverMoves
  BY <1>1, FilesProver DEF ProverMoves
<1>2. CASE UNCHANGED proverVars
  BY <1>2 DEF proverVars, FilesInv, Agree, Pending
<1>. QED  BY <1>1, <1>2 DEF Next, Grow, VerifierMoves, vars

LEMMA InitFiles == Init => FilesInv
  BY DEF Init, ProverInit, NewMirror, NoTable, FilesInv, MainLoop

(* The prover's state file and its pubkey table name the same set and count the
   same rotations at every point of the main loop, after any crash. *)
THEOREM TablesAgree == Spec => []TableAgrees
<1>1. FilesInv => TableAgrees
  BY DEF FilesInv, TableAgrees, Agree
<1>. QED  BY InitTyped, StepTyped, InitFiles, FilesStep, <1>1, PTL DEF Spec

-----------------------------------------------------------------------------
(* No rotation is applied by the prover alone. *)

(* Of the prover's steps only PBkApply moves its rotation cursor, and none
   writes a verdict. *)
LEMMA ProverCursorFrame ==
  ASSUME ProverStep \/ ProverFault, ~PBkApply
  PROVE  prover'.updCursor = prover.updCursor /\ bkResults' = bkResults
<1>1. CASE PStart
  BY <1>1 DEF PStart, fileVars
<1>2. CASE PRefuse
  BY <1>2 DEF PRefuse, fileVars
<1>3. CASE PSeedApply
  BY <1>3 DEF PSeedApply, AppendBundle, fileVars
<1>4. CASE PSeedWrite
  BY <1>4 DEF PSeedWrite, fileVars
<1>5. CASE PPoll
  BY <1>5 DEF PPoll, fileVars
<1>6. CASE PDrainDone
  BY <1>6 DEF PDrainDone, fileVars
<1>7. CASE PDrainFail
  BY <1>7 DEF PDrainFail, fileVars
<1>8. CASE \E u \in Blocks : PBkWrite(u)
  BY <1>8 DEF PBkWrite, fileVars
<1>9. CASE \E u \in Blocks : PBkTear(u)
  BY <1>9 DEF PBkTear, fileVars
<1>10. CASE PBkWriteEnd
  BY <1>10 DEF PBkWriteEnd, fileVars
<1>11. CASE PBkReject
  BY <1>11 DEF PBkReject, fileVars
<1>12. CASE PBkTimeout
  BY <1>12 DEF PBkTimeout, fileVars
<1>13. CASE PBkRotate
  BY <1>13 DEF PBkRotate, fileVars
<1>14. CASE PEvidenceNotReady
  BY <1>14 DEF PEvidenceNotReady, fileVars
<1>15. CASE PSkipForeignSet
  BY <1>15 DEF PSkipForeignSet, SkipTarget, fileVars
<1>16. CASE PSkipFailure
  BY <1>16 DEF PSkipFailure, SkipTarget, fileVars
<1>17. CASE PProve
  BY <1>17 DEF PProve, fileVars
<1>18. CASE PProveNoRoots
  BY <1>18 DEF PProveNoRoots, fileVars
<1>19. CASE PProofWrite
  BY <1>19 DEF PProofWrite, WriteRequest, fileVars
<1>20. CASE PProofWriteEnd
  BY <1>20 DEF PProofWriteEnd, WriteRequest, fileVars
<1>21. CASE PProofTear
  BY <1>21 DEF PProofTear, fileVars
<1>22. CASE PResult
  BY <1>22 DEF PResult, AppendTarget, AppendBundle, fileVars
<1>23. CASE PTimeout
  BY <1>23 DEF PTimeout, AppendTarget, AppendBundle, fileVars
<1>24. CASE PSelfVerified
  BY <1>24 DEF PSelfVerified, AppendTarget, AppendBundle, fileVars
<1>25. CASE PSelfVerifyFailed
  BY <1>25 DEF PSelfVerifyFailed, fileVars
<1>26. CASE PCrash
  BY <1>26 DEF PCrash, fileVars
<1>27. CASE PSkipNoChain
  BY <1>27 DEF PSkipNoChain, SkipTarget, fileVars
<1>. QED
  BY <1>1, <1>2, <1>3, <1>4, <1>5, <1>6, <1>7, <1>8, <1>9, <1>10, <1>11, <1>12,
         <1>13, <1>14, <1>15, <1>16, <1>17, <1>18, <1>19, <1>20, <1>21, <1>22,
         <1>23, <1>24, <1>25, <1>26, <1>27 DEF ProverStep, ProverFault

LEMMA AckProver ==
  ASSUME Typed, AckInv, ProverMoves
  PROVE  AckInv'
<1>1. CASE PBkApply
  <2>1. update \in Blocks
    BY DEF Typed, TypeOK, ProverTypeOK
  <2>2. ~SelfVerify => update <= verifier.updCursor
    BY <1>1, <2>1 DEF PBkApply, BkVerdictOk, AckInv
  <2>3. prover'.updCursor = update
    BY <1>1 DEF PBkApply, ApplyBkSetUpdate
  <2>. QED
    BY <1>1, <2>2, <2>3
       DEF PBkApply, ProverMoves, verifierVars, fileVars, AckInv, RotationAcknowledged
<1>2. CASE ~PBkApply
  BY <1>2, ProverCursorFrame
     DEF ProverMoves, verifierVars, AckInv, RotationAcknowledged
<1>. QED  BY <1>1, <1>2

(* The verifier reports an update only after it has applied it, and its cursor
   never goes back. *)
LEMMA AckVerifier ==
  ASSUME Typed, AckInv, VerifierMoves
  PROVE  AckInv'
<1> DEFINE Cursor == verifier.updCursor
<1>0. /\ Cursor \in Nat /\ prover.updCursor \in Nat
      /\ bkResults \in [Blocks -> ResultFile]
      /\ job.seq \in Blocks /\ Blocks \subseteq Nat
  BY DEF Typed, TypeOK, ChannelTypeOK, ProverTypeOK, VerifierTypeOK, Mirror, Job,
         Blocks
<1>. SUFFICES
       /\ verifier'.updCursor \in Nat /\ Cursor <= verifier'.updCursor
       /\ \A u \in Blocks : Accepted(bkResults'[u]) => u <= verifier'.updCursor
       /\ vpc' \in {"bkResult", "bkResultWrite"} /\ job'.ok =>
            job'.seq <= verifier'.updCursor
  BY <1>0 DEF VerifierMoves, proverVars, AckInv, RotationAcknowledged
<1>1. CASE VStart
  BY <1>0, <1>1 DEF VStart, Seeded, AppendBundle, fileVars, AckInv
<1>2. CASE VSeed
  BY <1>0, <1>2 DEF VSeed, Seeded, AppendBundle, fileVars, AckInv
<1>3. CASE \E u \in Blocks : VBkUpdate(u)
  <2>1. PICK u \in Blocks : VBkUpdate(u)
    BY <1>3
  <2>2. \/ verifier' = verifier /\ ~job'.ok
        \/ CanApplyUpdate(verifier, bkupds[u].old, u) /\ verifier'.updCursor = u
    BY <2>1 DEF VBkUpdate, ApplyBkSetUpdate
  <2>3. job'.seq = u /\ vpc' = "bkResult" /\ bkResults' = bkResults
    BY <2>1 DEF VBkUpdate, fileVars
  <2>. QED  BY <1>0, <2>2, <2>3 DEF CanApplyUpdate, AckInv
<1>4. CASE VBkResult \/ VBkResultEnd
  <2>1. /\ bkResults' = [bkResults EXCEPT ![job.seq] = Verdict(job.ok)]
        /\ verifier' = verifier /\ vpc' = "loop"
        /\ job.ok => job.seq <= Cursor
    BY <1>4 DEF VBkResult, VBkResultEnd, BkReport, AckInv
  <2>. QED  BY <1>0, <2>1 DEF Accepted, Verdict, AckInv
<1>5. CASE VBkResultTear
  <2>1. /\ bkResults' = [bkResults EXCEPT ![job.seq] = TornResult]
        /\ verifier' = verifier /\ job' = job
        /\ job.ok => job.seq <= Cursor
    BY <1>5 DEF VBkResultTear, AckInv
  <2>. QED  BY <1>0, <2>1 DEF Accepted, TornResult, AckInv
<1>6. CASE \E s \in Blocks : VProof(s)
  BY <1>0, <1>6 DEF VProof, fileVars, AckInv
<1>7. CASE VResult \/ VResultEnd \/ VResultTear
  BY <1>0, <1>7 DEF VResult, VResultEnd, VResultTear, Report, AckInv
<1>8. CASE VAppend
  BY <1>0, <1>8 DEF VAppend, AppendBundle, fileVars, AckInv
<1>9. CASE VCrash
  BY <1>0, <1>9 DEF VCrash, fileVars, AckInv
<1>. QED
  BY <1>1, <1>2, <1>3, <1>4, <1>5, <1>6, <1>7, <1>8, <1>9
     DEF VerifierMoves, VerifierStep, VerifierFault

LEMMA AckStep == Typed /\ AckInv /\ [Next]_vars => AckInv'
<1>. SUFFICES ASSUME Typed, AckInv, [Next]_vars PROVE AckInv'
  OBVIOUS
<1>1. CASE Grow \/ UNCHANGED vars
  BY <1>1
     DEF Grow, vars, proverVars, verifierVars, fileVars, AckInv, RotationAcknowledged
<1>. QED  BY <1>1, AckProver, AckVerifier DEF Next

LEMMA InitAck == Init => AckInv
  BY DEF Init, ChannelInit, ProverInit, VerifierInit, NewMirror, NoResult, Accepted,
         AckInv, RotationAcknowledged

(* The prover never counts a rotation as applied that the verifier has not
   applied, whatever crashes, times out or is read half written. *)
THEOREM RotationsAcknowledged == Spec => []RotationAcknowledged
<1>1. AckInv => RotationAcknowledged
  BY DEF AckInv
<1>. QED  BY InitTyped, StepTyped, InitAck, AckStep, <1>1, PTL DEF Spec

-----------------------------------------------------------------------------
(* The verifier is at most one rotation ahead. *)

(* The prover's steps that touch neither its rotation cursor nor a request. *)
LEMMA ProverRequestFrame ==
  ASSUME ProverStep \/ ProverFault,
         ~PBkApply, ~PBkWriteEnd,
         \A u \in Blocks : ~PBkWrite(u) /\ ~PBkTear(u)
  PROVE  prover'.updCursor = prover.updCursor /\ bkupds' = bkupds /\ ppc' # "bkWrite"
<1>1. CASE PStart
  BY <1>1 DEF PStart, fileVars
<1>2. CASE PRefuse
  BY <1>2 DEF PRefuse, fileVars
<1>3. CASE PSeedApply
  BY <1>3 DEF PSeedApply, AppendBundle, fileVars
<1>4. CASE PSeedWrite
  BY <1>4 DEF PSeedWrite, Restart, fileVars
<1>5. CASE PPoll
  BY <1>5 DEF PPoll, fileVars
<1>6. CASE PDrainDone
  BY <1>6 DEF PDrainDone, fileVars
<1>7. CASE PDrainFail
  BY <1>7 DEF PDrainFail, fileVars
<1>8. CASE PBkReject
  BY <1>8 DEF PBkReject, fileVars
<1>9. CASE PBkTimeout
  BY <1>9 DEF PBkTimeout, fileVars
<1>10. CASE PBkRotate
  BY <1>10 DEF PBkRotate, fileVars
<1>11. CASE PEvidenceNotReady
  BY <1>11 DEF PEvidenceNotReady, Restart, fileVars
<1>12. CASE PSkipForeignSet
  BY <1>12 DEF PSkipForeignSet, SkipTarget, Restart, fileVars
<1>13. CASE PSkipFailure
  BY <1>13 DEF PSkipFailure, SkipTarget, Restart, fileVars
<1>14. CASE PProve
  BY <1>14 DEF PProve, fileVars
<1>15. CASE PProveNoRoots
  BY <1>15 DEF PProveNoRoots, fileVars
<1>16. CASE PProofWrite
  BY <1>16 DEF PProofWrite, WriteRequest, fileVars
<1>17. CASE PProofWriteEnd
  BY <1>17 DEF PProofWriteEnd, WriteRequest, fileVars
<1>18. CASE PProofTear
  BY <1>18 DEF PProofTear, fileVars
<1>19. CASE PResult
  BY <1>19 DEF PResult, AppendTarget, AppendBundle, Restart, fileVars
<1>20. CASE PTimeout
  BY <1>20 DEF PTimeout, AppendTarget, AppendBundle, Restart, fileVars
<1>21. CASE PSelfVerified
  BY <1>21 DEF PSelfVerified, AppendTarget, AppendBundle, Restart, fileVars
<1>22. CASE PSelfVerifyFailed
  BY <1>22 DEF PSelfVerifyFailed, Restart, fileVars
<1>23. CASE PCrash
  BY <1>23 DEF PCrash, Restart, fileVars
<1>24. CASE PSkipNoChain
  BY <1>24 DEF PSkipNoChain, SkipTarget, Restart, fileVars
<1>. QED
  BY <1>1, <1>2, <1>3, <1>4, <1>5, <1>6, <1>7, <1>8, <1>9, <1>10, <1>11, <1>12,
         <1>13, <1>14, <1>15, <1>16, <1>17, <1>18, <1>19, <1>20, <1>21, <1>22,
         <1>23, <1>24 DEF ProverStep, ProverFault

LEMMA RotationProver ==
  ASSUME Typed, RotationInv, ProverMoves
  PROVE  RotationInv'
<1>0. /\ prover.updCursor \in Nat /\ verifier.updCursor \in Nat /\ head \in Nat
      /\ bkupds \in [Blocks -> BkUpdateFile] /\ update \in Blocks
      /\ Blocks \subseteq Nat /\ Rotations \subseteq Blocks
  BY DEF Typed, TypeOK, ChannelTypeOK, ProverTypeOK, VerifierTypeOK, Mirror, Blocks,
         Rotations
<1>1. ASSUME NEW u \in Blocks, Drainable(u)
      PROVE  NotPastNext(u)
  BY <1>0, <1>1 DEF Drainable, NextUpdate, NotPastNext
<1>2. CASE PBkApply
  <2>1. /\ prover'.updCursor = update /\ prover.updCursor < update
        /\ bkupds' = bkupds /\ ppc' = "bkRotate" /\ verifier' = verifier
    BY <1>0, <1>2
       DEF PBkApply, CanApplyUpdate, ApplyBkSetUpdate, fileVars, ProverMoves, verifierVars
  <2>. QED  BY <1>0, <2>1 DEF RotationInv, NotPastNext
<1>3. CASE PBkWriteEnd
  <2>1. /\ bkupds' = [bkupds EXCEPT ![update] = BkRequest(update)]
        /\ prover' = prover /\ ppc = "bkWrite" /\ ppc' = "bkWait" /\ verifier' = verifier
    BY <1>3 DEF PBkWriteEnd, ProverMoves, verifierVars
  <2>2. NotPastNext(update)
    BY <2>1 DEF RotationInv
  <2>. QED  BY <1>0, <2>1, <2>2 DEF RotationInv, NotPastNext
<1>4. ASSUME NEW u \in Blocks, PBkWrite(u)
      PROVE  RotationInv'
  <2>1. /\ bkupds' = [bkupds EXCEPT ![u] = BkRequest(u)]
        /\ prover' = prover /\ ppc' = "bkWait" /\ verifier' = verifier
    BY <1>4 DEF PBkWrite, ProverMoves, verifierVars
  <2>2. NotPastNext(u)
    BY <1>1, <1>4 DEF PBkWrite
  <2>. QED  BY <1>0, <2>1, <2>2 DEF RotationInv, NotPastNext
<1>5. ASSUME NEW u \in Blocks, PBkTear(u)
      PROVE  RotationInv'
  <2>1. /\ bkupds' = [bkupds EXCEPT ![u] = TornBkUpdate] /\ update' = u
        /\ prover' = prover /\ verifier' = verifier
    BY <1>5 DEF PBkTear, ProverMoves, verifierVars
  <2>2. NotPastNext(u)
    BY <1>1, <1>5 DEF PBkTear
  <2>. QED  BY <1>0, <2>1, <2>2 DEF RotationInv, NotPastNext
<1>6. CASE ~PBkApply /\ ~PBkWriteEnd /\ \A u \in Blocks : ~PBkWrite(u) /\ ~PBkTear(u)
  <2>1. /\ prover'.updCursor = prover.updCursor /\ bkupds' = bkupds
        /\ ppc' # "bkWrite" /\ verifier' = verifier
    BY <1>6, ProverRequestFrame DEF ProverMoves, verifierVars
  <2>. QED  BY <2>1 DEF RotationInv, NotPastNext
<1>. QED  BY <1>2, <1>3, <1>4, <1>5, <1>6

(* The verifier's cursor only moves to a rotation that was requested. *)
LEMMA VerifierCursorFrame ==
  ASSUME VerifierStep \/ VerifierFault
  PROVE  /\ bkupds' = bkupds
         /\ \/ verifier'.updCursor = verifier.updCursor
            \/ \E u \in Blocks : Exists(bkupds[u]) /\ verifier'.updCursor = u
<1>1. CASE VStart \/ VSeed
  <2>1. Seeded(verifier).updCursor = verifier.updCursor
    BY DEF Seeded, AppendBundle
  <2>2. verifier' \in {verifier, Seeded(verifier)} /\ bkupds' = bkupds
    BY <1>1 DEF VStart, VSeed, fileVars
  <2>. QED  BY <2>1, <2>2
<1>2. CASE \E u \in Blocks : VBkUpdate(u)
  BY <1>2 DEF VBkUpdate, NextFile, ApplyBkSetUpdate, fileVars
<1>3. CASE VBkResult \/ VBkResultEnd \/ VBkResultTear
  BY <1>3 DEF VBkResult, VBkResultEnd, VBkResultTear, BkReport
<1>4. CASE \E s \in Blocks : VProof(s)
  BY <1>4 DEF VProof, fileVars
<1>5. CASE VResult \/ VResultEnd \/ VResultTear
  BY <1>5 DEF VResult, VResultEnd, VResultTear, Report
<1>6. CASE VAppend \/ VCrash
  BY <1>6 DEF VAppend, VCrash, AppendBundle, fileVars
<1>. QED
  BY <1>1, <1>2, <1>3, <1>4, <1>5, <1>6 DEF VerifierStep, VerifierFault

LEMMA RotationStep == Typed /\ RotationInv /\ [Next]_vars => RotationInv'
<1>. SUFFICES ASSUME Typed, RotationInv, [Next]_vars PROVE RotationInv'
  OBVIOUS
<1>1. CASE Grow \/ UNCHANGED vars
  BY <1>1
     DEF Grow, vars, proverVars, verifierVars, fileVars, RotationInv, NotPastNext
<1>2. CASE VerifierMoves
  BY <1>2, VerifierCursorFrame
     DEF VerifierMoves, proverVars, RotationInv, NotPastNext
<1>. QED  BY <1>1, <1>2, RotationProver DEF Next

LEMMA InitRotation == Init => RotationInv
  BY DEF Init, ChannelInit, ProverInit, VerifierInit, NewMirror, NoBkUpdate, Exists,
         Rotations, Blocks, RotationInv, NotPastNext

(* The verifier is never more than one rotation ahead of the prover: the prover
   requests a rotation only when it has applied every earlier one. *)
THEOREM RotationLag == Spec => []RotationLagBound
<1>1. Typed /\ RotationInv => RotationLagBound
  BY DEF Typed, TypeOK, ProverTypeOK, VerifierTypeOK, Mirror, Rotations, Blocks,
         RotationInv, NotPastNext, RotationLagBound
<1>. QED  BY InitTyped, StepTyped, InitRotation, RotationStep, <1>1, PTL DEF Spec

-----------------------------------------------------------------------------
(* The verifier is at most one bundle ahead. *)

LEMMA DivBound ==
  ASSUME NEW n \in Nat, NEW s \in Nat \ {0}
  PROVE  /\ (n \div s + 1) * s <= n + s
         /\ n < (n \div s + 1) * s
<1>1. n \div s \in Nat
  OBVIOUS
<1>2. (n \div s) * s <= n
  OBVIOUS
<1>3. n < (n \div s) * s + s
  OBVIOUS
<1> DEFINE q == n \div s
<1>4. (q + 1) * s = q * s + s /\ q * s \in Nat
  <2> HIDE DEF q
  <2>1. q \in Nat
    BY <1>1 DEF q
  <2>. QED  BY <2>1
<1>. HIDE DEF q
<1>5. q * s <= n /\ n < q * s + s
  BY <1>2, <1>3 DEF q
<1>. QED  BY <1>4, <1>5 DEF q

(* The next key block is past the cursor, by at most one step. *)
LEMMA NextKeyBlockBound ==
  ASSUME NEW n \in Nat
  PROVE  n < NextKeyBlock(n) /\ NextKeyBlock(n) <= n + Step
  BY DivBound, StepType DEF NextKeyBlock

(* A mirror that moves forward leaves room for everything there was. *)
LEMMA LagAdvance ==
  ASSUME Typed, LagInv, UNCHANGED <<proofs, seedFile, verifierVars>>,
         prover'.initialized, prover'.lastSeq \in Nat,
         prover.lastSeq <= prover'.lastSeq, ppc' \notin AtKeyBlock,
         ppc' = "seedSave" => target' = prover'.lastSeq
  PROVE  LagInv'
<1>1. /\ prover.lastSeq \in Nat /\ verifier.lastSeq \in Nat /\ Step \in Nat
      /\ seedFile.seq \in Nat /\ job.seq \in Nat /\ Blocks \subseteq Nat
  BY StepType
     DEF Typed, TypeOK, ChannelTypeOK, ProverTypeOK, VerifierTypeOK, Mirror, Blocks,
         Seed, Job
<1>2. ASSUME NEW s \in Nat, WithinStep(s)
      PROVE  s <= prover'.lastSeq + Step
  BY <1>1, <1>2 DEF WithinStep
<1>. QED  BY <1>1, <1>2 DEF LagInv, WithinStep, verifierVars

(* Every step of the prover keeps the requests within one step of it. *)
LEMMA LagProver ==
  ASSUME Typed, FilesInv, LagInv, ProverMoves
  PROVE  LagInv'
<1>0. /\ prover.lastSeq \in Nat /\ verifier.lastSeq \in Nat /\ target \in Nat
      /\ seedFile.seq \in Blocks /\ job.seq \in Blocks /\ Blocks \subseteq Nat
      /\ proofs \in [Blocks -> ProofFile] /\ Step \in Nat \ {0}
  BY StepType
     DEF Typed, TypeOK, ChannelTypeOK, ProverTypeOK, VerifierTypeOK, Mirror, Blocks,
         Seed, Job
<1>. USE <1>0 DEF LagInv, WithinStep, AtKeyBlock
<1>1. CASE PStart
  BY <1>1 DEF PStart, ProverMoves, verifierVars, fileVars
<1>2. CASE PRefuse
  BY <1>2 DEF PRefuse, ProverMoves, verifierVars, fileVars
<1>3. CASE PSeedApply
  <2>1. /\ prover'.lastSeq = target /\ prover.lastSeq <= target
        /\ prover'.initialized /\ ppc' = "seedSave" /\ target' = target
        /\ UNCHANGED <<proofs, seedFile, verifierVars>>
    BY <1>3 DEF PSeedApply, AppendBundle, FilesInv, fileVars, ProverMoves
  <2>. QED  BY <2>1, LagAdvance
<1>4. CASE PSeedWrite
  BY <1>4 DEF PSeedWrite, Restart, ProverMoves, verifierVars, fileVars
<1>5. CASE PPoll
  BY <1>5, NextKeyBlockBound DEF PPoll, ProverMoves, verifierVars, fileVars
<1>6. CASE PDrainDone
  BY <1>6 DEF PDrainDone, ProverMoves, verifierVars, fileVars
<1>7. CASE PDrainFail
  BY <1>7 DEF PDrainFail, ProverMoves, verifierVars, fileVars
<1>8. CASE \E u \in Blocks : PBkWrite(u)
  BY <1>8 DEF PBkWrite, ProverMoves, verifierVars, fileVars
<1>9. CASE \E u \in Blocks : PBkTear(u)
  BY <1>9 DEF PBkTear, ProverMoves, verifierVars, fileVars
<1>10. CASE PBkWriteEnd
  BY <1>10 DEF PBkWriteEnd, ProverMoves, verifierVars, fileVars
<1>11. CASE PBkApply
  BY <1>11 DEF PBkApply, ApplyBkSetUpdate, ProverMoves, verifierVars, fileVars
<1>12. CASE PBkReject
  BY <1>12 DEF PBkReject, ProverMoves, verifierVars, fileVars
<1>13. CASE PBkTimeout
  BY <1>13 DEF PBkTimeout, ProverMoves, verifierVars, fileVars
<1>14. CASE PBkRotate
  BY <1>14 DEF PBkRotate, ProverMoves, verifierVars, fileVars
<1>15. CASE PEvidenceNotReady
  BY <1>15 DEF PEvidenceNotReady, Restart, ProverMoves, verifierVars, fileVars
<1>16. CASE PSkipForeignSet
  <2>1. /\ prover'.lastSeq = target /\ prover.lastSeq <= target
        /\ prover'.initialized /\ ppc' = "idle"
        /\ UNCHANGED <<proofs, seedFile, verifierVars>>
    BY <1>16 DEF PSkipForeignSet, SkipTarget, Restart, FilesInv, MainLoop,
           fileVars, ProverMoves
  <2>. QED  BY <2>1, LagAdvance
<1>17. CASE PSkipFailure
  <2>1. /\ prover'.lastSeq = target /\ prover.lastSeq <= target
        /\ prover'.initialized /\ ppc' = "idle"
        /\ UNCHANGED <<proofs, seedFile, verifierVars>>
    BY <1>17 DEF PSkipFailure, SkipTarget, Restart, FilesInv, MainLoop,
           fileVars, ProverMoves
  <2>. QED  BY <2>1, LagAdvance
<1>18. CASE PProve
  BY <1>18 DEF PProve, ProverMoves, verifierVars, fileVars
<1>19. CASE PProveNoRoots
  BY <1>19 DEF PProveNoRoots, ProverMoves, verifierVars, fileVars
<1>20. CASE PProofWrite
  BY <1>20 DEF PProofWrite, WriteRequest, Exists, ProverMoves, verifierVars,
         fileVars
<1>21. CASE PProofWriteEnd
  BY <1>21 DEF PProofWriteEnd, WriteRequest, Exists, ProverMoves, verifierVars,
         fileVars
<1>22. CASE PProofTear
  BY <1>22 DEF PProofTear, Exists, ProverMoves, verifierVars, fileVars
<1>23. CASE PResult
  <2>1. /\ prover'.lastSeq = target /\ prover.lastSeq <= target
        /\ prover'.initialized /\ ppc' = "idle"
        /\ UNCHANGED <<proofs, seedFile, verifierVars>>
    BY <1>23 DEF PResult, AppendTarget, AppendBundle, Restart, fileVars,
           ProverMoves
  <2>. QED  BY <2>1, LagAdvance
<1>24. CASE PTimeout
  <2>1. /\ prover'.lastSeq = target /\ prover.lastSeq <= target
        /\ prover'.initialized /\ ppc' = "idle"
        /\ UNCHANGED <<proofs, seedFile, verifierVars>>
    BY <1>24 DEF PTimeout, AppendTarget, AppendBundle, Restart, fileVars,
           ProverMoves
  <2>. QED  BY <2>1, LagAdvance
<1>25. CASE PSelfVerified
  <2>1. /\ prover'.lastSeq = target /\ prover.lastSeq <= target
        /\ prover'.initialized /\ ppc' = "idle"
        /\ UNCHANGED <<proofs, seedFile, verifierVars>>
    BY <1>25 DEF PSelfVerified, AppendTarget, AppendBundle, Restart, fileVars,
           ProverMoves
  <2>. QED  BY <2>1, LagAdvance
<1>26. CASE PSelfVerifyFailed
  BY <1>26 DEF PSelfVerifyFailed, Restart, ProverMoves, verifierVars, fileVars
<1>27. CASE PCrash
  BY <1>27 DEF PCrash, Restart, ProverMoves, verifierVars, fileVars
<1>28. CASE PSkipNoChain
  <2>1. /\ prover'.lastSeq = target /\ prover.lastSeq <= target
        /\ prover'.initialized /\ ppc' = "idle"
        /\ UNCHANGED <<proofs, seedFile, verifierVars>>
    BY <1>28 DEF PSkipNoChain, SkipTarget, Restart, FilesInv, MainLoop,
           fileVars, ProverMoves
  <2>. QED  BY <2>1, LagAdvance
<1>. QED
  BY <1>1, <1>2, <1>3, <1>4, <1>5, <1>6, <1>7, <1>8, <1>9, <1>10, <1>11, <1>12,
         <1>13, <1>14, <1>15, <1>16, <1>17, <1>18, <1>19, <1>20, <1>21, <1>22,
         <1>23, <1>24, <1>25, <1>26, <1>27, <1>28 DEF ProverMoves, ProverStep,
         ProverFault

(* The verifier appends what was requested, or the seed. *)
LEMMA LagVerifier ==
  ASSUME Typed, LagInv, VerifierMoves
  PROVE  LagInv'
<1>0. /\ prover.lastSeq \in Nat /\ Step \in Nat /\ Blocks \subseteq Nat
      /\ verifier.lastSeq \in Nat /\ seedFile.seq \in Blocks /\ job.seq \in Blocks
  BY StepType
     DEF Typed, TypeOK, ChannelTypeOK, ProverTypeOK, VerifierTypeOK, Mirror, Blocks,
         Seed, Job
<1>. USE DEF LagInv, WithinStep
<1>1. /\ UNCHANGED <<prover, ppc, target, proofs, seedFile>>
      /\ vpc' \in {"result", "resultWrite", "append"} => WithinStep(job'.seq)
      /\ \/ verifier'.lastSeq \in {verifier.lastSeq, seedFile.seq}
         \/ vpc = "append" /\ verifier'.lastSeq = job.seq
  <2>1. UNCHANGED <<prover, ppc, target>>
    BY DEF VerifierMoves, proverVars
  <2>2. CASE VStart \/ VSeed
    <3>1. Seeded(verifier).lastSeq = seedFile.seq
      BY DEF Seeded, AppendBundle
    <3>2. verifier' \in {verifier, Seeded(verifier)}
      BY <2>2 DEF VStart, VSeed
    <3>. QED  BY <2>1, <2>2, <3>1, <3>2 DEF VStart, VSeed, fileVars
  <2>3. CASE \E u \in Blocks : VBkUpdate(u)
    BY <2>1, <2>3 DEF VBkUpdate, ApplyBkSetUpdate, fileVars
  <2>4. CASE VBkResult \/ VBkResultEnd \/ VBkResultTear
    BY <2>1, <2>4 DEF VBkResult, VBkResultEnd, VBkResultTear, BkReport
  <2>5. CASE \E s \in Blocks : VProof(s)
    BY <2>1, <2>5 DEF VProof, NextFile, fileVars
  <2>6. CASE VResult \/ VResultEnd \/ VResultTear
    BY <2>1, <2>6 DEF VResult, VResultEnd, VResultTear, Report
  <2>7. CASE VAppend
    BY <2>1, <2>7 DEF VAppend, AppendBundle, fileVars
  <2>8. CASE VCrash
    BY <2>1, <2>8 DEF VCrash, fileVars
  <2>. QED
    BY <2>2, <2>3, <2>4, <2>5, <2>6, <2>7, <2>8
       DEF VerifierMoves, VerifierStep, VerifierFault
<1>. QED  BY <1>0, <1>1

LEMMA LagStep == Typed /\ FilesInv /\ LagInv /\ [Next]_vars => LagInv'
<1>. SUFFICES ASSUME Typed, FilesInv, LagInv, [Next]_vars PROVE LagInv'
  OBVIOUS
<1>1. CASE Grow \/ UNCHANGED vars
  BY <1>1 DEF Grow, vars, proverVars, verifierVars, fileVars, LagInv, WithinStep
<1>. QED  BY <1>1, LagProver, LagVerifier DEF Next

LEMMA InitLag == Init => LagInv
  BY StepType
     DEF Init, ChannelInit, ProverInit, VerifierInit, NewMirror, NoProof, NoSeed,
         Exists, AtKeyBlock, LagInv, WithinStep

(* The verifier's mirror is never more than one bundle ahead of the prover's,
   whatever either of them repeats after a crash: the prover advances by the next
   thinned key block only, and writes no request further on. *)
THEOREM Lag == Spec => []LagBound
<1>1. LagInv => LagBound
  BY DEF LagInv, WithinStep, LagBound
<1>. QED  BY InitTyped, StepTyped, InitFiles, FilesStep, InitLag, LagStep, <1>1, PTL DEF Spec
=============================================================================
