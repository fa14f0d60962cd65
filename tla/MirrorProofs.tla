---------------------------- MODULE MirrorProofs ----------------------------
(***************************************************************************)
(* What the two mirrors hold, for every chain, every step, every window    *)
(* width and any number of faults: a key block enters each of them at most *)
(* once and in order, the verifier's commitment is one of the chain at the *)
(* verifier's own cursors, what is mirrored is backed by a file on disk,   *)
(* and a lost acknowledgement stays lost.                                  *)
(***************************************************************************)
EXTENDS BridgeProofs

(* The verifier has a request in hand. *)
Bundling == {"result", "resultWrite", "append"}
Rotating == {"bkResult", "bkResultWrite"}

-----------------------------------------------------------------------------
(* The steps of the prover, by what they do to the files and to its record. *)

ProofWrites == PProofWrite \/ PProofWriteEnd \/ PProofTear

RotationWrites ==
  \/ \E u \in Blocks : PBkWrite(u) \/ PBkTear(u)
  \/ PBkWriteEnd

Appends == PResult \/ PTimeout \/ PSelfVerified

Skips == PSkipForeignSet \/ PSkipFailure \/ PSkipNoChain

OtherSteps ==
  \/ PStart \/ PRefuse \/ PPoll \/ PDrainDone \/ PDrainFail
  \/ PBkReject \/ PBkTimeout \/ PBkRotate \/ PEvidenceNotReady
  \/ PProve \/ PProveNoRoots \/ PSelfVerifyFailed \/ PCrash

LEMMA ProverGroups ==
  ASSUME ProverMoves
  PROVE  \/ PSeedApply \/ PSeedWrite \/ PBkApply
         \/ ProofWrites \/ RotationWrites \/ Appends \/ Skips \/ OtherSteps
  BY DEF ProverMoves, ProverStep, ProverFault, ProofWrites, RotationWrites, Appends, Skips,
         OtherSteps

LEMMA ProofWritesEffect ==
  ASSUME ProofWrites
  PROVE  /\ ppc \in {"request", "write"} /\ ppc' \in {"write", "wait"}
         /\ UNCHANGED <<prover, table, target, seedFile, results, bkupds, bkResults>>
         /\ proofs' \in {[proofs EXCEPT ![target] = Request],
                         [proofs EXCEPT ![target] = TornProof]}
  BY DEF ProofWrites, PProofWrite, PProofWriteEnd, PProofTear, WriteRequest

LEMMA RotationWritesEffect ==
  ASSUME Typed, RotationWrites
  PROVE  /\ ppc \in {"drain", "bkWrite"} /\ ppc' \in {"bkWrite", "bkWait"}
         /\ UNCHANGED <<prover, table, target, seedFile, proofs, results, bkResults>>
         /\ \E u \in Blocks : bkupds' \in {[bkupds EXCEPT ![u] = BkRequest(u)],
                                           [bkupds EXCEPT ![u] = TornBkUpdate]}
<1>1. CASE \E u \in Blocks : PBkWrite(u)
  BY <1>1 DEF PBkWrite
<1>2. CASE \E u \in Blocks : PBkTear(u)
  BY <1>2 DEF PBkTear
<1>3. CASE PBkWriteEnd
  BY <1>3 DEF PBkWriteEnd, Typed, TypeOK, ProverTypeOK
<1>. QED  BY <1>1, <1>2, <1>3 DEF RotationWrites

LEMMA AppendsEffect ==
  ASSUME Appends
  PROVE  /\ ppc = "wait" /\ ppc' = "idle" /\ AppendTarget
         /\ UNCHANGED <<table, fileVars>>
         /\ SelfVerify => SelfVerified
  BY DEF Appends, PResult, PTimeout, PSelfVerified, Restart

LEMMA SkipsEffect ==
  ASSUME Skips
  PROVE  /\ ppc = "bundle" /\ ppc' = "idle" /\ SkipTarget
  BY DEF Skips, PSkipForeignSet, PSkipFailure, PSkipNoChain, SkipTarget, Restart

LEMMA OtherStepsEffect ==
  ASSUME OtherSteps
  PROVE  /\ UNCHANGED <<prover, fileVars>>
         /\ ppc' \notin {"seedSave", "write", "wait"}
         /\ ppc' = "request" => table'.commitment = L2(target')
<1>1. CASE PStart \/ PRefuse \/ PPoll \/ PDrainDone \/ PDrainFail
  BY <1>1 DEF PStart, PRefuse, PPoll, PDrainDone, PDrainFail
<1>2. CASE PBkReject \/ PBkTimeout \/ PBkRotate \/ PEvidenceNotReady
  BY <1>2 DEF PBkReject, PBkTimeout, PBkRotate, PEvidenceNotReady, Restart
<1>3. CASE PProve \/ PProveNoRoots \/ PSelfVerifyFailed \/ PCrash
  BY <1>3 DEF PProve, PProveNoRoots, PSelfVerifyFailed, PCrash, Restart
<1>. QED  BY <1>1, <1>2, <1>3 DEF OtherSteps

-----------------------------------------------------------------------------
(* What the files say. *)

(* A request that can be read carries the sets of its own block. *)
ContentInv ==
  /\ \A s \in Blocks : proofs[s].status = "whole" => proofs[s].commitment = L2(s)
  /\ \A u \in Blocks : bkupds[u].status = "whole" =>
        bkupds[u].old = L2(u) /\ bkupds[u].new = L3(u)
  /\ ppc \in {"request", "write"} => table.commitment = L2(target)
  /\ vpc \in Bundling /\ job.ok => job.commitment = L2(job.seq)

LEMMA InitContent == Init => ContentInv
  BY DEF Init, ChannelInit, ProverInit, VerifierInit, NoProof, NoBkUpdate, Bundling, ContentInv

LEMMA ContentProver ==
  ASSUME Typed, ContentInv, ProverMoves
  PROVE  ContentInv'
<1>0. /\ proofs \in [Blocks -> ProofFile] /\ bkupds \in [Blocks -> BkUpdateFile]
      /\ ppc \in {"request", "write"} => target \in Blocks
      /\ UNCHANGED <<vpc, job>>
  BY DEF Typed, TypeOK, ChannelTypeOK, TargetVisible, ProverPC, ProverMoves, verifierVars
<1>1. CASE PSeedApply
  BY <1>0, <1>1 DEF PSeedApply, fileVars, ContentInv
<1>2. CASE PSeedWrite
  BY <1>0, <1>2 DEF PSeedWrite, Restart, ContentInv
<1>3. CASE PBkApply
  BY <1>0, <1>3 DEF PBkApply, fileVars, ContentInv
<1>4. CASE ProofWrites
  BY <1>0, <1>4, ProofWritesEffect DEF Request, TornProof, ContentInv
<1>5. CASE RotationWrites
  BY <1>0, <1>5, RotationWritesEffect DEF BkRequest, TornBkUpdate, ContentInv
<1>6. CASE Appends
  BY <1>0, <1>6, AppendsEffect DEF fileVars, ContentInv
<1>7. CASE Skips
  BY <1>0, <1>7, SkipsEffect DEF SkipTarget, fileVars, ContentInv
<1>8. CASE OtherSteps
  BY <1>0, <1>8, OtherStepsEffect DEF fileVars, ContentInv
<1>. QED  BY <1>1, <1>2, <1>3, <1>4, <1>5, <1>6, <1>7, <1>8, ProverGroups

LEMMA ContentVerifier ==
  ASSUME ContentInv, VerifierMoves
  PROVE  ContentInv'
<1>0. UNCHANGED <<ppc, table, target>>
  BY DEF VerifierMoves, proverVars
<1>1. CASE VStart \/ VSeed
  BY <1>0, <1>1 DEF VStart, VSeed, fileVars, Bundling, ContentInv
<1>2. CASE \E u \in Blocks : VBkUpdate(u)
  BY <1>0, <1>2 DEF VBkUpdate, fileVars, Bundling, ContentInv
<1>3. CASE VBkResult \/ VBkResultEnd \/ VBkResultTear
  BY <1>0, <1>3 DEF VBkResult, VBkResultEnd, VBkResultTear, BkReport, Bundling, ContentInv
<1>4. CASE \E s \in Blocks : VProof(s)
  <2>1. PICK s \in Blocks : VProof(s)
    BY <1>4
  <2>2. /\ job' = [seq |-> s, ok |-> Verifies(proofs[s], proofs[s].circuit),
                   commitment |-> proofs[s].commitment]
        /\ UNCHANGED fileVars
    BY <2>1 DEF VProof
  <2>3. job'.ok => proofs[s].status = "whole"
    BY <2>2 DEF Verifies
  <2>. QED  BY <1>0, <2>2, <2>3 DEF fileVars, ContentInv
<1>5. CASE VResult \/ VResultEnd \/ VResultTear
  BY <1>0, <1>5 DEF VResult, VResultEnd, VResultTear, Report, Bundling, ContentInv
<1>6. CASE VAppend \/ VCrash
  BY <1>0, <1>6 DEF VAppend, VCrash, fileVars, Bundling, ContentInv
<1>. QED
  BY <1>1, <1>2, <1>3, <1>4, <1>5, <1>6 DEF VerifierMoves, VerifierStep, VerifierFault

LEMMA ContentStep == Typed /\ ContentInv /\ [Next]_vars => ContentInv'
<1>. SUFFICES ASSUME Typed, ContentInv, [Next]_vars PROVE ContentInv'
  OBVIOUS
<1>1. CASE Grow \/ UNCHANGED vars
  BY <1>1 DEF Grow, vars, proverVars, verifierVars, fileVars, ContentInv
<1>. QED  BY <1>1, ContentProver, ContentVerifier DEF Next

-----------------------------------------------------------------------------
(* The seed. *)

(* Nobody has handed anything over. *)
Untouched ==
  /\ verifier = NewMirror /\ vpc \in {"down", "loop"}
  /\ ~seedFile.present
  /\ \A s \in Blocks : ~Exists(proofs[s]) /\ ~Exists(bkupds[s])

(* The prover writes nothing before it is seeded; a record that is not
   initialised is new; and a verifier that has the seed still to come does
   nothing else. *)
SeedInv ==
  /\ ~prover.initialized \/ ppc = "seedSave" => Untouched
  /\ ~prover.initialized => \A l \in Layers : prover.recent[l] = << >>
  /\ ~verifier.initialized => verifier = NewMirror
  /\ seedFile.present /\ ~booted =>
        vpc \in {"down", "loop"} /\ (vpc = "loop" => ~verifier.initialized)

LEMMA InitSeed == Init => SeedInv
  BY DEF Init, ChannelInit, ProverInit, VerifierInit, NoSeed, NoProof, NoBkUpdate, NewMirror,
         Exists, Untouched, SeedInv

LEMMA SeedProver ==
  ASSUME Typed, FilesInv, SeedInv, ProverMoves
  PROVE  SeedInv'
<1>0. /\ UNCHANGED <<vpc, verifier, booted>>
      /\ \A pc \in MainLoop \ {"seedSave"} : ppc = pc => prover.initialized
  BY DEF ProverMoves, verifierVars, FilesInv
<1>1. CASE PSeedApply
  <2>1. ~prover.initialized /\ prover'.initialized /\ UNCHANGED fileVars
    BY <1>1 DEF PSeedApply, AppendBundle, FilesInv
  <2>. QED  BY <1>0, <2>1 DEF fileVars, Untouched, SeedInv
<1>2. CASE PSeedWrite
  <2>1. /\ Untouched /\ prover.initialized /\ prover' = prover /\ ppc' = "idle"
    BY <1>2 DEF PSeedWrite, Restart, FilesInv, MainLoop, SeedInv
  <2>. QED  BY <1>0, <2>1 DEF NewMirror, Untouched, SeedInv
<1>3. CASE PBkApply
  <2>1. prover.initialized /\ prover'.initialized /\ ppc' = "bkRotate" /\ UNCHANGED fileVars
    BY <1>0, <1>3 DEF PBkApply, ApplyBkSetUpdate, MainLoop
  <2>. QED  BY <1>0, <2>1 DEF fileVars, SeedInv
<1>4. CASE ProofWrites
  BY <1>0, <1>4, ProofWritesEffect DEF MainLoop, SeedInv
<1>5. CASE RotationWrites
  BY <1>0, <1>5, RotationWritesEffect DEF MainLoop, SeedInv
<1>6. CASE Appends
  <2>1. prover'.initialized /\ ppc' = "idle" /\ UNCHANGED fileVars
    BY <1>6, AppendsEffect DEF AppendTarget, AppendBundle
  <2>. QED  BY <1>0, <2>1 DEF fileVars, SeedInv
<1>7. CASE Skips
  <2>1. prover.initialized /\ prover'.initialized /\ ppc' = "idle" /\ UNCHANGED fileVars
    BY <1>0, <1>7, SkipsEffect DEF SkipTarget, MainLoop
  <2>. QED  BY <1>0, <2>1 DEF fileVars, SeedInv
<1>8. CASE OtherSteps
  BY <1>0, <1>8, OtherStepsEffect DEF fileVars, Untouched, SeedInv
<1>. QED  BY <1>1, <1>2, <1>3, <1>4, <1>5, <1>6, <1>7, <1>8, ProverGroups

(* A record that is not initialised takes no rotation: no block was signed by
   the zero commitment. *)
LEMMA NewTakesNoUpdate ==
  ASSUME Typed, ContentInv, SeedInv, NEW u \in Blocks, bkupds[u].status = "whole",
         CanApplyUpdate(verifier, bkupds[u].old, u)
  PROVE  verifier.initialized
<1>1. L2(u) \in Commitment
  BY ChainAssumption DEF L2, Blocks
<1>2. bkupds[u].old = L2(u)
  BY DEF ContentInv
<1>. QED  BY <1>1, <1>2, ChainAssumption DEF CanApplyUpdate, SeedInv, NewMirror

LEMMA SeedVerifier ==
  ASSUME Typed, ContentInv, SeedInv, VerifierMoves
  PROVE  SeedInv'
<1>0. UNCHANGED <<ppc, prover>>
  BY DEF VerifierMoves, proverVars
<1>1. CASE VStart
  <2>1. Seeded(verifier).initialized
    BY DEF Seeded, AppendBundle
  <2>2. /\ verifier' = verifier \/ (seedFile.present /\ verifier' = Seeded(verifier))
        /\ booted' = verifier'.initialized /\ vpc' = "loop" /\ UNCHANGED fileVars
    BY <1>1 DEF VStart
  <2>. QED  BY <1>0, <2>1, <2>2 DEF fileVars, Untouched, SeedInv
<1>2. CASE VSeed
  <2>1. verifier'.initialized /\ booted' /\ seedFile.present /\ UNCHANGED fileVars
    BY <1>2 DEF VSeed, Seeded, AppendBundle
  <2>. QED  BY <1>0, <2>1 DEF fileVars, Untouched, SeedInv
<1>3. CASE \E u \in Blocks : VBkUpdate(u)
  <2>1. PICK u \in Blocks : VBkUpdate(u)
    BY <1>3
  <2>2. /\ SeedChecked /\ Exists(bkupds[u]) /\ UNCHANGED <<booted, fileVars>>
        /\ \/ verifier' = verifier
           \/ /\ bkupds[u].status = "whole" /\ CanApplyUpdate(verifier, bkupds[u].old, u)
              /\ verifier'.initialized = verifier.initialized
    BY <2>1 DEF VBkUpdate, NextFile, ApplyBkSetUpdate
  <2>3. verifier' = verifier \/ verifier'.initialized
    BY <2>2, NewTakesNoUpdate
  <2>. QED  BY <1>0, <2>2, <2>3 DEF SeedChecked, fileVars, Untouched, SeedInv
<1>4. CASE VBkResult \/ VBkResultEnd \/ VBkResultTear
  <2>1. /\ vpc \in Rotating /\ UNCHANGED <<verifier, booted, seedFile, proofs, bkupds>>
    BY <1>4 DEF VBkResult, VBkResultEnd, VBkResultTear, BkReport, Rotating
  <2>. QED  BY <1>0, <2>1 DEF Rotating, Untouched, SeedInv
<1>5. CASE \E s \in Blocks : VProof(s)
  <2>1. PICK s \in Blocks : VProof(s)
    BY <1>5
  <2>2. SeedChecked /\ Exists(proofs[s]) /\ UNCHANGED <<verifier, booted, fileVars>>
    BY <2>1 DEF VProof, NextFile
  <2>. QED  BY <1>0, <2>2 DEF SeedChecked, fileVars, Untouched, SeedInv
<1>6. CASE VResult \/ VResultEnd \/ VResultTear
  <2>1. /\ vpc \in Bundling /\ UNCHANGED <<verifier, booted, seedFile, proofs, bkupds>>
    BY <1>6 DEF VResult, VResultEnd, VResultTear, Report, Bundling
  <2>. QED  BY <1>0, <2>1 DEF Bundling, Untouched, SeedInv
<1>7. CASE VAppend
  <2>1. /\ vpc = "append" /\ UNCHANGED <<booted, fileVars>>
        /\ verifier' = verifier \/ verifier'.initialized
    BY <1>7 DEF VAppend, AppendBundle
  <2>. QED  BY <1>0, <2>1 DEF fileVars, Untouched, SeedInv
<1>8. CASE VCrash
  BY <1>0, <1>8 DEF VCrash, fileVars, Untouched, SeedInv
<1>. QED
  BY <1>1, <1>2, <1>3, <1>4, <1>5, <1>6, <1>7, <1>8
     DEF VerifierMoves, VerifierStep, VerifierFault

LEMMA SeedStep == Typed /\ FilesInv /\ ContentInv /\ SeedInv /\ [Next]_vars => SeedInv'
<1>. SUFFICES ASSUME Typed, FilesInv, ContentInv, SeedInv, [Next]_vars PROVE SeedInv'
  OBVIOUS
<1>1. CASE Grow \/ UNCHANGED vars
  BY <1>1 DEF Grow, vars, proverVars, verifierVars, fileVars, Untouched, SeedInv
<1>. QED  BY <1>1, SeedProver, SeedVerifier DEF Next

(* The ways in which the verifier's record changes. *)
LEMMA VerifierEffect ==
  ASSUME SeedInv, VerifierMoves, verifier' # verifier
  PROVE  \/ /\ VStart \/ VSeed
            /\ ~verifier.initialized /\ verifier = NewMirror /\ verifier' = Seeded(verifier)
         \/ \E u \in Blocks :
              /\ VBkUpdate(u) /\ bkupds[u].status = "whole"
              /\ CanApplyUpdate(verifier, bkupds[u].old, u)
              /\ verifier' = ApplyBkSetUpdate(verifier, bkupds[u].new, u)
         \/ /\ VAppend /\ vpc = "append" /\ job.ok
            /\ verifier' = AppendBundle(verifier, Roots(job.seq), job.seq, job.seq,
                                        job.commitment)
<1>1. CASE VStart \/ VSeed
  BY <1>1 DEF VStart, VSeed, SeedInv
<1>2. CASE \E u \in Blocks : VBkUpdate(u)
  BY <1>2 DEF VBkUpdate
<1>3. CASE VAppend
  BY <1>3 DEF VAppend
<1>4. \/ VStart \/ VSeed \/ VAppend \/ \E u \in Blocks : VBkUpdate(u)
  BY DEF VerifierMoves, VerifierStep, VerifierFault, VBkResult, VBkResultEnd, VBkResultTear,
         BkReport, VProof, VResult, VResultEnd, VResultTear, Report, VCrash
<1>. QED  BY <1>1, <1>2, <1>3, <1>4

-----------------------------------------------------------------------------
(* The verifier's cursors. *)

(* A request in hand is past everything the verifier has applied, and between
   two requests its cursors are not behind its record. *)
SeenInv ==
  /\ vpc \in {"loop"} \cup Bundling => verifier.updCursor <= bkSeen
  /\ vpc \in Rotating => verifier.updCursor <= job.seq
  /\ vpc \in {"loop"} \cup Rotating => verifier.lastSeq <= seen
  /\ vpc \in Bundling => verifier.lastSeq < job.seq
  /\ SelfVerify => verifier.updCursor = 0

LEMMA InitSeen == Init => SeenInv
  BY DEF Init, VerifierInit, NewMirror, Bundling, Rotating, SeenInv

LEMMA SeenVerifier ==
  ASSUME Typed, SeedInv, SeenInv, VerifierMoves
  PROVE  SeenInv'
<1>0. /\ verifier.updCursor \in Nat /\ verifier.lastSeq \in Nat
      /\ seen \in Nat /\ bkSeen \in Nat /\ job.seq \in Nat /\ seedFile.seq \in Nat
      /\ Blocks \subseteq Nat /\ ~SelfVerify
  BY DEF Typed, TypeOK, ChannelTypeOK, VerifierTypeOK, Mirror, Job, Seed, Blocks,
         VerifierMoves
<1>. USE <1>0 DEF Bundling, Rotating, SeenInv
<1>1. CASE VStart
  <2>1. /\ Seeded(verifier).updCursor = verifier.updCursor
        /\ Seeded(verifier).lastSeq = seedFile.seq
    BY DEF Seeded, AppendBundle
  <2>2. /\ vpc' = "loop" /\ verifier' \in {verifier, Seeded(verifier)}
        /\ seen' = verifier'.lastSeq /\ bkSeen' = verifier'.updCursor
    BY <1>1 DEF VStart
  <2>. QED  BY <2>1, <2>2
<1>2. CASE VSeed
  BY <1>2 DEF VSeed, Seeded, AppendBundle
<1>3. CASE \E u \in Blocks : VBkUpdate(u)
  <2>1. PICK u \in Blocks : VBkUpdate(u)
    BY <1>3
  <2>2. /\ vpc = "loop" /\ vpc' = "bkResult" /\ bkSeen < u /\ job'.seq = u
        /\ seen' = seen /\ verifier'.lastSeq = verifier.lastSeq
        /\ verifier'.updCursor \in {verifier.updCursor, u}
    BY <2>1 DEF VBkUpdate, NextFile, ApplyBkSetUpdate
  <2>. QED  BY <2>2
<1>4. CASE VBkResult \/ VBkResultEnd
  BY <1>4 DEF VBkResult, VBkResultEnd, BkReport
<1>5. CASE VBkResultTear
  BY <1>5 DEF VBkResultTear
<1>6. CASE \E s \in Blocks : VProof(s)
  <2>1. PICK s \in Blocks : VProof(s)
    BY <1>6
  <2>2. /\ vpc = "loop" /\ vpc' = "result" /\ seen < s /\ job'.seq = s
        /\ UNCHANGED <<verifier, bkSeen>>
    BY <2>1 DEF VProof, NextFile
  <2>. QED  BY <2>2
<1>7. CASE VResult \/ VResultEnd \/ VResultTear
  BY <1>7 DEF VResult, VResultEnd, VResultTear, Report
<1>8. CASE VAppend
  <2>1. /\ vpc = "append" /\ vpc' = "loop" /\ seen' = job.seq /\ bkSeen' = bkSeen
        /\ verifier'.updCursor = verifier.updCursor
        /\ verifier'.lastSeq \in {verifier.lastSeq, job.seq}
    BY <1>8 DEF VAppend, AppendBundle
  <2>. QED  BY <2>1
<1>9. CASE VCrash
  BY <1>9 DEF VCrash
<1>. QED
  BY <1>1, <1>2, <1>3, <1>4, <1>5, <1>6, <1>7, <1>8, <1>9
     DEF VerifierMoves, VerifierStep, VerifierFault

LEMMA SeenStep == Typed /\ SeedInv /\ SeenInv /\ [Next]_vars => SeenInv'
<1>1. CASE UNCHANGED verifierVars
  BY <1>1 DEF verifierVars, SeenInv
<1>. QED  BY <1>1, SeenVerifier DEF Next, Grow, ProverMoves, vars

-----------------------------------------------------------------------------
(* The order of the windows. *)

(* A window whose heights increase up to n. *)
Ordered(win, n) == Increasing(win) /\ \A i \in 1 .. Len(win) : win[i].height <= n

OrderInv ==
  \A l \in Layers : /\ Ordered(prover.recent[l], prover.lastSeq)
                    /\ Ordered(verifier.recent[l], verifier.lastSeq)

LEMMA EmptyOrdered ==
  ASSUME NEW n
  PROVE  Ordered(<< >>, n)
  BY DEF Ordered, Increasing

LEMMA EntryHeight ==
  ASSUME NEW e \in Entry
  PROVE  e.height \in Nat
  BY DEF Entry, Blocks

LEMMA WindowHeights ==
  ASSUME NEW win \in Seq(Entry), NEW i \in 1 .. Len(win)
  PROVE  win[i].height \in Nat
<1>1. win[i] \in Entry
  OBVIOUS
<1>. QED  BY <1>1, EntryHeight

LEMMA OrderedLater ==
  ASSUME NEW win \in Seq(Entry), NEW n \in Nat, NEW k \in Nat, n <= k, Ordered(win, n)
  PROVE  Ordered(win, k)
<1>. QED  BY WindowHeights DEF Ordered

(* Pushing a newer height keeps a window in order. *)
LEMMA PushOrdered ==
  ASSUME NEW win \in Seq(Entry), Len(win) <= W, NEW e \in Entry, NEW n \in Nat,
         Ordered(win, n), n < e.height \/ win = << >>
  PROVE  Ordered(Push(win, e), e.height)
<1>1. /\ \A i \in 1 .. Len(win) : win[i].height \in Nat
      /\ e.height \in Nat /\ Len(win) \in Nat
  BY WindowHeights, EntryHeight
<1>2. ASSUME NEW v \in Seq(Entry), Ordered(v, n), n < e.height \/ v = << >>
      PROVE  Ordered(Append(v, e), e.height)
  <2>1. /\ Len(Append(v, e)) = Len(v) + 1 /\ Len(v) \in Nat
        /\ \A i \in 1 .. Len(v) : Append(v, e)[i] = v[i]
        /\ Append(v, e)[Len(v) + 1] = e
        /\ \A i \in 1 .. Len(v) : v[i].height \in Nat
    BY <1>2, WindowHeights
  <2>2. \A i \in 1 .. Len(v) : v[i].height < e.height
    BY <1>1, <1>2, <2>1 DEF Ordered
  <2>3. \A i, j \in 1 .. Len(v) : i < j => v[i].height < v[j].height
    BY <1>2 DEF Ordered, Increasing
  <2>4. ASSUME NEW i \in 1 .. Len(v) + 1, NEW j \in 1 .. Len(v) + 1, i < j
        PROVE  Append(v, e)[i].height < Append(v, e)[j].height
    <3>1. i \in 1 .. Len(v)
      BY <2>1, <2>4
    <3>2. CASE j = Len(v) + 1
      BY <2>1, <2>2, <3>1, <3>2
    <3>3. CASE j # Len(v) + 1
      <4>1. j \in 1 .. Len(v)
        BY <2>1, <3>3
      <4>. QED  BY <2>1, <2>3, <2>4, <3>1, <4>1
    <3>. QED  BY <3>2, <3>3
  <2>5. ASSUME NEW i \in 1 .. Len(v) + 1
        PROVE  Append(v, e)[i].height <= e.height
    <3>1. CASE i = Len(v) + 1
      BY <1>1, <2>1, <3>1
    <3>2. CASE i # Len(v) + 1
      <4>1. i \in 1 .. Len(v)
        BY <2>1, <3>2
      <4>. QED  BY <1>1, <2>1, <2>2, <4>1
    <3>. QED  BY <3>1, <3>2
  <2>. QED  BY <2>1, <2>4, <2>5 DEF Ordered, Increasing
<1>3. CASE Len(win) < W
  BY <1>2, <1>3 DEF Push
<1>4. CASE ~(Len(win) < W)
  <2>1. Len(win) = W /\ win # << >>
    BY <1>1, <1>4, ChainAssumption
  <2>2. /\ Tail(win) \in Seq(Entry) /\ Len(Tail(win)) = Len(win) - 1
        /\ \A i \in 1 .. Len(win) - 1 : Tail(win)[i] = win[i + 1]
    BY <2>1
  <2>3. Increasing(Tail(win))
    BY <1>1, <2>2 DEF Ordered, Increasing
  <2>4. \A i \in 1 .. Len(Tail(win)) : Tail(win)[i].height <= n
    BY <1>1, <2>2 DEF Ordered
  <2>5. Ordered(Append(Tail(win), e), e.height)
    BY <1>2, <2>1, <2>2, <2>3, <2>4 DEF Ordered
  <2>. QED  BY <1>4, <2>5 DEF Push
<1>. QED  BY <1>3, <1>4

(* A bundle of a later block keeps every window in order. *)
LEMMA AppendOrdered ==
  ASSUME NEW m \in BoundedMirror, NEW s \in Blocks, NEW roots \in {Roots(s), NoRoots},
         NEW c, NEW l \in Layers, Ordered(m.recent[l], m.lastSeq),
         m.lastSeq < s \/ m.recent[l] = << >>
  PROVE  LET b == AppendBundle(m, roots, s, s, c)
         IN  Ordered(b.recent[l], b.lastSeq)
<1> DEFINE b == AppendBundle(m, roots, s, s, c)
           e == [hash |-> roots[l], height |-> s]
<1>1. /\ m.recent[l] \in Seq(Entry) /\ Len(m.recent[l]) <= W
      /\ m.lastSeq \in Nat /\ s \in Nat
  BY ChainTypes DEF BoundedMirror, Mirror
<1>2. /\ b.lastSeq = s
      /\ b.recent[l] = IF l \in DOMAIN roots THEN Push(m.recent[l], e) ELSE m.recent[l]
  BY DEF AppendBundle
<1>3. CASE l \in DOMAIN roots
  <2>1. e \in Entry
    <3>1. CASE roots = Roots(s)
      BY <1>3, <3>1 DEF Roots, LayersOf, Layers, Entry
    <3>2. CASE roots = NoRoots
      BY <1>3, <3>2 DEF NoRoots
    <3>. QED  BY <3>1, <3>2
  <2>2. e.height = s
    OBVIOUS
  <2>3. Ordered(Push(m.recent[l], e), e.height)
    <3> HIDE DEF e
    <3>. QED  BY <1>1, <2>1, <2>2, PushOrdered
  <2>. QED  BY <1>2, <1>3, <2>2, <2>3
<1>4. CASE l \notin DOMAIN roots
  <2>1. CASE m.recent[l] = << >>
    BY <1>2, <1>4, <2>1, EmptyOrdered
  <2>2. CASE m.lastSeq < s
    BY <1>1, <1>2, <1>4, <2>2, OrderedLater
  <2>. QED  BY <2>1, <2>2
<1>. QED  BY <1>3, <1>4

LEMMA InitOrder == Init => OrderInv
  BY EmptyOrdered DEF Init, ProverInit, VerifierInit, NewMirror, OrderInv

LEMMA MirrorTypes ==
  ASSUME Typed
  PROVE  prover \in BoundedMirror /\ verifier \in BoundedMirror
  BY DEF Typed, TypeOK, ProverTypeOK, VerifierTypeOK, BoundedMirror

(* The prover appends and skips to its target, which is past its record. *)
LEMMA OrderProver ==
  ASSUME Typed, FilesInv, LagInv, SeedInv, OrderInv, ProverMoves, NEW l \in Layers
  PROVE  Ordered(prover'.recent[l], prover'.lastSeq)
<1>0. /\ ppc \in AtKeyBlock => target \in Blocks /\ prover.lastSeq < target
      /\ prover.lastSeq \in Nat /\ prover.recent[l] \in Seq(Entry) /\ Blocks \subseteq Nat
      /\ Ordered(prover.recent[l], prover.lastSeq)
  BY DEF Typed, TypeOK, ProverTypeOK, TargetVisible, ProverPC, AtKeyBlock, LagInv, Mirror,
         OrderInv, Blocks
<1>1. CASE PSeedApply
  <2>1. /\ ppc = "seed" /\ target <= head
        /\ prover' = AppendBundle(prover, Roots(target), target, target, table.commitment)
    BY <1>1 DEF PSeedApply
  <2>2. prover.recent[l] = << >>
    BY <2>1 DEF FilesInv, SeedInv
  <2>3. target \in Blocks
    BY <2>1, ChainAssumption DEF Typed, TypeOK, ProverTypeOK, ChannelTypeOK, Blocks
  <2>. QED  BY <1>0, <2>1, <2>2, <2>3, AppendOrdered, MirrorTypes
<1>2. CASE PSeedWrite
  BY <1>0, <1>2 DEF PSeedWrite
<1>3. CASE PBkApply
  BY <1>0, <1>3 DEF PBkApply, ApplyBkSetUpdate
<1>4. CASE ProofWrites
  BY <1>0, <1>4, ProofWritesEffect
<1>5. CASE RotationWrites
  BY <1>0, <1>5, RotationWritesEffect
<1>6. CASE Appends
  <2>1. PICK roots \in {Roots(target), NoRoots} :
          prover' = AppendBundle(prover, roots, target, target, table.commitment)
    BY <1>6, AppendsEffect DEF AppendTarget
  <2>2. target \in Blocks /\ prover.lastSeq < target
    BY <1>0, <1>6, AppendsEffect DEF AtKeyBlock
  <2>. QED  BY <1>0, <2>1, <2>2, AppendOrdered, MirrorTypes
<1>7. CASE Skips
  <2>1. prover'.recent = prover.recent /\ prover'.lastSeq = target
    BY <1>7, SkipsEffect DEF SkipTarget
  <2>2. ppc \in AtKeyBlock
    BY <1>7, SkipsEffect DEF AtKeyBlock
  <2>3. target \in Nat /\ prover.lastSeq <= target
    BY <1>0, <2>2, ChainAssumption DEF Blocks
  <2>. QED  BY <1>0, <2>1, <2>3, OrderedLater
<1>8. CASE OtherSteps
  BY <1>0, <1>8, OtherStepsEffect
<1>. QED  BY <1>1, <1>2, <1>3, <1>4, <1>5, <1>6, <1>7, <1>8, ProverGroups

(* The verifier appends the seed to a new record, and a bundle only past its
   record or to a new one. *)
LEMMA OrderVerifier ==
  ASSUME Typed, SeedInv, SeenInv, OrderInv, VerifierMoves, NEW l \in Layers
  PROVE  Ordered(verifier'.recent[l], verifier'.lastSeq)
<1>0. /\ Ordered(verifier.recent[l], verifier.lastSeq)
      /\ seedFile.seq \in Blocks /\ job.seq \in Blocks
  BY DEF Typed, TypeOK, ChannelTypeOK, VerifierTypeOK, Seed, Job, OrderInv
<1>1. CASE verifier = NewMirror /\ verifier' = Seeded(verifier)
  <2>1. verifier.recent[l] = << >>
    BY <1>1 DEF NewMirror
  <2>. QED  BY <1>0, <1>1, <2>1, AppendOrdered, MirrorTypes DEF Seeded
<1>2. CASE /\ vpc = "append"
           /\ verifier' = AppendBundle(verifier, Roots(job.seq), job.seq, job.seq,
                                       job.commitment)
  <2>1. verifier.lastSeq < job.seq
    BY <1>2 DEF Bundling, SeenInv
  <2>. QED  BY <1>0, <1>2, <2>1, AppendOrdered, MirrorTypes
<1>3. CASE \E u \in Blocks : verifier' = ApplyBkSetUpdate(verifier, bkupds[u].new, u)
  BY <1>0, <1>3 DEF ApplyBkSetUpdate
<1>4. CASE verifier' = verifier
  BY <1>0, <1>4
<1>. QED  BY <1>1, <1>2, <1>3, <1>4, VerifierEffect

LEMMA OrderStep ==
  Typed /\ FilesInv /\ LagInv /\ SeedInv /\ SeenInv /\ OrderInv /\ [Next]_vars => OrderInv'
<1>. SUFFICES ASSUME Typed, FilesInv, LagInv, SeedInv, SeenInv, OrderInv, [Next]_vars
              PROVE  OrderInv'
  OBVIOUS
<1>1. CASE Grow \/ UNCHANGED vars
  BY <1>1 DEF Grow, vars, proverVars, verifierVars, OrderInv
<1>2. CASE ProverMoves
  BY <1>2, OrderProver DEF ProverMoves, verifierVars, OrderInv
<1>3. CASE VerifierMoves
  BY <1>3, OrderVerifier DEF VerifierMoves, proverVars, OrderInv
<1>. QED  BY <1>1, <1>2, <1>3 DEF Next

-----------------------------------------------------------------------------
(* The verifier's commitment. *)

LEMMA HistoryProver ==
  ASSUME SeedInv, CommitmentFromHistory, ProverMoves
  PROVE  CommitmentFromHistory'
<1>0. verifier' = verifier
  BY DEF ProverMoves, verifierVars
<1>1. CASE PSeedWrite
  <2>1. ~verifier.initialized
    BY <1>1 DEF PSeedWrite, SeedInv, Untouched, NewMirror
  <2>. QED  BY <1>0, <2>1 DEF CommitmentFromHistory
<1>2. CASE ~PSeedWrite
  <2>1. seedFile' = seedFile
    <3>1. CASE PSeedApply \/ PBkApply
      BY <3>1 DEF PSeedApply, PBkApply, fileVars
    <3>2. CASE ProofWrites
      BY <3>2, ProofWritesEffect
    <3>3. CASE RotationWrites
      BY <3>3 DEF RotationWrites, PBkWrite, PBkTear, PBkWriteEnd
    <3>4. CASE Appends \/ Skips \/ OtherSteps
      BY <3>4, AppendsEffect, SkipsEffect, OtherStepsEffect DEF SkipTarget, fileVars
    <3>. QED  BY <1>2, <3>1, <3>2, <3>3, <3>4, ProverGroups
  <2>. QED  BY <1>0, <2>1 DEF CommitmentFromHistory
<1>. QED  BY <1>1, <1>2

LEMMA HistoryVerifier ==
  ASSUME Typed, ContentInv, SeedInv, CommitmentFromHistory, VerifierMoves
  PROVE  CommitmentFromHistory'
<1>0. seedFile' = seedFile /\ verifier.updCursor \in Nat /\ Blocks \subseteq Nat
  BY DEF Typed, TypeOK, VerifierTypeOK, Mirror, Blocks, VerifierMoves, VerifierStep,
         VerifierFault, VStart, VSeed, VBkUpdate, VBkResult, VBkResultEnd, VBkResultTear,
         BkReport, VProof, VResult, VResultEnd, VResultTear, Report, VAppend, VCrash, fileVars
<1>1. CASE verifier' = verifier
  BY <1>0, <1>1 DEF CommitmentFromHistory
<1>2. CASE verifier = NewMirror /\ verifier' = Seeded(verifier)
  <2>1. /\ verifier'.updCursor = 0 /\ verifier'.lastSeq = seedFile.seq
        /\ verifier'.commitment = seedFile.commitment
    BY <1>2 DEF Seeded, AppendBundle, NewMirror
  <2>. QED  BY <1>0, <2>1 DEF CommitmentFromHistory
<1>3. CASE \E u \in Blocks :
             /\ bkupds[u].status = "whole" /\ CanApplyUpdate(verifier, bkupds[u].old, u)
             /\ verifier' = ApplyBkSetUpdate(verifier, bkupds[u].new, u)
  <2>1. verifier'.updCursor > 0 /\ verifier'.commitment = L3(verifier'.updCursor)
    BY <1>0, <1>3 DEF ContentInv, CanApplyUpdate, ApplyBkSetUpdate
  <2>. QED  BY <2>1 DEF CommitmentFromHistory
<1>4. CASE /\ vpc = "append" /\ job.ok
           /\ verifier' = AppendBundle(verifier, Roots(job.seq), job.seq, job.seq,
                                       job.commitment)
  <2>1. verifier'.commitment = L2(verifier'.lastSeq)
    BY <1>4 DEF AppendBundle, Bundling, ContentInv
  <2>. QED  BY <2>1 DEF CommitmentFromHistory
<1>. QED  BY <1>1, <1>2, <1>3, <1>4, VerifierEffect

LEMMA HistoryStep ==
  Typed /\ ContentInv /\ SeedInv /\ CommitmentFromHistory /\ [Next]_vars
    => CommitmentFromHistory'
<1>. SUFFICES ASSUME Typed, ContentInv, SeedInv, CommitmentFromHistory, [Next]_vars
              PROVE  CommitmentFromHistory'
  OBVIOUS
<1>1. CASE Grow \/ UNCHANGED vars
  BY <1>1 DEF Grow, vars, verifierVars, fileVars, CommitmentFromHistory
<1>. QED  BY <1>1, HistoryProver, HistoryVerifier DEF Next

-----------------------------------------------------------------------------
(* What is mirrored is backed by a file. *)

LEMMA PushMirrored ==
  ASSUME NEW win \in Seq(Entry), Len(win) <= W, NEW e \in Entry,
         NEW i \in 2 .. Len(Push(win, e))
  PROVE  /\ win # << >>
         /\ \/ Push(win, e)[i] = e
            \/ \E j \in 2 .. Len(win) : Push(win, e)[i] = win[j]
<1>0. Len(win) \in Nat
  OBVIOUS
<1>1. CASE Len(win) < W
  <2>1. /\ Push(win, e) = Append(win, e) /\ Len(Append(win, e)) = Len(win) + 1
        /\ Append(win, e)[Len(win) + 1] = e
        /\ \A j \in 1 .. Len(win) : Append(win, e)[j] = win[j]
    BY <1>1 DEF Push
  <2>2. CASE i = Len(win) + 1
    BY <1>0, <2>1, <2>2
  <2>3. CASE i # Len(win) + 1
    <3>1. i \in 2 .. Len(win)
      BY <1>0, <2>1, <2>3
    <3>. QED  BY <2>1, <3>1
  <2>. QED  BY <2>2, <2>3
<1>2. CASE ~(Len(win) < W)
  <2>0. Len(win) = W /\ win # << >>
    BY <1>0, <1>2, ChainAssumption
  <2>1. /\ Tail(win) \in Seq(Entry) /\ Len(Tail(win)) = Len(win) - 1
        /\ \A j \in 1 .. Len(win) - 1 : Tail(win)[j] = win[j + 1]
    BY <2>0
  <2>2. /\ Push(win, e) = Append(Tail(win), e) /\ Len(Push(win, e)) = Len(win)
        /\ Push(win, e)[Len(win)] = e
        /\ \A j \in 1 .. Len(win) - 1 : Push(win, e)[j] = Tail(win)[j]
    BY <1>0, <1>2, <2>0, <2>1 DEF Push
  <2>3. CASE i = Len(win)
    BY <2>0, <2>2, <2>3
  <2>4. CASE i # Len(win)
    <3>1. i \in 1 .. Len(win) - 1 /\ i + 1 \in 2 .. Len(win)
      BY <1>0, <2>2, <2>4
    <3>. QED  BY <2>0, <2>1, <2>2, <3>1
  <2>. QED  BY <2>3, <2>4
<1>. QED  BY <1>1, <1>2

(* A bundle adds at most its own block, and nothing to an empty window: the
   oldest entry does not count. *)
LEMMA AppendMirrored ==
  ASSUME NEW m \in BoundedMirror, NEW s \in Blocks, NEW roots \in {Roots(s), NoRoots},
         NEW c, NEW r \in Mirrored(AppendBundle(m, roots, s, s, c))
  PROVE  m.recent[1] # << >> /\ r \in Mirrored(m) \cup {s}
<1> DEFINE b == AppendBundle(m, roots, s, s, c)
           e == [hash |-> roots[1], height |-> s]
<1>1. /\ 1 \in Layers /\ m.recent[1] \in Seq(Entry) /\ Len(m.recent[1]) <= W
  BY ChainAssumption DEF Layers, BoundedMirror, Mirror
<1>2. b.recent[1] = IF 1 \in DOMAIN roots THEN Push(m.recent[1], e) ELSE m.recent[1]
  BY <1>1 DEF AppendBundle
<1>3. PICK i \in 2 .. Len(b.recent[1]) : r = b.recent[1][i].height
  BY DEF Mirrored
<1>4. CASE 1 \in DOMAIN roots
  <2>1. e \in Entry
    <3>1. CASE roots = Roots(s)
      BY <1>4, <3>1 DEF Roots, LayersOf, Layers, Entry
    <3>2. CASE roots = NoRoots
      BY <1>4, <3>2 DEF NoRoots
    <3>. QED  BY <3>1, <3>2
  <2>2. e.height = s /\ b.recent[1] = Push(m.recent[1], e)
    BY <1>2, <1>4
  <2> HIDE DEF e, b
  <2>3. /\ m.recent[1] # << >>
        /\ \/ b.recent[1][i] = e
           \/ \E j \in 2 .. Len(m.recent[1]) : b.recent[1][i] = m.recent[1][j]
    BY <1>1, <1>3, <2>1, <2>2, PushMirrored
  <2>. QED  BY <1>3, <2>2, <2>3 DEF Mirrored
<1>5. CASE 1 \notin DOMAIN roots
  <2>1. b.recent[1] = m.recent[1]
    BY <1>2, <1>5
  <2> HIDE DEF b
  <2>2. r \in Mirrored(m)
    BY <1>3, <2>1 DEF Mirrored
  <2>3. m.recent[1] # << >>
    BY <1>1, <1>3, <2>1
  <2>. QED  BY <2>2, <2>3
<1>. QED  BY <1>4, <1>5

(* Nothing mirrored is past the record. *)
LEMMA MirroredBehind ==
  ASSUME Typed, OrderInv
  PROVE  /\ \A s \in Mirrored(prover) : s \in Blocks /\ s <= prover.lastSeq
         /\ \A s \in Mirrored(verifier) : s \in Blocks /\ s <= verifier.lastSeq
<1>1. ASSUME NEW m \in BoundedMirror, Ordered(m.recent[1], m.lastSeq), NEW s \in Mirrored(m)
      PROVE  s \in Blocks /\ s <= m.lastSeq
  <2>1. m.recent[1] \in Seq(Entry)
    BY <1>1, ChainAssumption DEF Layers, BoundedMirror, Mirror
  <2>2. PICK i \in 2 .. Len(m.recent[1]) : s = m.recent[1][i].height
    BY <1>1 DEF Mirrored
  <2>3. i \in 1 .. Len(m.recent[1])
    BY <2>1, <2>2
  <2>4. m.recent[1][i] \in Entry
    BY <2>1, <2>3
  <2>5. s \in Blocks
    BY <2>2, <2>4 DEF Entry
  <2>. QED  BY <1>1, <2>2, <2>3, <2>5 DEF Ordered
<1>2. 1 \in Layers
  BY ChainAssumption DEF Layers
<1>. QED  BY <1>1, <1>2, MirrorTypes DEF OrderInv

BackedInv ==
  /\ vpc = "append" /\ job.ok => Accepted(results[job.seq])
  /\ MirrorIsBacked

LEMMA InitBacked == Init => BackedInv
<1>1. Init => Mirrored(prover) = {} /\ Mirrored(verifier) = {}
  BY ChainAssumption DEF Init, ProverInit, VerifierInit, NewMirror, Mirrored, Layers
<1>. QED  BY <1>1 DEF Init, VerifierInit, BackedInv, MirrorIsBacked

(* The prover overwrites no proof of a mirrored block, and mirrors by itself
   only what verified. *)
LEMMA BackedProver ==
  ASSUME Typed, FilesInv, LagInv, SeedInv, OrderInv, BackedInv, ProverMoves
  PROVE  BackedInv'
<1>0. UNCHANGED <<vpc, job, verifier>>
  BY DEF ProverMoves, verifierVars
<1>1. ASSUME results' = results,
             SelfVerify => \A s \in Mirrored(prover') : Verifies(proofs'[s], "primary")
      PROVE  BackedInv'
  BY <1>0, <1>1 DEF BackedInv, MirrorIsBacked, Mirrored
<1>2. SelfVerify => \A s \in Mirrored(prover) : Verifies(proofs[s], "primary")
  BY DEF BackedInv, MirrorIsBacked
<1>3. CASE PSeedApply
  <2>1. ppc = "seed" /\ UNCHANGED fileVars /\ target <= head
        /\ prover' = AppendBundle(prover, Roots(target), target, target, table.commitment)
    BY <1>3 DEF PSeedApply
  <2>2. prover.recent[1] = << >>
    BY <2>1, ChainAssumption DEF FilesInv, SeedInv, Layers
  <2>3. target \in Blocks
    BY <2>1, ChainAssumption DEF Typed, TypeOK, ProverTypeOK, ChannelTypeOK, Blocks
  <2>4. Mirrored(prover') = {}
    BY <2>1, <2>2, <2>3, AppendMirrored, MirrorTypes
  <2>. QED  BY <1>1, <2>1, <2>4 DEF fileVars
<1>4. CASE PSeedWrite
  BY <1>1, <1>2, <1>4 DEF PSeedWrite
<1>5. CASE PBkApply
  <2>1. Mirrored(prover') = Mirrored(prover) /\ UNCHANGED fileVars
    BY <1>5 DEF PBkApply, ApplyBkSetUpdate, Mirrored
  <2>. QED  BY <1>1, <1>2, <2>1 DEF fileVars
<1>6. CASE ProofWrites
  <2>1. /\ prover.lastSeq < target /\ prover.lastSeq \in Nat /\ target \in Nat
        /\ proofs \in [Blocks -> ProofFile]
    BY <1>6, ProofWritesEffect
       DEF LagInv, AtKeyBlock, Typed, TypeOK, ProverTypeOK, ChannelTypeOK, Mirror
  <2>2. ASSUME NEW s \in Mirrored(prover)
        PROVE  proofs'[s] = proofs[s]
    <3>1. s \in Blocks /\ s # target
      BY <2>1, MirroredBehind, ChainAssumption DEF Blocks
    <3>. QED  BY <1>6, <2>1, <3>1, ProofWritesEffect
  <2>. QED  BY <1>1, <1>2, <1>6, <2>2, ProofWritesEffect
<1>7. CASE RotationWrites
  BY <1>1, <1>2, <1>7, RotationWritesEffect
<1>8. CASE Appends
  <2>1. PICK roots \in {Roots(target), NoRoots} :
          prover' = AppendBundle(prover, roots, target, target, table.commitment)
    BY <1>8, AppendsEffect DEF AppendTarget
  <2>2. target \in Blocks
    BY <1>8, AppendsEffect DEF Typed, TargetVisible, ProverPC
  <2>3. UNCHANGED fileVars /\ (SelfVerify => Verifies(proofs[target], "primary"))
    BY <1>8, AppendsEffect DEF SelfVerified
  <2>4. \A s \in Mirrored(prover') : s \in Mirrored(prover) \cup {target}
    BY <2>1, <2>2, AppendMirrored, MirrorTypes
  <2>. QED  BY <1>1, <1>2, <2>3, <2>4 DEF fileVars
<1>9. CASE Skips
  <2>1. Mirrored(prover') = Mirrored(prover) /\ UNCHANGED fileVars
    BY <1>9, SkipsEffect DEF SkipTarget, Mirrored
  <2>. QED  BY <1>1, <1>2, <2>1 DEF fileVars
<1>10. CASE OtherSteps
  BY <1>1, <1>2, <1>10, OtherStepsEffect DEF fileVars
<1>. QED
  BY <1>3, <1>4, <1>5, <1>6, <1>7, <1>8, <1>9, <1>10, ProverGroups

(* The verifier overwrites no verdict on a mirrored block, and mirrors only
   what it has accepted on disk. *)
LEMMA BackedVerifier ==
  ASSUME Typed, SeedInv, SeenInv, OrderInv, BackedInv, VerifierMoves
  PROVE  BackedInv'
<1>0. /\ ~SelfVerify /\ results \in [Blocks -> ResultFile] /\ job.seq \in Blocks
      /\ verifier.lastSeq \in Nat
  BY DEF VerifierMoves, Typed, TypeOK, ChannelTypeOK, VerifierTypeOK, Job, Mirror
<1>1. \A s \in Mirrored(verifier) : Accepted(results[s])
  BY <1>0 DEF BackedInv, MirrorIsBacked
<1>2. CASE VResult \/ VResultEnd \/ VResultTear
  <2>1. /\ vpc \in Bundling /\ UNCHANGED <<verifier, job>>
        /\ results' \in {[results EXCEPT ![job.seq] = Verdict(job.ok)],
                         [results EXCEPT ![job.seq] = TornResult]}
        /\ vpc' = "append" => results'[job.seq] = Verdict(job.ok)
    BY <1>0, <1>2 DEF VResult, VResultEnd, VResultTear, Report, Bundling
  <2>2. ASSUME NEW s \in Mirrored(verifier)
        PROVE  results'[s] = results[s]
    <3>1. s \in Blocks /\ s <= verifier.lastSeq /\ verifier.lastSeq < job.seq
      BY <2>1, MirroredBehind DEF SeenInv
    <3>2. s # job.seq
      BY <1>0, <3>1, ChainAssumption DEF Blocks
    <3>. QED  BY <1>0, <2>1, <3>1, <3>2
  <2>. QED
    BY <1>0, <1>1, <2>1, <2>2 DEF Accepted, Verdict, BackedInv, MirrorIsBacked, Mirrored
<1>3. CASE ~(VResult \/ VResultEnd \/ VResultTear)
  <2>1. results' = results /\ vpc' # "append"
    BY <1>3 DEF VerifierMoves, VerifierStep, VerifierFault, VStart, VSeed, VBkUpdate, VBkResult,
           VBkResultEnd, VBkResultTear, BkReport, VProof, VAppend, VCrash, fileVars
  <2>2. ASSUME NEW s \in Mirrored(verifier')
        PROVE  Accepted(results[s])
    <3>1. CASE verifier' = verifier
      BY <1>1, <2>2, <3>1
    <3>2. CASE verifier = NewMirror /\ verifier' = Seeded(verifier)
      <4>1. verifier.recent[1] = << >> /\ seedFile.seq \in Blocks
        BY <3>2, ChainAssumption
           DEF NewMirror, Layers, Typed, TypeOK, ChannelTypeOK, Seed
      <4>. QED  BY <2>2, <3>2, <4>1, AppendMirrored, MirrorTypes DEF Seeded
    <3>3. CASE \E u \in Blocks : verifier' = ApplyBkSetUpdate(verifier, bkupds[u].new, u)
      BY <1>1, <2>2, <3>3 DEF ApplyBkSetUpdate, Mirrored
    <3>4. CASE /\ vpc = "append" /\ job.ok
               /\ verifier' = AppendBundle(verifier, Roots(job.seq), job.seq, job.seq,
                                           job.commitment)
      <4>1. s \in Mirrored(verifier) \cup {job.seq}
        BY <1>0, <2>2, <3>4, AppendMirrored, MirrorTypes
      <4>. QED  BY <1>1, <3>4, <4>1 DEF BackedInv
    <3>. QED  BY <3>1, <3>2, <3>3, <3>4, VerifierEffect
  <2>. QED  BY <1>0, <2>1, <2>2 DEF BackedInv, MirrorIsBacked, Mirrored
<1>. QED  BY <1>2, <1>3

LEMMA BackedStep ==
  Typed /\ FilesInv /\ LagInv /\ SeedInv /\ SeenInv /\ OrderInv /\ BackedInv /\ [Next]_vars
    => BackedInv'
<1>. SUFFICES ASSUME Typed, FilesInv, LagInv, SeedInv, SeenInv, OrderInv, BackedInv,
                     [Next]_vars
              PROVE  BackedInv'
  OBVIOUS
<1>1. CASE Grow \/ UNCHANGED vars
  BY <1>1
     DEF Grow, vars, proverVars, verifierVars, fileVars, BackedInv, MirrorIsBacked, Mirrored
<1>. QED  BY <1>1, BackedProver, BackedVerifier DEF Next

-----------------------------------------------------------------------------
(* A lost acknowledgement. *)

(* The prover applies a rotation on an acknowledgement only, and the one that
   was lost is the only one it could apply. *)
LEMMA LostAckProver ==
  ASSUME Typed, FilesInv, AckInv, RotationInv, SeenInv, ProverMoves,
         NEW u \in Rotations, AckLost(u)
  PROVE  AckLost(u)'
<1>0. /\ prover.updCursor \in Nat /\ verifier.updCursor \in Nat
      /\ u \in Nat /\ update \in Blocks /\ Blocks \subseteq Nat
      /\ prover.updCursor < u /\ u <= verifier.updCursor /\ ~Accepted(bkResults[u])
  BY DEF Typed, TypeOK, ProverTypeOK, VerifierTypeOK, Mirror, Rotations, Blocks, AckLost
<1>1. UNCHANGED <<verifier, vpc, job>>
  BY DEF ProverMoves, verifierVars
<1>2. CASE PBkApply
  <2>1. ~SelfVerify
    BY <1>0 DEF SeenInv
  <2>2. /\ ppc = "bkWait" /\ Accepted(bkResults[update]) /\ prover.updCursor < update
    BY <1>0, <1>2, <2>1 DEF PBkApply, BkVerdictOk, CanApplyUpdate
  <2>3. update \in Rotations
    BY <2>2 DEF FilesInv, Pending
  <2>4. update <= verifier.updCursor
    BY <1>0, <2>2 DEF AckInv
  <2>5. verifier.updCursor <= update /\ verifier.updCursor <= u
    BY <1>0, <2>2, <2>3 DEF RotationInv, NotPastNext
  <2>6. update = u
    BY <1>0, <2>4, <2>5
  <2>. QED  BY <1>0, <2>2, <2>6
<1>3. CASE ~PBkApply
  <2>1. prover'.updCursor = prover.updCursor /\ bkResults' = bkResults
    BY <1>3, ProverCursorFrame DEF ProverMoves
  <2>. QED  BY <1>1, <2>1 DEF AckLost
<1>. QED  BY <1>2, <1>3

(* The verifier looks at no request up to its cursor again. *)
LEMMA LostAckVerifier ==
  ASSUME Typed, SeedInv, SeenInv, VerifierMoves, NEW u \in Rotations, AckLost(u)
  PROVE  AckLost(u)'
<1>0. /\ prover' = prover /\ verifier.updCursor \in Nat /\ bkSeen \in Nat /\ u \in Blocks
      /\ Blocks \subseteq Nat /\ u <= verifier.updCursor /\ prover.updCursor < u
      /\ ~Accepted(bkResults[u]) /\ bkResults \in [Blocks -> ResultFile]
      /\ job.seq \in Blocks
  BY DEF VerifierMoves, proverVars, Typed, TypeOK, ChannelTypeOK, VerifierTypeOK, Mirror,
         Rotations, Blocks, AckLost, Job
<1>1. CASE \E v \in Blocks : VBkUpdate(v)
  <2>1. PICK v \in Blocks : VBkUpdate(v)
    BY <1>1
  <2>2. /\ vpc = "loop" /\ bkSeen < v /\ job'.seq = v /\ bkResults' = bkResults
        /\ verifier'.updCursor \in {verifier.updCursor, v}
    BY <2>1 DEF VBkUpdate, NextFile, ApplyBkSetUpdate, fileVars
  <2>3. u < v
    BY <1>0, <2>2 DEF SeenInv
  <2>. QED  BY <1>0, <2>2, <2>3 DEF AckLost
<1>2. CASE VBkResult \/ VBkResultEnd
  <2>1. /\ vpc \in {"bkResult", "bkResultWrite"} /\ vpc' = "loop" /\ verifier' = verifier
        /\ bkResults' = [bkResults EXCEPT ![job.seq] = Verdict(job.ok)]
    BY <1>2 DEF VBkResult, VBkResultEnd, BkReport
  <2>2. job.seq # u
    BY <2>1 DEF AckLost
  <2>. QED  BY <1>0, <2>1, <2>2 DEF AckLost
<1>3. CASE VBkResultTear
  <2>1. /\ vpc = "bkResult" /\ UNCHANGED <<verifier, job>>
        /\ bkResults' = [bkResults EXCEPT ![job.seq] = TornResult]
    BY <1>3 DEF VBkResultTear
  <2>2. job.seq # u
    BY <2>1 DEF AckLost
  <2>. QED  BY <1>0, <2>1, <2>2 DEF AckLost
<1>4. CASE VStart \/ VSeed
  <2>1. Seeded(verifier).updCursor = verifier.updCursor
    BY DEF Seeded, AppendBundle
  <2>2. verifier' \in {verifier, Seeded(verifier)} /\ bkResults' = bkResults /\ vpc' = "loop"
    BY <1>4 DEF VStart, VSeed, fileVars
  <2>. QED  BY <1>0, <2>1, <2>2 DEF AckLost
<1>5. CASE \E s \in Blocks : VProof(s)
  BY <1>0, <1>5 DEF VProof, fileVars, AckLost
<1>6. CASE VResult \/ VResultEnd \/ VResultTear
  BY <1>0, <1>6 DEF VResult, VResultEnd, VResultTear, Report, AckLost
<1>7. CASE VAppend
  BY <1>0, <1>7 DEF VAppend, AppendBundle, fileVars, AckLost
<1>8. CASE VCrash
  BY <1>0, <1>8 DEF VCrash, fileVars, AckLost
<1>. QED
  BY <1>1, <1>2, <1>3, <1>4, <1>5, <1>6, <1>7, <1>8
     DEF VerifierMoves, VerifierStep, VerifierFault

-----------------------------------------------------------------------------
(* The theorems. *)

MirrorInv ==
  /\ Typed /\ FilesInv /\ AckInv /\ RotationInv /\ LagInv
  /\ ContentInv /\ SeedInv /\ SeenInv /\ OrderInv /\ CommitmentFromHistory /\ BackedInv

LEMMA InitMirror == Init => MirrorInv
<1>1. Init => CommitmentFromHistory
  BY DEF Init, VerifierInit, NewMirror, CommitmentFromHistory
<1>. QED
  BY <1>1, InitTyped, InitFiles, InitAck, InitRotation, InitLag, InitContent, InitSeed,
     InitSeen, InitOrder, InitBacked DEF MirrorInv

LEMMA MirrorStep == MirrorInv /\ [Next]_vars => MirrorInv'
  BY StepTyped, FilesStep, AckStep, RotationStep, LagStep, ContentStep, SeedStep, SeenStep,
     OrderStep, HistoryStep, BackedStep DEF MirrorInv

LEMMA MirrorInvariant == Spec => []MirrorInv
  BY InitMirror, MirrorStep, PTL DEF Spec

(* A key block enters each mirror at most once and in chain order, whatever is
   read again after a crash: a bundle is appended only past the record, and the
   seed only to a new one. *)
THEOREM MirrorsStayInOrder == Spec => []MirrorsIncreasing
<1>1. MirrorInv => MirrorsIncreasing
  BY DEF MirrorInv, OrderInv, Ordered, MirrorsIncreasing
<1>. QED  BY MirrorInvariant, <1>1, PTL

(* The verifier's commitment is one that the chain committed to at the
   verifier's own cursors: every request that can be read carries the sets of
   its own block. *)
THEOREM CommitmentIsFromHistory == Spec => []CommitmentFromHistory
<1>1. MirrorInv => CommitmentFromHistory
  BY DEF MirrorInv
<1>. QED  BY MirrorInvariant, <1>1, PTL

(* All that the verifier mirrors has a positive verdict on disk, and all that a
   self-verify build mirrors has a proof on disk that verifies. *)
THEOREM MirrorsAreBacked == Spec => []MirrorIsBacked
<1>1. MirrorInv => MirrorIsBacked
  BY DEF MirrorInv, BackedInv
<1>. QED  BY MirrorInvariant, <1>1, PTL

(* A rotation whose acknowledgement is lost stays unacknowledged: the verifier
   does not look at its request again, and the prover applies nothing else in
   its place. *)
THEOREM LostAckStays == Spec => LostAckIsFinal
<1>1. ASSUME MirrorInv, [Next]_vars, NEW u \in Rotations, AckLost(u)
      PROVE  AckLost(u)'
  <2>1. CASE ProverMoves
    BY <1>1, <2>1, LostAckProver DEF MirrorInv
  <2>2. CASE VerifierMoves
    BY <1>1, <2>2, LostAckVerifier DEF MirrorInv
  <2>3. CASE Grow \/ UNCHANGED vars
    BY <1>1, <2>3 DEF Grow, vars, proverVars, verifierVars, fileVars, AckLost
  <2>. QED  BY <1>1, <2>1, <2>2, <2>3 DEF Next
<1>2. MirrorInv /\ [Next]_vars
        => [\A u \in Rotations : AckLost(u) => AckLost(u)']_vars
  BY <1>1
<1>. QED  BY MirrorInvariant, <1>2, PTL DEF Spec, LostAckIsFinal
=============================================================================
