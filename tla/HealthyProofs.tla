--------------------------- MODULE HealthyProofs ---------------------------
(***************************************************************************)
(* The paired daemons when nothing fails and no wait runs into its         *)
(* deadline: they work on one request at a time, the commitment of the     *)
(* verifier's mirror never rolls back, and after a seed from before the    *)
(* first rotation no key block is skipped and the two mirrors never part.  *)
(***************************************************************************)
EXTENDS LayerProofs

(* Paired daemons, nothing fails and nobody gives up waiting. *)
Faultless == MaxFaults = 0 /\ ~Timeouts /\ ~SelfVerify

(* The chain never rotates its set in a thinned key block. *)
OffKeyBlocks == \A r \in Rotations : r % Step # 0

(* A set that has been replaced does not come back. *)
NoReturn ==
  \A r, q, s \in 0 .. MaxSeq + 1 :
    r <= q /\ q <= s /\ Signers[r] = Signers[s] => Signers[q] = Signers[r]

(* Block s has a root of every layer that has a root by then. *)
RootsAll(s) == \A l \in Layers : Span(l) <= s => Multiple(s, Span(l))

(* Whenever the prover is first started, its seed is such a block. *)
SeedFits ==
  \A h \in Head0 .. MaxSeq :
    RootsAll(IF BootstrapSeqno > 0 THEN BootstrapSeqno ELSE NextKeyBlock(h))

-----------------------------------------------------------------------------
(* The steps that are left. *)

LEMMA NoFault ==
  ASSUME Faultless, Typed
  PROVE  ~Fault
<1>1. faults \in Nat /\ faults <= 0
  BY DEF Faultless, Typed, TypeOK, ChannelTypeOK
<1>. QED  BY <1>1 DEF Fault, Faultless

(* Where the two daemons are, and what is there at that point. *)
Points ==
  /\ Head0 <= head
  /\ ppc \notin {"bkWrite", "write", "refused"}
  /\ vpc \notin {"bkResultWrite", "resultWrite"}
  /\ fetched
  /\ ppc = "down" => ~prover.initialized /\ ~table.present
  /\ ~prover.initialized => prover = NewMirror
  /\ ppc \notin {"down", "seed", "seedSave"} => seedFile.present
  /\ ppc \in {"seed", "seedSave"} => table.cursor = 0
  /\ ppc = "seedSave" =>
        prover = AppendBundle(NewMirror, Roots(target), target, target, table.commitment)

LEMMA ProverSteps ==
  ASSUME Faultless, Typed, Points, ProverMoves
  PROVE  \/ PStart \/ PSeedApply \/ PSeedWrite \/ PPoll \/ PDrainDone
         \/ \E u \in Blocks : PBkWrite(u)
         \/ PBkApply \/ PBkReject \/ PBkRotate
         \/ PSkipForeignSet \/ PSkipNoChain \/ PProve \/ PProofWrite \/ PResult
<1>1. ~Fault
  BY NoFault
<1>2. ~ProverFault
  BY <1>1 DEF ProverFault, PDrainFail, PEvidenceNotReady, PSkipFailure, PProveNoRoots,
              PProofTear, PCrash, PBkTear
<1>3. ~PRefuse
  BY DEF PRefuse, FilesDisagree, Points
<1>4. ~PBkWriteEnd /\ ~PProofWriteEnd
  BY DEF PBkWriteEnd, PProofWriteEnd, Points
<1>5. ~PBkTimeout /\ ~PTimeout /\ ~PSelfVerified /\ ~PSelfVerifyFailed
  BY DEF PBkTimeout, PTimeout, PSelfVerified, PSelfVerifyFailed, Faultless
<1>. QED  BY <1>2, <1>3, <1>4, <1>5 DEF ProverMoves, ProverStep

LEMMA VerifierSteps ==
  ASSUME Faultless, Typed, Points, VerifierMoves
  PROVE  \/ VStart \/ VSeed \/ VBkResult \/ VResult \/ VAppend
         \/ \E u \in Blocks : VBkUpdate(u)
         \/ \E s \in Blocks : VProof(s)
<1>1. ~VerifierFault
  BY NoFault DEF VerifierFault, VBkResultTear, VResultTear, VCrash
<1>2. ~VBkResultEnd /\ ~VResultEnd
  BY DEF VBkResultEnd, VResultEnd, Points
<1>. QED  BY <1>1, <1>2 DEF VerifierMoves, VerifierStep

LEMMA InitPoints == Init => Points
  BY ChainAssumption DEF Init, ChannelInit, ProverInit, VerifierInit, NoTable, NewMirror, Points

LEMMA PointsProver ==
  ASSUME Faultless, Typed, FilesInv, Points, ProverMoves
  PROVE  Points'
<1>0. vpc' = vpc
  BY DEF ProverMoves, verifierVars
<1>1. \A pc \in MainLoop : ppc = pc => prover.initialized
  BY DEF FilesInv
<1>2. CASE PStart
  <2>1. /\ ppc = "down" /\ ~prover.initialized /\ ~table.present
        /\ ppc' = "seed" /\ table'.cursor = 0 /\ UNCHANGED <<prover, fetched, head, seedFile>>
    BY <1>2 DEF PStart, LoadTable, fileVars, Points
  <2>. QED  BY <1>0, <2>1 DEF Points
<1>3. CASE PSeedApply
  <2>1. /\ ppc = "seed" /\ ppc' = "seedSave" /\ UNCHANGED <<table, target, fetched, head, seedFile>>
        /\ prover' = AppendBundle(prover, Roots(target), target, target, table.commitment)
    BY <1>3 DEF PSeedApply, fileVars
  <2>2. prover = NewMirror
    BY <2>1 DEF FilesInv, Points
  <2>3. prover'.initialized
    BY <2>1 DEF AppendBundle
  <2>. QED  BY <1>0, <2>1, <2>2, <2>3 DEF Points
<1>4. CASE PSeedWrite
  BY <1>0, <1>1, <1>4 DEF PSeedWrite, Restart, MainLoop, Points
<1>5. CASE PPoll \/ PDrainDone \/ PBkReject \/ PProve
  BY <1>0, <1>5 DEF PPoll, PDrainDone, PBkReject, PProve, fileVars, Points
<1>6. CASE \E u \in Blocks : PBkWrite(u)
  BY <1>0, <1>6 DEF PBkWrite, Points
<1>7. CASE PBkApply
  <2>1. prover.initialized /\ prover'.initialized /\ ppc = "bkWait" /\ ppc' = "bkRotate"
        /\ UNCHANGED <<table, fetched, head, seedFile>>
    BY <1>1, <1>7 DEF PBkApply, ApplyBkSetUpdate, MainLoop, fileVars
  <2>. QED  BY <1>0, <2>1 DEF Points
<1>8. CASE PBkRotate
  BY <1>0, <1>8 DEF PBkRotate, fileVars, Points
<1>9. CASE PSkipForeignSet \/ PSkipNoChain
  <2>1. ppc = "bundle" /\ SkipTarget /\ ppc' = "idle"
    BY <1>9 DEF PSkipForeignSet, PSkipNoChain, SkipTarget, Restart
  <2>2. prover.initialized /\ prover'.initialized /\ fetched' /\ UNCHANGED <<head, seedFile>>
    BY <1>1, <2>1 DEF SkipTarget, Restart, MainLoop, fileVars
  <2>. QED  BY <1>0, <2>1, <2>2 DEF Points
<1>10. CASE PProofWrite
  BY <1>0, <1>10 DEF PProofWrite, WriteRequest, Points
<1>11. CASE PResult
  <2>1. /\ ppc = "wait" /\ ppc' = "idle" /\ fetched' /\ UNCHANGED <<head, seedFile>>
        /\ prover'.initialized
    BY <1>11 DEF PResult, Restart, AppendTarget, AppendBundle, fileVars
  <2>. QED  BY <1>0, <2>1 DEF Points
<1>. QED
  BY <1>2, <1>3, <1>4, <1>5, <1>6, <1>7, <1>8, <1>9, <1>10, <1>11, ProverSteps

LEMMA PointsStep ==
  ASSUME Faultless, Typed, FilesInv, Points, [Next]_vars
  PROVE  Points'
<1>1. CASE Grow \/ UNCHANGED vars
  <2>1. UNCHANGED <<proverVars, vpc, seedFile>> /\ head' \in {head, head + 1} /\ head \in Nat
        /\ Head0 \in Nat
    BY <1>1, ChainAssumption
       DEF Grow, vars, verifierVars, fileVars, Typed, TypeOK, ChannelTypeOK, Blocks
  <2>2. Head0 <= head'
    BY <2>1 DEF Points
  <2>. QED  BY <2>1, <2>2 DEF proverVars, Points
<1>2. CASE VerifierMoves
  <2>1. UNCHANGED <<proverVars, seedFile, head>>
    BY <1>2, VerifierSteps
       DEF VerifierMoves, VStart, VSeed, VBkUpdate, VBkResult, BkReport, VProof, VResult, Report,
           VAppend, fileVars
  <2>2. vpc' \notin {"bkResultWrite", "resultWrite"}
    BY <1>2, VerifierSteps
       DEF VStart, VSeed, VBkUpdate, VBkResult, BkReport, VProof, VResult, Report, VAppend, Points
  <2>. QED  BY <2>1, <2>2 DEF proverVars, Points
<1>. QED  BY <1>1, <1>2, PointsProver DEF Next

-----------------------------------------------------------------------------
(* One request at a time. *)

(* Only the request the prover waits for is unanswered; what has an answer lies
   behind the verifier's cursors, or is about to; and an answer on its way is to
   the request the prover waits for. *)
Answers ==
  /\ ppc = "bkWait" => bkupds[update] = BkRequest(update)
  /\ \A s \in Blocks : Exists(bkupds[s]) /\ ~Exists(bkResults[s]) => ppc = "bkWait" /\ s = update
  /\ \A s \in Blocks : Exists(proofs[s]) /\ ~Exists(results[s]) => ppc = "wait" /\ s = target
  /\ \A s \in Blocks : Exists(bkResults[s]) => booted /\ s <= bkSeen
  /\ \A s \in Blocks : Exists(results[s]) =>
        booted /\ (s <= seen \/ (vpc = "append" /\ s = job.seq))
  /\ \A s \in Blocks : Exists(results[s]) => s <= prover.lastSeq \/ (ppc = "wait" /\ s = target)
  /\ vpc = "bkResult" =>
        ppc = "bkWait" /\ job.seq = update /\ ~Exists(bkResults[update]) /\ bkSeen < update
  /\ vpc = "result" => ppc = "wait" /\ job.seq = target /\ ~Exists(results[target])
  /\ vpc \in Bundling => seen < job.seq
  /\ vpc = "down" => ~booted
  /\ vpc \notin {"down", "loop"} => booted
  /\ booted => verifier.initialized

LEMMA InitAnswers == Init => Answers
  BY DEF Init, ChannelInit, ProverInit, VerifierInit, NoProof, NoBkUpdate, NoResult, Exists,
         Bundling, Answers

LEMMA HandTypes ==
  ASSUME Typed
  PROVE  /\ Blocks \subseteq Nat
         /\ seen \in Nat /\ bkSeen \in Nat /\ update \in Blocks /\ target \in Nat
         /\ ppc \in {"bundle", "request", "wait"} => target \in Blocks
         /\ prover.lastSeq \in Nat /\ prover.updCursor \in Nat
         /\ verifier.lastSeq \in Nat /\ verifier.updCursor \in Nat
         /\ job.seq \in Blocks /\ seedFile.seq \in Blocks
         /\ proofs \in [Blocks -> ProofFile] /\ results \in [Blocks -> ResultFile]
         /\ bkupds \in [Blocks -> BkUpdateFile] /\ bkResults \in [Blocks -> ResultFile]
  BY DEF Typed, TypeOK, ChannelTypeOK, ProverTypeOK, VerifierTypeOK, TargetVisible, ProverPC,
         Mirror, Job, Seed, Blocks

(* A file that the verifier finds is the one the prover waits for. *)
LEMMA FoundIsAwaited ==
  ASSUME Typed, Answers, vpc = "loop"
  PROVE  /\ \A u \in Blocks : NextFile(bkupds, u, bkSeen) =>
              ppc = "bkWait" /\ u = update /\ ~Exists(bkResults[u])
         /\ \A s \in Blocks : NextFile(proofs, s, seen) =>
              ppc = "wait" /\ s = target /\ ~Exists(results[s])
<1>1. ASSUME NEW u \in Blocks, NextFile(bkupds, u, bkSeen)
      PROVE  ppc = "bkWait" /\ u = update /\ ~Exists(bkResults[u])
  <2>1. Exists(bkupds[u]) /\ bkSeen < u /\ bkSeen \in Nat /\ u \in Nat
    BY <1>1, HandTypes DEF NextFile
  <2>2. ~Exists(bkResults[u])
    BY <2>1 DEF Answers
  <2>. QED  BY <2>1, <2>2 DEF Answers
<1>2. ASSUME NEW s \in Blocks, NextFile(proofs, s, seen)
      PROVE  ppc = "wait" /\ s = target /\ ~Exists(results[s])
  <2>1. Exists(proofs[s]) /\ seen < s /\ seen \in Nat /\ s \in Nat
    BY <1>2, HandTypes DEF NextFile
  <2>2. ~Exists(results[s])
    BY <2>1 DEF Answers
  <2>. QED  BY <2>1, <2>2 DEF Answers
<1>. QED  BY <1>1, <1>2

LEMMA AnswersProver ==
  ASSUME Faultless, Typed, FilesInv, LagInv, Points, Answers, ProverMoves
  PROVE  Answers'
<1>0. UNCHANGED <<vpc, verifier, seen, bkSeen, booted, job>>
  BY DEF ProverMoves, verifierVars
<1>1. ASSUME UNCHANGED <<proofs, results, bkupds, bkResults>>,
             ppc \notin {"bkWait", "wait"}, ppc' \notin {"bkWait", "wait"},
             prover.lastSeq <= prover'.lastSeq, prover'.lastSeq \in Nat
      PROVE  Answers'
  <2>1. \A s \in Blocks : Exists(results[s]) => s <= prover'.lastSeq
    <3>1. \A s \in Blocks : Exists(results[s]) => s <= prover.lastSeq
      BY <1>1 DEF Answers
    <3>. QED  BY <1>1, <3>1, HandTypes
  <2>. QED  BY <1>0, <1>1, <2>1 DEF Answers
<1>2. CASE PStart \/ PSeedWrite \/ PPoll \/ PDrainDone \/ PBkRotate \/ PProve
  <2>1. UNCHANGED <<prover, proofs, results, bkupds, bkResults>>
    BY <1>2 DEF PStart, PSeedWrite, PPoll, PDrainDone, PBkRotate, PProve, fileVars
  <2>2. ppc \notin {"bkWait", "wait"} /\ ppc' \notin {"bkWait", "wait"}
    BY <1>2 DEF PStart, PSeedWrite, PPoll, PDrainDone, PBkRotate, PProve, Restart
  <2>. QED  BY <1>1, <2>1, <2>2, HandTypes
<1>3. CASE PSeedApply
  <2>1. /\ ppc = "seed" /\ ppc' = "seedSave" /\ UNCHANGED fileVars
        /\ prover'.lastSeq = target /\ ~prover.initialized
    BY <1>3 DEF PSeedApply, AppendBundle, FilesInv
  <2>2. prover.lastSeq = 0
    BY <2>1 DEF LagInv
  <2>. QED  BY <1>1, <2>1, <2>2, HandTypes DEF fileVars
<1>4. CASE PSkipForeignSet \/ PSkipNoChain
  <2>1. /\ ppc = "bundle" /\ ppc' = "idle" /\ UNCHANGED fileVars /\ prover'.lastSeq = target
    BY <1>4 DEF PSkipForeignSet, PSkipNoChain, SkipTarget, Restart
  <2>2. prover.lastSeq < target
    BY <2>1 DEF LagInv, AtKeyBlock
  <2>. QED  BY <1>1, <2>1, <2>2, HandTypes DEF fileVars
<1>5. CASE \E u \in Blocks : PBkWrite(u)
  <2>1. PICK u \in Blocks : PBkWrite(u)
    BY <1>5
  <2>2. /\ ppc = "drain" /\ ppc' = "bkWait" /\ update' = u
        /\ UNCHANGED <<prover, proofs, results, bkResults>>
        /\ bkupds' = [bkupds EXCEPT ![u] = BkRequest(u)]
    BY <2>1 DEF PBkWrite
  <2>3. /\ bkupds'[u] = BkRequest(u) /\ \A s \in Blocks : s # u => bkupds'[s] = bkupds[s]
        /\ BkRequest(u)' = BkRequest(u)
    BY <2>2, HandTypes DEF BkRequest
  <2>4. \A s \in Blocks : Exists(bkupds'[s]) /\ ~Exists(bkResults[s]) => s = u
    BY <2>2, <2>3 DEF Answers
  <2>. QED  BY <1>0, <2>2, <2>3, <2>4 DEF Answers
<1>6. CASE PBkApply \/ PBkReject
  <2>1. /\ ppc = "bkWait" /\ Exists(bkResults[update]) /\ ppc' \notin {"bkWait", "wait"}
        /\ UNCHANGED <<proofs, results, bkupds, bkResults>>
        /\ prover'.lastSeq = prover.lastSeq
    BY <1>6
       DEF PBkApply, PBkReject, BkVerdictOk, BkVerdictArrived, Accepted, Exists, Faultless,
           ApplyBkSetUpdate, fileVars
  <2>. QED  BY <1>0, <2>1 DEF Answers
<1>7. CASE PProofWrite
  <2>1. /\ ppc = "request" /\ ppc' = "wait" /\ target' = target
        /\ UNCHANGED <<prover, bkupds, results, bkResults>>
        /\ proofs' = [proofs EXCEPT ![target] = Request]
    BY <1>7 DEF PProofWrite, WriteRequest
  <2>2. \A s \in Blocks : s # target => proofs'[s] = proofs[s]
    BY <2>1, HandTypes
  <2>3. \A s \in Blocks : Exists(proofs'[s]) /\ ~Exists(results[s]) => s = target
    BY <2>1, <2>2 DEF Answers
  <2>. QED  BY <1>0, <2>1, <2>3 DEF Answers
<1>8. CASE PResult
  <2>1. /\ ppc = "wait" /\ ppc' = "idle" /\ Exists(results[target])
        /\ UNCHANGED <<proofs, results, bkupds, bkResults>>
        /\ prover'.lastSeq = target
    BY <1>8 DEF PResult, Restart, AppendTarget, AppendBundle, fileVars
  <2>2. prover.lastSeq < target
    BY <2>1 DEF LagInv, AtKeyBlock
  <2>3. \A s \in Blocks : Exists(results[s]) => s <= target
    BY <2>1, <2>2, HandTypes DEF Answers
  <2>. QED  BY <1>0, <2>1, <2>3 DEF Answers
<1>. QED
  BY <1>2, <1>3, <1>4, <1>5, <1>6, <1>7, <1>8, ProverSteps

LEMMA AnswersVerifier ==
  ASSUME Faultless, Typed, Points, Answers, VerifierMoves
  PROVE  Answers'
<1>0. UNCHANGED <<ppc, prover, target, update>>
  BY DEF VerifierMoves, proverVars
<1>1. CASE VStart \/ VSeed
  <2>1. /\ ~booted /\ vpc \in {"down", "loop"} /\ vpc' = "loop" /\ UNCHANGED fileVars
        /\ booted' => verifier'.initialized
    <3>1. Seeded(verifier).initialized
      BY DEF Seeded, AppendBundle
    <3>2. CASE VStart
      BY <3>1, <3>2 DEF VStart, Answers
    <3>3. CASE VSeed
      BY <3>1, <3>3 DEF VSeed
    <3>. QED  BY <1>1, <3>2, <3>3
  <2>2. \A s \in Blocks : ~Exists(results[s]) /\ ~Exists(bkResults[s])
    BY <2>1 DEF Answers
  <2>. QED  BY <1>0, <2>1, <2>2 DEF fileVars, Bundling, Answers
<1>2. CASE \E u \in Blocks : VBkUpdate(u)
  <2>1. PICK u \in Blocks : VBkUpdate(u)
    BY <1>2
  <2>2. /\ vpc = "loop" /\ vpc' = "bkResult" /\ job'.seq = u /\ bkSeen < u /\ SeedChecked
        /\ NextFile(bkupds, u, bkSeen)
        /\ UNCHANGED <<seen, bkSeen, booted>> /\ UNCHANGED fileVars
        /\ verifier'.initialized = verifier.initialized
    BY <2>1 DEF VBkUpdate, NextFile, ApplyBkSetUpdate
  <2>3. ppc = "bkWait" /\ u = update /\ ~Exists(bkResults[u])
    BY <2>2, FoundIsAwaited
  <2>4. booted
    BY <2>2, <2>3 DEF SeedChecked, Points
  <2>. QED  BY <1>0, <2>2, <2>3, <2>4 DEF BkRequest, fileVars, Bundling, Answers
<1>3. CASE VBkResult
  <2>1. /\ vpc = "bkResult" /\ vpc' = "loop" /\ bkSeen' = update /\ booted
        /\ UNCHANGED <<verifier, seen, booted, proofs, results, bkupds>>
        /\ bkResults' = [bkResults EXCEPT ![update] = Verdict(job.ok)]
        /\ ppc = "bkWait" /\ bkSeen < update
    BY <1>3 DEF VBkResult, BkReport, Answers
  <2>2. /\ \A s \in Blocks : s # update => bkResults'[s] = bkResults[s]
        /\ Exists(bkResults'[update])
    BY <2>1, HandTypes DEF Exists, Verdict
  <2>3. \A s \in Blocks : Exists(bkResults'[s]) => s <= update
    BY <2>1, <2>2, HandTypes DEF Answers
  <2>. QED  BY <1>0, <2>1, <2>2, <2>3 DEF BkRequest, Bundling, Answers
<1>4. CASE \E s \in Blocks : VProof(s)
  <2>1. PICK s \in Blocks : VProof(s)
    BY <1>4
  <2>2. /\ vpc = "loop" /\ vpc' = "result" /\ job'.seq = s /\ seen < s /\ SeedChecked
        /\ NextFile(proofs, s, seen)
        /\ UNCHANGED <<verifier, seen, bkSeen, booted>> /\ UNCHANGED fileVars
    BY <2>1 DEF VProof, NextFile
  <2>3. ppc = "wait" /\ s = target /\ ~Exists(results[s])
    BY <2>2, FoundIsAwaited
  <2>4. booted
    BY <2>2, <2>3 DEF SeedChecked, Points
  <2>. QED  BY <1>0, <2>2, <2>3, <2>4 DEF BkRequest, fileVars, Bundling, Answers
<1>5. CASE VResult
  <2>1. /\ vpc = "result" /\ vpc' = "append" /\ booted /\ job.seq = target /\ ppc = "wait"
        /\ UNCHANGED <<verifier, seen, bkSeen, booted, job, proofs, bkupds, bkResults>>
        /\ results' = [results EXCEPT ![target] = Verdict(job.ok)] /\ target \in Blocks
    BY <1>5, HandTypes DEF VResult, Report, Answers
  <2>2. /\ \A s \in Blocks : s # target => results'[s] = results[s]
        /\ Exists(results'[target])
    BY <2>1, HandTypes DEF Exists, Verdict
  <2>. QED  BY <1>0, <2>1, <2>2 DEF BkRequest, Bundling, Answers
<1>6. CASE VAppend
  <2>1. /\ vpc = "append" /\ vpc' = "loop" /\ booted /\ seen' = job.seq /\ seen < job.seq
        /\ UNCHANGED <<bkSeen, booted>> /\ UNCHANGED fileVars
        /\ verifier.initialized => verifier'.initialized
    BY <1>6 DEF VAppend, AppendBundle, Bundling, Answers
  <2>2. \A s \in Blocks : Exists(results[s]) => s <= job.seq
    BY <2>1, HandTypes DEF Answers
  <2>. QED  BY <1>0, <2>1, <2>2 DEF BkRequest, fileVars, Bundling, Answers
<1>. QED
  BY <1>1, <1>2, <1>3, <1>4, <1>5, <1>6, VerifierSteps

LEMMA AnswersStep ==
  ASSUME Faultless, Typed, FilesInv, LagInv, Points, Answers, [Next]_vars
  PROVE  Answers'
<1>1. CASE Grow \/ UNCHANGED vars
  BY <1>1 DEF Grow, vars, proverVars, verifierVars, fileVars, BkRequest, Answers
<1>. QED  BY <1>1, AnswersProver, AnswersVerifier DEF Next

-----------------------------------------------------------------------------
(* The commitment never rolls back. *)

(* The verifier has applied what the prover has, and the rotation in hand once
   it is accepted. *)
CursorInv ==
  verifier.updCursor =
    IF ppc = "bkWait" /\ (Accepted(bkResults[update]) \/ (vpc = "bkResult" /\ job.ok))
    THEN update ELSE prover.updCursor

LEMMA InitCursor == Init => CursorInv
  BY DEF Init, ProverInit, VerifierInit, NewMirror, CursorInv

LEMMA CursorStep ==
  ASSUME Faultless, Typed, FilesInv, AckInv, Points, Answers, CursorInv, [Next]_vars
  PROVE  CursorInv'
<1>1. CASE Grow \/ UNCHANGED vars
  BY <1>1 DEF Grow, vars, proverVars, verifierVars, fileVars, CursorInv
<1>2. CASE ProverMoves
  <2>0. UNCHANGED <<vpc, verifier, job>>
    BY <1>2 DEF ProverMoves, verifierVars
  <2>1. ASSUME ppc # "bkWait", ppc' # "bkWait", prover'.updCursor = prover.updCursor
        PROVE  CursorInv'
    BY <2>0, <2>1 DEF CursorInv
  <2>2. CASE PStart \/ PSeedWrite \/ PPoll \/ PDrainDone \/ PBkRotate \/ PProve \/ PProofWrite
    <3>1. ppc # "bkWait" /\ ppc' # "bkWait" /\ prover' = prover
      BY <2>2 DEF PStart, PSeedWrite, PPoll, PDrainDone, PBkRotate, PProve, PProofWrite,
                  WriteRequest, Restart
    <3>. QED  BY <2>1, <3>1
  <2>3. CASE PSeedApply \/ PSkipForeignSet \/ PSkipNoChain \/ PResult
    <3>1. ppc # "bkWait" /\ ppc' # "bkWait" /\ prover'.updCursor = prover.updCursor
      BY <2>3 DEF PSeedApply, PSkipForeignSet, PSkipNoChain, SkipTarget, PResult, AppendTarget,
                  AppendBundle, Restart
    <3>. QED  BY <2>1, <3>1
  <2>4. CASE \E u \in Blocks : PBkWrite(u)
    <3>1. PICK u \in Blocks : PBkWrite(u)
      BY <2>4
    <3>2. /\ ppc = "drain" /\ update' = u /\ UNCHANGED <<prover, bkResults>>
          /\ prover.updCursor < u
      BY <3>1 DEF PBkWrite, Drainable, NextUpdate
    <3>3. verifier.updCursor = prover.updCursor /\ vpc # "bkResult"
      BY <3>2 DEF CursorInv, Answers
    <3>4. ~Accepted(bkResults[u])
      BY <3>2, <3>3, HandTypes DEF AckInv
    <3>. QED  BY <2>0, <3>2, <3>3, <3>4 DEF CursorInv
  <2>5. CASE PBkApply
    <3>1. /\ ppc = "bkWait" /\ ppc' = "bkRotate" /\ Accepted(bkResults[update])
          /\ prover'.updCursor = update
      BY <2>5 DEF PBkApply, BkVerdictOk, ApplyBkSetUpdate, Faultless
    <3>. QED  BY <2>0, <3>1 DEF CursorInv
  <2>6. CASE PBkReject
    <3>1. /\ ppc = "bkWait" /\ ppc' = "bundle" /\ prover' = prover
          /\ Exists(bkResults[update])
          /\ ~(Accepted(bkResults[update]) /\ CanApplyUpdate(prover, L2(update), update))
      BY <2>6 DEF PBkReject, BkVerdictArrived, BkVerdictOk, Faultless
    <3>2. Agree /\ Pending(update)
      BY <3>1 DEF FilesInv, MainLoop
    <3>3. ~Accepted(bkResults[update]) /\ vpc # "bkResult"
      BY <3>1, <3>2 DEF Agree, Pending, CanApplyUpdate, Answers
    <3>. QED  BY <2>0, <3>1, <3>3 DEF CursorInv
  <2>. QED  BY <1>2, <2>2, <2>3, <2>4, <2>5, <2>6, ProverSteps
<1>3. CASE VerifierMoves
  <2>0. UNCHANGED <<ppc, prover, update>>
    BY <1>3 DEF VerifierMoves, proverVars
  <2>1. ASSUME UNCHANGED bkResults, vpc # "bkResult", vpc' # "bkResult",
               verifier'.updCursor = verifier.updCursor
        PROVE  CursorInv'
    BY <2>0, <2>1 DEF CursorInv
  <2>2. CASE VStart \/ VSeed
    <3>1. Seeded(verifier).updCursor = verifier.updCursor
      BY DEF Seeded, AppendBundle
    <3>2. /\ UNCHANGED bkResults /\ vpc # "bkResult" /\ vpc' # "bkResult"
          /\ verifier'.updCursor = verifier.updCursor
      BY <2>2, <3>1 DEF VStart, VSeed, fileVars
    <3>. QED  BY <2>1, <3>2
  <2>3. CASE VResult \/ VAppend \/ \E s \in Blocks : VProof(s)
    <3>1. /\ UNCHANGED bkResults /\ vpc # "bkResult" /\ vpc' # "bkResult"
          /\ verifier'.updCursor = verifier.updCursor
      BY <2>3 DEF VResult, Report, VAppend, AppendBundle, VProof, fileVars
    <3>. QED  BY <2>1, <3>1
  <2>4. CASE \E u \in Blocks : VBkUpdate(u)
    <3>1. PICK u \in Blocks : VBkUpdate(u)
      BY <2>4
    <3> DEFINE ok == bkupds[u].status = "whole" /\ CanApplyUpdate(verifier, bkupds[u].old, u)
    <3>2. /\ vpc = "loop" /\ vpc' = "bkResult" /\ NextFile(bkupds, u, bkSeen)
          /\ UNCHANGED bkResults
          /\ job' = [seq |-> u, ok |-> ok, commitment |-> ZeroCommitment]
          /\ verifier' = IF ok THEN ApplyBkSetUpdate(verifier, bkupds[u].new, u) ELSE verifier
      BY <3>1 DEF VBkUpdate, fileVars
    <3>3. ppc = "bkWait" /\ u = update /\ ~Accepted(bkResults[update])
      BY <3>2, FoundIsAwaited DEF Accepted, Exists
    <3>4. verifier.updCursor = prover.updCursor
      BY <3>2, <3>3 DEF CursorInv
    <3>5. job'.ok = ok
      BY <3>2
    <3>6. verifier'.updCursor = IF ok THEN update ELSE prover.updCursor
      BY <3>2, <3>3, <3>4 DEF ApplyBkSetUpdate
    <3>. HIDE DEF ok
    <3>. QED  BY <2>0, <3>2, <3>3, <3>5, <3>6 DEF CursorInv
  <2>5. CASE VBkResult
    <3>1. /\ vpc = "bkResult" /\ vpc' = "loop" /\ UNCHANGED verifier
          /\ bkResults' = [bkResults EXCEPT ![job.seq] = Verdict(job.ok)]
      BY <2>5 DEF VBkResult, BkReport
    <3>2. ppc = "bkWait" /\ job.seq = update /\ ~Accepted(bkResults[update])
      BY <3>1 DEF Answers, Accepted, Exists
    <3>3. Accepted(bkResults'[update]) <=> job.ok
      BY <3>1, <3>2, HandTypes DEF Verdict, Accepted
    <3>. QED  BY <2>0, <3>1, <3>2, <3>3 DEF CursorInv
  <2>. QED  BY <1>3, <2>2, <2>3, <2>4, <2>5, VerifierSteps
<1>. QED  BY <1>1, <1>2, <1>3 DEF Next

(* No rotation past the key block that the prover works on has been requested,
   and none at it when a bundle is: the table then holds the set that the block
   introduces, not the one that signs it.  Before the first rotation every bundle
   carries the commitment of the seed. *)
RollInv ==
  /\ \A u \in Blocks : Exists(bkupds[u]) => u <= prover.lastSeq + Step
  /\ verifier.updCursor <= prover.lastSeq + Step
  /\ vpc \in Bundling => verifier.updCursor < job.seq
  /\ table.cursor > 0 => table.cursor \in Rotations /\ table.commitment = L3(table.cursor)
  /\ seedFile.present /\ table.cursor = 0 => table.commitment = seedFile.commitment
  /\ \A s \in Blocks : Exists(proofs[s]) =>
        verifier.updCursor > 0 \/ proofs[s].commitment = seedFile.commitment
  /\ vpc \in Bundling => verifier.updCursor > 0 \/ job.commitment = seedFile.commitment

LEMMA InitRoll == Init => RollInv
  BY StepType DEF Init, ChannelInit, ProverInit, VerifierInit, NoProof, NoBkUpdate, NoSeed,
                  NoTable, NewMirror, Exists, Bundling, RollInv

LEMMA RollProver ==
  ASSUME Faultless, Typed, FilesInv, AckInv, LagInv, SeedInv, KeyInv, Points, RollInv,
         ProverMoves
  PROVE  RollInv'
<1>0. /\ UNCHANGED <<vpc, verifier, job>>
      /\ Blocks \subseteq Nat /\ Step \in Nat /\ verifier.updCursor \in Nat
      /\ prover.lastSeq \in Nat
  BY HandTypes, StepType DEF ProverMoves, verifierVars
<1>1. ASSUME UNCHANGED <<seedFile, table, proofs, bkupds>>,
             prover'.lastSeq \in Nat, prover.lastSeq <= prover'.lastSeq
      PROVE  RollInv'
  <2>1. \A n \in Nat : n <= prover.lastSeq + Step => n <= prover'.lastSeq + Step
    BY <1>0, <1>1
  <2>2. \A u \in Blocks : Exists(bkupds[u]) => u <= prover'.lastSeq + Step
    BY <1>0, <2>1 DEF RollInv
  <2>3. verifier.updCursor <= prover'.lastSeq + Step
    BY <1>0, <2>1 DEF RollInv
  <2>. QED  BY <1>0, <1>1, <2>2, <2>3 DEF RollInv
<1>2. CASE PStart
  <2>1. /\ ~table.present /\ ~prover.initialized /\ table'.cursor = 0
        /\ UNCHANGED <<prover, seedFile, proofs, bkupds>>
    BY <1>2 DEF PStart, LoadTable, Points, fileVars
  <2>2. ~seedFile.present
    BY <2>1 DEF SeedInv, Untouched
  <2>. QED  BY <1>0, <2>1, <2>2 DEF RollInv
<1>3. CASE PSeedApply
  <2>1. /\ UNCHANGED <<seedFile, table, proofs, bkupds>> /\ ~prover.initialized
        /\ prover'.lastSeq = target /\ target \in Nat
    BY <1>3, HandTypes DEF PSeedApply, AppendBundle, FilesInv, fileVars
  <2>2. prover.lastSeq = 0
    BY <2>1 DEF LagInv
  <2>. QED  BY <1>1, <2>1, <2>2
<1>4. CASE PSeedWrite
  <2>1. /\ ppc = "seedSave" /\ UNCHANGED <<prover, table, proofs, bkupds>>
        /\ seedFile'.commitment = table.commitment
    BY <1>4 DEF PSeedWrite
  <2>2. /\ vpc \notin Bundling /\ \A s \in Blocks : ~Exists(proofs[s])
    BY <2>1 DEF SeedInv, Untouched, Bundling
  <2>. QED  BY <1>0, <2>1, <2>2 DEF RollInv
<1>5. CASE PPoll \/ PDrainDone \/ PBkReject \/ PProve
  <2>1. UNCHANGED <<prover, seedFile, table, proofs, bkupds>>
    BY <1>5 DEF PPoll, PDrainDone, PBkReject, PProve, fileVars
  <2>. QED  BY <1>0, <1>1, <2>1
<1>6. CASE \E u \in Blocks : PBkWrite(u)
  <2>1. PICK u \in Blocks : PBkWrite(u)
    BY <1>6
  <2>2. /\ ppc = "drain" /\ Drainable(u) /\ UNCHANGED <<prover, seedFile, table, proofs>>
        /\ \A s \in Blocks : s # u => bkupds'[s] = bkupds[s]
    BY <2>1, HandTypes DEF PBkWrite
  <2>3. u <= prover.lastSeq + Step
    BY <2>2 DEF Drainable, KeyInv, AtKeyBlock
  <2>. QED  BY <1>0, <2>2, <2>3 DEF RollInv
<1>7. CASE PBkApply
  <2>1. /\ UNCHANGED <<seedFile, table, proofs, bkupds>>
        /\ prover'.lastSeq = prover.lastSeq
    BY <1>7 DEF PBkApply, ApplyBkSetUpdate, fileVars
  <2>. QED  BY <1>0, <1>1, <2>1
<1>8. CASE PBkRotate
  <2>1. /\ UNCHANGED <<prover, seedFile, proofs, bkupds>>
        /\ table.cursor < update /\ table'.cursor = update
        /\ table'.commitment = L3(update) /\ update \in Rotations
    BY <1>8 DEF PBkRotate, FilesInv, Pending, fileVars
  <2>2. update \in Nat /\ table.cursor \in Nat
    BY HandTypes DEF Typed, TypeOK, ProverTypeOK, Table, Blocks
  <2>. QED  BY <1>0, <2>1, <2>2 DEF L3, RollInv
<1>9. CASE PSkipForeignSet \/ PSkipNoChain
  <2>1. /\ UNCHANGED <<seedFile, table, proofs, bkupds>> /\ ppc = "bundle"
        /\ prover'.lastSeq = target
    BY <1>9 DEF PSkipForeignSet, PSkipNoChain, SkipTarget, fileVars
  <2>2. target \in Nat /\ prover.lastSeq < target
    BY <2>1, HandTypes DEF LagInv, AtKeyBlock
  <2>. QED  BY <1>0, <1>1, <2>1, <2>2
<1>10. CASE PProofWrite
  <2>1. /\ ppc = "request" /\ UNCHANGED <<prover, seedFile, table, bkupds>>
        /\ target \in Blocks
        /\ proofs' = [proofs EXCEPT ![target] = Request]
    BY <1>10, HandTypes DEF PProofWrite, WriteRequest
  <2>2. /\ \A s \in Blocks : s # target => proofs'[s] = proofs[s]
        /\ proofs'[target].commitment = table.commitment
    BY <2>1, HandTypes DEF Request
  <2>3. seedFile.present /\ table.cursor = prover.updCursor
    BY <2>1 DEF Points, FilesInv, MainLoop, Agree
  <2>4. verifier.updCursor > 0 \/ table.cursor = 0
    BY <1>0, <2>3, HandTypes DEF AckInv, RotationAcknowledged, Faultless
  <2>5. verifier.updCursor > 0 \/ proofs'[target].commitment = seedFile.commitment
    BY <2>2, <2>3, <2>4 DEF RollInv
  <2>. QED  BY <1>0, <2>1, <2>2, <2>5 DEF RollInv
<1>11. CASE PResult
  <2>1. /\ UNCHANGED <<seedFile, table, proofs, bkupds>> /\ ppc = "wait"
        /\ prover'.lastSeq = target
    BY <1>11 DEF PResult, AppendTarget, AppendBundle, fileVars
  <2>2. target \in Nat /\ prover.lastSeq < target
    BY <2>1, HandTypes DEF LagInv, AtKeyBlock
  <2>. QED  BY <1>0, <1>1, <2>1, <2>2
<1>. QED
  BY <1>2, <1>3, <1>4, <1>5, <1>6, <1>7, <1>8, <1>9, <1>10, <1>11, ProverSteps

LEMMA RollVerifier ==
  ASSUME Faultless, Typed, FilesInv, ContentInv, KeyInv, Points, Answers, CursorInv, RollInv,
         VerifierMoves
  PROVE  RollInv'
<1>0. UNCHANGED <<prover, table>> /\ UNCHANGED <<seedFile, proofs, bkupds>>
  BY VerifierSteps
     DEF VerifierMoves, proverVars, VStart, VSeed, VBkUpdate, VBkResult, BkReport, VProof,
         VResult, Report, VAppend, fileVars
<1>1. CASE VStart \/ VSeed
  <2>1. Seeded(verifier).updCursor = verifier.updCursor
    BY DEF Seeded, AppendBundle
  <2>2. verifier'.updCursor = verifier.updCursor
    BY <1>1, <2>1 DEF VStart, VSeed
  <2>3. vpc' \notin Bundling
    BY <1>1 DEF VStart, VSeed, Bundling
  <2>. QED  BY <1>0, <2>2, <2>3 DEF RollInv
<1>2. CASE \E u \in Blocks : VBkUpdate(u)
  <2>1. PICK u \in Blocks : VBkUpdate(u)
    BY <1>2
  <2>2. /\ Exists(bkupds[u]) /\ bkSeen < u /\ vpc' \notin Bundling
        /\ verifier'.updCursor \in {verifier.updCursor, u}
    BY <2>1 DEF VBkUpdate, NextFile, ApplyBkSetUpdate, Bundling
  <2>3. u > 0 /\ u <= prover.lastSeq + Step
    BY <2>2, HandTypes DEF RollInv
  <2>. QED  BY <1>0, <2>2, <2>3 DEF RollInv
<1>3. CASE VBkResult
  BY <1>0, <1>3 DEF VBkResult, BkReport, Bundling, RollInv
<1>4. CASE \E s \in Blocks : VProof(s)
  <2>1. PICK s \in Blocks : VProof(s)
    BY <1>4
  <2>2. /\ vpc = "loop" /\ NextFile(proofs, s, seen) /\ Exists(proofs[s])
        /\ verifier' = verifier /\ job'.seq = s /\ job'.commitment = proofs[s].commitment
    BY <2>1 DEF VProof, NextFile
  <2>3. ppc = "wait" /\ s = target
    BY <2>2, FoundIsAwaited
  <2>4. s = prover.lastSeq + Step /\ proofs[s] = Request
    BY <2>3 DEF KeyInv, AtKeyBlock
  <2>5. table.commitment = L2(s) /\ table.cursor = prover.updCursor
    BY <2>3, <2>4 DEF Request, ContentInv, FilesInv, MainLoop, Agree
  <2>6. verifier.updCursor = table.cursor
    BY <2>3, <2>5 DEF CursorInv
  <2>7. verifier.updCursor # s
    BY <2>2, <2>5, <2>6, HandTypes DEF NextFile, Rotations, RollInv
  <2>8. verifier.updCursor < s
    BY <2>4, <2>7, HandTypes DEF RollInv
  <2>. QED  BY <1>0, <2>2, <2>8 DEF RollInv
<1>5. CASE VResult
  BY <1>0, <1>5 DEF VResult, Report, Bundling, RollInv
<1>6. CASE VAppend
  <2>1. verifier'.updCursor = verifier.updCursor /\ vpc' \notin Bundling
    BY <1>6 DEF VAppend, AppendBundle, Bundling
  <2>. QED  BY <1>0, <2>1 DEF RollInv
<1>. QED
  BY <1>1, <1>2, <1>3, <1>4, <1>5, <1>6, VerifierSteps

LEMMA RollStep ==
  ASSUME Faultless, Typed, FilesInv, AckInv, LagInv, ContentInv, SeedInv, KeyInv, Points,
         Answers, CursorInv, RollInv, [Next]_vars
  PROVE  RollInv'
<1>1. CASE Grow \/ UNCHANGED vars
  BY <1>1 DEF Grow, vars, proverVars, verifierVars, fileVars, L3, RollInv
<1>. QED  BY <1>1, RollProver, RollVerifier DEF Next

(* All that holds of the daemons when nothing fails. *)
HealthyInv ==
  MirrorInv /\ KeyInv /\ FileKeyInv /\ Points /\ Answers /\ CursorInv /\ RollInv

LEMMA InitHealthy == Init => HealthyInv
  BY InitMirror, InitKey, InitFileKeys, InitPoints, InitAnswers, InitCursor, InitRoll
     DEF HealthyInv

LEMMA HealthyStep ==
  ASSUME Faultless
  PROVE  HealthyInv /\ [Next]_vars => HealthyInv'
<1>. SUFFICES ASSUME HealthyInv, [Next]_vars
              PROVE  HealthyInv'
  OBVIOUS
<1>1. MirrorInv' /\ KeyInv' /\ FileKeyInv'
  BY MirrorStep, KeyStep, FileKeysStep DEF HealthyInv, MirrorInv
<1>2. Points' /\ Answers' /\ CursorInv' /\ RollInv'
  BY PointsStep, AnswersStep, CursorStep, RollStep DEF HealthyInv, MirrorInv
<1>. QED  BY <1>1, <1>2 DEF HealthyInv

(* The sets that a later block is signed by come no earlier in the sequence. *)
LEMMA LaterSet ==
  ASSUME NoReturn, NEW a \in 0 .. MaxSeq + 1, NEW b \in 0 .. MaxSeq + 1, a <= b,
         NEW s \in SignedBy(Signers[b])
  PROVE  \E r \in SignedBy(Signers[a]) : r <= s
<1>0. s \in 0 .. MaxSeq + 1 /\ Signers[s] = Signers[b] /\ MaxSeq \in Nat
  BY ChainAssumption DEF SignedBy
<1>1. CASE a <= s
  BY <1>1 DEF SignedBy
<1>2. CASE s < a
  <2>1. Signers[a] = Signers[s]
    BY <1>0, <1>2 DEF NoReturn
  <2>. QED  BY <1>0, <2>1 DEF SignedBy
<1>. QED  BY <1>0, <1>1, <1>2

(* When nothing fails, the commitment of the verifier only moves forward along
   the chain's sequence of sets: the drain comes first, and the bundle that is
   checked after it is signed by the set it ended with, or by a later one. *)
THEOREM CommitmentMovesForward ==
  ASSUME Faultless, NoReturn
  PROVE  Spec => CommitmentNeverRollsBack
<1>1. ASSUME HealthyInv, [Next]_vars, verifier.initialized,
             NEW s \in SignedBy(verifier'.commitment)
      PROVE  \E r \in SignedBy(verifier.commitment) : r <= s
  <2>0. /\ s \in Nat /\ MaxSeq \in Nat /\ Blocks = 0 .. MaxSeq
        /\ job.seq \in Blocks /\ verifier.lastSeq \in Nat /\ verifier.updCursor \in Nat
    BY <1>1, ChainAssumption, HandTypes DEF SignedBy, Blocks, HealthyInv, MirrorInv
  <2>1. CASE verifier' = verifier
    BY <2>0, <2>1
  <2>2. CASE verifier' # verifier
    <3>0. VerifierMoves
      BY <1>1, <2>2 DEF Next, Grow, ProverMoves, vars, verifierVars
    <3>1. \/ \E u \in Blocks :
               /\ bkupds[u].status = "whole" /\ bkupds[u].old = verifier.commitment
               /\ verifier'.commitment = bkupds[u].new
          \/ /\ vpc = "append" /\ job.ok /\ verifier'.commitment = job.commitment
      <4>. SeedInv
        BY <1>1 DEF HealthyInv, MirrorInv
      <4>. QED  BY <1>1, <2>2, <3>0, VerifierEffect DEF CanApplyUpdate, ApplyBkSetUpdate, AppendBundle
    <3>2. CASE \E u \in Blocks :
                 /\ bkupds[u].status = "whole" /\ bkupds[u].old = verifier.commitment
                 /\ verifier'.commitment = bkupds[u].new
      <4>1. PICK u \in Blocks :
               /\ bkupds[u].status = "whole" /\ bkupds[u].old = verifier.commitment
               /\ verifier'.commitment = bkupds[u].new
        BY <3>2
      <4>2. verifier.commitment = Signers[u] /\ verifier'.commitment = Signers[u + 1]
        BY <1>1, <4>1 DEF HealthyInv, MirrorInv, ContentInv, L2, L3
      <4>3. u \in 0 .. MaxSeq + 1 /\ u + 1 \in 0 .. MaxSeq + 1 /\ u <= u + 1
        BY <2>0
      <4>. QED  BY <1>1, <4>2, <4>3, LaterSet
    <3>3. CASE vpc = "append" /\ job.ok /\ verifier'.commitment = job.commitment
      <4>1. /\ job.commitment = Signers[job.seq] /\ verifier.lastSeq < job.seq
            /\ verifier.updCursor < job.seq
            /\ verifier.updCursor > 0 \/ job.commitment = seedFile.commitment
        BY <1>1, <3>3 DEF HealthyInv, MirrorInv, ContentInv, SeenInv, RollInv, Bundling, L2
      <4>2. CASE verifier.commitment = L2(verifier.lastSeq)
        <5>1. /\ verifier.lastSeq \in 0 .. MaxSeq + 1 /\ job.seq \in 0 .. MaxSeq + 1
              /\ verifier.lastSeq <= job.seq
          BY <2>0, <4>1
        <5>. QED  BY <1>1, <3>3, <4>1, <4>2, <5>1, LaterSet DEF L2
      <4>3. CASE verifier.commitment = L3(verifier.updCursor)
        <5>1. /\ verifier.updCursor + 1 \in 0 .. MaxSeq + 1 /\ job.seq \in 0 .. MaxSeq + 1
              /\ verifier.updCursor + 1 <= job.seq
          BY <2>0, <4>1
        <5>. QED  BY <1>1, <3>3, <4>1, <4>3, <5>1, LaterSet DEF L3
      <4>4. CASE verifier.updCursor = 0 /\ verifier.commitment = seedFile.commitment
        BY <1>1, <2>0, <3>3, <4>1, <4>4
      <4>. QED
        BY <1>1, <4>2, <4>3, <4>4 DEF HealthyInv, MirrorInv, CommitmentFromHistory
    <3>. QED  BY <3>1, <3>2, <3>3
  <2>. QED  BY <2>1, <2>2
<1>2. HealthyInv /\ [Next]_vars
        => [verifier.initialized =>
              \A s \in SignedBy(verifier'.commitment) :
                 \E r \in SignedBy(verifier.commitment) : r <= s]_vars
  BY <1>1
<1>. QED
  BY <1>2, InitHealthy, HealthyStep, PTL DEF Spec, CommitmentNeverRollsBack

-----------------------------------------------------------------------------
(* The record stays complete. *)

LEMMA PushLatest ==
  ASSUME NEW win \in Seq(Entry), Len(win) <= W, NEW e \in Entry
  PROVE  Push(win, e) # << >> /\ LatestHash(Push(win, e)) = e.hash
<1>1. ASSUME NEW v \in Seq(Entry)
      PROVE  Append(v, e) # << >> /\ LatestHash(Append(v, e)) = e.hash
  <2>1. Len(Append(v, e)) = Len(v) + 1 /\ Append(v, e)[Len(v) + 1] = e /\ Len(v) \in Nat
    OBVIOUS
  <2>2. Append(v, e) # << >>
    BY <2>1
  <2>. QED  BY <2>1, <2>2 DEF LatestHash
<1>2. CASE Len(win) < W
  BY <1>1, <1>2 DEF Push
<1>3. CASE ~(Len(win) < W)
  <2>1. win # << >>
    BY <1>3, ChainAssumption
  <2>2. Tail(win) \in Seq(Entry)
    BY <2>1
  <2>. QED  BY <1>1, <1>3, <2>2 DEF Push
<1>. QED  BY <1>2, <1>3

(* What a key block does to the window of layer l. *)
LEMMA AppendedWindow ==
  ASSUME NEW m \in BoundedMirror, NEW s \in Blocks, NEW c, NEW l \in Layers
  PROVE  LET win == AppendBundle(m, Roots(s), s, s, c).recent[l]
         IN  IF Multiple(s, Span(l)) THEN win # << >> /\ LatestHash(win) = <<l, s>>
                                     ELSE win = m.recent[l]
<1> DEFINE win == AppendBundle(m, Roots(s), s, s, c).recent[l]
           e   == [hash |-> <<l, s>>, height |-> s]
<1>1. l \in LayersOf(s) <=> Multiple(s, Span(l))
  BY SpanType, MultipleIsZeroMod DEF LayersOf, Layers, Blocks
<1>2. DOMAIN Roots(s) = LayersOf(s) /\ \A k \in LayersOf(s) : Roots(s)[k] = <<k, s>>
  BY DEF Roots
<1>3. win = IF l \in LayersOf(s) THEN Push(m.recent[l], e) ELSE m.recent[l]
  BY <1>2 DEF AppendBundle
<1>4. e \in Entry
  BY DEF Entry, Layers
<1>5. m.recent[l] \in Seq(Entry) /\ Len(m.recent[l]) <= W
  BY DEF BoundedMirror, Mirror
<1>6. Push(m.recent[l], e) # << >> /\ LatestHash(Push(m.recent[l], e)) = <<l, s>>
  BY <1>4, <1>5, PushLatest
<1>. QED  BY <1>1, <1>3, <1>6

LEMMA NewestBounds ==
  ASSUME NEW n \in Nat, NEW l \in Layers
  PROVE  /\ Newest(l, n) \in Nat /\ Newest(l, n) \in Int /\ Multiple(Newest(l, n), Span(l))
         /\ Newest(l, n) <= n /\ n < Newest(l, n) + Span(l)
         /\ \A y \in Int : Multiple(y, Span(l)) /\ y <= n /\ n < y + Span(l)
                            => y = Newest(l, n)
<1>1. Span(l) \in Nat \ {0}
  BY SpanType DEF Layers
<1> DEFINE x == (n \div Span(l)) * Span(l)
<1>2. /\ x \in Nat /\ x <= n /\ n < x + Span(l) /\ Multiple(x, Span(l))
      /\ \A y \in Int : Multiple(y, Span(l)) /\ y <= n /\ n < y + Span(l) => y = x
  BY <1>1, NewestMultiple
<1>3. Newest(l, n) = x
  BY DEF Newest
<1>. HIDE DEF x
<1>. QED  BY <1>2, <1>3

(* The newest root of a layer is the one of block n itself when n has one. *)
LEMMA NewestHere ==
  ASSUME NEW n \in Nat, NEW l \in Layers
  PROVE  /\ Multiple(n, Span(l)) => Newest(l, n) = n
         /\ Newest(l, n) > 0 => Span(l) <= n
<1>0. Span(l) \in Nat \ {0}
  BY SpanType DEF Layers
<1>1. Newest(l, n) \in Nat /\ Newest(l, n) <= n /\ Multiple(Newest(l, n), Span(l))
  BY NewestBounds
<1>2. ASSUME Multiple(n, Span(l))
      PROVE  Newest(l, n) = n
  <2>1. n \in Int /\ n <= n /\ n < n + Span(l)
    BY <1>0
  <2>. QED  BY <1>2, <2>1, NewestBounds
<1>3. ASSUME Newest(l, n) > 0
      PROVE  Span(l) <= n
  <2>1. Span(l) <= Newest(l, n)
    BY <1>0, <1>1, <1>3, MultipleAtLeast
  <2>. QED  BY <1>0, <1>1, <2>1
<1>. QED  BY <1>2, <1>3

(* The next key block keeps a record complete: it adds the roots of every layer
   that has a new one by then. *)
LEMMA AppendComplete ==
  ASSUME ThinningFits, NEW m, Ready(m), m.lastSeq + Step \in Blocks, NEW c
  PROVE  Complete(AppendBundle(m, Roots(m.lastSeq + Step), m.lastSeq + Step,
                               m.lastSeq + Step, c))
<1> DEFINE b  == m.lastSeq + Step
           m2 == AppendBundle(m, Roots(b), b, b, c)
<1>0. /\ m \in BoundedMirror /\ m.lastSeq \in Nat /\ m.lastSeq \in Int
      /\ Multiple(m.lastSeq, Step) /\ Complete(m)
      /\ Step \in Nat \ {0} /\ Step \in Int /\ b \in Nat /\ b \in Int
      /\ KeyBlock(b) /\ Multiple(b, Step)
  BY StepType, NextIsKey DEF Ready, BoundedMirror, Mirror, KeyBlock
<1>1. m2.lastSeq = b
  BY DEF AppendBundle
<1>2. ASSUME NEW l \in Layers, Newest(l, b) > 0
      PROVE  m2.recent[l] # << >> /\ LatestHash(m2.recent[l]) = <<l, Newest(l, b)>>
  <2>1. CASE Multiple(b, Span(l))
    BY <1>0, <2>1, AppendedWindow, NewestHere
  <2>2. CASE ~Multiple(b, Span(l))
    <3>0. Span(l) \in Nat \ {0} /\ Span(l) \in Int
      BY SpanType DEF Layers
    <3>1. m2.recent[l] = m.recent[l]
      BY <1>0, <2>2, AppendedWindow
    <3>2. l # 1
      BY <1>0, <2>2, StepOfWindows, MultipleTrans, ChainAssumption, SpanBase
    <3>3. Multiple(Span(l), Step)
      BY <3>2, HighSpans DEF Layers
    <3>4. /\ Newest(l, b) \in Nat /\ Newest(l, b) \in Int /\ Newest(l, b) <= b
          /\ b < Newest(l, b) + Span(l) /\ Multiple(Newest(l, b), Span(l))
      BY <1>0, NewestBounds
    <3>5. Multiple(Newest(l, b), Step)
      BY <1>0, <3>0, <3>3, <3>4, MultipleTrans
    <3>6. Newest(l, b) # b
      BY <2>2, <3>4
    <3>7. Newest(l, b) + Step <= b
      BY <1>0, <3>4, <3>5, <3>6, MultipleGap
    <3>8. Newest(l, b) <= m.lastSeq /\ m.lastSeq < Newest(l, b) + Span(l)
      BY <1>0, <3>0, <3>4, <3>7
    <3>9. Newest(l, b) = Newest(l, m.lastSeq)
      BY <1>0, <3>4, <3>8, NewestBounds
    <3>. QED  BY <1>0, <1>2, <3>1, <3>9 DEF Complete, Newest
  <2>. QED  BY <2>1, <2>2
<1>. QED  BY <1>1, <1>2 DEF Complete, Newest

(* So does the seed, when it has a root of every layer that has one by then. *)
LEMMA SeedComplete ==
  ASSUME NEW s \in Blocks, RootsAll(s), NEW c
  PROVE  Complete(AppendBundle(NewMirror, Roots(s), s, s, c))
<1> DEFINE m == AppendBundle(NewMirror, Roots(s), s, s, c)
<1>0. m.lastSeq = s /\ NewMirror \in BoundedMirror /\ s \in Nat
  BY NewMirrorType DEF AppendBundle, Blocks
<1>1. ASSUME NEW l \in Layers, Newest(l, s) > 0
      PROVE  m.recent[l] # << >> /\ LatestHash(m.recent[l]) = <<l, Newest(l, s)>>
  <2>1. Multiple(s, Span(l))
    BY <1>0, <1>1, NewestHere DEF RootsAll
  <2>. QED  BY <1>0, <2>1, AppendedWindow, NewestHere
<1>. QED  BY <1>0, <1>1 DEF Complete, Newest

-----------------------------------------------------------------------------
(* The drain is complete. *)

(* The key block that is worked on is there, and the block that the prover
   seeds itself from has all the roots there are. *)
TargetInv ==
  /\ ppc \in AtKeyBlock => target <= head
  /\ ppc \in {"seed", "seedSave"} => RootsAll(target)

LEMMA InitTarget == Init => TargetInv
  BY DEF Init, ProverInit, AtKeyBlock, TargetInv

LEMMA TargetStep ==
  ASSUME Faultless, SeedFits, Typed, Points, TargetInv, [Next]_vars
  PROVE  TargetInv'
<1>1. CASE Grow \/ VerifierMoves \/ UNCHANGED vars
  <2>1. UNCHANGED <<ppc, target>> /\ head' \in {head, head + 1}
    BY <1>1, VerifierSteps
       DEF Grow, vars, VerifierMoves, proverVars, VStart, VSeed, VBkUpdate, VBkResult, BkReport,
           VProof, VResult, Report, VAppend
  <2>2. target <= head => target <= head'
    BY <2>1, HandTypes DEF Typed, TypeOK, ChannelTypeOK, Blocks
  <2>. QED  BY <2>1, <2>2 DEF TargetInv
<1>2. CASE ProverMoves
  <2>1. CASE PStart
    <3>1. ppc' = "seed" /\ target' = SeedSeqno
      BY <2>1 DEF PStart, Points
    <3>2. head \in Head0 .. MaxSeq
      BY ChainAssumption DEF Points, Typed, TypeOK, ChannelTypeOK, Blocks
    <3>3. RootsAll(SeedSeqno)
      BY <3>2 DEF SeedFits, SeedSeqno
    <3>. QED  BY <3>1, <3>3 DEF RootsAll, AtKeyBlock, TargetInv
  <2>2. CASE PSeedApply
    BY <2>2 DEF PSeedApply, RootsAll, AtKeyBlock, TargetInv
  <2>3. CASE PSeedWrite \/ PSkipForeignSet \/ PSkipNoChain \/ PResult
    BY <2>3 DEF PSeedWrite, PSkipForeignSet, PSkipNoChain, SkipTarget, PResult, Restart,
                AtKeyBlock, TargetInv
  <2>4. CASE PPoll
    BY <2>4 DEF PPoll, AtKeyBlock, TargetInv
  <2>5. CASE PDrainDone \/ PBkApply \/ PBkReject \/ PBkRotate \/ PProve \/ PProofWrite
    BY <2>5 DEF PDrainDone, PBkApply, PBkReject, PBkRotate, PProve, PProofWrite, WriteRequest,
                AtKeyBlock, TargetInv
  <2>6. CASE \E u \in Blocks : PBkWrite(u)
    BY <2>6 DEF PBkWrite, AtKeyBlock, TargetInv
  <2>. QED  BY <1>2, <2>1, <2>2, <2>3, <2>4, <2>5, <2>6, ProverSteps
<1>. QED  BY <1>1, <1>2 DEF Next

(* The pubkey table is the chain's set after its own cursor, and the drain is
   left with the set that signs the key block. *)
Drained ==
  /\ table.cursor \in Blocks /\ table.commitment = Signers[table.cursor + 1]
  /\ ppc = "bundle" => table.commitment = L2(target)

(* When nothing is left to drain, no rotation lies between the cursor and the
   key block. *)
LEMMA DrainDone ==
  ASSUME Faultless, OffKeyBlocks, Typed, FilesInv, AckInv, KeyInv, RollInv, TargetInv,
         Drained, ppc = "drain", \A u \in Blocks : ~Drainable(u)
  PROVE  table.commitment = L2(target)
<1> DEFINE c == table.cursor
           n == target - c - 1
           T == {k \in Nat : \A j \in 0 .. k : Signers[c + 1 + j] = Signers[c + 1]}
<1>1. /\ c \in Nat /\ target \in Nat /\ target <= head /\ target = prover.lastSeq + Step
      /\ head \in Nat /\ head <= MaxSeq /\ MaxSeq \in Nat
      /\ c = prover.updCursor /\ table.commitment = Signers[c + 1]
  BY HandTypes, ChainAssumption
     DEF Typed, TypeOK, ChannelTypeOK, TargetVisible, ProverPC, TargetInv, KeyInv, AtKeyBlock,
         FilesInv, MainLoop, Agree, Drained, Blocks
<1>2. c < target
  <2>1. prover.updCursor <= verifier.updCursor /\ verifier.updCursor <= prover.lastSeq + Step
    BY DEF AckInv, RotationAcknowledged, Faultless, RollInv
  <2>2. c <= target
    BY <1>1, <2>1, HandTypes
  <2>3. KeyBlock(target)
    BY <1>1, NextIsKey, HandTypes DEF FilesInv, MainLoop, KeyInv
  <2>4. c # target
    BY <1>1, <2>3, StepType, MultipleIsZeroMod DEF KeyBlock, OffKeyBlocks, RollInv
  <2>. QED  BY <1>1, <2>2, <2>4
<1>3. n \in Nat /\ target = c + 1 + n
  BY <1>1, <1>2
<1>4. 0 \in T
  BY <1>1
<1>5. ASSUME NEW k \in 0 .. n, k < n, k \in T
      PROVE  k + 1 \in T
  <2> DEFINE u == c + 1 + k
  <2>1. /\ u \in Blocks /\ u <= target /\ c < u /\ u <= head
        /\ Signers[u] = Signers[c + 1]
    BY <1>1, <1>3, <1>5 DEF Blocks
  <2>2. ASSUME u \in Rotations
        PROVE  FALSE
    <3>1. ASSUME NEW r \in Rotations, c < r, r < u
          PROVE  FALSE
      <4>1. r \in Nat /\ Signers[r + 1] # Signers[r]
        BY DEF Rotations, L2, L3, Blocks
      <4> DEFINE j == r - c - 1
      <4>2. j \in 0 .. k /\ j + 1 \in 0 .. k /\ r = c + 1 + j /\ r + 1 = c + 1 + (j + 1)
        BY <1>1, <1>5, <3>1, <4>1
      <4>3. Signers[c + 1 + j] = Signers[c + 1] /\ Signers[c + 1 + (j + 1)] = Signers[c + 1]
        BY <1>5, <4>2
      <4>. QED  BY <4>1, <4>2, <4>3
    <3>2. \A r \in Rotations : c < r => u <= r
      BY <1>1, <1>5, <3>1 DEF Rotations, Blocks
    <3>3. NextUpdate(u, prover.updCursor)
      BY <1>1, <2>1, <2>2, <3>2 DEF NextUpdate
    <3>4. L2(u) = table.commitment
      BY <1>1, <2>1 DEF L2
    <3>5. Drainable(u)
      BY <2>1, <3>3, <3>4 DEF Drainable
    <3>. QED  BY <2>1, <3>5
  <2>3. Signers[u + 1] = Signers[u]
    BY <2>1, <2>2 DEF Rotations, L2, L3
  <2>4. Signers[c + 1 + (k + 1)] = Signers[c + 1]
    BY <1>1, <1>5, <2>1, <2>3
  <2>5. \A j \in 0 .. k + 1 : j \in 0 .. k \/ j = k + 1
    BY <1>5
  <2>. QED  BY <1>5, <2>4, <2>5
<1>6. n \in T
  <2>. HIDE DEF n, T
  <2>1. 0 .. n \subseteq T
    BY <1>3, <1>4, <1>5, IntervalInduction
  <2>. QED  BY <1>3, <2>1
<1>7. Signers[c + 1 + n] = Signers[c + 1]
  BY <1>3, <1>6
<1>. QED  BY <1>1, <1>3, <1>7 DEF L2

-----------------------------------------------------------------------------
(* The two mirrors. *)

(* The verifier's record once the seed or the bundle it holds is in. *)
Owed ==
  IF vpc = "append"
  THEN AppendBundle(verifier, Roots(job.seq), job.seq, job.seq, job.commitment)
  ELSE IF verifier.initialized THEN verifier ELSE Seeded(verifier)

Caught == vpc \in {"down", "loop", "append"} /\ Owed = prover

(* The prover's record after the rotation, or the key block, it waits for. *)
Rotated == ApplyBkSetUpdate(prover, L3(update), update)
Bundled == AppendBundle(prover, Roots(target), target, target, table.commitment)

(* At most the request the prover waits for is between the two. *)
Lock ==
  /\ ppc \in {"idle", "drain", "bundle", "request", "bkRotate"} => Caught
  /\ ppc = "bkWait" /\ ~Exists(bkResults[update]) =>
        Caught \/ (vpc = "bkResult" /\ job.ok /\ verifier = Rotated)
  /\ ppc = "bkWait" /\ Exists(bkResults[update]) =>
        vpc = "loop" /\ Accepted(bkResults[update]) /\ verifier = Rotated
  /\ ppc = "wait" /\ ~Exists(results[target]) =>
        Caught \/ (/\ vpc = "result" /\ job.ok /\ job.commitment = table.commitment
                   /\ verifier = prover)
  /\ ppc = "wait" /\ Exists(results[target]) =>
        vpc \in {"loop", "append"} /\ Owed = Bundled
  /\ vpc = "append" => job.ok
  /\ \A u \in Blocks : Exists(bkResults[u]) =>
        u <= prover.updCursor \/ (ppc = "bkWait" /\ u = update)

(* What a seed from before the first rotation leads to. *)
EarlyInv == SeededEarly => Complete(prover) /\ Drained /\ Lock

(* The prover's main loop without the ways out that nothing leads to. *)
Working == {"idle", "drain", "bkWait", "bkRotate", "bundle", "request", "wait"}

LEMMA SeededWorks ==
  ASSUME Typed, FilesInv, SeedInv, KeyInv, Points, seedFile.present
  PROVE  ppc \in Working /\ prover.initialized /\ KeyBlock(prover.lastSeq)
<1>1. prover.initialized /\ ppc # "seedSave"
  BY DEF SeedInv, Untouched
<1>2. ppc \in ProverPC
  BY DEF Typed, TypeOK, ProverTypeOK
<1>. QED  BY <1>1, <1>2 DEF ProverPC, Points, FilesInv, KeyInv, Working

(* A complete record chains to the key block that is worked on. *)
LEMMA CompleteIsReady ==
  ASSUME Typed, KeyInv, prover.initialized, Complete(prover)
  PROVE  Ready(prover)
  BY MirrorTypes DEF KeyInv, Ready

LEMMA TargetChains ==
  ASSUME ThinningFits, Typed, FilesInv, KeyInv, Complete(prover), ppc \in {"bundle", "request", "wait"}
  PROVE  Buildable(prover, target) /\ Closes(prover, target)
<1>1. prover.initialized /\ target = prover.lastSeq + Step
  BY DEF FilesInv, MainLoop, KeyInv, AtKeyBlock
<1>. QED  BY <1>1, CompleteIsReady, ReadyChains

(* No skip and no negative verdict is left. *)
LEMMA WorkingSteps ==
  ASSUME Faultless, ThinningFits, Typed, FilesInv, SeedInv, KeyInv, Points,
         seedFile.present, Complete(prover), Drained, Lock, ProverMoves
  PROVE  \/ PPoll \/ PDrainDone \/ \E u \in Blocks : PBkWrite(u)
         \/ PBkApply \/ PBkRotate \/ PProve \/ PProofWrite \/ PResult
<1>1. ppc \in Working
  BY SeededWorks
<1>2. ~PStart /\ ~PSeedApply /\ ~PSeedWrite
  BY <1>1 DEF PStart, PSeedApply, PSeedWrite, Working
<1>3. ~PSkipForeignSet
  BY DEF PSkipForeignSet, Drained
<1>4. ~PSkipNoChain
  BY TargetChains DEF PSkipNoChain
<1>5. ASSUME PBkReject
      PROVE  FALSE
  <2>1. ppc = "bkWait" /\ Exists(bkResults[update])
        /\ ~(Accepted(bkResults[update]) /\ CanApplyUpdate(prover, L2(update), update))
    BY <1>5 DEF PBkReject, BkVerdictArrived, BkVerdictOk, Faultless
  <2>2. CanApplyUpdate(prover, L2(update), update)
    <3>1. Agree /\ Pending(update)
      BY <2>1 DEF FilesInv, MainLoop
    <3>. QED  BY <3>1 DEF Agree, Pending, CanApplyUpdate
  <2>. QED  BY <2>1, <2>2 DEF Lock
<1>. QED  BY <1>2, <1>3, <1>4, <1>5, ProverSteps

(* The hand-over of the seed. *)
LEMMA EarlySeed ==
  ASSUME OffKeyBlocks, Typed, FilesInv, SeedInv, Points, Answers, TargetInv, ProverMoves,
         PSeedWrite
  PROVE  EarlyInv'
<1>. SUFFICES ASSUME SeededEarly'
              PROVE  Complete(prover)' /\ Drained' /\ Lock'
  BY DEF EarlyInv
<1>1. /\ ppc = "seedSave" /\ ppc' = "idle" /\ target \in Blocks
      /\ seedFile' = [present |-> TRUE, seq |-> target, commitment |-> table.commitment]
      /\ UNCHANGED <<prover, table, proofs, results, bkupds, bkResults, verifier, vpc, job>>
  BY DEF PSeedWrite, Restart, ProverMoves, verifierVars, Typed, TargetVisible, ProverPC
<1>2. /\ table.cursor = 0 /\ verifier = NewMirror /\ vpc \in {"down", "loop"}
      /\ prover = AppendBundle(NewMirror, Roots(target), target, target, table.commitment)
  BY <1>1 DEF Points, SeedInv, Untouched
<1>3. Complete(prover)'
  <2>1. Complete(prover)
    BY <1>1, <1>2, SeedComplete DEF TargetInv
  <2>. QED  BY <1>1, <2>1 DEF Complete
<1>4. Drained'
  <2>1. table.commitment = L2(0)
    BY <1>1 DEF SeededEarly, L2
  <2>2. 0 \in Blocks /\ 0 \notin Rotations
    <3>1. 0 \in Blocks
      BY ChainAssumption DEF Blocks
    <3>2. 0 % Step = 0
      BY StepType, MultipleIsZeroMod, MultipleSelf
    <3>. QED  BY <3>1, <3>2 DEF OffKeyBlocks
  <2>3. L3(0) = L2(0)
    BY <2>2 DEF Rotations
  <2>4. Signers[0 + 1] = table.commitment
    BY <2>1, <2>3 DEF L3
  <2>. QED  BY <1>1, <1>2, <2>2, <2>4 DEF Drained
<1>5. Lock'
  <2>1. Owed' = prover
    <3>1. Owed' = AppendBundle(verifier', Roots(seedFile'.seq), seedFile'.seq, seedFile'.seq,
                               seedFile'.commitment)
      BY <1>1, <1>2 DEF Owed, NewMirror, Seeded
    <3>. QED  BY <1>1, <1>2, <3>1
  <2>2. Caught'
    BY <1>1, <1>2, <2>1 DEF Caught
  <2>3. \A u \in Blocks : ~Exists(bkResults[u])
    BY <1>2 DEF Answers, NewMirror
  <2>. QED  BY <1>1, <1>2, <2>2, <2>3 DEF Lock
<1>. QED  BY <1>3, <1>4, <1>5

(* What the prover's steps do to the record and the table. *)
LEMMA EarlyRecord ==
  ASSUME Faultless, OffKeyBlocks, ThinningFits, Typed, FilesInv, AckInv, SeedInv, KeyInv,
         Points, RollInv, TargetInv, seedFile.present, Complete(prover), Drained, Lock, ProverMoves
  PROVE  Complete(prover)' /\ Drained'
<1>1. CASE PPoll \/ \E u \in Blocks : PBkWrite(u)
  <2>1. UNCHANGED <<prover, table>> /\ ppc' # "bundle"
    BY <1>1 DEF PPoll, PBkWrite
  <2>. QED  BY <2>1 DEF Complete, Drained
<1>2. CASE PDrainDone
  <2>1. /\ UNCHANGED <<prover, table, target>> /\ ppc = "drain"
        /\ \A u \in Blocks : ~Drainable(u)
    BY <1>2 DEF PDrainDone
  <2>2. table.commitment = L2(target)
    BY <2>1, DrainDone
  <2>. QED  BY <2>1, <2>2 DEF Complete, Drained, L2
<1>3. CASE PBkApply
  <2>1. /\ UNCHANGED table /\ ppc' # "bundle"
        /\ prover'.recent = prover.recent /\ prover'.lastSeq = prover.lastSeq
    BY <1>3 DEF PBkApply, ApplyBkSetUpdate
  <2>. QED  BY <2>1 DEF Complete, Drained
<1>4. CASE PBkRotate
  <2>1. update \in Blocks /\ table.cursor < update
    BY <1>4, HandTypes DEF PBkRotate, FilesInv, Pending
  <2>2. /\ UNCHANGED prover /\ ppc' = "drain"
        /\ table' = [present |-> TRUE, commitment |-> L3(update), cursor |-> update]
    BY <1>4, <2>1 DEF PBkRotate
  <2>. QED  BY <2>1, <2>2 DEF Complete, Drained, L3
<1>5. CASE PProve \/ PProofWrite
  <2>1. UNCHANGED <<prover, table>> /\ ppc' # "bundle"
    BY <1>5 DEF PProve, PProofWrite, WriteRequest
  <2>. QED  BY <2>1 DEF Complete, Drained
<1>6. CASE PResult
  <2>1. /\ ppc = "wait" /\ ppc' # "bundle" /\ UNCHANGED table
        /\ prover' = AppendBundle(prover, Roots(target), target, target, table.commitment)
    BY <1>6 DEF PResult, Restart, AppendTarget, Points
  <2>2. /\ target = prover.lastSeq + Step /\ target \in Blocks /\ Ready(prover)
    BY <2>1, SeededWorks, CompleteIsReady DEF KeyInv, AtKeyBlock, Typed, TargetVisible, ProverPC
  <2> DEFINE next == AppendBundle(prover, Roots(target), target, target, table.commitment)
  <2>3. Complete(next)
    BY <2>2, AppendComplete
  <2>4. Complete(prover)'
    <3>1. next = prover'
      BY <2>1
    <3>. HIDE DEF next
    <3>. QED  BY <2>3, <3>1 DEF Complete
  <2>. QED  BY <2>1, <2>4 DEF Drained
<1>. QED  BY <1>1, <1>2, <1>3, <1>4, <1>5, <1>6, WorkingSteps

LEMMA EarlyHand ==
  ASSUME Faultless, ThinningFits, Typed, FilesInv, LagInv, SeedInv, KeyInv, Points, Answers,
         seedFile.present, Complete(prover), Drained, Lock, ProverMoves
  PROVE  Lock'
<1>0. /\ UNCHANGED <<vpc, verifier, job, booted>> /\ Blocks \subseteq Nat
      /\ prover.updCursor \in Nat /\ prover.lastSeq \in Nat
  BY HandTypes DEF ProverMoves, verifierVars
<1>1. UNCHANGED <<seedFile, results, bkResults>>
  BY WorkingSteps
     DEF PPoll, PDrainDone, PBkWrite, PBkApply, PBkRotate, PProve, PProofWrite, WriteRequest,
         PResult, fileVars
<1>2. Owed' = Owed
  BY <1>0, <1>1 DEF Owed, Seeded
<1>3. CASE PPoll \/ PDrainDone \/ PBkRotate \/ PProve
  <2>1. /\ ppc \in {"idle", "drain", "bkRotate", "bundle"} /\ UNCHANGED prover
        /\ ppc' \in {"drain", "bundle", "request"}
    BY <1>3 DEF PPoll, PDrainDone, PBkRotate, PProve
  <2>. QED  BY <1>0, <1>1, <1>2, <2>1 DEF Caught, Lock
<1>4. CASE \E u \in Blocks : PBkWrite(u)
  <2>1. PICK u \in Blocks : PBkWrite(u)
    BY <1>4
  <2>2. /\ ppc = "drain" /\ ppc' = "bkWait" /\ update' = u /\ UNCHANGED prover
        /\ prover.updCursor < u
    BY <2>1 DEF PBkWrite, Drainable, NextUpdate
  <2>3. ~Exists(bkResults[u])
    BY <1>0, <2>2 DEF Lock
  <2>. QED  BY <1>0, <1>1, <1>2, <2>2, <2>3 DEF Caught, Lock
<1>5. CASE PBkApply
  <2>1. /\ ppc = "bkWait" /\ ppc' = "bkRotate" /\ prover' = Rotated
        /\ Accepted(bkResults[update]) /\ prover.updCursor < update
    BY <1>5 DEF PBkApply, BkVerdictOk, Faultless, CanApplyUpdate, Rotated
  <2>2. Exists(bkResults[update]) /\ update \in Blocks
    BY <2>1, HandTypes DEF Accepted, Exists
  <2>3. vpc = "loop" /\ verifier = Rotated /\ booted
    BY <2>1, <2>2 DEF Lock, Answers
  <2>4. Owed = verifier
    BY <2>3 DEF Owed, Answers
  <2>5. prover'.updCursor = update
    BY <2>1 DEF Rotated, ApplyBkSetUpdate
  <2>6. \A u \in Blocks : Exists(bkResults[u]) => u <= update
    BY <1>0, <2>1, <2>2 DEF Lock
  <2>. QED  BY <1>0, <1>1, <1>2, <2>1, <2>3, <2>4, <2>5, <2>6 DEF Caught, Lock
<1>6. CASE PProofWrite
  <2>1. ppc = "request" /\ ppc' = "wait" /\ UNCHANGED <<prover, target>>
    BY <1>6 DEF PProofWrite, WriteRequest
  <2>2. ~Exists(results[target])
    <3>1. target \in Blocks /\ target \in Nat /\ prover.lastSeq < target
      BY <2>1, HandTypes DEF LagInv, AtKeyBlock
    <3>. QED  BY <1>0, <2>1, <3>1 DEF Answers
  <2>. QED  BY <1>0, <1>1, <1>2, <2>1, <2>2 DEF Caught, Lock
<1>7. CASE PResult
  <2>1. /\ ppc = "wait" /\ ppc' = "idle" /\ prover' = Bundled /\ Exists(results[target])
    BY <1>7 DEF PResult, Restart, AppendTarget, Bundled, Points
  <2>2. prover'.updCursor = prover.updCursor
    BY <2>1 DEF Bundled, AppendBundle
  <2>3. vpc \in {"loop", "append"} /\ Owed = Bundled
    BY <2>1 DEF Lock
  <2>. QED  BY <1>0, <1>1, <1>2, <2>1, <2>2, <2>3 DEF Caught, Lock
<1>. QED  BY <1>3, <1>4, <1>5, <1>6, <1>7, WorkingSteps

LEMMA EarlyProver ==
  ASSUME Faultless, OffKeyBlocks, ThinningFits, Typed, FilesInv, AckInv, LagInv, SeedInv, KeyInv,
         Points, Answers, RollInv, TargetInv, EarlyInv, ProverMoves
  PROVE  EarlyInv'
<1>1. CASE ~PSeedWrite
  <2>. SUFFICES ASSUME SeededEarly'
                PROVE  Complete(prover)' /\ Drained' /\ Lock'
    BY DEF EarlyInv
  <2>1. seedFile' = seedFile
    BY <1>1, ProverSteps
       DEF PStart, PSeedApply, PPoll, PDrainDone, PBkWrite, PBkApply, PBkReject, PBkRotate,
           PSkipForeignSet, PSkipNoChain, SkipTarget, PProve, PProofWrite, WriteRequest, PResult,
           fileVars
  <2>2. seedFile.present /\ Complete(prover) /\ Drained /\ Lock
    BY <2>1 DEF SeededEarly, EarlyInv, L2
  <2>. QED  BY <2>2, EarlyRecord, EarlyHand
<1>. QED  BY <1>1, EarlySeed

(* The verifier applies, reports and appends exactly what the prover waits for. *)
LEMMA LockVerifier ==
  ASSUME Faultless, ThinningFits, Typed, FilesInv, SeedInv, SeenInv, KeyInv, Points, Answers,
         seedFile.present, Complete(prover), Lock, VerifierMoves
  PROVE  Lock'
<1>0. /\ UNCHANGED <<ppc, prover, table, target, update>>
      /\ update \in Blocks /\ job.seq \in Blocks
  BY HandTypes DEF VerifierMoves, proverVars
<1>1. CASE VStart \/ VSeed
  <2>1. /\ ~booted /\ vpc \in {"down", "loop"} /\ vpc' = "loop"
        /\ UNCHANGED <<job, seedFile, results, bkResults>>
    <3>1. CASE VStart
      BY <3>1 DEF VStart, Answers, fileVars
    <3>2. CASE VSeed
      BY <3>2 DEF VSeed, fileVars
    <3>. QED  BY <1>1, <3>1, <3>2
  <2>2. Seeded(verifier).initialized
    BY DEF Seeded, AppendBundle
  <2>3. verifier' = Owed /\ verifier'.initialized
    <3>1. CASE VStart
      BY <2>1, <2>2, <3>1 DEF VStart, Owed
    <3>2. CASE VSeed
      <4>1. vpc = "loop" /\ ~verifier.initialized
        BY <2>1, <3>2 DEF VSeed, SeedInv
      <4>. QED  BY <2>2, <3>2, <4>1 DEF VSeed, Owed
    <3>. QED  BY <1>1, <3>1, <3>2
  <2>4. Owed' = Owed
    BY <2>1, <2>3 DEF Owed
  <2>5. ~Exists(bkResults[update])
    BY <1>0, <2>1 DEF Answers
  <2>. QED  BY <1>0, <2>1, <2>4, <2>5 DEF Caught, Bundled, Lock
<1>2. CASE \E u \in Blocks : VBkUpdate(u)
  <2>1. PICK u \in Blocks : VBkUpdate(u)
    BY <1>2
  <2>2. vpc = "loop" /\ NextFile(bkupds, u, bkSeen) /\ booted /\ UNCHANGED bkResults
    BY <2>1 DEF VBkUpdate, SeedChecked, fileVars
  <2>3. ppc = "bkWait" /\ u = update /\ ~Exists(bkResults[u])
    BY <2>2, FoundIsAwaited
  <2>4. verifier = prover
    BY <2>2, <2>3 DEF Lock, Caught, Owed, Answers
  <2>5. bkupds[update] = BkRequest(update)
    BY <2>3 DEF Answers
  <2>6. CanApplyUpdate(verifier, L2(update), update)
    <3>1. Agree /\ Pending(update)
      BY <2>3 DEF FilesInv, MainLoop
    <3>. QED  BY <2>4, <3>1 DEF Agree, Pending, CanApplyUpdate
  <2>7. /\ verifier' = Rotated /\ job'.ok /\ vpc' = "bkResult"
    <3> DEFINE ok == bkupds[u].status = "whole" /\ CanApplyUpdate(verifier, bkupds[u].old, u)
    <3>1. /\ job' = [seq |-> u, ok |-> ok, commitment |-> ZeroCommitment] /\ vpc' = "bkResult"
          /\ verifier' = IF ok THEN ApplyBkSetUpdate(verifier, bkupds[u].new, u) ELSE verifier
      BY <2>1 DEF VBkUpdate
    <3>2. ok /\ bkupds[u].new = L3(update)
      BY <2>3, <2>5, <2>6 DEF BkRequest
    <3>3. verifier' = Rotated
      BY <2>3, <2>4, <3>1, <3>2 DEF Rotated
    <3>4. job'.ok = ok
      BY <3>1
    <3>. QED  BY <3>1, <3>2, <3>3, <3>4
  <2>8. Rotated' = Rotated
    BY <1>0 DEF Rotated
  <2>. QED  BY <1>0, <2>2, <2>3, <2>7, <2>8 DEF Lock
<1>3. CASE VBkResult
  <2>1. /\ vpc = "bkResult" /\ vpc' = "loop" /\ UNCHANGED <<verifier, results>>
        /\ bkResults' = [bkResults EXCEPT ![job.seq] = Verdict(job.ok)]
    BY <1>3 DEF VBkResult, BkReport
  <2>2. ppc = "bkWait" /\ job.seq = update /\ ~Exists(bkResults[update])
    BY <2>1 DEF Answers
  <2>3. job.ok /\ verifier = Rotated
    BY <2>1, <2>2 DEF Lock, Caught
  <2>4. /\ Exists(bkResults'[update]) /\ Accepted(bkResults'[update])
        /\ \A u \in Blocks : u # update => bkResults'[u] = bkResults[u]
    BY <1>0, <2>1, <2>2, <2>3, HandTypes DEF Verdict, Exists, Accepted
  <2>5. Rotated' = Rotated
    BY <1>0 DEF Rotated
  <2>. QED  BY <1>0, <2>1, <2>2, <2>3, <2>4, <2>5 DEF Lock
<1>4. CASE \E s \in Blocks : VProof(s)
  <2>1. PICK s \in Blocks : VProof(s)
    BY <1>4
  <2>2. /\ vpc = "loop" /\ NextFile(proofs, s, seen) /\ booted
        /\ UNCHANGED <<verifier, results, bkResults>>
    BY <2>1 DEF VProof, SeedChecked, fileVars
  <2>3. ppc = "wait" /\ s = target /\ ~Exists(results[s])
    BY <2>2, FoundIsAwaited
  <2>4. verifier = prover
    BY <2>2, <2>3 DEF Lock, Caught, Owed, Answers
  <2>5. proofs[s] = Request /\ Closes(prover, target)
    BY <2>3, TargetChains DEF KeyInv
  <2>6. job'.ok /\ job'.commitment = table.commitment /\ vpc' = "result"
    <3> DEFINE ok == Verifies(proofs[s], proofs[s].circuit)
    <3>1. /\ job' = [seq |-> s, ok |-> ok, commitment |-> proofs[s].commitment]
          /\ vpc' = "result"
      BY <2>1 DEF VProof
    <3>2. /\ ok
          /\ proofs[s].commitment = table.commitment
      BY <2>5 DEF Verifies, Request
    <3>3. job'.ok = ok
      BY <3>1
    <3>. QED  BY <3>1, <3>2, <3>3
  <2>. QED  BY <1>0, <2>2, <2>3, <2>4, <2>6 DEF Lock
<1>5. CASE VResult
  <2>1. /\ vpc = "result" /\ vpc' = "append" /\ UNCHANGED <<verifier, job, bkResults>>
        /\ results' = [results EXCEPT ![job.seq] = Verdict(job.ok)]
    BY <1>5 DEF VResult, Report
  <2>2. ppc = "wait" /\ job.seq = target /\ ~Exists(results[target])
    BY <2>1 DEF Answers
  <2>3. job.ok /\ job.commitment = table.commitment /\ verifier = prover
    BY <2>1, <2>2 DEF Lock, Caught
  <2>4. Exists(results'[target])
    BY <1>0, <2>1, <2>2, HandTypes DEF Verdict, Exists
  <2>5. Owed' = Bundled'
    BY <1>0, <2>1, <2>2, <2>3 DEF Owed, Bundled
  <2>. QED  BY <1>0, <2>1, <2>2, <2>3, <2>4, <2>5 DEF Lock
<1>6. CASE VAppend
  <2>1. vpc = "append" /\ vpc' = "loop" /\ job.ok /\ booted
        /\ UNCHANGED <<seedFile, results, bkResults>>
    BY <1>6 DEF VAppend, Lock, Answers, fileVars
  <2>2. Appendable(verifier, job.seq)
    BY <2>1, HandTypes DEF SeenInv, Bundling, Appendable, Blocks
  <2>3. verifier' = Owed /\ verifier'.initialized
    BY <1>6, <2>1, <2>2 DEF VAppend, Owed, AppendBundle
  <2>4. Owed' = Owed
    BY <2>1, <2>3 DEF Owed
  <2>5. Bundled' = Bundled
    BY <1>0 DEF Bundled
  <2>. QED  BY <1>0, <2>1, <2>4, <2>5 DEF Caught, Lock
<1>. QED
  BY <1>1, <1>2, <1>3, <1>4, <1>5, <1>6, VerifierSteps

LEMMA EarlyStep ==
  ASSUME Faultless, OffKeyBlocks, ThinningFits, HealthyInv, TargetInv, EarlyInv, [Next]_vars
  PROVE  EarlyInv'
<1>0. /\ Typed /\ FilesInv /\ AckInv /\ LagInv /\ SeedInv /\ SeenInv /\ KeyInv
      /\ Points /\ Answers /\ RollInv
  BY DEF HealthyInv, MirrorInv
<1>1. CASE Grow \/ UNCHANGED vars
  <2>1. UNCHANGED <<proverVars, verifierVars, fileVars>>
    BY <1>1 DEF Grow, vars
  <2>. QED
    BY <2>1 DEF proverVars, verifierVars, fileVars, EarlyInv, SeededEarly, Complete, Drained, Lock,
                Caught, Owed, Seeded, Rotated, Bundled, L2
<1>2. CASE VerifierMoves
  <2>1. UNCHANGED <<ppc, prover, table, target>> /\ seedFile' = seedFile
    BY <1>0, <1>2, VerifierSteps
       DEF VerifierMoves, proverVars, VStart, VSeed, VBkUpdate, VBkResult, BkReport, VProof,
           VResult, Report, VAppend, fileVars
  <2>2. SeededEarly' => SeededEarly
    BY <2>1 DEF SeededEarly, L2
  <2>3. SeededEarly => Complete(prover)' /\ Drained'
    BY <2>1 DEF EarlyInv, Complete, Drained, L2
  <2>4. SeededEarly => Lock'
    BY <1>0, <1>2, LockVerifier DEF EarlyInv, SeededEarly
  <2>. QED  BY <2>2, <2>3, <2>4 DEF EarlyInv
<1>. QED  BY <1>0, <1>1, <1>2, EarlyProver DEF Next

LEMMA InitEarly == Init => EarlyInv
  BY DEF Init, ChannelInit, NoSeed, SeededEarly, EarlyInv

LEMMA EarlyInvariant ==
  ASSUME Faultless, OffKeyBlocks, ThinningFits, SeedFits
  PROVE  Spec => [](HealthyInv /\ EarlyInv)
<1>1. Init => HealthyInv /\ TargetInv /\ EarlyInv
  BY InitHealthy, InitTarget, InitEarly
<1>2. HealthyInv /\ TargetInv /\ EarlyInv /\ [Next]_vars => HealthyInv' /\ TargetInv' /\ EarlyInv'
  BY HealthyStep, TargetStep, EarlyStep DEF HealthyInv, MirrorInv
<1>. QED  BY <1>1, <1>2, PTL DEF Spec

(* When nothing fails, and the seed is from before the first rotation, the two
   mirrors are the same whenever both daemons are between two pieces of work:
   what the one has and the other has not is always the single request the
   prover waits for. *)
THEOREM MirrorsInLockstep ==
  ASSUME Faultless, OffKeyBlocks, ThinningFits, SeedFits
  PROVE  Spec => []Lockstep
<1>1. HealthyInv /\ EarlyInv => Lockstep
  <2>. SUFFICES ASSUME HealthyInv, EarlyInv, Quiet, SeededEarly
                PROVE  prover = verifier
    BY DEF Lockstep
  <2>1. Caught /\ vpc = "loop" /\ verifier.initialized
    BY DEF EarlyInv, Lock, Quiet, HealthyInv, Answers
  <2>. QED  BY <2>1 DEF Caught, Owed
<1>. QED  BY <1>1, EarlyInvariant, PTL

(* Then no key block is skipped either: the last seen block of the prover is
   the one whose root its mirror got last. *)
THEOREM LastSeenApplied ==
  ASSUME Faultless, OffKeyBlocks, ThinningFits, SeedFits
  PROVE  Spec => []LastSeenWasApplied
<1>1. HealthyInv /\ EarlyInv => LastSeenWasApplied
  <2>. SUFFICES ASSUME HealthyInv, EarlyInv, SeededEarly
                PROVE  Applied(prover)
    BY DEF LastSeenWasApplied
  <2> DEFINE n == prover.lastSeq
  <2>1. Complete(prover) /\ KeyBlock(n) /\ n \in Nat /\ n > 0 /\ 1 \in Layers
    BY SeededWorks, HandTypes, ChainAssumption
       DEF EarlyInv, HealthyInv, MirrorInv, SeededEarly, KeyBlock, Layers
  <2>2. Multiple(n, Span(1))
    BY <2>1, StepType, StepOfWindows, MultipleTrans, SpanBase, ChainAssumption DEF KeyBlock
  <2>3. Newest(1, n) = n
    BY <2>1, <2>2, NewestHere
  <2>. QED  BY <2>1, <2>3 DEF Complete, Newest, Applied
<1>. QED  BY <1>1, EarlyInvariant, PTL
=============================================================================
