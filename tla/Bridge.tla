------------------------------- MODULE Bridge -------------------------------
(***************************************************************************)
(* The paired daemons: ProverDaemon and VerifierDaemon over the chain and  *)
(* the files of BridgeChannel.  Built with self-verify the prover runs     *)
(* alone.                                                                  *)
(***************************************************************************)
EXTENDS ProverDaemon, VerifierDaemon

vars == <<proverVars, verifierVars, head, fileVars, faults>>

(* The chain grows by a block. *)
Grow ==
  /\ head < MaxSeq
  /\ head' = head + 1
  /\ UNCHANGED <<proverVars, verifierVars, fileVars, faults>>

ProverMoves == (ProverStep \/ ProverFault) /\ UNCHANGED verifierVars

VerifierMoves ==
  ~SelfVerify /\ (VerifierStep \/ VerifierFault) /\ UNCHANGED proverVars

Init == ChannelInit /\ ProverInit /\ VerifierInit

Next == Grow \/ ProverMoves \/ VerifierMoves

(* Each daemon is one task that runs whenever it can; a daemon that is down is
   started again; the chain goes on producing blocks.  Faults are not fair. *)
Fairness ==
  /\ WF_vars(Grow)
  /\ WF_vars(ProverStep /\ UNCHANGED verifierVars)
  /\ WF_vars(~SelfVerify /\ VerifierStep /\ UNCHANGED proverVars)

Spec == Init /\ [][Next]_vars

FairSpec == Spec /\ Fairness

-----------------------------------------------------------------------------
(* Invariants of every run, faults included. *)

(* Type invariant: both states are well-formed mirrors, and every file is
   absent, torn or a record of its kind. *)
TypeOK == ChannelTypeOK /\ ProverTypeOK /\ VerifierTypeOK

MainLoop == {"seedSave", "idle", "drain", "bkWrite", "bkWait", "bundle",
             "request", "write", "wait"}

(* The prover's pubkey table and its contract mirror stand for the same set
   and the same number of applied rotations at every point of the main loop
   that reads both (prover_bk_set.rs: "At every checkpoint the prover must
   satisfy Poseidon(pubkeys) == stored_bk_set_commitment"), although they are
   two files saved one after the other. *)
TableAgrees ==
  ppc \in MainLoop => /\ table.commitment = prover.commitment
                      /\ table.cursor = prover.updCursor

(* The prover never counts a rotation as applied that the verifier has not
   applied: not after a crash of either daemon, a stale or a torn verdict, or
   a timeout.  Otherwise it would sign bundles with a set the mirror does not
   know, and could not redo the proof of the rotation. *)
RotationAcknowledged ==
  ~SelfVerify => prover.updCursor <= verifier.updCursor

(* The other way round the verifier is at most one rotation ahead: between the
   two cursors lies no third rotation. *)
RotationLagBound ==
  \A r \in Rotations : ~(prover.updCursor < r /\ r < verifier.updCursor)

(* The verifier's mirror is never more than one bundle ahead of the prover's,
   whatever either of them repeats after a restart. *)
LagBound == verifier.lastSeq <= prover.lastSeq + Step

Increasing(win) ==
  \A i, j \in 1 .. Len(win) : i < j => win[i].height < win[j].height

(* A key block enters each mirror at most once and in chain order: neither a
   proof that is read again after a restart nor a seed that is found again
   rewinds or repeats the history. *)
MirrorsIncreasing ==
  \A l \in Layers : Increasing(prover.recent[l]) /\ Increasing(verifier.recent[l])

(* The verifier's commitment is always one the chain committed to at the
   verifier's own cursors: the signing set of its newest bundle, the set its
   newest rotation introduced, or the seed's while it has neither.  No order of
   replays, late bundles and restarts leaves it with any other set. *)
CommitmentFromHistory ==
  verifier.initialized =>
    \/ verifier.commitment = L2(verifier.lastSeq)
    \/ verifier.updCursor > 0 /\ verifier.commitment = L3(verifier.updCursor)
    \/ /\ verifier.updCursor = 0 /\ verifier.lastSeq = seedFile.seq
       /\ verifier.commitment = seedFile.commitment

(* Key blocks in the mirror m; its oldest one may be the seed's. *)
Mirrored(m) == {m.recent[1][i].height : i \in 2 .. Len(m.recent[1])}

(* What is mirrored is backed by a file that outlives every crash: in the
   verifier's mirror by a positive verdict, in the mirror of a self-verify
   build by a proof that verifies.  No retry or restart overwrites either once
   the key block is in. *)
MirrorIsBacked ==
  IF SelfVerify
  THEN \A s \in Mirrored(prover) : Verifies(proofs[s], "primary")
  ELSE \A s \in Mirrored(verifier) : Accepted(results[s])

(* The newest root of every layer the chain has published, up to the last seen
   block. *)
Complete(m) ==
  \A l \in Layers :
    LET newest == (m.lastSeq \div Span(l)) * Span(l)
    IN  newest > 0 => m.recent[l] # << >> /\ LatestHash(m.recent[l]) = <<l, newest>>

(* A complete mirror can prove the next key block, whichever layers that block
   publishes: the builder finds a chain, within MAX_CHAIN_LEN, and it ends in
   the published root. *)
CompleteMirrorChains ==
  ppc = "bundle" /\ prover.initialized /\ Complete(prover)
    => Buildable(prover, target) /\ Closes(prover, target)

(* The verifier has applied rotation u, the prover has not, and no positive
   verdict is on disk or on its way. *)
AckLost(u) ==
  /\ prover.updCursor < u /\ u <= verifier.updCursor
  /\ ~Accepted(bkResults[u])
  /\ ~(vpc \in {"bkResult", "bkResultWrite"} /\ job.seq = u)

(* A lost acknowledgement is lost for good.  The verifier saves an update
   before it reports it; if it dies in between it will not look at the request
   again, so the prover never gets past that rotation. *)
LostAckIsFinal ==
  [][\A u \in Rotations : AckLost(u) => AckLost(u)']_vars

-----------------------------------------------------------------------------
(* Properties of the runs without faults. *)

LastKeyBlock == (MaxSeq \div Step) * Step

Applied(m) == m.recent[1] # << >> /\ LatestHash(m.recent[1]) = <<1, m.lastSeq>>

(* The prover was first started before the chain's first rotation. *)
SeededEarly == seedFile.present /\ seedFile.commitment = L2(0)

(* stored_last_seen_block_seq_no is what bridge_state.rs says it is: the
   highest block whose history was appended.  (The next chain proof starts
   from it.) *)
LastSeenWasApplied == SeededEarly => Applied(prover)

(* Neither daemon is in the middle of anything, the verifier is seeded and has
   looked at every request. *)
Quiet ==
  /\ ppc = "idle" /\ vpc = "loop" /\ booted
  /\ \A s \in Blocks : ~NextFile(proofs, s, seen) /\ ~NextFile(bkupds, s, bkSeen)

(* With no faults and a seed from before the first rotation the two mirrors are
   the same, rotations included, whenever
   both daemons are between two pieces of work. *)
Lockstep == Quiet /\ SeededEarly => prover = verifier

SignedBy(c) == {s \in 0 .. MaxSeq + 1 : Signers[s] = c}

(* The verifier's commitment only moves forward along the chain's sequence of
   sets: processing bk-updates first keeps them ahead of the bundles that the
   new set signs. *)
CommitmentNeverRollsBack ==
  [][verifier.initialized =>
       \A s \in SignedBy(verifier'.commitment) :
          \E r \in SignedBy(verifier.commitment) : r <= s]_vars

(* In a self-verify build a skipped key block is fatal: the chain proof of the
   next one cannot close, the daemon exits without advancing, and every
   restart does the same.  Only a next key block with a root of a higher layer
   has a chain that does not pass through the skipped one. *)
SkipIsFatal ==
  [][prover.initialized /\ ~Applied(prover)
       /\ NumLayers(NextKeyBlock(prover.lastSeq)) = 1
     => prover'.recent = prover.recent]_vars

(* Every key block up to the end of the chain reaches the verifier's mirror. *)
AllMirrored ==
  <>[](seedFile.present /\ (SeededEarly => verifier.lastSeq = LastKeyBlock
                                           /\ Applied(verifier)))

(* Every rotation up to the last key block is applied by both daemons. *)
AllRotationsApplied ==
  \A r \in Rotations : r <= LastKeyBlock =>
     <>[](SeededEarly => r <= verifier.updCursor /\ r <= prover.updCursor)

(* Nothing the verifier does or fails to do holds the prover at a key block for
   ever; only its own refusal to start can stop it, or a seed taken so late that
   the next key block lies behind the end of the modelled chain. *)
ProverProgress ==
  <>(prover.lastSeq = LastKeyBlock \/ target > MaxSeq \/ ppc = "refused")

-----------------------------------------------------------------------------
(* Promises of the documentation that the code does not keep. *)

(* "the layer bundle for the bk-update block itself uses the OLD commitment and
   so still verifies": a key block that is itself a rotation is not skipped. *)
RotationKeyBlockApplied ==
  prover.initialized /\ prover.lastSeq \in Rotations => Applied(prover)

(* "the bridge is behind (its top layer is lower than the one the new key block
   carries); extend by climbing one or more layers": a mirror that has the root
   of its last seen key block can prove the next one. *)
ClimbsLayers ==
  ppc = "bundle" /\ Applied(prover)
    => Buildable(prover, target) /\ Closes(prover, target)

(* "Works for fresh devnet and mid-chain shellnet": with the seed chosen
   automatically, the mirror follows a chain that has rotated its set before. *)
MidChainMirrored == <>[](seedFile.present => verifier.lastSeq = LastKeyBlock)
=============================================================================
