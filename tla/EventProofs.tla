---------------------------- MODULE EventProofs ----------------------------
(***************************************************************************)
(* The event pipeline leaves the bridge alone: whatever the driver, its    *)
(* binaries and the verifier's event branch do is a step of the bridge or  *)
(* none at all.  What BridgeProofs and MirrorProofs prove of the daemons   *)
(* therefore holds while events are proven.  On that footing: the          *)
(* verifier's window offers only anchors under which an event can be       *)
(* proven, an anchor leaves it only by being rolled out, and so the        *)
(* verifier turns a proof down only when its anchor was rolled out         *)
(* (RejectionIsFinal).                                                     *)
(***************************************************************************)
EXTENDS EventPipeline, LayerProofs

(* A step of the pipeline changes nothing of the bridge, unless it takes the
   verifier down, which is a step of the bridge. *)
LEMMA EventStepIsBridgeStep ==
  ASSUME [EventNext]_allVars
  PROVE  [Next]_vars
<1>1. CASE BridgeStep
  BY <1>1 DEF BridgeStep
<1>2. CASE (OStart \/ OTimeout) /\ Elsewhere /\ UNCHANGED eventFaults
  BY <1>2 DEF Elsewhere
<1>3. CASE DriverMoves
  BY <1>3 DEF DriverMoves, Elsewhere
<1>4. CASE DriverFault /\ EventFault /\ Elsewhere
  BY <1>4 DEF Elsewhere
<1>5. CASE VEvent
  BY <1>5 DEF VEvent
<1>6. CASE VEventTear
  BY <1>6 DEF VEventTear, EventWaiting, VerifierFault, VerifierMoves, Next
<1>7. CASE UNCHANGED allVars
  BY <1>7 DEF allVars
<1> QED
  BY <1>1, <1>2, <1>3, <1>4, <1>5, <1>6, <1>7 DEF EventNext

(* The bridge with the event pipeline on top of it is still the bridge. *)
THEOREM EventsKeepBridge == EventSpec => Spec
<1>1. EventInit => Init
  BY DEF EventInit
<1>2. [EventNext]_allVars => [Next]_vars
  BY EventStepIsBridgeStep
<1> QED
  BY <1>1, <1>2, PTL DEF EventSpec, Spec

(* With events in flight the verifier is still at most one rotation and one
   bundle ahead, no rotation is counted before it has applied it, and the mirrors
   are ordered, backed and committed to a set of the chain. *)
THEOREM EventsKeepSafety ==
  EventSpec => [](/\ TableAgrees /\ RotationAcknowledged
                  /\ RotationLagBound /\ LagBound
                  /\ MirrorsIncreasing /\ CommitmentFromHistory /\ MirrorIsBacked)
BY EventsKeepBridge, TablesAgree, RotationsAcknowledged, RotationLag, Lag,
   MirrorsStayInOrder, CommitmentIsFromHistory, MirrorsAreBacked, PTL

-----------------------------------------------------------------------------
(* What the verifier's window of layer 1 offers as an anchor. *)

(* The verifier has got past key block k, which is the seed's or has a positive
   verdict on disk. *)
Backed(k) ==
  /\ verifier.initialized /\ k <= verifier.lastSeq
  /\ k = seedFile.seq \/ Accepted(results[k])

LEMMA BackedStays ==
  ASSUME MirrorInv, [Next]_vars, NEW k \in Blocks, Backed(k)
  PROVE  Backed(k)'
<1>0. /\ k \in Nat /\ verifier.lastSeq \in Nat /\ job.seq \in Blocks /\ job.seq \in Nat
      /\ results \in [Blocks -> ResultFile]
  BY DEF MirrorInv, Typed, TypeOK, ChannelTypeOK, VerifierTypeOK, Job, Mirror, Blocks
<1>1. CASE Grow \/ UNCHANGED vars
  BY <1>1 DEF Grow, vars, verifierVars, fileVars, Backed
<1>2. CASE ProverMoves
  <2>1. /\ ~PSeedWrite /\ verifier' = verifier
    BY <1>2 DEF ProverMoves, verifierVars, PSeedWrite, MirrorInv, SeedInv, Untouched,
                NewMirror, Backed
  <2>2. seedFile' = seedFile /\ results' = results
    <3>1. CASE PSeedApply \/ PBkApply
      BY <3>1 DEF PSeedApply, PBkApply, fileVars
    <3>2. CASE ProofWrites
      BY <3>2, ProofWritesEffect
    <3>3. CASE RotationWrites
      BY <3>3 DEF RotationWrites, PBkWrite, PBkTear, PBkWriteEnd
    <3>4. CASE Appends \/ Skips \/ OtherSteps
      BY <3>4, AppendsEffect, SkipsEffect, OtherStepsEffect DEF SkipTarget, fileVars
    <3>. QED  BY <1>2, <2>1, <3>1, <3>2, <3>3, <3>4, ProverGroups
  <2>. QED  BY <2>1, <2>2 DEF Backed
<1>3. CASE VerifierMoves
  <2>1. seedFile' = seedFile
    BY <1>3
       DEF VerifierMoves, VerifierStep, VerifierFault, VStart, VSeed, VBkUpdate, VBkResult,
           VBkResultEnd, VBkResultTear, BkReport, VProof, VResult, VResultEnd, VResultTear,
           Report, VAppend, VCrash, fileVars
  <2>2. verifier'.initialized /\ k <= verifier'.lastSeq
    <3>1. CASE verifier' = verifier
      BY <3>1 DEF Backed
    <3>2. CASE \E u \in Blocks : verifier' = ApplyBkSetUpdate(verifier, bkupds[u].new, u)
      BY <3>2 DEF ApplyBkSetUpdate, Backed
    <3>3. CASE /\ vpc = "append"
               /\ verifier' = AppendBundle(verifier, Roots(job.seq), job.seq, job.seq,
                                           job.commitment)
      <4>1. verifier.lastSeq < job.seq
        BY <3>3 DEF MirrorInv, SeenInv, Bundling
      <4>2. verifier'.initialized /\ verifier'.lastSeq = job.seq
        BY <3>3 DEF AppendBundle
      <4>. QED  BY <1>0, <4>1, <4>2 DEF Backed
    <3>. QED  BY <1>3, <3>1, <3>2, <3>3, VerifierEffect DEF Backed, MirrorInv
  <2>3. Accepted(results[k]) => Accepted(results'[k])
    <3>1. CASE VResult \/ VResultEnd \/ VResultTear
      <4>1. /\ vpc \in Bundling
            /\ results' \in {[results EXCEPT ![job.seq] = Verdict(job.ok)],
                             [results EXCEPT ![job.seq] = TornResult]}
        BY <3>1 DEF VResult, VResultEnd, VResultTear, Report, Bundling
      <4>2. k # job.seq
        BY <1>0, <4>1 DEF MirrorInv, SeenInv, Backed
      <4>. QED  BY <1>0, <4>1, <4>2
    <3>2. CASE ~(VResult \/ VResultEnd \/ VResultTear)
      BY <1>3, <3>2
         DEF VerifierMoves, VerifierStep, VerifierFault, VStart, VSeed, VBkUpdate, VBkResult,
             VBkResultEnd, VBkResultTear, BkReport, VProof, VAppend, VCrash, fileVars
    <3>. QED  BY <3>1, <3>2
  <2>. QED  BY <2>1, <2>2, <2>3 DEF Backed
<1>. QED  BY <1>1, <1>2, <1>3 DEF Next

LEMMA PushElements ==
  ASSUME NEW win \in Seq(Entry), Len(win) <= W, NEW e \in Entry,
         NEW i \in 1 .. Len(Push(win, e))
  PROVE  Push(win, e)[i] = e \/ \E j \in 1 .. Len(win) : Push(win, e)[i] = win[j]
<1>1. CASE i \in 2 .. Len(Push(win, e))
  <2>1. 2 .. Len(win) \subseteq 1 .. Len(win)
    OBVIOUS
  <2>. QED  BY <1>1, <2>1, PushMirrored
<1>2. CASE i = 1
  <2>0. Len(win) \in Nat
    OBVIOUS
  <2>1. CASE Len(win) = 0
    <3>1. Push(win, e) = Append(win, e)
      BY <2>1, ChainAssumption DEF Push
    <3>2. Append(win, e)[1] = e
      BY <2>1
    <3>. QED  BY <1>2, <3>1, <3>2
  <2>2. CASE Len(win) > 0 /\ Len(win) < W
    <3>1. Push(win, e) = Append(win, e)
      BY <2>2 DEF Push
    <3>2. 1 \in 1 .. Len(win) /\ Append(win, e)[1] = win[1]
      BY <2>0, <2>2
    <3>. QED  BY <1>2, <3>1, <3>2
  <2>3. CASE Len(win) > 0 /\ ~(Len(win) < W)
    <3>1. /\ win # << >> /\ Push(win, e) = Append(Tail(win), e)
          /\ Tail(win) \in Seq(Entry) /\ Len(Tail(win)) = Len(win) - 1
      BY <2>0, <2>3 DEF Push
    <3>2. CASE Len(win) = 1
      <4>1. Len(Tail(win)) = 0
        BY <3>1, <3>2
      <4>2. Append(Tail(win), e)[Len(Tail(win)) + 1] = e
        BY <3>1
      <4>. QED  BY <1>2, <3>1, <4>1, <4>2
    <3>3. CASE Len(win) > 1
      <4>1. Append(Tail(win), e)[1] = Tail(win)[1]
        BY <2>0, <3>1, <3>3
      <4>2. 2 \in 1 .. Len(win) /\ Tail(win)[1] = win[2]
        BY <2>0, <3>1, <3>3
      <4>3. Push(win, e)[i] = win[2]
        BY <1>2, <3>1, <4>1, <4>2
      <4>. QED  BY <4>2, <4>3
    <3>4. Len(win) = 1 \/ Len(win) > 1
      BY <2>0, <2>3
    <3>. QED  BY <3>2, <3>3, <3>4
  <2>. QED  BY <2>0, <2>1, <2>2, <2>3
<1>. QED  BY <1>1, <1>2

(* The window of layer 1 holds for each height the root of that very block, and
   only of blocks that are backed. *)
AnchorsBacked ==
  \A i \in 1 .. Len(verifier.recent[1]) :
    LET e == verifier.recent[1][i]
    IN  e.hash = <<1, e.height>> /\ e.height \in Blocks /\ Backed(e.height)

LEMMA InitAnchors == Init => AnchorsBacked
<1>1. Init => Len(verifier.recent[1]) = 0
  BY ChainAssumption DEF Init, VerifierInit, NewMirror, Layers
<1>. QED  BY <1>1 DEF AnchorsBacked

(* A bundle or a seed puts the root of its own block into the window. *)
LEMMA AppendAnchor ==
  ASSUME NEW m \in BoundedMirror, NEW s \in Blocks, NEW c, NEW b,
         b = AppendBundle(m, Roots(s), s, s, c),
         NEW i \in 1 .. Len(b.recent[1])
  PROVE  \/ b.recent[1][i].hash = <<1, s>> /\ b.recent[1][i].height = s
         \/ \E j \in 1 .. Len(m.recent[1]) : b.recent[1][i] = m.recent[1][j]
<1>1. 1 \in Layers /\ m.recent[1] \in Seq(Entry) /\ Len(m.recent[1]) <= W
  BY ChainAssumption DEF Layers, BoundedMirror, Mirror
<1>2. CASE 1 \in DOMAIN Roots(s)
  <2> DEFINE e == [hash |-> Roots(s)[1], height |-> s]
  <2>1. Roots(s)[1] = <<1, s>>
    BY <1>2 DEF Roots
  <2>2. e \in Entry /\ e.hash = <<1, s>> /\ e.height = s
    BY <1>1, <2>1 DEF Layers, Entry
  <2>3. b.recent[1] = Push(m.recent[1], e)
    BY <1>1, <1>2 DEF AppendBundle
  <2> HIDE DEF e
  <2>4. \/ b.recent[1][i] = e
        \/ \E j \in 1 .. Len(m.recent[1]) : b.recent[1][i] = m.recent[1][j]
    BY <1>1, <2>2, <2>3, PushElements
  <2>. QED  BY <2>2, <2>4
<1>3. CASE 1 \notin DOMAIN Roots(s)
  <2>1. b.recent[1] = m.recent[1]
    BY <1>1, <1>3 DEF AppendBundle
  <2>. QED  BY <2>1
<1>. QED  BY <1>2, <1>3

LEMMA AnchorsStep == MirrorInv /\ AnchorsBacked /\ [Next]_vars => AnchorsBacked'
<1>. SUFFICES ASSUME MirrorInv, AnchorsBacked, [Next]_vars,
                     NEW i \in 1 .. Len(verifier'.recent[1]),
                     NEW e, e = verifier'.recent[1][i]
              PROVE  e.hash = <<1, e.height>> /\ e.height \in Blocks /\ Backed(e.height)'
  <2>1. ASSUME MirrorInv, AnchorsBacked, [Next]_vars,
               \A i \in 1 .. Len(verifier'.recent[1]) : \A e : e = verifier'.recent[1][i] =>
                  e.hash = <<1, e.height>> /\ e.height \in Blocks /\ Backed(e.height)'
        PROVE  AnchorsBacked'
    BY <2>1 DEF AnchorsBacked, Backed
  <2>. QED  BY <2>1
<1>0. /\ verifier \in BoundedMirror /\ job.seq \in Blocks /\ seedFile.seq \in Blocks
      /\ job.seq <= job.seq /\ seedFile.seq <= seedFile.seq
  BY MirrorTypes DEF MirrorInv, Typed, TypeOK, ChannelTypeOK, VerifierTypeOK, Job, Seed, Blocks
<1>1. ASSUME \E j \in 1 .. Len(verifier.recent[1]) : e = verifier.recent[1][j]
      PROVE  e.hash = <<1, e.height>> /\ e.height \in Blocks /\ Backed(e.height)'
  <2>1. e.hash = <<1, e.height>> /\ e.height \in Blocks /\ Backed(e.height)
    BY <1>1 DEF AnchorsBacked
  <2>. QED  BY <2>1, BackedStays
<1>2. CASE verifier' = verifier
  BY <1>1, <1>2
<1>3. CASE verifier' # verifier
  <2>1. VerifierMoves
    BY <1>3 DEF Next, Grow, ProverMoves, verifierVars, vars
  <2>2. UNCHANGED fileVars
    BY <1>3, <2>1
       DEF VerifierMoves, VerifierStep, VerifierFault, VStart, VSeed, VBkUpdate, VBkResult,
           VBkResultEnd, VBkResultTear, BkReport, VProof, VResult, VResultEnd, VResultTear,
           Report, VAppend, VCrash
  <2>3. CASE verifier = NewMirror /\ verifier' = Seeded(verifier)
    <3>1. e.hash = <<1, seedFile.seq>> /\ e.height = seedFile.seq
      <4>1. Len(verifier.recent[1]) = 0
        BY <2>3, ChainAssumption DEF NewMirror, Layers
      <4>. QED  BY <1>0, <2>3, <4>1, AppendAnchor DEF Seeded
    <3>2. verifier'.initialized /\ verifier'.lastSeq = seedFile.seq
      BY <2>3 DEF Seeded, AppendBundle
    <3>3. seedFile' = seedFile
      BY <2>2 DEF fileVars
    <3>4. e.height \in Blocks /\ e.height <= verifier'.lastSeq
      <4>1. seedFile.seq \in Blocks /\ seedFile.seq <= seedFile.seq
        BY <1>0
      <4>. QED  BY <3>1, <3>2, <4>1
    <3>. QED  BY <3>1, <3>2, <3>3, <3>4 DEF Backed
  <2>4. CASE \E u \in Blocks : verifier' = ApplyBkSetUpdate(verifier, bkupds[u].new, u)
    BY <1>1, <2>4 DEF ApplyBkSetUpdate
  <2>5. CASE /\ vpc = "append" /\ job.ok
             /\ verifier' = AppendBundle(verifier, Roots(job.seq), job.seq, job.seq,
                                         job.commitment)
    <3>1. \/ e.hash = <<1, job.seq>> /\ e.height = job.seq
          \/ \E j \in 1 .. Len(verifier.recent[1]) : e = verifier.recent[1][j]
      <4>1. \/ /\ verifier'.recent[1][i].hash = <<1, job.seq>>
               /\ verifier'.recent[1][i].height = job.seq
            \/ \E j \in 1 .. Len(verifier.recent[1]) :
                  verifier'.recent[1][i] = verifier.recent[1][j]
        <5>1. verifier' = AppendBundle(verifier, Roots(job.seq), job.seq, job.seq,
                                       job.commitment)
          BY <2>5
        <5>2. \A c, b : b = AppendBundle(verifier, Roots(job.seq), job.seq, job.seq, c)
                => \A k \in 1 .. Len(b.recent[1]) :
                     \/ b.recent[1][k].hash = <<1, job.seq>> /\ b.recent[1][k].height = job.seq
                     \/ \E j \in 1 .. Len(verifier.recent[1]) :
                          b.recent[1][k] = verifier.recent[1][j]
          BY <1>0, AppendAnchor
        <5>. QED  BY <5>1, <5>2
      <4>. QED  BY <4>1
    <3>2. verifier'.initialized /\ verifier'.lastSeq = job.seq /\ Accepted(results[job.seq])
      BY <2>5 DEF AppendBundle, MirrorInv, BackedInv
    <3>3. results' = results
      BY <2>2 DEF fileVars
    <3>4. CASE e.hash = <<1, job.seq>> /\ e.height = job.seq
      <4>1. e.height \in Blocks /\ e.height <= verifier'.lastSeq
        <5>1. job.seq \in Blocks /\ job.seq <= job.seq
          BY <1>0
        <5>. QED  BY <3>2, <3>4, <5>1
      <4>. QED  BY <3>2, <3>3, <3>4, <4>1 DEF Backed
    <3>. QED  BY <1>1, <3>1, <3>4
  <2>. QED  BY <1>3, <2>1, <2>3, <2>4, <2>5, VerifierEffect DEF MirrorInv
<1>. QED  BY <1>2, <1>3

-----------------------------------------------------------------------------
(* How long an anchor lasts. *)

(* The newest of the window's heights is not past block n, and each is at least a
   step behind the next. *)
Spaced(win, n) ==
  \A i \in 1 .. Len(win) : win[i].height + (Len(win) - i) * Step <= n

InWindow(win, k) == \E i \in 1 .. Len(win) : win[i].height = k

(* A newer key block keeps the heights spaced, and drops only one that is W steps
   behind it. *)
LEMMA PushSpaced ==
  ASSUME NEW win \in Seq(Entry), Len(win) <= W, NEW e \in Entry, NEW n \in Nat,
         Spaced(win, n), n + Step <= e.height \/ win = << >>
  PROVE  /\ Spaced(Push(win, e), e.height)
         /\ \A k : InWindow(win, k) => InWindow(Push(win, e), k) \/ k + W * Step <= e.height
<1> DEFINE L == Len(win)
           h(i) == win[i].height
<1>0. /\ L \in Nat /\ W \in Nat \ {0} /\ Step \in Nat \ {0} /\ e.height \in Nat
      /\ \A i \in 1 .. L : h(i) \in Nat /\ h(i) + (L - i) * Step + Step <= e.height
  <2>1. L \in Nat /\ Step \in Nat \ {0} /\ e.height \in Nat
    BY StepType, EntryHeight
  <2>2. ASSUME NEW i \in 1 .. L PROVE h(i) \in Nat /\ h(i) + (L - i) * Step + Step <= e.height
    <3>1. h(i) \in Nat /\ (L - i) * Step \in Int
      BY <2>1, WindowHeights
    <3>2. h(i) + (L - i) * Step <= n /\ n + Step <= e.height
      BY DEF Spaced
    <3>. HIDE DEF h, L
    <3>. QED  BY <2>1, <3>1, <3>2
  <2>. QED  BY <2>1, <2>2, ChainAssumption
<1>1. \A i \in 1 .. L : (L + 1 - i) * Step = (L - i) * Step + Step
  BY <1>0
<1>2. CASE L < W
  <2>1. /\ Push(win, e) = Append(win, e) /\ Len(Append(win, e)) = L + 1
        /\ Append(win, e)[L + 1] = e
        /\ \A j \in 1 .. L : Append(win, e)[j] = win[j]
    BY <1>2 DEF Push
  <2> DEFINE v == Push(win, e)
  <2>2. Len(v) = L + 1 /\ v[L + 1] = e /\ \A j \in 1 .. L : v[j] = win[j]
    BY <2>1
  <2>. HIDE DEF v
  <2>3. ASSUME NEW i \in 1 .. Len(v)
        PROVE  v[i].height + (Len(v) - i) * Step <= e.height
    <3>1. CASE i = L + 1
      BY <1>0, <2>2, <3>1
    <3>2. CASE i # L + 1
      <4>1. i \in 1 .. L
        BY <1>0, <2>2, <3>2
      <4>2. v[i].height = h(i) /\ (Len(v) - i) * Step = (L - i) * Step + Step
        BY <1>1, <2>2, <4>1
      <4>3. h(i) \in Nat /\ (L - i) * Step \in Int
        BY <1>0, <4>1
      <4>4. h(i) + (L - i) * Step + Step <= e.height
        BY <1>0, <4>1
      <4>. HIDE DEF h, L
      <4>. QED  BY <1>0, <4>2, <4>3, <4>4
    <3>. QED  BY <3>1, <3>2
  <2>4. ASSUME NEW k, InWindow(win, k) PROVE InWindow(v, k)
    <3>1. PICK i \in 1 .. L : h(i) = k
      BY <2>4 DEF InWindow
    <3>2. i \in 1 .. Len(v) /\ v[i].height = k
      BY <1>0, <2>2, <3>1
    <3>. QED  BY <3>2 DEF InWindow
  <2>. QED  BY <2>3, <2>4 DEF Spaced, v
<1>3. CASE ~(L < W)
  <2>0. L = W /\ win # << >>
    BY <1>0, <1>3
  <2>1. /\ Tail(win) \in Seq(Entry) /\ Len(Tail(win)) = L - 1
        /\ \A j \in 1 .. L - 1 : Tail(win)[j] = win[j + 1]
    BY <2>0
  <2>2. /\ Push(win, e) = Append(Tail(win), e) /\ Len(Append(Tail(win), e)) = L
        /\ Append(Tail(win), e)[L] = e
        /\ \A j \in 1 .. L - 1 : Append(Tail(win), e)[j] = Tail(win)[j]
    BY <1>0, <1>3, <2>0, <2>1 DEF Push
  <2> DEFINE v == Push(win, e)
  <2>3. Len(v) = L /\ v[L] = e /\ \A j \in 1 .. L - 1 : v[j] = win[j + 1]
    BY <2>1, <2>2
  <2>. HIDE DEF v
  <2>4. ASSUME NEW i \in 1 .. Len(v)
        PROVE  v[i].height + (Len(v) - i) * Step <= e.height
    <3>1. CASE i = L
      BY <1>0, <2>3, <3>1
    <3>2. CASE i # L
      <4>1. i \in 1 .. L - 1 /\ i + 1 \in 1 .. L
        BY <1>0, <2>3, <3>2
      <4>2. v[i].height = h(i + 1) /\ (L - i) * Step = (L - (i + 1)) * Step + Step
        <5>1. (L + 1 - (i + 1)) * Step = (L - (i + 1)) * Step + Step /\ L + 1 - (i + 1) = L - i
          BY <1>0, <1>1, <4>1
        <5>. QED  BY <2>3, <4>1, <5>1
      <4>3. h(i + 1) \in Nat /\ (L - (i + 1)) * Step \in Int
        BY <1>0, <4>1
      <4>4. h(i + 1) + (L - (i + 1)) * Step + Step <= e.height
        BY <1>0, <4>1
      <4>. HIDE DEF h
      <4>. QED  BY <1>0, <2>3, <4>2, <4>3, <4>4
    <3>. QED  BY <3>1, <3>2
  <2>5. ASSUME NEW k, InWindow(win, k) PROVE InWindow(v, k) \/ k + W * Step <= e.height
    <3>1. PICK i \in 1 .. L : h(i) = k
      BY <2>5 DEF InWindow
    <3>2. CASE i = 1
      <4>1. (L - 1) * Step + Step = W * Step /\ (L - 1) * Step \in Int
        BY <1>0, <2>0
      <4>2. k \in Nat /\ k + (L - 1) * Step + Step <= e.height
        <5>1. 1 \in 1 .. L /\ h(1) = k
          BY <3>1, <3>2
        <5>. HIDE DEF h, L
        <5>. QED  BY <1>0, <5>1
      <4>3. \A d, w, t, g \in Int : d + t = w /\ g + d + t <= e.height => g + w <= e.height
        BY <1>0
      <4>4. W * Step \in Int /\ Step \in Int /\ k \in Int
        BY <1>0, <4>2
      <4>. HIDE DEF h, L
      <4>. QED  BY <4>1, <4>2, <4>3, <4>4
    <3>3. CASE i # 1
      <4>1. i - 1 \in 1 .. L - 1 /\ i - 1 \in 1 .. Len(v) /\ (i - 1) + 1 = i
        BY <1>0, <2>3, <3>1, <3>3
      <4>2. v[i - 1] = win[(i - 1) + 1]
        BY <2>3, <4>1
      <4>. QED  BY <3>1, <4>1, <4>2 DEF InWindow
    <3>. QED  BY <3>2, <3>3
  <2>. QED  BY <2>4, <2>5 DEF Spaced, v
<1>. QED  BY <1>2, <1>3

(* The verifier's window still has the root of key block k, or k has been rolled
   out of it. *)
Kept(k) == InWindow(verifier.recent[1], k) \/ RolledOut(k)

SpacedInv == Spaced(verifier.recent[1], verifier.lastSeq)

LEMMA InitSpaced == Init => SpacedInv
<1>1. Init => Len(verifier.recent[1]) = 0
  BY ChainAssumption DEF Init, VerifierInit, NewMirror, Layers
<1>. QED  BY <1>1 DEF SpacedInv, Spaced

(* What a bundle does to the window of layer 1. *)
LEMMA AppendSpaced ==
  ASSUME NEW m \in BoundedMirror, NEW s \in Blocks, NEW c,
         Spaced(m.recent[1], m.lastSeq), m.lastSeq + Step <= s \/ m = NewMirror
  PROVE  LET b == AppendBundle(m, Roots(s), s, s, c)
         IN  /\ b.lastSeq = s /\ m.lastSeq <= s /\ Spaced(b.recent[1], s)
             /\ \A k : InWindow(m.recent[1], k) =>
                  InWindow(b.recent[1], k) \/ k + W * Step <= s
<1> DEFINE b == AppendBundle(m, Roots(s), s, s, c)
           e == [hash |-> Roots(s)[1], height |-> s]
<1>0. /\ 1 \in Layers /\ m.recent[1] \in Seq(Entry) /\ Len(m.recent[1]) <= W
      /\ s \in Nat /\ m.lastSeq \in Nat /\ Step \in Nat \ {0}
  BY StepType, ChainAssumption DEF Layers, BoundedMirror, Mirror, Blocks
<1>1. m = NewMirror => m.recent[1] = << >> /\ m.lastSeq = 0
  BY <1>0 DEF NewMirror
<1>2. /\ b.lastSeq = s
      /\ b.recent[1] = IF 1 \in DOMAIN Roots(s) THEN Push(m.recent[1], e) ELSE m.recent[1]
  BY <1>0 DEF AppendBundle
<1>3. m.lastSeq <= s /\ (m.lastSeq + Step <= s \/ m.recent[1] = << >>)
  BY <1>0, <1>1
<1>4. CASE 1 \in DOMAIN Roots(s)
  <2>1. e \in Entry /\ e.height = s
    <3>1. Roots(s)[1] = <<1, s>>
      BY <1>4 DEF Roots
    <3>. QED  BY <1>0, <3>1 DEF Layers, Entry
  <2>. HIDE DEF e
  <2>2. /\ Spaced(Push(m.recent[1], e), e.height)
        /\ \A k : InWindow(m.recent[1], k) =>
             InWindow(Push(m.recent[1], e), k) \/ k + W * Step <= e.height
    BY <1>0, <1>3, <2>1, PushSpaced
  <2>. QED  BY <1>2, <1>3, <1>4, <2>1, <2>2
<1>5. CASE 1 \notin DOMAIN Roots(s)
  <2>1. b.recent[1] = m.recent[1]
    BY <1>2, <1>5
  <2>2. Spaced(m.recent[1], s)
    <3>. SUFFICES ASSUME NEW i \in 1 .. Len(m.recent[1])
                  PROVE  m.recent[1][i].height + (Len(m.recent[1]) - i) * Step <= s
      BY DEF Spaced
    <3>1. m.recent[1][i].height + (Len(m.recent[1]) - i) * Step <= m.lastSeq
      BY DEF Spaced
    <3>2. m.recent[1][i].height \in Nat
      BY <1>0, WindowHeights
    <3>3. (Len(m.recent[1]) - i) * Step \in Int
      <4>1. Len(m.recent[1]) \in Nat
        BY <1>0
      <4>. QED  BY <1>0, <4>1
    <3>4. \A g, d \in Int : g + d <= m.lastSeq => g + d <= s
      BY <1>0, <1>3
    <3>. QED  BY <3>1, <3>2, <3>3, <3>4
  <2>. QED  BY <1>2, <1>3, <2>1, <2>2
<1>. QED  BY <1>4, <1>5

LEMMA WindowStep ==
  ASSUME MirrorInv, FileKeyInv, SpacedInv, [Next]_vars
  PROVE  /\ SpacedInv'
         /\ \A k \in Nat : RolledOut(k) => RolledOut(k)'
         /\ \A k \in Nat : Kept(k) => Kept(k)'
<1>0. /\ verifier \in BoundedMirror /\ verifier.lastSeq \in Nat /\ Step \in Nat \ {0}
      /\ job.seq \in Blocks /\ seedFile.seq \in Blocks /\ Blocks \subseteq Nat
      /\ W * Step \in Nat
  <2>1. Step \in Nat \ {0} /\ W \in Nat
    BY StepType, ChainAssumption
  <2>2. W * Step \in Nat
    BY <2>1
  <2>. QED
    BY <2>1, <2>2, MirrorTypes
       DEF MirrorInv, Typed, TypeOK, ChannelTypeOK, VerifierTypeOK, Job, Seed, Mirror, Blocks
<1>1. CASE verifier' = verifier
  BY <1>1 DEF SpacedInv, Kept, RolledOut
<1>2. CASE \E u \in Blocks : verifier' = ApplyBkSetUpdate(verifier, bkupds[u].new, u)
  <2>1. verifier'.recent = verifier.recent /\ verifier'.lastSeq = verifier.lastSeq
    BY <1>2 DEF ApplyBkSetUpdate
  <2>. QED  BY <2>1 DEF SpacedInv, Kept, RolledOut
<1>3. ASSUME NEW s \in Blocks, NEW c, verifier.lastSeq + Step <= s \/ verifier = NewMirror,
             verifier' = AppendBundle(verifier, Roots(s), s, s, c)
      PROVE  /\ SpacedInv'
             /\ \A k \in Nat : RolledOut(k) => RolledOut(k)'
             /\ \A k \in Nat : Kept(k) => Kept(k)'
  <2>1. /\ verifier'.lastSeq = s /\ verifier.lastSeq <= s /\ Spaced(verifier'.recent[1], s)
        /\ \A k : InWindow(verifier.recent[1], k) =>
             InWindow(verifier'.recent[1], k) \/ k + W * Step <= s
    BY <1>0, <1>3, AppendSpaced DEF SpacedInv
  <2>2. \A k \in Nat : RolledOut(k) => RolledOut(k)'
    BY <1>0, <2>1 DEF RolledOut
  <2>3. \A k \in Nat : k + W * Step <= s => RolledOut(k)'
    BY <1>0, <2>1 DEF RolledOut
  <2>. QED  BY <2>1, <2>2, <2>3 DEF SpacedInv, Kept
<1>4. CASE verifier = NewMirror /\ verifier' = Seeded(verifier)
  BY <1>0, <1>3, <1>4 DEF Seeded
<1>5. CASE /\ vpc = "append"
           /\ verifier' = AppendBundle(verifier, Roots(job.seq), job.seq, job.seq,
                                       job.commitment)
  <2>1. verifier.lastSeq < job.seq /\ KeyBlock(job.seq)
    BY <1>5 DEF MirrorInv, SeenInv, FileKeyInv, Bundling
  <2>2. CASE verifier.initialized
    <3>1. Multiple(verifier.lastSeq, Step) /\ Multiple(job.seq, Step)
      BY <2>1, <2>2 DEF FileKeyInv, KeyBlock
    <3>2. verifier.lastSeq \in Int /\ job.seq \in Int
      <4>1. job.seq \in Nat
        BY <1>0
      <4>. QED  BY <1>0, <4>1
    <3>3. verifier.lastSeq + Step <= job.seq
      BY <1>0, <2>1, <3>1, <3>2, MultipleGap
    <3>. QED  BY <1>0, <1>3, <1>5, <3>3
  <2>3. CASE ~verifier.initialized
    <3>1. verifier = NewMirror
      BY <2>3 DEF MirrorInv, SeedInv
    <3>. QED  BY <1>0, <1>3, <1>5, <3>1
  <2>. QED  BY <2>2, <2>3
<1>. QED
  BY <1>1, <1>2, <1>4, <1>5, VerifierEffect
     DEF MirrorInv, Next, Grow, ProverMoves, verifierVars, vars

-----------------------------------------------------------------------------
(* The driver. *)

(* The key block of an event has the event's block as a leaf. *)
LEMMA KeyBlockEncloses ==
  ASSUME NEW e \in Nat
  PROVE  Encloses(EventKeyBlock(e), e)
<1> DEFINE q == (e \div W) * W
<1>1. q <= e /\ e < q + W /\ q \in Nat
  BY ChainAssumption
<1>. HIDE DEF q
<1>2. EventKeyBlock(e) = q + W
  BY DEF EventKeyBlock, q
<1>. QED  BY <1>1, <1>2, ChainAssumption DEF Encloses

(* An anchor under which the event is proven. *)
Anchors(k) == k \in Blocks /\ Encloses(k, event) /\ Backed(k)

(* The run has an event, and from its witness on an anchor for it, unless a query
   has failed; that is what the proof in the file is about. *)
DriverInv ==
  /\ event \in Nat /\ eventFaults \in Nat
  /\ opc = "prove" /\ eventFaults = 0 => witness.valid
  /\ opc \in {"proveWrite", "await"} => witness.valid
  /\ opc \in {"prove", "proveWrite", "await"} /\ witness.valid => Anchors(witness.root)
  /\ opc = "await" => eventFile.root = witness.root

EventInv == MirrorInv /\ AnchorsBacked /\ DriverInv

LEMMA InitEvent == EventInit => EventInv
  BY InitMirror, InitAnchors DEF EventInit, DriverInv, EventInv

(* The witness builder finds the very root that encloses the event. *)
LEMMA BuildStep ==
  ASSUME EventInv, OBuild, Elsewhere, UNCHANGED eventFaults
  PROVE  DriverInv'
<1> DEFINE k == EventKeyBlock(event)
<1>1. PICK i \in Slots(k) :
        witness' = [root  |-> verifier.recent[1][i].hash[2],
                    valid |-> /\ verifier.recent[1][i].hash = <<1, k>>
                              /\ Encloses(k, event)]
  BY DEF OBuild
<1>2. i \in 1 .. Len(verifier.recent[1]) /\ verifier.recent[1][i].height = k
  <2>1. verifier.recent[1] \in Seq(Entry)
    BY MirrorTypes, ChainAssumption DEF EventInv, MirrorInv, BoundedMirror, Mirror, Layers
  <2>. QED  BY <2>1 DEF Slots
<1>3. verifier.recent[1][i].hash = <<1, k>> /\ k \in Blocks /\ Backed(k)
  BY <1>2 DEF EventInv, AnchorsBacked
<1>4. Encloses(k, event)
  BY KeyBlockEncloses DEF EventInv, DriverInv
<1>. HIDE DEF k
<1>5. witness'.root = k /\ witness'.valid
  BY <1>1, <1>3, <1>4
<1>6. opc' = "prove" /\ event' = event
  BY DEF OBuild
<1>7. Anchors(witness.root)'
  BY <1>3, <1>4, <1>5, <1>6
     DEF Elsewhere, vars, verifierVars, fileVars, Backed, Anchors, Encloses
<1>. QED
  BY <1>5, <1>6, <1>7 DEF EventInv, DriverInv

LEMMA DriverStays ==
  ASSUME EventInv, [Next]_vars, UNCHANGED <<opc, event, witness, eventFile, eventFaults>>
  PROVE  DriverInv'
<1>1. ASSUME NEW k, Anchors(k)
      PROVE  Anchors(k)'
  BY <1>1, BackedStays DEF EventInv, Anchors, Encloses
<1>. QED  BY <1>1 DEF EventInv, DriverInv

LEMMA DriverInvStep ==
  ASSUME EventInv, [EventNext]_allVars
  PROVE  DriverInv'
<1>0. [Next]_vars
  BY EventStepIsBridgeStep
<1>1. ASSUME NEW k, Elsewhere, event' = event, Anchors(k)
      PROVE  Anchors(k)'
  BY <1>1 DEF Elsewhere, vars, verifierVars, fileVars, Backed, Anchors, Encloses
<1>2. CASE UNCHANGED <<opc, event, witness, eventFile, eventFaults>>
  BY <1>0, <1>2, DriverStays
<1>3. CASE OBuild /\ Elsewhere /\ UNCHANGED eventFaults
  BY <1>3, BuildStep
<1>4. ASSUME NEW result, Exit(result), eventFaults' \in Nat
      PROVE  DriverInv'
  BY <1>4 DEF Exit, EventInv, DriverInv
<1>5. CASE OStart /\ UNCHANGED eventFaults
  BY <1>5 DEF OStart, EventInv, DriverInv
<1>6. CASE OTimeout /\ UNCHANGED eventFaults
  BY <1>4, <1>6 DEF OTimeout, EventInv, DriverInv
<1>7. CASE OFire /\ UNCHANGED eventFaults
  BY <1>7 DEF OFire, EventInv, DriverInv
<1>8. CASE UNCHANGED eventFaults /\ \E b \in Blocks : OCapture(b) \/ OCaptureWrongWindow(b)
  <2>1. CASE \E b \in Blocks : OCapture(b)
    BY <1>8, <2>1 DEF OCapture, Blocks, EventInv, DriverInv
  <2>2. CASE \E b \in Blocks : OCaptureWrongWindow(b)
    BY <1>4, <1>8, <2>2 DEF OCaptureWrongWindow, EventInv, DriverInv
  <2>. QED  BY <1>8, <2>1, <2>2
<1>9. CASE OStateReached /\ UNCHANGED eventFaults
  BY <1>9 DEF OStateReached, EventInv, DriverInv
<1>10. CASE (OBuildRolledOut \/ OProveFails \/ OVerdict) /\ UNCHANGED eventFaults
  BY <1>4, <1>10 DEF OBuildRolledOut, OProveFails, OVerdict, EventInv, DriverInv
<1>11. CASE (OProve \/ OProveEnd) /\ Elsewhere /\ UNCHANGED eventFaults
  <2>1. /\ opc \in {"prove", "proveWrite"} /\ opc' = "await" /\ UNCHANGED <<event, witness>>
        /\ eventFile'.root = witness.root /\ witness.valid
    BY <1>11 DEF OProve, OProveEnd, EventInv, DriverInv
  <2>2. Anchors(witness.root)'
    <3>1. Anchors(witness.root)
      BY <2>1 DEF EventInv, DriverInv
    <3>. QED
      BY <1>11, <2>1, <3>1 DEF Elsewhere, vars, verifierVars, fileVars, Backed, Anchors, Encloses
  <2>. QED  BY <1>11, <2>1, <2>2 DEF EventInv, DriverInv
<1>12. CASE OProveTear /\ EventFault /\ Elsewhere
  <2>1. /\ opc = "prove" /\ opc' = "proveWrite" /\ UNCHANGED <<event, witness>>
        /\ witness.valid /\ eventFaults' \in Nat
    BY <1>12 DEF OProveTear, EventFault, EventInv, DriverInv
  <2>2. Anchors(witness.root)'
    <3>1. Anchors(witness.root)
      BY <2>1 DEF EventInv, DriverInv
    <3>. QED
      BY <1>12, <2>1, <3>1 DEF Elsewhere, vars, verifierVars, fileVars, Backed, Anchors, Encloses
  <2>. QED  BY <2>1, <2>2 DEF EventInv, DriverInv
<1>13. CASE OBuildZeroRoot /\ EventFault
  BY <1>13 DEF OBuildZeroRoot, EventFault, EventInv, DriverInv
<1>14. CASE ODie /\ EventFault
  BY <1>4, <1>14 DEF ODie, EventFault, EventInv, DriverInv
<1>15. CASE BridgeStep \/ VEvent \/ VEventTear \/ UNCHANGED allVars
  BY <1>2, <1>15 DEF BridgeStep, VEvent, VEventTear, allVars, eventVars, driverVars
<1>. QED
  BY <1>3, <1>5, <1>6, <1>7, <1>8, <1>9, <1>10, <1>11, <1>12, <1>13, <1>14, <1>15
     DEF EventNext, DriverMoves, DriverStep, DriverFault

LEMMA EventInvStep == EventInv /\ [EventNext]_allVars => EventInv'
<1>. SUFFICES ASSUME EventInv, [EventNext]_allVars PROVE EventInv'
  OBVIOUS
<1>1. [Next]_vars
  BY EventStepIsBridgeStep
<1>. QED  BY <1>1, MirrorStep, AnchorsStep, DriverInvStep DEF EventInv

LEMMA EventInvariant == EventSpec => []EventInv
  BY InitEvent, EventInvStep, PTL DEF EventSpec

(* Without a failed query every witness proves, wherever the event has landed
   and whatever the verifier's window has been through. *)
THEOREM WitnessesProve == EventSpec => []WitnessProves
<1>1. EventInv => WitnessProves
  BY DEF EventInv, DriverInv, WitnessProves
<1>. QED  BY EventInvariant, <1>1, PTL

(* Success is reported only for an event under a key block that the verifier
   has accepted, or that is the seed. *)
THEOREM SuccessNeedsAcceptance == EventSpec => SuccessIsEarned
<1>1. ASSUME EventInv, [EventNext]_allVars, outcome # "accepted", outcome' = "accepted"
      PROVE  LET k == eventFile.root
             IN  Encloses(k, event) /\ (k = seedFile.seq \/ Accepted(results[k]))
  <2>1. OVerdict
    BY <1>1
       DEF EventNext, BridgeStep, OStart, OTimeout, DriverMoves, DriverStep, OFire, OCapture,
           OCaptureWrongWindow, OStateReached, OBuild, OBuildRolledOut, OProve, OProveEnd,
           OProveFails, DriverFault, OBuildZeroRoot, OProveTear, ODie, Exit, VEvent, VEventTear,
           allVars, eventVars, driverVars
  <2>2. opc = "await"
    BY <2>1 DEF OVerdict
  <2>. QED  BY <1>1, <2>2 DEF EventInv, DriverInv, Anchors, Backed
<1>2. EventInv /\ [EventNext]_allVars
        => [outcome # "accepted" /\ outcome' = "accepted" =>
              LET k == eventFile.root
              IN  Encloses(k, event) /\ (k = seedFile.seq \/ Accepted(results[k]))]_allVars
  BY <1>1
<1>. QED  BY EventInvariant, <1>2, PTL DEF EventSpec, SuccessIsEarned

-----------------------------------------------------------------------------
(* What a rejection means. *)

(* An event is proven under the key block whose tree it is in, the next one that
   is proven at all; the window had it when the witness was built.  That still
   holds of the proof in the file, whichever run has left it there. *)
RejectInv ==
  /\ opc \in {"state", "build", "prove", "proveWrite"}
       => EventKeyBlock(event) = ThinnedKeyBlock(event)
  /\ opc \in {"prove", "proveWrite"}
       => witness.root = ThinnedKeyBlock(event) /\ Kept(ThinnedKeyBlock(event))
  /\ eventFile.event \in Nat /\ eventResult.event \in Nat
  /\ eventFile.status = "whole" =>
       /\ eventFile.root = ThinnedKeyBlock(eventFile.event)
       /\ Kept(ThinnedKeyBlock(eventFile.event))
  /\ RejectedOnlyIfRolledOut

LEMMA InitReject == EventInit => RejectInv
  BY DEF EventInit, NoEventFile, NoEventResult, RejectedOnlyIfRolledOut, RejectInv

LEMMA ThinnedType ==
  ASSUME NEW e \in Nat
  PROVE  ThinnedKeyBlock(e) \in Nat
<1>1. e \div Step \in Nat /\ Step \in Nat \ {0}
  BY StepType, DivType
<1>. HIDE DEF Step
<1>2. (e \div Step) * Step \in Nat
  BY <1>1
<1>. QED  BY <1>1, <1>2 DEF ThinnedKeyBlock

(* The window at the time of the witness: the builder has found the key block. *)
LEMMA BuildKeeps ==
  ASSUME EventInv, RejectInv, OBuild \/ OBuildZeroRoot
  PROVE  witness'.root = ThinnedKeyBlock(event) /\ Kept(ThinnedKeyBlock(event))
<1> DEFINE k == EventKeyBlock(event)
<1>1. k = ThinnedKeyBlock(event)
  BY DEF OBuild, OBuildZeroRoot, RejectInv
<1>2. verifier.recent[1] \in Seq(Entry)
  BY MirrorTypes, ChainAssumption DEF EventInv, MirrorInv, BoundedMirror, Mirror, Layers
<1>. HIDE DEF k
<1>3. CASE OBuild
  <2>1. PICK i \in Slots(k) : witness'.root = verifier.recent[1][i].hash[2]
    BY <1>3 DEF OBuild, k
  <2>2. i \in 1 .. Len(verifier.recent[1]) /\ verifier.recent[1][i].height = k
    BY <1>2, <2>1 DEF Slots
  <2>3. verifier.recent[1][i].hash = <<1, k>>
    BY <2>2 DEF EventInv, AnchorsBacked
  <2>. QED  BY <1>1, <2>1, <2>2, <2>3 DEF Kept, InWindow
<1>4. CASE OBuildZeroRoot
  <2>1. witness'.root = k /\ Slots(k) # {}
    BY <1>4 DEF OBuildZeroRoot, k
  <2>2. PICK i \in 1 .. Len(verifier.recent[1]) : verifier.recent[1][i].height = k
    BY <1>2, <2>1 DEF Slots
  <2>. QED  BY <1>1, <2>1, <2>2 DEF Kept, InWindow
<1>. QED  BY <1>3, <1>4

(* The verifier's verdict: a root that the window still has is accepted. *)
LEMMA VerdictRejects ==
  ASSUME EventInv, RejectInv, VEvent
  PROVE  RejectedOnlyIfRolledOut'
<1>1. verifier' = verifier /\ eventResult' = EventVerdict
  BY DEF VEvent, vars, verifierVars
<1>2. CASE eventFile.status # "whole"
  BY <1>1, <1>2 DEF EventVerdict, RejectedOnlyIfRolledOut
<1>3. CASE eventFile.status = "whole"
  <2> DEFINE k == ThinnedKeyBlock(eventFile.event)
  <2>1. eventFile.root = k /\ Kept(k)
    BY <1>3 DEF RejectInv
  <2>2. /\ eventResult'.event = eventFile.event
        /\ eventResult'.verified = (<<1, k>> \in MirroredRoots)
    BY <1>1, <1>3, <2>1 DEF EventVerdict
  <2>. HIDE DEF k
  <2>3. CASE InWindow(verifier.recent[1], k)
    <3>1. PICK i \in 1 .. Len(verifier.recent[1]) : verifier.recent[1][i].height = k
      BY <2>3 DEF InWindow
    <3>2. verifier.recent[1][i].hash = <<1, k>>
      BY <3>1 DEF EventInv, AnchorsBacked
    <3>3. 1 \in Layers /\ i \in DOMAIN verifier.recent[1]
      BY MirrorTypes, ChainAssumption DEF EventInv, MirrorInv, BoundedMirror, Mirror, Layers
    <3>4. <<1, k>> \in MirroredRoots
      BY <3>2, <3>3 DEF MirroredRoots
    <3>. QED  BY <2>2, <3>4 DEF RejectedOnlyIfRolledOut
  <2>4. CASE RolledOut(k)
    <3>1. verifier'.lastSeq >= k + W * Step
      BY <1>1, <2>4 DEF RolledOut
    <3>2. ThinnedKeyBlock(eventResult'.event) = k
      BY <2>2 DEF k
    <3>3. verifier'.lastSeq >= ThinnedKeyBlock(eventResult'.event) + W * Step
      BY <3>1, <3>2
    <3>. QED  BY <3>3 DEF RejectedOnlyIfRolledOut, RolledOut
  <2>. QED  BY <2>1, <2>3, <2>4 DEF Kept
<1>. QED  BY <1>2, <1>3

(* As long as the driver and the event files rest, and when a run ends. *)
LEMMA RejectStays ==
  ASSUME EventInv, FileKeyInv, SpacedInv, RejectInv, [Next]_vars,
         UNCHANGED <<eventFile, eventResult>>,
         \/ UNCHANGED <<opc, event, witness>>
         \/ opc' \notin {"state", "build", "prove", "proveWrite"}
         \/ /\ opc' \in {"state", "build"} /\ event' \in Nat
            /\ EventKeyBlock(event') = ThinnedKeyBlock(event')
  PROVE  RejectInv'
<1>1. /\ \A k \in Nat : RolledOut(k) => RolledOut(k)'
      /\ \A k \in Nat : Kept(k) => Kept(k)'
  BY WindowStep DEF EventInv
<1>2. event \in Nat /\ eventFile.event \in Nat /\ eventResult.event \in Nat
  BY DEF EventInv, DriverInv, RejectInv
<1>3. RejectedOnlyIfRolledOut'
  <2>1. ThinnedKeyBlock(eventResult.event) \in Nat
    BY <1>2, ThinnedType
  <2>. QED  BY <1>1, <2>1 DEF RejectInv, RejectedOnlyIfRolledOut
<1>4. eventFile.status = "whole" => Kept(ThinnedKeyBlock(eventFile.event))'
  <2>1. ThinnedKeyBlock(eventFile.event) \in Nat
    BY <1>2, ThinnedType
  <2>. QED  BY <1>1, <2>1 DEF RejectInv
<1>5. /\ opc' \in {"state", "build", "prove", "proveWrite"}
           => EventKeyBlock(event') = ThinnedKeyBlock(event')
      /\ opc' \in {"prove", "proveWrite"}
           => witness'.root = ThinnedKeyBlock(event') /\ Kept(ThinnedKeyBlock(event))'
  <2>1. ThinnedKeyBlock(event) \in Nat
    BY <1>2, ThinnedType
  <2>. QED  BY <1>1, <2>1 DEF RejectInv
<1>. QED  BY <1>2, <1>3, <1>4, <1>5 DEF RejectInv

(* The steps that write a file or a witness. *)
LEMMA RejectWrites ==
  ASSUME EventInv, RejectInv, Elsewhere,
         OBuild \/ OBuildZeroRoot \/ OProve \/ OProveTear \/ OProveEnd
  PROVE  RejectInv'
<1>0. event \in Nat
  BY DEF EventInv, DriverInv
<1>1. /\ eventResult' = eventResult
      /\ \A k : RolledOut(k)' = RolledOut(k)
      /\ \A k : Kept(k) => Kept(k)'
  BY DEF Elsewhere, vars, verifierVars, RolledOut, Kept
<1>2. RejectedOnlyIfRolledOut'
  BY <1>1 DEF RejectInv, RejectedOnlyIfRolledOut
<1>3. CASE OBuild \/ OBuildZeroRoot
  <2>1. /\ opc = "build" /\ opc' = "prove" /\ UNCHANGED <<event, eventFile>>
        /\ witness'.root = ThinnedKeyBlock(event) /\ Kept(ThinnedKeyBlock(event))
    BY <1>3, BuildKeeps DEF OBuild, OBuildZeroRoot
  <2>. QED  BY <1>1, <1>2, <2>1 DEF RejectInv
<1>4. CASE OProve \/ OProveEnd
  <2>1. /\ opc \in {"prove", "proveWrite"} /\ opc' = "await" /\ event' = event
        /\ eventFile' = [status |-> "whole", event |-> event, root |-> witness.root]
    BY <1>4 DEF OProve, OProveEnd
  <2>. QED  BY <1>0, <1>1, <1>2, <2>1 DEF RejectInv
<1>5. CASE OProveTear
  <2>1. /\ opc = "prove" /\ opc' = "proveWrite" /\ UNCHANGED <<event, witness>>
        /\ eventFile' = TornEventFile
    BY <1>5 DEF OProveTear
  <2>. QED  BY <1>1, <1>2, <2>1 DEF RejectInv, TornEventFile
<1>. QED  BY <1>3, <1>4, <1>5

LEMMA RejectStep ==
  ASSUME EventInv, FileKeyInv, SpacedInv, RejectInv, [EventNext]_allVars
  PROVE  RejectInv'
<1>0. [Next]_vars
  BY EventStepIsBridgeStep
<1>1. CASE BridgeStep \/ UNCHANGED allVars
  BY <1>0, <1>1, RejectStays DEF BridgeStep, allVars, eventVars, driverVars
<1>2. CASE Elsewhere /\ (OStart \/ OTimeout \/ OFire \/ OVerdict \/ OBuildRolledOut
                         \/ OProveFails \/ ODie \/ \E b \in Blocks : OCaptureWrongWindow(b))
  <2>1. eventFile' = eventFile /\ opc' \in {"window", "capture", "idle"}
    BY <1>2 DEF OStart, OTimeout, OFire, OVerdict, OBuildRolledOut, OProveFails, ODie,
                OCaptureWrongWindow, Exit
  <2>. QED  BY <1>0, <1>2, <2>1, RejectStays DEF Elsewhere
<1>3. CASE Elsewhere /\ \E b \in Blocks : OCapture(b)
  <2>1. /\ eventFile' = eventFile /\ opc' = "state" /\ event' \in Nat
        /\ EventKeyBlock(event') = ThinnedKeyBlock(event')
    BY <1>3 DEF OCapture, Blocks
  <2>. QED  BY <1>0, <1>3, <2>1, RejectStays DEF Elsewhere
<1>4. CASE Elsewhere /\ OStateReached
  <2>1. /\ UNCHANGED <<eventFile, event, witness>> /\ opc = "state" /\ opc' = "build"
    BY <1>4 DEF OStateReached
  <2>2. event \in Nat /\ EventKeyBlock(event) = ThinnedKeyBlock(event)
    BY <2>1 DEF EventInv, DriverInv, RejectInv
  <2>. QED  BY <1>0, <1>4, <2>1, <2>2, RejectStays DEF Elsewhere
<1>5. CASE Elsewhere /\ (OBuild \/ OBuildZeroRoot \/ OProve \/ OProveTear \/ OProveEnd)
  BY <1>5, RejectWrites
<1>6. CASE VEvent
  <2>1. UNCHANGED <<driverVars, eventFile, vars>> /\ eventResult'.event \in Nat
    BY <1>6 DEF VEvent, EventVerdict, RejectInv
  <2>2. RejectedOnlyIfRolledOut'
    BY <1>6, VerdictRejects
  <2>3. \A k : Kept(k) => Kept(k)'
    BY <2>1 DEF vars, verifierVars, RolledOut, Kept
  <2>. QED  BY <2>1, <2>2, <2>3 DEF driverVars, RejectInv
<1>7. CASE VEventTear
  <2>1. UNCHANGED <<driverVars, eventFile>> /\ eventResult' = TornEventResult
        /\ verifier' = verifier
    BY <1>7 DEF VEventTear, VCrash
  <2>2. \A k : Kept(k) => Kept(k)'
    BY <2>1 DEF RolledOut, Kept
  <2>. QED
    BY <2>1, <2>2 DEF driverVars, TornEventResult, RejectedOnlyIfRolledOut, RejectInv
<1>. QED
  BY <1>1, <1>2, <1>3, <1>4, <1>5, <1>6, <1>7
     DEF EventNext, DriverMoves, DriverStep, DriverFault

(* A readable event proof is rejected only when W newer bundles have driven its
   key block out of the verifier's window, whatever crashes and however often the
   proof is checked again. *)
THEOREM RejectionIsFinal == EventSpec => []RejectedOnlyIfRolledOut
<1> DEFINE Inv == EventInv /\ KeyInv /\ FileKeyInv /\ SpacedInv /\ RejectInv
<1>1. EventInit => Inv
  BY InitEvent, InitReject, InitKey, InitFileKeys, InitSpaced DEF EventInit
<1>2. Inv /\ [EventNext]_allVars => Inv'
  <2>. SUFFICES ASSUME Inv, [EventNext]_allVars PROVE Inv'
    OBVIOUS
  <2>1. [Next]_vars
    BY EventStepIsBridgeStep
  <2>2. EventInv' /\ RejectInv'
    BY EventInvStep, RejectStep
  <2>3. KeyInv' /\ FileKeyInv'
    BY <2>1, KeyStep, FileKeysStep DEF EventInv, MirrorInv
  <2>4. SpacedInv'
    BY <2>1, WindowStep DEF EventInv
  <2>. QED  BY <2>2, <2>3, <2>4
<1>3. Inv => RejectedOnlyIfRolledOut
  BY DEF RejectInv
<1>. QED  BY <1>1, <1>2, <1>3, PTL DEF EventSpec
=============================================================================
