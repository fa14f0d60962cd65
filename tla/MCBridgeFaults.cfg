CONSTANTS
  W = 2
  P = 1
  MaxLayers = 3
  MaxChainLen = 11
  MaxSeq = 8
  Head0 = 1
  RotationBlocks = {3, 4, 7}
  SetCount = 2
  FallbackBlocks = {6}
  Signers <- MCSigners
  Commitment <- MCCommitment
  ZeroCommitment <- MCZero
  MaxFaults = 3
  BootstrapSeqno = 0
  SelfVerify = FALSE
  Timeouts = TRUE
  RecentBundlesCap = 2
SPECIFICATION FairSpec
INVARIANTS TypeOK TableAgrees RotationAcknowledged RotationLagBound LagBound MirrorsIncreasing CommitmentFromHistory MirrorIsBacked CompleteMirrorChains
PROPERTIES LostAckIsFinal ProverProgress
CHECK_DEADLOCK FALSE
