CONSTANTS
  W = 4
  P = 2
  MaxLayers = 2
  MaxChainLen = 2
  MaxSeq = 34
  Head0 = 0
  RotationBlocks = {10, 11, 20, 30}
  SetCount = 9
  FallbackBlocks = {16}
  Signers <- MCSigners
  Commitment <- MCCommitment
  ZeroCommitment <- MCZero
  MaxFaults = 0
  BootstrapSeqno = 8
  SelfVerify = FALSE
  Timeouts = FALSE
  RecentBundlesCap = 2
SPECIFICATION FairSpec
INVARIANTS Lockstep LastSeenWasApplied CompleteMirrorChains
PROPERTIES CommitmentNeverRollsBack AllMirrored AllRotationsApplied
CHECK_DEADLOCK FALSE
