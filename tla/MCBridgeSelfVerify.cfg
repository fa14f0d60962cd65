CONSTANTS
  W = 2
  P = 1
  MaxLayers = 3
  MaxChainLen = 11
  MaxSeq = 10
  Head0 = 1
  RotationBlocks = {3, 4, 7}
  SetCount = 9
  FallbackBlocks = {6}
  Signers <- MCSigners
  Commitment <- MCCommitment
  ZeroCommitment <- MCZero
  MaxFaults = 3
  BootstrapSeqno = 2
  SelfVerify = TRUE
  Timeouts = FALSE
  RecentBundlesCap = 2
SPECIFICATION Spec
INVARIANTS MirrorIsBacked
PROPERTIES SkipIsFatal
CHECK_DEADLOCK FALSE
