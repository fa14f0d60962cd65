CONSTANTS
  W = 2
  P = 1
  MaxLayers = 3
  MaxChainLen = 11
  MaxSeq = 6
  Head0 = 2
  RotationBlocks = {4}
  SetCount = 9
  FallbackBlocks = {}
  Signers <- MCSigners
  Commitment <- MCCommitment
  ZeroCommitment <- MCZero
  MaxFaults = 0
  BootstrapSeqno = 2
  SelfVerify = FALSE
  Timeouts = FALSE
  RecentBundlesCap = 2
SPECIFICATION Spec
INVARIANTS RotationKeyBlockApplied
CHECK_DEADLOCK FALSE
