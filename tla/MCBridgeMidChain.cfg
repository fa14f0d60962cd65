CONSTANTS
  W = 2
  P = 1
  MaxLayers = 3
  MaxChainLen = 11
  MaxSeq = 8
  Head0 = 2
  RotationBlocks = {1, 5}
  SetCount = 9
  FallbackBlocks = {}
  Signers <- MCSigners
  Commitment <- MCCommitment
  ZeroCommitment <- MCZero
  MaxFaults = 0
  BootstrapSeqno = 0
  SelfVerify = FALSE
  Timeouts = FALSE
  RecentBundlesCap = 2
SPECIFICATION FairSpec
PROPERTIES MidChainMirrored
CHECK_DEADLOCK FALSE
