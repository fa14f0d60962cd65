CONSTANTS
  W = 2
  P = 1
  MaxLayers = 2
  MaxChainLen = 11
  MaxSeq = 8
  Head0 = 4
  RotationBlocks = {}
  SetCount = 9
  FallbackBlocks = {}
  Signers <- MCSigners
  Commitment <- MCCommitment
  ZeroCommitment <- MCZero
  MaxFaults = 0
  BootstrapSeqno = 0
  SelfVerify = FALSE
  Timeouts = FALSE
  RecentBundlesCap = 2
SPECIFICATION Spec
INVARIANTS ClimbsLayers
CHECK_DEADLOCK FALSE
