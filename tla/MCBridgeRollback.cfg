CONSTANTS
  W = 2
  P = 1
  MaxLayers = 3
  MaxChainLen = 11
  MaxSeq = 8
  Head0 = 2
  RotationBlocks = {3, 5}
  SetCount = 9
  FallbackBlocks = {}
  Signers <- MCSigners
  Commitment <- MCCommitment
  ZeroCommitment <- MCZero
  MaxFaults = 0
  BootstrapSeqno = 2
  SelfVerify = FALSE
  Timeouts = TRUE
  RecentBundlesCap = 2
SPECIFICATION Spec
PROPERTIES CommitmentNeverRollsBack
CHECK_DEADLOCK FALSE
