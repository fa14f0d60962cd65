CONSTANTS
  W = 2
  P = 2
  MaxLayers = 1
  MaxChainLen = 11
  MaxSeq = 16
  Head0 = 6
  RotationBlocks = {}
  SetCount = 9
  FallbackBlocks = {}
  Signers <- MCSigners
  Commitment <- MCCommitment
  ZeroCommitment <- MCZero
  MaxFaults = 1
  BootstrapSeqno = 4
  SelfVerify = FALSE
  Timeouts = FALSE
  RecentBundlesCap = 2
  MaxRuns = 1
SPECIFICATION EventFairSpec
INVARIANTS RejectedOnlyIfRolledOut WitnessProves
PROPERTIES SuccessIsEarned EventDelivered EventAnswered
CHECK_DEADLOCK FALSE
