\* The chain ends after MaxLog rotations, and the prover may refuse to start.
SPECIFICATION FairSpec
CONSTANTS
  k1 = k1
  k2 = k2
  NoKey = NoKey
  NoTable = NoTable
  Index <- MCIndex
  Key <- MCKey
  RowsMade <- MCRows
  FirstSets <- MCFirst
  Configs <- MCConfigs
  Page = 1
  Lookback = 2
  MaxLog = 3
  MaxFaults = 3
INVARIANTS TypeOK TableIsChainSet
PROPERTIES FollowsTheLog NoneSkipped BootstrapComplete CatchesUp
CHECK_DEADLOCK FALSE
