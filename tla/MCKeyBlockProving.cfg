\* The chain of key blocks ends after MaxBlock: the daemon then waits.
SPECIFICATION FairSpec
CONSTANTS
  SetSize = 5
  MaxBlock = 2
  MaxFaults = 2
  MaxLostWrites = 1
  Circuit <- MCCircuit
  Finality <- MCFinality
  Malformed <- MCMalformed
INVARIANTS TypeOK ConfigCommitsKeys SinglePk VerifiedIsFinal
PROPERTIES TornPkIsFinal AllProven
CHECK_DEADLOCK FALSE
