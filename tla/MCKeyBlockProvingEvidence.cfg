\* The chain of key blocks ends after MaxBlock: the daemon then waits.
SPECIFICATION Spec
CONSTANTS
  SetSize = 5
  MaxBlock = 1
  MaxFaults = 0
  MaxLostWrites = 0
  Circuit <- MCCircuit
  Finality <- MCRepeatedFallback
  Malformed <- MCMalformed
INVARIANTS EvidenceAsPromised
CHECK_DEADLOCK FALSE
