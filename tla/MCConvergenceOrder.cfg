SPECIFICATION Spec
CONSTANTS
  Version <- MCVersion
  Minor <- MCMinor
  Node = {n1, n2}
  MaxLadder = 2
  MaxFaults = 0
  MaxInterrupts = 0
  MaxDrifts = 0
  MaxRelapses = 0
INVARIANTS PlatformWhereSupported
