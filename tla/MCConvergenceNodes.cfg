SPECIFICATION Spec
CONSTANTS
  Version <- MCVersion
  Minor <- MCMinor
  Node = {n1, n2}
  MaxLadder = 1
  MaxFaults = 0
  MaxInterrupts = 1
  MaxDrifts = 0
  MaxRelapses = 0
PROPERTIES DoneMeansAllNodes
