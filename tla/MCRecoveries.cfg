\* A climb with an interrupted Kubespray, another operator and a platform that
\* relapses; reruns, retries and pulls on the instances the module names.
SPECIFICATION MCSpec
CONSTANTS
  Version <- MCVersion
  Minor <- MCMinor
  Node = {n1, n2}
  MaxLadder = 3
  MaxFaults = 0
  MaxInterrupts = 1
  MaxDrifts = 1
  MaxRelapses = 1
  Missing = Missing
  NoFile = NoFile
  v1 = v1
  v2 = v2
INVARIANTS SkewBounded
PROPERTIES OneStepUp DoneMeansConverged NoLateRefusal ImplementsAtomicUpdate RerunsRecover
  PullsKeepTheLadder
\* Once the newest release runs, nothing is left to do.
CHECK_DEADLOCK FALSE
