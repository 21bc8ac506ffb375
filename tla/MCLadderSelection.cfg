CONSTANTS
  Version <- MCVersion
  Minor <- MCMinor
SPECIFICATION Spec
INVARIANT SelectionIsTarget
CHECK_DEADLOCK FALSE
