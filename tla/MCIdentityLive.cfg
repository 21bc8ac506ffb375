\* One specification, one trouble, with fairness.
SPECIFICATION FairSpec
CONSTANTS
  Obj <- Few
  Kind <- FewKind
  Intents <- OneIntent
  FailureCap = 2
  MaxTroubles = 1
PROPERTIES OperatorSettles
\* After the deletion of the configuration nothing is left to do.
CHECK_DEADLOCK FALSE
