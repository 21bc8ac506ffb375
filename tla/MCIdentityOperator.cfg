\* Two specifications, one trouble of any kind at any moment.
SPECIFICATION Spec
CONSTANTS
  Obj <- MCObj
  Kind <- MCKind
  Intents <- Renamed
  FailureCap = 2
  MaxTroubles = 1
INVARIANTS TypeOK ReadyMeansApplied FinalizerGuards
 
\* After the deletion of the last configuration nothing is left to do.
CHECK_DEADLOCK FALSE
