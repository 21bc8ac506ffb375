\* Crashes, a failing call and two edits at any moment of a transaction.
SPECIFICATION Spec
CONSTANTS
  Path = {1, 2}
  Version = {v1, v2}
  Absent = Absent
  Missing = Missing
  Guarded = {2}
  Declarative = {1}
  EditPhases <- AllPhases
  MaxEdits = 2
  MaxCrashes = 2
  MaxFaults = 1
SYMMETRY Symmetry
INVARIANTS SettledIsWhole PreparedIsRecoverable LoadsWholeState
PROPERTIES KeepsSeenEdits
