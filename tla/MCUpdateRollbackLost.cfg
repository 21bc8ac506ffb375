\* One edit and one failing call.
SPECIFICATION Spec
CONSTANTS
  Path = {1, 2, 3}
  Version = {v1, v2}
  Absent = Absent
  Missing = Missing
  Guarded = {2}
  Declarative = {1}
  EditPhases <- AllPhases
  MaxEdits = 1
  MaxCrashes = 0
  MaxFaults = 1
SYMMETRY Symmetry
INVARIANT AlwaysWhole
