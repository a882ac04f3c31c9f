\* Columns of geometries through conversions and functions.
SPECIFICATION Spec
CONSTANTS
  InitialCapacity = 8
  Columns <- MCColumns
  Documents <- MCDocuments
  TestPoints <- MCTestPoints
  TakeSets <- MCTakeSets
  MaxCalls = 3
  MaxRows = 6
  Faults = {}
  FloatStep = 2
  FloatMax = 100
INVARIANTS
  BuffersAreFilled
  VisitorKeepsItsPlace
  BoxKeepsCandidates
  OverloadsAgree
  TextReadsBack
PROPERTIES
  ValuesAsPromised
CHECK_DEADLOCK FALSE
