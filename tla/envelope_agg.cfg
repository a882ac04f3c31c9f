\* The envelope of three rows aggregated by two threads.
SPECIFICATION Spec
CONSTANTS
  Threads = {t1, t2}
  Target = target
  Nowhere = nowhere
  Rows = {r1, r2, r3}
  Tables <- MCTables
  Garbage <- MCGarbage
  FloatStep = 2
  FloatMax = 10
SYMMETRY Symmetry
INVARIANTS
  RowsCovered
  ResultIsTight
