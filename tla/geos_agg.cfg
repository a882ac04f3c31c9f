\* Three rows merged by two threads, with failing merges and constant chunks.
SPECIFICATION Spec
CONSTANTS
  Threads = {t1, t2}
  Target = target
  Rows = {r1, r2, r3}
  Geometries = {g1, g2}
  Objects = {o1, o2, o3, o4}
  Null = null
  MergeMayFail = TRUE
  Constants = TRUE
SYMMETRY Symmetry
INVARIANTS
  EveryGeometryOwnedOnce
  ContentIsTheRowsHeld
