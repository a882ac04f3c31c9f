\* A constant chunk is not merged.
SPECIFICATION Spec
CONSTANTS
  Threads = {t1, t2}
  Target = target
  Rows = {r1, r2, r3}
  Geometries = {g1, g2}
  Objects = {o1, o2, o3, o4}
  Null = null
  MergeMayFail = FALSE
  Constants = TRUE
SYMMETRY Symmetry
INVARIANTS
  MergesEveryInput
