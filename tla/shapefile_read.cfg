\* ST_ReadSHP from the names of the columns to the last record.
SPECIFICATION Spec
CONSTANTS
  Null = Null
  Damaged = Damaged
  RowId = 0
  VectorSize = 2
  Mantissa = 2
  Excess = 2
  Names <- MCNames
  Suffixed <- MCSuffixed
  GeometryName <- MCGeometryName
  Reads <- MCReads
INVARIANTS
  DistinctUnlessSuffixed
  RowsAreRecords
  CompleteWhenDone
  RingsKept
  TextDecoded
PROPERTIES
  Termination
