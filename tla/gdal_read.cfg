\* ST_Read from the names of the columns to the last chunk.
SPECIFICATION Spec
CONSTANTS
  t1 = t1
  t2 = t2
  t3 = t3
  null = null
  Null <- null
  Values = {0, 1, 2}
  Filters <- MCFilters
  Depth <- MCDepth
  MaxDepth = 2
  Names <- MCNames
  Lower <- MCLower
  Suffixed <- MCSuffixed
  Datasets <- MCDatasets
  Threads <- MCThreads
  VectorSize = 2
  STANDARD_VECTOR_SIZE = 2
  Listings <- MCListings
  Streams <- MCStreams
  Reads <- MCReads
INVARIANTS
  DistinctNames
  RenamedOnlyOnCollision
  PushdownSelectsTheSameRows
  BatchesAreOwned
  OrderPreserved
PROPERTIES
  Termination
  ListingIsWhole
