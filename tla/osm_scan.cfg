\* Whole, corrupt, truncated and foreign files scanned by three threads.
SPECIFICATION FairSpec
CONSTANTS
  Threads = {t1, t2, t3}
  Capacity = 2
  Prefix = 1
  DefaultGranularity = 100
  Files <- AllFiles
INVARIANTS
  TypeOK
  SuccessMeansComplete
  OnceAndInOrder
  DecodedWithOwnBlock
  BatchesAreOwned
  ShortChunkOnlyAtEnd
  ProgressIsSound
  ClaimsFollowTheFile
  FaultIsNeverSilent
PROPERTIES
  DeliversEveryRowOnce
  Termination
