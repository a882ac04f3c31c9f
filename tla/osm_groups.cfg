\* Blocks of several groups lose rows.
SPECIFICATION Spec
CONSTANTS
  Threads = {t1, t2}
  Capacity = 2
  Prefix = 1
  DefaultGranularity = 100
  Files <- TwoGroupFiles
INVARIANTS
  OutputsTheRawData
