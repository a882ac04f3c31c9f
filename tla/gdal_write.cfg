\* COPY to a GDAL layer: three threads, chunks of up to three rows.
SPECIFICATION CopySpec
CONSTANTS
  t1 = t1
  t2 = t2
  t3 = t3
  NoThread = NoThread
  NotAString = NotAString
  Null = Null
  Threads <- MCThreads
  Drivers <- MCDrivers
  Copies <- MCCopies
  HeaderSize = 2
  FeatureSize = 2
  Faults = {}
INVARIANTS
  FeaturesAreRows
  ChunksStayTogether
  FileIsComplete
PROPERTIES
  Termination
