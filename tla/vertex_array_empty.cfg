\* SetVertexType of an empty array.
SPECIFICATION Spec
CONSTANTS
  Arrays = {a1, a2}
  Blobs <- MCBlobs
  Zero <- MCZero
  DefaultZ <- MCDefaultZ
  DefaultM <- MCDefaultM
  Junk <- MCJunk
  UintRange = 100
  MaxVertices = 2
  MaxOperations = 4
  ArenaSize = 22
INVARIANT VertexTypeUnified
