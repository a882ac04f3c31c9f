---------------------------- MODULE GeometrySerde ----------------------------
(***************************************************************************)
(* Geometries serialized into blobs and read back (geometry_factory.cpp).  *)
(***************************************************************************)
EXTENDS GeometryProcessor, SinglePrecision

(* An array of as many elements as the sequence of sequences holds.        *)
Total(counts) == FoldLeft(+, 0, counts)

(* GetSerializedSize, in bytes.                                            *)
ByteSize(a) == 8 * Len(a.at) * Dims(a.z, a.m)

BugPaddingForEvenCounts(g) ==
  4 * Len(g.arrays) + 4 * ((Len(g.arrays) + 1) % 2)

RingLengthsSize(g) == 4 * Len(g.arrays) + 4 * (Len(g.arrays) % 2)

RECURSIVE SerializedSize(_)
SerializedSize(g) ==
  8 + (IF g.type = "POLYGON" THEN RingLengthsSize(g) ELSE 0)
    + Total([i \in DOMAIN g.arrays |-> ByteSize(g.arrays[i])])
    + Total([i \in DOMAIN g.items |-> SerializedSize(g.items[i])])

(* SerializePoint, SerializePolygon, ...: the words of a geometry.         *)
ArrayWords(a) == FlattenSeq([i \in DOMAIN a.at |->
                   FlattenSeq([d \in DOMAIN a.at[i] |-> Double(a.at[i][d])])])

Count(g) ==
  CASE g.type \in {"POINT", "LINESTRING"} -> Len(g.arrays[1].at)
    [] g.type = "POLYGON" -> Len(g.arrays)
    [] OTHER -> Len(g.items)

RingLengths(g) ==
  [i \in DOMAIN g.arrays |-> Uint(Len(g.arrays[i].at))]
    \o (IF Len(g.arrays) % 2 = 1 THEN <<Uint(0)>> ELSE <<>>)

RECURSIVE Words(_)
Words(g) ==
  <<Uint(TypeId(g.type)), Uint(Count(g))>>
    \o (IF g.type = "POLYGON" THEN RingLengths(g) ELSE <<>>)
    \o FlattenSeq([i \in DOMAIN g.arrays |-> ArrayWords(g.arrays[i])])
    \o FlattenSeq([i \in DOMAIN g.items |-> Words(g.items[i])])

(* SerializeVertexArray with update_bounds: the box grows with each        *)
(* vertex.  Of a polygon only the shell counts.                            *)
Largest == 9000

NoBounds == [min |-> [d \in {"x", "y", "z", "m"} |-> Largest],
             max |-> [d \in {"x", "y", "z", "m"} |-> -Largest]]

(* The ordinates of a vertex, by name.                                     *)
Named(v, z, m) ==
  [d \in {"x", "y"} \cup (IF z THEN {"z"} ELSE {}) \cup (IF m THEN {"m"} ELSE {}) |->
     CASE d = "x" -> v[1] [] d = "y" -> v[2] [] d = "z" -> v[3] [] d = "m" -> v[Len(v)]]

Bounded(bbox, a) ==
  LET Grow(b, v) ==
        LET n == Named(v, a.z, a.m)
        IN  [min |-> [d \in DOMAIN b.min |->
                        IF d \in DOMAIN n THEN StdMin(b.min[d], n[d]) ELSE b.min[d]],
             max |-> [d \in DOMAIN b.max |->
                        IF d \in DOMAIN n THEN StdMax(b.max[d], n[d]) ELSE b.max[d]]]
  IN  FoldLeft(Grow, bbox, a.at)

BugLastRing(g) == SubSeq(g.arrays, Max({1, Len(g.arrays)}), Len(g.arrays))

BoundedBy(g) == SubSeq(g.arrays, 1, Min({1, Len(g.arrays)}))

RECURSIVE Bounds(_, _)
Bounds(bbox, g) ==
  FoldLeft(Bounds, FoldLeft(Bounded, bbox, BoundedBy(g)), g.items)

BoxOf(b, z, m) ==
  <<Float(Down(b.min["x"])), Float(Down(b.min["y"])),
    Float(Up(b.max["x"])), Float(Up(b.max["y"]))>>
    \o (IF z THEN <<Float(Down(b.min["z"])), Float(Up(b.max["z"]))>> ELSE <<>>)
    \o (IF m THEN <<Float(Down(b.min["m"])), Float(Up(b.max["m"]))>> ELSE <<>>)

(* Serialize, and the size of the blob it allocates.                       *)
HasBox(g) == g.type # "POINT" /\ ~IsEmpty(g)

Serialize(g, z, m) ==
  <<Header(g.type, z, m, HasBox(g)), Uint(0)>>
    \o (IF HasBox(g) THEN BoxOf(Bounds(NoBounds, g), z, m) ELSE <<>>)
    \o Words(g)

BlobSize(g, z, m) ==
  4 + 4 + (IF HasBox(g) THEN 4 * 2 * Dims(z, m) ELSE 0) + SerializedSize(g)

-----------------------------------------------------------------------------
(* GeometryDeserializer.                                                   *)
RECURSIVE Deserialized(_)
Deserialized(e) ==
  CASE e.type = "POINT" ->
         Simple("POINT", <<IF e.count = 0 THEN EmptyArray(e.z, e.m) ELSE e.arrays[1]>>)
    [] e.type \in {"LINESTRING", "POLYGON"} -> Simple(e.type, e.arrays)
    [] OTHER -> Multi(e.type, [i \in DOMAIN e.items |-> Deserialized(e.items[i])])

Deserialize(words) == Deserialized(Process(words, Everything))

(* TryGetSerializedBoundingBox: the box of the header, or the coordinates  *)
(* of a point.                                                             *)
BoundingBox(x1, y1, x2, y2) == [minx |-> x1, miny |-> y1, maxx |-> x2, maxy |-> y2]

TryGetBox(words) ==
  LET header == words[1].v
      F(i)   == At(words, i, "float")
      x == ReadDouble(words, 5)
      y == ReadDouble(words, 7)
  IN  CASE header.box -> {BoundingBox(F(3), F(4), F(5), F(6))}
        [] ~header.box /\ header.type = "POINT" /\ ReadUint(words, 4) # 0 ->
             {BoundingBox(x, y, x, y)}
        [] OTHER -> {}

Intersects(a, b) ==
  ~(a.minx > b.maxx \/ a.maxx < b.minx \/ a.miny > b.maxy \/ a.maxy < b.miny)

=============================================================================
