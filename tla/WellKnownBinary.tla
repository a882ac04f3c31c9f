--------------------------- MODULE WellKnownBinary ---------------------------
(***************************************************************************)
(* Reading and writing WKB (wkb_reader.cpp, wkb_writer.cpp).  A buffer is  *)
(* a sequence of cells: a byte order, a type, a count, a double, each with *)
(* the order it was written in (1 is little endian).                       *)
(***************************************************************************)
EXTENDS GeometrySerde

Byte(v)        == [k |-> "byte", v |-> v, le |-> TRUE]
TypeCell(v, le)  == [k |-> "type", v |-> v, le |-> le]
CountCell(v, le) == [k |-> "count", v |-> v, le |-> le]
Real(v, le)    == [k |-> "real", v |-> v, le |-> le]

(* What a type says: its number, the dimensions of EWKB, a spatial         *)
(* reference that follows.                                                 *)
TypeWord(id, z, m, srid) == [id |-> id, z |-> z, m |-> m, srid |-> srid]

CellBytes(c) == CASE c.k = "byte" -> 1 [] c.k = "real" -> 8 [] OTHER -> 4

-----------------------------------------------------------------------------
(* WKBSizeCalculator.                                                      *)
RECURSIVE WkbSize(_)
WkbSize(e) ==
  LET vertices == Total([i \in DOMAIN e.arrays |-> ByteSize(e.arrays[i])])
  IN  CASE e.type = "POINT" -> 1 + 4 + 8 * Dims(e.z, e.m)
        [] e.type = "LINESTRING" -> 1 + 4 + 4 + vertices
        [] e.type = "POLYGON" -> 1 + 4 + 4 + 4 * Len(e.arrays) + vertices
        [] OTHER -> 1 + 4 + 4 + Total([i \in DOMAIN e.items |-> WkbSize(e.items[i])])

(* WKBSerializer: always little endian, the dimensions as in ISO, an empty *)
(* point as NaN.                                                           *)
WkbHeader(e) ==
  <<Byte(1), TypeCell(TypeWord(TypeId(e.type) + 1 + (IF e.z THEN 1000 ELSE 0)
                                               + (IF e.m THEN 2000 ELSE 0),
                               FALSE, FALSE, FALSE), TRUE)>>

Reals(a) == FlattenSeq([i \in DOMAIN a.at |->
              [d \in DOMAIN a.at[i] |-> Real(a.at[i][d], TRUE)]])

RECURSIVE Wkb(_)
Wkb(e) ==
  WkbHeader(e) \o
  CASE e.type = "POINT" /\ e.count = 0 -> [d \in 1..Dims(e.z, e.m) |-> Real(NaN, TRUE)]
    [] e.type = "POINT" /\ e.count # 0 -> Reals(e.arrays[1])
    [] e.type = "LINESTRING" -> <<CountCell(e.count, TRUE)>> \o Reals(e.arrays[1])
    [] e.type = "POLYGON" ->
         <<CountCell(e.count, TRUE)>> \o FlattenSeq([i \in DOMAIN e.arrays |->
            <<CountCell(Len(e.arrays[i].at), TRUE)>> \o Reals(e.arrays[i])])
    [] OTHER -> <<CountCell(e.count, TRUE)>>
                  \o FlattenSeq([i \in DOMAIN e.items |-> Wkb(e.items[i])])

-----------------------------------------------------------------------------
(* The reader.  What it reads of a double that is not little endian is not *)
(* that double: ReadDouble moves four of the eight bytes, and the vertices *)
(* of lines and rings are copied as they stand.                            *)
Mangled == 7777

RealAt(cells, i) == IF cells[i].le THEN cells[i].v ELSE Mangled

(* ReadType: st has the cursor and the dimensions met so far.              *)
IsoZ(id) == id \div 1000 \in {1, 3}
IsoM(id) == id \div 1000 \in {2, 3}

ReadType(cells, st) ==
  LET word == cells[st.at].v
      z == IsoZ(word.id) \/ word.z
      m == IsoM(word.id) \/ word.m
  IN  [type |-> Types[word.id % 1000], z |-> z, m |-> m,
       st |-> [at |-> st.at + (IF word.srid THEN 2 ELSE 1),
               any_z |-> st.any_z \/ z, any_m |-> st.any_m \/ m]]

ReadVertex(cells, i, z, m) == [d \in 1..Dims(z, m) |-> RealAt(cells, i + d - 1)]

(* VertexArray::Copy of count vertices, and the cursor behind them.        *)
ReadArray(cells, st, z, m) ==
  LET count == cells[st.at].v
  IN  [array |-> Array(z, m, [n \in 1..count |->
                   ReadVertex(cells, st.at + 1 + (n - 1) * Dims(z, m), z, m)]),
       st |-> [st EXCEPT !.at = @ + 1 + count * Dims(z, m)]]

(* ReadPoint: without a coordinate that is a number there is no point.     *)
ReadPoint(cells, st, z, m) ==
  LET v == ReadVertex(cells, st.at, z, m)
      empty == \A d \in DOMAIN v : v[d] = NaN
  IN  [g  |-> Simple("POINT", <<IF empty THEN EmptyArray(z, m) ELSE Array(z, m, <<v>>)>>),
       st |-> [st EXCEPT !.at = @ + Dims(z, m)]]

ReadRings(cells, st, z, m) ==
  LET NextRing(r, i) == LET ring == ReadArray(cells, r.st, z, m)
                        IN  [arrays |-> Append(r.arrays, ring.array), st |-> ring.st]
      all == FoldLeft(NextRing, [arrays |-> <<>>, st |-> [st EXCEPT !.at = @ + 1]],
                      [i \in 1..cells[st.at].v |-> i])
  IN  [g |-> Simple("POLYGON", all.arrays), st |-> all.st]

(* ReadGeometry.  The items of a multi-geometry are read the same way,     *)
(* their type being taken for granted.                                     *)
RECURSIVE ReadWkb(_, _)
ReadWkb(cells, before) ==
  LET head == ReadType(cells, [before EXCEPT !.at = @ + 1])
      st   == head.st
      line == ReadArray(cells, st, head.z, head.m)
      NextItem(r, i) == LET item == ReadWkb(cells, r.st)
                        IN  [items |-> Append(r.items, item.g), st |-> item.st]
      all  == FoldLeft(NextItem, [items |-> <<>>, st |-> [st EXCEPT !.at = @ + 1]],
                       [i \in 1..cells[st.at].v |-> i])
  IN  CASE head.type = "POINT" -> ReadPoint(cells, st, head.z, head.m)
        [] head.type = "LINESTRING" ->
             [g |-> Simple("LINESTRING", <<line.array>>), st |-> line.st]
        [] head.type = "POLYGON" -> ReadRings(cells, st, head.z, head.m)
        [] OTHER -> [g |-> Multi(head.type, all.items), st |-> all.st]

(* WKBReader::Deserialize: one vertex type for all, once it is known.      *)
DeserializeWkb(cells) ==
  LET read == ReadWkb(cells, [at |-> 1, any_z |-> FALSE, any_m |-> FALSE])
  IN  [g |-> Retyped(read.g, read.st.any_z, read.st.any_m), raw |-> read.g,
       z |-> read.st.any_z, m |-> read.st.any_m, at |-> read.st.at]

=============================================================================
