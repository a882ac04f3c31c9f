------------------------------ MODULE GeosSerde ------------------------------
(***************************************************************************)
(* Geometries handed to GEOS and taken back (geos_wrappers.cpp).  A GEOS   *)
(* geometry has the same record as one of the extension; what GEOS makes   *)
(* of a geometry without coordinates differs: it has no Z and no M, and an *)
(* empty polygon has a shell without coordinates.                          *)
(***************************************************************************)
EXTENDS GeometrySerde

Flat == EmptyArray(FALSE, FALSE)

(* GEOSDeserializer.                                                       *)
RECURSIVE ToGeos(_)
ToGeos(e) ==
  CASE e.type \in {"POINT", "LINESTRING"} ->
         Simple(e.type, <<IF e.count = 0 THEN Flat ELSE e.arrays[1]>>)
    [] e.type = "POLYGON" -> Simple("POLYGON", IF e.count = 0 THEN <<Flat>> ELSE e.arrays)
    [] OTHER -> Multi(e.type, [i \in DOMAIN e.items |-> ToGeos(e.items[i])])

(* What GEOS accepts: lines of two vertices or more, closed rings of four  *)
(* or more, no hole in an empty shell.                                     *)
Closed(a) == a.at = <<>> \/ (Len(a.at) >= 4 /\ a.at[1] = a.at[Len(a.at)])

RECURSIVE Accepted(_)
Accepted(g) ==
  /\ g.type = "LINESTRING" => Len(g.arrays[1].at) # 1
  /\ g.type = "POLYGON" => /\ \A i \in DOMAIN g.arrays : Closed(g.arrays[i])
                           /\ \A i \in DOMAIN g.arrays : g.arrays[i].at # <<>> \/ i = 1
                           /\ Len(g.arrays) > 1 => g.arrays[1].at # <<>>
  /\ \A i \in DOMAIN g.items : Accepted(g.items[i])

(* GEOSHasZ_r and GEOSHasM_r.                                              *)
RECURSIVE HasZ(_), HasM(_)
HasZ(g) == \/ \E i \in DOMAIN g.arrays : g.arrays[i].z
           \/ \E i \in DOMAIN g.items : HasZ(g.items[i])
HasM(g) == \/ \E i \in DOMAIN g.arrays : g.arrays[i].m
           \/ \E i \in DOMAIN g.items : HasM(g.items[i])

(* GetSerializedSize: an empty polygon is counted with the length of its   *)
(* shell and padding, which SerializePolygon does not write.               *)
RECURSIVE GeosSize(_)
GeosSize(g) ==
  8 + (IF g.type = "POLYGON" THEN RingLengthsSize(g) ELSE 0)
    + Total([i \in DOMAIN g.arrays |->
               8 * Len(g.arrays[i].at) * Dims(HasZ(g), HasM(g))])
    + Total([i \in DOMAIN g.items |-> GeosSize(g.items[i])])

(* SerializeCoordSeq, to the dimensions of the geometry it is part of.     *)
SeqWords(a, z, m) == ArrayWords(RetypedArray(a, z, m, NaN, NaN))

BugPaddingByHoles(num_holes) == IF num_holes % 2 = 1 THEN <<Uint(0)>> ELSE <<>>

RingPadding(num_holes) == IF (num_holes + 1) % 2 = 1 THEN <<Uint(0)>> ELSE <<>>

RECURSIVE GeosWords(_)
GeosWords(g) ==
  LET lengths == [i \in DOMAIN g.arrays |-> Uint(Len(g.arrays[i].at))]
      data == FlattenSeq([i \in DOMAIN g.arrays |-> SeqWords(g.arrays[i], HasZ(g), HasM(g))])
  IN  <<Uint(TypeId(g.type))>> \o
      CASE IsCollection(g.type) ->
             <<Uint(Len(g.items))>>
               \o FlattenSeq([i \in DOMAIN g.items |-> GeosWords(g.items[i])])
        [] ~IsCollection(g.type) /\ IsEmpty(g) -> <<Uint(0)>>
        [] g.type \in {"POINT", "LINESTRING"} /\ ~IsEmpty(g) -> lengths \o data
        [] g.type = "POLYGON" /\ ~IsEmpty(g) ->
             <<Uint(Len(g.arrays))>> \o lengths \o RingPadding(Len(g.arrays) - 1) \o data

(* GEOSGeom_getExtent_r, which knows X and Y of every vertex.              *)
RECURSIVE Extent(_, _)
Extent(bbox, g) == FoldLeft(Extent, FoldLeft(Bounded, bbox, g.arrays), g.items)

(* GetExtendedExtent: of a sequence of more than two vertices, and only of *)
(* its first one, Z and M.                                                 *)
Extended(b, a) ==
  IF Len(a.at) <= 2 THEN b ELSE Bounded(b, Array(a.z, a.m, SubSeq(a.at, 1, 1)))

RECURSIVE ExtendedExtent(_, _)
ExtendedExtent(bbox, g) ==
  FoldLeft(ExtendedExtent, FoldLeft(Extended, bbox, g.arrays), g.items)

GeosBounds(g) ==
  LET xy == Extent(NoBounds, g)
      zm == ExtendedExtent(NoBounds, g)
      Merge(a, b) == [d \in DOMAIN a |-> IF d \in {"x", "y"} THEN a[d] ELSE b[d]]
  IN  [min |-> Merge(xy.min, zm.min), max |-> Merge(xy.max, zm.max)]

(* SerializeGEOSGeometry.                                                  *)
SerializeGeos(g) ==
  <<Header(g.type, HasZ(g), HasM(g), HasBox(g)), Uint(0)>>
    \o (IF HasBox(g) THEN BoxOf(GeosBounds(g), HasZ(g), HasM(g)) ELSE <<>>)
    \o GeosWords(g)

GeosBlobSize(g) ==
  4 + 4 + (IF HasBox(g) THEN 4 * 2 * Dims(HasZ(g), HasM(g)) ELSE 0) + GeosSize(g)

=============================================================================
