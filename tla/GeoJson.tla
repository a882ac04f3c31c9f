------------------------------- MODULE GeoJson -------------------------------
(***************************************************************************)
(* Geometries as GeoJSON (st_asgeojson.cpp).  A document is a record: the  *)
(* type, the coordinates nested as its arrays are, the geometries of a     *)
(* collection.  A position is a sequence of numbers, two or more.          *)
(***************************************************************************)
EXTENDS GeometrySerde

Document(type, coordinates, geometries) ==
  [type |-> type, coordinates |-> coordinates, geometries |-> geometries]

-----------------------------------------------------------------------------
(* ToGeoJSONFunctor.  M is not written.                                    *)
Positions(a) == [i \in DOMAIN a.at |-> SubSeq(a.at[i], 1, Dims(a.z, FALSE))]

PositionsOfAll(arrays) == [i \in DOMAIN arrays |-> Positions(arrays[i])]

(* The points of a multipoint stand in one array; an empty one is lost.    *)
RECURSIVE ToJson(_)
ToJson(g) ==
  LET firsts == [i \in DOMAIN g.items |-> g.items[i].arrays[1]]
  IN  CASE g.type = "POINT" -> Document(g.type, FlattenSeq(Positions(g.arrays[1])), <<>>)
        [] g.type = "LINESTRING" -> Document(g.type, Positions(g.arrays[1]), <<>>)
        [] g.type = "POLYGON" -> Document(g.type, PositionsOfAll(g.arrays), <<>>)
        [] g.type = "MULTIPOINT" -> Document(g.type, FlattenSeq(PositionsOfAll(firsts)), <<>>)
        [] g.type = "MULTILINESTRING" -> Document(g.type, PositionsOfAll(firsts), <<>>)
        [] g.type = "MULTIPOLYGON" ->
             Document(g.type, [i \in DOMAIN g.items |-> PositionsOfAll(g.items[i].arrays)], <<>>)
        [] OTHER -> Document(g.type, <<>>, [i \in DOMAIN g.items |-> ToJson(g.items[i])])

-----------------------------------------------------------------------------
(* The reader.  A position has a Z if it has a third number; an array has  *)
(* one if any of its positions has.                                        *)
AnyZ(positions) == \E i \in DOMAIN positions : Len(positions[i]) > 2

VerticesFromJson(positions) ==
  LET z == positions # <<>> /\ AnyZ(positions)
  IN  Array(z, FALSE, [i \in DOMAIN positions |->
        Revalued(positions[i], Len(positions[i]) > 2, FALSE, z, FALSE, 0, 0)])

(* An empty point takes the dimensions met so far.                         *)
PointFromJson(position, has_z) ==
  Simple("POINT", <<IF position = <<>> THEN EmptyArray(has_z, FALSE)
                    ELSE VerticesFromJson(<<position>>)>>)

LineFromJson(positions) == Simple("LINESTRING", <<VerticesFromJson(positions)>>)

PolygonFromJson(rings) ==
  Simple("POLYGON", [i \in DOMAIN rings |-> VerticesFromJson(rings[i])])

RECURSIVE MetZ(_)
MetZ(g) == \/ \E i \in DOMAIN g.arrays : g.arrays[i].z
           \/ \E i \in DOMAIN g.items : MetZ(g.items[i])

(* FromGeoJSON, with the dimensions met so far.                            *)
RECURSIVE FromJson(_, _)
FromJson(json, has_z) ==
  LET at == json.coordinates
      Each(Op(_)) == [i \in DOMAIN at |-> Op(at[i])]
      NextItem(items, inner) ==
        Append(items, FromJson(inner, has_z \/ MetZ(Multi("GEOMETRYCOLLECTION", items))))
  IN  CASE json.type = "POINT" -> PointFromJson(at, has_z)
        [] json.type = "LINESTRING" -> LineFromJson(at)
        [] json.type = "POLYGON" -> PolygonFromJson(at)
        [] json.type = "MULTIPOINT" ->
             Multi(json.type, Each(LAMBDA position : PointFromJson(position, has_z)))
        [] json.type = "MULTILINESTRING" -> Multi(json.type, Each(LineFromJson))
        [] json.type = "MULTIPOLYGON" -> Multi(json.type, Each(PolygonFromJson))
        [] OTHER -> Multi(json.type, FoldLeft(NextItem, <<>>, json.geometries))

(* What the reader throws on: a position of one number, and an empty one   *)
(* anywhere but as the coordinates of a point.                             *)
RECURSIVE Throws(_)
Throws(json) ==
  LET at == json.coordinates
      Bad(positions) == \E i \in DOMAIN positions : Len(positions[i]) < 2
  IN  CASE json.type = "POINT" -> Len(at) = 1
        [] json.type \in {"LINESTRING", "MULTIPOINT"} -> Bad(at)
        [] json.type \in {"POLYGON", "MULTILINESTRING"} -> \E i \in DOMAIN at : Bad(at[i])
        [] json.type = "MULTIPOLYGON" ->
             \E i \in DOMAIN at : \E j \in DOMAIN at[i] : Bad(at[i][j])
        [] OTHER -> \E i \in DOMAIN json.geometries : Throws(json.geometries[i])

(* One vertex type for all, if there is a Z anywhere.                      *)
BugEachAsItIs(g) == g

Unified(g) == IF MetZ(g) THEN Retyped(g, TRUE, FALSE) ELSE g

DeserializeJson(json) == Unified(FromJson(json, FALSE))

=============================================================================
