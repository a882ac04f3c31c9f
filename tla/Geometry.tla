------------------------------ MODULE Geometry ------------------------------
(***************************************************************************)
(* Geometries in memory (geometry.hpp): a point or a linestring is one     *)
(* array of vertices, a polygon the sequence of its rings, a collection    *)
(* the sequence of its items.  All have one record here, so that what the  *)
(* code repeats for each class is said once.                               *)
(*                                                                         *)
(* An array knows whether its vertices have Z and M.  A vertex is the      *)
(* sequence of its ordinates in the order in which they lie in memory: X   *)
(* and Y, then Z, then M.  How arrays share words is the subject of        *)
(* VertexArray; here they are values, as VertexValues promises.            *)
(***************************************************************************)
EXTENDS Integers, Sequences, SequencesExt, FiniteSetsExt

(* GeometryType, in the order of the enumeration, which begins with 0.     *)
Types == <<"POINT", "LINESTRING", "POLYGON", "MULTIPOINT", "MULTILINESTRING",
           "MULTIPOLYGON", "GEOMETRYCOLLECTION">>

TypeId(type) == (CHOOSE i \in DOMAIN Types : Types[i] = type) - 1

Array(z, m, at) == [z |-> z, m |-> m, at |-> at]

EmptyArray(z, m) == Array(z, m, <<>>)

Dims(z, m) == 2 + (IF z THEN 1 ELSE 0) + (IF m THEN 1 ELSE 0)

(* A geometry without items, and one without arrays.                       *)
Simple(type, arrays) == [type |-> type, arrays |-> arrays, items |-> <<>>]
Multi(type, items)   == [type |-> type, arrays |-> <<>>, items |-> items]

IsMulti(type) == type \in {"MULTIPOINT", "MULTILINESTRING", "MULTIPOLYGON"}

IsCollection(type) == IsMulti(type) \/ type = "GEOMETRYCOLLECTION"

(* The type of the items of a multi-geometry.                              *)
ItemType(type) ==
  CASE type = "MULTIPOINT" -> "POINT"
    [] type = "MULTILINESTRING" -> "LINESTRING"
    [] type = "MULTIPOLYGON" -> "POLYGON"

-----------------------------------------------------------------------------
(* The arithmetic of doubles that matters here: comparisons with NaN are   *)
(* false, so that std::min and std::max keep their first argument when the *)
(* second is NaN.                                                          *)
NaN == 9999

Less(a, b) == a # NaN /\ b # NaN /\ a < b

StdMin(a, b) == IF Less(b, a) THEN b ELSE a
StdMax(a, b) == IF Less(a, b) THEN b ELSE a

-----------------------------------------------------------------------------
RECURSIVE IsEmpty(_)
IsEmpty(g) ==
  /\ \A i \in DOMAIN g.arrays : g.arrays[i].at = <<>>
  /\ \A i \in DOMAIN g.items : IsEmpty(g.items[i])

RECURSIVE Dimension(_)
Dimension(g) ==
  CASE g.type \in {"POINT", "MULTIPOINT"} -> 0
    [] g.type \in {"LINESTRING", "MULTILINESTRING"} -> 1
    [] g.type \in {"POLYGON", "MULTIPOLYGON"} -> 2
    [] OTHER -> Max({0} \cup {Dimension(g.items[i]) : i \in DOMAIN g.items})

(* The items of a collection and of the collections in it: the order in    *)
(* which GeometryCollection::Aggregate meets them.                         *)
RECURSIVE Leaves(_)
Leaves(g) ==
  IF g.type # "GEOMETRYCOLLECTION" THEN <<g>>
  ELSE FlattenSeq([i \in DOMAIN g.items |-> Leaves(g.items[i])])

(* The words of a vertex of one type as those of another: a dimension both *)
(* have keeps its value, any other is given the default.                   *)
BugMTakenFromZ(v, z, m, to_z, to_m, default_z, default_m) ==
  SubSeq(v, 1, 2)
    \o (IF ~to_z THEN <<>> ELSE IF z THEN <<v[3]>> ELSE <<default_z>>)
    \o (IF ~to_m THEN <<>> ELSE IF m THEN <<v[3]>> ELSE <<default_m>>)

Revalued(v, z, m, to_z, to_m, default_z, default_m) ==
  SubSeq(v, 1, 2)
    \o (IF ~to_z THEN <<>> ELSE IF z THEN <<v[3]>> ELSE <<default_z>>)
    \o (IF ~to_m THEN <<>> ELSE IF m THEN <<v[Len(v)]>> ELSE <<default_m>>)

RetypedArray(a, z, m, default_z, default_m) ==
  Array(z, m, [i \in DOMAIN a.at |->
                 Revalued(a.at[i], a.z, a.m, z, m, default_z, default_m)])

(* Geometry::SetVertexType.                                                *)
RECURSIVE Retyped(_, _, _)
Retyped(g, z, m) ==
  [g EXCEPT !.arrays = [i \in DOMAIN @ |-> RetypedArray(@[i], z, m, 0, 0)],
            !.items  = [i \in DOMAIN @ |-> Retyped(@[i], z, m)]]

(* An array without vertices cannot be widened: the loop over its vertices *)
(* would start at 2^32 - 1 (StartsOutside in VertexArray).                 *)
RECURSIVE Widens(_, _, _)
Widens(g, z, m) ==
  \/ \E i \in DOMAIN g.arrays :
       g.arrays[i].at = <<>> /\ Dims(z, m) > Dims(g.arrays[i].z, g.arrays[i].m)
  \/ \E i \in DOMAIN g.items : Widens(g.items[i], z, m)

(* Every array of a geometry has the vertex type z, m: what the header of  *)
(* its serialized form will say of all of them.                            *)
RECURSIVE Uniform(_, _, _)
Uniform(g, z, m) ==
  /\ \A i \in DOMAIN g.arrays :
       /\ g.arrays[i].z = z /\ g.arrays[i].m = m
       /\ \A j \in DOMAIN g.arrays[i].at : Len(g.arrays[i].at[j]) = Dims(z, m)
  /\ \A i \in DOMAIN g.items : Uniform(g.items[i], z, m)

(* The classes are closed under construction: a multi-geometry holds items *)
(* of its type only, a point has at most one vertex.                       *)
RECURSIVE WellFormed(_)
WellFormed(g) ==
  /\ IsCollection(g.type) => g.arrays = <<>>
  /\ ~IsCollection(g.type) => g.items = <<>>
  /\ g.type \in {"POINT", "LINESTRING"} => Len(g.arrays) = 1
  /\ g.type = "POINT" => Len(g.arrays[1].at) <= 1
  /\ IsMulti(g.type) => \A i \in DOMAIN g.items : g.items[i].type = ItemType(g.type)
  /\ \A i \in DOMAIN g.items : WellFormed(g.items[i])

=============================================================================
