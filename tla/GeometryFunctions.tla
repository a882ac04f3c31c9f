-------------------------- MODULE GeometryFunctions --------------------------
(***************************************************************************)
(* Scalar functions on serialized geometries (core/functions/scalar).      *)
(* Each takes blobs and returns a blob, a number or a truth value; a       *)
(* result that may be NULL is a set of at most one.  Lengths are rounded   *)
(* down to whole numbers, areas are doubled.                               *)
(***************************************************************************)
EXTENDS GeometrySerde

HasZM(words) == <<words[1].v.z, words[1].v.m>>

(* Serialize with the dimensions of another blob.                          *)
SerializeLike(g, words) == Serialize(g, words[1].v.z, words[1].v.m)

TypeOf(words) == words[1].v.type

Sum(numbers) == Total(numbers)

(* Distances, from point to point along an array.                          *)
Root(n) == Max({d \in 0..100 : d * d <= n})

Distance(v, w) == Root((v[1] - w[1]) * (v[1] - w[1]) + (v[2] - w[2]) * (v[2] - w[2]))

Segments(a) == 1..(Len(a.at) - 1)

PathLength(a) == Sum([i \in Segments(a) |-> Distance(a.at[i], a.at[i + 1])])

-----------------------------------------------------------------------------
(* ST_NPoints, ST_NInteriorRings, ST_Length, ST_Perimeter.                 *)
RECURSIVE NPoints(_)
NPoints(g) == Sum([i \in DOMAIN g.arrays |-> Len(g.arrays[i].at)])
              + Sum([i \in DOMAIN g.items |-> NPoints(g.items[i])])

NInteriorRings(g) ==
  IF g.type # "POLYGON" THEN {} ELSE {IF g.arrays = <<>> THEN 0 ELSE Len(g.arrays) - 1}

RECURSIVE LengthOf(_)
LengthOf(g) ==
  (IF g.type = "LINESTRING" THEN PathLength(g.arrays[1]) ELSE 0)
  + (IF g.type \in {"MULTILINESTRING", "GEOMETRYCOLLECTION"}
     THEN Sum([i \in DOMAIN g.items |-> LengthOf(g.items[i])]) ELSE 0)

RECURSIVE Perimeter(_)
Perimeter(g) ==
  (IF g.type = "POLYGON" THEN Sum([i \in DOMAIN g.arrays |-> PathLength(g.arrays[i])]) ELSE 0)
  + (IF g.type \in {"MULTIPOLYGON", "GEOMETRYCOLLECTION"}
     THEN Sum([i \in DOMAIN g.items |-> Perimeter(g.items[i])]) ELSE 0)

(* ST_Area: AreaProcessor takes no item of a collection of points or lines *)
(* and relies on the visitor to pass over them.                            *)
Magnitude(n) == IF n < 0 THEN -n ELSE n

RingArea(a) ==
  IF Len(a.at) < 3 THEN 0
  ELSE Magnitude(Sum([i \in 1..(Len(a.at) - 2) |->
         (a.at[i + 1][1] - a.at[1][1]) * (a.at[i][2] - a.at[i + 2][2])]))

AreaTakes == [Everything EXCEPT !["MULTIPOINT"] = 0, !["MULTILINESTRING"] = 0]

RECURSIVE EventArea(_)
EventArea(e) ==
  CASE e.type = "POLYGON" ->
         Magnitude(Sum([i \in DOMAIN e.arrays |->
                          IF i = 1 THEN RingArea(e.arrays[i]) ELSE -RingArea(e.arrays[i])]))
    [] e.type \in {"MULTIPOLYGON", "GEOMETRYCOLLECTION"} ->
         Sum([i \in DOMAIN e.items |-> EventArea(e.items[i])])
    [] OTHER -> 0

Area(words) == EventArea(Process(words, AreaTakes))

(* ST_XMin and its like: BoundsProcessor over the ordinate n of every      *)
(* vertex; a missing dimension is read as zero.                            *)
Ordinate(v, z, m, n) ==
  CASE n <= 2 -> v[n] [] n = 3 -> (IF z THEN v[3] ELSE 0) [] n = 4 -> (IF m THEN v[Len(v)] ELSE 0)

RECURSIVE Ordinates(_, _)
Ordinates(e, n) ==
  FlattenSeq([i \in DOMAIN e.arrays |->
     [j \in DOMAIN e.arrays[i].at |-> Ordinate(e.arrays[i].at[j], e.z, e.m, n)]])
  \o FlattenSeq([i \in DOMAIN e.items |-> Ordinates(e.items[i], n)])

OrdinateMin(words, n) ==
  LET all == Ordinates(Process(words, Everything), n)
  IN  IF all = <<>> THEN {} ELSE {FoldLeft(StdMin, Largest, all)}

OrdinateMax(words, n) ==
  LET all == Ordinates(Process(words, Everything), n)
  IN  IF all = <<>> THEN {} ELSE {FoldLeft(StdMax, -Largest, all)}

(* ST_Intersects_Extent, and the range join that the optimizer puts before *)
(* a spatial predicate.  A comparison with NULL holds for no pair of rows. *)
IntersectsExtent(left, right) ==
  \E a \in TryGetBox(left), b \in TryGetBox(right) : Intersects(a, b)

BugMaxComparedWithMax(left, right) ==
  \A n \in 1..2 :
    /\ \E l \in OrdinateMin(left, n), r \in OrdinateMax(right, n) : l <= r
    /\ \E l \in OrdinateMax(left, n), r \in OrdinateMax(right, n) : l >= r

RangeJoin(left, right) ==
  \A n \in 1..2 :
    /\ \E l \in OrdinateMin(left, n), r \in OrdinateMax(right, n) : l <= r
    /\ \E l \in OrdinateMax(left, n), r \in OrdinateMin(right, n) : l >= r

(* IsTableRefsDisjoint and the swap: which argument of the predicate goes  *)
(* to which side of the join, if the rule applies at all.                  *)
OnOwnSides(left_tables, right_tables, left_bindings, right_bindings) ==
  /\ left_bindings \cap right_bindings = {}
  /\ left_bindings \subseteq left_tables
  /\ right_bindings \subseteq right_tables

Sides(left_tables, right_tables, first, second) ==
  CASE OnOwnSides(left_tables, right_tables, first, second) -> "as_written"
    [] /\ ~OnOwnSides(left_tables, right_tables, first, second)
       /\ OnOwnSides(left_tables, right_tables, second, first) -> "swapped"
    [] OTHER -> "not_split"

(* The new condition of a join of the tables 1 and 2: the arguments of the *)
(* predicate refer to the tables first and second.                         *)
JoinCondition(row1, row2, first, second) ==
  LET Of(tables) == IF tables = {1} THEN row1 ELSE row2
  IN  CASE Sides({1}, {2}, first, second) = "as_written" -> RangeJoin(Of(first), Of(second))
        [] Sides({1}, {2}, first, second) = "swapped" -> RangeJoin(Of(second), Of(first))
        [] OTHER -> TRUE

-----------------------------------------------------------------------------
(* Functions that make geometries of geometries.                           *)
(* ST_Force2D, ST_Force3DZ, ST_Force3DM, ST_Force4D.                       *)
RECURSIVE UpdateDimensions(_, _, _, _, _)
UpdateDimensions(g, z, m, default_z, default_m) ==
  [g EXCEPT
     !.arrays = [i \in DOMAIN @ |-> RetypedArray(@[i], z, m, default_z, default_m)],
     !.items  = [i \in DOMAIN @ |-> UpdateDimensions(@[i], z, m, default_z, default_m)]]

Force(words, z, m, default_z, default_m) ==
  Serialize(UpdateDimensions(Deserialize(words), z, m, default_z, default_m), z, m)

(* ST_FlipCoordinates.                                                     *)
BugXOverwritten(v) == [v EXCEPT ![1] = v[2]]

Flipped(v) == [v EXCEPT ![1] = v[2], ![2] = v[1]]

RECURSIVE FlipGeometry(_)
FlipGeometry(g) ==
  [g EXCEPT !.arrays = [i \in DOMAIN @ |->
                          [@[i] EXCEPT !.at = [j \in DOMAIN @ |-> Flipped(@[j])]]],
            !.items = [i \in DOMAIN @ |-> FlipGeometry(@[i])]]

FlipCoordinates(words) == SerializeLike(FlipGeometry(Deserialize(words)), words)

MultiOf(type) ==
  CASE type = "POINT" -> "MULTIPOINT" [] type = "LINESTRING" -> "MULTILINESTRING"
    [] type = "POLYGON" -> "MULTIPOLYGON"

(* ST_Transform.  What PROJ makes of X and Y is its own (ProjTrans); each   *)
(* vertex is given that, and keeps its Z and M.  A reference system has its*)
(* axes in its own order, unless always_xy asks for X first.               *)
Normalized(yx, always_xy) == yx /\ ~always_xy

ProjTrans(yx, x, y) == IF yx THEN <<y, 12 - x>> ELSE <<12 - x, y>>

TransformVertex(v, yx) ==
  LET xy == ProjTrans(yx, v[1], v[2]) IN [v EXCEPT ![1] = xy[1], ![2] = xy[2]]

RECURSIVE TransformOp(_, _)
TransformOp(g, yx) ==
  [g EXCEPT !.arrays = [i \in DOMAIN @ |->
                          [@[i] EXCEPT !.at = [j \in DOMAIN @ |-> TransformVertex(@[j], yx)]]],
            !.items = [i \in DOMAIN @ |-> TransformOp(@[i], yx)]]

Transform(words, yx) == SerializeLike(TransformOp(Deserialize(words), yx), words)

(* ST_Collect: NULLs and empty geometries are left out.                    *)
BugTypeOfTheFirst(geometries) ==
  IF geometries # <<>> /\ ~IsCollection(geometries[1].type)
  THEN MultiOf(geometries[1].type) ELSE "GEOMETRYCOLLECTION"

CollectedType(geometries) ==
  LET All(type) == \A i \in DOMAIN geometries : geometries[i].type = type
  IN  CASE geometries = <<>> -> "GEOMETRYCOLLECTION"
        [] geometries # <<>> /\ All("POINT") -> "MULTIPOINT"
        [] geometries # <<>> /\ All("LINESTRING") -> "MULTILINESTRING"
        [] geometries # <<>> /\ All("POLYGON") -> "MULTIPOLYGON"
        [] OTHER -> "GEOMETRYCOLLECTION"

Collect(blobs) ==
  LET z == \E i \in DOMAIN blobs : blobs[i][1].v.z
      m == \E i \in DOMAIN blobs : blobs[i][1].v.m
      read == [i \in DOMAIN blobs |-> Deserialize(blobs[i])]
      geometries == SelectSeq(read, LAMBDA g : ~IsEmpty(g))
  IN  Serialize(Multi(CollectedType(geometries),
                      [i \in DOMAIN geometries |-> Retyped(geometries[i], z, m)]), z, m)

(* ST_Dump: a stack of geometries, the last one pushed taken first, and    *)
(* what was found reversed in the end.                                     *)
BugNotReversed(items) == items

Reversed(items) == Reverse(items)

RECURSIVE Unstacked(_, _)
Unstacked(stack, items) ==
  IF stack = <<>> THEN Reversed(items)
  ELSE LET current == Last(stack)
           pushed  == [i \in DOMAIN current.g.items |->
                         [g |-> current.g.items[i], path |-> Append(current.path, i)]]
       IN  IF IsCollection(current.g.type) THEN Unstacked(Front(stack) \o pushed, items)
           ELSE Unstacked(Front(stack), Append(items, current))

Dump(words) ==
  LET items == Unstacked(<<[g |-> Deserialize(words), path |-> <<>>]>>, <<>>)
  IN  [i \in DOMAIN items |->
         [geom |-> SerializeLike(items[i].g, words), path |-> items[i].path]]

(* ST_CollectionExtract: CollectPoints, CollectLines, CollectPolygons.     *)
RECURSIVE CollectItems(_, _)
CollectItems(g, type) ==
  CASE g.type = type -> <<g>>
    [] g.type = MultiOf(type) -> g.items
    [] g.type = "GEOMETRYCOLLECTION" ->
         FlattenSeq([i \in DOMAIN g.items |-> CollectItems(g.items[i], type)])
    [] OTHER -> <<>>

EmptyOf(type, z, m) ==
  IF type = "POLYGON" THEN Simple(type, <<>>) ELSE Simple(type, <<EmptyArray(z, m)>>)

ExtractType(words, type) ==
  LET g == Deserialize(words)
      extracted == IF g.type = "GEOMETRYCOLLECTION" THEN CollectItems(g, type) ELSE <<>>
  IN  CASE g.type \in {type, MultiOf(type)} -> words
        [] g.type \notin {type, MultiOf(type)} /\ IsCollection(g.type) ->
             SerializeLike(Multi(MultiOf(type), IF IsEmpty(g) THEN <<>> ELSE extracted), words)
        [] OTHER -> SerializeLike(EmptyOf(type, words[1].v.z, words[1].v.m), words)

(* The highest dimension in the collection; empty geometries do not count. *)
BugEmptyOnesCount(g) == Dimension(g)

HighestDimension(g) ==
  Max({0} \cup {Dimension(leaf) : leaf \in {l \in ToSet(Leaves(g)) : ~IsEmpty(l)}})

ExtractAuto(words) ==
  LET g    == Deserialize(words)
      type == <<"POINT", "LINESTRING", "POLYGON">>[HighestDimension(g) + 1]
  IN  IF g.type # "GEOMETRYCOLLECTION" \/ IsEmpty(g) THEN words
      ELSE SerializeLike(Multi(MultiOf(type), CollectItems(g, type)), words)

-----------------------------------------------------------------------------
(* ST_PointN: NULL unless the line has the point; from the end if n < 0.   *)
LineOf(words) == Deserialize(words).arrays[1]

PointAt(words, i) ==
  LET a == LineOf(words)
  IN  SerializeLike(Simple("POINT", <<Array(a.z, a.m, SubSeq(a.at, i, i))>>), words)

PointN(words, n) ==
  IF TypeOf(words) # "LINESTRING" THEN {}
  ELSE LET count == Len(LineOf(words).at)
       IN  IF count = 0 \/ n = 0 \/ n < -count \/ n > count THEN {}
           ELSE {PointAt(words, 1 + (IF n < 0 THEN count + n ELSE n - 1))}

EndPoint(words) ==
  IF TypeOf(words) # "LINESTRING" \/ LineOf(words).at = <<>> THEN {}
  ELSE {PointAt(words, Len(LineOf(words).at))}

(* ST_ExteriorRing.  The vertices are read as VertexXY and set in a line of *)
(* the polygon's dimensions, made of zeros: Z and M stay zero.             *)
OnlyXY(a) == RetypedArray(RetypedArray(a, FALSE, FALSE, 0, 0), a.z, a.m, 0, 0)

ExteriorRing(words) ==
  LET g == Deserialize(words)
  IN  IF g.type # "POLYGON" THEN {}
      ELSE {SerializeLike(Simple("LINESTRING",
              IF IsEmpty(g) THEN <<EmptyArray(words[1].v.z, words[1].v.m)>>
              ELSE <<OnlyXY(g.arrays[1])>>), words)}

(* ST_MakeLine of two points or of a list of them.  NULL stands for the    *)
(* exceptions here and below.                                              *)
MakeLine(left, right) ==
  LET a == Deserialize(left)
      b == Deserialize(right)
      z == left[1].v.z \/ right[1].v.z
      m == left[1].v.m \/ right[1].v.m
      vertices == RetypedArray(a.arrays[1], z, m, 0, 0).at
                    \o RetypedArray(b.arrays[1], z, m, 0, 0).at
  IN  CASE {a.type, b.type} # {"POINT"} -> {}
        [] {a.type, b.type} = {"POINT"} /\ IsEmpty(a) /\ IsEmpty(b) ->
             {Serialize(Simple("LINESTRING", <<EmptyArray(FALSE, FALSE)>>), FALSE, FALSE)}
        [] {a.type, b.type} = {"POINT"} /\ ~IsEmpty(a) /\ ~IsEmpty(b) ->
             {Serialize(Simple("LINESTRING", <<Array(z, m, vertices)>>), z, m)}
        [] OTHER -> {}

MakeLineFromList(blobs) ==
  LET vertices == FlattenSeq([i \in DOMAIN blobs |-> Deserialize(blobs[i]).arrays[1].at])
  IN  IF \/ \E i \in DOMAIN blobs :
              TypeOf(blobs[i]) # "POINT" \/ HasZM(blobs[i]) # <<FALSE, FALSE>>
         \/ Len(vertices) = 1
      THEN {}
      ELSE {Serialize(Simple("LINESTRING", <<Array(FALSE, FALSE, vertices)>>), FALSE, FALSE)}

(* ST_MakePolygon of a shell, and of a shell and holes.                    *)
RingFits(words) ==
  /\ TypeOf(words) = "LINESTRING"
  /\ LET at == LineOf(words).at IN Len(at) >= 4 /\ at[1] = Last(at)

MakePolygon(shell) ==
  IF ~RingFits(shell) THEN {}
  ELSE {SerializeLike(Simple("POLYGON", <<LineOf(shell)>>), shell)}

MakePolygonFromRings(lines) ==
  IF \E i \in DOMAIN lines : ~RingFits(lines[i]) \/ HasZM(lines[i]) # <<FALSE, FALSE>> THEN {}
  ELSE {Serialize(Simple("POLYGON", [i \in DOMAIN lines |-> LineOf(lines[i])]), FALSE, FALSE)}

(* ST_MakeEnvelope, and the cast of a BOX_2D.                              *)
Ring(at) == Serialize(Simple("POLYGON", <<Array(FALSE, FALSE, at)>>), FALSE, FALSE)

MakeEnvelope(b) ==
  Ring(<< <<b.minx, b.miny>>, <<b.minx, b.maxy>>, <<b.maxx, b.maxy>>, <<b.maxx, b.miny>>,
          <<b.minx, b.miny>> >>)

BoxToGeometry(b) ==
  Ring(<< <<b.minx, b.miny>>, <<b.maxx, b.miny>>, <<b.maxx, b.maxy>>, <<b.minx, b.maxy>>,
          <<b.minx, b.miny>> >>)

=============================================================================
