-------------------------- MODULE GeometryProperties --------------------------
(***************************************************************************)
(* What must hold of a column of geometries at every step of a query.      *)
(***************************************************************************)
EXTENDS GeometryColumn

CONSTANTS
  TakeSets,  \* how many rings and items a visitor may take, by type
  TestPoints \* points that are looked for in polygons

Promised == INSTANCE GeometryValues WITH Fill <- 0

(* A column of geometries is a sequence of values.  A conversion from one  *)
(* form to another changes none of them, and a function changes each row   *)
(* as it promises to and from that row alone, wherever its coordinates lie *)
(* and whatever selection is in front of them.                             *)
ValuesAsPromised == Promised!Spec

-----------------------------------------------------------------------------
Blobs == BlobsOf(column.form, column.rows)

RECURSIVE HasEmptyPolygon(_)
HasEmptyPolygon(g) == \/ g.type = "POLYGON" /\ IsEmpty(g)
                      \/ \E i \in DOMAIN g.items : HasEmptyPolygon(g.items[i])

(* Every buffer is allocated before it is filled, with a size computed     *)
(* apart: it is filled to its last byte, doubles stand at multiples of     *)
(* eight, and what the header says of the dimensions is true of all        *)
(* vertices: the geometry read from a blob is laid out as the blob is.     *)
(* GEOS geometries with an empty polygon get too long a blob.              *)
BuffersAreFilled ==
  IsBlob => \A row \in DOMAIN column.rows :
    LET words  == column.rows[row]
        z      == HasZM(words)[1]
        m      == HasZM(words)[2]
        g      == Read(row)
        ours   == Serialize(g, z, m)
        cells  == Wkb(Shape(row))
        theirs == ToGeos(Shape(row))
    IN  /\ WellFormed(g) /\ Uniform(g, z, m)
        /\ 4 * Len(ours) = BlobSize(g, z, m)
        /\ [i \in DOMAIN words |-> words[i].k] = [i \in DOMAIN ours |-> ours[i].k]
        /\ \A i \in DOMAIN words : words[i].k = "low" => i % 2 = 1
        /\ Total([i \in DOMAIN cells |-> CellBytes(cells[i])]) = WkbSize(Shape(row))
        /\ Accepted(theirs) =>
             /\ 4 * Len(SerializeGeos(theirs)) <= GeosBlobSize(theirs)
             /\ HasEmptyPolygon(theirs) \/ 4 * Len(SerializeGeos(theirs)) = GeosBlobSize(theirs)

(* A visitor that takes only some of the rings or items is shown the same  *)
(* as one that takes all, with the parent and the level of each item: what *)
(* it leaves is passed over to the last word.                              *)
RECURSIVE ShownAlike(_, _, _, _)
ShownAlike(some, all, parent, nesting) ==
  /\ some.type = all.type /\ some.count = all.count
  /\ some.parent = parent /\ some.nesting = nesting
  /\ \A i \in 1..some.taken :
       IF IsCollection(some.type)
       THEN ShownAlike(some.items[i], all.items[i], some.type, nesting + 1)
       ELSE some.type = "POLYGON" => some.arrays[i] = all.arrays[i]
  /\ some.type \in {"POINT", "LINESTRING"} => some.arrays = all.arrays

VisitorKeepsItsPlace ==
  IsBlob => \A row \in DOMAIN column.rows, takes \in TakeSets :
    ShownAlike(Process(column.rows[row], takes), Shape(row), "POINT", 0)

-----------------------------------------------------------------------------
XYs(words) ==
  LET e == Process(words, Everything)
      xs == Ordinates(e, 1)
      ys == Ordinates(e, 2)
  IN  {<<xs[i], ys[i]>> : i \in DOMAIN xs}

(* The box stored with a geometry, rounded to floats, has every vertex in  *)
(* it, in each dimension; so no test of boxes in front of a predicate, nor *)
(* the range join the optimizer puts there, loses a pair of rows that have *)
(* a vertex in common.  Only an empty geometry has no box.                 *)
BoxKeepsCandidates ==
  LET blobs == Blobs IN column.form \notin {"wkb", "text", "json"} =>
  \A row \in DOMAIN blobs :
    LET words == blobs[row]
        g     == Deserialize(words)
        again == SerializeLike(g, words)
        z     == HasZM(words)[1]
        ZM(n) == Ordinates(Process(words, Everything), n)
        Covers(i, n) == \A k \in DOMAIN ZM(n) :
                          At(again, i, "float") <= ZM(n)[k] /\ ZM(n)[k] <= At(again, i + 1, "float")
    IN  /\ TryGetBox(words) = {} <=> IsEmpty(g)
        /\ \A box \in TryGetBox(words), v \in XYs(words) :
             /\ box.minx <= v[1] /\ v[1] <= box.maxx
             /\ box.miny <= v[2] /\ v[2] <= box.maxy
        /\ HasBox(g) => /\ z => Covers(7, 3)
                        /\ HasZM(words)[2] => Covers(IF z THEN 9 ELSE 7, 4)
        /\ \A other \in DOMAIN blobs :
             XYs(words) \cap XYs(blobs[other]) # {} =>
               /\ IntersectsExtent(words, blobs[other])
               /\ \A first, second \in {{1}, {2}} :
                    JoinCondition(words, blobs[other], first, second)

-----------------------------------------------------------------------------
AtPath(g, path) == FoldLeft(LAMBDA item, i : item.items[i], g, path)

(* What a function computes of a collection is the sum over the geometries *)
(* ST_Dump makes of it, and the path of each of these leads to it.         *)
SumsOverDump(words) ==
  LET g     == Deserialize(words)
      items == Dump(words)
      parts == [i \in DOMAIN items |-> Deserialize(items[i].geom)]
  IN  /\ \A i \in DOMAIN items : AtPath(g, items[i].path) = parts[i]
      /\ Area(words) = Sum([i \in DOMAIN items |-> Area(items[i].geom)])
      /\ NPoints(g) = Sum([i \in DOMAIN parts |-> NPoints(parts[i])])
      /\ LengthOf(g) = Sum([i \in DOMAIN parts |-> LengthOf(parts[i])])
      /\ Perimeter(g) = Sum([i \in DOMAIN parts |-> Perimeter(parts[i])])

(* A box made into a polygon has the box it was made of.                   *)
BoxesAgree(words) ==
  \A box \in TryGetBox(words) : \A made \in {MakeEnvelope(box), BoxToGeometry(box)} :
    /\ OrdinateMin(made, 1) = {box.minx} /\ OrdinateMax(made, 1) = {box.maxx}
    /\ OrdinateMin(made, 2) = {box.miny} /\ OrdinateMax(made, 2) = {box.maxy}
    /\ Area(made) = 2 * (box.maxx - box.minx) * (box.maxy - box.miny)

SameRange(numbers, words, n) ==
  /\ OrdinateMin(words, n) = (IF numbers = {} THEN {} ELSE {Min(numbers)})
  /\ OrdinateMax(words, n) = (IF numbers = {} THEN {} ELSE {Max(numbers)})

PointsXY(blobs) == {LineOf(b).at[1] : b \in blobs}

LinesAgree(v, row, words) ==
  LET g == Deserialize(words)
  IN  /\ PathLength2D(v, EntryOf(v, row)) = LengthOf(g)
      /\ EntryOf(v, row).length = NPoints(g)
      /\ \A n \in 1..2 : SameRange(LineOrdinates2D(v, row, n), words, n)
      /\ \A n \in -4..4 : PointN2D(v, row, n) = PointsXY(PointN(words, n))
      /\ StartPoint2D(v, row) = PointN2D(v, row, 1)
      /\ EndPoint2D(v, row) = PointsXY(EndPoint(words))

(* A point is in a polygon if a ray from it crosses the edges of the rings *)
(* an odd number of times.  Points on an edge are not looked at, and level *)
(* with the top or the bottom of a ring only if that fault is.             *)
EdgesOf(g) == UNION {{<<g.arrays[i].at[j], g.arrays[i].at[j + 1]>> : j \in Segments(g.arrays[i])} :
                       i \in DOMAIN g.arrays}

Crossed(p, e) ==
  /\ (e[1][2] > p[2]) # (e[2][2] > p[2])
  /\ IF e[2][2] > e[1][2] THEN SideOf(p, e[1], e[2]) < 0 ELSE SideOf(p, e[1], e[2]) > 0

Touched(p, e) ==
  /\ SideOf(p, e[1], e[2]) = 0
  /\ \A d \in 1..2 : p[d] \in Min({e[1][d], e[2][d]})..Max({e[1][d], e[2][d]})

LevelWithEnd(g, p) ==
  \E i \in DOMAIN g.arrays :
    LET ys == {v[2] : v \in ToSet(g.arrays[i].at)} IN p[2] \in {Min(ys), Max(ys)}

ContainsAgrees(v, row, g, p) ==
  LET edges == EdgesOf(g)
  IN  \/ \E e \in edges : Touched(p, e)
      \/ "level_point" \notin Faults /\ LevelWithEnd(g, p)
      \/ Contains2D(v, row, p) = (Cardinality({e \in edges : Crossed(p, e)}) % 2 = 1)

PolygonsAgree(v, row, words) ==
  LET g == Deserialize(words)
  IN  /\ Area2D(v, row) = Area(words)
      /\ Perimeter2D(v, row) = Perimeter(g)
      /\ NPoints2D(v, row) = NPoints(g)
      /\ {NInteriorRings2D(v, row)} = NInteriorRings(g)
      /\ \A n \in 1..2 : SameRange(PolygonOrdinates2D(v, row, n), words, n)
      /\ \A p \in TestPoints : ContainsAgrees(v, row, g, p)

(* The overloads of a function for list vectors and for blobs compute the  *)
(* same of the same row, wherever in the vector its coordinates lie, and   *)
(* no two rows share coordinates.                                          *)
OverloadsAgree ==
  CASE IsBlob -> \A row \in DOMAIN column.rows :
                   SumsOverDump(column.rows[row]) /\ BoxesAgree(column.rows[row])
    [] column.form = "lines" ->
         \A row \in Rows(column.rows) : LinesAgree(column.rows, row, Blobs[row])
    [] column.form = "polygons" ->
         \A row \in Rows(column.rows) : PolygonsAgree(column.rows, row, Blobs[row])
    [] OTHER -> TRUE

(* A text that ST_AsText writes is read back whole, with the dimensions it *)
(* was written with, unless a multipoint has an empty point.               *)
TextReadsBack ==
  LET SameAs(row, length, parsed) ==
        /\ parsed.ok /\ parsed.at = length + 1
        /\ <<parsed.z, parsed.m>> = HasZM(column.rows[row])
        /\ parsed.out.g = Read(row)
      WhenRead(row, text) == SameAs(row, Len(text), Parse(text))
  IN  IsBlob => \A row \in DOMAIN column.rows :
        HasEmptyItemPoint(Read(row)) \/ WhenRead(row, Text(Shape(row), FALSE))

=============================================================================
