----------------------------- MODULE ListVectors -----------------------------
(***************************************************************************)
(* LINESTRING_2D and POLYGON_2D: list vectors of DuckDB, and the functions *)
(* that read and fill them row by row.  A vector of lines has an entry     *)
(* (offset, length) for each row into one array of coordinates; a polygon  *)
(* is an entry into an array of rings, each an entry into the coordinates. *)
(* A selection says which entry is which row, as a filter leaves it.       *)
(*                                                                         *)
(* An array that is full moves when more is reserved: it is a buffer with  *)
(* an identity, and what is written through a pointer to an earlier one    *)
(* is not in it.                                                           *)
(***************************************************************************)
EXTENDS GeometryFunctions

CONSTANT InitialCapacity  \* STANDARD_VECTOR_SIZE

ASSUME CapacityAssumption == InitialCapacity \in Nat \ {0}

Unset == <<-7777, -7777>>

NewBuffer == [id |-> 0, at |-> [i \in 1..InitialCapacity |-> Unset]]

(* ListVector::Reserve: at least twice the room, in a new place.           *)
RECURSIVE Reserve(_, _)
Reserve(buffer, n) ==
  IF n <= Len(buffer.at) THEN buffer
  ELSE Reserve([id |-> buffer.id + 1,
                at |-> buffer.at \o [i \in DOMAIN buffer.at |-> Unset]], n)

(* Writes from an offset on, through a pointer to the buffer held.         *)
Written(buffer, held, offset, values) ==
  IF held # buffer.id THEN buffer
  ELSE [buffer EXCEPT !.at = [i \in DOMAIN @ |->
          IF i - offset \in DOMAIN values THEN values[i - offset] ELSE @[i]]]

Entry(offset, length) == [offset |-> offset, length |-> length]

Within(entry) == (entry.offset + 1)..(entry.offset + entry.length)

XY(a) == [i \in DOMAIN a.at |-> SubSeq(a.at[i], 1, 2)]

Rows(v) == DOMAIN v.sel

-----------------------------------------------------------------------------
(* Filling a vector of lines.  The cast takes its pointers once, before    *)
(* anything is reserved; ST_LineString2DFromWKB takes them for each row.   *)
NoLines == [entries |-> <<>>, sel |-> <<>>, data |-> NewBuffer, used |-> 0]

Room(v, n) == Reserve(v.data, v.used + n)

WithEntry(v, data, entry, used) ==
  [entries |-> Append(v.entries, entry), sel |-> Append(v.sel, Len(v.sel) + 1),
   data |-> data, used |-> used]

WithLine(v, at, refetched) ==
  LET data == Room(v, Len(at))
      held == IF refetched THEN data.id ELSE NoLines.data.id
  IN  WithEntry(v, Written(data, held, v.used, at), Entry(v.used, Len(at)), v.used + Len(at))

Filled(lines, refetched) ==
  FoldLeft(LAMBDA v, at : WithLine(v, at, refetched), NoLines, lines)

CastToLines(blobs) == Filled([i \in DOMAIN blobs |-> XY(LineOf(blobs[i]))], FALSE)

(* Filling a vector of polygons, ring by ring.                             *)
NoPolygons == [entries |-> <<>>, sel |-> <<>>, rings |-> NewBuffer, ring_total |-> 0,
               data |-> NewBuffer, used |-> 0]

WithRing(v, at, ring_idx) ==
  LET data == Room(v, Len(at))
  IN  [v EXCEPT !.data  = Written(data, data.id, v.used, at),
                !.rings = Written(@, @.id, v.ring_total + ring_idx, <<Entry(v.used, Len(at))>>),
                !.used  = @ + Len(at)]

WithPolygon(v, rings) ==
  LET reserved == [v EXCEPT !.rings = Reserve(@, v.ring_total + Len(rings))]
      filled   == FoldLeft(LAMBDA w, i : WithRing(w, rings[i], i - 1), reserved,
                           [i \in DOMAIN rings |-> i])
  IN  [filled EXCEPT !.entries = Append(@, Entry(v.ring_total, Len(rings))),
                     !.sel = Append(@, Len(@) + 1),
                     !.ring_total = @ + Len(rings)]

CastToPolygons(blobs) ==
  LET RingsOf(words) == LET g == Deserialize(words)
                        IN  [i \in DOMAIN g.arrays |-> XY(g.arrays[i])]
  IN  FoldLeft(LAMBDA v, words : WithPolygon(v, RingsOf(words)), NoPolygons, blobs)

(* The reader of these functions knows WKB as this extension writes it,    *)
(* without Z and M.                                                        *)
CellsAt(cells, i, count) ==
  [n \in 1..count |-> <<cells[i + 2 * n - 1].v, cells[i + 2 * n].v>>]

SimpleWkbLine(cells) == CellsAt(cells, 3, cells[3].v)

SimpleWkbPolygon(cells) ==
  LET NextRing(r, i) == [at |-> r.at + 1 + 2 * cells[r.at].v,
                         rings |-> Append(r.rings, CellsAt(cells, r.at, cells[r.at].v))]
  IN  FoldLeft(NextRing, [at |-> 4, rings |-> <<>>], [i \in 1..cells[3].v |-> i]).rings

LinesFromWkb(wkbs) == Filled([i \in DOMAIN wkbs |-> SimpleWkbLine(wkbs[i])], TRUE)

PolygonsFromWkb(wkbs) ==
  FoldLeft(LAMBDA v, cells : WithPolygon(v, SimpleWkbPolygon(cells)), NoPolygons, wkbs)

-----------------------------------------------------------------------------
(* Reading: the entry of a row, and the coordinates it says.               *)
BugSelectionIgnored(v, row) == v.entries[row]

EntryOf(v, row) == v.entries[v.sel[row]]

RingEntries(v, row) ==
  LET entry == EntryOf(v, row)
  IN  [i \in 1..entry.length |-> v.rings.at[entry.offset + i]]

Coords(v, entry) == [i \in 1..entry.length |-> v.data.at[entry.offset + i]]

FlatArray(at) == Array(FALSE, FALSE, at)

LinesToGeometries(v) ==
  [row \in Rows(v) |->
     Serialize(Simple("LINESTRING", <<FlatArray(Coords(v, EntryOf(v, row)))>>), FALSE, FALSE)]

PolygonsToGeometries(v) ==
  [row \in Rows(v) |->
     LET rings == RingEntries(v, row)
     IN  Serialize(Simple("POLYGON", [i \in DOMAIN rings |-> FlatArray(Coords(v, rings[i]))]),
                   FALSE, FALSE)]

PointsToGeometries(points) ==
  [row \in DOMAIN points |->
     Serialize(Simple("POINT", <<FlatArray(<<points[row]>>)>>), FALSE, FALSE)]

CastToPoints(blobs) == [row \in DOMAIN blobs |-> XY(LineOf(blobs[row]))[1]]

(* ST_FlipCoordinates flattens its input and copies all the coordinates.   *)
FlipCoords(buffer, used) ==
  [Reserve(NewBuffer, used) EXCEPT !.at =
     [i \in DOMAIN @ |-> IF i <= used THEN Flipped(buffer.at[i]) ELSE Unset]]

FlipList(v) ==
  [v EXCEPT !.entries = [row \in Rows(v) |-> EntryOf(v, row)],
            !.sel  = [row \in Rows(v) |-> row],
            !.data = FlipCoords(v.data, v.used)]

(* ST_ExteriorRing reserves once for all rows.  A polygon without rings    *)
(* becomes a line without vertices at offset 0.                            *)
ExteriorRings(v) ==
  LET Shell(row) == IF EntryOf(v, row).length = 0 THEN <<>>
                    ELSE Coords(v, RingEntries(v, row)[1])
      total == Total([row \in Rows(v) |-> Len(Shell(row))])
      start == [NoLines EXCEPT !.data = Reserve(@, total)]
      NextRow(lines, row) ==
        LET at   == Shell(row)
            from == IF EntryOf(v, row).length = 0 THEN 0 ELSE lines.used
        IN  WithEntry(lines, Written(lines.data, start.data.id, lines.used, at),
                      Entry(from, Len(at)), lines.used + Len(at))
  IN  FoldLeft(NextRow, start, [row \in Rows(v) |-> row])

-----------------------------------------------------------------------------
(* ST_RemoveRepeatedPoints.  What is kept of a line after its first vertex *)
(* is what is not near the last vertex kept.                               *)
Near(v, w, tolerance) ==
  (w[1] - v[1]) * (w[1] - v[1]) + (w[2] - v[2]) * (w[2] - v[2]) <= tolerance * tolerance

BugComparedWithFirst(kept, v, tolerance) ==
  IF Near(kept[1], v, tolerance) THEN kept ELSE Append(kept, v)

KeptBy(kept, v, tolerance) ==
  IF Near(Last(kept), v, tolerance) THEN kept ELSE Append(kept, v)

Kept(at, tolerance) ==
  FoldLeft(LAMBDA kept, v : KeptBy(kept, v, tolerance), <<at[1]>>, SubSeq(at, 2, Len(at)))

(* A line of fewer than three vertices is copied; of one all of whose      *)
(* vertices are repeated the first and the last one are kept.              *)
Short(at, tolerance) ==
  CASE Len(at) < 3 -> {at}
    [] Len(at) >= 3 /\ Len(Kept(at, tolerance)) = 1 -> {<<at[1], Last(at)>>}
    [] OTHER -> {}

RemoveRepeated(v) ==
  LET Reduced(row) == LET at == Coords(v, EntryOf(v, row))
                      IN  IF Short(at, 0) # {} THEN CHOOSE s \in Short(at, 0) : TRUE
                          ELSE Kept(at, 0)
  IN  Filled([row \in Rows(v) |-> Reduced(row)], TRUE)

(* With a tolerance the last vertex is set apart: it is counted only if it *)
(* is not near the one kept before it, and written where the first line    *)
(* would end, whatever lines came before.                                  *)
EndOfLine(out_offset, points_to_keep) == points_to_keep - 1

RemoveRepeatedWithin(v, tolerance) ==
  LET NextRow(out, row) ==
        LET at     == Coords(v, EntryOf(v, row))
            keep   == Len(Kept(at, tolerance))
            middle == Kept(Front(at), tolerance)
            data   == Room(out, keep)
            copied == Written(data, data.id, out.used, middle)
        IN  IF Short(at, tolerance) # {}
            THEN WithLine(out, CHOOSE s \in Short(at, tolerance) : TRUE, TRUE)
            ELSE WithEntry(out, Written(copied, copied.id, EndOfLine(out.used, keep), <<Last(at)>>),
                           Entry(out.used, keep), out.used + Len(middle) + 1)
  IN  FoldLeft(NextRow, NoLines, [row \in Rows(v) |-> row])

-----------------------------------------------------------------------------
(* What the overloads for lists compute for an entry, index by index.      *)
BugOneSegmentMore(entry) == (entry.offset + 1)..(entry.offset + entry.length)

SegmentsFrom(entry) == (entry.offset + 1)..(entry.offset + entry.length - 1)

PathLength2D(v, entry) ==
  MapThenSumSet(LAMBDA i : Distance(v.data.at[i], v.data.at[i + 1]), SegmentsFrom(entry))

Perimeter2D(v, row) ==
  Sum([i \in DOMAIN RingEntries(v, row) |-> PathLength2D(v, RingEntries(v, row)[i])])

RingArea2D(v, entry) ==
  Magnitude(MapThenSumSet(LAMBDA i : v.data.at[i][1] * v.data.at[i + 1][2]
                                       - v.data.at[i + 1][1] * v.data.at[i][2],
                          SegmentsFrom(entry)))

Area2D(v, row) ==
  LET rings == RingEntries(v, row)
  IN  Sum([i \in DOMAIN rings |-> IF i = 1 THEN RingArea2D(v, rings[i])
                                  ELSE -RingArea2D(v, rings[i])])

NPoints2D(v, row) == Sum([i \in DOMAIN RingEntries(v, row) |-> RingEntries(v, row)[i].length])

NInteriorRings2D(v, row) ==
  IF EntryOf(v, row).length = 0 THEN 0 ELSE EntryOf(v, row).length - 1

(* ST_XMin and its like; of a polygon only the shell, without its last     *)
(* vertex.                                                                 *)
Ordinates2D(v, indexes, n) == {v.data.at[i][n] : i \in indexes}

LineOrdinates2D(v, row, n) == Ordinates2D(v, Within(EntryOf(v, row)), n)

PolygonOrdinates2D(v, row, n) ==
  IF EntryOf(v, row).length = 0 THEN {}
  ELSE Ordinates2D(v, SegmentsFrom(RingEntries(v, row)[1]), n)

(* ST_StartPoint, ST_EndPoint, ST_PointN.                                  *)
PointN2D(v, row, n) ==
  LET entry == EntryOf(v, row)
  IN  IF entry.length = 0 \/ n = 0 \/ n < -entry.length \/ n > entry.length THEN {}
      ELSE {v.data.at[entry.offset + 1 + (IF n < 0 THEN entry.length + n ELSE n - 1)]}

StartPoint2D(v, row) ==
  IF EntryOf(v, row).length = 0 THEN {} ELSE {v.data.at[EntryOf(v, row).offset + 1]}

EndPoint2D(v, row) ==
  IF EntryOf(v, row).length = 0 THEN {}
  ELSE {v.data.at[EntryOf(v, row).offset + EntryOf(v, row).length]}

(* ST_Contains of a polygon and a point: the winding number of each ring,  *)
(* edge by edge.  An edge the point lies on ends the ring.                 *)
NotWound == [n |-> 0, on_edge |-> FALSE]

SideOf(p, v, w) ==
  (p[1] - v[1]) * (w[2] - v[2]) - (w[1] - v[1]) * (p[2] - v[2])

OnSegment(p, v, w) ==
  \E d \in 1..2 : (v[d] <= p[d] /\ p[d] < w[d]) \/ (v[d] >= p[d] /\ p[d] > w[d])

BugStartCountedToo(p, v, w) ==
  CASE SideOf(p, v, w) < 0 /\ v[2] <= p[2] /\ p[2] <= w[2] -> 1
    [] SideOf(p, v, w) > 0 /\ w[2] <= p[2] /\ p[2] <= v[2] -> -1
    [] OTHER -> 0

Turn(p, v, w) ==
  CASE SideOf(p, v, w) < 0 /\ v[2] < p[2] /\ p[2] <= w[2] -> 1
    [] SideOf(p, v, w) > 0 /\ w[2] <= p[2] /\ p[2] < v[2] -> -1
    [] OTHER -> 0

Winding(v, entry, p) ==
  LET NextEdge(wound, i) ==
        LET a == v.data.at[i]
            b == v.data.at[i + 1]
            beside == a = b \/ p[2] \notin Min({a[2], b[2]})..Max({a[2], b[2]})
        IN  IF wound.on_edge \/ beside THEN wound
            ELSE IF SideOf(p, a, b) = 0 /\ OnSegment(p, a, b) THEN [wound EXCEPT !.on_edge = TRUE]
            ELSE [wound EXCEPT !.n = @ + Turn(p, a, b)]
  IN  FoldLeft(NextEdge, NotWound, [i \in 1..(entry.length - 1) |-> entry.offset + i])

(* The point must be in the shell and in no hole.                          *)
Contains2D(v, row, p) ==
  LET NextRing(st, ring) ==
        LET wound == Winding(v, ring, p)
        IN  CASE st.done -> st
              [] ~st.done /\ st.first -> [first |-> FALSE, contains |-> wound.n # 0, done |-> wound.n = 0]
              [] OTHER -> [st EXCEPT !.contains = @ /\ ~wound.on_edge /\ wound.n = 0,
                                     !.done = wound.n # 0]
  IN  FoldLeft(NextRing, [first |-> TRUE, contains |-> FALSE, done |-> FALSE],
               RingEntries(v, row)).contains

=============================================================================
