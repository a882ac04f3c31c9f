---------------------------- MODULE GeometryColumn ----------------------------
(***************************************************************************)
(* A column of geometries while a query calls one function after another   *)
(* on it: as blobs, as WKB, as text, as GeoJSON, or as points, lines and   *)
(* polygons of two dimensions in list vectors.  Every action is one call   *)
(* of a function on all rows of a chunk.  It implements GeometryValues.    *)
(***************************************************************************)
EXTENDS ListVectors, WellKnownBinary, WellKnownText, GeoJson, GeosSerde

CONSTANTS
  Columns,   \* the columns a query may begin with: sequences of geometries,
  Documents, \* and of GeoJSON documents
  MaxCalls,  \* bound: calls of a query
  MaxRows,   \* bound: rows that ST_Dump may make
  Faults     \* known faults the query may run into: "moved_list", "last_vertex",
             \* "level_point", "flat_shell"

VARIABLES
  column, \* its form, and its rows or its list vector
  values, \* auxiliary: the value of each row, read from the column
  calls   \* bound: the calls made

columnVars == <<column, values, calls>>

(* The value of a row, whatever its form: vertices with named ordinates.   *)
RECURSIVE Meaning(_)
Meaning(g) ==
  [type  |-> g.type,
   parts |-> [i \in DOMAIN g.arrays |->
                [j \in DOMAIN g.arrays[i].at |->
                   Named(g.arrays[i].at[j], g.arrays[i].z, g.arrays[i].m)]],
   items |-> [i \in DOMAIN g.items |-> Meaning(g.items[i])]]

BlobsOf(form, rows) ==
  CASE form = "points"   -> PointsToGeometries(rows)
    [] form = "lines"    -> LinesToGeometries(rows)
    [] form = "polygons" -> PolygonsToGeometries(rows)
    [] OTHER -> rows

BlobValues(blobs) == [row \in DOMAIN blobs |-> Meaning(Deserialize(blobs[row]))]
WkbValues(rows)   == [row \in DOMAIN rows |-> Meaning(DeserializeWkb(rows[row]).g)]
TextValues(rows)  == [row \in DOMAIN rows |-> Meaning(Parse(rows[row]).out.g)]
JsonValues(rows)  == [row \in DOMAIN rows |->
                        IF Throws(rows[row]) THEN Meaning(Multi("NONE", <<>>))
                        ELSE Meaning(DeserializeJson(rows[row]))]

Init ==
  /\ column \in {[form |-> "blob",
                  rows |-> [i \in DOMAIN c |-> Serialize(c[i].g, c[i].z, c[i].m)]] :
                   c \in Columns}
               \cup {[form |-> "json", rows |-> d] : d \in Documents}
  /\ values = IF column.form = "json" THEN JsonValues(column.rows)
              ELSE BlobValues(column.rows)
  /\ calls = 0

(* One call: from a column of one form to one of another.                  *)
Call(from, to, rows, meanings) ==
  /\ column.form = from
  /\ calls < MaxCalls
  /\ column' = [form |-> to, rows |-> rows]
  /\ values' = meanings
  /\ calls' = calls + 1

IntoBlobs(from, rows)     == Call(from, "blob", rows, BlobValues(rows))
IntoWkb(from, rows)       == Call(from, "wkb", rows, WkbValues(rows))
IntoText(from, rows)      == Call(from, "text", rows, TextValues(rows))
IntoJson(from, rows)      == Call(from, "json", rows, JsonValues(rows))
IntoLists(from, to, rows) == Call(from, to, rows, BlobValues(BlobsOf(to, rows)))

IsBlob == column.form = "blob"
Read(row) == Deserialize(column.rows[row])
Shape(row) == Process(column.rows[row], Everything)
EachOf(Op(_)) == [row \in DOMAIN column.rows |-> Op(column.rows[row])]

(* Rows that a function computes or fails on: only if it fails on none.    *)
Made(Op(_)) == \A row \in DOMAIN column.rows : Op(column.rows[row]) # {}
The(Op(_), row) == CHOOSE r \in Op(row) : TRUE

OfType(type) == IsBlob /\ \A row \in DOMAIN column.rows : TypeOf(column.rows[row]) = type

-----------------------------------------------------------------------------
(* Conversions.                                                            *)
AsWKB == IsBlob /\ IntoWkb("blob", EachOf(LAMBDA b : Wkb(Process(b, Everything))))

(* Another program's writing of the same: the dimensions as flags, and a   *)
(* spatial reference behind the first type.                                *)
Ewkb(cells) ==
  FlattenSeq([i \in DOMAIN cells |->
    IF cells[i].k # "type" THEN <<cells[i]>>
    ELSE LET id == cells[i].v.id
         IN  <<TypeCell(TypeWord(id % 1000, IsoZ(id), IsoM(id), i = 2), TRUE)>>
               \o (IF i = 2 THEN <<CountCell(4326, TRUE)>> ELSE <<>>)])

Iso(cells) ==
  \A i \in DOMAIN cells : cells[i].k = "type" =>
    LET type == cells[i].v IN type.id > 1000 \/ ~(type.z \/ type.m \/ type.srid)

WrittenElsewhere ==
  /\ column.form = "wkb"
  /\ \A row \in DOMAIN column.rows : Iso(column.rows[row])
  /\ IntoWkb("wkb", EachOf(Ewkb))

GeomFromWKB ==
  LET Uniformly(read) == ~Widens(read.raw, read.z, read.m)
      Blob(read)  == Serialize(read.g, read.z, read.m)
  IN  /\ column.form = "wkb"
      /\ \A row \in DOMAIN column.rows : Uniformly(DeserializeWkb(column.rows[row]))
      /\ IntoBlobs("wkb", EachOf(LAMBDA cells : Blob(DeserializeWkb(cells))))

(* ST_AsText writes an empty point of a multipoint as EMPTY, which the     *)
(* parser refuses there.                                                   *)
RECURSIVE HasEmptyItemPoint(_)
HasEmptyItemPoint(g) ==
  \E i \in DOMAIN g.items : \/ g.type = "MULTIPOINT" /\ IsEmpty(g.items[i])
                            \/ HasEmptyItemPoint(g.items[i])

AsText ==
  /\ IsBlob
  /\ \A row \in DOMAIN column.rows : ~HasEmptyItemPoint(Read(row))
  /\ IntoText("blob", EachOf(LAMBDA b : Text(Process(b, Everything), FALSE)))

GeomFromText ==
  LET Blob(parsed) == Serialize(parsed.out.g, parsed.z, parsed.m)
  IN  /\ column.form = "text"
      /\ \A row \in DOMAIN column.rows : Parse(column.rows[row]).ok
      /\ IntoBlobs("text", EachOf(LAMBDA text : Blob(Parse(text))))

(* The casts of points, lines and polygons of two dimensions to VARCHAR.   *)
PointText(v)  == InParens(Coordinates(FlatArray(<<v>>)))

LineText(at) == IF at = <<>> THEN <<Word("EMPTY")>> ELSE InParens(Coordinates(FlatArray(at)))

PolygonText(rings) ==
  IF rings = <<>> THEN <<Word("EMPTY")>>
  ELSE InParens(Separated([i \in DOMAIN rings |-> InParens(Coordinates(FlatArray(rings[i])))]))

ListsAsText ==
  LET v == column.rows
      RingsOf(row) == [i \in DOMAIN RingEntries(v, row) |-> Coords(v, RingEntries(v, row)[i])]
  IN  /\ column.form \in {"points", "lines", "polygons"}
      /\ IntoText(column.form,
           CASE column.form = "points" -> [row \in DOMAIN v |-> <<Word("POINT")>> \o PointText(v[row])]
             [] column.form = "lines" ->
                  [row \in Rows(v) |-> <<Word("LINESTRING")>> \o LineText(Coords(v, EntryOf(v, row)))]
             [] column.form = "polygons" ->
                  [row \in Rows(v) |-> <<Word("POLYGON")>> \o PolygonText(RingsOf(row))])

AsGeoJSON ==
  /\ IsBlob
  /\ \A row \in DOMAIN column.rows : ~HasEmptyItemPoint(Read(row))
  /\ IntoJson("blob", EachOf(LAMBDA b : ToJson(Deserialize(b))))

GeomFromGeoJSON ==
  /\ column.form = "json"
  /\ \A row \in DOMAIN column.rows :
       /\ ~Throws(column.rows[row])
       /\ LET read == FromJson(column.rows[row], FALSE)
          IN  MetZ(read) => ~Widens(read, TRUE, FALSE)
  /\ IntoBlobs("json", EachOf(LAMBDA json :
           LET g == FromJson(json, FALSE) IN Serialize(Unified(g), MetZ(g), FALSE)))

(* What every function does that leaves its work to GEOS.                  *)
ThroughGeos ==
  /\ IsBlob
  /\ \A row \in DOMAIN column.rows : Accepted(ToGeos(Shape(row)))
  /\ IntoBlobs("blob", EachOf(LAMBDA b : SerializeGeos(ToGeos(Process(b, Everything)))))

(* A cast of more coordinates than a list vector has room for at first.    *)
Fits(n) == n <= InitialCapacity \/ "moved_list" \in Faults

ToPoints ==
  /\ OfType("POINT")
  /\ \A row \in DOMAIN column.rows : ~IsEmpty(Read(row))
  /\ IntoLists("blob", "points", CastToPoints(column.rows))

ToLines ==
  /\ OfType("LINESTRING")
  /\ Fits(Total(EachOf(LAMBDA b : Len(LineOf(b).at))))
  /\ IntoLists("blob", "lines", CastToLines(column.rows))

ToPolygons == OfType("POLYGON") /\ IntoLists("blob", "polygons", CastToPolygons(column.rows))

FromLists ==
  /\ column.form \in {"points", "lines", "polygons"}
  /\ IntoBlobs(column.form, BlobsOf(column.form, column.rows))

(* The readers of WKB for lists expect the plain types and no empty ones.  *)
ListsFromWKB ==
  LET Plain(id) == column.form = "wkb" /\ \A row \in DOMAIN column.rows :
        LET cells == column.rows[row]
        IN  cells[2].v = TypeWord(id, FALSE, FALSE, FALSE) /\ cells[3].v > 0
  IN  \/ Plain(2) /\ IntoLists("wkb", "lines", LinesFromWkb(column.rows))
      \/ Plain(3) /\ IntoLists("wkb", "polygons", PolygonsFromWkb(column.rows))

-----------------------------------------------------------------------------
(* Functions that change the values.                                       *)
ForceDimensions ==
  /\ IsBlob
  /\ \E z, m \in BOOLEAN :
       /\ \A row \in DOMAIN column.rows : ~Widens(Read(row), z, m)
       /\ IntoBlobs("blob", EachOf(LAMBDA b : Force(b, z, m, 0, 0)))

Flip ==
  \/ IsBlob /\ IntoBlobs("blob", EachOf(FlipCoordinates))
  \/ column.form = "points" /\ IntoLists("points", "points", EachOf(Flipped))
  \/ column.form = "lines" /\ IntoLists("lines", "lines", FlipList(column.rows))
  \/ column.form = "polygons" /\ IntoLists("polygons", "polygons", FlipList(column.rows))

(* One projection for all rows, into a system with the axes exchanged.      *)
TransformRows ==
  \E always_xy \in BOOLEAN :
    LET yx == Normalized(TRUE, always_xy)
    IN  \/ IsBlob /\ IntoBlobs("blob", EachOf(LAMBDA b : Transform(b, yx)))
        \/ /\ column.form = "points"
           /\ IntoLists("points", "points", EachOf(LAMBDA p : TransformVertex(p, yx)))

CollectRows ==
  /\ IsBlob
  /\ Len(column.rows) > 1
  /\ LET z == \E row \in DOMAIN column.rows : HasZM(column.rows[row])[1]
         m == \E row \in DOMAIN column.rows : HasZM(column.rows[row])[2]
     IN  \A row \in DOMAIN column.rows : IsEmpty(Read(row)) \/ ~Widens(Read(row), z, m)
  /\ IntoBlobs("blob", <<Collect(column.rows)>>)

DumpRows ==
  /\ IsBlob
  /\ LET items == FlattenSeq(EachOf(Dump))
     IN  /\ Len(items) \in 1..MaxRows
         /\ IntoBlobs("blob", [i \in DOMAIN items |-> items[i].geom])

ExtractRows ==
  /\ IsBlob
  /\ \/ \E type \in {"POINT", "LINESTRING", "POLYGON"} :
          IntoBlobs("blob", EachOf(LAMBDA b : ExtractType(b, type)))
     \/ IntoBlobs("blob", EachOf(ExtractAuto))

(* A filter or an ORDER BY in front of the next function.                  *)
Reorder ==
  /\ column.form \in {"lines", "polygons"}
  /\ \E sel \in {Reverse(column.rows.sel), Tail(column.rows.sel)} :
       /\ sel # <<>>
       /\ IntoLists(column.form, column.form, [column.rows EXCEPT !.sel = sel])

RemoveRepeatedPoints ==
  /\ column.form = "lines"
  /\ \/ IntoLists("lines", "lines", RemoveRepeated(column.rows))
     \/ /\ Len(column.rows.sel) = 1 \/ "last_vertex" \in Faults
        /\ IntoLists("lines", "lines", RemoveRepeatedWithin(column.rows, 2))

PointsOfLines ==
  \E n \in {-2, -1, 1, 2} :
    \/ /\ OfType("LINESTRING")
       /\ LET Nth(b) == PointN(b, n)
          IN  Made(Nth) /\ IntoBlobs("blob", EachOf(LAMBDA b : The(Nth, b)))
    \/ /\ column.form = "lines"
       /\ LET v == column.rows
          IN  /\ \A row \in Rows(v) : PointN2D(v, row, n) # {}
              /\ IntoLists("lines", "points",
                      [row \in Rows(v) |-> CHOOSE p \in PointN2D(v, row, n) : TRUE])

(* ST_ExteriorRing of a GEOMETRY sets Z and M to zero.                      *)
Shells ==
  \/ /\ OfType("POLYGON")
     /\ \/ \A row \in DOMAIN column.rows :
             IsEmpty(Read(row)) \/ HasZM(column.rows[row]) = <<FALSE, FALSE>>
        \/ "flat_shell" \in Faults
     /\ IntoBlobs("blob", EachOf(LAMBDA b : The(ExteriorRing, b)))
  \/ column.form = "polygons" /\ IntoLists("polygons", "lines", ExteriorRings(column.rows))

MakeLines ==
  /\ OfType("POINT")
  /\ \/ /\ Len(column.rows) = 2
        /\ \E line \in MakeLine(column.rows[1], column.rows[2]) : IntoBlobs("blob", <<line>>)
     \/ \E line \in MakeLineFromList(column.rows) : IntoBlobs("blob", <<line>>)

MakePolygons ==
  /\ IsBlob
  /\ \/ Made(MakePolygon) /\ IntoBlobs("blob", EachOf(LAMBDA b : The(MakePolygon, b)))
     \/ \E polygon \in MakePolygonFromRings(column.rows) : IntoBlobs("blob", <<polygon>>)

Next ==
  \/ AsWKB \/ WrittenElsewhere \/ GeomFromWKB \/ AsText \/ ListsAsText \/ GeomFromText
  \/ AsGeoJSON \/ GeomFromGeoJSON \/ ThroughGeos
  \/ ToPoints \/ ToLines \/ ToPolygons \/ FromLists \/ ListsFromWKB
  \/ ForceDimensions \/ Flip \/ TransformRows \/ CollectRows \/ DumpRows \/ ExtractRows
  \/ Reorder \/ RemoveRepeatedPoints \/ PointsOfLines \/ Shells \/ MakeLines \/ MakePolygons

Spec == Init /\ [][Next]_columnVars

=============================================================================
