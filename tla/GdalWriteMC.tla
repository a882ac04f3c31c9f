----------------------------- MODULE GdalWriteMC -----------------------------
(***************************************************************************)
(* COPY statements for GdalCopy:  two attributes with the geometry before, *)
(* between or after them, chunks that are full, short or empty, and rows   *)
(* that Sink rejects.  No two cells of a statement are equal, so that a    *)
(* value in the wrong field shows.                                         *)
(***************************************************************************)
EXTENDS GdalCopy

CONSTANTS t1, t2, t3

MCThreads == {t1, t2, t3}
MCDrivers == {"GeoJSON", "OpenFileGDB"}

Column(n, type) == [name |-> n, type |-> type]
Id    == Column("id", "INTEGER")
Label == Column("label", "INTEGER")
Time  == Column("time", "TIME")
Geom(type) == Column("geom", type)

Layouts == {<<Geom(type), Id, Label>> : type \in {"GEOMETRY", "POINT_2D", "WKB_BLOB"}}
             \cup {<<Id, Geom("GEOMETRY"), Label>>, <<Time, Label, Geom("WKB_BLOB")>>}

(* The cell of a row in a column: a geometry has a kind.                   *)
Cell(columns, c, at, kind) ==
  CASE columns[c].type = "TIME"            -> [value |-> 86400 - 61 * at[2]]
    [] columns[c].type \in {"INTEGER", "LIST"} -> [attribute |-> <<columns[c].name, at>>]
    [] OTHER                              -> [kind |-> kind, value |-> at]

Row1(columns, at, kind) ==
  [c \in DOMAIN columns |-> Cell(columns, c, at, kind)]

(* The chunks of a table: their lengths, and the kind of its geometries.   *)
Chunks(columns, lengths, kind) ==
  [k \in DOMAIN lengths |->
     [r \in 1..lengths[k] |-> Row1(columns, <<k, r>>, kind)]]

Statement(options, columns, chunks) ==
  [options |-> options, columns |-> columns, chunks |-> chunks]

GeoJSON      == [DRIVER |-> "GeoJSON"]
Typed(d, g)  == [DRIVER |-> d, GEOMETRY_TYPE |-> g]

Plain(columns, lengths) ==
  Statement(GeoJSON, columns, Chunks(columns, lengths, "POINT"))

(* The first row of the second chunk is changed in one column.             *)
Spoiled(statement, c, cell) ==
  [statement EXCEPT !.chunks[2][1][c] = cell]

First  == <<Geom("WKB_BLOB"), Id, Label>>
Middle == <<Id, Geom("GEOMETRY"), Label>>
Lists  == <<Geom("GEOMETRY"), Column("tags", "LIST")>>

MCCopies ==
  {Plain(columns, <<2, 2, 1>>) : columns \in Layouts}
    \cup {Plain(Middle, <<3, 0, 1>>), Plain(<<Id>>, <<2, 1>>), Plain(Middle, <<>>)}
    \cup {Spoiled(Plain(First, <<2, 2, 1>>), 1, cell) :
            cell \in {Null, [kind |-> "MALFORMED", value |-> 0]}}
    \cup {Spoiled(Plain(First, <<2, 2>>), 2, Null)}
    \cup {Spoiled(Statement(Typed("OpenFileGDB", "POINT"), Middle,
                            Chunks(Middle, <<2, 2>>, "POINT")), 2, cell) :
            cell \in {[kind |-> "POINT", value |-> 0],
                      [kind |-> "POINT Z", value |-> 0]}}
    \cup {Plain(Lists, <<1, 1>>),
          Spoiled(Plain(Lists, <<0, 1>>), 2, Null),
          Plain(<<Geom("GEOMETRY"), Geom("POINT_2D")>>, <<1>>),
          Plain(<<Column("i", "INTERVAL")>>, <<1>>)}
    \cup {Statement(options, <<Id>>, <<>>) :
            options \in {[SRS |-> "EPSG:4326"], [DRIVER |-> "Unknown"],
                         [DRIVER |-> NotAString], [DRIVER |-> "OpenFileGDB"],
                         [DRIVER |-> "GeoJSON", FORMAT |-> "x"],
                         Typed("GeoJSON", "CIRCLE")}}

=============================================================================
