---------------------------- MODULE ShapefileScan ----------------------------
(***************************************************************************)
(* ST_ReadSHP: Bind opens the .shp and the .dbf file, counts the records   *)
(* and types the columns, InitGlobal opens the files again, and Execute    *)
(* converts the next records, the shapes and the attributes in columns of  *)
(* their own.  Bind data outlive a query (a prepared statement keeps them),*)
(* so the files that InitGlobal opens need not be the ones Bind saw.       *)
(***************************************************************************)
EXTENDS Integers, SequencesExt

CONSTANTS
  VectorSize, \* STANDARD_VECTOR_SIZE
  Mantissa,   \* the bits of the significand of a double
  Excess,     \* bound: the bits that a number of the table may have beyond them
  Null,       \* the SQL NULL
  Damaged,    \* a record of the .shp file that shapelib cannot read
  RowId       \* COLUMN_IDENTIFIER_ROW_ID, which stands for no column at all

ASSUME VectorSizeAssumption == VectorSize \in Nat \ {0}

(* Columns are counted from 1; COLUMN_IDENTIFIER_ROW_ID is none of them.   *)
ASSUME RowIdAssumption == RowId \notin Nat \ {0}

(* Powers of two (TLAPS does not know what powers are).                    *)
ASSUME MantissaAssumption ==
  /\ Mantissa \in Nat \ {0} /\ Excess \in Nat \ {0}
  /\ 2^Mantissa \in Nat \ {0} /\ 2^Mantissa % 2 = 0
  /\ \A k \in 0..Excess : /\ 2^k \in Nat \ {0} /\ 2^(k + 1) = 2 * 2^k
                          /\ 2^(Mantissa + k) = 2^Mantissa * 2^k

VARIABLES
  read,               \* the statement: files, encoding option, columns
  stage,              \* how far the statement is
  attribute_encoding, \* bind_data.attribute_encoding
  attribute_types,    \* bind_data.attribute_types
  shape_idx,          \* gstate.shape_idx: the records given
  rows                \* the rows given, in order

scanVars == <<read, stage, attribute_encoding, attribute_types, shape_idx, rows>>

ScanInit ==
  /\ stage = "bind"
  /\ attribute_encoding = "LATIN1"
  /\ attribute_types = <<>>
  /\ shape_idx = 0
  /\ rows = <<>>

(* read.file is what Bind opens, read.now what InitGlobal opens.           *)
file        == read.file
shape_count == Len(file.shapes)

-----------------------------------------------------------------------------
ShapeTypes == {"NULL", "POINT", "ARC", "POLYGON", "MULTIPOINT"}

(* The encoding that the text of a .cpg file names.                        *)
FromCpg(text) ==
  CASE text = "utf-8"      -> "UTF8"
    [] text = "iso-8859-1" -> "LATIN1"
    [] OTHER               -> "BLOB"

(* The "encoding" option, which overrides the .cpg file.                   *)
EncodingOptions == [utf |-> "UTF8", latin |-> "LATIN1", blob |-> "BLOB"]

OptionAccepted == read.encoding \in DOMAIN EncodingOptions \cup {"none"}

Encoding ==
  IF read.encoding # "none" THEN EncodingOptions[read.encoding]
  ELSE IF file.cpg # "none" THEN FromCpg(file.cpg)
  ELSE "LATIN1"

FieldTypes == {"FTString", "FTInteger", "FTDouble", "FTDate", "FTLogical"}

AttributeType(field) ==
  CASE field.type = "FTString"  -> IF Encoding = "BLOB" THEN "BLOB" ELSE "VARCHAR"
    [] field.type = "FTInteger" -> "INTEGER"
    [] field.type = "FTDouble"  ->
         IF field.precision = 0 /\ field.width < 19 THEN "BIGINT" ELSE "DOUBLE"
    [] field.type = "FTDate"    -> "DATE"
    [] field.type = "FTLogical" -> "BOOLEAN"

BindAccepted ==
  /\ file.shape_type \in ShapeTypes
  /\ OptionAccepted
  /\ \A f \in DOMAIN file.fields : file.fields[f].type \in FieldTypes

(* Bind up to the names of the columns.                                    *)
Bind ==
  /\ stage = "bind"
  /\ IF BindAccepted
     THEN /\ stage' = "bound"
          /\ attribute_encoding' = Encoding
          /\ attribute_types' = [f \in DOMAIN file.fields |-> AttributeType(file.fields[f])]
     ELSE stage' = "error" /\ UNCHANGED <<attribute_encoding, attribute_types>>
  /\ UNCHANGED <<read, shape_idx, rows>>

InitGlobal ==
  /\ stage = "bound"
  /\ stage' = "open"
  /\ UNCHANGED <<read, attribute_encoding, attribute_types, shape_idx, rows>>

-----------------------------------------------------------------------------
(* How the shapes that shapelib reads are converted.  A shape has its type,*)
(* its vertices, and the offset at which each part starts.                 *)

(* The vertices of a part: they end where the next part starts.            *)
Part(shape, p) ==
  SubSeq(shape.vertices, shape.part_start[p] + 1,
         IF p = Len(shape.part_start) THEN Len(shape.vertices)
                                      ELSE shape.part_start[p + 1])

Parts(shape, first, last) == [n \in 1..(last - first + 1) |-> Part(shape, first + n - 1)]
AllParts(shape)           == Parts(shape, 1, Len(shape.part_start))

ConvertPoint(shape) == [type |-> "POINT", points |-> <<shape.vertices[1]>>]

ConvertLineString(shape) ==
  IF Len(shape.part_start) = 1
  THEN [type |-> "LINESTRING", points |-> shape.vertices]
  ELSE [type |-> "MULTILINESTRING", lines |-> AllParts(shape)]

ConvertMultiPoint(shape) == [type |-> "MULTIPOINT", points |-> shape.vertices]

(* Twice the signed area of a ring, which is closed.                       *)
Area(ring) ==
  LET Cross(j) == ring[j][1] * ring[j + 1][2] - ring[j + 1][1] * ring[j][2]
  IN  FoldFunction(+, 0, [j \in 1..(Len(ring) - 1) |-> Cross(j)])

(* The parts with clockwise winding order each start a polygon.            *)
PolygonStarts(shape) ==
  LET starts[p \in 0..Len(shape.part_start)] ==
        IF p = 0 THEN <<>>
        ELSE IF Area(Part(shape, p)) < 0 THEN Append(starts[p - 1], p)
        ELSE starts[p - 1]
  IN  starts[Len(shape.part_start)]

BugPolygonEnd(shape, n) ==
  LET starts == PolygonStarts(shape)
  IN  IF n = Len(starts) THEN starts[n] ELSE starts[n + 1] - 1

PolygonEnd(shape, n) ==
  LET starts == PolygonStarts(shape)
  IN  IF n = Len(starts) THEN Len(shape.part_start) ELSE starts[n + 1] - 1

ConvertPolygon(shape) ==
  LET starts == PolygonStarts(shape)
  IN  IF Len(starts) < 2
      THEN [type |-> "POLYGON", rings |-> AllParts(shape)]
      ELSE [type |-> "MULTIPOLYGON",
            polygons |-> [n \in DOMAIN starts |->
                            Parts(shape, starts[n], PolygonEnd(shape, n))]]

(* ConvertGeometryVector: the conversion that the type of the file chooses.*)
Converted(shape_type, shape) ==
  CASE shape_type = "POINT"      -> ConvertPoint(shape)
    [] shape_type = "ARC"        -> ConvertLineString(shape)
    [] shape_type = "POLYGON"    -> ConvertPolygon(shape)
    [] shape_type = "MULTIPOINT" -> ConvertMultiPoint(shape)

(* All vertices of a geometry, in order.                                   *)
Flattened(geometry) ==
  CASE geometry.type = "MULTILINESTRING" -> FlattenSeq(geometry.lines)
    [] geometry.type = "POLYGON"         -> FlattenSeq(geometry.rings)
    [] geometry.type = "MULTIPOLYGON"    -> FlattenSeq(FlattenSeq(geometry.polygons))
    [] OTHER                             -> geometry.points

-----------------------------------------------------------------------------
(* LatinToUTF8Buffer: a byte above 127 becomes two.                        *)
BugOneLead(bytes) ==
  FlattenSeq([n \in DOMAIN bytes |->
                IF bytes[n] < 128 THEN <<bytes[n]>>
                ELSE <<194, (bytes[n] % 64) + 128>>])

LatinToUTF8(bytes) ==
  FlattenSeq([n \in DOMAIN bytes |->
                IF bytes[n] < 128 THEN <<bytes[n]>>
                ELSE <<194 + (IF bytes[n] > 191 THEN 1 ELSE 0),
                       (bytes[n] % 64) + 128>>])

(* Utf8Proc::IsValid for characters of one and of two bytes.               *)
IsLead(byte)         == byte \in 194..223
IsContinuation(byte) == byte \in 128..191

IsValid(bytes) ==
  \A n \in DOMAIN bytes :
    /\ bytes[n] < 128 \/ IsLead(bytes[n]) \/ IsContinuation(bytes[n])
    /\ IsLead(bytes[n]) => n < Len(bytes) /\ IsContinuation(bytes[n + 1])
    /\ IsContinuation(bytes[n]) => n > 1 /\ IsLead(bytes[n - 1])

Text(bytes) ==
  IF attribute_encoding = "LATIN1" THEN LatinToUTF8(bytes) ELSE bytes

(* The double nearest to a number, which shapelib reads it through.        *)
BugTruncated(n) ==
  LET k == CHOOSE k \in 0..Excess : n < 2^(Mantissa + k)
             /\ \A l \in 0..(k - 1) : n >= 2^(Mantissa + l)
  IN  n - (n % 2^k)

AsDouble(n) ==
  LET k    == CHOOSE k \in 0..Excess : n < 2^(Mantissa + k)
                 /\ \A l \in 0..(k - 1) : n >= 2^(Mantissa + l)
      unit == 2^k
      rest == n % unit
      up   == 2 * rest > unit \/ (2 * rest = unit /\ (n \div unit) % 2 = 1)
  IN  IF up THEN n - rest + unit ELSE n - rest

(* The attribute conversions.  Cells are the bytes of a text, a number, the*)
(* letter of a logical value, or a date, which may be "blank".             *)
ConvertAttribute(type, cell) ==
  CASE type = "VARCHAR"              -> Text(cell)
    [] type \in {"BIGINT", "DOUBLE"} -> AsDouble(cell)
    [] type = "BOOLEAN"              -> cell = "T"
    [] OTHER                         -> cell

(* The text of a date that is blank has no digits to take a date from.     *)
AttributeRejected(type, cell) ==
  \/ type = "VARCHAR" /\ ~IsValid(Text(cell))
  \/ type = "DATE" /\ cell = "blank"

(* shapelib: a field that the file does not have, or a record beyond the   *)
(* last, is NULL, as are blanks, asterisks, zero dates and a logical "?".  *)
Cell(r, f) ==
  LET records == read.now.records
  IN  IF r \in DOMAIN records /\ f \in DOMAIN records[r] THEN records[r][f] ELSE Null

-----------------------------------------------------------------------------
(* Execute converts the records of the batch for each column it returns.   *)
GeometryColumn(id) == id = Len(file.fields) + 1

BugWholeVectors ==
  IF shape_count - shape_idx < VectorSize THEN 0 ELSE VectorSize

OutputSize ==
  IF shape_count - shape_idx < VectorSize THEN shape_count - shape_idx ELSE VectorSize

Batch == (shape_idx + 1)..(shape_idx + OutputSize)

Projected == {read.column_ids[c] : c \in DOMAIN read.column_ids}

GeometryRead == \E id \in Projected : GeometryColumn(id)

(* SHPReadObject returns no object, and Execute looks at its type.         *)
ShapeLost(r) ==
  LET shapes == read.now.shapes
  IN  r \in DOMAIN shapes => shapes[r] = Damaged

Undefined ==
  file.shape_type # "NULL" /\ GeometryRead /\ \E r \in Batch : ShapeLost(r)

Geometry(r) ==
  IF file.shape_type = "NULL" \/ read.now.shapes[r].type = "NULL" THEN Null
  ELSE Converted(file.shape_type, read.now.shapes[r])

Attribute(r, f) ==
  IF Cell(r, f) = Null THEN Null ELSE ConvertAttribute(attribute_types[f], Cell(r, f))

Value(r, id) ==
  CASE GeometryColumn(id) -> Geometry(r)
    [] id = RowId         -> Null
    [] OTHER              -> Attribute(r, id)

Rejected ==
  \E f \in Projected \cap DOMAIN file.fields : \E r \in Batch :
    Cell(r, f) # Null /\ AttributeRejected(attribute_types[f], Cell(r, f))

BugRowInBatch(r) ==
  [c \in DOMAIN read.column_ids |->
     LET id == read.column_ids[c]
     IN  Value(IF GeometryColumn(id) THEN r ELSE r - shape_idx, id)]

Row(r) == [c \in DOMAIN read.column_ids |-> Value(r, read.column_ids[c])]

Execute ==
  /\ stage = "open"
  /\ ~Undefined /\ ~Rejected
  /\ rows' = rows \o [k \in 1..OutputSize |-> Row(shape_idx + k)]
  /\ shape_idx' = shape_idx + OutputSize
  /\ stage' = IF OutputSize = 0 THEN "done" ELSE "open"
  /\ UNCHANGED <<read, attribute_encoding, attribute_types>>

(* Which of the two comes first depends on the order of the columns.       *)
ExecuteFails ==
  /\ stage = "open"
  /\ \/ Rejected /\ stage' = "error"
     \/ Undefined /\ stage' = "undefined"
  /\ UNCHANGED <<read, attribute_encoding, attribute_types, shape_idx, rows>>

Ended == stage \in {"done", "error", "undefined"}

-----------------------------------------------------------------------------
ScanTypeOK ==
  /\ stage \in {"bind", "bound", "open", "done", "error", "undefined"}
  /\ attribute_encoding \in {"UTF8", "LATIN1", "BLOB"}
  /\ stage = "open" => Len(attribute_types) = Len(file.fields)
  /\ shape_idx \in 0..shape_count
  /\ Len(rows) = shape_idx

(* The number itself where Mantissa bits hold it, else one that is off by no*)
(* more than the half of the last of its bits.                             *)
Rounded(v, n) ==
  \/ v = n
  \/ n > 2^Mantissa /\ (v - n) * 2^Mantissa <= n /\ (n - v) * 2^Mantissa <= n

(* The shapes and the attributes are read by separate loops over separate  *)
(* files and put together again by position.  Row r has the vertices of    *)
(* shape r and the cells of record r, batch after batch; numbers go through*)
(* a double, which keeps them up to 2^Mantissa and rounds them beyond.     *)
RowsAreRecords ==
  \A r \in DOMAIN rows : \A c \in DOMAIN read.column_ids :
    LET id == read.column_ids[c]
        v  == rows[r][c]
    IN  /\ GeometryColumn(id) /\ v # Null =>
             ToSet(Flattened(v)) \subseteq ToSet(read.now.shapes[r].vertices)
        /\ id \in DOMAIN file.fields /\ attribute_types[id] \in {"INTEGER", "DATE", "BLOB"} =>
             v = Cell(r, id)
        /\ id \in DOMAIN file.fields /\ attribute_types[id] \in {"BIGINT", "DOUBLE"} =>
             Rounded(v, Cell(r, id))

(* A scan that ends well has given every record counted by Bind.           *)
CompleteWhenDone == stage = "done" => Len(rows) = shape_count

(* The rings of a polygon.  When its first part is clockwise, as it is in a*)
(* well-formed shapefile, no vertex is lost or moves, each polygon starts  *)
(* with a clockwise ring, and none has a second.                           *)
RingsKept ==
  \A r \in DOMAIN rows : \A c \in DOMAIN read.column_ids :
    LET shape == read.now.shapes[r]
        v     == rows[r][c]
        Clockwise(ring) == Area(ring) < 0
    IN  GeometryColumn(read.column_ids[c]) /\ v # Null =>
          \/ file.shape_type = "POLYGON" /\ ~Clockwise(Part(shape, 1))
          \/ /\ Flattened(v) = shape.vertices
             /\ v.type = "MULTIPOLYGON" =>
                  \A n \in DOMAIN v.polygons : \A p \in DOMAIN v.polygons[n] :
                    Clockwise(v.polygons[n][p]) <=> p = 1

(* Text is what the encoding says: the characters of a Latin-1 text are the*)
(* bytes of the file, and a text that is not valid is never given.         *)
Character(text, n) ==
  IF text[n] < 128 THEN text[n] ELSE (text[n] - 192) * 64 + (text[n + 1] - 128)

Spells(text, bytes) ==
  \E at \in [DOMAIN bytes -> DOMAIN text] :
    /\ \A k, l \in DOMAIN bytes : k < l => at[k] < at[l]
    /\ \A n \in DOMAIN text : ~IsContinuation(text[n]) => \E k \in DOMAIN bytes : at[k] = n
    /\ \A k \in DOMAIN bytes : Character(text, at[k]) = bytes[k]

TextDecoded ==
  \A r \in DOMAIN rows : \A c \in DOMAIN read.column_ids :
    LET id == read.column_ids[c]
        v  == rows[r][c]
    IN  id \in DOMAIN file.fields /\ attribute_types[id] = "VARCHAR" /\ v # Null =>
          /\ IsValid(v)
          /\ IF read.encoding = "latin" \/ (read.encoding = "none" /\ file.cpg \in {"none", "iso-8859-1"})
             THEN Spells(v, Cell(r, id))
             ELSE v = Cell(r, id)

=============================================================================
