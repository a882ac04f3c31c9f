--------------------------- MODULE ShapefileReadMC ---------------------------
(***************************************************************************)
(* Shapefiles for ST_ReadSHP.  What varies is the names, the shapes, the   *)
(* attributes, the encoding, or the file that InitGlobal finds; the rest is*)
(* plain.                                                                  *)
(***************************************************************************)
EXTENDS ShapefileRead

(* A name is a stem with numbers appended.                                 *)
Stem(s)          == [stem |-> s, numbers |-> <<>>]
MCSuffixed(n, k) == [n EXCEPT !.numbers = Append(@, k)]
MCGeometryName   == Stem("geom")

MCNames == [stem : {"a", "geom"},
            numbers : UNION {[1..n -> 1..4] : n \in 0..4}]

GivenNames == {Stem("a"), MCGeometryName, MCSuffixed(Stem("a"), 1)}

Field(name, type, width) ==
  [name |-> name, type |-> type, width |-> width, precision |-> 0]

-----------------------------------------------------------------------------
(* Rings at a distance from each other: clockwise, counter-clockwise, flat.*)
Ring(x, kind) ==
  CASE kind = "cw"   -> <<<<x, 0>>, <<x, 1>>, <<x + 1, 0>>, <<x, 0>>>>
    [] kind = "ccw"  -> <<<<x, 0>>, <<x + 1, 0>>, <<x, 1>>, <<x, 0>>>>
    [] kind = "flat" -> <<<<x, 0>>, <<x + 1, 0>>, <<x, 0>>>>

Shape(type, parts) ==
  [type |-> type, vertices |-> FlattenSeq(parts),
   part_start |-> [p \in DOMAIN parts |-> Len(FlattenSeq(SubSeq(parts, 1, p - 1)))]]

Polygon(x, kinds) == Shape("POLYGON", [p \in DOMAIN kinds |-> Ring(10 * x + 2 * p, kinds[p])])
Lines(x, lengths) ==
  Shape("ARC", [p \in DOMAIN lengths |-> [n \in 1..lengths[p] |-> <<10 * x + p, n>>]])
Point(x)      == [type |-> "POINT", vertices |-> <<<<x, x>>>>, part_start |-> <<>>]
MultiPoint(x) == [type |-> "MULTIPOINT", vertices |-> <<<<x, 0>>, <<x, 1>>>>, part_start |-> <<>>]
NoShape       == [type |-> "NULL", vertices |-> <<>>, part_start |-> <<>>]

(* Records with one integer, which numbers them.                           *)
Numbered(shape_type, shapes) ==
  [shape_type |-> shape_type, shapes |-> shapes, cpg |-> "none",
   fields |-> <<Field(Stem("a"), "FTInteger", 9)>>,
   records |-> [r \in DOMAIN shapes |-> <<r>>]]

Points(n) == Numbered("POINT", [r \in 1..n |-> Point(r)])

Statement(before, now, encoding, column_ids) ==
  [file |-> before, now |-> now, encoding |-> encoding, column_ids |-> column_ids]

Plain(f) == Statement(f, f, "none", <<2, 1>>)

Kinds == UNION {[1..n -> {"cw", "ccw", "flat"}] : n \in 1..4}

Shapefiles ==
  {Points(n) : n \in 0..5}
    \cup {Numbered("POLYGON", <<Polygon(1, kinds), NoShape, Polygon(3, <<"cw">>)>>) :
            kinds \in Kinds}
    \cup {Numbered("ARC", <<Lines(1, <<2>>), Lines(2, <<2, 3, 1>>), NoShape>>),
          Numbered("MULTIPOINT", <<MultiPoint(1), NoShape, MultiPoint(3)>>),
          Numbered("NULL", <<NoShape, NoShape>>),
          Numbered("MULTIPATCH", <<>>)}

(* Tables whose names collide.                                             *)
NamesOnly(names_) ==
  [Points(0) EXCEPT !.fields = [f \in DOMAIN names_ |-> Field(names_[f], "FTLogical", 1)]]

Tables == UNION {[1..n -> GivenNames] : n \in 0..4}

-----------------------------------------------------------------------------
(* One column of three cells, of a type and an encoding.                   *)
OneColumn(field, cells, cpg) ==
  [Points(Len(cells)) EXCEPT !.fields = <<field>>, !.cpg = cpg,
                             !.records = [r \in DOMAIN cells |-> <<cells[r]>>]]

Texts == {<<97>>, <<233>>, <<195, 169>>, <<97, 191, 192>>, <<128, 255>>, Null}

Cells == {<<x, <<97, 98>>>> : x \in Texts}

Attributes ==
  {OneColumn(Field(Stem("a"), "FTString", 4), cells, cpg) :
     cells \in Cells, cpg \in {"none", "utf-8", "iso-8859-1", "cp1252"}}
    \cup {OneColumn(Field(Stem("a"), "FTDouble", w), <<n, Null, 0>>, "none") :
            w \in {18, 19}, n \in 0..15}
    \cup {OneColumn(Field(Stem("a"), "FTDate", 8), <<d, Null>>, "none") :
            d \in {"20240229", "blank"}}
    \cup {OneColumn(Field(Stem("a"), "FTLogical", 1), <<"T", "F", Null, "Y">>, "none"),
          OneColumn(Field(Stem("a"), "FTInvalid", 1), <<>>, "none")}

(* Files that were replaced after Bind, or are damaged.                    *)
Changed ==
  {Statement(Points(n), Points(m), "none", ids) :
     n \in {2, 3}, m \in 1..4, ids \in {<<1, 2>>, <<1>>, <<RowId>>}}
    \cup {Plain(Numbered("POINT", <<Point(1), Point(2), Damaged>>)),
          Plain([Points(3) EXCEPT !.records = <<<<1>>>>])}

MCReads ==
  {Plain(f) : f \in Shapefiles}
    \cup {Statement(f, f, "none", <<1>>) : f \in {NamesOnly(t) : t \in Tables}}
    \cup {Statement(f, f, encoding, <<1, 2>>) :
            f \in Attributes, encoding \in {"none", "utf", "latin", "blob", "other"}}
    \cup Changed

=============================================================================
