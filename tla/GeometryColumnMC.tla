-------------------------- MODULE GeometryColumnMC --------------------------
(***************************************************************************)
(* Columns to begin a query with: each type, empty and not, nested twice,  *)
(* in each of the four vertex types.  Ordinates are neither symmetric in X *)
(* and Y nor all exact as floats.                                          *)
(***************************************************************************)
EXTENDS GeometryProperties

Point3(x, y, z, m) == <<x, y>> \o (IF z THEN <<x + 10>> ELSE <<>>) \o (IF m THEN <<y - 30>> ELSE <<>>)

Line(at, z, m) == Array(z, m, [i \in DOMAIN at |-> Point3(at[i][1], at[i][2], z, m)])

P(z, m)  == Simple("POINT", <<Line(<< <<1, 2>> >>, z, m)>>)
P0(z, m) == Simple("POINT", <<EmptyArray(z, m)>>)
L(z, m)  == Simple("LINESTRING", <<Line(<< <<1, 2>>, <<1, 2>>, <<4, 6>>, <<5, 6>> >>, z, m)>>)
L2(z, m) == Simple("LINESTRING", <<Line(<< <<0, 0>>, <<0, 3>>, <<4, 3>>, <<0, 0>> >>, z, m)>>)
L0(z, m) == Simple("LINESTRING", <<EmptyArray(z, m)>>)
Outer    == << <<0, 0>>, <<0, 7>>, <<9, 7>>, <<9, 0>>, <<0, 0>> >>
Inner    == << <<1, 1>>, <<1, 3>>, <<4, 2>>, <<1, 1>> >>
A(z, m)  == Simple("POLYGON", <<Line(Outer, z, m), Line(Inner, z, m)>>)
A1(z, m) == Simple("POLYGON", <<Line(Inner, z, m)>>)
A0       == Simple("POLYGON", <<>>)

Nested(z, m) ==
  Multi("GEOMETRYCOLLECTION",
        <<Multi("GEOMETRYCOLLECTION", <<Multi("MULTILINESTRING", <<L(z, m), L2(z, m)>>), P(z, m)>>),
          A1(z, m), Multi("MULTIPOINT", <<P(z, m), P(z, m)>>)>>)

Col(gs, z, m) == [i \in DOMAIN gs |-> [g |-> gs[i], z |-> z, m |-> m]]

OfDims(z, m) ==
  { Col(<<P(z, m), P0(z, m)>>, z, m),
    Col(<<P(z, m), P(z, m)>>, z, m),
    Col(<<L(z, m), L2(z, m)>>, z, m),
    Col(<<L2(z, m), L0(z, m)>>, z, m),
    Col(<<A(z, m), A1(z, m)>>, z, m),
    Col(<<A1(z, m), A0>>, z, m),
    Col(<<Multi("MULTIPOINT", <<P(z, m), P0(z, m)>>)>>, z, m),
    Col(<<Multi("MULTIPOLYGON", <<A(z, m), A1(z, m)>>), L0(z, m)>>, z, m),
    Col(<<Nested(z, m)>>, z, m),
    Col(<<Multi("GEOMETRYCOLLECTION", <<A0, L0(z, m)>>),
          Multi("GEOMETRYCOLLECTION", <<P(z, m), A0>>)>>, z, m) }

MCColumns ==
  UNION {OfDims(z, m) : z, m \in BOOLEAN}
    \cup { <<[g |-> P(TRUE, FALSE), z |-> TRUE, m |-> FALSE],
             [g |-> P(FALSE, TRUE), z |-> FALSE, m |-> TRUE]>>,
           <<[g |-> L(TRUE, FALSE), z |-> TRUE, m |-> FALSE],
             [g |-> A1(FALSE, TRUE), z |-> FALSE, m |-> TRUE]>> }

(* GeoJSON of other programs: positions with and without Z in one array,   *)
(* an empty point before a Z is met, and one that is not a position.       *)
MCDocuments ==
  { <<Document("LINESTRING", << <<1, 2>>, <<4, 6, 8>> >>, <<>>),
      Document("MULTIPOLYGON", << << << <<0, 0, 1>>, <<0, 7>>, <<9, 7>>, <<0, 0>> >> >> >>, <<>>)>>,
    <<Document("GEOMETRYCOLLECTION", <<>>,
        <<Document("POINT", <<1, 2>>, <<>>), Document("MULTIPOINT", << <<3, 4, 5>>, <<6, 7>> >>, <<>>),
          Document("POINT", <<>>, <<>>)>>)>>,
    <<Document("POINT", <<1>>, <<>>)>> }

MCTestPoints ==
  {<<2, 2>>, <<3, 2>>, <<5, 5>>, <<5, 1>>, <<5, 3>>, <<10, 3>>, <<10, 7>>, <<-1, 1>>, <<-1, 2>>, <<-1, 0>>, <<2, 8>>}

MCTakeSets ==
  {Everything, AreaTakes,
   [Everything EXCEPT !["POLYGON"] = 0], [Everything EXCEPT !["POLYGON"] = 1],
   [t \in ToSet(Types) |-> 1]}

=============================================================================
