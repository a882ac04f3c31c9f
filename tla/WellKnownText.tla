---------------------------- MODULE WellKnownText ----------------------------
(***************************************************************************)
(* Geometries as text: the visitor that writes it (varchar_cast.cpp) and   *)
(* the parser that reads it (wkt_reader.cpp).  A text is a sequence of     *)
(* tokens: words, punctuation, numbers.  Blanks are left out, and so is    *)
(* the spelling of a number.                                               *)
(***************************************************************************)
EXTENDS GeometrySerde

Word(w)   == [k |-> "word", v |-> w]
Number(n) == [k |-> "number", v |-> n]

Comma == Word(",")
Open  == Word("(")
Close == Word(")")

Separated(texts) ==
  FlattenSeq([i \in DOMAIN texts |-> IF i = 1 THEN texts[i] ELSE <<Comma>> \o texts[i]])

InParens(text) == <<Open>> \o text \o <<Close>>

-----------------------------------------------------------------------------
(* GeometryTextProcessor.                                                  *)
Coordinates(a) ==
  Separated([i \in DOMAIN a.at |-> [d \in DOMAIN a.at[i] |-> Number(a.at[i][d])]])

DimensionWords(e) ==
  (IF e.z THEN <<Word("Z")>> ELSE <<>>) \o (IF e.m THEN <<Word("M")>> ELSE <<>>)

TypeWords(e, typed) == IF typed THEN <<>> ELSE <<Word(e.type)>> \o DimensionWords(e)

BugTypedInAnyCollection(e) == TRUE

ItemsTyped(e) == IsMulti(e.type)

RECURSIVE Text(_, _)
Text(e, typed) ==
  CASE IsCollection(e.type) ->
         TypeWords(e, FALSE) \o
         (IF e.count = 0 THEN <<Word("EMPTY")>>
          ELSE InParens(Separated([i \in DOMAIN e.items |-> Text(e.items[i], ItemsTyped(e))])))
    [] ~IsCollection(e.type) /\ e.count = 0 -> TypeWords(e, typed) \o <<Word("EMPTY")>>
    [] e.type = "POINT" /\ e.count > 0 ->
         IF typed THEN Coordinates(e.arrays[1])
         ELSE TypeWords(e, typed) \o InParens(Coordinates(e.arrays[1]))
    [] e.type = "LINESTRING" /\ e.count > 0 ->
         TypeWords(e, typed) \o InParens(Coordinates(e.arrays[1]))
    [] e.type = "POLYGON" /\ e.count > 0 ->
         TypeWords(e, typed) \o
         InParens(Separated([i \in DOMAIN e.arrays |-> InParens(Coordinates(e.arrays[i]))]))

-----------------------------------------------------------------------------
(* WKTReader.  The parser has its cursor, the dimensions once the first    *)
(* geometry has set them, what it has parsed, and whether it has thrown.   *)
NothingParsed == [v |-> <<>>, array |-> EmptyArray(FALSE, FALSE), g |-> Multi("NONE", <<>>)]

Sees(text, p, w) ==
  p.at <= Len(text) /\ text[p.at].k = "word" /\ text[p.at].v = w

Advance(p) == [p EXCEPT !.at = @ + 1]
Throw(p)   == [p EXCEPT !.ok = FALSE]

Match(text, p, w)  == IF Sees(text, p, w) THEN Advance(p) ELSE p
Expect(text, p, w) == IF ~p.ok THEN p ELSE IF Sees(text, p, w) THEN Advance(p) ELSE Throw(p)

ParseVertex(text, p) ==
  LET dims == Dims(p.z, p.m)
      is_number == \A d \in 0..(dims - 1) :
                     p.at + d <= Len(text) /\ text[p.at + d].k = "number"
  IN  IF ~p.ok THEN p
      ELSE IF ~is_number THEN Throw(p)
      ELSE [p EXCEPT !.at = @ + dims, !.out.v = [d \in 1..dims |-> text[p.at + d - 1].v]]

(* ParseVertices, and the vertices after the first one.                    *)
RECURSIVE ParseMoreVertices(_, _, _)
ParseMoreVertices(text, p, vertices) ==
  IF p.ok /\ Sees(text, p, ",")
  THEN LET q == ParseVertex(text, Advance(p))
       IN  ParseMoreVertices(text, q, Append(vertices, q.out.v))
  ELSE [p EXCEPT !.out.array = Array(p.z, p.m, vertices)]

ParseVertices(text, p) ==
  IF Sees(text, p, "EMPTY")
  THEN [Advance(p) EXCEPT !.out.array = EmptyArray(p.z, p.m)]
  ELSE LET first == ParseVertex(text, Expect(text, p, "("))
       IN  Expect(text, ParseMoreVertices(text, first, <<first.out.v>>), ")")

ParsePoint(text, p) ==
  IF Sees(text, p, "EMPTY")
  THEN [Advance(p) EXCEPT !.out.g = Simple("POINT", <<EmptyArray(p.z, p.m)>>)]
  ELSE LET q == ParseVertex(text, Expect(text, p, "("))
       IN  [Expect(text, q, ")") EXCEPT
              !.out.g = Simple("POINT", <<Array(p.z, p.m, <<q.out.v>>)>>)]

(* A point of a multipoint may stand in parentheses, or not.               *)
ParseMultiPointItem(text, p) ==
  LET paren == Sees(text, p, "(")
      q == ParseVertex(text, Match(text, p, "("))
  IN  [(IF paren THEN Expect(text, q, ")") ELSE q) EXCEPT
         !.out.g = Simple("POINT", <<Array(p.z, p.m, <<q.out.v>>)>>)]

ParseLineString(text, p) ==
  LET q == ParseVertices(text, p)
  IN  [q EXCEPT !.out.g = Simple("LINESTRING", <<q.out.array>>)]

RECURSIVE ParseMoreRings(_, _, _)
ParseMoreRings(text, p, rings) ==
  IF p.ok /\ Sees(text, p, ",")
  THEN LET q == ParseVertices(text, Advance(p))
       IN  ParseMoreRings(text, q, Append(rings, q.out.array))
  ELSE [p EXCEPT !.out.g = Simple("POLYGON", rings)]

ParsePolygon(text, p) ==
  IF Sees(text, p, "EMPTY") THEN [Advance(p) EXCEPT !.out.g = Simple("POLYGON", <<>>)]
  ELSE LET first == ParseVertices(text, Expect(text, p, "("))
       IN  Expect(text, ParseMoreRings(text, first, <<first.out.array>>), ")")

(* CheckZM.                                                                *)
SetDimensions(p, z, m) ==
  IF p.zm_set /\ <<p.z, p.m>> # <<z, m>> THEN Throw(p)
  ELSE [p EXCEPT !.z = z, !.m = m, !.zm_set = TRUE]

CheckZM(text, p) ==
  LET z == Sees(text, p, "Z")
      q == Match(text, p, "Z")
      m == Sees(text, q, "M")
  IN  SetDimensions(Match(text, q, "M"), z, m)

(* ParseGeometry, and the items of each collection.                        *)
RECURSIVE ParseGeometry(_, _), ParseItem(_, _, _), ParseMoreItems(_, _, _, _)

ParseItem(text, p, type) ==
  CASE ~p.ok -> p
    [] p.ok /\ type = "MULTIPOINT" -> ParseMultiPointItem(text, p)
    [] p.ok /\ type = "MULTILINESTRING" -> ParseLineString(text, p)
    [] p.ok /\ type = "MULTIPOLYGON" -> ParsePolygon(text, p)
    [] OTHER -> ParseGeometry(text, p)

ParseMoreItems(text, p, type, items) ==
  IF p.ok /\ Sees(text, p, ",")
  THEN LET q == ParseItem(text, Advance(p), type)
       IN  ParseMoreItems(text, q, type, Append(items, q.out.g))
  ELSE [p EXCEPT !.out.g = Multi(type, items)]

ParseCollection(text, p, type) ==
  IF Sees(text, p, "EMPTY") THEN [Advance(p) EXCEPT !.out.g = Multi(type, <<>>)]
  ELSE LET first == ParseItem(text, Expect(text, p, "("), type)
       IN  Expect(text, ParseMoreItems(text, first, type, <<first.out.g>>), ")")

ParseGeometry(text, p) ==
  LET known == \E i \in DOMAIN Types : Sees(text, p, Types[i])
      type  == text[p.at].v
      q     == CheckZM(text, Advance(p))
  IN  IF ~known THEN Throw(p)
      ELSE CASE ~q.ok -> q
             [] q.ok /\ type = "POINT" -> ParsePoint(text, q)
             [] q.ok /\ type = "LINESTRING" -> ParseLineString(text, q)
             [] q.ok /\ type = "POLYGON" -> ParsePolygon(text, q)
             [] OTHER -> ParseCollection(text, q, type)

Parse(text) ==
  ParseGeometry(text, [at |-> 1, zm_set |-> FALSE, z |-> FALSE, m |-> FALSE,
                       ok |-> TRUE, out |-> NothingParsed])

=============================================================================
