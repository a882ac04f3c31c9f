---------------------------- MODULE GeometryValues ----------------------------
(***************************************************************************)
(* What the functions on geometries promise: a column of geometries is a   *)
(* sequence of values, and only a function that is meant to change them    *)
(* does, each row by itself and from that row alone.  A value is a type,   *)
(* its parts (sequences of vertices) and its items; a vertex has its       *)
(* ordinates by name.                                                      *)
(*                                                                         *)
(* In which form the column is kept, and every conversion from one form to *)
(* another, is not seen here.                                              *)
(***************************************************************************)
EXTENDS Integers, Sequences, SequencesExt

CONSTANT Fill  \* what an ordinate that was missing is given

VARIABLE values

MultiType == [POINT |-> "MULTIPOINT", LINESTRING |-> "MULTILINESTRING",
              POLYGON |-> "MULTIPOLYGON"]

SimpleTypes == DOMAIN MultiType

Value(type, parts, items) == [type |-> type, parts |-> parts, items |-> items]

RECURSIVE Size(_)
Size(g) == SumFunction([i \in DOMAIN g.parts |-> Len(g.parts[i])])
             + SumFunction([i \in DOMAIN g.items |-> Size(g.items[i])])

RECURSIVE Atoms(_)
Atoms(g) == IF g.type \in SimpleTypes THEN <<g>>
            ELSE FlattenSeq([i \in DOMAIN g.items |-> Atoms(g.items[i])])

NonEmpty(gs) == SelectSeq(gs, LAMBDA g : Size(g) > 0)

EachRow(Op(_)) == values' = [row \in DOMAIN values |-> Op(values[row])]

All(type) == \A row \in DOMAIN values : values[row].type = type

-----------------------------------------------------------------------------
(* Every vertex gets the ordinates of the dimensions asked for.            *)
RECURSIVE Forced(_, _)
Forced(g, dims) ==
  [g EXCEPT !.parts = [i \in DOMAIN @ |-> [j \in DOMAIN @[i] |->
                         [d \in dims |-> IF d \in DOMAIN @[i][j] THEN @[i][j][d] ELSE Fill]]],
            !.items = [i \in DOMAIN @ |-> Forced(@[i], dims)]]

Force == \E zm \in SUBSET {"z", "m"} : EachRow(LAMBDA g : Forced(g, {"x", "y"} \cup zm))

(* GeoJSON has no M.                                                       *)
RECURSIVE Without(_, _)
Without(g, dim) ==
  [g EXCEPT !.parts = [i \in DOMAIN @ |-> [j \in DOMAIN @[i] |->
                         [d \in DOMAIN @[i][j] \ {dim} |-> @[i][j][d]]]],
            !.items = [i \in DOMAIN @ |-> Without(@[i], dim)]]

WithoutM == EachRow(LAMBDA g : Without(g, "m"))

Swapped(v) == [v EXCEPT !["x"] = v["y"], !["y"] = v["x"]]

RECURSIVE FlippedXY(_)
FlippedXY(g) ==
  [g EXCEPT !.parts = [i \in DOMAIN @ |-> [j \in DOMAIN @[i] |-> Swapped(@[i][j])]],
            !.items = [i \in DOMAIN @ |-> FlippedXY(@[i])]]

Flip == EachRow(FlippedXY)

(* X and Y in another reference system, the axes in one order or the other.*)
Projected(v, yx) == [v EXCEPT !["x"] = IF yx THEN v["y"] ELSE 12 - v["x"],
                              !["y"] = IF yx THEN 12 - v["x"] ELSE v["y"]]

RECURSIVE ProjectedAll(_, _)
ProjectedAll(g, yx) ==
  [g EXCEPT !.parts = [i \in DOMAIN @ |-> [j \in DOMAIN @[i] |-> Projected(@[i][j], yx)]],
            !.items = [i \in DOMAIN @ |-> ProjectedAll(@[i], yx)]]

Transform == \E yx \in BOOLEAN : EachRow(LAMBDA g : ProjectedAll(g, yx))

(* All rows in one, the empty ones left out, each with all the ordinates   *)
(* any of them has; an empty geometry may ask for some that no vertex has. *)
DimsOf(gs) ==
  UNION UNION {UNION {{DOMAIN a.parts[i][j] : j \in DOMAIN a.parts[i]} : i \in DOMAIN a.parts} :
                 a \in ToSet(FlattenSeq([k \in DOMAIN gs |-> Atoms(gs[k])]))}

Collected(gs, dims) ==
  LET types == {g.type : g \in ToSet(gs)}
  IN  Value(IF Cardinality(types) = 1 /\ types \subseteq SimpleTypes
            THEN MultiType[CHOOSE t \in types : TRUE] ELSE "GEOMETRYCOLLECTION",
            <<>>, [i \in DOMAIN gs |-> Forced(gs[i], dims)])

Collect ==
  \E zm \in SUBSET {"z", "m"} :
    /\ DimsOf(values) \subseteq {"x", "y"} \cup zm
    /\ values' = <<Collected(NonEmpty(values), {"x", "y"} \cup zm)>>

(* A row for each simple geometry, in the order in which they are written. *)
Dump == values' = FlattenSeq([row \in DOMAIN values |-> Atoms(values[row])])

(* The simple geometries of one type, or of the highest dimension.         *)
Extracted(g, type) ==
  LET atoms == SelectSeq(Atoms(g), LAMBDA a : a.type = type)
  IN  CASE g.type \in {type, MultiType[type]} -> g
        [] g.type \notin SimpleTypes \cup {MultiType[type]} ->
             Value(MultiType[type], <<>>, IF Size(g) = 0 THEN <<>> ELSE atoms)
        [] OTHER -> Value(type, IF type = "POLYGON" THEN <<>> ELSE << <<>> >>, <<>>)

Extract == \E type \in SimpleTypes : EachRow(LAMBDA g : Extracted(g, type))

Highest(g) ==
  LET types == {a.type : a \in ToSet(NonEmpty(Atoms(g)))}
  IN  CASE "POLYGON" \in types -> "POLYGON" [] "POLYGON" \notin types /\ "LINESTRING" \in types -> "LINESTRING"
        [] OTHER -> "POINT"

ExtractHighest ==
  EachRow(LAMBDA g : IF g.type # "GEOMETRYCOLLECTION" \/ Size(g) = 0 THEN g
                     ELSE Extracted(g, Highest(g)))

(* Rows in another order, or without the first.                            *)
Select == values' \in {Reverse(values), Tail(values)}

-----------------------------------------------------------------------------
(* A line without vertices that repeat the one before; a line always keeps *)
(* its two ends.                                                           *)
Thinned(at) ==
  LET kept == SelectSeq([i \in DOMAIN at |-> i], LAMBDA i : i = 1 \/ at[i] # at[i - 1])
  IN  CASE Len(at) < 3 -> at
        [] Len(at) >= 3 /\ Len(kept) = 1 -> <<at[1], Last(at)>>
        [] OTHER -> [i \in DOMAIN kept |-> at[kept[i]]]

RemoveRepeated ==
  /\ All("LINESTRING")
  /\ EachRow(LAMBDA g : [g EXCEPT !.parts = <<Thinned(@[1])>>])

(* With a tolerance: some of the vertices, the two ends among them, none   *)
(* within the tolerance of the one before but perhaps the last.            *)
Square(n) == n * n

ThinnedWithin(at, thin, tolerance) ==
  /\ \E s \in SUBSET DOMAIN at :
       thin = [i \in 1..Cardinality(s) |->
                 at[CHOOSE k \in s : Cardinality({n \in s : n <= k}) = i]]
  /\ at # <<>> => thin[1] = at[1] /\ Last(thin) = Last(at)
  /\ Len(at) >= 3 =>
       \A i \in 2..(Len(thin) - 1) :
         Square(thin[i]["x"] - thin[i - 1]["x"]) + Square(thin[i]["y"] - thin[i - 1]["y"])
           > Square(tolerance)

RemoveWithin(tolerance) ==
  /\ All("LINESTRING")
  /\ DOMAIN values' = DOMAIN values
  /\ \A row \in DOMAIN values :
       /\ values'[row].type = "LINESTRING"
       /\ ThinnedWithin(values[row].parts[1], values'[row].parts[1], tolerance)

(* Vertices made into other geometries.                                    *)
PointN == \E n \in -10..10 :
  /\ All("LINESTRING")
  /\ \A row \in DOMAIN values : n # 0 /\ Len(values[row].parts[1]) >= (IF n < 0 THEN -n ELSE n)
  /\ EachRow(LAMBDA g : LET at == g.parts[1]
                        IN  Value("POINT", << <<at[IF n < 0 THEN Len(at) + 1 + n ELSE n]>> >>, <<>>))

ExteriorRing ==
  /\ All("POLYGON")
  /\ EachRow(LAMBDA g : Value("LINESTRING", IF g.parts = <<>> THEN << <<>> >> ELSE <<g.parts[1]>>, <<>>))

MakeLine ==
  /\ All("POINT")
  /\ values' = <<Value("LINESTRING",
                    <<Forced(Value("LINESTRING",
                                   <<FlattenSeq([row \in DOMAIN values |-> values[row].parts[1]])>>,
                                   <<>>),
                             DimsOf(values) \cup {"x", "y"}).parts[1]>>, <<>>)>>

MakePolygon ==
  /\ All("LINESTRING")
  /\ \/ EachRow(LAMBDA g : Value("POLYGON", g.parts, <<>>))
     \/ values' = <<Value("POLYGON", [row \in DOMAIN values |-> values[row].parts[1]], <<>>)>>

Next ==
  \/ Force \/ WithoutM \/ Flip \/ Transform \/ Collect \/ Dump \/ Extract \/ ExtractHighest \/ Select
  \/ RemoveRepeated \/ RemoveWithin(2) \/ PointN \/ ExteriorRing \/ MakeLine \/ MakePolygon

Spec == [][Next]_values

=============================================================================
