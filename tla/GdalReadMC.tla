------------------------------ MODULE GdalReadMC ------------------------------
(***************************************************************************)
(* Instances of ST_Read.  A name is a stem in one of two spellings with    *)
(* numbers appended, so that "b" with 1 appended and a column called "b_1" *)
(* are one name; a plain layer has three columns that differ.  What varies *)
(* is either the names of the layer, or the request, or the stream, the    *)
(* others being plain; or the query lists files or drivers.                *)
(***************************************************************************)
EXTENDS GdalRead

CONSTANTS t1, t2, t3, null

MCThreads == {t1, t2, t3}

-----------------------------------------------------------------------------
Name(stem, upper, numbers) ==
  [stem |-> stem, upper |-> upper, numbers |-> numbers]

MCLower(n)       == [n EXCEPT !.upper = FALSE]
MCSuffixed(n, k) == [n EXCEPT !.numbers = Append(@, k)]

MCNames == [stem : {"a", "b"}, upper : BOOLEAN,
            numbers : UNION {[1..n -> 1..3] : n \in 0..3}]

Given == {Name("a", FALSE, <<>>), Name("a", TRUE, <<>>),
          Name("a", FALSE, <<1>>), Name("a", TRUE, <<2>>),
          Name("a", FALSE, <<1, 1>>), Name("b", FALSE, <<>>)}

MCDatasets == UNION {[1..n -> Given] : n \in 0..4}

-----------------------------------------------------------------------------
PlainLayer == <<Name("a", FALSE, <<>>), Name("b", FALSE, <<>>),
                Name("a", TRUE, <<2>>)>>

Compare(op, x) ==
  [type |-> "CONSTANT_COMPARISON", comparison_type |-> op, constant |-> x,
   cast |-> FALSE]

And(fs)   == [type |-> "CONJUNCTION_AND", child_filters |-> fs]
Or(fs)    == [type |-> "CONJUNCTION_OR", child_filters |-> fs]
IsNull    == [type |-> "IS_NULL"]
IsNotNull == [type |-> "IS_NOT_NULL"]

(* The filters DuckDB makes of comparisons: each comes with IS NOT NULL.   *)
Tests ==
  {And(<<Compare(op, x), IsNotNull>>) : op \in {"=", "<"}, x \in {1, 2}}
    \cup {IsNull, And(<<Compare(">=", 1), Compare("<", 2), IsNotNull>>)}

Disjunctions ==
  LET branches == {Compare("=", 0), Compare("=", 2),
                   And(<<Compare(">=", 1), Compare("<", 2)>>)}
  IN  {Or(<<f, g>>) : f, g \in branches}

MCFilters ==
  {Compare(op, x) : op \in {"=", "<", ">="}, x \in Values}
    \cup {IsNull, IsNotNull, And(<<Compare(">=", 1), Compare("<", 2)>>)}
    \cup Tests \cup Disjunctions

MCDepth(f) ==
  IF f.type \notin Conjunctions THEN 0
  ELSE IF \E g \in Range(f.child_filters) : g.type \in Conjunctions THEN 2
  ELSE 1

(* The scans of two columns that filter one, or both.                      *)
Pairs == {p \in [1..2 -> DOMAIN PlainLayer] : p[1] # p[2]}

OneFilter(fs) ==
  {[column_ids |-> p, filters |-> <<f>>] : p \in Pairs, f \in fs}

TwoFilters(fs, gs) ==
  {[column_ids |-> p, filters |-> <<f, g>>] : p \in Pairs, f \in fs, g \in gs}

PlainRequest == [column_ids |-> <<1>>, filters |-> <<IsNull>>]

-----------------------------------------------------------------------------
Good(n) == [length |-> n, quality |-> "good"]
Lost    == [length |-> 1, quality |-> "lost"]
Corrupt == [length |-> 2, quality |-> "corrupt"]

(* With vectors of two rows, a batch may be empty, end inside a vector,    *)
(* fill one, or need two.                                                  *)
MCStreams == {
  <<>>, <<Good(0)>>, <<Good(1), Good(2)>>, <<Good(3), Good(1), Good(2)>>,
  <<Good(2), Good(0), Good(3), Good(1)>>, <<Good(1), Lost, Good(3)>>,
  <<Good(3), Corrupt, Good(1)>>, <<Corrupt, Corrupt>>, <<Good(2), Lost>> }

Read(layer, q, batches) ==
  [attributes |-> layer, request |-> q, stream |-> batches, listing |-> NoListing]

(* Up to five files, and in each vector one that can be opened.            *)
MCListings ==
  {NoListing}
    \cup {[function |-> f, entries |-> es] :
            f \in {"ST_Read_Meta", "ST_Drivers"},
            es \in {es \in UNION {[1..n -> [shp : {TRUE}, readable : BOOLEAN]] : n \in 0..5} :
                     NoVectorLost(es)}}
    \cup {[function |-> "shapefile_meta", entries |-> es] :
            es \in UNION {[1..n -> Entries] : n \in 0..4}}

MCReads ==
  {Read(layer, PlainRequest, <<>>) : layer \in MCDatasets \ {<<>>}}
    \cup {Read(PlainLayer, q, <<>>) :
            q \in OneFilter(Tests \cup Disjunctions) \cup TwoFilters(Tests, Tests)}
    \cup {Read(PlainLayer, PlainRequest, batches) : batches \in MCStreams}
    \cup {[Read(PlainLayer, PlainRequest, <<>>) EXCEPT !.listing = l] : l \in MCListings}

(* An OR filter on one column and another filter on a second.              *)
DisjunctiveReads ==
  {Read(PlainLayer, q, <<>>) : q \in TwoFilters(Disjunctions, Tests)}

=============================================================================
