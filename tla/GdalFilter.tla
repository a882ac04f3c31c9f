------------------------------ MODULE GdalFilter ------------------------------
(***************************************************************************)
(* The pushdown of the filters of a query into GDAL by ST_Read.  DuckDB    *)
(* hands the scan a tree of tests for each filtered column; FilterToGdal   *)
(* spells them as one clause of OGR SQL, with the names that the columns   *)
(* have in the layer, and SetAttributeFilter installs it.  DuckDB does not *)
(* test again what it has pushed down.                                     *)
(***************************************************************************)
EXTENDS GdalColumnNames, SequencesExt

CONSTANTS
  Values,   \* the values of the columns
  Null,     \* NULL
  Filters,  \* the filters that DuckDB hands over, and their children
  Depth(_), \* how many conjunctions a filter has one inside the other
  MaxDepth  \* DuckDB limits the depth of expressions

Conjunctions == {"CONJUNCTION_AND", "CONJUNCTION_OR"}
FilterTypes  == Conjunctions \cup {"CONSTANT_COMPARISON", "IS_NULL", "IS_NOT_NULL"}

ASSUME FiltersAssumption ==
  /\ MaxDepth \in Nat
  /\ \A f \in Filters : f.type \in FilterTypes /\ Depth(f) \in 0..MaxDepth
  /\ \A f \in Filters : f.type \in Conjunctions =>
       /\ f.child_filters \in Seq(Filters) /\ f.child_filters # <<>>
       /\ \A i \in DOMAIN f.child_filters : Depth(f.child_filters[i]) < Depth(f)

(* A request reads some columns, by their places in the layer, and filters *)
(* some of those, by their places among the columns it reads.              *)
VARIABLES
  request, \* TableFunctionInitInput: the columns read and the filters
  stage,   \* "bound", "built" and "open": how far InitGlobal is
  clause,  \* filter_clause: a sequence of words
  filter   \* the attribute filter of the layer; <<>> if it has none

filterVars == <<request, stage, clause, filter>>

FilterInit ==
  /\ stage = "bound"
  /\ clause = <<>>
  /\ filter = <<>>

-----------------------------------------------------------------------------
(* What a filter says of the value of its column.  A comparison with NULL  *)
(* is not true.                                                            *)
Compares(op, x, y) ==
  CASE op = "="  -> x = y
    [] op = "<"  -> x < y
    [] op = ">=" -> x >= y

Passes(f, x) ==
  CASE f.type = "CONSTANT_COMPARISON" ->
         x # Null /\ Compares(f.comparison_type, x, f.constant)
    [] f.type = "IS_NULL"     -> x = Null
    [] f.type = "IS_NOT_NULL" -> x # Null

Meets(f, x) ==
  LET meets[g \in Filters] ==
        LET met == {meets[g.child_filters[i]] : i \in DOMAIN g.child_filters}
        IN  IF g.type = "CONJUNCTION_AND" THEN FALSE \notin met
            ELSE IF g.type = "CONJUNCTION_OR" THEN TRUE \in met
            ELSE Passes(g, x)
  IN  meets[f]

-----------------------------------------------------------------------------
(* The words of a clause: a test of a column, AND, OR.                     *)
Test(column, f) == <<[word |-> "test", column |-> column, filter |-> f]>>

AndWord == <<[word |-> "AND"]>>
OrWord  == <<[word |-> "OR"]>>

(* StringUtil::Join                                                        *)
Join(clauses, separator) ==
  FlattenSeq([i \in DOMAIN clauses |->
               IF i = 1 THEN clauses[i] ELSE separator \o clauses[i]])

FilterToGdal(f, column) ==
  LET clauseOf[g \in Filters] ==
        IF g.type \in Conjunctions
        THEN Join([i \in DOMAIN g.child_filters |-> clauseOf[g.child_filters[i]]],
                  IF g.type = "CONJUNCTION_AND" THEN AndWord ELSE OrWord)
        ELSE Test(column, g)
  IN  clauseOf[f]

(* The name, in the layer, of the column that the filter at a place is     *)
(* about.                                                                  *)
BugColumnOfPlace(i) == attributes[i]

FilteredColumn(i) == attributes[request.column_ids[i]]

(* The filters come out of an unordered map, in any order.                 *)
BuildClause ==
  /\ stage = "bound" /\ Renamed
  /\ \E order \in SetToSeqs(DOMAIN request.filters) :
       clause' = Join([k \in DOMAIN order |->
                         FilterToGdal(request.filters[order[k]],
                                      FilteredColumn(order[k]))],
                      AndWord)
  /\ stage' = "built"
  /\ UNCHANGED <<request, filter>>

-----------------------------------------------------------------------------
(* GDAL.  A constant that is spelled with a cast ('2024-01-01'::DATE) is   *)
(* not OGR SQL: GDAL refuses the clause and keeps no filter, and the scan  *)
(* does not look at the outcome.                                           *)
Understood(words) ==
  \A k \in DOMAIN words :
    words[k].word = "test" /\ words[k].filter.type = "CONSTANT_COMPARISON"
      => ~words[k].filter.cast

SetAttributeFilter ==
  /\ stage = "built"
  /\ filter' = IF Understood(clause) THEN clause ELSE <<>>
  /\ stage' = "open"
  /\ UNCHANGED <<request, clause>>

(* In OGR SQL, AND binds tighter than OR: a clause is a disjunction of the *)
(* conjunctions between its ORs.                                           *)
IsOr(words, k) == k \in {0, Len(words) + 1} \/ words[k].word = "OR"

Between(words, i, j) ==
  /\ i < j /\ IsOr(words, i) /\ IsOr(words, j)
  /\ \A k \in (i + 1)..(j - 1) : words[k].word # "OR"

ValueOf(row, column) ==
  row[CHOOSE k \in DOMAIN attributes : attributes[k] = column]

Selects(words, row) ==
  \E i, j \in 0..(Len(words) + 1) :
    /\ Between(words, i, j)
    /\ \A k \in (i + 1)..(j - 1) : words[k].word = "test" =>
         Passes(words[k].filter, ValueOf(row, words[k].column))

-----------------------------------------------------------------------------
Rows == [DOMAIN attributes -> Values \cup {Null}]

LayerNamesDiffer ==
  \A i, j \in DOMAIN attributes :
    i # j => Lower(attributes[i]) # Lower(attributes[j])

(* Of a layer whose columns can be told apart, the scan reads the rows that*)
(* meet every filter of the query, and only those, in whatever order the   *)
(* filters come and whatever columns are read: nobody filters again.       *)
PushdownSelectsTheSameRows ==
  stage = "open" /\ LayerNamesDiffer =>
    \A row \in Rows :
      Selects(filter, row) <=>
        \A i \in DOMAIN request.filters :
          Meets(request.filters[i], row[request.column_ids[i]])

=============================================================================
