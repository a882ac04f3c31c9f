-------------------------- MODULE EnvelopeAggregate --------------------------
(***************************************************************************)
(* ST_Envelope_Agg run by several threads: each folds the geometries it is *)
(* given into a state of its own, the states are combined one after the    *)
(* other into a single state, which Finalize turns into a polygon.         *)
(*                                                                         *)
(* A geometry is known by its exact bounding box.  What the aggregate      *)
(* reads is the box stored in the serialized geometry, kept in single      *)
(* precision and rounded outwards, except that a point stores no box: its  *)
(* exact coordinates are read.                                             *)
(***************************************************************************)
EXTENDS SinglePrecision, FiniteSets

CONSTANTS
  Threads,
  Target,    \* the state the others are combined into
  Rows,      \* the rows aggregated
  Tables,    \* functions giving each row its geometry
  Garbage,   \* what the coordinates of an uninitialized state may hold
  Nowhere    \* for a row that no state holds yet

Boxes == [xmin : Int, xmax : Int, ymin : Int, ymax : Int]
Kinds == {"point", "empty", "other"}
Geometries == [kind : Kinds, box : Boxes]

IsBox(b) == b.xmin <= b.xmax /\ b.ymin <= b.ymax

ASSUME EnvelopeAssumption ==
  /\ Threads # {} /\ Target \notin Threads
  /\ FloatStep \in Nat \ {0}
  /\ FloatMax \in Nat /\ FloatMax % FloatStep = 0
  /\ Tables \subseteq [Rows -> Geometries]
  /\ \A table \in Tables : \A r \in Rows : IsBox(table[r].box)
  /\ Garbage \subseteq Boxes
  /\ Nowhere \notin Threads \cup {Target}

States == Threads \cup {Target}

(* Every coordinate of the table is within the range of single precision.  *)
WithinRange(table) ==
  \A r \in Rows : LET b == table[r].box
                 IN /\ b.xmin \in -FloatMax..FloatMax /\ b.xmax \in -FloatMax..FloatMax
                    /\ b.ymin \in -FloatMax..FloatMax /\ b.ymax \in -FloatMax..FloatMax

VARIABLES
  geometry, \* the table being aggregated
  is_set,   \* EnvelopeAggState::is_set of each state
  bounds,   \* its four coordinates
  combined, \* the threads whose state has been combined
  holder,   \* the state a row has been folded into, Nowhere before
  result    \* "none", "null", or "box" once Finalize has run

vars == <<geometry, is_set, bounds, combined, holder, result>>

-----------------------------------------------------------------------------
(* GeometryFactory::TryGetSerializedBoundingBox.                           *)
HasBox(g) == g.kind # "empty"

StoredBox(g) ==
  IF g.kind = "point" THEN g.box
  ELSE [xmin |-> Down(g.box.xmin), xmax |-> Up(g.box.xmax),
        ymin |-> Down(g.box.ymin), ymax |-> Up(g.box.ymax)]

Lesser(a, b)  == IF a <= b THEN a ELSE b
Greater(a, b) == IF a >= b THEN a ELSE b

BugMaxOfYLost(a, b) ==
  [xmin |-> Lesser(a.xmin, b.xmin), xmax |-> Greater(a.xmax, b.xmax),
   ymin |-> Lesser(a.ymin, b.ymin), ymax |-> Lesser(a.ymax, b.ymax)]

Merged(a, b) ==
  [xmin |-> Lesser(a.xmin, b.xmin), xmax |-> Greater(a.xmax, b.xmax),
   ymin |-> Lesser(a.ymin, b.ymin), ymax |-> Greater(a.ymax, b.ymax)]

-----------------------------------------------------------------------------
(* Initialize sets is_set only.                                            *)
Init ==
  /\ geometry \in Tables
  /\ is_set = [s \in States |-> FALSE]
  /\ bounds \in {[s \in States |-> g] : g \in Garbage}
  /\ combined = {}
  /\ holder = [r \in Rows |-> Nowhere]
  /\ result = "none"

(* Operation; ConstantOperation calls it once for a whole constant vector. *)
Operation(t, r) ==
  /\ t \notin combined
  /\ holder[r] = Nowhere
  /\ holder' = [holder EXCEPT ![r] = t]
  /\ IF HasBox(geometry[r])
     THEN /\ is_set' = [is_set EXCEPT ![t] = TRUE]
          /\ bounds' = [bounds EXCEPT ![t] =
               IF is_set[t] THEN Merged(@, StoredBox(geometry[r]))
                            ELSE StoredBox(geometry[r])]
     ELSE UNCHANGED <<is_set, bounds>>
  /\ UNCHANGED <<geometry, combined, result>>

BugTargetNotChecked(source) ==
  IF is_set[source]
  THEN /\ is_set' = [is_set EXCEPT ![Target] = TRUE]
       /\ bounds' = [bounds EXCEPT ![Target] = Merged(@, bounds[source])]
  ELSE UNCHANGED <<is_set, bounds>>

CombineInto(source) ==
  IF is_set[source]
  THEN /\ is_set' = [is_set EXCEPT ![Target] = TRUE]
       /\ bounds' = [bounds EXCEPT ![Target] =
            IF is_set[Target] THEN Merged(@, bounds[source])
                              ELSE bounds[source]]
  ELSE UNCHANGED <<is_set, bounds>>

(* DuckDB combines a thread's state when the thread has no more input, one *)
(* Combine at a time under the sink's lock; the last thread to combine     *)
(* leaves no row behind.                                                   *)
Combine(t) ==
  /\ t \notin combined
  /\ combined \cup {t} = Threads => \A r \in Rows : holder[r] # Nowhere
  /\ CombineInto(t)
  /\ combined' = combined \cup {t}
  /\ holder' = [r \in Rows |-> IF holder[r] = t THEN Target ELSE holder[r]]
  /\ UNCHANGED <<geometry, result>>

Finalize ==
  /\ result = "none"
  /\ combined = Threads
  /\ result' = IF is_set[Target] THEN "box" ELSE "null"
  /\ UNCHANGED <<geometry, is_set, bounds, combined, holder>>

Next ==
  \/ \E t \in Threads : Combine(t) \/ \E r \in Rows : Operation(t, r)
  \/ Finalize
  \/ result # "none" /\ UNCHANGED vars

Spec == Init /\ [][Next]_vars

-----------------------------------------------------------------------------
Contains(a, b) ==
  a.xmin <= b.xmin /\ b.xmax <= a.xmax /\ a.ymin <= b.ymin /\ b.ymax <= a.ymax

TypeOK ==
  /\ geometry \in Tables
  /\ is_set \in [States -> BOOLEAN]
  /\ bounds \in [States -> Boxes]
  /\ \A s \in States : is_set[s] => IsBox(bounds[s])
  /\ combined \subseteq Threads
  /\ holder \in [Rows -> States \cup {Nowhere}]
  /\ result \in {"none", "null", "box"}

(* However the rows were spread over threads and in whatever order the     *)
(* states were combined, the state a row ended up in covers it exactly as  *)
(* it is, before the rounding of its stored box: no row is lost on the way *)
(* to the target and no rounding cuts into a geometry.                     *)
RowsCovered ==
  WithinRange(geometry) =>
    \A r \in Rows : holder[r] # Nowhere /\ HasBox(geometry[r]) =>
      /\ is_set[holder[r]]
      /\ Contains(bounds[holder[r]], geometry[r].box)

(* The envelope is as tight as the stored boxes allow: each of its sides   *)
(* is the side of some stored box, and nothing of a state's uninitialized  *)
(* coordinates is in it.  It is NULL exactly when no row has a box.        *)
ResultIsTight ==
  LET stored == {StoredBox(geometry[r]) : r \in {q \in Rows : HasBox(geometry[q])}}
      b      == bounds[Target]
  IN /\ result = "box" =>
          /\ \E s \in stored : s.xmin = b.xmin
          /\ \E s \in stored : s.xmax = b.xmax
          /\ \E s \in stored : s.ymin = b.ymin
          /\ \E s \in stored : s.ymax = b.ymax
     /\ result = "null" => stored = {}

=============================================================================
