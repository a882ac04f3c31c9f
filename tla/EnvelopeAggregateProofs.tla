---------------------- MODULE EnvelopeAggregateProofs -----------------------
(***************************************************************************)
(* For any threads, rows, geometries and precision, the state of           *)
(* ST_Envelope_Agg that holds a row covers it, and the envelope is no      *)
(* wider than the stored boxes of the rows.                                *)
(***************************************************************************)
EXTENDS EnvelopeAggregate, TLAPS

InRange == -FloatMax..FloatMax

(* A remainder is not negative and less than the step. *)
LEMMA Remainder ==
  ASSUME NEW x \in Int
  PROVE  x % FloatStep \in 0..(FloatStep - 1)
BY EnvelopeAssumption

(* Rounding down never moves a coordinate in range up, rounding up never   *)
(* moves it down, and the two never cross.                                 *)
LEMMA RoundedOutwards ==
  ASSUME NEW x \in Int, NEW y \in Int, x <= y
  PROVE  /\ Down(x) \in Int /\ Up(y) \in Int
         /\ Down(x) <= Up(y)
         /\ x \in InRange => Down(x) <= x
         /\ y \in InRange => y <= Up(y)
<1>1. /\ x % FloatStep \in Nat
      /\ (-y) % FloatStep \in Nat
      /\ FloatMax \in Nat
  BY Remainder, -y \in Int, EnvelopeAssumption
<1>2. Down(x) \in Int /\ Up(y) \in Int
  BY <1>1 DEF Down, Up
<1>3. Down(x) <= Up(y)
  BY <1>1 DEF Down, Up
<1>4. /\ x \in InRange => Down(x) <= x
      /\ y \in InRange => y <= Up(y)
  BY <1>1 DEF Down, Up, InRange
<1> QED
  BY <1>2, <1>3, <1>4

InRangeBox(b) ==
  b.xmin \in InRange /\ b.xmax \in InRange /\ b.ymin \in InRange /\ b.ymax \in InRange

(* The stored box of a geometry is a box, and contains the geometry when   *)
(* its coordinates are in range.                                           *)
LEMMA StoredBoxContains ==
  ASSUME NEW g \in Geometries, IsBox(g.box)
  PROVE  /\ StoredBox(g) \in Boxes
         /\ IsBox(StoredBox(g))
         /\ InRangeBox(g.box) => Contains(StoredBox(g), g.box)
<1>1. g.box \in Boxes
  BY DEF Geometries
<1>2. CASE g.kind = "point"
  <2>1. StoredBox(g) = g.box
    BY <1>2 DEF StoredBox
  <2> QED
    BY <1>1, <2>1 DEF Contains, Boxes
<1>3. CASE g.kind # "point"
  <2> DEFINE b == g.box
  <2>1. StoredBox(g) = [xmin |-> Down(b.xmin), xmax |-> Up(b.xmax),
                        ymin |-> Down(b.ymin), ymax |-> Up(b.ymax)]
    BY <1>3 DEF StoredBox
  <2>2. /\ b.xmin \in Int /\ b.xmax \in Int /\ b.xmin <= b.xmax
        /\ b.ymin \in Int /\ b.ymax \in Int /\ b.ymin <= b.ymax
    BY <1>1 DEF Boxes, IsBox
  <2>3. /\ Down(b.xmin) \in Int /\ Up(b.xmax) \in Int
        /\ Down(b.xmin) <= Up(b.xmax)
        /\ b.xmin \in InRange => Down(b.xmin) <= b.xmin
        /\ b.xmax \in InRange => b.xmax <= Up(b.xmax)
    BY <2>2, RoundedOutwards
  <2>4. /\ Down(b.ymin) \in Int /\ Up(b.ymax) \in Int
        /\ Down(b.ymin) <= Up(b.ymax)
        /\ b.ymin \in InRange => Down(b.ymin) <= b.ymin
        /\ b.ymax \in InRange => b.ymax <= Up(b.ymax)
    BY <2>2, RoundedOutwards
  <2> QED
    BY <2>1, <2>3, <2>4 DEF Boxes, IsBox, InRangeBox, Contains
<1> QED
  BY <1>2, <1>3

(* Merging two boxes gives a box that contains both.                       *)
LEMMA MergedContainsBoth ==
  ASSUME NEW a \in Boxes, NEW b \in Boxes
  PROVE  /\ Merged(a, b) \in Boxes
         /\ IsBox(a) => IsBox(Merged(a, b))
         /\ Contains(Merged(a, b), a)
         /\ Contains(Merged(a, b), b)
BY DEF Boxes, IsBox, Merged, Contains, Lesser, Greater

(* Containment is transitive.                                              *)
LEMMA ContainsTransitive ==
  ASSUME NEW a \in Boxes, NEW b \in Boxes, NEW c \in Boxes,
         Contains(a, b), Contains(b, c)
  PROVE  Contains(a, c)
BY DEF Boxes, Contains

-----------------------------------------------------------------------------
(* The geometry of a row is one of the given tables'.                      *)
LEMMA RowGeometry ==
  ASSUME TypeOK, NEW r \in Rows
  PROVE  geometry[r] \in Geometries /\ IsBox(geometry[r].box)
BY EnvelopeAssumption DEF TypeOK

(* What a step of a thread leaves in the state it writes to. *)
LEMMA OperationType ==
  ASSUME TypeOK, NEW t \in Threads, NEW r \in Rows, Operation(t, r)
  PROVE  TypeOK'
<1>1. /\ StoredBox(geometry[r]) \in Boxes
      /\ IsBox(StoredBox(geometry[r]))
  BY RowGeometry, StoredBoxContains
<1>2. t \in States /\ bounds[t] \in Boxes /\ (is_set[t] => IsBox(bounds[t]))
  BY DEF TypeOK, States
<1>3. /\ Merged(bounds[t], StoredBox(geometry[r])) \in Boxes
      /\ is_set[t] => IsBox(Merged(bounds[t], StoredBox(geometry[r])))
  BY <1>1, <1>2, MergedContainsBoth
<1>4. holder' \in [Rows -> States \cup {Nowhere}]
  BY <1>2 DEF TypeOK, Operation
<1>5. CASE HasBox(geometry[r])
  <2>1. /\ is_set' = [is_set EXCEPT ![t] = TRUE]
        /\ bounds' = [bounds EXCEPT ![t] =
             IF is_set[t] THEN Merged(@, StoredBox(geometry[r]))
                          ELSE StoredBox(geometry[r])]
    BY <1>5 DEF Operation
  <2>2. is_set' \in [States -> BOOLEAN]
    BY <2>1 DEF TypeOK
  <2>3. bounds' \in [States -> Boxes]
    BY <1>1, <1>3, <2>1 DEF TypeOK
  <2>4. \A s \in States : is_set'[s] => IsBox(bounds'[s])
    BY <1>1, <1>3, <2>1 DEF TypeOK
  <2> QED
    BY <1>4, <2>2, <2>3, <2>4 DEF TypeOK, Operation
<1>6. CASE ~HasBox(geometry[r])
  BY <1>4, <1>6 DEF TypeOK, Operation
<1> QED
  BY <1>5, <1>6

LEMMA CombineType ==
  ASSUME TypeOK, NEW t \in Threads, Combine(t)
  PROVE  TypeOK'
<1>1. /\ t \in States /\ Target \in States
      /\ bounds[t] \in Boxes /\ bounds[Target] \in Boxes
      /\ is_set[t] => IsBox(bounds[t])
      /\ is_set[Target] => IsBox(bounds[Target])
  BY DEF TypeOK, States
<1>2. /\ Merged(bounds[Target], bounds[t]) \in Boxes
      /\ is_set[Target] => IsBox(Merged(bounds[Target], bounds[t]))
  BY <1>1, MergedContainsBoth
<1>3. holder' \in [Rows -> States \cup {Nowhere}]
  BY <1>1 DEF TypeOK, Combine
<1>4. CASE is_set[t]
  <2>1. /\ is_set' = [is_set EXCEPT ![Target] = TRUE]
        /\ bounds' = [bounds EXCEPT ![Target] =
             IF is_set[Target] THEN Merged(@, bounds[t]) ELSE bounds[t]]
    BY <1>4 DEF Combine, CombineInto
  <2>2. is_set' \in [States -> BOOLEAN]
    BY <2>1 DEF TypeOK
  <2>3. bounds' \in [States -> Boxes]
    BY <1>1, <1>2, <2>1 DEF TypeOK
  <2>4. \A s \in States : is_set'[s] => IsBox(bounds'[s])
    BY <1>1, <1>2, <1>4, <2>1 DEF TypeOK
  <2> QED
    BY <1>3, <2>2, <2>3, <2>4 DEF TypeOK, Combine
<1>5. CASE ~is_set[t]
  BY <1>3, <1>5 DEF TypeOK, Combine, CombineInto
<1> QED
  BY <1>4, <1>5

(* The coordinates of a set state of ST_Envelope_Agg are always those of a *)
(* box, and the other variables have their types.                          *)
THEOREM EnvelopeTypeCorrect == Spec => []TypeOK
<1>1. Init => TypeOK
  BY EnvelopeAssumption DEF Init, TypeOK
<1>2. TypeOK /\ [Next]_vars => TypeOK'
  <2> SUFFICES ASSUME TypeOK, [Next]_vars PROVE TypeOK'
    OBVIOUS
  <2>1. ASSUME NEW t \in Threads, Combine(t) PROVE TypeOK'
    BY <2>1, CombineType
  <2>2. ASSUME NEW t \in Threads, NEW r \in Rows, Operation(t, r) PROVE TypeOK'
    BY <2>2, OperationType
  <2>3. CASE Finalize
    BY <2>3 DEF TypeOK, Finalize
  <2>4. CASE UNCHANGED vars
    BY <2>4 DEF TypeOK, vars
  <2> QED
    BY <2>1, <2>2, <2>3, <2>4 DEF Next
<1> QED
  BY <1>1, <1>2, PTL DEF Spec

-----------------------------------------------------------------------------
(* The box of a row is one that its stored box contains. *)
LEMMA RowContained ==
  ASSUME TypeOK, NEW r \in Rows, WithinRange(geometry)
  PROVE  /\ geometry[r].box \in Boxes
         /\ StoredBox(geometry[r]) \in Boxes
         /\ Contains(StoredBox(geometry[r]), geometry[r].box)
<1>1. geometry[r] \in Geometries /\ IsBox(geometry[r].box)
  BY RowGeometry
<1>2. InRangeBox(geometry[r].box)
  BY DEF WithinRange, InRangeBox, InRange
<1> QED
  BY <1>1, <1>2, StoredBoxContains DEF Geometries

(* However the rows are spread over the threads and in whatever order the  *)
(* states are combined, the state that holds a row covers its geometry,    *)
(* when the coordinates are within the range of single precision.          *)
THEOREM EveryRowCovered == Spec => []RowsCovered
<1>1. Init => RowsCovered
  BY DEF Init, RowsCovered
<1>2. TypeOK /\ RowsCovered /\ [Next]_vars => RowsCovered'
  <2> SUFFICES ASSUME TypeOK, RowsCovered, [Next]_vars, WithinRange(geometry),
                      NEW q \in Rows, holder'[q] # Nowhere, HasBox(geometry[q])
               PROVE  is_set'[holder'[q]] /\ Contains(bounds'[holder'[q]], geometry[q].box)
    <3>1. [Next]_vars => geometry' = geometry
      BY DEF Next, vars, Operation, Combine, Finalize
    <3> QED
      BY <3>1 DEF RowsCovered
  <2> DEFINE box == geometry[q].box
             stored == StoredBox(geometry[q])
  <2>1. box \in Boxes /\ stored \in Boxes /\ Contains(stored, box)
    BY RowContained
  <2>2. /\ \A s \in States : bounds[s] \in Boxes
        /\ Target \in States /\ Threads \subseteq States
        /\ Nowhere \notin States
        /\ holder[q] \in States \cup {Nowhere}
    BY EnvelopeAssumption DEF TypeOK, States
  <2>3. holder[q] # Nowhere =>
          is_set[holder[q]] /\ Contains(bounds[holder[q]], box)
    BY DEF RowsCovered
  <2>4. ASSUME NEW t \in Threads, NEW r \in Rows, Operation(t, r)
        PROVE  is_set'[holder'[q]] /\ Contains(bounds'[holder'[q]], box)
    <3>1. holder' = [holder EXCEPT ![r] = t]
      BY <2>4 DEF Operation
    <3>2. CASE q = r
      <4>1. holder'[q] = t
        BY <3>1, <3>2 DEF TypeOK
      <4>2. /\ is_set'[t]
            /\ bounds'[t] = IF is_set[t] THEN Merged(bounds[t], stored) ELSE stored
        BY <2>2, <2>4, <3>2 DEF Operation, TypeOK
      <4>3. Merged(bounds[t], stored) \in Boxes /\ Contains(Merged(bounds[t], stored), stored)
        BY <2>1, <2>2, MergedContainsBoth
      <4>4. Contains(Merged(bounds[t], stored), box)
        BY <2>1, <4>3, ContainsTransitive
      <4> QED
        BY <2>1, <4>1, <4>2, <4>4
    <3>3. CASE q # r
      <4> DEFINE h == holder[q]
                 new == StoredBox(geometry[r])
      <4>1. holder'[q] = h /\ h # Nowhere /\ h \in States
        BY <2>2, <3>1, <3>3 DEF TypeOK
      <4>2. is_set[h] /\ Contains(bounds[h], box)
        BY <2>3, <4>1
      <4>3. new \in Boxes
        BY RowContained
      <4>4. Contains(Merged(bounds[h], new), box)
        <5>1. /\ Merged(bounds[h], new) \in Boxes
              /\ Contains(Merged(bounds[h], new), bounds[h])
          BY <2>2, <4>1, <4>3, MergedContainsBoth
        <5> QED
          BY <2>1, <2>2, <4>1, <4>2, <5>1, ContainsTransitive
      <4>5. is_set'[h] /\ bounds'[h] \in {bounds[h], Merged(bounds[h], new)}
        BY <2>4, <4>1, <4>2 DEF Operation, TypeOK
      <4> QED
        BY <4>1, <4>2, <4>4, <4>5
    <3> QED
      BY <3>2, <3>3
  <2>5. ASSUME NEW t \in Threads, Combine(t)
        PROVE  is_set'[holder'[q]] /\ Contains(bounds'[holder'[q]], box)
    <3> DEFINE h == holder[q]
    <3>1. h # Nowhere /\ h \in States /\ is_set[h] /\ Contains(bounds[h], box)
      <4>1. h # Nowhere
        BY <2>2, <2>5 DEF Combine
      <4> QED
        BY <2>2, <2>3, <4>1
    <3>2. holder'[q] = IF h = t THEN Target ELSE h
      BY <2>5 DEF Combine
    <3>3. CASE h = t
      <4>1. /\ is_set'[Target]
            /\ bounds'[Target] = IF is_set[Target] THEN Merged(bounds[Target], bounds[t])
                                                   ELSE bounds[t]
        BY <2>2, <2>5, <3>1, <3>3 DEF Combine, CombineInto, TypeOK
      <4>2. Contains(Merged(bounds[Target], bounds[t]), box)
        <5>1. /\ Merged(bounds[Target], bounds[t]) \in Boxes
              /\ Contains(Merged(bounds[Target], bounds[t]), bounds[t])
          BY <2>2, MergedContainsBoth
        <5> QED
          BY <2>1, <2>2, <3>1, <3>3, <5>1, ContainsTransitive
      <4> QED
        BY <3>1, <3>2, <3>3, <4>1, <4>2
    <3>4. CASE h # t
      <4>1. is_set'[h] /\ bounds'[h] \in {bounds[h], Merged(bounds[h], bounds[t])}
        BY <2>2, <2>5, <3>1 DEF Combine, CombineInto, TypeOK
      <4>2. Contains(Merged(bounds[h], bounds[t]), box)
        <5>1. /\ Merged(bounds[h], bounds[t]) \in Boxes
              /\ Contains(Merged(bounds[h], bounds[t]), bounds[h])
          BY <2>2, <3>1, MergedContainsBoth
        <5> QED
          BY <2>1, <2>2, <3>1, <5>1, ContainsTransitive
      <4> QED
        BY <3>1, <3>2, <3>4, <4>1, <4>2
    <3> QED
      BY <3>3, <3>4
  <2>6. CASE Finalize
    BY <2>3, <2>6 DEF Finalize
  <2>7. CASE UNCHANGED vars
    BY <2>3, <2>7 DEF vars
  <2> QED
    BY <2>4, <2>5, <2>6, <2>7 DEF Next
<1> QED
  BY <1>1, <1>2, EnvelopeTypeCorrect, PTL DEF Spec

-----------------------------------------------------------------------------
(* The stored boxes of the rows, and a box all of whose sides are theirs.  *)
Stored ==
  {StoredBox(geometry[r]) : r \in {q \in Rows : HasBox(geometry[q])}}

OfStored(b) ==
  /\ \E s \in Stored : s.xmin = b.xmin
  /\ \E s \in Stored : s.xmax = b.xmax
  /\ \E s \in Stored : s.ymin = b.ymin
  /\ \E s \in Stored : s.ymax = b.ymax

SidesStored == \A s \in States : is_set[s] => OfStored(bounds[s])

(* A set state has the sides of stored boxes; a row that has been folded   *)
(* is with a state that is set and still to be combined, or the target; and*)
(* once every thread is combined no row is left.                           *)
TightInv ==
  /\ SidesStored
  /\ \A r \in Rows : holder[r] # Nowhere /\ HasBox(geometry[r]) => is_set[holder[r]]
  /\ \A r \in Rows : holder[r] \notin combined
  /\ combined = Threads => \A r \in Rows : holder[r] # Nowhere
  /\ result # "none" => combined = Threads
  /\ result = "box" => is_set[Target]
  /\ result = "null" => ~is_set[Target]

LEMMA MergedOfStored ==
  ASSUME NEW a, NEW b, OfStored(a), OfStored(b)
  PROVE  OfStored(Merged(a, b))
<1>1. /\ Merged(a, b).xmin \in {a.xmin, b.xmin}
      /\ Merged(a, b).xmax \in {a.xmax, b.xmax}
      /\ Merged(a, b).ymin \in {a.ymin, b.ymin}
      /\ Merged(a, b).ymax \in {a.ymax, b.ymax}
  BY DEF Merged, Lesser, Greater
<1> QED
  BY <1>1 DEF OfStored

LEMMA OperationTight ==
  ASSUME TypeOK, TightInv, NEW t \in Threads, NEW r \in Rows, Operation(t, r)
  PROVE  TightInv'
<1> DEFINE stored == StoredBox(geometry[r])
<1>1. /\ t \notin combined /\ holder' = [holder EXCEPT ![r] = t]
      /\ UNCHANGED <<geometry, combined, result>>
  BY DEF Operation
<1>2. /\ t \in States /\ Target \in States /\ Target # t /\ result = "none"
      /\ holder \in [Rows -> States \cup {Nowhere}]
      /\ is_set \in [States -> BOOLEAN] /\ bounds \in [States -> Boxes]
  BY <1>1, EnvelopeAssumption DEF TypeOK, TightInv, States
<1>4. \A s \in States : is_set[s] => is_set'[s]
  BY <1>2 DEF Operation
<1>5. HasBox(geometry[r]) => is_set'[t]
  BY <1>2 DEF Operation
<1>6. ASSUME NEW s \in States, is_set'[s] PROVE OfStored(bounds'[s])
  <2>1. CASE s = t /\ HasBox(geometry[r])
    <3>1. OfStored(stored)
      BY <2>1 DEF OfStored, Stored
    <3>2. bounds'[t] = IF is_set[t] THEN Merged(bounds[t], stored) ELSE stored
      BY <1>2, <2>1 DEF Operation
    <3>3. is_set[t] => OfStored(Merged(bounds[t], stored))
      BY <1>2, <3>1, MergedOfStored DEF TightInv, SidesStored
    <3> QED
      BY <2>1, <3>1, <3>2, <3>3
  <2>2. CASE ~(s = t /\ HasBox(geometry[r]))
    <3>1. is_set'[s] = is_set[s] /\ bounds'[s] = bounds[s]
      BY <1>2, <2>2 DEF Operation
    <3> QED
      BY <1>6, <3>1 DEF TightInv, SidesStored
  <2> QED
    BY <2>1, <2>2
<1>7. \A q \in Rows : holder'[q] = IF q = r THEN t ELSE holder[q]
  BY <1>1, <1>2
<1>8. SidesStored'
  BY <1>1, <1>6 DEF SidesStored, OfStored, Stored
<1>9. \A q \in Rows :
        holder'[q] # Nowhere /\ HasBox(geometry[q]) => is_set'[holder'[q]]
  BY <1>2, <1>4, <1>5, <1>7 DEF TightInv
<1>10. /\ \A q \in Rows : holder'[q] \notin combined
       /\ combined # Threads
  BY <1>1, <1>7 DEF TightInv
<1> QED
  BY <1>1, <1>2, <1>8, <1>9, <1>10 DEF TightInv

LEMMA CombineTight ==
  ASSUME TypeOK, TightInv, NEW t \in Threads, Combine(t)
  PROVE  TightInv'
<1>1. /\ t \notin combined /\ combined' = combined \cup {t}
      /\ holder' = [q \in Rows |-> IF holder[q] = t THEN Target ELSE holder[q]]
      /\ combined \cup {t} = Threads => \A q \in Rows : holder[q] # Nowhere
      /\ UNCHANGED <<geometry, result>>
  BY DEF Combine
<1>2. /\ t \in States /\ Target \in States /\ Target \notin Threads
      /\ Nowhere \notin States /\ result = "none" /\ combined \subseteq Threads
      /\ holder \in [Rows -> States \cup {Nowhere}]
      /\ is_set \in [States -> BOOLEAN] /\ bounds \in [States -> Boxes]
  BY <1>1, EnvelopeAssumption DEF TypeOK, TightInv, States
<1>3. /\ \A s \in States : is_set[s] => is_set'[s]
      /\ is_set[t] => is_set'[Target]
  BY <1>2 DEF Combine, CombineInto
<1>4. ASSUME NEW s \in States, is_set'[s] PROVE OfStored(bounds'[s])
  <2>1. CASE s = Target /\ is_set[t]
    <3>1. bounds'[Target] = IF is_set[Target] THEN Merged(bounds[Target], bounds[t])
                                              ELSE bounds[t]
      BY <1>2, <2>1 DEF Combine, CombineInto
    <3>2. is_set[Target] => OfStored(Merged(bounds[Target], bounds[t]))
      BY <1>2, <2>1, MergedOfStored DEF TightInv, SidesStored
    <3> QED
      BY <1>2, <2>1, <3>1, <3>2 DEF TightInv, SidesStored
  <2>2. CASE ~(s = Target /\ is_set[t])
    <3>1. is_set'[s] = is_set[s] /\ bounds'[s] = bounds[s]
      BY <1>2, <2>2 DEF Combine, CombineInto
    <3> QED
      BY <1>4, <3>1 DEF TightInv, SidesStored
  <2> QED
    BY <2>1, <2>2
<1>5. SidesStored'
  BY <1>1, <1>4 DEF SidesStored, OfStored, Stored
<1>6. \A q \in Rows :
        holder'[q] # Nowhere /\ HasBox(geometry[q]) => is_set'[holder'[q]]
  BY <1>1, <1>2, <1>3 DEF TightInv
<1>7. \A q \in Rows : holder'[q] \notin combined'
  BY <1>1, <1>2 DEF TightInv
<1>8. combined' = Threads => \A q \in Rows : holder'[q] # Nowhere
  BY <1>1, <1>2
<1> QED
  BY <1>1, <1>2, <1>5, <1>6, <1>7, <1>8 DEF TightInv

(* Whatever an uninitialized state holds, and however its rows are spread  *)
(* and its states combined, every side of the envelope is a side of a      *)
(* stored box, and the envelope is NULL only if there is no such box.      *)
THEOREM EnvelopeIsTight == Spec => []ResultIsTight
<1>1. Init => TightInv
  <2> SUFFICES ASSUME Init PROVE TightInv
    OBVIOUS
  <2>1. combined # Threads
    BY EnvelopeAssumption DEF Init
  <2> QED
    BY <2>1 DEF Init, TightInv, SidesStored
<1>2. TypeOK /\ TightInv /\ [Next]_vars => TightInv'
  <2> SUFFICES ASSUME TypeOK, TightInv, [Next]_vars PROVE TightInv'
    OBVIOUS
  <2>1. ASSUME NEW t \in Threads, Combine(t) PROVE TightInv'
    BY <2>1, CombineTight
  <2>2. ASSUME NEW t \in Threads, NEW r \in Rows, Operation(t, r) PROVE TightInv'
    BY <2>2, OperationTight
  <2>3. CASE Finalize
    <3>1. UNCHANGED <<geometry, is_set, bounds, combined, holder>>
      BY <2>3 DEF Finalize
    <3>2. is_set[Target] \in BOOLEAN
      BY DEF TypeOK, States
    <3>3. SidesStored'
      BY <3>1 DEF TightInv, SidesStored, OfStored, Stored
    <3> QED
      BY <2>3, <3>1, <3>2, <3>3 DEF Finalize, TightInv
  <2>4. CASE UNCHANGED vars
    BY <2>4 DEF vars, TightInv, SidesStored, OfStored, Stored
  <2> QED
    BY <2>1, <2>2, <2>3, <2>4 DEF Next
<1>3. TypeOK /\ TightInv => ResultIsTight
  <2> SUFFICES ASSUME TypeOK, TightInv PROVE ResultIsTight
    OBVIOUS
  <2>1. result = "box" => OfStored(bounds[Target])
    BY DEF TightInv, SidesStored, States
  <2>2. result = "null" => Stored = {}
    <3> SUFFICES ASSUME result = "null", NEW r \in Rows, HasBox(geometry[r])
                 PROVE  FALSE
      BY DEF Stored
    <3>1. holder[r] # Nowhere /\ holder[r] \notin Threads
      BY DEF TightInv
    <3>2. holder[r] = Target
      BY <3>1 DEF TypeOK, States
    <3> QED
      BY <3>1, <3>2 DEF TightInv
  <2> QED
    BY <2>1, <2>2 DEF ResultIsTight, OfStored, Stored
<1> QED
  BY <1>1, <1>2, <1>3, EnvelopeTypeCorrect, PTL DEF Spec

=============================================================================
