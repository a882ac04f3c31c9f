------------------------ MODULE GeosAggregateProofs -------------------------
(***************************************************************************)
(* For any threads, rows and chunks, the geometries ST_Union_Agg and       *)
(* ST_Intersection_Agg allocate are owned once and freed once, and a state *)
(* has merged the rows it holds.                                           *)
(***************************************************************************)
EXTENDS GeosAggregate, TLAPS

(* What ownership depends on besides itself: a state is destroyed only     *)
(* when no more rows come to it.                                           *)
DestroyedWhenUnused ==
  \A s \in States : context[s] # "open" => s \in combined \/ phase # "running"

HeapInv == TypeOK /\ EveryGeometryOwnedOnce /\ DestroyedWhenUnused

(* A state at work has an open context. *)
LEMMA StatesAtWork ==
  ASSUME HeapInv, phase = "running"
  PROVE  /\ context[Target] = "open"
         /\ \A t \in Threads : t \notin combined => context[t] = "open"
         /\ Target \in States /\ Threads \subseteq States
BY GeosAssumption DEF HeapInv, TypeOK, DestroyedWhenUnused, States

(* What a call may do to the heap keeps every geometry owned once.         *)
LEMMA ReplaceKeepsOwners ==
  ASSUME HeapInv, NEW s \in States, context[s] = "open",
         NEW set \in SUBSET Geometries, Replace(s, set), context' = context
  PROVE  /\ EveryGeometryOwnedOnce'
         /\ geom' \in [States -> Objects \cup {Null}]
         /\ live' \subseteq Objects
         /\ content' \in [Objects -> SUBSET Geometries]
<1>1. PICK o \in Objects \ live :
        /\ geom' = [geom EXCEPT ![s] = o]
        /\ live' = (live \ {geom[s]}) \cup {o}
        /\ content' = [content EXCEPT ![o] = set]
  BY DEF Replace
<1>2. o # Null /\ \A u \in States : geom[u] # o
  BY GeosAssumption DEF HeapInv, EveryGeometryOwnedOnce
<1>3. /\ geom' \in [States -> Objects \cup {Null}]
      /\ live' \subseteq Objects
      /\ content' \in [Objects -> SUBSET Geometries]
  BY <1>1 DEF HeapInv, TypeOK
<1>4. live' = {geom'[u] : u \in States} \ {Null}
  <2>1. ASSUME NEW x \in live' PROVE x \in {geom'[u] : u \in States} \ {Null}
    BY <1>1, <1>2, <2>1 DEF HeapInv, TypeOK, EveryGeometryOwnedOnce
  <2>2. ASSUME NEW u \in States, geom'[u] # Null PROVE geom'[u] \in live'
    BY <1>1, <1>2, <2>2 DEF HeapInv, TypeOK, EveryGeometryOwnedOnce
  <2> QED
    BY <2>1, <2>2
<1>5. \A v, u \in States : geom'[v] # Null /\ geom'[v] = geom'[u] => v = u
  BY <1>1, <1>2 DEF HeapInv, TypeOK, EveryGeometryOwnedOnce
<1>6. \A u \in States : geom'[u] # Null => context'[u] = "open"
  BY <1>1 DEF HeapInv, TypeOK, EveryGeometryOwnedOnce
<1> QED
  BY <1>3, <1>4, <1>5, <1>6 DEF EveryGeometryOwnedOnce

LEMMA ClearKeepsOwners ==
  ASSUME HeapInv, NEW s \in States,
         geom' = [geom EXCEPT ![s] = Null],
         live' = live \ {geom[s]},
         \A u \in States \ {s} : context'[u] = context[u]
  PROVE  /\ EveryGeometryOwnedOnce'
         /\ geom' \in [States -> Objects \cup {Null}]
         /\ live' \subseteq Objects
<1>1. live' = {geom'[u] : u \in States} \ {Null}
  <2>1. ASSUME NEW x \in live' PROVE x \in {geom'[u] : u \in States} \ {Null}
    BY <2>1 DEF HeapInv, TypeOK, EveryGeometryOwnedOnce
  <2>2. ASSUME NEW u \in States, geom'[u] # Null PROVE geom'[u] \in live'
    BY <2>2 DEF HeapInv, TypeOK, EveryGeometryOwnedOnce
  <2> QED
    BY <2>1, <2>2
<1>2. \A v, u \in States : geom'[v] # Null /\ geom'[v] = geom'[u] => v = u
  BY DEF HeapInv, TypeOK, EveryGeometryOwnedOnce
<1>3. \A u \in States : geom'[u] # Null => context'[u] = "open"
  BY DEF HeapInv, TypeOK, EveryGeometryOwnedOnce
<1> QED
  BY <1>1, <1>2, <1>3 DEF HeapInv, TypeOK, EveryGeometryOwnedOnce

LEMMA ForgetKeepsOwners ==
  ASSUME HeapInv, NEW s \in States, NEW rows \in SUBSET Rows,
         Forget(s, rows), context' = context
  PROVE  /\ EveryGeometryOwnedOnce'
         /\ geom' \in [States -> Objects \cup {Null}]
         /\ live' \subseteq Objects
         /\ content' \in [Objects -> SUBSET Geometries]
         /\ held' \in [States -> SUBSET Rows]
         /\ lost' \subseteq Rows
<1>1. /\ geom' = [geom EXCEPT ![s] = Null]
      /\ live' = live \ {geom[s]}
      /\ content' = content
  BY DEF Forget
<1>2. held' \in [States -> SUBSET Rows] /\ lost' \subseteq Rows
  BY DEF Forget, HeapInv, TypeOK
<1>3. /\ EveryGeometryOwnedOnce'
      /\ geom' \in [States -> Objects \cup {Null}]
      /\ live' \subseteq Objects
  BY <1>1, ClearKeepsOwners
<1> QED
  BY <1>1, <1>2, <1>3 DEF HeapInv, TypeOK

(* A state that keeps its variables keeps what is said of them. *)
LEMMA UnchangedHeap ==
  ASSUME HeapInv, UNCHANGED <<geom, live, content, context>>
  PROVE  EveryGeometryOwnedOnce'
BY DEF HeapInv, EveryGeometryOwnedOnce

LEMMA ContentType ==
  ASSUME HeapInv, NEW s \in States
  PROVE  Content(s) \in SUBSET Geometries /\ held[s] \in SUBSET Rows
BY DEF HeapInv, TypeOK, Content

-----------------------------------------------------------------------------
LEMMA OperationKeepsHeap ==
  ASSUME HeapInv, NEW t \in Threads, NEW r \in Rows, Operation(t, r)
  PROVE  HeapInv'
<1>1. t \in States /\ context[t] = "open"
  BY StatesAtWork DEF Operation, Running
<1>2. /\ UNCHANGED <<geometry, context, combined, phase, result>>
      /\ Content(t) \cup {geometry[r]} \in SUBSET Geometries
  BY <1>1, ContentType DEF Operation, HeapInv, TypeOK
<1>3. CASE /\ Replace(t, Content(t) \cup {geometry[r]})
           /\ held' = [held EXCEPT ![t] = @ \cup {r}]
           /\ UNCHANGED lost
  <2>1. /\ EveryGeometryOwnedOnce'
        /\ geom' \in [States -> Objects \cup {Null}]
        /\ live' \subseteq Objects
        /\ content' \in [Objects -> SUBSET Geometries]
    BY <1>1, <1>2, <1>3, ReplaceKeepsOwners
  <2> QED
    BY <1>2, <1>3, <2>1 DEF HeapInv, TypeOK, DestroyedWhenUnused
<1>4. CASE Forget(t, {r})
  <2>1. /\ EveryGeometryOwnedOnce'
        /\ geom' \in [States -> Objects \cup {Null}]
        /\ live' \subseteq Objects
        /\ content' \in [Objects -> SUBSET Geometries]
        /\ held' \in [States -> SUBSET Rows]
        /\ lost' \subseteq Rows
    BY <1>1, <1>2, <1>4, {r} \in SUBSET Rows, ForgetKeepsOwners
  <2> QED
    BY <1>2, <2>1 DEF HeapInv, TypeOK, DestroyedWhenUnused
<1> QED
  BY <1>3, <1>4 DEF Operation

LEMMA ConstantOperationKeepsHeap ==
  ASSUME HeapInv, NEW t \in Threads, NEW rows \in SUBSET Rows,
         ConstantOperation(t, rows)
  PROVE  HeapInv'
<1>1. t \in States /\ context[t] = "open"
  BY StatesAtWork DEF ConstantOperation, Running
<1>2. UNCHANGED <<geometry, context, combined, phase, result>>
  BY DEF ConstantOperation
<1>3. CASE geom[t] = Null
  <2>1. /\ \E r \in rows : Replace(t, {geometry[r]})
        /\ held' = [held EXCEPT ![t] = @ \cup rows]
        /\ UNCHANGED lost
    BY <1>3 DEF ConstantOperation, MergeConstant
  <2>2. PICK r \in rows : Replace(t, {geometry[r]})
    BY <2>1
  <2>3. {geometry[r]} \in SUBSET Geometries
    BY DEF HeapInv, TypeOK
  <2>4. /\ EveryGeometryOwnedOnce'
        /\ geom' \in [States -> Objects \cup {Null}]
        /\ live' \subseteq Objects
        /\ content' \in [Objects -> SUBSET Geometries]
    BY <1>1, <1>2, <2>2, <2>3, ReplaceKeepsOwners
  <2> QED
    BY <1>2, <2>1, <2>4 DEF HeapInv, TypeOK, DestroyedWhenUnused
<1>4. CASE geom[t] # Null
  <2>1. lost' = lost \cup rows /\ UNCHANGED <<geom, live, content, held>>
    BY <1>4 DEF ConstantOperation, MergeConstant
  <2>2. EveryGeometryOwnedOnce'
    BY <1>2, <2>1, UnchangedHeap
  <2> QED
    BY <1>2, <2>1, <2>2 DEF HeapInv, TypeOK, DestroyedWhenUnused
<1> QED
  BY <1>3, <1>4

LEMMA CombineKeepsHeap ==
  ASSUME HeapInv, NEW t \in Threads, Combine(t)
  PROVE  HeapInv'
<1>1. /\ t \in States /\ Target \in States
      /\ context[Target] = "open"
  BY StatesAtWork DEF Combine, Running
<1>2. /\ UNCHANGED <<geometry, context, phase, result>>
      /\ combined' = combined \cup {t}
      /\ Content(Target) \cup Content(t) \in SUBSET Geometries
      /\ held[t] \in SUBSET Rows
  BY <1>1, ContentType DEF Combine
<1>3. CASE geom[t] = Null
  <2>1. UNCHANGED <<geom, live, content, held, lost>>
    BY <1>3 DEF Combine
  <2>2. EveryGeometryOwnedOnce'
    BY <1>2, <2>1, UnchangedHeap
  <2> QED
    BY <1>2, <2>1, <2>2 DEF HeapInv, TypeOK, DestroyedWhenUnused
<1>4. CASE /\ Replace(Target, Content(Target) \cup Content(t))
           /\ held' = [held EXCEPT ![Target] = @ \cup held[t]]
           /\ UNCHANGED lost
  <2>1. /\ EveryGeometryOwnedOnce'
        /\ geom' \in [States -> Objects \cup {Null}]
        /\ live' \subseteq Objects
        /\ content' \in [Objects -> SUBSET Geometries]
    BY <1>1, <1>2, <1>4, ReplaceKeepsOwners
  <2> QED
    BY <1>2, <1>4, <2>1 DEF HeapInv, TypeOK, DestroyedWhenUnused
<1>5. CASE Forget(Target, held[t])
  <2>1. /\ EveryGeometryOwnedOnce'
        /\ geom' \in [States -> Objects \cup {Null}]
        /\ live' \subseteq Objects
        /\ content' \in [Objects -> SUBSET Geometries]
        /\ held' \in [States -> SUBSET Rows]
        /\ lost' \subseteq Rows
    BY <1>1, <1>2, <1>5, ForgetKeepsOwners
  <2> QED
    BY <1>2, <2>1 DEF HeapInv, TypeOK, DestroyedWhenUnused
<1> QED
  BY <1>3, <1>4, <1>5 DEF Combine, CombineInto

LEMMA DestroyKeepsHeap ==
  ASSUME HeapInv, NEW s \in States, Destroy(s)
  PROVE  HeapInv'
<1>1. /\ context' = [context EXCEPT ![s] = "finished"]
      /\ geom' = [geom EXCEPT ![s] = Null]
      /\ live' = live \ {geom[s]}
      /\ UNCHANGED <<geometry, content, combined, held, lost, phase, result>>
      /\ s \in combined \/ phase # "running"
  BY DEF Destroy, DestroyState
<1>2. \A u \in States \ {s} : context'[u] = context[u]
  BY <1>1 DEF HeapInv, TypeOK
<1>3. /\ EveryGeometryOwnedOnce'
      /\ geom' \in [States -> Objects \cup {Null}]
      /\ live' \subseteq Objects
  BY <1>1, <1>2, ClearKeepsOwners
<1>4. DestroyedWhenUnused'
  BY <1>1 DEF HeapInv, TypeOK, DestroyedWhenUnused
<1> QED
  BY <1>1, <1>3, <1>4 DEF HeapInv, TypeOK

LEMMA HeapAlways == Spec => []HeapInv
<1>1. Init => HeapInv
  <2> SUFFICES ASSUME Init PROVE HeapInv
    OBVIOUS
  <2>1. TypeOK
    BY GeosAssumption DEF Init, TypeOK
  <2>2. EveryGeometryOwnedOnce
    BY DEF Init, EveryGeometryOwnedOnce
  <2>3. DestroyedWhenUnused
    BY DEF Init, DestroyedWhenUnused
  <2> QED
    BY <2>1, <2>2, <2>3 DEF HeapInv
<1>2. HeapInv /\ [Next]_vars => HeapInv'
  <2> SUFFICES ASSUME HeapInv, [Next]_vars PROVE HeapInv'
    OBVIOUS
  <2>1. ASSUME NEW t \in Threads, NEW r \in Rows, Operation(t, r) PROVE HeapInv'
    BY <2>1, OperationKeepsHeap
  <2>2. ASSUME NEW t \in Threads, NEW rows \in SUBSET Rows,
               ConstantOperation(t, rows)
        PROVE  HeapInv'
    BY <2>2, ConstantOperationKeepsHeap
  <2>3. ASSUME NEW t \in Threads, Combine(t) PROVE HeapInv'
    BY <2>3, CombineKeepsHeap
  <2>4. CASE Finalize
    <3>1. /\ UNCHANGED <<geometry, context, geom, live, content, combined>>
          /\ UNCHANGED <<held, lost>>
          /\ phase' = "done" /\ result' = Content(Target)
      BY <2>4 DEF Finalize
    <3>2. Content(Target) \in SUBSET Geometries
      BY ContentType DEF States
    <3>3. EveryGeometryOwnedOnce'
      BY <3>1, UnchangedHeap
    <3> QED
      BY <3>1, <3>2, <3>3 DEF HeapInv, TypeOK, DestroyedWhenUnused
  <2>5. CASE Abort
    <3>1. EveryGeometryOwnedOnce'
      BY <2>5, UnchangedHeap DEF Abort
    <3> QED
      BY <2>5, <3>1 DEF Abort, HeapInv, TypeOK, DestroyedWhenUnused
  <2>6. ASSUME NEW s \in States, Destroy(s) PROVE HeapInv'
    BY <2>6, DestroyKeepsHeap
  <2>7. CASE UNCHANGED vars
    <3>1. EveryGeometryOwnedOnce'
      BY <2>7, UnchangedHeap DEF vars
    <3> QED
      BY <2>7, <3>1 DEF vars, HeapInv, TypeOK, DestroyedWhenUnused
  <2> QED
    BY <2>1, <2>2, <2>3, <2>4, <2>5, <2>6, <2>7 DEF Next, Stopped
<1> QED
  BY <1>1, <1>2, PTL DEF Spec

(* Every GEOS geometry of an aggregate belongs to exactly one state with   *)
(* an open context, for any schedule of threads, rows, failing merges and  *)
(* a query that stops at any time: no leak, no double free, no use after   *)
(* free.                                                                   *)
THEOREM GeometriesOwnedOnce == Spec => []EveryGeometryOwnedOnce
BY HeapAlways, PTL DEF HeapInv

-----------------------------------------------------------------------------
(* The merge of a set of rows.                                             *)
MergeOf(rows) == {geometry[r] : r \in rows}

ContentFollows ==
  \A s \in States : context[s] = "open" => Content(s) = MergeOf(held[s])

(* A row is merged into the object of one thread, then also into the       *)
(* target's, or is lost; the rows of a combined thread are in the target or*)
(* lost, and none is left once every thread is combined.                   *)
RowsApart ==
  /\ \A t \in Threads : t \in combined => held[t] \subseteq lost \cup held[Target]
  /\ \A t \in Threads : t \notin combined =>
       held[t] \cap (lost \cup held[Target]) = {}
  /\ \A t, u \in Threads : t # u => held[t] \cap held[u] = {}
  /\ held[Target] \cap lost = {}

AllTaken ==
  /\ combined = Threads => Taken = Rows
  /\ phase = "done" => /\ combined = Threads
                       /\ result = MergeOf(Rows \ lost)

MergeInv == ContentFollows /\ RowsApart /\ AllTaken

LEMMA ReplaceContent ==
  ASSUME HeapInv, NEW s \in States, NEW set, Replace(s, set)
  PROVE  /\ Content(s)' = set
         /\ \A u \in States : u # s => Content(u)' = Content(u)
<1>1. PICK o \in Objects \ live :
        /\ geom' = [geom EXCEPT ![s] = o]
        /\ content' = [content EXCEPT ![o] = set]
  BY DEF Replace
<1>2. o # Null /\ \A u \in States : geom[u] # o
  BY GeosAssumption DEF HeapInv, EveryGeometryOwnedOnce
<1> QED
  BY <1>1, <1>2 DEF HeapInv, TypeOK, Content

LEMMA ClearContent ==
  ASSUME HeapInv, NEW s \in States, geom' = [geom EXCEPT ![s] = Null],
         content' = content
  PROVE  /\ Content(s)' = {}
         /\ \A u \in States : u # s => Content(u)' = Content(u)
BY DEF HeapInv, TypeOK, Content

LEMMA SameContent ==
  ASSUME UNCHANGED <<geom, content>>
  PROVE  \A u \in States : Content(u)' = Content(u)
BY DEF Content

(* A state at work holds no row when it has no object. *)
LEMMA NothingHeld ==
  ASSUME MergeInv, NEW s \in States, context[s] = "open", geom[s] = Null
  PROVE  held[s] = {}
<1>1. MergeOf(held[s]) = {}
  BY DEF MergeInv, ContentFollows, Content
<1> QED
  BY <1>1 DEF MergeOf

LEMMA AtWork ==
  ASSUME HeapInv, NEW t \in Threads, Running(t)
  PROVE  /\ t \in States /\ Target \in States /\ t # Target /\ phase = "running"
         /\ context[t] = "open" /\ context[Target] = "open"
         /\ t \notin combined /\ combined # Threads
         /\ held \in [States -> SUBSET Rows] /\ lost \in SUBSET Rows
BY StatesAtWork, GeosAssumption DEF Running, HeapInv, TypeOK

(* A thread merges rows that nobody has taken. *)
LEMMA MergeRows ==
  ASSUME HeapInv, MergeInv, NEW t \in Threads, Running(t),
         NEW rows \in SUBSET Rows, rows \cap Taken = {},
         Replace(t, MergeOf(held[t] \cup rows)),
         held' = [held EXCEPT ![t] = @ \cup rows],
         UNCHANGED <<geometry, context, combined, lost, phase, result>>
  PROVE  MergeInv'
<1>1. /\ t \in States /\ Target \in States /\ t # Target
      /\ t \notin combined /\ combined # Threads
      /\ held \in [States -> SUBSET Rows] /\ phase = "running"
  BY AtWork
<1>2. /\ held'[t] = held[t] \cup rows
      /\ \A u \in States : u # t => held'[u] = held[u]
  BY <1>1
<1>3. /\ Content(t)' = MergeOf(held[t] \cup rows)
      /\ \A u \in States : u # t => Content(u)' = Content(u)
  BY <1>1, ReplaceContent
<1>4. ContentFollows'
  BY <1>2, <1>3 DEF MergeInv, ContentFollows, MergeOf
<1>5. rows \cap lost = {} /\ \A u \in States : rows \cap held[u] = {}
  BY DEF Taken
<1>6. Threads \subseteq States
  BY DEF States
<1>7. RowsApart'
  BY <1>1, <1>2, <1>5, <1>6 DEF MergeInv, RowsApart
<1>8. AllTaken'
  BY <1>1 DEF AllTaken
<1> QED
  BY <1>4, <1>7, <1>8 DEF MergeInv

LEMMA OperationMerges ==
  ASSUME HeapInv, MergeInv, NEW t \in Threads, NEW r \in Rows, Operation(t, r)
  PROVE  MergeInv'
<1>0. Running(t) /\ UNCHANGED <<geometry, context, combined, phase, result>>
  BY DEF Operation
<1>1. /\ t \in States /\ Target \in States /\ t # Target
      /\ context[t] = "open" /\ t \notin combined /\ combined # Threads
      /\ held \in [States -> SUBSET Rows] /\ phase = "running"
  BY <1>0, AtWork
<1>2. r \notin lost /\ \A u \in States : r \notin held[u]
  BY DEF Operation, Taken
<1>3. CASE /\ Replace(t, Content(t) \cup {geometry[r]})
           /\ held' = [held EXCEPT ![t] = @ \cup {r}]
           /\ UNCHANGED lost
  <2>1. Content(t) \cup {geometry[r]} = MergeOf(held[t] \cup {r})
    BY <1>1 DEF MergeInv, ContentFollows, MergeOf
  <2>2. PICK rows \in SUBSET Rows : rows = {r}
    OBVIOUS
  <2>3. rows \cap Taken = {}
    BY <2>2 DEF Operation
  <2> QED
    BY <1>0, <1>3, <2>1, <2>2, <2>3, MergeRows
<1>4. CASE Forget(t, {r})
  <2>1. /\ geom' = [geom EXCEPT ![t] = Null] /\ content' = content
        /\ lost' = lost \cup held[t] \cup {r}
        /\ held' = [held EXCEPT ![t] = {}]
    BY <1>4 DEF Forget
  <2>2. held'[t] = {} /\ \A u \in States : u # t => held'[u] = held[u]
    BY <1>1, <2>1
  <2>3. ContentFollows'
    <3>1. /\ Content(t)' = {}
          /\ \A u \in States : u # t => Content(u)' = Content(u)
      BY <1>1, <2>1, ClearContent
    <3> QED
      BY <1>0, <2>2, <3>1 DEF MergeInv, ContentFollows, MergeOf
  <2>4. Threads \subseteq States
    BY DEF States
  <2>5. RowsApart'
    BY <1>0, <1>1, <1>2, <2>1, <2>2, <2>4 DEF MergeInv, RowsApart
  <2>6. AllTaken'
    BY <1>0, <1>1 DEF AllTaken
  <2> QED
    BY <2>3, <2>5, <2>6 DEF MergeInv
<1> QED
  BY <1>3, <1>4 DEF Operation

LEMMA ConstantOperationMerges ==
  ASSUME HeapInv, MergeInv, NEW t \in Threads, NEW rows \in SUBSET Rows,
         ConstantOperation(t, rows)
  PROVE  MergeInv'
<1>0. /\ Running(t) /\ rows \cap Taken = {}
      /\ \A r, q \in rows : geometry[r] = geometry[q]
      /\ UNCHANGED <<geometry, context, combined, phase, result>>
  BY DEF ConstantOperation
<1>1. /\ t \in States /\ Target \in States /\ t # Target
      /\ context[t] = "open" /\ t \notin combined /\ combined # Threads
      /\ held \in [States -> SUBSET Rows] /\ phase = "running"
  BY <1>0, AtWork
<1>2. CASE geom[t] = Null
  <2>1. PICK r \in rows : Replace(t, {geometry[r]})
    BY <1>2 DEF ConstantOperation, MergeConstant
  <2>2. held' = [held EXCEPT ![t] = @ \cup rows] /\ UNCHANGED lost
    BY <1>2 DEF ConstantOperation, MergeConstant
  <2>3. held[t] = {}
    BY <1>1, <1>2, NothingHeld
  <2>4. {geometry[r]} = MergeOf(held[t] \cup rows)
    BY <1>0, <2>3 DEF MergeOf
  <2> QED
    BY <1>0, <2>1, <2>2, <2>4, MergeRows
<1>3. CASE geom[t] # Null
  <2>1. lost' = lost \cup rows /\ UNCHANGED <<geom, content, held>>
    BY <1>3 DEF ConstantOperation, MergeConstant
  <2>2. ContentFollows'
    BY <1>0, <2>1, SameContent DEF MergeInv, ContentFollows, MergeOf
  <2>3. rows \cap lost = {} /\ \A u \in States : rows \cap held[u] = {}
    BY <1>0 DEF Taken
  <2>4. Threads \subseteq States
    BY DEF States
  <2>5. RowsApart'
    BY <1>0, <1>1, <2>1, <2>3, <2>4 DEF MergeInv, RowsApart
  <2>6. AllTaken'
    BY <1>0, <1>1 DEF AllTaken
  <2> QED
    BY <2>2, <2>5, <2>6 DEF MergeInv
<1> QED
  BY <1>2, <1>3

LEMMA CombineMerges ==
  ASSUME HeapInv, MergeInv, NEW t \in Threads, Combine(t)
  PROVE  MergeInv'
<1>0. /\ Running(t) /\ combined' = combined \cup {t}
      /\ combined \cup {t} = Threads => Taken = Rows
      /\ UNCHANGED <<geometry, context, phase, result>>
  BY DEF Combine
<1>1. /\ t \in States /\ Target \in States /\ t # Target
      /\ context[t] = "open" /\ context[Target] = "open"
      /\ t \notin combined /\ phase = "running"
      /\ held \in [States -> SUBSET Rows] /\ lost \in SUBSET Rows
      /\ Threads \subseteq States /\ Target \notin Threads
  BY <1>0, AtWork, GeosAssumption DEF States
<1>2. /\ held[t] \cap (lost \cup held[Target]) = {}
      /\ \A u \in Threads : u # t => held[t] \cap held[u] = {}
  BY <1>1 DEF MergeInv, RowsApart
<1>3. ASSUME Taken' = Taken, RowsApart', ContentFollows' PROVE MergeInv'
  <2>1. AllTaken'
    BY <1>0, <1>1, <1>3 DEF AllTaken
  <2> QED
    BY <1>3, <2>1 DEF MergeInv
<1>4. CASE geom[t] = Null
  <2>1. UNCHANGED <<geom, content, held, lost>>
    BY <1>4 DEF Combine
  <2>2. held[t] = {}
    BY <1>1, <1>4, NothingHeld
  <2>3. ContentFollows'
    BY <1>0, <2>1, SameContent DEF MergeInv, ContentFollows, MergeOf
  <2>4. RowsApart'
    BY <1>0, <1>1, <2>1, <2>2 DEF MergeInv, RowsApart
  <2>5. Taken' = Taken
    BY <2>1 DEF Taken
  <2> QED
    BY <1>3, <2>3, <2>4, <2>5
<1>5. CASE /\ Replace(Target, Content(Target) \cup Content(t))
           /\ held' = [held EXCEPT ![Target] = @ \cup held[t]]
           /\ UNCHANGED lost
  <2>1. /\ held'[Target] = held[Target] \cup held[t]
        /\ \A u \in States : u # Target => held'[u] = held[u]
    BY <1>1, <1>5
  <2>2. Content(Target) \cup Content(t) = MergeOf(held'[Target])
    BY <1>1, <2>1 DEF MergeInv, ContentFollows, MergeOf
  <2>3. ContentFollows'
    BY <1>0, <1>1, <1>5, <2>1, <2>2, ReplaceContent
    DEF MergeInv, ContentFollows, MergeOf
  <2>4. RowsApart'
    BY <1>0, <1>1, <1>2, <1>5, <2>1 DEF MergeInv, RowsApart
  <2>5. Taken' = Taken
    BY <1>1, <1>5, <2>1 DEF Taken
  <2> QED
    BY <1>3, <2>3, <2>4, <2>5
<1>6. CASE Forget(Target, held[t])
  <2>1. /\ geom' = [geom EXCEPT ![Target] = Null] /\ content' = content
        /\ lost' = lost \cup held[Target] \cup held[t]
        /\ held' = [held EXCEPT ![Target] = {}]
    BY <1>6 DEF Forget
  <2>2. held'[Target] = {} /\ \A u \in States : u # Target => held'[u] = held[u]
    BY <1>1, <2>1
  <2>3. ContentFollows'
    <3>1. /\ Content(Target)' = {}
          /\ \A u \in States : u # Target => Content(u)' = Content(u)
      BY <1>1, <2>1, ClearContent
    <3> QED
      BY <1>0, <2>2, <3>1 DEF MergeInv, ContentFollows, MergeOf
  <2>4. RowsApart'
    BY <1>0, <1>1, <1>2, <2>1, <2>2 DEF MergeInv, RowsApart
  <2>5. Taken' = Taken
    BY <1>1, <2>1, <2>2 DEF Taken
  <2> QED
    BY <1>3, <2>3, <2>4, <2>5
<1> QED
  BY <1>4, <1>5, <1>6 DEF Combine, CombineInto

LEMMA FinalizeMerges ==
  ASSUME HeapInv, MergeInv, Finalize
  PROVE  MergeInv'
<1>1. /\ UNCHANGED <<geometry, context, geom, content, combined, held, lost>>
      /\ phase = "running" /\ combined = Threads /\ result' = Content(Target)
  BY DEF Finalize
<1>2. /\ Target \in States /\ Threads \subseteq States
      /\ context[Target] = "open"
      /\ held \in [States -> SUBSET Rows] /\ lost \in SUBSET Rows
  BY <1>1, StatesAtWork DEF HeapInv, TypeOK
<1>3. held[Target] = Rows \ lost
  <2>1. Taken = Rows
    BY <1>1 DEF MergeInv, AllTaken
  <2>2. \A r \in Rows : r \in lost \/ r \in held[Target]
    <3> SUFFICES ASSUME NEW r \in Rows, r \notin lost PROVE r \in held[Target]
      OBVIOUS
    <3>1. PICK s \in States : r \in held[s]
      BY <2>1 DEF Taken
    <3>2. CASE s = Target
      BY <3>1, <3>2
    <3>3. CASE s \in Threads
      BY <1>1, <3>1, <3>3 DEF MergeInv, RowsApart
    <3> QED
      BY <3>2, <3>3 DEF States
  <2>3. held[Target] \cap lost = {} /\ held[Target] \subseteq Rows
    BY <1>2 DEF MergeInv, RowsApart
  <2> QED
    BY <1>2, <2>2, <2>3
<1>4. result' = MergeOf(Rows \ lost)
  BY <1>1, <1>2, <1>3 DEF MergeInv, ContentFollows
<1>5. ContentFollows'
  BY <1>1, SameContent DEF MergeInv, ContentFollows, MergeOf
<1>6. RowsApart'
  BY <1>1 DEF MergeInv, RowsApart
<1>7. AllTaken'
  BY <1>1, <1>4 DEF MergeInv, AllTaken, Taken, MergeOf
<1> QED
  BY <1>5, <1>6, <1>7 DEF MergeInv

LEMMA MergesUnchanged ==
  ASSUME MergeInv,
         UNCHANGED <<geometry, geom, context, content, combined, held, lost, result>>,
         phase' = "done" => phase = "done"
  PROVE  MergeInv'
<1>1. ContentFollows'
  BY SameContent DEF MergeInv, ContentFollows, MergeOf
<1>2. RowsApart'
  BY DEF MergeInv, RowsApart
<1>3. AllTaken'
  BY DEF MergeInv, AllTaken, Taken, MergeOf
<1> QED
  BY <1>1, <1>2, <1>3 DEF MergeInv

LEMMA DestroyMerges ==
  ASSUME HeapInv, MergeInv, NEW s \in States, Destroy(s)
  PROVE  MergeInv'
<1>1. /\ context' = [context EXCEPT ![s] = "finished"]
      /\ geom' = [geom EXCEPT ![s] = Null]
      /\ UNCHANGED <<geometry, content, combined, held, lost, phase, result>>
  BY DEF Destroy, DestroyState
<1>2. \A u \in States : context'[u] = "open" => u # s /\ context[u] = "open"
  BY <1>1 DEF HeapInv, TypeOK
<1>3. ContentFollows'
  <2>1. \A u \in States : u # s => Content(u)' = Content(u)
    BY <1>1, ClearContent
  <2> QED
    BY <1>1, <1>2, <2>1 DEF MergeInv, ContentFollows, MergeOf
<1>4. RowsApart'
  BY <1>1 DEF MergeInv, RowsApart
<1>5. AllTaken'
  BY <1>1 DEF MergeInv, AllTaken, Taken, MergeOf
<1> QED
  BY <1>3, <1>4, <1>5 DEF MergeInv

(* However the rows are spread over threads and whichever merges fail, a   *)
(* state has merged exactly the rows it holds, and the result is the merge *)
(* of all rows but those a failed merge or a constant chunk has dropped.   *)
THEOREM MergeOfRowsHeld == Spec => []ContentIsTheRowsHeld
<1>1. Init => MergeInv
  <2> SUFFICES ASSUME Init PROVE MergeInv
    OBVIOUS
  <2>1. ContentFollows
    BY DEF Init, ContentFollows, Content, MergeOf
  <2>2. RowsApart
    BY DEF Init, RowsApart, States
  <2>3. AllTaken
    BY GeosAssumption DEF Init, AllTaken
  <2> QED
    BY <2>1, <2>2, <2>3 DEF MergeInv
<1>2. HeapInv /\ MergeInv /\ [Next]_vars => MergeInv'
  <2> SUFFICES ASSUME HeapInv, MergeInv, [Next]_vars PROVE MergeInv'
    OBVIOUS
  <2>1. ASSUME NEW t \in Threads, NEW r \in Rows, Operation(t, r) PROVE MergeInv'
    BY <2>1, OperationMerges
  <2>2. ASSUME NEW t \in Threads, NEW rows \in SUBSET Rows,
               ConstantOperation(t, rows)
        PROVE  MergeInv'
    BY <2>2, ConstantOperationMerges
  <2>3. ASSUME NEW t \in Threads, Combine(t) PROVE MergeInv'
    BY <2>3, CombineMerges
  <2>4. CASE Finalize
    BY <2>4, FinalizeMerges
  <2>5. CASE Abort
    BY <2>5, MergesUnchanged DEF Abort
  <2>6. ASSUME NEW s \in States, Destroy(s) PROVE MergeInv'
    BY <2>6, DestroyMerges
  <2>7. CASE UNCHANGED vars
    BY <2>7, MergesUnchanged DEF vars
  <2> QED
    BY <2>1, <2>2, <2>3, <2>4, <2>5, <2>6, <2>7 DEF Next, Stopped
<1>3. MergeInv => ContentIsTheRowsHeld
  BY DEF MergeInv, ContentFollows, AllTaken, MergeOf, ContentIsTheRowsHeld
<1> QED
  BY <1>1, <1>2, <1>3, HeapAlways, PTL DEF Spec

=============================================================================
