---------------------------- MODULE GeosAggregate ----------------------------
(***************************************************************************)
(* ST_Union_Agg and ST_Intersection_Agg: each thread merges the geometries *)
(* it is given into a GEOS geometry owned by its state, the states are     *)
(* combined into a target state, which Finalize serializes, and every      *)
(* state is destroyed on its own.                                          *)
(*                                                                         *)
(* GEOS geometries are objects on the C heap, created and destroyed by     *)
(* hand.  Merging is idempotent, commutative and associative, so an object *)
(* is known by the set of geometries merged into it; whether that is their *)
(* union or their intersection makes no difference here.  GEOS returns     *)
(* NULL when it cannot merge two geometries, and the contexts of the       *)
(* aggregates have no error handler that would throw.                      *)
(***************************************************************************)
EXTENDS FiniteSets, TLC

CONSTANTS
  Threads,
  Target,       \* the state the others are combined into
  Rows,
  Geometries,
  Objects,      \* the GEOS geometries that may be allocated
  Null,         \* the null pointer
  MergeMayFail, \* GEOS may return NULL
  Constants     \* some chunks arrive as constant vectors

ASSUME GeosAssumption ==
  /\ Threads # {} /\ Target \notin Threads
  /\ Null \notin Objects
  /\ MergeMayFail \in BOOLEAN
  /\ Constants \in BOOLEAN

States == Threads \cup {Target}

VARIABLES
  geometry, \* the geometry of each row
  context,  \* GEOSAggState::context: "open", then "finished" by Destroy
  geom,     \* GEOSAggState::geom
  live,     \* the objects allocated and not destroyed
  content,  \* the geometries merged into each object
  combined, \* the threads whose state has been combined
  held,     \* the rows merged into the object of each state
  lost,     \* the rows ignored by ConstantOperation or by a failed merge
  phase,    \* "running", "done" after Finalize, "failed" if the query stops
  result    \* what Finalize returned: the merge of a set, NULL if empty

vars == <<geometry, context, geom, live, content, combined, held, lost,
          phase, result>>

-----------------------------------------------------------------------------
(* Initialize; DuckDB hands it raw memory.                                 *)
Init ==
  /\ geometry \in [Rows -> Geometries]
  /\ context = [s \in States |-> "open"]
  /\ geom = [s \in States |-> Null]
  /\ live = {}
  /\ content = [o \in Objects |-> {}]
  /\ combined = {}
  /\ held = [s \in States |-> {}]
  /\ lost = {}
  /\ phase = "running"
  /\ result = {}

Taken == lost \cup UNION {held[s] : s \in States}

(* The state points to a new object, and the one it had is destroyed.      *)
BugCurrNotDestroyed(s, set) ==
  \E o \in Objects \ live :
    /\ geom' = [geom EXCEPT ![s] = o]
    /\ live' = live \cup {o}
    /\ content' = [content EXCEPT ![o] = set]

Replace(s, set) ==
  \E o \in Objects \ live :
    /\ geom' = [geom EXCEPT ![s] = o]
    /\ live' = (live \ {geom[s]}) \cup {o}
    /\ content' = [content EXCEPT ![o] = set]

(* The merge returned NULL: the state starts again from nothing.           *)
Forget(s, rows) ==
  /\ MergeMayFail
  /\ geom' = [geom EXCEPT ![s] = Null]
  /\ live' = live \ {geom[s]}
  /\ lost' = lost \cup held[s] \cup rows
  /\ held' = [held EXCEPT ![s] = {}]
  /\ UNCHANGED content

Content(s) == IF geom[s] = Null THEN {} ELSE content[geom[s]]

Running(t) == phase = "running" /\ t \notin combined

(* Operation.  The object deserialized from the row is destroyed again     *)
(* within the call, except the first.                                      *)
Operation(t, r) ==
  /\ Running(t)
  /\ r \notin Taken
  /\ \/ /\ Replace(t, Content(t) \cup {geometry[r]})
        /\ held' = [held EXCEPT ![t] = @ \cup {r}]
        /\ UNCHANGED lost
     \/ geom[t] # Null /\ Forget(t, {r})
  /\ UNCHANGED <<geometry, context, combined, phase, result>>

(* ConstantOperation: one call for a chunk whose rows are all alike.       *)
BugConstantOverwrites(t, rows) ==
  \E r \in rows :
    /\ \E o \in Objects \ live :
         /\ geom' = [geom EXCEPT ![t] = o]
         /\ live' = (live \ {geom[t]}) \cup {o}
         /\ content' = [content EXCEPT ![o] = {geometry[r]}]
    /\ held' = [held EXCEPT ![t] = @ \cup rows]
    /\ UNCHANGED lost

MergeConstant(t, rows) ==
  IF geom[t] = Null
  THEN /\ \E r \in rows : Replace(t, {geometry[r]})
       /\ held' = [held EXCEPT ![t] = @ \cup rows]
       /\ UNCHANGED lost
  ELSE /\ lost' = lost \cup rows
       /\ UNCHANGED <<geom, live, content, held>>

ConstantOperation(t, rows) ==
  /\ Constants
  /\ Running(t)
  /\ rows # {} /\ rows \cap Taken = {}
  /\ \A r, q \in rows : geometry[r] = geometry[q]
  /\ MergeConstant(t, rows)
  /\ UNCHANGED <<geometry, context, combined, phase, result>>

(* Combine: the first set state is cloned into the target, the others are  *)
(* merged.  The source keeps its object.                                   *)
BugPointerCopied(t) ==
  /\ geom' = [geom EXCEPT ![Target] = geom[t]]
  /\ live' = live \ {geom[Target]}
  /\ held' = [held EXCEPT ![Target] = @ \cup held[t]]
  /\ UNCHANGED <<content, lost>>

CombineInto(t) ==
  \/ /\ Replace(Target, Content(Target) \cup Content(t))
     /\ held' = [held EXCEPT ![Target] = @ \cup held[t]]
     /\ UNCHANGED lost
  \/ geom[Target] # Null /\ Forget(Target, held[t])

Combine(t) ==
  /\ Running(t)
  /\ combined \cup {t} = Threads => Taken = Rows
  /\ IF geom[t] = Null
     THEN UNCHANGED <<geom, live, content, held, lost>>
     ELSE CombineInto(t)
  /\ combined' = combined \cup {t}
  /\ UNCHANGED <<geometry, context, phase, result>>

Finalize ==
  /\ phase = "running"
  /\ combined = Threads
  /\ phase' = "done"
  /\ result' = Content(Target)
  /\ UNCHANGED <<geometry, context, geom, live, content, combined, held, lost>>

(* The query is cancelled, or fails somewhere else.                        *)
Abort ==
  /\ phase = "running"
  /\ phase' = "failed"
  /\ UNCHANGED <<geometry, context, geom, live, content, combined, held, lost,
                 result>>

(* DuckDB destroys a state once it is combined or finalized, or when the   *)
(* query is unwound.                                                       *)
BugContextOnly(s) ==
  /\ context' = [context EXCEPT ![s] = "finished"]
  /\ UNCHANGED <<geom, live>>

DestroyState(s) ==
  /\ context' = [context EXCEPT ![s] = "finished"]
  /\ geom' = [geom EXCEPT ![s] = Null]
  /\ live' = live \ {geom[s]}

Destroy(s) ==
  /\ context[s] = "open"
  /\ s \in combined \/ phase # "running"
  /\ DestroyState(s)
  /\ UNCHANGED <<geometry, content, combined, held, lost, phase, result>>

Stopped ==
  /\ \A s \in States : context[s] = "finished"
  /\ UNCHANGED vars

Next ==
  \/ \E t \in Threads : \/ \E r \in Rows : Operation(t, r)
                        \/ \E rows \in SUBSET Rows : ConstantOperation(t, rows)
                        \/ Combine(t)
  \/ Finalize
  \/ Abort
  \/ \E s \in States : Destroy(s)
  \/ Stopped

Spec == Init /\ [][Next]_vars

-----------------------------------------------------------------------------
(* Threads, rows, geometries and objects are interchangeable.              *)
Symmetry == Permutations(Threads) \cup Permutations(Rows)
              \cup Permutations(Geometries) \cup Permutations(Objects)

TypeOK ==
  /\ geometry \in [Rows -> Geometries]
  /\ context \in [States -> {"open", "finished"}]
  /\ geom \in [States -> Objects \cup {Null}]
  /\ live \subseteq Objects
  /\ content \in [Objects -> SUBSET Geometries]
  /\ combined \subseteq Threads
  /\ held \in [States -> SUBSET Rows]
  /\ lost \subseteq Rows
  /\ phase \in {"running", "done", "failed"}
  /\ result \in SUBSET Geometries

(* Every GEOS geometry on the heap belongs to exactly one state, whose     *)
(* context is still open: none is leaked, whatever merge fails and         *)
(* whenever the query stops, none is destroyed twice, and none is used     *)
(* after it, or its context, is gone.                                      *)
EveryGeometryOwnedOnce ==
  /\ live = {geom[s] : s \in States} \ {Null}
  /\ \A s, u \in States : geom[s] # Null /\ geom[s] = geom[u] => s = u
  /\ \A s \in States : geom[s] # Null => context[s] = "open"

(* A state whose rows it still holds has merged exactly them: no row is    *)
(* missing from the result except those a constant chunk or a failed merge *)
(* made the aggregate forget.                                              *)
ContentIsTheRowsHeld ==
  /\ \A s \in States : context[s] = "open" =>
       Content(s) = {geometry[r] : r \in held[s]}
  /\ phase = "done" =>
       result = {geometry[r] : r \in Rows \ lost}

(* docs/src/functions/aggregate/st_union_agg.md:17 says "Computes the      *)
(* union of a set of input geometries", and st_intersection_agg.md the     *)
(* like for the intersection: the result is the merge of all of them.      *)
MergesEveryInput ==
  phase = "done" => result = {geometry[r] : r \in Rows}

=============================================================================
