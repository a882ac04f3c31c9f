------------------------------ MODULE GdalWrite ------------------------------
(***************************************************************************)
(* COPY ... TO ... (FORMAT GDAL).  Bind checks the options, InitGlobal     *)
(* creates the dataset and its layer, and the threads of the pipeline hand *)
(* their chunks to Sink, which writes a feature for each row under the lock*)
(* of the global state.  Finalize closes the dataset; a COPY that fails    *)
(* closes it with the features written so far.                             *)
(***************************************************************************)
EXTENDS Integers, FiniteSets, Sequences

CONSTANTS
  Threads,    \* the threads that may run the pipeline
  NoThread,   \* the lock of the global state is free
  Drivers,    \* the names of the drivers of GDAL
  NotAString, \* the value of an option that has another type
  Null,       \* the SQL NULL
  Copies      \* the COPY statements: options, columns, and chunks of rows

ASSUME NoThreadAssumption == NoThread \notin Threads

ColumnSet == [name : STRING, type : STRING]

(* A row has a cell for each column; a time of day is at most 24:00:00.    *)
TimeOfDay(time) == time \in Nat /\ time <= 24 * 60 * 60

CellOf(type, cell) ==
  type = "TIME" => cell = Null \/ TimeOfDay(cell.value)

RowOf(columns, row) ==
  /\ DOMAIN row = DOMAIN columns
  /\ \A c \in DOMAIN columns : CellOf(columns[c].type, row[c])

Listed(list) == Len(list) \in Nat /\ DOMAIN list = 1..Len(list)

ASSUME CopiesAssumption ==
  \A statement \in Copies :
    /\ statement.columns \in Seq(ColumnSet)
    /\ Listed(statement.chunks)
    /\ \A k \in DOMAIN statement.chunks :
         /\ Listed(statement.chunks[k])
         /\ \A r \in DOMAIN statement.chunks[k] :
              RowOf(statement.columns, statement.chunks[k][r])

VARIABLES
  copy,          \* the statement
  geometry_type, \* bind_data.geometry_type
  stage,         \* how far the statement is
  field_defs,    \* the fields of the layer, in order
  next_chunk,    \* the chunk the source of the pipeline gives next
  chunk,         \* the chunk each thread is in Sink with (0: none)
  row_idx,       \* the next row of that chunk
  lock,          \* the thread that holds the lock of the global state
  features,      \* the features of the layer, in order
  origin         \* history: the chunk and the row of each feature

sinkVars == <<next_chunk, chunk, row_idx, lock, features, origin>>
vars == <<copy, geometry_type, stage, field_defs, sinkVars>>

Stages == {"bind", "bound", "writing", "failing", "done", "failed"}

Init ==
  /\ copy \in Copies
  /\ geometry_type = "UNKNOWN"
  /\ stage = "bind"
  /\ field_defs = <<>>
  /\ next_chunk = 1
  /\ chunk = [t \in Threads |-> 0]
  /\ row_idx = [t \in Threads |-> 1]
  /\ lock = NoThread
  /\ features = <<>>
  /\ origin = <<>>

-----------------------------------------------------------------------------
(* Bind: copy.options maps the names of the options given to their values. *)
GeometryTypes == {"POINT", "LINESTRING", "POLYGON", "MULTIPOINT",
                  "MULTILINESTRING", "MULTIPOLYGON", "GEOMETRYCOLLECTION"}

OptionNames == {"DRIVER", "LAYER_NAME", "LAYER_CREATION_OPTIONS",
                "DATASET_CREATION_OPTIONS", "GEOMETRY_TYPE", "SRS"}

Given(o) == o \in DOMAIN copy.options

RequestedType ==
  IF Given("GEOMETRY_TYPE") THEN copy.options["GEOMETRY_TYPE"] ELSE "UNKNOWN"

OptionsAccepted ==
  /\ \A o \in DOMAIN copy.options :
       o \in OptionNames /\ copy.options[o] # NotAString
  /\ Given("GEOMETRY_TYPE") => RequestedType \in GeometryTypes
  /\ Given("DRIVER") /\ copy.options["DRIVER"] \in Drivers
  /\ copy.options["DRIVER"] = "OpenFileGDB" => Given("GEOMETRY_TYPE")

Bind ==
  /\ stage = "bind"
  /\ IF OptionsAccepted
     THEN stage' = "bound" /\ geometry_type' = RequestedType
     ELSE stage' = "failed" /\ UNCHANGED geometry_type
  /\ UNCHANGED <<copy, field_defs, sinkVars>>

-----------------------------------------------------------------------------
(* InitGlobal: a field for each column that is not a geometry.             *)
IsGeometryType(type) == type \in {"WKB_BLOB", "POINT_2D", "GEOMETRY"}

(* Of the types of attributes these stand for the others: a value that is  *)
(* set as it is, a time, which is taken apart, and a list.                 *)
AttributeTypes == {"INTEGER", "TIME", "LIST"}

IsGeometry(c) == IsGeometryType(copy.columns[c].type)

LayerAccepted ==
  /\ Cardinality({c \in DOMAIN copy.columns : IsGeometry(c)}) <= 1
  /\ \A c \in DOMAIN copy.columns :
       IsGeometry(c) \/ copy.columns[c].type \in AttributeTypes

Fields ==
  LET after[c \in 0..Len(copy.columns)] ==
        IF c = 0 THEN <<>>
        ELSE IF IsGeometry(c) THEN after[c - 1]
        ELSE Append(after[c - 1], copy.columns[c])
  IN  after[Len(copy.columns)]

InitGlobal ==
  /\ stage = "bound"
  /\ LayerAccepted
  /\ field_defs' = Fields
  /\ stage' = "writing"
  /\ UNCHANGED <<copy, geometry_type, sinkVars>>

(* The driver refuses, or a column does.                                   *)
InitGlobalFails ==
  /\ stage = "bound"
  /\ stage' = "failed"
  /\ UNCHANGED <<copy, geometry_type, field_defs, sinkVars>>

-----------------------------------------------------------------------------
(* The pipeline gives an idle thread its next chunk.  A thread may take one*)
(* more before it learns that another has failed.                          *)
Running == stage \in {"writing", "failing"}

TakeChunk(t) ==
  /\ Running
  /\ chunk[t] = 0 /\ next_chunk <= Len(copy.chunks)
  /\ chunk' = [chunk EXCEPT ![t] = next_chunk]
  /\ row_idx' = [row_idx EXCEPT ![t] = 1]
  /\ next_chunk' = next_chunk + 1
  /\ UNCHANGED <<copy, geometry_type, stage, field_defs, lock, features, origin>>

(* Sink holds the lock from before its first row to after its last one.    *)
BugNoLock(t) ==
  /\ chunk[t] # 0
  /\ lock' = t
  /\ UNCHANGED <<copy, geometry_type, stage, field_defs, next_chunk, chunk,
                 row_idx, features, origin>>

Lock(t) ==
  /\ chunk[t] # 0
  /\ lock = NoThread
  /\ lock' = t
  /\ UNCHANGED <<copy, geometry_type, stage, field_defs, next_chunk, chunk,
                 row_idx, features, origin>>

InSink(t)   == chunk[t] # 0 /\ lock = t
Row(t)      == copy.chunks[chunk[t]][row_idx[t]]
MoreRows(t) == InSink(t) /\ row_idx[t] <= Len(copy.chunks[chunk[t]])

(* Geometry columns do not count towards the index of a field.             *)
BugColumnIndex(c) == c

FieldIndex(c) ==
  Cardinality({d \in 1..c : ~IsGeometry(d)})

(* SetOgrFieldFromValue: a time of day in seconds becomes three numbers.   *)
Clock(time) ==
  [hour |-> time \div 3600, minute |-> (time % 3600) \div 60, second |-> time % 60]

FieldValue(type, cell) ==
  IF type # "TIME" \/ cell = Null THEN cell ELSE Clock(cell.value)

(* OGRGeometryFromValue and the check of the type of the geometry; the NULL*)
(* of DuckDB has no value to convert, which raises an exception.           *)
GeometryRejected(type, cell) ==
  \/ cell = Null
  \/ type = "WKB_BLOB" /\ cell.kind = "MALFORMED"
  \/ geometry_type # "UNKNOWN" /\ cell.kind # geometry_type

(* SetOgrFieldFromValue has no case for the lists InitGlobal accepts.      *)
AttributeRejected(type, cell) == type = "LIST" /\ cell # Null

RowRejected(row) ==
  \E c \in DOMAIN copy.columns :
    LET type == copy.columns[c].type
    IN  IF IsGeometry(c) THEN GeometryRejected(type, row[c])
                         ELSE AttributeRejected(type, row[c])

(* What the columns of a row leave in the geometry and in each field: a set*)
(* that has one value unless columns meet in a field or none sets it.      *)
Feature(row) ==
  [geometry |-> {row[c] : c \in {d \in DOMAIN row : IsGeometry(d)}},
   fields   |-> [f \in DOMAIN field_defs |->
                   {FieldValue(copy.columns[c].type, row[c]) :
                      c \in {d \in DOMAIN row :
                               ~IsGeometry(d) /\ FieldIndex(d) = f}}]]

WriteRow(t) ==
  /\ MoreRows(t)
  /\ ~RowRejected(Row(t))
  /\ features' = Append(features, Feature(Row(t)))
  /\ origin' = Append(origin, <<chunk[t], row_idx[t]>>)
  /\ row_idx' = [row_idx EXCEPT ![t] = @ + 1]
  /\ UNCHANGED <<copy, geometry_type, stage, field_defs, next_chunk, chunk, lock>>

(* A row is rejected, or the driver refuses its feature: the exception     *)
(* leaves Sink and with it the lock.                                       *)
BugChunkRetried(t) ==
  /\ MoreRows(t)
  /\ lock' = NoThread
  /\ row_idx' = [row_idx EXCEPT ![t] = 1]
  /\ UNCHANGED <<copy, geometry_type, stage, field_defs, next_chunk, chunk,
                 features, origin>>

BugChunkDropped(t) ==
  /\ MoreRows(t)
  /\ lock' = NoThread
  /\ chunk' = [chunk EXCEPT ![t] = 0]
  /\ UNCHANGED <<copy, geometry_type, stage, field_defs, next_chunk, row_idx,
                 features, origin>>

FailRow(t) ==
  /\ MoreRows(t)
  /\ lock' = NoThread
  /\ chunk' = [chunk EXCEPT ![t] = 0]
  /\ stage' = "failing"
  /\ UNCHANGED <<copy, geometry_type, field_defs, next_chunk, row_idx, features,
                 origin>>

Unlock(t) ==
  /\ InSink(t) /\ ~MoreRows(t)
  /\ lock' = NoThread
  /\ chunk' = [chunk EXCEPT ![t] = 0]
  /\ UNCHANGED <<copy, geometry_type, stage, field_defs, next_chunk, row_idx,
                 features, origin>>

Sink(t) == Lock(t) \/ WriteRow(t) \/ FailRow(t) \/ Unlock(t)

-----------------------------------------------------------------------------
Idle == \A t \in Threads : chunk[t] = 0

(* Finalize flushes the dataset and closes it, which GDAL may fail to do;  *)
(* its error handler throws.                                               *)
Finalize ==
  /\ stage = "writing"
  /\ Idle /\ next_chunk > Len(copy.chunks)
  /\ stage' \in {"done", "failed"}
  /\ UNCHANGED <<copy, geometry_type, field_defs, sinkVars>>

(* After a failure the global state goes, and the dataset with it.         *)
Abandon ==
  /\ stage = "failing"
  /\ Idle
  /\ stage' = "failed"
  /\ UNCHANGED <<copy, geometry_type, field_defs, sinkVars>>

Ended == stage \in {"done", "failed"}

Next ==
  \/ Bind \/ InitGlobal \/ InitGlobalFails
  \/ \E t \in Threads : TakeChunk(t) \/ Sink(t)
  \/ Finalize \/ Abandon
  \/ Ended /\ UNCHANGED vars

(* DuckDB runs its tasks to the end.  Chunks are finitely many, so a thread*)
(* that waits for the lock finds it free in the end.                       *)
Fairness ==
  /\ WF_vars(Bind)
  /\ WF_vars(InitGlobal \/ InitGlobalFails)
  /\ \A t \in Threads : WF_vars(Sink(t))
  /\ WF_vars(\E t \in Threads : TakeChunk(t))
  /\ WF_vars(Finalize)
  /\ WF_vars(Abandon)

Spec == Init /\ [][Next]_vars /\ Fairness

-----------------------------------------------------------------------------
TypeOK ==
  /\ copy \in Copies
  /\ geometry_type \in GeometryTypes \cup {"UNKNOWN"}
  /\ stage \in Stages
  /\ next_chunk \in 1..(Len(copy.chunks) + 1)
  /\ chunk \in [Threads -> 0..Len(copy.chunks)]
  /\ row_idx \in [Threads -> Nat \ {0}]
  /\ lock \in Threads \cup {NoThread}
  /\ Len(features) = Len(origin)
  /\ origin \in Seq((Nat \ {0}) \X (Nat \ {0}))
  /\ stage \in {"bind", "bound"} => field_defs = <<>> /\ features = <<>>

ClockShows(clock, time) ==
  /\ clock.hour \in 0..24 /\ clock.minute \in 0..59 /\ clock.second \in 0..59
  /\ (clock.hour * 60 + clock.minute) * 60 + clock.second = time

Shows(value, type, cell) ==
  IF type # "TIME" \/ cell = Null THEN value = cell ELSE ClockShows(value, cell.value)

HoldsRow(feature, row) ==
  /\ \A c \in DOMAIN copy.columns :
       IF IsGeometry(c)
       THEN feature.geometry = {row[c]}
       ELSE \E f \in DOMAIN field_defs :
              /\ field_defs[f].name = copy.columns[c].name
              /\ \E value \in feature.fields[f] :
                   /\ feature.fields[f] = {value}
                   /\ Shows(value, copy.columns[c].type, row[c])
  /\ Given("GEOMETRY_TYPE") =>
       \A g \in feature.geometry : g.kind = RequestedType

(* InitGlobal names the fields of the layer in one pass over the columns   *)
(* and Sink numbers them in another.  Each feature holds, under the name of*)
(* a column, the value its row has in that column, wherever the geometry   *)
(* stands among them, and a geometry of the type the statement asked for.  *)
FeaturesAreRows ==
  \A i \in DOMAIN features :
    HoldsRow(features[i], copy.chunks[origin[i][1]][origin[i][2]])

(* However the threads interleave, the features of a chunk stand together  *)
(* in the layer, from its first row on and in their order, and none is     *)
(* there twice, also when the COPY fails.                                  *)
ChunksStayTogether ==
  /\ \A i \in DOMAIN origin :
       \/ origin[i][2] = 1
       \/ i > 1 /\ origin[i - 1] = <<origin[i][1], origin[i][2] - 1>>
  /\ \A i, j \in DOMAIN origin : i # j => origin[i] # origin[j]

(* A COPY that reports no error has written every row.                     *)
CompleteWhenDone ==
  stage = "done" =>
    \A k \in DOMAIN copy.chunks : \A r \in DOMAIN copy.chunks[k] :
      \E i \in DOMAIN origin : origin[i] = <<k, r>>

(* The statement ends, whichever rows are rejected and while other threads *)
(* wait for the lock.                                                      *)
Termination == <>Ended

=============================================================================
