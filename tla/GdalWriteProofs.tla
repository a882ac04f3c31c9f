--------------------------- MODULE GdalWriteProofs ---------------------------
(***************************************************************************)
(* For any number of threads and any statement, of a COPY down to the bytes*)
(* of its file: the features of a chunk stand together in the layer, each  *)
(* holds its row under the right fields, and success means all of them.    *)
(***************************************************************************)
EXTENDS GdalCopy, FiniteSetTheorems, SequenceTheorems, WellFoundedInduction, TLAPS

Numbers == Nat \ {0}
Origins == Numbers \X Numbers

SinkTypeOK ==
  /\ next_chunk \in Numbers
  /\ chunk \in [Threads -> Nat]
  /\ row_idx \in [Threads -> Numbers]
  /\ lock \in Threads \cup {NoThread}
  /\ origin \in Seq(Origins)

(* No two threads have one chunk, and the chunks still to come are in      *)
(* nobody's hands and not in the layer.                                    *)
ChunksOwned ==
  /\ \A t \in Threads : chunk[t] < next_chunk
  /\ \A i \in DOMAIN origin : origin[i][1] < next_chunk
  /\ \A t, u \in Threads : t # u /\ chunk[t] # 0 => chunk[t] # chunk[u]

(* A thread that waits for the lock has written nothing of its chunk; the  *)
(* one that holds it has written the rows before row_idx, the last of them *)
(* at the end of the layer.                                                *)
Waiting(t) == chunk[t] # 0 /\ lock # t

WaitersHaveWrittenNothing ==
  \A t \in Threads : Waiting(t) =>
    /\ row_idx[t] = 1
    /\ \A i \in DOMAIN origin : origin[i][1] # chunk[t]

HolderIsAtTheEnd ==
  \A t \in Threads : lock = t =>
    /\ chunk[t] # 0
    /\ row_idx[t] # 1 =>
         /\ Len(origin) # 0
         /\ origin[Len(origin)] = <<chunk[t], row_idx[t] - 1>>
    /\ \A i \in DOMAIN origin :
         origin[i][1] = chunk[t] => origin[i][2] < row_idx[t]

WriteInv ==
  /\ SinkTypeOK
  /\ ChunksOwned
  /\ WaitersHaveWrittenNothing
  /\ HolderIsAtTheEnd
  /\ ChunksStayTogether

-----------------------------------------------------------------------------
(* The invariant holds before anything is written.                         *)
LEMMA WriteInit == Init => WriteInv
<1> SUFFICES ASSUME Init PROVE WriteInv
  OBVIOUS
<1>1. origin = <<>> /\ DOMAIN origin = {}
  BY DEF Init
<1>2. SinkTypeOK
  BY <1>1 DEF Init, SinkTypeOK, Numbers
<1>3. ChunksOwned
  BY <1>1 DEF Init, ChunksOwned
<1>4. WaitersHaveWrittenNothing
  BY <1>1 DEF Init, WaitersHaveWrittenNothing, Waiting
<1>5. HolderIsAtTheEnd
  BY <1>1, NoThreadAssumption DEF Init, HolderIsAtTheEnd
<1>6. ChunksStayTogether
  BY <1>1 DEF ChunksStayTogether
<1> QED
  BY <1>2, <1>3, <1>4, <1>5, <1>6 DEF WriteInv

(* Steps that are not the threads' leave it alone.                         *)
LEMMA SinkUnchanged == WriteInv /\ UNCHANGED sinkVars => WriteInv'
<1> SUFFICES ASSUME WriteInv, UNCHANGED sinkVars PROVE WriteInv'
  OBVIOUS
<1> USE DEF sinkVars
<1>1. SinkTypeOK'
  BY DEF WriteInv, SinkTypeOK
<1>2. ChunksOwned'
  BY DEF WriteInv, ChunksOwned
<1>3. WaitersHaveWrittenNothing'
  BY DEF WriteInv, WaitersHaveWrittenNothing, Waiting
<1>4. HolderIsAtTheEnd'
  BY DEF WriteInv, HolderIsAtTheEnd
<1>5. ChunksStayTogether'
  BY DEF WriteInv, ChunksStayTogether
<1> QED
  BY <1>1, <1>2, <1>3, <1>4, <1>5 DEF WriteInv

(* The next chunk is nobody's, and none of its rows is in the layer.       *)
LEMMA TakeChunkKeeps ==
  ASSUME WriteInv, NEW t \in Threads, TakeChunk(t)
  PROVE  WriteInv'
<1> USE DEF Numbers
<1>1. /\ next_chunk \in Nat \ {0} /\ chunk \in [Threads -> Nat]
      /\ row_idx \in [Threads -> Nat \ {0}]
      /\ chunk[t] = 0 /\ next_chunk' = next_chunk + 1
      /\ chunk' = [chunk EXCEPT ![t] = next_chunk]
      /\ row_idx' = [row_idx EXCEPT ![t] = 1]
      /\ UNCHANGED <<lock, origin>>
  BY DEF WriteInv, SinkTypeOK, TakeChunk
<1>2. /\ chunk'[t] = next_chunk /\ row_idx'[t] = 1
      /\ \A u \in Threads : u # t => chunk'[u] = chunk[u] /\ row_idx'[u] = row_idx[u]
  BY <1>1
<1>3. lock # t
  BY <1>1 DEF WriteInv, HolderIsAtTheEnd
<1>4. SinkTypeOK'
  BY <1>1 DEF WriteInv, SinkTypeOK
<1>5. ASSUME NEW i \in DOMAIN origin PROVE origin[i][1] \in Nat
  BY <1>5 DEF WriteInv, SinkTypeOK, Origins
<1>6. ChunksOwned'
  <2>1. \A u \in Threads : chunk'[u] < next_chunk'
    BY <1>1, <1>2 DEF WriteInv, ChunksOwned
  <2>2. \A i \in DOMAIN origin' : origin'[i][1] < next_chunk'
    BY <1>1, <1>5 DEF WriteInv, ChunksOwned
  <2>3. ASSUME NEW u \in Threads, NEW v \in Threads, u # v, chunk'[u] # 0
        PROVE  chunk'[u] # chunk'[v]
    BY <1>1, <1>2, <2>3 DEF WriteInv, ChunksOwned
  <2> QED
    BY <2>1, <2>2, <2>3 DEF ChunksOwned
<1>7. WaitersHaveWrittenNothing'
  <2> SUFFICES ASSUME NEW u \in Threads, Waiting(u)'
               PROVE  /\ row_idx'[u] = 1
                      /\ \A i \in DOMAIN origin' : origin'[i][1] # chunk'[u]
    BY DEF WaitersHaveWrittenNothing
  <2>1. CASE u = t
    BY <2>1, <1>1, <1>2, <1>5 DEF WriteInv, ChunksOwned
  <2>2. CASE u # t
    BY <2>2, <1>1, <1>2 DEF WriteInv, WaitersHaveWrittenNothing, Waiting
  <2> QED
    BY <2>1, <2>2
<1>8. HolderIsAtTheEnd'
  BY <1>1, <1>2, <1>3 DEF WriteInv, HolderIsAtTheEnd
<1>9. ChunksStayTogether'
  BY <1>1 DEF WriteInv, ChunksStayTogether
<1> QED
  BY <1>4, <1>6, <1>7, <1>8, <1>9 DEF WriteInv

(* The lock goes to a thread that has written nothing of its chunk.        *)
LEMMA LockKeeps ==
  ASSUME WriteInv, NEW t \in Threads, Lock(t)
  PROVE  WriteInv'
<1>1. /\ chunk[t] # 0 /\ lock = NoThread /\ lock' = t
      /\ UNCHANGED <<next_chunk, chunk, row_idx, origin>>
  BY DEF Lock
<1>2. /\ row_idx[t] = 1
      /\ \A i \in DOMAIN origin : origin[i][1] # chunk[t]
  BY <1>1, NoThreadAssumption DEF WriteInv, WaitersHaveWrittenNothing, Waiting
<1>3. SinkTypeOK'
  BY <1>1 DEF WriteInv, SinkTypeOK
<1>4. ChunksOwned'
  BY <1>1 DEF WriteInv, ChunksOwned
<1>5. WaitersHaveWrittenNothing'
  BY <1>1, NoThreadAssumption DEF WriteInv, WaitersHaveWrittenNothing, Waiting
<1>6. HolderIsAtTheEnd'
  BY <1>1, <1>2 DEF HolderIsAtTheEnd
<1>7. ChunksStayTogether'
  BY <1>1 DEF WriteInv, ChunksStayTogether
<1> QED
  BY <1>3, <1>4, <1>5, <1>6, <1>7 DEF WriteInv

(* A thread that ends its chunk, or fails in it, gives it up with the lock.*)
LEMMA ReleaseKeeps ==
  ASSUME WriteInv, NEW t \in Threads, lock = t, lock' = NoThread,
         chunk' = [chunk EXCEPT ![t] = 0],
         UNCHANGED <<next_chunk, row_idx, origin>>
  PROVE  WriteInv'
<1>1. SinkTypeOK'
  BY DEF WriteInv, SinkTypeOK
<1>2. /\ chunk'[t] = 0
      /\ \A u \in Threads : u # t => chunk'[u] = chunk[u]
  BY DEF WriteInv, SinkTypeOK
<1>3. ChunksOwned'
  <2>1. next_chunk \in Nat \ {0}
    BY DEF WriteInv, SinkTypeOK, Numbers
  <2>2. \A u \in Threads : chunk'[u] < next_chunk'
    BY <1>2, <2>1 DEF WriteInv, ChunksOwned
  <2>3. \A u, v \in Threads : u # v /\ chunk'[u] # 0 => chunk'[u] # chunk'[v]
    BY <1>2 DEF WriteInv, ChunksOwned
  <2> QED
    BY <2>2, <2>3 DEF WriteInv, ChunksOwned
<1>4. WaitersHaveWrittenNothing'
  BY <1>2 DEF WriteInv, WaitersHaveWrittenNothing, Waiting
<1>5. HolderIsAtTheEnd'
  BY NoThreadAssumption DEF HolderIsAtTheEnd
<1>6. ChunksStayTogether'
  BY DEF WriteInv, ChunksStayTogether
<1> QED
  BY <1>1, <1>3, <1>4, <1>5, <1>6 DEF WriteInv

(* A row goes to the end of the layer, behind the row before it.           *)
LEMMA WriteRowKeeps ==
  ASSUME WriteInv, NEW t \in Threads, WriteRow(t)
  PROVE  WriteInv'
<1> DEFINE last == Len(origin) + 1
           here == <<chunk[t], row_idx[t]>>
<1>1. /\ lock = t /\ chunk[t] # 0
      /\ origin' = Append(origin, here)
      /\ row_idx' = [row_idx EXCEPT ![t] = row_idx[t] + 1]
      /\ UNCHANGED <<next_chunk, chunk, lock>>
  BY DEF WriteRow, MoreRows, InSink
<1>2. /\ chunk \in [Threads -> Nat]
      /\ row_idx \in [Threads -> Nat \ {0}]
      /\ origin \in Seq(Origins)
      /\ next_chunk \in Nat \ {0}
  BY DEF WriteInv, SinkTypeOK, Numbers
<1>3. here \in Origins
  BY <1>1, <1>2 DEF Origins, Numbers
<1>4. row_idx'[t] = row_idx[t] + 1 /\ \A u \in Threads : u # t => row_idx'[u] = row_idx[u]
  BY <1>1, <1>2
<1>5. /\ origin' \in Seq(Origins)
      /\ Len(origin') = last /\ last \in Nat \ {0}
      /\ DOMAIN origin' = DOMAIN origin \cup {last}
      /\ last \notin DOMAIN origin
      /\ origin'[last] = here
      /\ \A i \in DOMAIN origin : origin'[i] = origin[i]
  <2> HIDE DEF here
  <2> QED
    BY <1>1, <1>2, <1>3
<1>6. here[1] = chunk[t] /\ here[2] = row_idx[t]
  OBVIOUS
<1>7. ASSUME NEW i \in DOMAIN origin PROVE origin[i][1] \in Nat /\ origin[i][2] \in Nat
  BY <1>2, <1>7 DEF Origins, Numbers
<1> HIDE DEF last, here
<1>8. SinkTypeOK'
  BY <1>1, <1>2, <1>5 DEF WriteInv, SinkTypeOK, Numbers
<1>9. ChunksOwned'
  <2>1. \A i \in DOMAIN origin' : origin'[i][1] < next_chunk'
    BY <1>1, <1>5, <1>6 DEF WriteInv, ChunksOwned
  <2> QED
    BY <1>1, <2>1 DEF WriteInv, ChunksOwned
<1>10. WaitersHaveWrittenNothing'
  <2> SUFFICES ASSUME NEW u \in Threads, Waiting(u)'
               PROVE  /\ row_idx'[u] = 1
                      /\ \A i \in DOMAIN origin' : origin'[i][1] # chunk'[u]
    BY DEF WaitersHaveWrittenNothing
  <2>1. u # t /\ Waiting(u) /\ chunk[u] # chunk[t]
    BY <1>1 DEF Waiting, WriteInv, ChunksOwned
  <2>2. /\ row_idx[u] = 1
        /\ \A i \in DOMAIN origin : origin[i][1] # chunk[u]
    BY <2>1 DEF WriteInv, WaitersHaveWrittenNothing
  <2> QED
    BY <1>1, <1>4, <1>5, <1>6, <2>1, <2>2
<1>11. HolderIsAtTheEnd'
  <2> SUFFICES ASSUME NEW u \in Threads, lock' = u
               PROVE  /\ chunk'[u] # 0
                      /\ row_idx'[u] # 1 =>
                           /\ Len(origin') # 0
                           /\ origin'[Len(origin')] = <<chunk'[u], row_idx'[u] - 1>>
                      /\ \A i \in DOMAIN origin' :
                           origin'[i][1] = chunk'[u] => origin'[i][2] < row_idx'[u]
    BY DEF HolderIsAtTheEnd
  <2>1. u = t
    BY <1>1
  <2>2. origin'[Len(origin')] = <<chunk'[t], row_idx'[t] - 1>>
    <3>1. row_idx'[t] - 1 = row_idx[t] /\ chunk'[t] = chunk[t]
      BY <1>1, <1>2, <1>4
    <3> QED
      BY <1>5, <3>1 DEF here
  <2>3. ASSUME NEW i \in DOMAIN origin', origin'[i][1] = chunk[t]
        PROVE  origin'[i][2] < row_idx[t] + 1
    <3>1. CASE i = last
      BY <3>1, <1>2, <1>5, <1>6
    <3>2. CASE i \in DOMAIN origin
      <4>1. origin[i][2] < row_idx[t]
        BY <3>2, <2>3, <1>1, <1>5 DEF WriteInv, HolderIsAtTheEnd
      <4> QED
        BY <4>1, <3>2, <1>2, <1>5, <1>7
    <3> QED
      BY <3>1, <3>2, <1>5
  <2> QED
    BY <1>1, <1>4, <1>5, <2>1, <2>2, <2>3
<1>12. ChunksStayTogether'
  <2>1. ASSUME NEW i \in DOMAIN origin'
        PROVE  \/ origin'[i][2] = 1
               \/ i > 1 /\ origin'[i - 1] = <<origin'[i][1], origin'[i][2] - 1>>
    <3>1. CASE i = last /\ row_idx[t] # 1
      <4>1. /\ Len(origin) # 0
            /\ origin[Len(origin)] = <<chunk[t], row_idx[t] - 1>>
        BY <3>1, <1>1 DEF WriteInv, HolderIsAtTheEnd
      <4>2. Len(origin) \in DOMAIN origin /\ last - 1 = Len(origin) /\ last > 1
        BY <4>1, <1>2 DEF last
      <4> QED
        BY <3>1, <4>1, <4>2, <1>5, <1>6
    <3>2. CASE i = last /\ row_idx[t] = 1
      BY <3>2, <1>5, <1>6
    <3>3. CASE i \in DOMAIN origin
      <4>1. \/ origin[i][2] = 1
            \/ i > 1 /\ origin[i - 1] = <<origin[i][1], origin[i][2] - 1>>
        BY <3>3 DEF WriteInv, ChunksStayTogether
      <4>2. i > 1 => i - 1 \in DOMAIN origin
        BY <3>3, <1>2
      <4> QED
        BY <4>1, <4>2, <3>3, <1>5
    <3> QED
      BY <3>1, <3>2, <3>3, <1>5
  <2>2. ASSUME NEW i \in DOMAIN origin PROVE origin[i] # here
    <3>1. origin[i][1] = chunk[t] => origin[i][2] < row_idx[t]
      BY <2>2, <1>1 DEF WriteInv, HolderIsAtTheEnd
    <3> QED
      BY <3>1, <1>2, <1>6
  <2>3. \A i, j \in DOMAIN origin' : i # j => origin'[i] # origin'[j]
    BY <2>2, <1>5 DEF WriteInv, ChunksStayTogether
  <2> QED
    BY <2>1, <2>3 DEF ChunksStayTogether
<1> QED
  BY <1>8, <1>9, <1>10, <1>11, <1>12 DEF WriteInv

-----------------------------------------------------------------------------
(* Every step keeps the invariant.                                         *)
LEMMA WriteStep == WriteInv /\ [Next]_vars => WriteInv'
<1> SUFFICES ASSUME WriteInv, [Next]_vars PROVE WriteInv'
  OBVIOUS
<1>1. CASE UNCHANGED vars
  BY <1>1, SinkUnchanged DEF vars
<1>2. CASE Bind \/ InitGlobal \/ InitGlobalFails \/ Finalize \/ Abandon
  <2>1. UNCHANGED sinkVars
    BY <1>2 DEF Bind, InitGlobal, InitGlobalFails, Finalize, Abandon
  <2> QED
    BY <2>1, SinkUnchanged
<1>3. ASSUME NEW t \in Threads, TakeChunk(t) PROVE WriteInv'
  BY <1>3, TakeChunkKeeps
<1>4. ASSUME NEW t \in Threads, Lock(t) PROVE WriteInv'
  BY <1>4, LockKeeps
<1>5. ASSUME NEW t \in Threads, WriteRow(t) PROVE WriteInv'
  BY <1>5, WriteRowKeeps
<1>6. ASSUME NEW t \in Threads, FailRow(t) \/ Unlock(t) PROVE WriteInv'
  <2>1. /\ lock = t /\ lock' = NoThread
        /\ chunk' = [chunk EXCEPT ![t] = 0]
        /\ UNCHANGED <<next_chunk, row_idx, origin>>
    BY <1>6 DEF FailRow, Unlock, MoreRows, InSink
  <2> QED
    BY <2>1, ReleaseKeeps
<1> QED
  BY <1>1, <1>2, <1>3, <1>4, <1>5, <1>6 DEF Next, Sink

(* Sink keeps the lock for its whole chunk (st_write.cpp:498): whatever    *)
(* the threads do and whichever rows are rejected, the features of a chunk *)
(* stand together and in order, and no row is written twice.               *)
THEOREM LayerKeepsChunksTogether == Spec => []ChunksStayTogether
<1>1. WriteInv => ChunksStayTogether
  BY DEF WriteInv
<1> QED
  BY <1>1, WriteInit, WriteStep, PTL DEF Spec

-----------------------------------------------------------------------------
(* Induction over the numbers, of membership in a set.                     *)
LEMMA Induction ==
  ASSUME NEW S, 0 \in S, \A n \in Nat : n \in S => n + 1 \in S
  PROVE  \A n \in Nat : n \in S
<1> DEFINE R == {p \in Nat \X Nat : p[1] < p[2]}
           T == Nat \ S
<1>1. IsWellFoundedOn(R, Nat)
  BY NatLessThanWellFounded DEF OpToRel
<1>2. SUFFICES ASSUME T # {} PROVE FALSE
  OBVIOUS
<1>3. PICK x \in T : \A y \in T : <<y, x>> \notin R
  <2> HIDE DEF R
  <2> QED
    BY <1>1, <1>2, WFMin
<1>4. x \in Nat /\ x # 0
  BY <1>3
<1>5. PICK y \in Nat : x = y + 1
  <2>1. x - 1 \in Nat /\ x = (x - 1) + 1
    BY <1>4
  <2> QED
    BY <2>1
<1>6. y \notin S
  BY <1>5
<1>7. <<y, x>> \in R
  BY <1>5
<1> QED
  BY <1>3, <1>5, <1>6, <1>7

(* The fields of the first columns, as InitGlobal has made them before it  *)
(* comes to the others.                                                    *)
Columns == Len(copy.columns)

FieldsOf(after, n) ==
  after = [c \in 0..n |->
             IF c = 0 THEN <<>>
             ELSE IF IsGeometry(c) THEN after[c - 1]
             ELSE Append(after[c - 1], copy.columns[c])]

LEMMA CopyTypes ==
  ASSUME copy \in Copies
  PROVE  /\ copy.columns \in Seq(ColumnSet) /\ Columns \in Nat
         /\ DOMAIN copy.columns = 1..Columns
         /\ \A c \in 1..Columns : copy.columns[c] \in ColumnSet
<1>1. copy.columns \in Seq(ColumnSet)
  BY CopiesAssumption
<1> QED
  BY <1>1 DEF Columns

(* The loop of InitGlobal comes to every column.                           *)
LEMMA FieldsDefined ==
  ASSUME copy \in Copies
  PROVE  \E after : FieldsOf(after, Columns) /\ Fields = after[Columns]
<1> DEFINE S == {n \in Nat : \E after : FieldsOf(after, n)}
<1>1. 0 \in S
  <2>1. FieldsOf([c \in 0..0 |-> <<>>], 0)
    BY DEF FieldsOf
  <2> QED
    BY <2>1
<1>2. ASSUME NEW n \in Nat, n \in S PROVE n + 1 \in S
  <2>1. PICK f : FieldsOf(f, n)
    BY <1>2
  <2> DEFINE last == IF IsGeometry(n + 1) THEN f[n] ELSE Append(f[n], copy.columns[n + 1])
             g    == [c \in 0..(n + 1) |-> IF c = n + 1 THEN last ELSE f[c]]
  <2>2. \A c \in 0..(n + 1) :
          g[c] = IF c = 0 THEN <<>>
                 ELSE IF IsGeometry(c) THEN g[c - 1]
                 ELSE Append(g[c - 1], copy.columns[c])
    <3> SUFFICES ASSUME NEW c \in 0..(n + 1)
                 PROVE  g[c] = IF c = 0 THEN <<>>
                               ELSE IF IsGeometry(c) THEN g[c - 1]
                               ELSE Append(g[c - 1], copy.columns[c])
      OBVIOUS
    <3>1. CASE c = n + 1
      <4>1. g[c] = last /\ c - 1 = n /\ g[n] = f[n]
        BY <3>1
      <4> HIDE DEF g
      <4> QED
        BY <3>1, <4>1
    <3>2. CASE c # n + 1
      <4>1. c \in 0..n /\ g[c] = f[c] /\ (c # 0 => g[c - 1] = f[c - 1])
        BY <3>2
      <4>2. f[c] = IF c = 0 THEN <<>>
                   ELSE IF IsGeometry(c) THEN f[c - 1]
                   ELSE Append(f[c - 1], copy.columns[c])
        BY <2>1, <4>1 DEF FieldsOf
      <4> HIDE DEF g
      <4> QED
        BY <4>1, <4>2
    <3> QED
      BY <3>1, <3>2
  <2>3. FieldsOf(g, n + 1)
    <3>1. g = [c \in 0..(n + 1) |-> g[c]]
      OBVIOUS
    <3> HIDE DEF g
    <3> QED
      BY <2>2, <3>1 DEF FieldsOf
  <2> QED
    BY <2>3
<1>3. Columns \in S
  <2> HIDE DEF S
  <2> QED
    BY <1>1, <1>2, Induction, CopyTypes
<1>4. Fields = (CHOOSE after : FieldsOf(after, Columns))[Columns]
  BY DEF Fields, FieldsOf, Columns
<1>5. FieldsOf(CHOOSE after : FieldsOf(after, Columns), Columns)
  BY <1>3
<1> QED
  BY <1>4, <1>5

NonGeometries(n) == {d \in 1..n : ~IsGeometry(d)}

LEMMA FieldIndices ==
  /\ FieldIndex(0) = 0
  /\ \A n \in Nat : FieldIndex(n) \in Nat
  /\ \A n \in Nat : FieldIndex(n + 1) =
       IF IsGeometry(n + 1) THEN FieldIndex(n) ELSE FieldIndex(n) + 1
<1>1. \A n \in Nat : FieldIndex(n) = Cardinality(NonGeometries(n))
  BY DEF FieldIndex, NonGeometries
<1>2. \A n \in Nat : IsFiniteSet(NonGeometries(n))
  <2> SUFFICES ASSUME NEW n \in Nat PROVE IsFiniteSet(NonGeometries(n))
    OBVIOUS
  <2>1. IsFiniteSet(1..n) /\ NonGeometries(n) \subseteq 1..n
    BY FS_Interval DEF NonGeometries
  <2> QED
    BY <2>1, FS_Subset
<1>3. NonGeometries(0) = {}
  BY DEF NonGeometries
<1>4. ASSUME NEW n \in Nat
      PROVE  FieldIndex(n + 1) =
               IF IsGeometry(n + 1) THEN FieldIndex(n) ELSE FieldIndex(n) + 1
  <2>1. CASE IsGeometry(n + 1)
    <3>1. NonGeometries(n + 1) = NonGeometries(n)
      BY <2>1 DEF NonGeometries
    <3> QED
      BY <1>1, <2>1, <3>1
  <2>2. CASE ~IsGeometry(n + 1)
    <3>1. /\ NonGeometries(n + 1) = NonGeometries(n) \cup {n + 1}
          /\ n + 1 \notin NonGeometries(n)
      BY <2>2 DEF NonGeometries
    <3>2. Cardinality(NonGeometries(n + 1)) = Cardinality(NonGeometries(n)) + 1
      BY <1>2, <3>1, FS_AddElement
    <3> QED
      BY <1>1, <2>2, <3>2
  <2> QED
    BY <2>1, <2>2
<1> QED
  BY <1>1, <1>2, <1>3, <1>4, FS_EmptySet, FS_CardinalityType

(* Sink numbers the columns as InitGlobal made their fields.               *)
InItsField(fields, c) ==
  ~IsGeometry(c) =>
    /\ FieldIndex(c) \in 1..Len(fields)
    /\ fields[FieldIndex(c)] = copy.columns[c]

LEMMA FieldsFollowColumns ==
  ASSUME copy \in Copies
  PROVE  /\ Fields \in Seq(ColumnSet)
         /\ \A c \in 1..Columns : InItsField(Fields, c)
<1>1. PICK after : FieldsOf(after, Columns) /\ Fields = after[Columns]
  BY FieldsDefined
<1> DEFINE Made(n) == /\ after[n] \in Seq(ColumnSet)
                      /\ Len(after[n]) = FieldIndex(n)
                      /\ \A c \in 1..n : InItsField(after[n], c)
           S == {n \in Nat : n <= Columns => Made(n)}
<1>2. 0 \in S
  <2>1. after[0] = <<>>
    BY <1>1, CopyTypes DEF FieldsOf
  <2>2. after[0] \in Seq(ColumnSet) /\ Len(after[0]) = 0
    BY <2>1
  <2>3. Made(0)
    BY <2>2, FieldIndices
  <2> HIDE DEF Made
  <2> QED
    BY <2>3
<1>3. ASSUME NEW n \in Nat, n \in S, n + 1 <= Columns PROVE Made(n + 1)
  <2>1. Made(n)
    BY <1>3, CopyTypes
  <2>2. /\ n + 1 \in 1..Columns
        /\ after[n + 1] = IF IsGeometry(n + 1) THEN after[n]
                          ELSE Append(after[n], copy.columns[n + 1])
    <3>1. n + 1 \in 1..Columns /\ n + 1 \in 0..Columns /\ n + 1 # 0 /\ (n + 1) - 1 = n
      BY <1>3, CopyTypes
    <3> QED
      BY <1>1, <3>1 DEF FieldsOf
  <2> PICK old \in Seq(ColumnSet) : old = after[n]
    BY <2>1
  <2> PICK k \in Nat : k = FieldIndex(n)
    BY FieldIndices
  <2>3. Len(old) = k /\ \A c \in 1..n : InItsField(old, c)
    BY <2>1
  <2>4. CASE IsGeometry(n + 1)
    <3>1. after[n + 1] = old /\ FieldIndex(n + 1) = k
      BY <2>2, <2>4, FieldIndices
    <3>2. \A c \in 1..(n + 1) : InItsField(old, c)
      BY <2>3, <2>4 DEF InItsField
    <3> QED
      BY <2>3, <3>1, <3>2
  <2>5. CASE ~IsGeometry(n + 1)
    <3> PICK column \in ColumnSet : column = copy.columns[n + 1]
      BY <2>2, CopyTypes
    <3> PICK new : new = Append(old, column)
      OBVIOUS
    <3>1. after[n + 1] = new /\ FieldIndex(n + 1) = k + 1
      BY <2>2, <2>5, FieldIndices
    <3>2. /\ new \in Seq(ColumnSet) /\ Len(new) = k + 1 /\ new[k + 1] = column
          /\ \A f \in 1..k : new[f] = old[f]
      BY <2>3
    <3>3. ASSUME NEW c \in 1..(n + 1), ~IsGeometry(c)
          PROVE  FieldIndex(c) \in 1..(k + 1) /\ new[FieldIndex(c)] = copy.columns[c]
      <4>1. CASE c = n + 1
        BY <3>1, <3>2, <4>1
      <4>2. CASE c # n + 1
        <5>1. c \in 1..n
          BY <4>2
        <5>2. FieldIndex(c) \in 1..k /\ old[FieldIndex(c)] = copy.columns[c]
          BY <2>3, <3>3, <5>1 DEF InItsField
        <5> QED
          BY <3>2, <5>2
      <4> QED
        BY <4>1, <4>2
    <3>4. \A c \in 1..(n + 1) : InItsField(new, c)
      BY <3>2, <3>3 DEF InItsField
    <3> QED
      BY <3>1, <3>2, <3>4
  <2> QED
    BY <2>4, <2>5
<1>4. \A n \in Nat : n \in S => n + 1 \in S
  BY <1>3
<1>5. Columns \in S
  <2> HIDE DEF S
  <2> QED
    BY <1>2, <1>4, Induction, CopyTypes
<1>6. Made(Columns)
  BY <1>5, CopyTypes
<1> QED
  BY <1>1, <1>6

(* No two columns share a field. *)
LEMMA FieldsApart ==
  ASSUME copy \in Copies, NEW c \in 1..Columns, NEW d \in 1..Columns,
         ~IsGeometry(c), ~IsGeometry(d), FieldIndex(c) = FieldIndex(d)
  PROVE  c = d
<1> DEFINE S == {n \in Nat : \A i \in 0..n : FieldIndex(i) <= FieldIndex(n)}
<1>1. 0 \in S
  BY FieldIndices
<1>2. ASSUME NEW n \in Nat, n \in S PROVE n + 1 \in S
  <2>1. FieldIndex(n) <= FieldIndex(n + 1) /\ FieldIndex(n) \in Nat /\ FieldIndex(n + 1) \in Nat
    BY FieldIndices
  <2>2. ASSUME NEW i \in 0..n PROVE FieldIndex(i) <= FieldIndex(n + 1)
    <3>1. FieldIndex(i) \in Nat /\ FieldIndex(i) <= FieldIndex(n)
      BY <1>2, FieldIndices
    <3> QED
      BY <2>1, <3>1
  <2>3. \A i \in 0..(n + 1) : FieldIndex(i) <= FieldIndex(n + 1)
    BY <2>1, <2>2
  <2> QED
    BY <2>3
<1>3. \A n \in Nat : n \in S
  <2> HIDE DEF S
  <2> QED
    BY <1>1, <1>2, Induction
<1>4. ASSUME NEW i \in 1..Columns, NEW j \in 1..Columns, ~IsGeometry(j), i < j
      PROVE  FieldIndex(i) # FieldIndex(j)
  <2>1. i \in Nat /\ j - 1 \in Nat /\ i \in 0..(j - 1) /\ (j - 1) + 1 = j
    BY <1>4, CopyTypes
  <2> PICK n \in Nat : n = j - 1
    BY <2>1
  <2>2. /\ FieldIndex(i) \in Nat /\ FieldIndex(n) \in Nat
        /\ FieldIndex(i) <= FieldIndex(n) /\ FieldIndex(n + 1) = FieldIndex(n) + 1
    BY <1>3, <1>4, <2>1, FieldIndices
  <2> QED
    BY <2>1, <2>2
<1> QED
  BY <1>4, CopyTypes

-----------------------------------------------------------------------------
(* A time is taken apart into the numbers that show it.                    *)
LEMMA Sixtieths ==
  ASSUME NEW m \in Nat, m < 3600
  PROVE  /\ m \div 60 \in Nat /\ m \div 60 <= 59 /\ m % 60 \in Nat /\ m % 60 <= 59
         /\ 60 * (m \div 60) + (m % 60) = m
OBVIOUS

LEMMA ClockIsRight ==
  ASSUME NEW n, TimeOfDay(n)
  PROVE  ClockShows(Clock(n), n)
<1>1. n \in Nat /\ n <= 86400
  BY DEF TimeOfDay
<1> PICK h \in Int, m \in Int : h = n \div 3600 /\ m = n % 3600
  BY <1>1
<1>2. 0 <= h /\ h <= 24 /\ 0 <= m /\ m < 3600 /\ 3600 * h + m = n
  BY <1>1
<1> PICK k \in Nat, s \in Nat :
           k = m \div 60 /\ s = m % 60 /\ k <= 59 /\ s <= 59 /\ 60 * k + s = m
  BY <1>2, Sixtieths
<1>3. n % 60 = s
  BY <1>1, <1>2
<1>4. Clock(n) = [hour |-> h, minute |-> k, second |-> s]
  BY <1>3 DEF Clock
<1> QED
  BY <1>1, <1>2, <1>4 DEF ClockShows

LEMMA FieldValueShows ==
  ASSUME NEW type, NEW cell, CellOf(type, cell)
  PROVE  Shows(FieldValue(type, cell), type, cell)
<1>1. CASE type # "TIME" \/ cell = Null
  BY Zenon, <1>1 DEF Shows, FieldValue
<1>2. CASE ~(type # "TIME" \/ cell = Null)
  <2>1. TimeOfDay(cell.value)
    BY Zenon, <1>2 DEF CellOf
  <2>2. ClockShows(Clock(cell.value), cell.value)
    BY Zenon, <2>1, ClockIsRight
  <2> QED
    BY Zenon, <1>2, <2>2 DEF Shows, FieldValue
<1> QED
  BY Zenon, <1>1, <1>2

(* A feature holds the row it is made from.                                *)
LEMMA FeatureHoldsRow ==
  ASSUME copy \in Copies, OptionsAccepted, LayerAccepted,
         field_defs = Fields, geometry_type = RequestedType,
         NEW row, RowOf(copy.columns, row), ~RowRejected(row)
  PROVE  HoldsRow(Feature(row), row)
<1> DEFINE feature == Feature(row)
           G       == {c \in DOMAIN copy.columns : IsGeometry(c)}
<1>1. DOMAIN row = DOMAIN copy.columns /\ DOMAIN copy.columns = 1..Columns /\ Columns \in Nat
  BY CopyTypes DEF RowOf
<1>2. /\ feature.geometry = {row[c] : c \in {d \in DOMAIN row : IsGeometry(d)}}
      /\ feature.fields = [f \in DOMAIN field_defs |->
           {FieldValue(copy.columns[c].type, row[c]) :
              c \in {d \in DOMAIN row : ~IsGeometry(d) /\ FieldIndex(d) = f}}]
  BY DEF Feature
<1>3. \A c, d \in G : c = d
  <2> SUFFICES ASSUME NEW c \in G, NEW d \in G, c # d PROVE FALSE
    OBVIOUS
  <2>1. IsFiniteSet(G) /\ Cardinality(G) \in Nat /\ Cardinality(G) <= 1
    <3>1. IsFiniteSet(1..Columns) /\ G \subseteq 1..Columns
      BY <1>1, FS_Interval
    <3> QED
      BY <3>1, FS_Subset, FS_CardinalityType DEF LayerAccepted
  <2>2. {c, d} \subseteq G /\ Cardinality({c, d}) = 2
    <3>1. IsFiniteSet({c}) /\ Cardinality({c}) = 1 /\ d \notin {c}
      BY FS_Singleton
    <3>2. Cardinality({c} \cup {d}) = 1 + 1
      BY <3>1, FS_AddElement
    <3>3. {c, d} = {c} \cup {d}
      OBVIOUS
    <3> QED
      BY <3>2, <3>3
  <2> HIDE DEF G
  <2>3. Cardinality({c, d}) <= Cardinality(G)
    BY <2>1, <2>2, FS_Subset
  <2> QED
    BY <2>1, <2>2, <2>3
<1>4. ASSUME NEW c \in DOMAIN copy.columns, IsGeometry(c)
      PROVE  feature.geometry = {row[c]}
  <2>1. {d \in DOMAIN row : IsGeometry(d)} = {c}
    BY <1>1, <1>3, <1>4
  <2> QED
    BY <1>2, <2>1
<1>5. ASSUME NEW c \in DOMAIN copy.columns, ~IsGeometry(c)
      PROVE  \E f \in DOMAIN field_defs :
               /\ field_defs[f].name = copy.columns[c].name
               /\ \E value \in feature.fields[f] :
                    /\ feature.fields[f] = {value}
                    /\ Shows(value, copy.columns[c].type, row[c])
  <2> DEFINE value == FieldValue(copy.columns[c].type, row[c])
  <2> PICK f : f = FieldIndex(c)
    OBVIOUS
  <2>1. f \in DOMAIN field_defs /\ field_defs[f] = copy.columns[c]
    <3>1. InItsField(Fields, c) /\ Fields \in Seq(ColumnSet)
      BY <1>1, FieldsFollowColumns
    <3> QED
      BY <1>5, <3>1 DEF InItsField
  <2>2. {d \in DOMAIN row : ~IsGeometry(d) /\ FieldIndex(d) = f} = {c}
    BY <1>1, <1>5, FieldsApart
  <2>3. feature.fields[f] = {value}
    <3> HIDE DEF feature
    <3> QED
      BY <1>2, <2>1, <2>2
  <2>4. Shows(value, copy.columns[c].type, row[c])
    BY FieldValueShows DEF RowOf
  <2> HIDE DEF value, feature
  <2> QED
    BY <2>1, <2>3, <2>4
<1>6. ASSUME Given("GEOMETRY_TYPE"), NEW g \in feature.geometry
      PROVE  g.kind = RequestedType
  <2>1. PICK c \in DOMAIN copy.columns : IsGeometry(c) /\ g = row[c]
    BY <1>1, <1>2, <1>6
  <2>2. ~GeometryRejected(copy.columns[c].type, row[c])
    BY <2>1 DEF RowRejected
  <2>3. geometry_type # "UNKNOWN"
    BY <1>6 DEF OptionsAccepted, GeometryTypes
  <2> QED
    BY <2>1, <2>2, <2>3 DEF GeometryRejected
<1> HIDE DEF feature
<1>7. HoldsRow(feature, row)
  BY <1>4, <1>5, <1>6 DEF HoldsRow
<1> QED
  BY <1>7 DEF feature

-----------------------------------------------------------------------------
(* What a statement has settled at each of its stages, and the chunks that *)
(* the threads have in hand.                                               *)
Settled ==
  /\ copy \in Copies
  /\ stage \in {"bind", "bound"} => features = <<>>
  /\ stage \in {"bound", "writing", "failing"} =>
       OptionsAccepted /\ geometry_type = RequestedType
  /\ Running => LayerAccepted /\ field_defs = Fields

ChunksInHand ==
  \A t \in Threads : chunk[t] # 0 => Running /\ chunk[t] \in DOMAIN copy.chunks

OriginsKept ==
  /\ \E S : features \in Seq(S)
  /\ Len(features) = Len(origin)

LayerInv == Settled /\ ChunksInHand /\ OriginsKept /\ FeaturesAreRows

LEMMA LayerInit == Init => LayerInv
<1> SUFFICES ASSUME Init PROVE LayerInv
  OBVIOUS
<1>1. Settled
  BY DEF Init, Settled, Running
<1>2. ChunksInHand
  BY DEF Init, ChunksInHand
<1>3. OriginsKept
  BY DEF Init, OriginsKept
<1>4. FeaturesAreRows
  BY DEF Init, FeaturesAreRows
<1> QED
  BY <1>1, <1>2, <1>3, <1>4 DEF LayerInv

(* What a feature holds depends on the statement and its fields only.      *)
LEMMA FeaturesSame ==
  ASSUME FeaturesAreRows, UNCHANGED <<copy, field_defs, features, origin>>
  PROVE  FeaturesAreRows'
BY DEF FeaturesAreRows, HoldsRow, IsGeometry, Given, RequestedType

(* Bind settles the options; nothing is written before.                    *)
LEMMA BindKeepsLayer ==
  ASSUME LayerInv, Bind
  PROVE  LayerInv'
<1>1. /\ stage = "bind" /\ stage' \in {"bound", "failed"}
      /\ UNCHANGED <<copy, field_defs, sinkVars>>
      /\ stage' = "bound" => OptionsAccepted /\ geometry_type' = RequestedType
  BY DEF Bind
<1>2. UNCHANGED <<features, origin, chunk>>
  BY <1>1 DEF sinkVars
<1>3. Settled'
  BY <1>1, <1>2 DEF LayerInv, Settled, Running, OptionsAccepted, Given, RequestedType
<1>4. ChunksInHand'
  BY <1>1, <1>2 DEF LayerInv, ChunksInHand, Running
<1>5. OriginsKept'
  BY <1>2 DEF LayerInv, OriginsKept
<1>6. FeaturesAreRows'
  BY <1>1, <1>2, FeaturesSame DEF LayerInv
<1> QED
  BY <1>3, <1>4, <1>5, <1>6 DEF LayerInv

(* InitGlobal makes the fields before there is a feature.                  *)
LEMMA InitGlobalKeepsLayer ==
  ASSUME LayerInv, InitGlobal
  PROVE  LayerInv'
<1>1. /\ stage = "bound" /\ stage' = "writing" /\ LayerAccepted /\ field_defs' = Fields
      /\ UNCHANGED <<copy, geometry_type, features, origin, chunk>>
  BY DEF InitGlobal, sinkVars
<1>2. LayerAccepted' /\ Fields' = Fields
  BY <1>1 DEF LayerAccepted, Fields, IsGeometry
<1>3. Settled'
  BY <1>1, <1>2 DEF LayerInv, Settled, Running, OptionsAccepted, Given, RequestedType
<1>4. ChunksInHand'
  BY <1>1 DEF LayerInv, ChunksInHand, Running
<1>5. OriginsKept'
  BY <1>1 DEF LayerInv, OriginsKept
<1>6. FeaturesAreRows'
  BY <1>1 DEF LayerInv, Settled, FeaturesAreRows
<1> QED
  BY <1>3, <1>4, <1>5, <1>6 DEF LayerInv

(* A step that leaves the layer alone may end the statement, and fails it  *)
(* only while the pipeline runs.                                           *)
LEMMA SettledSame ==
  ASSUME Settled, UNCHANGED <<copy, geometry_type, field_defs, features>>,
         \/ stage' = stage
         \/ stage' \in {"done", "failed"}
         \/ Running /\ stage' = "failing"
  PROVE  Settled'
<1>1. Fields' = Fields /\ (LayerAccepted <=> LayerAccepted')
  BY DEF Fields, LayerAccepted, IsGeometry
<1>2. (OptionsAccepted <=> OptionsAccepted') /\ RequestedType' = RequestedType
  BY DEF OptionsAccepted, Given, RequestedType
<1> QED
  BY <1>1, <1>2 DEF Settled, Running

LEMMA LayerSame ==
  ASSUME LayerInv, UNCHANGED <<copy, geometry_type, field_defs, features, origin>>,
         \/ stage' = stage
         \/ stage' \in {"done", "failed"}
         \/ Running /\ stage' = "failing",
         ChunksInHand'
  PROVE  LayerInv'
<1>1. Settled'
  BY SettledSame DEF LayerInv
<1>2. OriginsKept'
  BY DEF LayerInv, OriginsKept
<1>3. FeaturesAreRows'
  BY FeaturesSame DEF LayerInv
<1> QED
  BY <1>1, <1>2, <1>3 DEF LayerInv

LEMMA StageKeepsLayer ==
  ASSUME LayerInv, InitGlobalFails \/ Finalize \/ Abandon \/ UNCHANGED vars
  PROVE  LayerInv'
<1>1. /\ UNCHANGED <<copy, geometry_type, field_defs, features, origin, chunk>>
      /\ stage' = stage \/ stage' \in {"done", "failed"}
      /\ stage' = stage \/ stage = "bound" \/ \A t \in Threads : chunk[t] = 0
  BY DEF InitGlobalFails, Finalize, Abandon, Idle, vars, sinkVars
<1>2. ChunksInHand'
  BY <1>1 DEF LayerInv, ChunksInHand, Running
<1> QED
  BY <1>1, <1>2, LayerSame

LEMMA ThreadKeepsLayer ==
  ASSUME WriteInv, LayerInv, NEW t \in Threads,
         TakeChunk(t) \/ Lock(t) \/ FailRow(t) \/ Unlock(t)
  PROVE  LayerInv'
<1>1. /\ chunk \in [Threads -> Nat] /\ next_chunk \in Nat \ {0}
  BY DEF WriteInv, SinkTypeOK, Numbers
<1>2. UNCHANGED <<copy, geometry_type, field_defs, features, origin>>
  BY DEF TakeChunk, Lock, FailRow, Unlock
<1>3. DOMAIN copy.chunks = 1..Len(copy.chunks) /\ Len(copy.chunks) \in Nat
  BY CopiesAssumption DEF LayerInv, Settled, Listed
<1>4. CASE TakeChunk(t)
  <2>1. /\ Running /\ stage' = stage /\ next_chunk \in DOMAIN copy.chunks
        /\ chunk' = [chunk EXCEPT ![t] = next_chunk]
    BY <1>1, <1>3, <1>4 DEF TakeChunk
  <2>2. ChunksInHand'
    BY <1>1, <1>2, <2>1 DEF LayerInv, ChunksInHand, Running
  <2> QED
    BY <1>2, <2>1, <2>2, LayerSame
<1>5. CASE Lock(t)
  <2>1. stage' = stage /\ chunk' = chunk
    BY <1>5 DEF Lock
  <2>2. ChunksInHand'
    BY <1>2, <2>1 DEF LayerInv, ChunksInHand, Running
  <2> QED
    BY <1>2, <2>1, <2>2, LayerSame
<1>6. CASE FailRow(t) \/ Unlock(t)
  <2>1. /\ chunk[t] # 0 /\ chunk' = [chunk EXCEPT ![t] = 0]
        /\ stage' = stage \/ stage' = "failing"
    BY <1>6 DEF FailRow, Unlock, MoreRows, InSink
  <2>2. Running
    BY <2>1 DEF LayerInv, ChunksInHand
  <2>3. Running'
    BY <2>1, <2>2 DEF Running
  <2>4. ChunksInHand'
    BY <1>1, <1>2, <2>1, <2>3 DEF LayerInv, ChunksInHand
  <2> QED
    BY <1>2, <2>1, <2>2, <2>4, LayerSame
<1> QED
  BY <1>4, <1>5, <1>6

(* A feature goes to the end of the layer, with its row.                   *)
LEMMA AppendBoth ==
  ASSUME NEW S, NEW T, NEW s \in Seq(S), NEW o \in Seq(T), Len(s) = Len(o), NEW x, NEW y \in T
  PROVE  /\ Append(s, x) \in Seq(S \cup {x})
         /\ Len(Append(s, x)) = Len(Append(o, y))
         /\ \A i \in DOMAIN Append(s, x) :
              IF i = Len(s) + 1 THEN Append(s, x)[i] = x /\ Append(o, y)[i] = y
              ELSE i \in DOMAIN s /\ Append(s, x)[i] = s[i] /\ Append(o, y)[i] = o[i]
OBVIOUS

LEMMA WriteRowKeepsLayer ==
  ASSUME WriteInv, LayerInv, NEW t \in Threads, WriteRow(t)
  PROVE  LayerInv'
<1>1. /\ chunk[t] # 0 /\ row_idx[t] \in Nat \ {0} /\ chunk[t] \in Nat
      /\ row_idx[t] <= Len(copy.chunks[chunk[t]]) /\ ~RowRejected(Row(t))
      /\ features' = Append(features, Feature(Row(t)))
      /\ origin' = Append(origin, <<chunk[t], row_idx[t]>>)
      /\ UNCHANGED <<copy, geometry_type, stage, field_defs, chunk>>
      /\ origin \in Seq(Origins)
  BY DEF WriteRow, MoreRows, InSink, WriteInv, SinkTypeOK, Numbers
<1>2. /\ Running /\ copy \in Copies /\ chunk[t] \in DOMAIN copy.chunks
      /\ OptionsAccepted /\ LayerAccepted
      /\ field_defs = Fields /\ geometry_type = RequestedType
  BY <1>1 DEF LayerInv, Settled, ChunksInHand, Running
<1>3. Listed(copy.chunks[chunk[t]])
  BY <1>2, CopiesAssumption
<1>4. row_idx[t] \in DOMAIN copy.chunks[chunk[t]]
  BY <1>1, <1>3 DEF Listed
<1>5. RowOf(copy.columns, Row(t))
  BY <1>2, <1>4, CopiesAssumption DEF Row
<1>6. HoldsRow(Feature(Row(t)), Row(t))
  BY <1>1, <1>2, <1>5, FeatureHoldsRow
<1> PICK here \in Origins : here = <<chunk[t], row_idx[t]>>
  BY <1>1 DEF Origins, Numbers
<1>7. Row(t) = copy.chunks[here[1]][here[2]]
  BY DEF Row
<1> PICK feature, row : feature = Feature(Row(t)) /\ row = Row(t)
  OBVIOUS
<1> PICK S : features \in Seq(S)
  BY DEF LayerInv, OriginsKept
<1>8. /\ features' = Append(features, feature) /\ origin' = Append(origin, here)
      /\ Len(features) = Len(origin) /\ HoldsRow(feature, row)
      /\ row = copy.chunks[here[1]][here[2]]
  BY <1>1, <1>6, <1>7 DEF LayerInv, OriginsKept
<1>9. /\ features' \in Seq(S \cup {feature}) /\ Len(features') = Len(origin')
      /\ \A i \in DOMAIN features' :
           IF i = Len(features) + 1 THEN features'[i] = feature /\ origin'[i] = here
           ELSE i \in DOMAIN features /\ features'[i] = features[i] /\ origin'[i] = origin[i]
  BY SMTT(30), <1>1, <1>8, AppendBoth
<1>10. Settled'
  <2>1. Fields' = Fields /\ (LayerAccepted <=> LayerAccepted')
    BY <1>1 DEF Fields, LayerAccepted, IsGeometry
  <2>2. (OptionsAccepted <=> OptionsAccepted') /\ RequestedType' = RequestedType
    BY <1>1 DEF OptionsAccepted, Given, RequestedType
  <2> QED
    BY <1>1, <1>2, <2>1, <2>2 DEF LayerInv, Settled, Running
<1>11. ChunksInHand'
  BY <1>1 DEF LayerInv, ChunksInHand, Running
<1>12. OriginsKept'
  BY <1>9 DEF OriginsKept
<1>13. FeaturesAreRows'
  <2>1. ASSUME NEW i \in DOMAIN features'
        PROVE  HoldsRow(features'[i], copy.chunks[origin'[i][1]][origin'[i][2]])
    <3>1. CASE i = Len(features) + 1
      BY <1>8, <1>9, <3>1
    <3>2. CASE i # Len(features) + 1
      BY <1>9, <3>2 DEF LayerInv, FeaturesAreRows
    <3> QED
      BY <3>1, <3>2
  <2> QED
    BY ZenonT(40), <1>1, <2>1 DEF FeaturesAreRows, HoldsRow, IsGeometry, Given, RequestedType
<1> QED
  BY <1>10, <1>11, <1>12, <1>13 DEF LayerInv

LEMMA LayerStep == WriteInv /\ LayerInv /\ [Next]_vars => LayerInv'
<1> SUFFICES ASSUME WriteInv, LayerInv, [Next]_vars PROVE LayerInv'
  OBVIOUS
<1>1. CASE InitGlobalFails \/ Finalize \/ Abandon \/ UNCHANGED vars
  BY <1>1, StageKeepsLayer
<1>2. CASE Bind
  BY <1>2, BindKeepsLayer
<1>3. CASE InitGlobal
  BY <1>3, InitGlobalKeepsLayer
<1>4. ASSUME NEW t \in Threads, TakeChunk(t) \/ Lock(t) \/ FailRow(t) \/ Unlock(t)
      PROVE  LayerInv'
  BY <1>4, ThreadKeepsLayer
<1>5. ASSUME NEW t \in Threads, WriteRow(t) PROVE LayerInv'
  BY <1>5, WriteRowKeepsLayer
<1> QED
  BY <1>1, <1>2, <1>3, <1>4, <1>5 DEF Next, Sink

(* A feature holds its row (st_write.cpp:508): InitGlobal and Sink count   *)
(* the columns apart, and agree on the field of each, wherever the geometry*)
(* stands, whatever the options and however many columns there are.        *)
THEOREM LayerHoldsTheRows == Spec => []FeaturesAreRows
<1>1. LayerInv => FeaturesAreRows
  BY DEF LayerInv
<1> QED
  BY <1>1, WriteInit, WriteStep, LayerInit, LayerStep, PTL DEF Spec

-----------------------------------------------------------------------------
(* While no row has failed, a row of a chunk that has been taken is in the *)
(* layer, or ahead of the thread that has the chunk.                       *)
RowsWritten ==
  stage \in {"writing", "done"} =>
    \A k \in DOMAIN copy.chunks : k < next_chunk =>
      \A r \in DOMAIN copy.chunks[k] :
        \/ \E i \in DOMAIN origin : origin[i] = <<k, r>>
        \/ \E t \in Threads : chunk[t] = k /\ row_idx[t] <= r

NothingTaken == stage \in {"bind", "bound"} => next_chunk = 1

AllTaken == stage = "done" => Idle /\ next_chunk > Len(copy.chunks)

CompleteInv == RowsWritten /\ NothingTaken /\ AllTaken

LEMMA CompleteInit == Init => CompleteInv
BY DEF Init, CompleteInv, RowsWritten, NothingTaken, AllTaken

(* The numbers of the chunks and rows.                                     *)
LEMMA ChunksListed ==
  ASSUME copy \in Copies
  PROVE  /\ Len(copy.chunks) \in Nat /\ DOMAIN copy.chunks = 1..Len(copy.chunks)
         /\ \A k \in DOMAIN copy.chunks :
              /\ Len(copy.chunks[k]) \in Nat
              /\ DOMAIN copy.chunks[k] = 1..Len(copy.chunks[k])
BY CopiesAssumption DEF Listed

LEMMA StageKeepsComplete ==
  ASSUME WriteInv, LayerInv, CompleteInv,
         \/ Bind \/ InitGlobal \/ InitGlobalFails \/ Finalize \/ Abandon
         \/ UNCHANGED vars
  PROVE  CompleteInv'
<1>1. /\ next_chunk \in Nat \ {0} /\ DOMAIN copy.chunks = 1..Len(copy.chunks)
      /\ Len(copy.chunks) \in Nat
  BY ChunksListed DEF WriteInv, SinkTypeOK, Numbers, LayerInv, Settled
<1>2. UNCHANGED <<copy, next_chunk, chunk, row_idx, origin>>
  BY DEF Bind, InitGlobal, InitGlobalFails, Finalize, Abandon, vars, sinkVars
<1>3. \/ stage' = "writing" /\ stage = "bound"
      \/ stage' = stage
      \/ stage' = "bound" /\ stage = "bind"
      \/ stage' = "failed"
      \/ stage' = "done" /\ stage = "writing" /\ Idle /\ next_chunk > Len(copy.chunks)
  BY DEF Bind, InitGlobal, InitGlobalFails, Finalize, Abandon, vars
<1>4. RowsWritten'
  <2>1. CASE stage' = "writing" /\ stage = "bound"
    BY <1>1, <1>2, <2>1 DEF CompleteInv, NothingTaken, RowsWritten
  <2>2. CASE ~(stage' = "writing" /\ stage = "bound")
    BY <1>2, <1>3, <2>2 DEF CompleteInv, RowsWritten
  <2> QED
    BY <2>1, <2>2
<1>5. NothingTaken'
  BY <1>2, <1>3 DEF CompleteInv, NothingTaken
<1>6. AllTaken'
  BY <1>2, <1>3 DEF CompleteInv, AllTaken, Idle
<1> QED
  BY <1>4, <1>5, <1>6 DEF CompleteInv

LEMMA ThreadKeepsComplete ==
  ASSUME WriteInv, LayerInv, CompleteInv, NEW t \in Threads, TakeChunk(t) \/ Sink(t)
  PROVE  CompleteInv'
<1>1. /\ next_chunk \in Nat \ {0} /\ chunk \in [Threads -> Nat]
      /\ row_idx \in [Threads -> Nat \ {0}] /\ origin \in Seq(Origins)
  BY DEF WriteInv, SinkTypeOK, Numbers
<1>2. /\ Len(copy.chunks) \in Nat /\ DOMAIN copy.chunks = 1..Len(copy.chunks)
      /\ \A k \in DOMAIN copy.chunks :
           /\ Len(copy.chunks[k]) \in Nat
           /\ DOMAIN copy.chunks[k] = 1..Len(copy.chunks[k])
  BY ChunksListed DEF LayerInv, Settled
<1>3. /\ UNCHANGED copy
      /\ stage' = stage \/ stage' = "failing"
  BY DEF TakeChunk, Sink, Lock, WriteRow, FailRow, Unlock
<1>4. Running
  BY DEF TakeChunk, Sink, Lock, WriteRow, FailRow, Unlock, MoreRows, InSink,
         LayerInv, ChunksInHand
<1>5. NothingTaken' /\ AllTaken'
  BY <1>3, <1>4 DEF NothingTaken, AllTaken, Running
<1>6. RowsWritten'
  <2> SUFFICES ASSUME stage' \in {"writing", "done"}, NEW k \in DOMAIN copy.chunks,
                      k < next_chunk', NEW r \in DOMAIN copy.chunks[k]
               PROVE  \/ \E i \in DOMAIN origin' : origin'[i] = <<k, r>>
                      \/ \E u \in Threads : chunk'[u] = k /\ row_idx'[u] <= r
    BY <1>3 DEF RowsWritten
  <2>1. k \in Nat \ {0} /\ r \in Nat \ {0} /\ r <= Len(copy.chunks[k]) /\ Len(copy.chunks[k]) \in Nat
    BY <1>2
  <2>2. stage \in {"writing", "done"} /\ stage' = stage
    BY <1>3
  <2>3. k < next_chunk => \/ \E i \in DOMAIN origin : origin[i] = <<k, r>>
                          \/ \E u \in Threads : chunk[u] = k /\ row_idx[u] <= r
    BY <2>2 DEF CompleteInv, RowsWritten
  <2>4. CASE TakeChunk(t)
    <3>1. /\ chunk[t] = 0 /\ next_chunk' = next_chunk + 1 /\ origin' = origin
          /\ chunk'[t] = next_chunk /\ row_idx'[t] = 1
          /\ \A u \in Threads : u # t => chunk'[u] = chunk[u] /\ row_idx'[u] = row_idx[u]
      BY <1>1, <2>4 DEF TakeChunk
    <3>2. CASE k = next_chunk
      BY <2>1, <3>1, <3>2
    <3>3. CASE k # next_chunk
      <4>1. k < next_chunk
        BY <1>1, <2>1, <3>1, <3>3
      <4>2. \A u \in Threads : chunk[u] = k => u # t
        BY <2>1, <3>1
      <4> QED
        BY <2>3, <3>1, <4>1, <4>2
    <3> QED
      BY <3>2, <3>3
  <2>5. CASE Lock(t)
    BY <2>3, <2>5 DEF Lock
  <2>6. CASE WriteRow(t)
    <3>1. /\ next_chunk' = next_chunk /\ chunk' = chunk
          /\ row_idx'[t] = row_idx[t] + 1 /\ row_idx[t] \in Nat
          /\ \A u \in Threads : u # t => row_idx'[u] = row_idx[u]
          /\ origin' = Append(origin, <<chunk[t], row_idx[t]>>)
      BY <1>1, <2>6 DEF WriteRow
    <3> PICK here \in Origins : here = <<chunk[t], row_idx[t]>>
      BY <1>1, <2>6 DEF WriteRow, MoreRows, InSink, Origins, Numbers
    <3>2. /\ Len(origin) + 1 \in DOMAIN origin' /\ origin'[Len(origin) + 1] = here
          /\ \A i \in DOMAIN origin : i \in DOMAIN origin' /\ origin'[i] = origin[i]
      <4>1. origin' = Append(origin, here)
        BY <3>1
      <4> QED
        BY <1>1, <4>1
    <3>3. CASE \E i \in DOMAIN origin : origin[i] = <<k, r>>
      BY <3>2, <3>3
    <3>4. CASE \E u \in Threads : chunk[u] = k /\ row_idx[u] <= r
      <4> PICK u \in Threads : chunk[u] = k /\ row_idx[u] <= r
        BY <3>4
      <4>1. CASE u = t /\ row_idx[t] = r
        BY <3>2, <4>1
      <4>2. CASE ~(u = t /\ row_idx[t] = r)
        <5>1. chunk'[u] = k /\ row_idx'[u] <= r
          <6>1. CASE u = t
            BY <2>1, <3>1, <4>2, <6>1
          <6>2. CASE u # t
            BY <3>1, <6>2
          <6> QED
            BY <6>1, <6>2
        <5> QED
          BY <5>1
      <4> QED
        BY <4>1, <4>2
    <3> QED
      BY <2>3, <3>1, <3>3, <3>4
  <2>7. CASE FailRow(t)
    BY <2>2, <2>7 DEF FailRow, CompleteInv
  <2>8. CASE Unlock(t)
    <3>1. /\ UNCHANGED <<next_chunk, row_idx, origin>>
          /\ ~(row_idx[t] <= Len(copy.chunks[chunk[t]]))
          /\ \A u \in Threads : u # t => chunk'[u] = chunk[u]
      BY <1>1, <2>8 DEF Unlock, MoreRows
    <3>2. ~(chunk[t] = k /\ row_idx[t] <= r)
      BY <1>1, <2>1, <3>1
    <3> QED
      BY <2>3, <3>1, <3>2
  <2> QED
    BY <2>4, <2>5, <2>6, <2>7, <2>8 DEF Sink
<1> QED
  BY <1>5, <1>6 DEF CompleteInv

LEMMA CompleteStep == WriteInv /\ LayerInv /\ CompleteInv /\ [Next]_vars => CompleteInv'
<1> SUFFICES ASSUME WriteInv, LayerInv, CompleteInv, [Next]_vars PROVE CompleteInv'
  OBVIOUS
<1>1. CASE \/ Bind \/ InitGlobal \/ InitGlobalFails \/ Finalize \/ Abandon
           \/ UNCHANGED vars
  BY <1>1, StageKeepsComplete
<1>2. ASSUME NEW t \in Threads, TakeChunk(t) \/ Sink(t) PROVE CompleteInv'
  BY <1>2, ThreadKeepsComplete
<1> QED
  BY <1>1, <1>2 DEF Next

LEMMA DoneIsComplete ==
  ASSUME WriteInv, LayerInv, CompleteInv
  PROVE  CompleteWhenDone
<1> SUFFICES ASSUME stage = "done", NEW k \in DOMAIN copy.chunks,
                    NEW r \in DOMAIN copy.chunks[k]
             PROVE  \E i \in DOMAIN origin : origin[i] = <<k, r>>
  BY DEF CompleteWhenDone
<1>1. k \in Nat \ {0} /\ k <= Len(copy.chunks) /\ Len(copy.chunks) \in Nat
  BY ChunksListed DEF LayerInv, Settled
<1>2. next_chunk \in Nat /\ next_chunk > Len(copy.chunks) /\ \A t \in Threads : chunk[t] = 0
  BY DEF CompleteInv, AllTaken, Idle, WriteInv, SinkTypeOK, Numbers
<1> QED
  BY <1>1, <1>2 DEF CompleteInv, RowsWritten

-----------------------------------------------------------------------------
(* GdalCopy is GdalWrite with a file: each of its steps is one of GdalWrite*)
(* or leaves the variables of GdalWrite alone.                             *)
LEMMA CopyStep == CopyNext => [Next]_vars
<1> SUFFICES ASSUME CopyNext PROVE [Next]_vars
  OBVIOUS
<1>1. CASE BindCopy \/ CreateFile \/ RefuseLayer
  BY <1>1 DEF BindCopy, CreateFile, RefuseLayer, Next
<1>2. ASSUME NEW t \in Threads, BeginSink(t) \/ CreateFeature(t) \/ RejectRow(t)
      PROVE  Next
  BY <1>2 DEF BeginSink, CreateFeature, RejectRow, Next, Sink
<1>3. CASE CloseDataset \/ ReadHeader
  BY <1>3 DEF CloseDataset, ReadHeader
<1>4. CASE UpdateHeader \/ CloseFails
  BY <1>4 DEF UpdateHeader, CloseFails, Next
<1>5. CASE AbandonCopy \/ (Ended /\ UNCHANGED copyVars)
  BY <1>5 DEF AbandonCopy, copyVars, Next
<1> QED
  BY <1>1, <1>2, <1>3, <1>4, <1>5 DEF CopyNext

LEMMA CopyVarsStep == [CopyNext]_copyVars => [Next]_vars
BY CopyStep DEF copyVars

-----------------------------------------------------------------------------
(* Items are counted by a division; that none is missing means that all the*)
(* bytes are there.                                                        *)
LEMMA Division ==
  ASSUME NEW n \in Nat \ {0}, NEW k \in Nat, k < n
  PROVE  n \div 1 = n /\ k \div 1 = k /\ n \div n = 1 /\ k \div n = 0
<1>1. n \div 1 = n /\ k \div 1 = k
  OBVIOUS
<1>2. n \div n = 1
  OBVIOUS
<1>3. k \div n = 0
  OBVIOUS
<1> QED
  BY <1>1, <1>2, <1>3

LEMMA AllItemsAllBytes ==
  ASSUME NEW n \in Nat \ {0}, NEW k \in Nat, k <= n, NEW size \in {1, n},
         k \div size = n \div size
  PROVE  k = n
BY Division

(* Features of one size, one after the other.                              *)
LEMMA FeaturesApart ==
  ASSUME NEW i \in Nat \ {0}, NEW n \in Nat, i <= n
  PROVE  /\ Before(i) \in Nat /\ Before(n + 1) \in Nat /\ HeaderSize <= Before(i)
         /\ Before(i) + FeatureSize <= Before(n + 1)
<1>1. HeaderSize \in Nat /\ FeatureSize \in Nat
  BY FileSizesAssumption
<1> PICK d \in Nat, b \in Nat : n = (i - 1) + 1 + d /\ b = i - 1
  <2>1. n - i \in Nat /\ n = (i - 1) + 1 + (n - i) /\ i - 1 \in Nat
    OBVIOUS
  <2> QED
    BY <2>1
<1>2. b * FeatureSize \in Nat /\ d * FeatureSize \in Nat
  BY <1>1
<1>3. (b + 1 + d) * FeatureSize = b * FeatureSize + FeatureSize + d * FeatureSize
  BY <1>1
<1>4. Before(i) = HeaderSize + b * FeatureSize
  BY DEF Before
<1>5. Before(n + 1) = HeaderSize + (b + 1 + d) * FeatureSize
  <2>1. (n + 1) - 1 = b + 1 + d
    OBVIOUS
  <2> QED
    BY <2>1 DEF Before
<1> QED
  BY <1>1, <1>2, <1>3, <1>4, <1>5

LEMMA NextFeature ==
  ASSUME NEW n \in Nat
  PROVE  Before(n + 1) \in Nat /\ Before(n + 1) + FeatureSize = Before((n + 1) + 1)
<1>1. HeaderSize \in Nat /\ FeatureSize \in Nat
  BY FileSizesAssumption
<1>2. n * FeatureSize \in Nat /\ (n + 1) * FeatureSize = n * FeatureSize + FeatureSize
  BY <1>1
<1>3. (n + 1) - 1 = n /\ ((n + 1) + 1) - 1 = n + 1
  OBVIOUS
<1> QED
  BY <1>1, <1>2, <1>3 DEF Before

-----------------------------------------------------------------------------
Byte == [of : Int \X Int, byte : Int]

LEMMA BytesAre ==
  ASSUME NEW of \in Int \X Int, NEW size \in Nat
  PROVE  /\ Bytes(of, size) \in Seq(Byte) /\ Len(Bytes(of, size)) = size
         /\ \A j \in 1..size : Bytes(of, size)[j] = [of |-> of, byte |-> j]
<1>1. Bytes(of, size) \in [1..size -> Byte]
  BY DEF Bytes, Byte
<1>2. Bytes(of, size) \in Seq(Byte)
  BY <1>1, SeqDef
<1>3. DOMAIN Bytes(of, size) = 1..size
  BY DEF Bytes
<1>4. Len(Bytes(of, size)) = size
  BY <1>2, <1>3, LenProperties
<1> QED
  BY <1>2, <1>4 DEF Bytes

LEMMA PrefixIs ==
  ASSUME NEW bytes \in Seq(Byte), NEW k \in Nat, k <= Len(bytes)
  PROVE  /\ SubSeq(bytes, 1, k) \in Seq(Byte) /\ Len(SubSeq(bytes, 1, k)) = k
         /\ \A j \in 1..k : SubSeq(bytes, 1, k)[j] = bytes[j]
<1>1. \A j \in 1..k : bytes[j] \in Byte
  BY ElementOfSeq, LenProperties
<1>2. /\ SubSeq(bytes, 1, k) \in Seq(Byte)
      /\ Len(SubSeq(bytes, 1, k)) = IF 1 <= k THEN k - 1 + 1 ELSE 0
      /\ \A j \in 1..(k - 1 + 1) : SubSeq(bytes, 1, k)[j] = bytes[1 + j - 1]
  BY <1>1, SubSeqProperties
<1> QED
  BY <1>2

IsPart(u, bytes, first, end) == u = SubSeq(bytes, first, end)
IsJoined(all, u, v, w) == all = u \o v \o w

LEMMA SuffixIs ==
  ASSUME NEW bytes \in Seq(Byte), Len(bytes) \in Nat, NEW e \in Nat
  PROVE  \E w \in Seq(Byte) :
           /\ IsPart(w, bytes, e + 1, Len(bytes))
           /\ Len(w) \in Nat
           /\ e > Len(bytes) => Len(w) = 0
           /\ e <= Len(bytes) => e + Len(w) = Len(bytes)
           /\ \A i \in 1..Len(w) : w[i] = bytes[e + i]
<1>1. \A j \in (e + 1)..Len(bytes) : bytes[j] \in Byte
  BY ElementOfSeq
<1>2. /\ SubSeq(bytes, e + 1, Len(bytes)) \in Seq(Byte)
      /\ Len(SubSeq(bytes, e + 1, Len(bytes))) = IF e + 1 <= Len(bytes) THEN Len(bytes) - (e + 1) + 1 ELSE 0
      /\ \A j \in 1..(Len(bytes) - (e + 1) + 1) :
           SubSeq(bytes, e + 1, Len(bytes))[j] = bytes[(e + 1) + j - 1]
  BY <1>1, SubSeqProperties
<1> PICK w \in Seq(Byte) : w = SubSeq(bytes, e + 1, Len(bytes))
  BY <1>2
<1>3. /\ Len(w) = IF e + 1 <= Len(bytes) THEN Len(bytes) - (e + 1) + 1 ELSE 0
      /\ \A j \in 1..(Len(bytes) - (e + 1) + 1) : w[j] = bytes[(e + 1) + j - 1]
  BY <1>2
<1>4. /\ Len(w) \in Nat
      /\ e > Len(bytes) => Len(w) = 0
      /\ e <= Len(bytes) => e + Len(w) = Len(bytes)
  BY <1>3
<1>5. ASSUME NEW i \in 1..Len(w) PROVE w[i] = bytes[e + i]
  <2>1. i \in 1..(Len(bytes) - (e + 1) + 1) /\ (e + 1) + i - 1 = e + i
    BY <1>4
  <2> QED
    BY <1>3, <2>1
<1> QED
  BY Zenon, <1>4, <1>5 DEF IsPart

LEMMA ThreeParts ==
  ASSUME NEW u \in Seq(Byte), NEW v \in Seq(Byte), NEW w \in Seq(Byte)
  PROVE  \E all \in Seq(Byte) :
           /\ IsJoined(all, u, v, w)
           /\ Len(all) = Len(u) + Len(v) + Len(w)
           /\ \A j \in 1..Len(u) : all[j] = u[j]
           /\ \A j \in 1..Len(v) : all[Len(u) + j] = v[j]
           /\ \A j \in 1..Len(w) : all[Len(u) + Len(v) + j] = w[j]
<1> PICK a \in Nat, b \in Nat, c \in Nat : a = Len(u) /\ b = Len(v) /\ c = Len(w)
  BY LenProperties
<1>1. /\ u \o v \in Seq(Byte) /\ Len(u \o v) = a + b
      /\ \A j \in 1..(a + b) : (u \o v)[j] = IF j <= a THEN u[j] ELSE v[j - a]
  BY ConcatProperties
<1> PICK x \in Seq(Byte) : x = u \o v
  BY <1>1
<1>2. /\ Len(x) = a + b
      /\ \A j \in 1..(a + b) : x[j] = IF j <= a THEN u[j] ELSE v[j - a]
  BY <1>1
<1>3. /\ x \o w \in Seq(Byte) /\ Len(x \o w) = a + b + c
      /\ \A j \in 1..(a + b + c) :
           (x \o w)[j] = IF j <= a + b THEN x[j] ELSE w[j - (a + b)]
  BY <1>2, ConcatProperties
<1> PICK y \in Seq(Byte) : y = x \o w
  BY <1>3
<1>4. /\ Len(y) = a + b + c
      /\ \A j \in 1..(a + b + c) : y[j] = IF j <= a + b THEN x[j] ELSE w[j - (a + b)]
  BY <1>3
<1>5. \A j \in 1..a : y[j] = u[j]
  BY <1>2, <1>4
<1>6. ASSUME NEW j \in 1..b PROVE y[a + j] = v[j]
  <2>1. a + j \in 1..(a + b) /\ a + j \in 1..(a + b + c) /\ a + j <= a + b
        /\ ~(a + j <= a) /\ (a + j) - a = j
    OBVIOUS
  <2> QED
    BY <1>2, <1>4, <2>1
<1>7. ASSUME NEW j \in 1..c PROVE y[a + b + j] = w[j]
  <2>1. a + b + j \in 1..(a + b + c) /\ ~(a + b + j <= a + b) /\ (a + b + j) - (a + b) = j
    OBVIOUS
  <2> QED
    BY <1>4, <2>1
<1>8. IsJoined(y, u, v, w)
  BY Zenon DEF IsJoined
<1> QED
  BY ZenonT(40), <1>4, <1>5, <1>6, <1>7, <1>8

(* Bytes written within a file or at its end.                              *)
WrittenAt(p, bytes, old, new) ==
  /\ new \in Seq(Byte)
  /\ p + Len(bytes) > Len(old) => Len(new) = p + Len(bytes)
  /\ p + Len(bytes) <= Len(old) => Len(new) = Len(old)
  /\ \A j \in 1..p : new[j] = old[j]
  /\ \A j \in 1..Len(bytes) : new[p + j] = bytes[j]
  /\ \A j \in (p + Len(bytes) + 1)..Len(old) : new[j] = old[j]

LEMMA SplicedSizes ==
  ASSUME NEW p \in Nat, NEW m \in Nat, NEW n \in Nat, NEW w \in Nat, NEW e \in Nat,
         p <= n, e - p = m, e > n => w = 0, e <= n => e + w = n
  PROVE  /\ e > n => p + m + w = e
         /\ e <= n => p + m + w = n
         /\ \A j \in (e + 1)..n :
              j - e \in 1..w /\ p + m + (j - e) = j /\ e + (j - e) = j
OBVIOUS

LEMMA SplicedIs ==
  ASSUME NEW c \in Seq(Byte), NEW bytes \in Seq(Byte), Len(c) \in Nat, Len(bytes) \in Nat,
         NEW p \in Nat, p <= Len(c), NEW e \in Nat, e - p = Len(bytes)
  PROVE  WrittenAt(p, bytes, c, SubSeq(c, 1, p) \o bytes \o SubSeq(c, e + 1, Len(c)))
<1>1. PICK u \in Seq(Byte) :
        /\ IsPart(u, c, 1, p) /\ Len(u) = p
        /\ \A j \in 1..p : u[j] = c[j]
  BY PrefixIs DEF IsPart
<1>2. PICK w \in Seq(Byte) :
        /\ IsPart(w, c, e + 1, Len(c))
        /\ Len(w) \in Nat
        /\ e > Len(c) => Len(w) = 0
        /\ e <= Len(c) => e + Len(w) = Len(c)
        /\ \A i \in 1..Len(w) : w[i] = c[e + i]
  BY SuffixIs
<1>3. PICK new \in Seq(Byte) :
        /\ IsJoined(new, u, bytes, w)
        /\ Len(new) = Len(u) + Len(bytes) + Len(w)
        /\ \A j \in 1..Len(u) : new[j] = u[j]
        /\ \A j \in 1..Len(bytes) : new[Len(u) + j] = bytes[j]
        /\ \A j \in 1..Len(w) : new[Len(u) + Len(bytes) + j] = w[j]
  BY ZenonT(40), ThreeParts
<1>4. /\ Len(u) = p /\ Len(w) \in Nat
      /\ e > Len(c) => Len(w) = 0
      /\ e <= Len(c) => e + Len(w) = Len(c)
  BY Zenon, <1>1, <1>2
<1>5. /\ e > Len(c) => Len(new) = e
      /\ e <= Len(c) => Len(new) = Len(c)
  <2>1. Len(new) = Len(u) + Len(bytes) + Len(w)
    BY Zenon, <1>3
  <2> QED
    BY <1>4, <2>1, SplicedSizes
<1>6. ASSUME NEW j \in (e + 1)..Len(c) PROVE new[j] = c[j]
  <2>1. j - e \in 1..Len(w) /\ Len(u) + Len(bytes) + (j - e) = j /\ e + (j - e) = j
    BY <1>4, SplicedSizes
  <2>2. new[Len(u) + Len(bytes) + (j - e)] = w[j - e]
    BY Zenon, <1>3, <2>1
  <2>3. w[j - e] = c[e + (j - e)]
    BY Zenon, <1>2, <2>1
  <2> QED
    BY Zenon, <2>1, <2>2, <2>3
<1>7. /\ \A j \in 1..p : new[j] = c[j]
      /\ \A j \in 1..Len(bytes) : new[p + j] = bytes[j]
  BY Zenon, <1>1, <1>3, <1>4
<1>8. WrittenAt(p, bytes, c, new)
  <2>1. p + Len(bytes) = e
    OBVIOUS
  <2> QED
    BY Zenon, <1>5, <1>6, <1>7, <2>1 DEF WrittenAt
<1> QED
  BY Zenon, <1>1, <1>2, <1>3, <1>8 DEF IsPart, IsJoined

LEMMA OverwrittenIs ==
  ASSUME contents \in Seq(Byte), NEW bytes \in Seq(Byte),
         NEW p \in Nat, p <= Len(contents)
  PROVE  WrittenAt(p, bytes, contents, Overwritten(p, bytes))
<1>1. /\ Len(contents) \in Nat /\ Len(bytes) \in Nat
      /\ p + Len(bytes) \in Nat /\ (p + Len(bytes)) - p = Len(bytes)
  BY LenProperties
<1>2. WrittenAt(p, bytes, contents,
                SubSeq(contents, 1, p) \o bytes
                  \o SubSeq(contents, (p + Len(bytes)) + 1, Len(contents)))
  BY Zenon, <1>1, SplicedIs
<1> QED
  BY Zenon, <1>2 DEF Overwritten

(* A handle has a position.                                                *)
IsHandle(h) == h = [flags |-> h.flags, position |-> h.position] /\ h.position \in Nat

LEMMA WrittenIs ==
  ASSUME contents \in Seq(Byte), NEW bytes \in Seq(Byte), Len(bytes) # 0,
         NEW h, IsHandle(h), h.position <= Len(contents),
         NEW all, Written(h, bytes, all)
  PROVE  /\ contents' \in Seq(Byte) /\ IsHandle(handle')
         /\ all => WrittenAt(h.position, bytes, contents, contents')
<1> PICK n \in Nat, p \in Nat : n = Len(bytes) /\ p = h.position /\ n # 0
  BY LenProperties DEF IsHandle
<1> PICK k \in 0..n, size \in {1, n} :
           Wrote(h, bytes, k) /\ (all <=> k \div size = n \div size)
  <2>1. PICK k \in 0..Len(bytes), size \in {1, Len(bytes)} :
          /\ Wrote(h, bytes, k)
          /\ all <=> ItemsWritten(k, size, Len(bytes) \div size) = Len(bytes) \div size
    BY Zenon DEF Written
  <2>2. ItemsWritten(k, size, Len(bytes) \div size) = k \div size
    BY Zenon DEF ItemsWritten
  <2> QED
    BY Zenon, <2>1, <2>2
<1> PICK part : part = SubSeq(bytes, 1, k)
  OBVIOUS
<1>1. /\ part \in Seq(Byte) /\ Len(part) = k
      /\ \A j \in 1..k : part[j] = bytes[j]
  BY PrefixIs
<1>2. contents' = Overwritten(p, part)
  BY DEF Wrote
<1>3. handle' = [flags |-> h.flags, position |-> p + k]
  BY DEF Wrote, IsHandle
<1>4. IsHandle(handle')
  BY <1>3 DEF IsHandle
<1>5. WrittenAt(p, part, contents, contents')
  BY <1>1, <1>2, OverwrittenIs
<1>6. ASSUME all PROVE WrittenAt(p, bytes, contents, contents')
  <2>1. k = n
    <3>1. k \div size = n \div size
      BY Zenon, <1>6
    <3>2. n \in Nat \ {0} /\ k \in Nat /\ k <= n
      OBVIOUS
    <3> QED
      BY Zenon, <3>1, <3>2, AllItemsAllBytes
  <2> QED
    BY <1>1, <1>5, <2>1 DEF WrittenAt
<1>7. contents' \in Seq(Byte)
  BY <1>5 DEF WrittenAt
<1> QED
  BY <1>4, <1>6, <1>7

-----------------------------------------------------------------------------
(* A file that has a header, which counts n features, and the features o.  *)
Holds(file, start, of, size) ==
  \A j \in 1..size : file[start + j] = [of |-> of, byte |-> j]

FileHolds(file, n, o) ==
  /\ Len(file) = Before(Len(o) + 1)
  /\ Holds(file, 0, <<0, n>>, HeaderSize)
  /\ \A i \in DOMAIN o : Holds(file, Before(i), o[i], FeatureSize)

LEMMA FileBegun ==
  ASSUME NEW new, WrittenAt(0, Header(0), <<>>, new)
  PROVE  FileHolds(new, 0, <<>>)
<1>1. HeaderSize \in Nat \ {0} /\ FeatureSize \in Nat
  BY FileSizesAssumption
<1>2. /\ Len(Header(0)) = HeaderSize
      /\ \A j \in 1..HeaderSize : Header(0)[j] = [of |-> <<0, 0>>, byte |-> j]
  <2>1. <<0, 0>> \in Int \X Int
    OBVIOUS
  <2> QED
    BY <1>1, <2>1, BytesAre DEF Header
<1> PICK h : h = Header(0)
  OBVIOUS
<1>3. Len(h) = HeaderSize /\ \A j \in 1..HeaderSize : h[j] = [of |-> <<0, 0>>, byte |-> j]
  BY <1>2
<1>4. Len(new) = HeaderSize /\ \A j \in 1..HeaderSize : new[0 + j] = h[j]
  BY <1>1, <1>3 DEF WrittenAt
<1>5. Len(new) = Before(Len(<<>>) + 1)
  <2>1. (0 + 1) - 1 = 0 /\ 0 * FeatureSize = 0
    BY <1>1
  <2> QED
    BY <1>1, <1>4, <2>1 DEF Before
<1>6. Holds(new, 0, <<0, 0>>, HeaderSize)
  BY <1>3, <1>4 DEF Holds
<1> QED
  BY <1>5, <1>6 DEF FileHolds

(* A feature at the end of the file.                                       *)
LEMMA FileExtended ==
  ASSUME NEW n, NEW file, NEW new, NEW o \in Seq(Origins), NEW here \in Origins,
         FileHolds(file, n, o), WrittenAt(Len(file), FeatureBytes(here), file, new)
  PROVE  FileHolds(new, n, Append(o, here))
<1>1. HeaderSize \in Nat /\ FeatureSize \in Nat \ {0}
  BY FileSizesAssumption
<1> PICK k \in Nat : k = Len(o)
  BY LenProperties
<1> PICK bytes, p : bytes = FeatureBytes(here) /\ p = Before(k + 1)
  OBVIOUS
<1>2. Len(bytes) = FeatureSize /\ Holds(bytes, 0, here, FeatureSize)
  <2>1. here \in Int \X Int
    BY DEF Origins, Numbers
  <2>2. /\ Len(bytes) = FeatureSize
        /\ \A j \in 1..FeatureSize : bytes[j] = [of |-> here, byte |-> j]
    BY <1>1, <2>1, BytesAre DEF FeatureBytes
  <2> QED
    BY <2>2 DEF Holds
<1>3. p \in Nat /\ p + FeatureSize = Before((k + 1) + 1) /\ Len(file) = p
  BY NextFeature DEF FileHolds
<1>4. /\ Len(new) = p + FeatureSize
      /\ \A j \in 1..p : new[j] = file[j]
      /\ \A j \in 1..FeatureSize : new[p + j] = bytes[j]
  BY <1>1, <1>2, <1>3 DEF WrittenAt
<1>5. Holds(new, p, here, FeatureSize)
  BY <1>2, <1>4 DEF Holds
<1>6. /\ Len(Append(o, here)) = k + 1 /\ Append(o, here)[k + 1] = here
      /\ DOMAIN Append(o, here) = 1..(k + 1)
      /\ \A i \in 1..k : i \in DOMAIN o /\ Append(o, here)[i] = o[i]
  OBVIOUS
<1>7. Holds(new, 0, <<0, n>>, HeaderSize)
  <2>1. HeaderSize <= p
    <3>1. Before(k + 1) = HeaderSize + k * FeatureSize /\ k * FeatureSize \in Nat
      <4>1. (k + 1) - 1 = k
        OBVIOUS
      <4> QED
        BY <1>1, <4>1 DEF Before
    <3> QED
      BY <1>1, <3>1
  <2> QED
    BY <1>1, <1>3, <1>4, <2>1 DEF FileHolds, Holds
<1>8. ASSUME NEW i \in 1..(k + 1) PROVE Holds(new, Before(i), Append(o, here)[i], FeatureSize)
  <2>1. CASE i = k + 1
    BY <1>5, <1>6, <2>1
  <2>2. CASE i \in 1..k
    <3>1. Before(i) \in Nat /\ Before(i) + FeatureSize <= p
      BY <2>2, FeaturesApart
    <3>2. Holds(file, Before(i), o[i], FeatureSize)
      BY <1>6, <2>2 DEF FileHolds
    <3>3. PICK b, x : b \in Nat /\ b = Before(i) /\ x = o[i]
      BY <3>1
    <3>4. b \in Nat /\ b + FeatureSize <= p /\ Holds(file, b, x, FeatureSize)
      BY Zenon, <3>1, <3>2, <3>3
    <3>5. ASSUME NEW j \in 1..FeatureSize PROVE b + j \in 1..p
      BY <1>1, <1>3, <3>4
    <3>6. Holds(new, b, x, FeatureSize)
      BY Zenon, <1>4, <3>4, <3>5 DEF Holds
    <3> QED
      BY <1>6, <2>2, <3>3, <3>6
  <2> QED
    BY <2>1, <2>2
<1> QED
  BY <1>3, <1>4, <1>6, <1>8, <1>7 DEF FileHolds

(* The header, written again.                                              *)
LEMMA FileCounted ==
  ASSUME NEW m, NEW n, NEW file, NEW new, NEW o \in Seq(Origins), NEW header,
         FileHolds(file, m, o), Len(header) = HeaderSize,
         Holds(header, 0, <<0, n>>, HeaderSize), WrittenAt(0, header, file, new)
  PROVE  FileHolds(new, n, o)
<1>1. HeaderSize \in Nat /\ FeatureSize \in Nat
  BY FileSizesAssumption
<1> PICK k, p : k \in Nat /\ k = Len(o) /\ p = Before(k + 1)
  BY LenProperties
<1>2. Len(file) = p /\ p \in Nat /\ HeaderSize <= p
  <2>1. Before(k + 1) = HeaderSize + k * FeatureSize /\ k * FeatureSize \in Nat
    <3>1. (k + 1) - 1 = k
      OBVIOUS
    <3> QED
      BY <1>1, <3>1 DEF Before
  <2> QED
    BY <1>1, <2>1 DEF FileHolds
<1>3. /\ Len(new) = p
      /\ \A j \in 1..HeaderSize : new[0 + j] = header[j]
      /\ \A j \in (HeaderSize + 1)..p : new[j] = file[j]
  BY <1>1, <1>2 DEF WrittenAt
<1>4. Holds(new, 0, <<0, n>>, HeaderSize)
  BY <1>3 DEF Holds
<1>5. ASSUME NEW i \in DOMAIN o PROVE Holds(new, Before(i), o[i], FeatureSize)
  <2>1. i \in Nat \ {0} /\ i <= k
    BY LenProperties
  <2>2. Before(i) \in Nat /\ HeaderSize <= Before(i) /\ Before(i) + FeatureSize <= p
    BY <2>1, FeaturesApart
  <2>3. Holds(file, Before(i), o[i], FeatureSize)
    BY DEF FileHolds
  <2> PICK b, x : b \in Nat /\ b = Before(i) /\ x = o[i]
    BY <2>2
  <2>4. Holds(new, b, x, FeatureSize)
    BY <1>1, <1>2, <1>3, <2>2, <2>3 DEF Holds
  <2> QED
    BY <2>4
<1> QED
  BY <1>2, <1>3, <1>4, <1>5 DEF FileHolds

(* A piece of the file.                                                    *)
LEMMA PieceIs ==
  ASSUME NEW file \in Seq(Byte), NEW start \in Nat, NEW size \in Nat,
         start + size <= Len(file), NEW of \in Int \X Int, Holds(file, start, of, size)
  PROVE  SubSeq(file, start + 1, start + size) = Bytes(of, size)
<1>1. /\ Bytes(of, size) \in Seq(Byte) /\ Len(Bytes(of, size)) = size
      /\ \A j \in 1..size : Bytes(of, size)[j] = [of |-> of, byte |-> j]
  BY BytesAre
<1>2. \A j \in (start + 1)..(start + size) : file[j] \in Byte
  BY ElementOfSeq
<1>3. /\ SubSeq(file, start + 1, start + size) \in Seq(Byte)
      /\ Len(SubSeq(file, start + 1, start + size)) =
           IF start + 1 <= start + size THEN (start + size) - (start + 1) + 1 ELSE 0
      /\ \A j \in 1..((start + size) - (start + 1) + 1) :
           SubSeq(file, start + 1, start + size)[j] = file[(start + 1) + j - 1]
  BY <1>2, SubSeqProperties
<1>4. PICK piece \in Seq(Byte) : IsPart(piece, file, start + 1, start + size)
  BY <1>3 DEF IsPart
<1>5. /\ Len(piece) = size
      /\ \A j \in 1..((start + size) - (start + 1) + 1) : piece[j] = file[(start + 1) + j - 1]
  <2>1. piece = SubSeq(file, start + 1, start + size)
    BY Zenon, <1>4 DEF IsPart
  <2>2. /\ Len(piece) = IF start + 1 <= start + size THEN (start + size) - (start + 1) + 1 ELSE 0
        /\ \A j \in 1..((start + size) - (start + 1) + 1) : piece[j] = file[(start + 1) + j - 1]
    BY Zenon, <1>3, <2>1
  <2>3. size = IF start + 1 <= start + size THEN (start + size) - (start + 1) + 1 ELSE 0
    OBVIOUS
  <2> QED
    BY Zenon, <2>2, <2>3
<1>6. ASSUME NEW j \in 1..size PROVE piece[j] = [of |-> of, byte |-> j]
  <2>1. /\ j \in 1..((start + size) - (start + 1) + 1)
        /\ (start + 1) + j - 1 = start + j
    OBVIOUS
  <2> QED
    BY <1>5, <2>1 DEF Holds
<1>7. piece = Bytes(of, size)
  BY <1>1, <1>5, <1>6, SeqEqual
<1> QED
  BY Zenon, <1>4, <1>7 DEF IsPart

-----------------------------------------------------------------------------
(* The file while nothing has failed: it follows the layer, its header     *)
(* counts nothing until the dataset is closed, and then the bytes read back*)
(* are those of the header, as far as the reading has come.                *)
FileTypeOK ==
  /\ contents \in Seq(Byte)
  /\ IsHandle(handle)
  /\ closing \in BOOLEAN

FileFollows ==
  /\ stage \in {"bind", "bound"} => contents = <<>>
  /\ stage = "writing" => FileHolds(contents, 0, origin)
  /\ stage = "done" => FileHolds(contents, Len(origin), origin)

HeaderBuffered ==
  /\ reading = [remaining |-> reading.remaining, buffer |-> reading.buffer]
  /\ reading.remaining \in Nat /\ reading.buffer \in Seq(Byte)
  /\ Len(reading.buffer) + reading.remaining = HeaderSize
  /\ handle.position = Len(reading.buffer)
  /\ Holds(reading.buffer, 0, <<0, 0>>, Len(reading.buffer))

ClosingIsLast ==
  closing => stage = "writing" /\ Idle /\ next_chunk > Len(copy.chunks) /\ HeaderBuffered

FileInv == FileTypeOK /\ FileFollows /\ ClosingIsLast

LEMMA FileInit == CopyInit => FileInv
<1> SUFFICES ASSUME CopyInit PROVE FileInv
  OBVIOUS
<1>1. contents = <<>> /\ handle = NoHandle /\ closing = FALSE /\ stage = "bind"
  BY DEF CopyInit, Init, VfsInit
<1>2. FileTypeOK
  <2>1. contents \in Seq(Byte)
    BY <1>1
  <2>2. IsHandle(handle)
    BY <1>1 DEF IsHandle, NoHandle
  <2> QED
    BY <1>1, <2>1, <2>2 DEF FileTypeOK
<1>3. FileFollows
  BY <1>1 DEF FileFollows
<1>4. ClosingIsLast
  BY <1>1 DEF ClosingIsLast
<1> QED
  BY <1>2, <1>3, <1>4 DEF FileInv

(* A step that has nothing to do with the file.                            *)
LEMMA FileSame ==
  ASSUME FileInv, ~closing, UNCHANGED <<contents, handle, closing>>,
         \/ stage' \in {"failing", "failed"}
         \/ stage' = stage /\ origin' = origin
         \/ stage = "bind" /\ stage' = "bound"
  PROVE  FileInv'
<1>1. FileTypeOK'
  BY DEF FileInv, FileTypeOK, IsHandle
<1>2. FileFollows'
  BY DEF FileInv, FileFollows, FileHolds, Holds
<1>3. ClosingIsLast'
  BY DEF ClosingIsLast
<1> QED
  BY <1>1, <1>2, <1>3 DEF FileInv

LEMMA OthersKeepFile ==
  ASSUME FileInv,
         BindCopy \/ RefuseLayer \/ AbandonCopy \/ (Ended /\ UNCHANGED copyVars)
  PROVE  FileInv'
<1>1. UNCHANGED <<contents, handle, closing>>
  BY DEF BindCopy, RefuseLayer, AbandonCopy, copyVars, vfsVars
<1>2. \/ stage' \in {"failing", "failed"}
      \/ stage' = stage /\ origin' = origin
      \/ stage = "bind" /\ stage' = "bound"
  BY DEF BindCopy, Bind, RefuseLayer, InitGlobalFails, AbandonCopy, Abandon,
         copyVars, vars, sinkVars
<1>3. ~closing
  BY DEF BindCopy, Bind, RefuseLayer, InitGlobalFails, AbandonCopy, Abandon, Ended,
         FileInv, ClosingIsLast
<1> QED
  BY <1>1, <1>2, <1>3, FileSame

LEMMA ThreadsKeepFile ==
  ASSUME WriteInv, LayerInv, FileInv, NEW t \in Threads, BeginSink(t) \/ RejectRow(t)
  PROVE  FileInv'
<1>1. UNCHANGED <<contents, handle, closing>>
  BY DEF BeginSink, RejectRow, vfsVars
<1>2. stage' = "failing" \/ (stage' = stage /\ origin' = origin)
  BY DEF BeginSink, TakeChunk, Lock, Unlock, RejectRow, FailRow
<1>3. ~closing
  <2>1. chunk[t] # 0 \/ next_chunk <= Len(copy.chunks)
    BY DEF BeginSink, TakeChunk, Lock, Unlock, InSink, RejectRow, FailRow, MoreRows
  <2>2. Len(copy.chunks) \in Nat /\ next_chunk \in Nat
    BY ChunksListed DEF LayerInv, Settled, WriteInv, SinkTypeOK, Numbers
  <2> QED
    BY <2>1, <2>2 DEF FileInv, ClosingIsLast, Idle
<1> QED
  BY <1>1, <1>2, <1>3, FileSame

(* The header is written to an empty file.                                 *)
LEMMA CreateFileKeeps ==
  ASSUME LayerInv, FileInv, CreateFile
  PROVE  FileInv'
<1>1. PICK access \in {<<"w", "+", "b">>, <<"w", "b", "+">>}, all \in BOOLEAN :
        /\ Written(Created(access), Header(0), all)
        /\ IF all THEN InitGlobal ELSE InitGlobalFails
        /\ UNCHANGED <<reading, closing>>
  BY Zenon DEF CreateFile
<1>2. PICK h : h = Created(access)
  OBVIOUS
<1>3. IsHandle(h) /\ h.position = 0
  BY <1>2 DEF Created, IsHandle
<1>4. PICK header \in Seq(Byte) : header = Header(0) /\ Len(header) # 0
  <2>1. HeaderSize \in Nat \ {0} /\ <<0, 0>> \in Int \X Int
    BY FileSizesAssumption
  <2> QED
    BY <2>1, BytesAre DEF Header
<1>5. /\ stage = "bound" /\ UNCHANGED origin /\ stage' = IF all THEN "writing" ELSE "failed"
  BY <1>1 DEF InitGlobal, InitGlobalFails, sinkVars
<1>6. contents = <<>> /\ origin = <<>> /\ ~closing /\ contents \in Seq(Byte)
  <2>1. features = <<>> /\ Len(features) = Len(origin)
    BY <1>5 DEF LayerInv, Settled, OriginsKept
  <2>2. Len(origin) = 0
    BY <2>1
  <2> QED
    BY <1>5, <2>2 DEF FileInv, FileTypeOK, FileFollows, ClosingIsLast
<1>7. /\ contents' \in Seq(Byte) /\ IsHandle(handle')
      /\ all => WrittenAt(0, header, contents, contents')
  <2>1. Written(h, header, all) /\ h.position <= Len(contents)
    BY <1>1, <1>2, <1>3, <1>4, <1>6
  <2> QED
    BY Zenon, <1>3, <1>4, <1>6, <2>1, WrittenIs
<1>8. all => FileHolds(contents', 0, origin')
  BY Zenon, <1>4, <1>5, <1>6, <1>7, FileBegun
<1>9. FileTypeOK'
  <2>1. IsHandle(handle)'
    BY Zenon, <1>7 DEF IsHandle
  <2> QED
    BY Zenon, <1>1, <1>6, <1>7, <2>1 DEF FileInv, FileTypeOK
<1>10. FileFollows'
  BY <1>5, <1>8 DEF FileFollows
<1>11. ClosingIsLast'
  BY <1>1, <1>6 DEF ClosingIsLast
<1> QED
  BY <1>9, <1>10, <1>11 DEF FileInv

(* To go to a place leaves a handle.                                       *)
LEMMA SeekIs ==
  ASSUME IsHandle(handle), contents \in Seq(Byte)
  PROVE  /\ IsHandle(Seek(handle, 0, "SET")) /\ Seek(handle, 0, "SET").position = 0
         /\ IsHandle(Seek(handle, 0, "END"))
         /\ Seek(handle, 0, "END").position = Len(contents)
<1>1. Len(contents) \in Nat
  BY LenProperties
<1>2. PICK p \in Nat : p = handle.position
  BY DEF IsHandle
<1>3. /\ Target(p, 0, "SET") = 0
      /\ Target(p, 0, "END") = Len(contents)
  BY <1>1 DEF Target
<1>4. /\ Seek(handle, 0, "SET") = [flags |-> handle.flags, position |-> 0]
      /\ Seek(handle, 0, "END") = [flags |-> handle.flags, position |-> Len(contents)]
  BY <1>2, <1>3 DEF Seek, IsHandle
<1> QED
  BY <1>1, <1>4 DEF IsHandle

(* A feature is written at the end of the file.                            *)
LEMMA CreateFeatureKeeps ==
  ASSUME WriteInv, LayerInv, FileInv, NEW t \in Threads, CreateFeature(t)
  PROVE  FileInv'
<1>1. PICK all \in BOOLEAN :
        /\ Written(Seek(handle, 0, "END"), FeatureBytes(<<chunk[t], row_idx[t]>>), all)
        /\ IF all THEN WriteRow(t) ELSE FailRow(t)
  BY Zenon DEF CreateFeature
<1>2. UNCHANGED closing /\ chunk[t] # 0
  BY DEF CreateFeature, MoreRows, InSink
<1>3. ~closing
  BY <1>2 DEF FileInv, ClosingIsLast, Idle
<1>4. origin \in Seq(Origins) /\ <<chunk[t], row_idx[t]>> \in Origins
  BY <1>2 DEF WriteInv, SinkTypeOK, Origins, Numbers
<1>5. PICK here \in Origins : here = <<chunk[t], row_idx[t]>>
  BY <1>4
<1>6. /\ all => origin' = Append(origin, here) /\ stage' = stage
      /\ ~all => stage' = "failing"
  BY <1>1, <1>5 DEF WriteRow, FailRow
<1>7. PICK bytes \in Seq(Byte) : bytes = FeatureBytes(here) /\ Len(bytes) # 0
  <2>1. FeatureSize \in Nat \ {0} /\ here \in Int \X Int
    BY FileSizesAssumption DEF Origins, Numbers
  <2> QED
    BY <2>1, BytesAre DEF FeatureBytes
<1>8. contents \in Seq(Byte) /\ IsHandle(handle)
  BY DEF FileInv, FileTypeOK
<1>9. PICK h : h = Seek(handle, 0, "END")
  OBVIOUS
<1>10. /\ contents' \in Seq(Byte) /\ IsHandle(handle')
       /\ all => WrittenAt(Len(contents), bytes, contents, contents')
  <2>1. IsHandle(h) /\ h.position = Len(contents)
    BY Zenon, <1>8, <1>9, SeekIs
  <2>2. h.position <= Len(contents)
    BY <1>8, <2>1, LenProperties
  <2>3. Written(h, bytes, all)
    BY Zenon, <1>1, <1>5, <1>7, <1>9
  <2> QED
    BY Zenon, <1>7, <1>8, <2>1, <2>2, <2>3, WrittenIs
<1>11. all /\ stage = "writing" => FileHolds(contents', 0, origin')
  BY Zenon, <1>4, <1>6, <1>7, <1>8, <1>10, FileExtended DEF FileInv, FileFollows
<1>12. FileTypeOK'
  <2>1. IsHandle(handle)'
    BY Zenon, <1>10 DEF IsHandle
  <2> QED
    BY Zenon, <1>2, <1>3, <1>10, <2>1 DEF FileInv, FileTypeOK
<1>13. stage \in {"writing", "failing"}
  BY <1>2 DEF LayerInv, ChunksInHand, Running
<1>14. FileFollows'
  BY <1>6, <1>11, <1>13 DEF FileFollows
<1>15. ClosingIsLast'
  BY <1>2, <1>3 DEF ClosingIsLast
<1> QED
  BY <1>12, <1>14, <1>15 DEF FileInv

(* The header is read back from its start.                                 *)
LEMMA CloseDatasetKeeps ==
  ASSUME FileInv, CloseDataset
  PROVE  FileInv'
<1>1. /\ stage = "writing" /\ Idle /\ next_chunk > Len(copy.chunks)
      /\ closing' = TRUE /\ UNCHANGED contents
      /\ UNCHANGED <<stage, origin, chunk, next_chunk, copy>>
      /\ handle' = Seek(handle, 0, "SET")
      /\ reading' = [remaining |-> 1 * HeaderSize, buffer |-> <<>>]
  BY DEF CloseDataset, BeginRead, vars, sinkVars
<1>2. IsHandle(handle)' /\ handle'.position = 0
  <2>1. IsHandle(Seek(handle, 0, "SET")) /\ Seek(handle, 0, "SET").position = 0
    BY Zenon, SeekIs DEF FileInv, FileTypeOK
  <2> QED
    BY Zenon, <1>1, <2>1 DEF IsHandle
<1>3. HeaderBuffered'
  <2>1. HeaderSize \in Nat
    BY FileSizesAssumption
  <2>2. reading'.remaining = HeaderSize /\ reading'.buffer = <<>>
    BY <1>1, <2>1
  <2>3. reading' = [remaining |-> reading'.remaining, buffer |-> reading'.buffer]
    BY <1>1
  <2>4. Len(<<>>) = 0 /\ <<>> \in Seq(Byte)
    OBVIOUS
  <2>5. Holds(reading'.buffer, 0, <<0, 0>>, Len(reading'.buffer))
    BY <2>2, <2>4 DEF Holds
  <2> QED
    BY <1>2, <2>1, <2>2, <2>3, <2>4, <2>5 DEF HeaderBuffered, Holds
<1>4. FileTypeOK'
  BY <1>1, <1>2 DEF FileInv, FileTypeOK
<1>5. FileFollows'
  BY <1>1 DEF FileInv, FileFollows, FileHolds, Holds
<1>6. ClosingIsLast'
  BY <1>1, <1>3 DEF ClosingIsLast, Idle
<1> QED
  BY <1>4, <1>5, <1>6 DEF FileInv

(* Bytes read behind those of the buffer.                                  *)
LEMMA PlacedIs ==
  ASSUME NEW b \in Seq(Byte), NEW file \in Seq(Byte), NEW p \in Nat, p = Len(b),
         NEW k \in Nat, k # 0, p + k <= Len(file),
         NEW n \in Nat, p + k <= n, NEW of, Holds(file, 0, of, n), Holds(b, 0, of, p)
  PROVE  \E all \in Seq(Byte) :
           /\ all = Placed(b, SubSeq(file, p + 1, p + k))
           /\ Len(all) = p + k /\ Holds(all, 0, of, p + k)
<1>1. \A j \in (p + 1)..(p + k) : file[j] \in Byte
  BY ElementOfSeq
<1>2. /\ SubSeq(file, p + 1, p + k) \in Seq(Byte)
      /\ Len(SubSeq(file, p + 1, p + k)) =
           IF p + 1 <= p + k THEN (p + k) - (p + 1) + 1 ELSE 0
      /\ \A j \in 1..((p + k) - (p + 1) + 1) :
           SubSeq(file, p + 1, p + k)[j] = file[(p + 1) + j - 1]
  BY <1>1, SubSeqProperties
<1>3. PICK piece \in Seq(Byte) : IsPart(piece, file, p + 1, p + k)
  BY <1>2 DEF IsPart
<1>4. /\ Len(piece) = k
      /\ \A j \in 1..((p + k) - (p + 1) + 1) : piece[j] = file[(p + 1) + j - 1]
  <2>1. piece = SubSeq(file, p + 1, p + k)
    BY Zenon, <1>3 DEF IsPart
  <2>2. /\ Len(piece) = IF p + 1 <= p + k THEN (p + k) - (p + 1) + 1 ELSE 0
        /\ \A j \in 1..((p + k) - (p + 1) + 1) : piece[j] = file[(p + 1) + j - 1]
    BY Zenon, <1>2, <2>1
  <2>3. k = IF p + 1 <= p + k THEN (p + k) - (p + 1) + 1 ELSE 0
    OBVIOUS
  <2> QED
    BY Zenon, <2>2, <2>3
<1>5. ASSUME NEW j \in 1..k PROVE piece[j] = [of |-> of, byte |-> p + j]
  <2>1. /\ j \in 1..((p + k) - (p + 1) + 1) /\ (p + 1) + j - 1 = 0 + (p + j)
        /\ p + j \in 1..n
    OBVIOUS
  <2>2. file[0 + (p + j)] = [of |-> of, byte |-> p + j]
    BY <2>1 DEF Holds
  <2> QED
    BY <1>4, <2>1, <2>2
<1>6. PICK all \in Seq(Byte) :
        /\ all = Placed(b, piece)
        /\ Len(all) = p + k
        /\ \A j \in 1..(p + k) : all[j] = IF j <= p THEN b[j] ELSE piece[j - p]
  <2>1. /\ b \o piece \in Seq(Byte) /\ Len(b \o piece) = p + k
        /\ \A j \in 1..(p + k) : (b \o piece)[j] = IF j <= p THEN b[j] ELSE piece[j - p]
    BY <1>4, ConcatProperties
  <2> QED
    BY Zenon, <2>1 DEF Placed
<1>7. Holds(all, 0, of, p + k)
  <2>1. ASSUME NEW j \in 1..(p + k) PROVE all[0 + j] = [of |-> of, byte |-> j]
    <3>1. CASE j <= p
      <4>1. j \in 1..p /\ 0 + j = j
        BY <3>1
      <4> QED
        BY <1>6, <3>1, <4>1 DEF Holds
    <3>2. CASE ~(j <= p)
      <4>1. j - p \in 1..k /\ p + (j - p) = j /\ 0 + j = j
        BY <3>2
      <4> QED
        BY <1>5, <1>6, <3>2, <4>1
    <3> QED
      BY <3>1, <3>2
  <2> QED
    BY <2>1 DEF Holds
<1>8. all = Placed(b, SubSeq(file, p + 1, p + k))
  BY Zenon, <1>3, <1>6 DEF IsPart
<1> QED
  BY <1>6, <1>7, <1>8

(* What is read is what the file holds there.                              *)
LEMMA ReadHeaderKeeps ==
  ASSUME WriteInv, FileInv, ReadHeader
  PROVE  FileInv'
<1>1. /\ closing /\ closing' = closing
      /\ UNCHANGED <<stage, origin, chunk, next_chunk, copy, contents>>
  BY DEF ReadHeader, ReadSome, vars, sinkVars
<1>2. /\ stage = "writing" /\ HeaderBuffered /\ contents \in Seq(Byte)
      /\ Holds(contents, 0, <<0, 0>>, HeaderSize) /\ IsHandle(handle)
  BY <1>1 DEF FileInv, ClosingIsLast, FileFollows, FileHolds, FileTypeOK
<1>3. PICK k \in 1..reading.remaining :
        /\ handle.position + k <= Len(contents)
        /\ reading' = [remaining |-> reading.remaining - k,
                       buffer    |-> Placed(reading.buffer,
                                            SubSeq(contents, handle.position + 1, handle.position + k))]
        /\ handle' = [handle EXCEPT !.position = @ + k]
  BY Zenon DEF ReadHeader, ReadSome
<1>4. PICK b \in Seq(Byte), p \in Nat :
        b = reading.buffer /\ p = Len(b) /\ p = handle.position
  BY <1>2, LenProperties DEF HeaderBuffered
<1>5. /\ k \in Nat /\ k # 0 /\ p + k <= HeaderSize /\ p + k <= Len(contents)
      /\ Len(contents) \in Nat /\ Len(b) = p
      /\ reading.remaining - k \in Nat /\ (p + k) + (reading.remaining - k) = HeaderSize
  BY <1>2, <1>3, <1>4, LenProperties, FileSizesAssumption DEF HeaderBuffered
<1>6. Holds(b, 0, <<0, 0>>, p)
  BY Zenon, <1>2, <1>4 DEF HeaderBuffered
<1>7. /\ reading' = [remaining |-> reading.remaining - k,
                     buffer    |-> Placed(b, SubSeq(contents, p + 1, p + k))]
      /\ handle' = [flags |-> handle.flags, position |-> p + k]
  <2>1. handle' = [handle EXCEPT !.position = p + k]
    BY <1>3, <1>4
  <2>2. handle = [flags |-> handle.flags, position |-> handle.position]
    BY <1>2 DEF IsHandle
  <2>3. handle' = [flags |-> handle.flags, position |-> p + k]
    BY <2>1, <2>2
  <2> QED
    BY Zenon, <1>3, <1>4, <2>3
<1>8. PICK all \in Seq(Byte) :
        /\ all = Placed(b, SubSeq(contents, p + 1, p + k))
        /\ Len(all) = p + k /\ Holds(all, 0, <<0, 0>>, p + k)
  BY ZenonT(40), <1>2, <1>4, <1>5, <1>6, FileSizesAssumption, PlacedIs
<1>9. reading'.remaining = reading.remaining - k /\ reading'.buffer = all
  BY <1>7, <1>8
<1>10. HeaderBuffered'
  <2>1. reading' = [remaining |-> reading'.remaining, buffer |-> reading'.buffer]
    BY <1>7
  <2>2. reading'.remaining \in Nat /\ reading'.buffer \in Seq(Byte)
    BY <1>5, <1>9
  <2>3. Len(reading'.buffer) + reading'.remaining = HeaderSize
    BY <1>5, <1>8, <1>9
  <2>4. handle'.position = Len(reading'.buffer)
    BY <1>7, <1>8, <1>9
  <2>5. Holds(reading.buffer, 0, <<0, 0>>, Len(reading.buffer))'
    <3>1. Holds(all, 0, <<0, 0>>, Len(all))
      BY Zenon, <1>8
    <3> QED
      BY Zenon, <1>9, <3>1 DEF Holds
  <2> QED
    BY Zenon, <2>1, <2>2, <2>3, <2>4, <2>5 DEF HeaderBuffered
<1>11. FileTypeOK'
  <2>1. IsHandle(handle)'
    BY <1>5, <1>7 DEF IsHandle
  <2> QED
    BY Zenon, <1>1, <2>1 DEF FileInv, FileTypeOK
<1>12. FileFollows'
  BY <1>1 DEF FileInv, FileFollows, FileHolds, Holds
<1>13. ClosingIsLast'
  BY <1>1, <1>10 DEF FileInv, ClosingIsLast, Idle
<1> QED
  BY <1>11, <1>12, <1>13 DEF FileInv

(* The driver has its header only when none of it remains to be read.      *)
LEMMA WholeIs ==
  ASSUME "torn_item" \notin Faults, HeaderBuffered,
         NEW size \in {1, HeaderSize}, Whole(size)
  PROVE  reading.remaining = 0
<1>1. HeaderSize \in Nat \ {0}
  BY FileSizesAssumption
<1>2. PICK r \in Nat : r = reading.remaining /\ r <= HeaderSize
  <2>1. Len(reading.buffer) \in Nat
    BY LenProperties DEF HeaderBuffered
  <2> QED
    BY <1>1, <2>1 DEF HeaderBuffered
<1>3. /\ size = 1 \/ r \in {0, HeaderSize}
      /\ (HeaderSize \div size) - (r \div size) = HeaderSize \div size
  BY <1>2 DEF Whole, ItemsRead
<1>4. CASE size = 1
  <2>1. HeaderSize \div 1 = HeaderSize /\ r \div 1 = r
    BY <1>1
  <2> QED
    BY <1>1, <1>2, <1>3, <1>4, <2>1
<1>5. CASE size = HeaderSize /\ r = HeaderSize
  <2>1. HeaderSize \div HeaderSize = 1
    BY <1>1, Division
  <2> QED
    BY <1>3, <1>5, <2>1
<1> QED
  BY <1>2, <1>3, <1>4, <1>5

(* The header written again is the one read, with the number of features.  *)
LEMMA HeaderUpdatedIs ==
  ASSUME HeaderBuffered, reading.remaining = 0, Len(origin) \in Nat
  PROVE  HeaderUpdated = Header(Len(origin))
<1>1. HeaderSize \in Nat \ {0}
  BY FileSizesAssumption
<1>2. PICK b \in Seq(Byte), n \in Nat : b = reading.buffer /\ n = Len(origin)
  BY DEF HeaderBuffered
<1>3. Len(b) = HeaderSize /\ DOMAIN b = 1..HeaderSize
  BY <1>1, <1>2, LenProperties DEF HeaderBuffered
<1>4. ASSUME NEW i \in 1..HeaderSize
      PROVE  [HeaderRead[i] EXCEPT !.of = <<@[1], n>>] = [of |-> <<0, n>>, byte |-> i]
  <2>1. HeaderRead[i] = b[i]
    BY Zenon, <1>2, <1>3 DEF HeaderRead
  <2>2. b[0 + i] = [of |-> <<0, 0>>, byte |-> i]
    BY Zenon, <1>2, <1>3 DEF HeaderBuffered, Holds
  <2>3. HeaderRead[i] = [of |-> <<0, 0>>, byte |-> i]
    BY <1>1, <2>1, <2>2
  <2>4. PICK r : r = HeaderRead[i]
    OBVIOUS
  <2>5. r = [of |-> <<0, 0>>, byte |-> i]
    BY Zenon, <2>3, <2>4
  <2>6. [r EXCEPT !.of = <<@[1], n>>] = [of |-> <<0, n>>, byte |-> i]
    <3>1. <<r.of[1], n>> = <<0, n>>
      BY <2>5
    <3>2. ASSUME NEW x PROVE [r EXCEPT !.of = x] = [of |-> x, byte |-> i]
      BY <2>5
    <3>3. [r EXCEPT !.of = <<@[1], n>>] = [r EXCEPT !.of = <<r.of[1], n>>]
      OBVIOUS
    <3> QED
      BY Zenon, <3>1, <3>2, <3>3
  <2> QED
    BY Zenon, <2>4, <2>6
<1>5. HeaderUpdated = [i \in 1..HeaderSize |-> [of |-> <<0, n>>, byte |-> i]]
  BY Zenon, <1>2, <1>4 DEF HeaderUpdated
<1> QED
  BY Zenon, <1>2, <1>5 DEF Header, Bytes

LEMMA UpdateHeaderKeeps ==
  ASSUME "torn_item" \notin Faults, WriteInv, FileInv, UpdateHeader
  PROVE  FileInv'
<1>1. PICK size \in {1, HeaderSize}, all \in BOOLEAN :
        /\ Whole(size)
        /\ Written(Seek(handle, 0, "SET"), HeaderUpdated, all)
        /\ Finalize /\ stage' = IF all THEN "done" ELSE "failed"
  BY Zenon DEF UpdateHeader
<1>2. closing /\ closing' = FALSE
  BY DEF UpdateHeader
<1>3. /\ HeaderBuffered /\ FileHolds(contents, 0, origin)
      /\ contents \in Seq(Byte) /\ IsHandle(handle)
  BY <1>2 DEF FileInv, ClosingIsLast, FileFollows, FileTypeOK
<1>4. /\ origin \in Seq(Origins) /\ origin' = origin
      /\ stage' = IF all THEN "done" ELSE "failed"
  BY <1>1 DEF WriteInv, SinkTypeOK, Finalize, sinkVars
<1>5. PICK n \in Nat : n = Len(origin)
  BY <1>4, LenProperties
<1>6. HeaderUpdated = Header(n)
  BY Zenon, <1>1, <1>3, <1>5, WholeIs, HeaderUpdatedIs
<1>7. PICK header \in Seq(Byte) :
        /\ header = Header(n) /\ Len(header) = HeaderSize /\ Len(header) # 0
        /\ Holds(header, 0, <<0, n>>, HeaderSize)
  <2>1. HeaderSize \in Nat \ {0} /\ <<0, n>> \in Int \X Int
    BY FileSizesAssumption
  <2>2. /\ Header(n) \in Seq(Byte) /\ Len(Header(n)) = HeaderSize
        /\ \A j \in 1..HeaderSize : Header(n)[j] = [of |-> <<0, n>>, byte |-> j]
    BY <2>1, BytesAre DEF Header
  <2>3. Holds(Header(n), 0, <<0, n>>, HeaderSize)
    BY SMTT(30), <2>1, <2>2 DEF Holds
  <2> QED
    BY <2>1, <2>2, <2>3
<1>8. PICK h : h = Seek(handle, 0, "SET")
  OBVIOUS
<1>9. /\ contents' \in Seq(Byte) /\ IsHandle(handle')
      /\ all => WrittenAt(0, header, contents, contents')
  <2>1. IsHandle(h) /\ h.position = 0
    BY Zenon, <1>3, <1>8, SeekIs
  <2>2. h.position <= Len(contents)
    BY <1>3, <2>1, LenProperties
  <2>3. Written(h, header, all)
    BY Zenon, <1>1, <1>6, <1>7, <1>8
  <2> QED
    BY Zenon, <1>3, <1>7, <2>1, <2>2, <2>3, WrittenIs
<1>10. all => FileHolds(contents', n, origin)
  BY Zenon, <1>3, <1>4, <1>7, <1>9, FileCounted
<1>11. FileTypeOK'
  <2>1. IsHandle(handle)'
    BY Zenon, <1>9 DEF IsHandle
  <2> QED
    BY Zenon, <1>2, <1>9, <2>1 DEF FileTypeOK
<1>12. FileFollows'
  <2>1. all => FileHolds(contents', Len(origin'), origin')
    BY Zenon, <1>4, <1>5, <1>10
  <2> QED
    BY <1>4, <2>1 DEF FileFollows
<1>13. ClosingIsLast'
  BY <1>2 DEF ClosingIsLast
<1> QED
  BY <1>11, <1>12, <1>13 DEF FileInv

LEMMA CloseFailsKeeps ==
  ASSUME FileInv, CloseFails
  PROVE  FileInv'
<1>1. stage' = "failed" /\ closing' = FALSE /\ UNCHANGED <<contents, handle>>
  BY DEF CloseFails
<1>2. FileTypeOK'
  BY <1>1 DEF FileInv, FileTypeOK, IsHandle
<1>3. FileFollows'
  BY <1>1 DEF FileFollows
<1>4. ClosingIsLast'
  BY <1>1 DEF ClosingIsLast
<1> QED
  BY <1>2, <1>3, <1>4 DEF FileInv

LEMMA FileStep ==
  ASSUME "torn_item" \notin Faults
  PROVE  WriteInv /\ LayerInv /\ FileInv /\ [CopyNext]_copyVars => FileInv'
<1> SUFFICES ASSUME WriteInv, LayerInv, FileInv, [CopyNext]_copyVars PROVE FileInv'
  OBVIOUS
<1>1. CASE UNCHANGED copyVars
  BY <1>1 DEF copyVars, vars, sinkVars, vfsVars, FileInv, FileTypeOK, IsHandle, FileFollows,
              FileHolds, Holds, ClosingIsLast, Idle, HeaderBuffered
<1>2. CASE BindCopy \/ RefuseLayer \/ AbandonCopy
  BY <1>2, OthersKeepFile
<1>3. ASSUME NEW t \in Threads, BeginSink(t) \/ RejectRow(t) PROVE FileInv'
  BY <1>3, ThreadsKeepFile
<1>4. CASE CreateFile
  BY <1>4, CreateFileKeeps
<1>5. ASSUME NEW t \in Threads, CreateFeature(t) PROVE FileInv'
  BY <1>5, CreateFeatureKeeps
<1>6. CASE CloseDataset \/ ReadHeader \/ UpdateHeader \/ CloseFails
  BY <1>6, CloseDatasetKeeps, ReadHeaderKeeps, UpdateHeaderKeeps, CloseFailsKeeps
<1> QED
  BY <1>1, <1>2, <1>3, <1>4, <1>5, <1>6 DEF CopyNext

-----------------------------------------------------------------------------
LEMMA FileOfDone ==
  ASSUME WriteInv, LayerInv, CompleteInv, FileInv
  PROVE  FileIsComplete
<1> SUFFICES ASSUME stage = "done"
             PROVE  /\ CompleteWhenDone
                    /\ Len(contents) = HeaderSize + Len(origin) * FeatureSize
                    /\ SubSeq(contents, 1, HeaderSize) = Header(Len(origin))
                    /\ \A i \in DOMAIN origin :
                         SubSeq(contents, Before(i) + 1, Before(i) + FeatureSize)
                           = FeatureBytes(origin[i])
  BY Zenon DEF FileIsComplete
<1>1. HeaderSize \in Nat \ {0} /\ FeatureSize \in Nat \ {0}
  BY FileSizesAssumption
<1>2. CompleteWhenDone
  BY DoneIsComplete
<1>3. contents \in Seq(Byte) /\ origin \in Seq(Origins) /\ FileHolds(contents, Len(origin), origin)
  BY DEF FileInv, FileTypeOK, FileFollows, WriteInv, SinkTypeOK
<1>4. PICK n \in Nat : n = Len(origin)
  BY <1>3, LenProperties
<1>5. Len(contents) = Before(n + 1) /\ Before(n + 1) = HeaderSize + n * FeatureSize /\ n * FeatureSize \in Nat
  <2>1. (n + 1) - 1 = n
    OBVIOUS
  <2>2. Before(n + 1) = HeaderSize + n * FeatureSize
    BY Zenon, <2>1 DEF Before
  <2>3. Len(contents) = Before(n + 1)
    BY Zenon, <1>3, <1>4 DEF FileHolds
  <2>4. n * FeatureSize \in Nat
    BY <1>1
  <2> QED
    BY Zenon, <2>2, <2>3, <2>4
<1>6. SubSeq(contents, 1, HeaderSize) = Header(n)
  <2>1. /\ 0 + HeaderSize <= Len(contents) /\ <<0, n>> \in Int \X Int
        /\ 0 \in Nat /\ HeaderSize \in Nat
    BY <1>1, <1>5
  <2>2. Holds(contents, 0, <<0, n>>, HeaderSize)
    BY Zenon, <1>3, <1>4 DEF FileHolds
  <2>3. SubSeq(contents, 0 + 1, 0 + HeaderSize) = Bytes(<<0, n>>, HeaderSize)
    BY Zenon, <1>3, <2>1, <2>2, PieceIs
  <2>4. 0 + 1 = 1 /\ 0 + HeaderSize = HeaderSize
    BY <1>1
  <2> QED
    BY Zenon, <2>3, <2>4 DEF Header
<1>7. ASSUME NEW i \in DOMAIN origin
      PROVE  SubSeq(contents, Before(i) + 1, Before(i) + FeatureSize) = FeatureBytes(origin[i])
  <2>1. i \in Nat \ {0} /\ i <= n /\ origin[i] \in Origins
    BY <1>3, <1>4, LenProperties, ElementOfSeq
  <2>2. Before(i) \in Nat /\ Before(i) + FeatureSize <= Len(contents)
    BY <1>4, <1>5, <2>1, FeaturesApart
  <2>3. Holds(contents, Before(i), origin[i], FeatureSize) /\ origin[i] \in Int \X Int
    BY <1>3, <2>1 DEF FileHolds, Origins, Numbers
  <2>4. SubSeq(contents, Before(i) + 1, Before(i) + FeatureSize) = Bytes(origin[i], FeatureSize)
    BY <1>1, <1>3, <2>2, <2>3, PieceIs
  <2> QED
    BY <2>4 DEF FeatureBytes
<1> QED
  BY <1>2, <1>4, <1>5, <1>6, <1>7

(* A COPY that reports no error has written every row, down to the bytes   *)
(* of its file (st_write.cpp:550, file_handler.cpp:68, 81), whatever the    *)
(* sizes of headers and features and wherever DuckDB stops a read or a     *)
(* write: the driver learns of it, as long as it is not told that an item  *)
(* of which it has only a part is whole.                                   *)
THEOREM CopyIsComplete ==
  ASSUME "torn_item" \notin Faults
  PROVE  CopySpec => []FileIsComplete
<1>1. CopyInit => WriteInv /\ LayerInv /\ CompleteInv /\ FileInv
  BY WriteInit, LayerInit, CompleteInit, FileInit DEF CopyInit
<1>2. WriteInv /\ LayerInv /\ CompleteInv /\ FileInv /\ [CopyNext]_copyVars
        => (WriteInv /\ LayerInv /\ CompleteInv /\ FileInv)'
  BY CopyVarsStep, WriteStep, LayerStep, CompleteStep, FileStep
<1>3. WriteInv /\ LayerInv /\ CompleteInv /\ FileInv => FileIsComplete
  BY FileOfDone
<1> QED
  BY <1>1, <1>2, <1>3, PTL DEF CopySpec

=============================================================================
