---------------------------- MODULE GdalReadProofs ----------------------------
(***************************************************************************)
(* Theorems about ST_Read, for any layer and any number of threads: its    *)
(* columns are distinct, and renamed only when they must be; its batches   *)
(* are owned, and a scan that succeeds has every row once and in order; a  *)
(* clause without ambiguity selects the rows that the filters select.      *)
(***************************************************************************)
EXTENDS GdalRead, FiniteSetTheorems, SequenceTheorems, WellFoundedInduction, TLAPS

-----------------------------------------------------------------------------
(* The map holds the lower-case names of the columns passed: this is what  *)
(* makes a lookup in it a lookup among those columns.                      *)
MapHoldsPassed == \A i \in 1..pos - 1 : Lower(names[i]) \in DOMAIN name_map

IsSequence == \E S : names \in Seq(S)

NamesShape ==
  /\ pos \in Nat \ {0}
  /\ IsSequence
  /\ renaming \in BOOLEAN
  /\ renaming => pos <= Len(names)

NamesInv == NamesShape /\ MapHoldsPassed /\ DistinctNames

LEMMA CountedDomain ==
  ASSUME NEW key
  PROVE  DOMAIN Counted(key) = DOMAIN name_map \cup {key}
BY DEF Counted

LEMMA NamesInitInv == NamesInit => NamesInv
<1> SUFFICES ASSUME NamesInit PROVE NamesInv
  OBVIOUS
<1>1. names \in Seq(Names)
  BY NamesAssumption DEF NamesInit
<1>2. IsSequence
  BY <1>1, Zenon DEF IsSequence
<1>3. NamesShape
  <2>1. renaming \in BOOLEAN /\ ~renaming
    BY Zenon DEF NamesInit
  <2>2. pos \in Nat \ {0}
    BY DEF NamesInit
  <2> QED
    BY <1>2, <2>1, <2>2, Zenon DEF NamesShape
<1> QED
  BY <1>3 DEF NamesInit, NamesInv, NamesShape, MapHoldsPassed, DistinctNames

(* A column is passed under a name the map did not hold. *)
LEMMA PassColumn ==
  ASSUME NamesInv, NEW name,
         pos <= Len(names),
         Lower(name) \notin DOMAIN name_map,
         names' = [names EXCEPT ![pos] = name],
         name_map' = Counted(Lower(name)),
         pos' = pos + 1,
         renaming' = FALSE
  PROVE  NamesInv'
<1> USE DEF NamesInv
<1>0. PICK S : names \in Seq(S)
  BY DEF NamesShape, IsSequence
<1>0a. names \in Seq(S \cup {name}) /\ pos \in DOMAIN names
  BY <1>0 DEF NamesShape
<1>1. /\ Len(names') = Len(names) /\ names' \in Seq(S \cup {name})
      /\ names'[pos] = name
      /\ \A i \in 1..pos - 1 : names'[i] = names[i]
  BY <1>0a DEF NamesShape
<1>2. NamesShape'
  <2>1. IsSequence'
    BY <1>1, Zenon DEF IsSequence
  <2>2. renaming' \in BOOLEAN /\ ~renaming'
    BY Zenon
  <2>3. pos' \in Nat \ {0}
    BY DEF NamesShape
  <2> QED
    BY <2>1, <2>2, <2>3, Zenon DEF NamesShape
<1>3. \A i \in 1..pos' - 1 : i = pos \/ i \in 1..pos - 1
  BY DEF NamesShape
<1>4. DOMAIN name_map' = DOMAIN name_map \cup {Lower(name)}
  BY CountedDomain
<1>5. MapHoldsPassed'
  BY <1>1, <1>3, <1>4 DEF MapHoldsPassed
<1>6. DistinctNames'
  BY <1>1, <1>3 DEF MapHoldsPassed, DistinctNames
<1> QED
  BY <1>2, <1>5, <1>6

LEMMA NamesNextInv == NamesInv /\ [NamesNext]_namesVars => NamesInv'
<1> SUFFICES ASSUME NamesInv, [NamesNext]_namesVars PROVE NamesInv'
  OBVIOUS
<1>1. CASE KeepName
  <2>1. names' = [names EXCEPT ![pos] = Current]
    <3>1. PICK S : names \in Seq(S)
      BY DEF NamesInv, NamesShape, IsSequence
    <3> QED
      BY <1>1, <3>1 DEF KeepName, Current, NamesInv, NamesShape
  <2>2. renaming' = FALSE
    BY <1>1 DEF KeepName, NamesInv, NamesShape
  <2> QED
    BY <1>1, <2>1, <2>2, PassColumn DEF KeepName, Key
<1>2. CASE MeetDuplicate
  BY <1>2
  DEF MeetDuplicate, NamesInv, NamesShape, IsSequence, MapHoldsPassed, DistinctNames
<1>3. CASE TryNextSuffix
  <2>1. DOMAIN name_map \subseteq DOMAIN name_map'
    BY <1>3, CountedDomain DEF TryNextSuffix
  <2> QED
    BY <1>3, <2>1
    DEF TryNextSuffix, NamesInv, NamesShape, IsSequence, MapHoldsPassed,
        DistinctNames
<1>4. CASE Rename
  BY <1>4, PassColumn DEF Rename, NamesInv, NamesShape
<1>5. CASE UNCHANGED namesVars
  BY <1>5 DEF namesVars, NamesInv, NamesShape, IsSequence, MapHoldsPassed, DistinctNames
<1> QED
  BY <1>1, <1>2, <1>3, <1>4, <1>5 DEF NamesNext, NamesStep

(* Whatever names a dataset has, the columns ST_Read returns are distinct  *)
(* without regard to case.                                                 *)
THEOREM ColumnsDistinct == NamesSpec => []DistinctNames
BY NamesInitInv, NamesNextInv, PTL DEF NamesSpec, NamesInv

(* The map holds no other names, so that a name found in it is the name of *)
(* a column passed; the columns ahead are as they were, and the loop looks *)
(* for a suffix only for a name that it found.                             *)
MapHoldsOnlyPassed ==
  \A k \in DOMAIN name_map : \E i \in 1..pos - 1 : Lower(names[i]) = k

AheadUntouched ==
  /\ attributes \in Seq(Names) /\ Len(names) = Len(attributes)
  /\ \A i \in pos..Len(names) : names[i] = attributes[i]

SuffixNeeded == renaming => Key \in DOMAIN name_map

RenamedInv ==
  /\ NamesInv
  /\ MapHoldsOnlyPassed
  /\ AheadUntouched
  /\ SuffixNeeded
  /\ RenamedOnlyOnCollision

LEMMA RenamedInitInv == NamesInit => RenamedInv
<1> SUFFICES ASSUME NamesInit PROVE RenamedInv
  OBVIOUS
<1>1. attributes \in Seq(Names) /\ names = attributes /\ pos = 1
  BY NamesAssumption DEF NamesInit
<1>2. DOMAIN name_map = {} /\ ~renaming
  BY DEF NamesInit
<1> QED
  BY <1>1, <1>2, NamesInitInv
  DEF RenamedInv, MapHoldsOnlyPassed, AheadUntouched, SuffixNeeded,
      RenamedOnlyOnCollision

(* The column at pos is passed, as it is or because its name was found.    *)
LEMMA PassRenamed ==
  ASSUME RenamedInv, NamesInv', NEW name,
         pos <= Len(names),
         name = names[pos] \/ Key \in DOMAIN name_map,
         names' = [names EXCEPT ![pos] = name],
         name_map' = Counted(Lower(name)),
         pos' = pos + 1,
         renaming' = FALSE,
         attributes' = attributes
  PROVE  RenamedInv'
<1> USE DEF RenamedInv
<1>1. PICK S : names \in Seq(S)
  BY DEF NamesInv, NamesShape, IsSequence
<1>2. /\ pos \in Nat \ {0} /\ Len(names) \in Nat
      /\ DOMAIN names = 1..Len(names) /\ pos \in DOMAIN names
  BY <1>1 DEF NamesInv, NamesShape
<1>3. /\ Len(names') = Len(names)
      /\ names'[pos] = name
      /\ \A i \in 1..Len(names) : i # pos => names'[i] = names[i]
  <2>1. names \in Seq(S \cup {name})
    BY <1>1
  <2> QED
    BY <1>2, <2>1
<1>4. DOMAIN name_map' = DOMAIN name_map \cup {Lower(name)}
  BY CountedDomain
<1>5. MapHoldsOnlyPassed'
  <2> SUFFICES ASSUME NEW k \in DOMAIN name_map'
               PROVE  \E i \in 1..pos : Lower(names'[i]) = k
    BY <1>2 DEF MapHoldsOnlyPassed
  <2>1. CASE k = Lower(name)
    BY <1>2, <1>3, <2>1
  <2>2. CASE k \in DOMAIN name_map
    <3>1. PICK i \in 1..pos - 1 : Lower(names[i]) = k
      BY <2>2 DEF MapHoldsOnlyPassed
    <3>2. i \in 1..pos /\ i \in 1..Len(names) /\ i # pos
      BY <1>2
    <3> QED
      BY <1>3, <3>1, <3>2
  <2> QED
    BY <1>4, <2>1, <2>2
<1>6. AheadUntouched'
  <2>1. \A i \in pos + 1..Len(names) : i \in 1..Len(names) /\ i \in pos..Len(names) /\ i # pos
    BY <1>2
  <2> QED
    BY <1>2, <1>3, <2>1 DEF AheadUntouched
<1>7. SuffixNeeded'
  BY DEF SuffixNeeded
<1>8. RenamedOnlyOnCollision'
  <2> SUFFICES ASSUME NEW i \in 1..pos, names'[i] # attributes[i]
               PROVE  \E j \in 1..i - 1 : Lower(names'[j]) = Lower(attributes[i])
    BY <1>2 DEF RenamedOnlyOnCollision
  <2>1. CASE i = pos
    <3>1. names[pos] = attributes[pos] /\ pos \in pos..Len(names)
      BY <1>2 DEF AheadUntouched
    <3>2. Key \in DOMAIN name_map /\ Key = Lower(attributes[i])
      BY <1>3, <2>1, <3>1 DEF Key, Current
    <3>3. PICK j \in 1..pos - 1 : Lower(names[j]) = Key
      BY <3>2 DEF MapHoldsOnlyPassed
    <3>4. j \in 1..i - 1 /\ j \in 1..Len(names) /\ j # pos
      BY <1>2, <2>1
    <3> QED
      BY <1>3, <3>2, <3>3, <3>4
  <2>2. CASE i # pos
    <3>1. i \in 1..pos - 1 /\ i \in 1..Len(names)
      BY <1>2, <2>2
    <3>2. PICK j \in 1..i - 1 : Lower(names[j]) = Lower(attributes[i])
      BY <1>3, <2>2, <3>1 DEF RenamedOnlyOnCollision
    <3>3. j \in 1..Len(names) /\ j # pos
      BY <1>2, <3>1
    <3> QED
      BY <1>3, <3>2, <3>3
  <2> QED
    BY <2>1, <2>2
<1> QED
  BY <1>5, <1>6, <1>7, <1>8

LEMMA RenamedNextInv == RenamedInv /\ [NamesNext]_namesVars => RenamedInv'
<1> SUFFICES ASSUME RenamedInv, [NamesNext]_namesVars PROVE RenamedInv'
  OBVIOUS
<1>0. NamesInv'
  BY NamesNextInv DEF RenamedInv
<1>1. CASE KeepName
  <2>1. names' = [names EXCEPT ![pos] = names[pos]] /\ renaming' = FALSE
    <3>1. PICK S : names \in Seq(S)
      BY DEF RenamedInv, NamesInv, NamesShape, IsSequence
    <3> QED
      BY <1>1, <3>1 DEF KeepName, RenamedInv, NamesInv, NamesShape
  <2> QED
    BY <1>0, <1>1, <2>1, PassRenamed DEF KeepName, Key, Current
<1>2. CASE MeetDuplicate
  BY <1>0, <1>2
  DEF MeetDuplicate, RenamedInv, MapHoldsOnlyPassed, AheadUntouched,
      SuffixNeeded, RenamedOnlyOnCollision, Key, Current
<1>3. CASE TryNextSuffix
  <2>1. DOMAIN name_map' = DOMAIN name_map
    BY <1>3, CountedDomain DEF TryNextSuffix, RenamedInv, SuffixNeeded
  <2> QED
    BY <1>0, <1>3, <2>1
    DEF TryNextSuffix, RenamedInv, MapHoldsOnlyPassed, AheadUntouched,
        SuffixNeeded, RenamedOnlyOnCollision, Key, Current
<1>4. CASE Rename
  <2>1. pos <= Len(names) /\ Key \in DOMAIN name_map
    BY <1>4 DEF Rename, RenamedInv, NamesInv, NamesShape, SuffixNeeded
  <2> QED
    BY <1>0, <1>4, <2>1, PassRenamed DEF Rename
<1>5. CASE UNCHANGED namesVars
  BY <1>0, <1>5
  DEF namesVars, RenamedInv, MapHoldsOnlyPassed, AheadUntouched,
      SuffixNeeded, RenamedOnlyOnCollision, Key, Current
<1> QED
  BY <1>1, <1>2, <1>3, <1>4, <1>5 DEF NamesNext, NamesStep

(* Whatever suffixes are tried and taken on the way, a column that ST_Read *)
(* returns under another name than the dataset's has it because an earlier *)
(* column is called so.                                                    *)
THEOREM RenamedOnlyIfTaken == NamesSpec => []RenamedOnlyOnCollision
BY RenamedInitInv, RenamedNextInv, PTL DEF NamesSpec, RenamedInv

-----------------------------------------------------------------------------
(* The invariant of the scan is about issues: every batch number a thread  *)
(* holds or has put on a chunk, with the thread and the place of the batch.*)
Batch ==
  [place : 0..Len(stream), batch_index : Nat, chunk_offset : Nat]

Shape ==
  /\ stream \in Streams
  /\ next \in 1..(Len(stream) + 1)
  /\ batch_index \in Nat
  /\ local \in [Threads -> [pc : PCs, batch : Batch, size : Nat]]
  /\ \A t \in Threads : local[t].pc = "convert" => local[t].batch.place # 0
  /\ chunks \in Seq([thread : Threads, batch_index : Nat,
                     place : 0..Len(stream), first : Nat, last : Nat])

Issue(t, number, place) == [thread |-> t, number |-> number, place |-> place]

IssueOf(c) == Issue(c.thread, c.batch_index, c.place)

IssueHeld(t) == Issue(t, local[t].batch.batch_index, local[t].batch.place)

Holds(t) == local[t].batch.place # 0

Issues ==
  {IssueOf(chunks[i]) : i \in DOMAIN chunks}
    \cup {IssueHeld(t) : t \in {u \in Threads : Holds(u)}}

(* The numbers issued so far are below the counter, their batches behind   *)
(* the stream, and they are issued once, in the order of the batches.      *)
IssuesInOrder ==
  /\ \A x \in Issues : x.number <= batch_index /\ x.place < next
  /\ \A x, y \in Issues :
       /\ x.number = y.number => x = y
       /\ x.number < y.number => x.place < y.place

(* A thread holds the last number it has put on a chunk, or a later one.   *)
ChunksInOrder ==
  /\ \A i \in DOMAIN chunks : \A t \in Threads :
       chunks[i].thread = t /\ Holds(t) =>
         chunks[i].batch_index <= local[t].batch.batch_index
  /\ \A i, j \in DOMAIN chunks :
       i < j /\ chunks[i].thread = chunks[j].thread =>
         chunks[i].batch_index <= chunks[j].batch_index

ScanInv == Shape /\ IssuesInOrder /\ ChunksInOrder

-----------------------------------------------------------------------------
LEMMA Elements ==
  ASSUME NEW S, NEW s \in Seq(S)
  PROVE  /\ Len(s) \in Nat /\ DOMAIN s = 1..Len(s)
         /\ \A i \in DOMAIN s : s[i] \in S
  OBVIOUS

LEMMA Appended ==
  ASSUME NEW S, NEW s \in Seq(S), NEW e \in S
  PROVE  /\ Append(s, e) \in Seq(S)
         /\ DOMAIN Append(s, e) = DOMAIN s \cup {Len(s) + 1}
         /\ \A i \in DOMAIN s : i <= Len(s) /\ Append(s, e)[i] = s[i]
         /\ Append(s, e)[Len(s) + 1] = e
  OBVIOUS

LEMMA StreamLength ==
  ASSUME stream \in Streams
  PROVE  /\ Len(stream) \in Nat
         /\ DOMAIN stream = 1..Len(stream)
         /\ \A p \in DOMAIN stream : stream[p].length \in Nat
<1> DEFINE B == [length : Nat, quality : Qualities]
<1>1. stream \in Seq(B)
  BY StreamsAssumption
<1>2. Len(stream) \in Nat /\ DOMAIN stream = 1..Len(stream)
  BY <1>1
<1> HIDE DEF B
<1>3. \A p \in DOMAIN stream : stream[p] \in B
  BY <1>1, Elements
<1> USE DEF B
<1>4. \A p \in DOMAIN stream : stream[p].length \in Nat
  BY <1>3
<1>5. QED
  BY <1>2, <1>4

LEMMA IssuesTyped ==
  ASSUME Shape
  PROVE  \A x \in Issues : x.number \in Nat /\ x.place \in Nat
<1>1. stream \in Streams
  BY DEF Shape
<1>2. Len(stream) \in Nat
  BY <1>1, StreamLength
<1> DEFINE C == [thread : Threads, batch_index : Nat,
                 place : 0..Len(stream), first : Nat, last : Nat]
<1>3. chunks \in Seq(C)
  BY DEF Shape
<1> HIDE DEF C
<1>4. \A i \in DOMAIN chunks : chunks[i] \in C
  BY <1>3, Elements
<1> USE DEF C
<1>5. \A i \in DOMAIN chunks :
        chunks[i].batch_index \in Nat /\ chunks[i].place \in 0..Len(stream)
  BY <1>4
<1>6. \A t \in Threads : local[t].batch \in Batch
  BY DEF Shape
<1>7. \A t \in Threads : /\ local[t].batch.batch_index \in Nat
                         /\ local[t].batch.place \in 0..Len(stream)
  BY <1>6 DEF Batch
<1>8. QED
  BY <1>2, <1>5, <1>7 DEF Issues, IssueOf, IssueHeld, Issue

LEMMA ScanInitInv == ScanInit => ScanInv
<1> SUFFICES ASSUME ScanInit PROVE ScanInv
  OBVIOUS
<1>1. Shape
  BY StreamLength DEF ScanInit, Shape, Batch, NoBatch, PCs
<1>2. Issues = {}
  BY DEF ScanInit, Issues, NoBatch, Holds
<1>3. IssuesInOrder
  BY <1>2 DEF IssuesInOrder
<1>4. ChunksInOrder
  BY DEF ScanInit, ChunksInOrder
<1>5. QED
  BY <1>1, <1>3, <1>4 DEF ScanInv

(* A step that issues no number keeps those issued in order.               *)
LEMMA NothingIssued ==
  ASSUME Shape, Shape', IssuesInOrder,
         Issues' \subseteq Issues, batch_index <= batch_index', next <= next'
  PROVE  IssuesInOrder'
<1>1. \A x \in Issues : x.number \in Nat /\ x.place \in Nat
  BY IssuesTyped
<1>2. batch_index \in Nat /\ batch_index' \in Nat
  BY DEF Shape
<1>3. next \in Nat /\ next' \in Nat
  BY StreamLength DEF Shape
<1>4. QED
  BY <1>1, <1>2, <1>3 DEF IssuesInOrder

(* Whatever else a step changes: if no chunk is delivered, and every thread*)
(* keeps its batch or gives it up, the invariant is kept.                  *)
SameBatch(t) ==
  /\ local'[t].batch.batch_index = local[t].batch.batch_index
  /\ local'[t].batch.place = local[t].batch.place

LEMMA BatchesKept ==
  ASSUME ScanInv, Shape', chunks' = chunks,
         batch_index <= batch_index', next <= next',
         \A t \in Threads : Holds(t)' => SameBatch(t)
  PROVE  ScanInv'
<1>1. \A t \in Threads : Holds(t)' => Holds(t) /\ IssueHeld(t)' = IssueHeld(t)
  BY DEF Holds, IssueHeld, SameBatch, Issue
<1>2. Issues' \subseteq Issues
  BY <1>1 DEF Issues, IssueOf, Issue
<1>3. IssuesInOrder'
  BY <1>2, NothingIssued DEF ScanInv
<1>4. ChunksInOrder'
  BY <1>1 DEF ScanInv, ChunksInOrder, SameBatch
<1>5. QED
  BY <1>3, <1>4 DEF ScanInv

LEMMA TakeBatchInv ==
  ASSUME ScanInv, NEW t \in Threads, TakeBatch(t), UNCHANGED <<stream, chunks>>
  PROVE  ScanInv'
<1> USE DEF ScanInv
<1>1. PICK p \in DOMAIN stream :
        /\ IsNext(p) /\ next' = p + 1
        /\ local' = [local EXCEPT ![t].pc = "scan",
                       ![t].batch = [place |-> p,
                                     batch_index |-> batch_index + 1,
                                     chunk_offset |-> 0]]
  BY DEF TakeBatch
<1>2. Len(stream) \in Nat /\ DOMAIN stream = 1..Len(stream)
  BY StreamLength DEF Shape
<1>3. batch_index \in Nat /\ batch_index' = batch_index + 1 /\ next \in Nat
  BY <1>2 DEF Shape, TakeBatch
<1>4. p \in 1..Len(stream) /\ next <= p /\ next' = p + 1
  BY <1>1, <1>2, <1>3 DEF IsNext
<1>5. /\ \A u \in Threads \ {t} : local'[u] = local[u]
      /\ local'[t].batch.batch_index = batch_index + 1
      /\ local'[t].batch.place = p
  BY <1>1 DEF Shape
<1>6. Shape'
  <2>1. [place |-> p, batch_index |-> batch_index + 1, chunk_offset |-> 0] \in Batch
    BY <1>3, <1>4 DEF Batch
  <2>2. local' \in [Threads -> [pc : PCs, batch : Batch, size : Nat]]
    BY <1>1, <2>1 DEF Shape, PCs
  <2>3. \A u \in Threads : local'[u].pc = "convert" => local'[u].batch.place # 0
    BY <1>1, <1>4, <1>5 DEF Shape
  <2>4. /\ stream' \in Streams
        /\ next' \in 1..(Len(stream') + 1)
        /\ batch_index' \in Nat
    BY <1>2, <1>3, <1>4 DEF Shape
  <2>5. /\ UNCHANGED stream
        /\ chunks' \in Seq([thread : Threads, batch_index : Nat,
                            place : 0..Len(stream), first : Nat, last : Nat])
    BY DEF Shape
  <2>6. QED
    BY <2>2, <2>3, <2>4, <2>5 DEF Shape, Batch
<1>7. \A x \in Issues : x.number \in Nat /\ x.place \in Nat
  BY IssuesTyped
<1>8. \A x \in Issues' : x \in Issues \/ x = Issue(t, batch_index + 1, p)
  <2>1. \A u \in Threads \ {t} :
          Holds(u)' => Holds(u) /\ IssueHeld(u)' = IssueHeld(u)
    BY <1>5 DEF Holds, IssueHeld
  <2>2. IssueHeld(t)' = Issue(t, batch_index + 1, p)
    BY <1>5 DEF IssueHeld
  <2>3. QED
    BY <2>1, <2>2 DEF Issues, IssueOf
<1>9. \A x \in Issues : x.number <= batch_index /\ x.place < next
  BY DEF IssuesInOrder
<1>10. IssuesInOrder'
  <2>1. /\ Issue(t, batch_index + 1, p).number = batch_index + 1
        /\ Issue(t, batch_index + 1, p).place = p
    BY DEF Issue
  <2>2. \A x \in Issues' : x.number <= batch_index' /\ x.place < next'
    BY <1>3, <1>4, <1>7, <1>8, <1>9, <2>1
  <2>3. \A x, y \in Issues' : x.number = y.number => x = y
    BY <1>3, <1>7, <1>8, <1>9, <2>1 DEF IssuesInOrder
  <2>4. \A x, y \in Issues' : x.number < y.number => x.place < y.place
    BY <1>3, <1>4, <1>7, <1>8, <1>9, <2>1 DEF IssuesInOrder
  <2>5. QED
    BY <2>2, <2>3, <2>4 DEF IssuesInOrder
<1>11. ChunksInOrder'
  <2>1. \A i \in DOMAIN chunks : chunks[i].batch_index \in Nat
                                /\ chunks[i].batch_index <= batch_index
    <3>1. \A i \in DOMAIN chunks : IssueOf(chunks[i]) \in Issues
      BY DEF Issues
    <3>2. QED
      BY <3>1, <1>7, <1>9 DEF IssueOf, Issue
  <2>2. \A i \in DOMAIN chunks : \A u \in Threads :
          chunks[i].thread = u /\ Holds(u)' =>
            chunks[i].batch_index <= local'[u].batch.batch_index
    BY <1>3, <1>5, <2>1 DEF ChunksInOrder, Holds
  <2>3. QED
    BY <2>2 DEF ChunksInOrder
<1>12. QED
  BY <1>6, <1>10, <1>11

LEMMA LoseBatchInv ==
  ASSUME ScanInv, NEW t \in Threads, LoseBatch(t), UNCHANGED <<stream, chunks>>
  PROVE  ScanInv'
<1> USE DEF ScanInv
<1>1. PICK p \in DOMAIN stream : IsNext(p) /\ next' = p + 1
  BY DEF LoseBatch
<1>2. Len(stream) \in Nat /\ DOMAIN stream = 1..Len(stream)
  BY StreamLength DEF Shape
<1>3. next \in Nat /\ next <= next' /\ next' \in 1..(Len(stream) + 1)
  BY <1>1, <1>2 DEF IsNext, Shape
<1>4. batch_index \in Nat /\ batch_index' = batch_index + 1
  BY DEF LoseBatch, Shape
<1>5. NoBatch \in Batch /\ NoBatch.place = 0
  BY <1>2 DEF NoBatch, Batch
<1>6. /\ local' = [local EXCEPT ![t] = [pc |-> "failed", batch |-> NoBatch,
                                       size |-> 0]]
      /\ \A u \in Threads \ {t} : local'[u] = local[u]
      /\ local'[t].batch.place = 0
  BY <1>5 DEF LoseBatch, Shape
<1>7. local' \in [Threads -> [pc : PCs, batch : Batch, size : Nat]]
  BY <1>5, <1>6 DEF Shape, PCs
<1>8. \A u \in Threads : local'[u].pc = "convert" => local'[u].batch.place # 0
  BY <1>6 DEF Shape
<1>9. Shape'
  BY <1>2, <1>3, <1>4, <1>7, <1>8 DEF Shape, Batch
<1>10. \A u \in Threads : Holds(u)' => SameBatch(u)
  BY <1>6 DEF Holds, SameBatch
<1>11. QED
  BY <1>3, <1>4, <1>9, <1>10, BatchesKept

LEMMA EndOfStreamInv ==
  ASSUME ScanInv, NEW t \in Threads, EndOfStream(t), UNCHANGED <<stream, chunks>>
  PROVE  ScanInv'
<1> USE DEF ScanInv
<1>2. Len(stream) \in Nat
  BY StreamLength DEF Shape
<1>3. next \in Nat /\ next <= next' /\ next' \in 1..(Len(stream) + 1)
  BY <1>2 DEF EndOfStream, Shape
<1>4. batch_index \in Nat /\ batch_index' = batch_index + 1
  BY DEF EndOfStream, Shape
<1>5. NoBatch \in Batch /\ NoBatch.place = 0
  BY <1>2 DEF NoBatch, Batch
<1>6. /\ local' = [local EXCEPT ![t].pc = "finished", ![t].batch = NoBatch]
      /\ \A u \in Threads \ {t} : local'[u] = local[u]
      /\ local'[t].batch.place = 0 /\ local'[t].pc = "finished"
  BY <1>5 DEF EndOfStream, Shape
<1>7. local' \in [Threads -> [pc : PCs, batch : Batch, size : Nat]]
  <2>1. [[local[t] EXCEPT !.pc = "finished"] EXCEPT !.batch = NoBatch]
          \in [pc : PCs, batch : Batch, size : Nat]
    BY <1>5 DEF Shape, PCs
  <2>2. QED
    BY <1>6, <2>1 DEF Shape
<1>8. \A u \in Threads : local'[u].pc = "convert" => local'[u].batch.place # 0
  BY <1>6 DEF Shape
<1>9. Shape'
  BY <1>2, <1>3, <1>4, <1>7, <1>8 DEF Shape, Batch
<1>10. \A u \in Threads : Holds(u)' => SameBatch(u)
  BY <1>6 DEF Holds, SameBatch
<1>11. QED
  BY <1>3, <1>4, <1>9, <1>10, BatchesKept

(* The steps that touch neither the stream nor the chunks, and change of a *)
(* thread only where it is and the size of its chunk.                      *)
LEMMA LocalInv ==
  ASSUME ScanInv, UNCHANGED <<stream, next, batch_index, chunks>>,
         NEW t \in Threads, NEW location \in PCs, NEW n \in Nat,
         location = "convert" => local[t].batch.place # 0,
         local' = [local EXCEPT ![t].pc = location, ![t].size = n]
  PROVE  ScanInv'
<1> USE DEF ScanInv
<1>1. local' \in [Threads -> [pc : PCs, batch : Batch, size : Nat]]
  BY DEF Shape
<1>2. \A u \in Threads : /\ local'[u].batch = local[u].batch
                         /\ u # t => local'[u] = local[u]
                         /\ u = t => local'[u].pc = location
  BY DEF Shape
<1>3. \A u \in Threads : local'[u].pc = "convert" => local'[u].batch.place # 0
  BY <1>2 DEF Shape
<1>4. Shape'
  BY <1>1, <1>3 DEF Shape, Batch
<1>5. \A u \in Threads : SameBatch(u)
  BY <1>2 DEF SameBatch
<1>6. batch_index <= batch_index' /\ next <= next'
  BY StreamLength DEF Shape
<1>7. QED
  BY <1>4, <1>5, <1>6, BatchesKept

LEMMA MoveInv ==
  ASSUME ScanInv, UNCHANGED <<stream, next, batch_index, chunks>>,
         NEW t \in Threads, local' = [local EXCEPT ![t].pc = "finished"]
  PROVE  ScanInv'
<1>1. /\ local[t].size \in Nat
      /\ local' = [local EXCEPT ![t].pc = "finished", ![t].size = local[t].size]
  BY DEF ScanInv, Shape
<1>2. QED
  BY <1>1, LocalInv DEF PCs

LEMMA RejectInv ==
  ASSUME ScanInv, NEW t \in Threads, Reject(t)
  PROVE  ScanInv'
<1> USE DEF ScanInv
<1>1. Len(stream) \in Nat
  BY StreamLength DEF Shape
<1>2. NoBatch \in Batch /\ NoBatch.place = 0
  BY <1>1 DEF NoBatch, Batch
<1>3. /\ local' = [local EXCEPT ![t] = [pc |-> "failed", batch |-> NoBatch,
                                       size |-> 0]]
      /\ \A u \in Threads \ {t} : local'[u] = local[u]
      /\ local'[t].batch.place = 0 /\ local'[t].pc = "failed"
  BY <1>2 DEF Reject, Shape
<1>4. local' \in [Threads -> [pc : PCs, batch : Batch, size : Nat]]
  BY <1>2, <1>3 DEF Shape, PCs
<1>5. \A u \in Threads : local'[u].pc = "convert" => local'[u].batch.place # 0
  BY <1>3 DEF Shape
<1>6. UNCHANGED <<stream, next, batch_index, chunks>>
  BY DEF Reject
<1>7. Shape'
  BY <1>4, <1>5, <1>6 DEF Shape, Batch
<1>8. \A u \in Threads : Holds(u)' => SameBatch(u)
  BY <1>3 DEF Holds, SameBatch
<1>9. batch_index <= batch_index' /\ next <= next'
  BY <1>1, <1>6 DEF Shape
<1>10. QED
  BY <1>6, <1>7, <1>8, <1>9, BatchesKept

LEMMA MeasureInv ==
  ASSUME ScanInv, NEW t \in Threads, Measure(t)
  PROVE  ScanInv'
<1> DEFINE left == Length(local[t].batch) - local[t].batch.chunk_offset
<1>1. /\ Len(stream) \in Nat /\ DOMAIN stream = 1..Len(stream)
      /\ \A p \in DOMAIN stream : stream[p].length \in Nat
  BY StreamLength DEF ScanInv, Shape
<1>2. local[t].batch \in Batch
  BY DEF ScanInv, Shape
<1>3. local[t].batch.place \in 0..Len(stream) /\ local[t].batch.chunk_offset \in Nat
  BY <1>2 DEF Batch
<1>4. Length(local[t].batch) \in Nat /\ left \in Nat
  BY <1>1, <1>3 DEF Measure, MoreRows, Length
<1>5. local[t].batch.place # 0
  BY <1>3 DEF Measure, MoreRows, Length
<1>6. PICK n \in Nat :
        local' = [local EXCEPT ![t].pc = "convert", ![t].size = n]
  BY <1>4, StreamsAssumption DEF Measure
<1>7. QED
  BY <1>5, <1>6, LocalInv DEF Measure, PCs

LEMMA DeliverInv ==
  ASSUME ScanInv, NEW t \in Threads, Deliver(t)
  PROVE  ScanInv'
<1> DEFINE C == [thread : Threads, batch_index : Nat,
                 place : 0..Len(stream), first : Nat, last : Nat]
<1> USE DEF ScanInv
<1>1. /\ local[t].batch \in Batch /\ local[t].size \in Nat
      /\ local[t].batch.place # 0
  BY DEF Deliver, Shape
<1>2. /\ local[t].batch.place \in 0..Len(stream)
      /\ local[t].batch.batch_index \in Nat
      /\ local[t].batch.chunk_offset \in Nat
  BY <1>1 DEF Batch
<1>3. /\ Chunk(t) \in C
      /\ Chunk(t).thread = t
      /\ Chunk(t).batch_index = local[t].batch.batch_index
      /\ Chunk(t).place = local[t].batch.place
  BY <1>1, <1>2 DEF Chunk
<1>4. chunks \in Seq(C) /\ chunks' = Append(chunks, Chunk(t))
  BY DEF Deliver, Shape
<1> HIDE DEF C
<1>5. /\ chunks' \in Seq(C)
      /\ DOMAIN chunks' = DOMAIN chunks \cup {Len(chunks) + 1}
      /\ \A i \in DOMAIN chunks : i <= Len(chunks) /\ chunks'[i] = chunks[i]
      /\ chunks'[Len(chunks) + 1] = Chunk(t)
  BY <1>3, <1>4, Appended
<1>6. UNCHANGED <<stream, next, batch_index>>
  BY DEF Deliver
<1>7. local' = [local EXCEPT ![t].pc = "scan", ![t].size = 0,
                  ![t].batch.chunk_offset = @ + local[t].size]
  BY DEF Deliver
<1>8. \A u \in Threads : SameBatch(u) /\ (u # t => local'[u] = local[u])
  BY <1>1, <1>2, <1>7 DEF SameBatch, Shape, Batch
<1>9. Shape'
  <2>1. [local[t].batch EXCEPT !.chunk_offset = @ + local[t].size] \in Batch
    BY <1>1, <1>2 DEF Batch
  <2>2. local' \in [Threads -> [pc : PCs, batch : Batch, size : Nat]]
    <3>1. local[t] \in [pc : PCs, batch : Batch, size : Nat]
      BY DEF Shape
    <3>2. [pc |-> "scan", size |-> 0,
           batch |-> [local[t].batch EXCEPT !.chunk_offset = @ + local[t].size]]
            \in [pc : PCs, batch : Batch, size : Nat]
      BY <2>1 DEF PCs
    <3>3. local'[t] =
            [pc |-> "scan", size |-> 0,
             batch |-> [local[t].batch EXCEPT !.chunk_offset = @ + local[t].size]]
      BY <1>7, <3>1 DEF Shape
    <3>4. QED
      BY <1>7, <1>8, <3>2, <3>3 DEF Shape
  <2>3. \A u \in Threads : local'[u].pc = "convert" => local'[u].batch.place # 0
    BY <1>7, <1>8 DEF Shape
  <2>4. chunks' \in Seq([thread : Threads, batch_index : Nat,
                        place : 0..Len(stream), first : Nat, last : Nat])
    BY <1>5 DEF C
  <2>5. QED
    BY <1>6, <2>2, <2>3, <2>4 DEF Shape, Batch
<1>10. IssueOf(Chunk(t)) = IssueHeld(t) /\ Holds(t)
  BY <1>1, <1>3 DEF IssueOf, IssueHeld, Holds
<1>11. \A u \in Threads :
         (Holds(u)' <=> Holds(u)) /\ IssueHeld(u)' = IssueHeld(u)
  BY <1>8 DEF Holds, IssueHeld, SameBatch
<1>12. \A i \in DOMAIN chunks' : IssueOf(chunks'[i]) \in Issues
  BY <1>5, <1>10 DEF Issues
<1>13. Issues' \subseteq Issues
  BY <1>11, <1>12 DEF Issues, IssueOf
<1>14. IssuesInOrder'
  <2>1. batch_index <= batch_index' /\ next <= next'
    BY <1>6, StreamLength DEF Shape
  <2>2. QED
    BY <1>9, <1>13, <2>1, NothingIssued
<1>15. ChunksInOrder'
  <2>1. \A i \in DOMAIN chunks' : \A u \in Threads :
          chunks'[i].thread = u /\ Holds(u)' =>
            chunks'[i].batch_index <= local'[u].batch.batch_index
    BY <1>2, <1>3, <1>5, <1>8, <1>11 DEF ChunksInOrder, SameBatch
  <2>2. \A i, j \in DOMAIN chunks' :
          i < j /\ chunks'[i].thread = chunks'[j].thread =>
            chunks'[i].batch_index <= chunks'[j].batch_index
    <3>1. Len(chunks) \in Nat /\ DOMAIN chunks = 1..Len(chunks)
      BY <1>4, Elements
    <3>2. SUFFICES ASSUME NEW i \in DOMAIN chunks', NEW j \in DOMAIN chunks',
                          i < j, chunks'[i].thread = chunks'[j].thread
                   PROVE  chunks'[i].batch_index <= chunks'[j].batch_index
      OBVIOUS
    <3>3. i \in DOMAIN chunks
      BY <1>5, <3>1, <3>2
    <3>4. CASE j \in DOMAIN chunks
      BY <1>5, <3>2, <3>3, <3>4 DEF ChunksInOrder
    <3>5. CASE j = Len(chunks) + 1
      BY <1>3, <1>5, <1>10, <3>2, <3>3, <3>5 DEF ChunksInOrder
    <3>6. QED
      BY <1>5, <3>4, <3>5
  <2>3. QED
    BY <2>1, <2>2 DEF ChunksInOrder
<1>16. QED
  BY <1>9, <1>14, <1>15

LEMMA ParallelStateNextInv ==
  ASSUME ScanInv, NEW t \in Threads, ParallelStateNext(t)
  PROVE  ScanInv'
<1>1. CASE TakeBatch(t)
  BY <1>1, TakeBatchInv DEF ParallelStateNext
<1>2. CASE LoseBatch(t)
  BY <1>2, LoseBatchInv DEF ParallelStateNext
<1>3. CASE EndOfStream(t)
  BY <1>3, EndOfStreamInv DEF ParallelStateNext
<1>4. CASE AlreadyDone(t)
  BY <1>4, MoveInv DEF ParallelStateNext, AlreadyDone
<1>5. QED
  BY <1>1, <1>2, <1>3, <1>4 DEF ParallelStateNext

LEMMA StutterInv ==
  ASSUME ScanInv, UNCHANGED <<stream, next, batch_index, local, chunks>>
  PROVE  ScanInv'
  BY DEF ScanInv, Shape, Batch, IssuesInOrder, ChunksInOrder, Issues, Issue,
         IssueOf, IssueHeld, Holds

LEMMA ScanNextInv == ScanInv /\ [ScanNext]_scanVars => ScanInv'
<1> SUFFICES ASSUME ScanInv, [ScanNext]_scanVars PROVE ScanInv'
  OBVIOUS
<1>1. ASSUME NEW t \in Threads, InitLocal(t) PROVE ScanInv'
  BY <1>1, ParallelStateNextInv DEF InitLocal
<1>2. ASSUME NEW t \in Threads, NewBatch(t) PROVE ScanInv'
  BY <1>2, ParallelStateNextInv DEF NewBatch
<1>3. ASSUME NEW t \in Threads, Measure(t) PROVE ScanInv'
  BY <1>3, MeasureInv
<1>4. ASSUME NEW t \in Threads, Deliver(t) PROVE ScanInv'
  BY <1>4, DeliverInv
<1>5. ASSUME NEW t \in Threads, Reject(t) PROVE ScanInv'
  BY <1>5, RejectInv
<1>6. ASSUME NEW t \in Threads, Cancel(t) PROVE ScanInv'
  BY <1>6, MoveInv DEF Cancel
<1>7. CASE Complete
  BY <1>7, StutterInv DEF Complete
<1>8. CASE Stopped \/ UNCHANGED scanVars
  BY <1>8, StutterInv DEF Stopped, scanVars
<1>9. QED
  BY <1>1, <1>2, <1>3, <1>4, <1>5, <1>6, <1>7, <1>8 DEF ScanNext, Step

LEMMA InvImpliesOwned == ScanInv => BatchesAreOwned
<1> SUFFICES ASSUME ScanInv, NEW i \in DOMAIN chunks, NEW j \in DOMAIN chunks
             PROVE  /\ chunks[i].batch_index = chunks[j].batch_index =>
                         /\ chunks[i].thread = chunks[j].thread
                         /\ chunks[i].place = chunks[j].place
                    /\ chunks[i].batch_index < chunks[j].batch_index =>
                         chunks[i].place < chunks[j].place
                    /\ i < j /\ chunks[i].thread = chunks[j].thread =>
                         chunks[i].batch_index <= chunks[j].batch_index
  BY DEF BatchesAreOwned
<1>1. IssueOf(chunks[i]) \in Issues /\ IssueOf(chunks[j]) \in Issues
  BY DEF Issues
<1>2. /\ IssueOf(chunks[i]).number = IssueOf(chunks[j]).number =>
           IssueOf(chunks[i]) = IssueOf(chunks[j])
      /\ IssueOf(chunks[i]).number < IssueOf(chunks[j]).number =>
           IssueOf(chunks[i]).place < IssueOf(chunks[j]).place
  BY <1>1 DEF ScanInv, IssuesInOrder
<1>3. QED
  BY <1>2 DEF ScanInv, ChunksInOrder, IssueOf, Issue

(* Whatever the number of threads and the sizes of the batches, no batch   *)
(* number of ST_Read is used by two threads or for two batches, the        *)
(* numbers follow the layer, and each thread's never go down.              *)
THEOREM GdalBatchesOwned == ScanSpec => []BatchesAreOwned
<1>1. ScanSpec => []ScanInv
  BY ScanInitInv, ScanNextInv, PTL DEF ScanSpec
<1>2. QED
  BY <1>1, InvImpliesOwned, PTL

-----------------------------------------------------------------------------
(* Which rows the chunks cover: a chunk has rows of its batch, the chunks  *)
(* of one batch follow each other, and a thread that holds the batch has   *)
(* the rest of its rows still to deliver.                                  *)
Extents ==
  \A i \in DOMAIN chunks :
    /\ chunks[i].place \in DOMAIN stream
    /\ chunks[i].first >= 1
    /\ chunks[i].last <= stream[chunks[i].place].length

Successive ==
  \A i, j \in DOMAIN chunks :
    i < j /\ chunks[i].place = chunks[j].place => chunks[i].last < chunks[j].first

Ahead ==
  \A i \in DOMAIN chunks : \A t \in Threads :
    chunks[i].place = local[t].batch.place =>
      chunks[i].last <= local[t].batch.chunk_offset

(* Every row of the batches taken is on a chunk or with a thread.          *)
Delivered(p, k) == \E i \in DOMAIN chunks : Covers(chunks[i], p, k)

Remaining(p, k) ==
  \E t \in Threads :
    local[t].batch.place = p /\ k > local[t].batch.chunk_offset

NoRowLost ==
  result # "failed" =>
    \A p \in DOMAIN stream : p < next =>
      \A k \in 1..stream[p].length : Delivered(p, k) \/ Remaining(p, k)

(* A thread has no batch before it starts, ends with one that it has       *)
(* delivered, and ends when the stream does.                               *)
InStep(t) ==
  /\ local[t].pc = "start" => ~Holds(t)
  /\ local[t].pc = "convert" =>
       local[t].batch.chunk_offset + local[t].size <= Length(local[t].batch)
  /\ local[t].pc = "failed" => result = "failed"
  /\ local[t].pc = "finished" /\ result # "failed" => done /\ ~MoreRows(t)

Settled ==
  /\ done => next = Len(stream) + 1
  /\ result = "complete" =>
       /\ \E t \in Threads : local[t].pc = "finished"
       /\ \A t \in Threads : local[t].pc \in {"start", "finished"}

CollectedInv ==
  /\ Extents /\ Successive /\ Ahead
  /\ NoRowLost
  /\ \A t \in Threads : InStep(t)
  /\ Settled
LEMMA ScanTypes ==
  ASSUME ScanInv
  PROVE  /\ Len(stream) \in Nat /\ DOMAIN stream = 1..Len(stream)
         /\ \A p \in DOMAIN stream : stream[p].length \in Nat
         /\ next \in 1..(Len(stream) + 1)
         /\ Len(chunks) \in Nat /\ DOMAIN chunks = 1..Len(chunks)
         /\ \A i \in DOMAIN chunks :
              /\ chunks[i].place \in Nat /\ chunks[i].place < next
              /\ chunks[i].first \in Nat /\ chunks[i].last \in Nat
<1>1. stream \in Streams
  BY DEF ScanInv, Shape
<1>2. Len(stream) \in Nat /\ DOMAIN stream = 1..Len(stream)
  BY <1>1, StreamLength
<1> DEFINE C == [thread : Threads, batch_index : Nat,
                 place : 0..Len(stream), first : Nat, last : Nat]
<1>3. chunks \in Seq(C)
  BY DEF ScanInv, Shape
<1> HIDE DEF C
<1>4. /\ Len(chunks) \in Nat /\ DOMAIN chunks = 1..Len(chunks)
      /\ \A i \in DOMAIN chunks : chunks[i] \in C
  BY <1>3, Elements
<1>5. \A i \in DOMAIN chunks :
        /\ chunks[i].place \in Nat
        /\ chunks[i].first \in Nat /\ chunks[i].last \in Nat
  BY <1>2, <1>4 DEF C
<1>6. \A i \in DOMAIN chunks : chunks[i].place < next
  <2> SUFFICES ASSUME NEW i \in DOMAIN chunks PROVE chunks[i].place < next
    OBVIOUS
  <2>1. IssueOf(chunks[i]) \in Issues
    BY DEF Issues
  <2>2. IssueOf(chunks[i]).place < next
    BY <2>1 DEF ScanInv, IssuesInOrder
  <2> QED
    BY <2>2 DEF IssueOf, Issue
<1> QED
  BY <1>1, <1>2, <1>4, <1>5, <1>6, StreamLength DEF ScanInv, Shape

LEMMA ThreadTypes ==
  ASSUME ScanInv, NEW t \in Threads
  PROVE  /\ local[t].pc \in PCs
         /\ local[t].batch \in Batch
         /\ local[t].batch.place \in 0..Len(stream)
         /\ local[t].batch.chunk_offset \in Nat
         /\ local[t].size \in Nat
         /\ Length(local[t].batch) \in Nat
         /\ local[t].batch.place < next
         /\ local[t].pc = "convert" => Holds(t)
<1>1. /\ local[t].pc \in PCs /\ local[t].batch \in Batch /\ local[t].size \in Nat
  BY DEF ScanInv, Shape
<1>2. /\ local[t].batch.place \in 0..Len(stream)
      /\ local[t].batch.chunk_offset \in Nat
  BY <1>1 DEF Batch
<1>3. Length(local[t].batch) \in Nat
  BY <1>2, ScanTypes DEF Length
<1>4. local[t].batch.place < next
  <2>1. CASE Holds(t)
    <3>1. IssueHeld(t) \in Issues
      BY <2>1 DEF Issues
    <3>2. IssueHeld(t).place < next
      BY <3>1 DEF ScanInv, IssuesInOrder
    <3> QED
      BY <3>2 DEF IssueHeld, Issue
  <2>2. CASE ~Holds(t)
    BY <2>2, ScanTypes DEF Holds
  <2> QED
    BY <2>1, <2>2
<1> QED
  BY <1>1, <1>2, <1>3, <1>4 DEF ScanInv, Shape, Holds

(* Two issues of one batch are one: only one thread holds it, and its      *)
(* chunks are that thread's.                                               *)
LEMMA OneHolder ==
  ASSUME ScanInv
  PROVE  \A x, y \in Issues : x.place = y.place => x = y
<1>1. \A x \in Issues : x.number \in Nat /\ x.place \in Nat
  BY IssuesTyped DEF ScanInv
<1> QED
  BY <1>1 DEF ScanInv, IssuesInOrder

LEMMA NotTwoHolders ==
  ASSUME ScanInv, NEW t \in Threads, NEW u \in Threads, Holds(t),
         local[u].batch.place = local[t].batch.place
  PROVE  u = t
<1>1. IssueHeld(t) \in Issues /\ IssueHeld(u) \in Issues
  BY DEF Issues, Holds
<1>2. IssueHeld(t).place = IssueHeld(u).place
  BY DEF IssueHeld, Issue
<1>3. IssueHeld(t) = IssueHeld(u)
  BY <1>1, <1>2, OneHolder
<1> QED
  BY <1>3 DEF IssueHeld, Issue

LEMMA CollectedInit == ScanInit => CollectedInv
<1> SUFFICES ASSUME ScanInit PROVE CollectedInv
  OBVIOUS
<1>1. DOMAIN chunks = {}
  BY DEF ScanInit
<1>2. Extents /\ Successive /\ Ahead
  BY <1>1 DEF Extents, Successive, Ahead
<1>3. NoRowLost
  <2>1. next = 1 /\ \A p \in DOMAIN stream : p \in Nat \ {0}
    BY StreamLength DEF ScanInit
  <2> QED
    BY <2>1 DEF NoRowLost
<1>4. \A t \in Threads : InStep(t)
  BY DEF ScanInit, InStep, Holds, NoBatch
<1>5. Settled
  BY DEF ScanInit, Settled
<1> QED
  BY <1>2, <1>3, <1>4, <1>5 DEF CollectedInv

(* Where the threads are on the chunks stays true when no chunk comes and  *)
(* a thread keeps its batch, gives it up, or takes one behind them all.    *)
LEMMA PlacesKept ==
  ASSUME ScanInv, CollectedInv, UNCHANGED <<stream, chunks>>,
         \A t \in Threads : \/ local'[t].batch = local[t].batch
                            \/ local'[t].batch.place = 0
                            \/ /\ local'[t].batch.place \in Nat
                               /\ local'[t].batch.place >= next
  PROVE  Extents' /\ Successive' /\ Ahead'
<1>1. Extents'
  BY DEF CollectedInv, Extents
<1>2. Successive'
  BY DEF CollectedInv, Successive
<1>3. Ahead'
  <2> SUFFICES ASSUME NEW i \in DOMAIN chunks, NEW t \in Threads,
                      chunks[i].place = local'[t].batch.place
               PROVE  chunks[i].last <= local'[t].batch.chunk_offset
    BY DEF Ahead
  <2>1. chunks[i].place \in 1..Len(stream) /\ chunks[i].place < next
    BY ScanTypes DEF CollectedInv, Extents
  <2>2. next \in Nat
    BY ScanTypes
  <2>3. local'[t].batch = local[t].batch
    BY <2>1, <2>2
  <2> QED
    BY <2>3 DEF CollectedInv, Ahead
<1> QED
  BY <1>1, <1>2, <1>3

(* No row is lost while the threads keep their batches.                    *)
LEMMA BatchesStay ==
  ASSUME ScanInv, CollectedInv, UNCHANGED <<stream, next, chunks>>,
         \A t \in Threads : local'[t].batch = local[t].batch,
         result = "failed" => result' = "failed",
         \A t \in Threads : InStep(t)', Settled'
  PROVE  CollectedInv'
<1>1. Extents' /\ Successive' /\ Ahead'
  BY PlacesKept
<1>2. \A p, k : Delivered(p, k) => Delivered(p, k)'
  BY DEF Delivered, Covers
<1>3. \A p, k : Remaining(p, k) => Remaining(p, k)'
  BY DEF Remaining
<1>4. NoRowLost'
  BY <1>2, <1>3 DEF CollectedInv, NoRowLost
<1> QED
  BY <1>1, <1>4 DEF CollectedInv

(* A thread asks for a batch when it starts and when it has delivered one. *)
WantsBatch(t) ==
  \/ local[t].pc = "start"
  \/ local[t].pc = "scan" /\ ~MoreRows(t)

LEMMA NothingLeft ==
  ASSUME ScanInv, CollectedInv, NEW t \in Threads, WantsBatch(t)
  PROVE  ~MoreRows(t)
<1>1. CASE local[t].pc = "start"
  <2>1. Length(local[t].batch) = 0
    BY <1>1 DEF CollectedInv, InStep, Holds, Length
  <2> QED
    BY <2>1, ThreadTypes DEF MoreRows
<1> QED
  BY <1>1 DEF WantsBatch

LEMMA TakeBatchCollects ==
  ASSUME ScanInv, ScanInv', CollectedInv, NEW t \in Threads, TakeBatch(t),
         WantsBatch(t),
         UNCHANGED <<stream, chunks>>
  PROVE  CollectedInv'
<1>1. PICK p \in DOMAIN stream :
        /\ IsNext(p) /\ next' = p + 1
        /\ local' = [local EXCEPT ![t].pc = "scan",
                       ![t].batch = [place |-> p,
                                     batch_index |-> batch_index + 1,
                                     chunk_offset |-> 0]]
  BY DEF TakeBatch
<1>2. /\ p \in next..Len(stream) /\ next \in Nat /\ p \in Nat
      /\ \A q \in next..(p - 1) : q \in DOMAIN stream /\ stream[q].length = 0
  BY <1>1, ScanTypes DEF IsNext, Skipped
<1>3. /\ \A u \in Threads \ {t} : local'[u] = local[u]
      /\ local'[t].batch.place = p /\ local'[t].batch.chunk_offset = 0
      /\ local'[t].pc = "scan"
  BY <1>1 DEF ScanInv, Shape
<1>4. Extents' /\ Successive' /\ Ahead'
  BY <1>2, <1>3, PlacesKept
<1>5. UNCHANGED <<done, result>> /\ ~done
  BY DEF TakeBatch
<1>6. NoRowLost'
  <2> SUFFICES ASSUME result # "failed", NEW q \in DOMAIN stream, q < p + 1,
                      NEW k \in 1..stream[q].length
               PROVE  Delivered(q, k)' \/ Remaining(q, k)'
    BY <1>1, <1>5 DEF NoRowLost
  <2>0. q \in Nat /\ k \in Nat \ {0}
    BY ScanTypes
  <2>1. CASE q = p
    <3>1. local'[t].batch.place = q /\ k > local'[t].batch.chunk_offset
      BY <1>3, <2>0, <2>1
    <3> QED
      BY <3>1 DEF Remaining
  <2>2. CASE q \in next..(p - 1)
    BY <1>2, <2>0, <2>2
  <2>3. CASE q < next
    <3>1. CASE Delivered(q, k)
      BY <3>1 DEF Delivered, Covers
    <3>2. CASE Remaining(q, k)
      <4>1. PICK u \in Threads :
              local[u].batch.place = q /\ k > local[u].batch.chunk_offset
        BY <3>2 DEF Remaining
      <4>2. u # t
        <5>1. ASSUME u = t PROVE FALSE
          <6>1. Length(local[t].batch) = stream[q].length
            BY <4>1, <5>1, ScanTypes DEF Length
          <6> QED
            BY <4>1, <5>1, <6>1, NothingLeft, ThreadTypes, ScanTypes DEF MoreRows
        <5> QED
          BY <5>1
      <4>3. local'[u] = local[u]
        BY <1>3, <4>2
      <4> QED
        BY <4>1, <4>3 DEF Remaining
    <3> QED
      BY <2>3, <3>1, <3>2 DEF CollectedInv, NoRowLost
  <2> QED
    BY <1>2, <2>0, <2>1, <2>2, <2>3
<1>7. \A u \in Threads : InStep(u)'
  <2>1. InStep(t)'
    BY <1>3 DEF InStep
  <2>2. ASSUME NEW u \in Threads \ {t} PROVE InStep(u)'
    BY <1>3, <1>5 DEF CollectedInv, InStep, Holds, MoreRows, Length
  <2> QED
    BY <2>1, <2>2
<1>8. Settled'
  BY <1>5 DEF CollectedInv, Settled, InStep
<1> QED
  BY <1>4, <1>6, <1>7, <1>8 DEF CollectedInv
(* The thread that fails gives its batch up, and so does the query.        *)
LEMMA FailureCollects ==
  ASSUME ScanInv, CollectedInv, NEW t \in Threads,
         UNCHANGED <<stream, done, chunks>>, ~done \/ next' = next,
         local' = [local EXCEPT
                     ![t] = [pc |-> "failed", batch |-> NoBatch, size |-> 0]],
         result' = "failed"
  PROVE  CollectedInv'
<1>1. /\ \A u \in Threads \ {t} : local'[u] = local[u]
      /\ local'[t].batch.place = 0 /\ local'[t].pc = "failed"
  BY DEF ScanInv, Shape, NoBatch
<1>2. Extents' /\ Successive' /\ Ahead'
  BY <1>1, PlacesKept
<1>3. NoRowLost' /\ Settled'
  BY DEF CollectedInv, NoRowLost, Settled
<1>4. \A u \in Threads : InStep(u)'
  BY <1>1 DEF CollectedInv, InStep, Holds, Length
<1> QED
  BY <1>2, <1>3, <1>4 DEF CollectedInv

LEMMA EndOfStreamCollects ==
  ASSUME ScanInv, ScanInv', CollectedInv, NEW t \in Threads, EndOfStream(t),
         WantsBatch(t),
         UNCHANGED <<stream, chunks>>
  PROVE  CollectedInv'
<1>1. /\ \A p \in next..Len(stream) : p \in DOMAIN stream /\ stream[p].length = 0
      /\ next' = Len(stream) + 1 /\ done' /\ ~done /\ result' = result
  BY ScanTypes DEF EndOfStream, Skipped
<1>2. /\ \A u \in Threads \ {t} : local'[u] = local[u]
      /\ local'[t].batch = NoBatch /\ local'[t].batch.place = 0
      /\ local'[t].pc = "finished"
  BY DEF EndOfStream, ScanInv, Shape, NoBatch
<1>3. Extents' /\ Successive' /\ Ahead'
  BY <1>2, PlacesKept
<1>4. NoRowLost'
  <2> SUFFICES ASSUME result # "failed", NEW q \in DOMAIN stream,
                      NEW k \in 1..stream[q].length
               PROVE  Delivered(q, k)' \/ Remaining(q, k)'
    BY <1>1 DEF NoRowLost
  <2>0. q \in 1..Len(stream) /\ k \in Nat \ {0} /\ next \in Nat
    BY ScanTypes
  <2>1. CASE q \in next..Len(stream)
    BY <1>1, <2>0, <2>1
  <2>2. CASE q < next
    <3>1. CASE Delivered(q, k)
      BY <3>1 DEF Delivered, Covers
    <3>2. CASE Remaining(q, k)
      <4>1. PICK u \in Threads :
              local[u].batch.place = q /\ k > local[u].batch.chunk_offset
        BY <3>2 DEF Remaining
      <4>2. u # t
        <5>1. ASSUME u = t PROVE FALSE
          <6>1. Length(local[t].batch) = stream[q].length
            BY <4>1, <5>1, <2>0 DEF Length
          <6> QED
            BY <4>1, <5>1, <6>1, NothingLeft, ThreadTypes, ScanTypes DEF MoreRows
        <5> QED
          BY <5>1
      <4>3. local'[u] = local[u]
        BY <1>2, <4>2
      <4> QED
        BY <4>1, <4>3 DEF Remaining
    <3> QED
      BY <2>2, <3>1, <3>2 DEF CollectedInv, NoRowLost
  <2> QED
    BY <2>0, <2>1, <2>2
<1>5. \A u \in Threads : InStep(u)'
  <2>1. InStep(t)'
    BY <1>1, <1>2 DEF InStep, MoreRows, Length, NoBatch
  <2>2. ASSUME NEW u \in Threads \ {t} PROVE InStep(u)'
    BY <1>1, <1>2 DEF CollectedInv, InStep, Holds, MoreRows, Length
  <2> QED
    BY <2>1, <2>2
<1>6. Settled'
  BY <1>1, <1>2 DEF CollectedInv, Settled, InStep
<1> QED
  BY <1>3, <1>4, <1>5, <1>6 DEF CollectedInv

LEMMA AlreadyDoneCollects ==
  ASSUME ScanInv, CollectedInv, NEW t \in Threads, AlreadyDone(t),
         WantsBatch(t),
         UNCHANGED <<stream, chunks>>
  PROVE  CollectedInv'
<1>1. /\ \A u \in Threads \ {t} : local'[u] = local[u]
      /\ local'[t].batch = local[t].batch /\ local'[t].pc = "finished"
  BY DEF AlreadyDone, ScanInv, Shape
<1>2. UNCHANGED <<next, done, result>> /\ done
  BY DEF AlreadyDone
<1>3. ~MoreRows(t)
  BY NothingLeft
<1>4. \A u \in Threads : InStep(u)'
  <2>1. InStep(t)'
    BY <1>1, <1>2, <1>3 DEF InStep, MoreRows, Length
  <2>2. ASSUME NEW u \in Threads \ {t} PROVE InStep(u)'
    BY <1>1, <1>2 DEF CollectedInv, InStep, Holds, MoreRows, Length
  <2> QED
    BY <2>1, <2>2
<1>5. Settled'
  BY <1>1, <1>2 DEF CollectedInv, Settled
<1>6. \A u \in Threads : local'[u].batch = local[u].batch
  BY <1>1
<1> QED
  BY <1>2, <1>4, <1>5, <1>6, BatchesStay

LEMMA MeasureCollects ==
  ASSUME ScanInv, CollectedInv, NEW t \in Threads, Measure(t)
  PROVE  CollectedInv'
<1>0. VectorSize \in Nat
  BY StreamsAssumption
<1> DEFINE left == Length(local[t].batch) - local[t].batch.chunk_offset
           n    == IF left < VectorSize THEN left ELSE VectorSize
<1>1. left \in Nat /\ n \in Nat /\ local[t].batch.chunk_offset + n <= Length(local[t].batch)
  BY <1>0, ThreadTypes DEF Measure, MoreRows
<1>2. /\ \A u \in Threads \ {t} : local'[u] = local[u]
      /\ local'[t].batch = local[t].batch
      /\ local'[t].pc = "convert" /\ local'[t].size = n
  BY DEF Measure, ScanInv, Shape
<1> HIDE DEF left, n
<1>3. UNCHANGED <<stream, next, done, chunks, result>> /\ local[t].pc = "scan"
  BY DEF Measure
<1>4. \A u \in Threads : InStep(u)'
  <2>1. InStep(t)'
    BY <1>1, <1>2, <1>3 DEF InStep, Length
  <2>2. ASSUME NEW u \in Threads \ {t} PROVE InStep(u)'
    BY <1>2, <1>3 DEF CollectedInv, InStep, Holds, MoreRows, Length
  <2> QED
    BY <2>1, <2>2
<1>5. Settled'
  BY <1>3 DEF CollectedInv, Settled
<1>6. \A u \in Threads : local'[u].batch = local[u].batch
  BY <1>2
<1> QED
  BY <1>3, <1>4, <1>5, <1>6, BatchesStay

LEMMA CancelCollects ==
  ASSUME ScanInv, CollectedInv, NEW t \in Threads, Cancel(t)
  PROVE  CollectedInv'
<1>1. /\ \A u \in Threads \ {t} : local'[u] = local[u]
      /\ local'[t].batch = local[t].batch /\ local'[t].pc = "finished"
  BY DEF Cancel, ScanInv, Shape
<1>2. UNCHANGED <<stream, next, done, chunks, result>> /\ result = "failed"
  BY DEF Cancel
<1>3. \A u \in Threads : InStep(u)'
  BY <1>1, <1>2 DEF CollectedInv, InStep, Holds, Length
<1>4. Settled'
  BY <1>2 DEF CollectedInv, Settled
<1>5. \A u \in Threads : local'[u].batch = local[u].batch
  BY <1>1
<1> QED
  BY <1>2, <1>3, <1>4, <1>5, BatchesStay

LEMMA CompleteCollects ==
  ASSUME ScanInv, CollectedInv, Complete
  PROVE  CollectedInv'
<1>1. UNCHANGED <<stream, next, done, local, chunks>>
      /\ result = "running" /\ result' = "complete"
  BY DEF Complete
<1>2. \A u \in Threads : InStep(u)'
  BY <1>1 DEF CollectedInv, InStep, Holds, MoreRows, Length
<1>3. Settled'
  BY <1>1 DEF CollectedInv, Settled, Complete
<1> QED
  BY <1>1, <1>2, <1>3, BatchesStay

LEMMA CollectedStutter ==
  ASSUME ScanInv, CollectedInv, UNCHANGED scanVars
  PROVE  CollectedInv'
<1>1. UNCHANGED <<stream, next, done, local, chunks, result>>
  BY DEF scanVars
<1>2. \A u \in Threads : InStep(u)'
  BY <1>1 DEF CollectedInv, InStep, Holds, MoreRows, Length
<1>3. Settled'
  BY <1>1 DEF CollectedInv, Settled
<1> QED
  BY <1>1, <1>2, <1>3, BatchesStay
LEMMA DeliverCollects ==
  ASSUME ScanInv, CollectedInv, NEW t \in Threads, Deliver(t)
  PROVE  CollectedInv'
<1> DEFINE n == Len(chunks) + 1
           p == local[t].batch.place
           from == local[t].batch.chunk_offset
           to == from + local[t].size
<1>1. UNCHANGED <<stream, next, done, result>> /\ local[t].pc = "convert"
  BY DEF Deliver
<1>2. /\ Holds(t) /\ p \in 1..Len(stream) /\ p \in DOMAIN stream
      /\ from \in Nat /\ to \in Nat /\ from <= to
      /\ Length(local[t].batch) = stream[p].length
      /\ to <= stream[p].length
  BY SMTT(30), <1>1, ThreadTypes, ScanTypes DEF CollectedInv, InStep, Holds, Length
<1>3. /\ DOMAIN chunks' = DOMAIN chunks \cup {n}
      /\ \A i \in DOMAIN chunks : i < n /\ chunks'[i] = chunks[i]
      /\ chunks'[n].place = p /\ chunks'[n].first = from + 1
      /\ chunks'[n].last = to
  <2> DEFINE C == [thread : Threads, batch_index : Nat,
                   place : 0..Len(stream), first : Nat, last : Nat]
  <2>1. chunks \in Seq(C)
    BY DEF ScanInv, Shape
  <2>2. Chunk(t) \in C
    BY <1>2, ThreadTypes DEF Chunk, Batch
  <2>3. /\ Chunk(t).place = p /\ Chunk(t).first = from + 1
        /\ Chunk(t).last = to
    BY DEF Chunk
  <2> HIDE DEF C
  <2>4. /\ DOMAIN Append(chunks, Chunk(t)) = DOMAIN chunks \cup {n}
        /\ \A i \in DOMAIN chunks :
             i <= Len(chunks) /\ Append(chunks, Chunk(t))[i] = chunks[i]
        /\ Append(chunks, Chunk(t))[n] = Chunk(t)
    BY <2>1, <2>2, Appended
  <2> QED
    BY <2>3, <2>4, ScanTypes DEF Deliver
<1>4. /\ \A u \in Threads \ {t} : local'[u] = local[u]
      /\ local'[t].pc = "scan" /\ local'[t].size = 0
      /\ local'[t].batch.place = p /\ local'[t].batch.chunk_offset = to
  <2>1. local[t].batch \in Batch /\ local[t] \in [pc : PCs, batch : Batch, size : Nat]
    BY DEF ScanInv, Shape
  <2> QED
    BY <2>1 DEF Deliver, ScanInv, Shape, Batch
<1> HIDE DEF p, from, to, n
<1>5. n \in Nat /\ n \notin DOMAIN chunks
  BY ScanTypes DEF n
<1>6. \A i \in DOMAIN chunks : chunks[i].place = p => chunks[i].last <= from
  BY DEF CollectedInv, Ahead, p, from
<1>7. Extents'
  <2> SUFFICES ASSUME NEW i \in DOMAIN chunks'
               PROVE  /\ chunks'[i].place \in DOMAIN stream
                      /\ chunks'[i].first >= 1
                      /\ chunks'[i].last <= stream[chunks'[i].place].length
    BY <1>1 DEF Extents
  <2>1. CASE i = n
    BY <1>2, <1>3, <2>1
  <2>2. CASE i \in DOMAIN chunks
    BY <1>3, <2>2 DEF CollectedInv, Extents
  <2> QED
    BY <1>3, <2>1, <2>2
<1>8. Successive'
  <2> SUFFICES ASSUME NEW i \in DOMAIN chunks', NEW j \in DOMAIN chunks',
                      i < j, chunks'[i].place = chunks'[j].place
               PROVE  chunks'[i].last < chunks'[j].first
    BY DEF Successive
  <2>1. i \in DOMAIN chunks
    BY <1>3, <1>5, ScanTypes
  <2>2. CASE j = n
    BY <1>2, <1>3, <1>6, <2>1, <2>2, ScanTypes
  <2>3. CASE j \in DOMAIN chunks
    BY <1>3, <2>1, <2>3 DEF CollectedInv, Successive
  <2> QED
    BY <1>3, <2>2, <2>3
<1>9. Ahead'
  <2> SUFFICES ASSUME NEW i \in DOMAIN chunks', NEW u \in Threads,
                      chunks'[i].place = local'[u].batch.place
               PROVE  chunks'[i].last <= local'[u].batch.chunk_offset
    BY DEF Ahead
  <2>1. CASE u = t
    <3>1. CASE i = n
      BY <1>2, <1>3, <1>4, <2>1, <3>1
    <3>2. CASE i \in DOMAIN chunks
      BY <1>2, <1>3, <1>4, <1>6, <2>1, <3>2, ScanTypes
    <3> QED
      BY <1>3, <3>1, <3>2
  <2>2. CASE u # t
    <3>1. local'[u] = local[u]
      BY <1>4, <2>2
    <3>2. i # n
      BY <1>2, <1>3, <2>2, <3>1, NotTwoHolders DEF p
    <3> QED
      BY <1>3, <3>1, <3>2 DEF CollectedInv, Ahead
  <2> QED
    BY <2>1, <2>2
<1>10. NoRowLost'
  <2> SUFFICES ASSUME result # "failed", NEW q \in DOMAIN stream, q < next,
                      NEW k \in 1..stream[q].length
               PROVE  Delivered(q, k)' \/ Remaining(q, k)'
    BY <1>1 DEF NoRowLost
  <2>0. k \in Nat
    OBVIOUS
  <2>1. CASE Delivered(q, k)
    <3>1. PICK i \in DOMAIN chunks : Covers(chunks[i], q, k)
      BY <2>1 DEF Delivered
    <3>2. i \in DOMAIN chunks' /\ chunks'[i] = chunks[i]
      BY <1>3
    <3> QED
      BY <3>1, <3>2 DEF Delivered, Covers
  <2>2. CASE Remaining(q, k)
    <3>1. PICK u \in Threads :
            local[u].batch.place = q /\ k > local[u].batch.chunk_offset
      BY <2>2 DEF Remaining
    <3>2. CASE u # t
      <4>1. local'[u] = local[u]
        BY <1>4, <3>2
      <4> QED
        BY <3>1, <4>1 DEF Remaining
    <3>3. CASE u = t
      <4>1. q = p /\ k > from
        BY <3>1, <3>3 DEF p, from
      <4>2. CASE k <= to
        <5>1. n \in DOMAIN chunks' /\ k \in chunks'[n].first..chunks'[n].last
          BY <1>2, <1>3, <2>0, <4>1, <4>2
        <5> QED
          BY <1>3, <4>1, <5>1 DEF Delivered, Covers
      <4>3. CASE k > to
        BY <1>4, <4>1, <4>3 DEF Remaining
      <4> QED
        BY <1>2, <2>0, <4>2, <4>3
    <3> QED
      BY <3>2, <3>3
  <2> QED
    BY <2>1, <2>2 DEF CollectedInv, NoRowLost
<1>11. \A u \in Threads : InStep(u)'
  <2>1. InStep(t)'
    BY <1>4 DEF InStep
  <2>2. ASSUME NEW u \in Threads \ {t} PROVE InStep(u)'
    BY <1>1, <1>4 DEF CollectedInv, InStep, Holds, MoreRows, Length
  <2> QED
    BY <2>1, <2>2
<1>12. Settled'
  BY <1>1 DEF CollectedInv, Settled
<1> QED
  BY <1>7, <1>8, <1>9, <1>10, <1>11, <1>12 DEF CollectedInv

LEMMA ParallelStateNextCollects ==
  ASSUME ScanInv, ScanInv', CollectedInv, NEW t \in Threads,
         ParallelStateNext(t),
         WantsBatch(t)
  PROVE  CollectedInv'
<1>1. CASE TakeBatch(t)
  BY <1>1, TakeBatchCollects DEF ParallelStateNext
<1>2. CASE LoseBatch(t)
  BY <1>2, FailureCollects DEF ParallelStateNext, LoseBatch
<1>3. CASE EndOfStream(t)
  BY <1>3, EndOfStreamCollects DEF ParallelStateNext
<1>4. CASE AlreadyDone(t)
  BY <1>4, AlreadyDoneCollects DEF ParallelStateNext
<1> QED
  BY <1>1, <1>2, <1>3, <1>4 DEF ParallelStateNext

LEMMA CollectedNext ==
  ScanInv /\ ScanInv' /\ CollectedInv /\ [ScanNext]_scanVars => CollectedInv'
<1> SUFFICES ASSUME ScanInv, ScanInv', CollectedInv, [ScanNext]_scanVars
             PROVE  CollectedInv'
  OBVIOUS
<1>1. ASSUME NEW t \in Threads, InitLocal(t) PROVE CollectedInv'
  BY <1>1, ParallelStateNextCollects DEF InitLocal, WantsBatch
<1>2. ASSUME NEW t \in Threads, NewBatch(t) PROVE CollectedInv'
  BY <1>2, ParallelStateNextCollects DEF NewBatch, WantsBatch
<1>3. ASSUME NEW t \in Threads, Measure(t) PROVE CollectedInv'
  BY <1>3, MeasureCollects
<1>4. ASSUME NEW t \in Threads, Deliver(t) PROVE CollectedInv'
  BY <1>4, DeliverCollects
<1>5. ASSUME NEW t \in Threads, Reject(t) PROVE CollectedInv'
  BY <1>5, FailureCollects DEF Reject
<1>6. ASSUME NEW t \in Threads, Cancel(t) PROVE CollectedInv'
  BY <1>6, CancelCollects
<1>7. CASE Complete
  BY <1>7, CompleteCollects
<1>8. CASE Stopped \/ UNCHANGED scanVars
  BY <1>8, CollectedStutter DEF Stopped
<1> QED
  BY <1>1, <1>2, <1>3, <1>4, <1>5, <1>6, <1>7, <1>8 DEF ScanNext, Step

LEMMA InvImpliesOrder == ScanInv /\ CollectedInv => OrderPreserved
<1> SUFFICES ASSUME ScanInv, CollectedInv, result = "complete"
             PROVE  OrderPreserved
  BY DEF OrderPreserved
<1>1. next = Len(stream) + 1 /\ \A t \in Threads : ~MoreRows(t)
  <2>1. \A t \in Threads : local[t].pc = "start" => ~MoreRows(t)
    BY NothingLeft DEF WantsBatch
  <2> QED
    BY <2>1 DEF CollectedInv, Settled, InStep
<1>2. ASSUME NEW p \in DOMAIN stream, NEW k \in 1..stream[p].length
      PROVE  \E i \in DOMAIN chunks : Covers(chunks[i], p, k)
  <2>1. Delivered(p, k) \/ Remaining(p, k)
    BY <1>1, ScanTypes DEF CollectedInv, NoRowLost
  <2>2. ~Remaining(p, k)
    <3> SUFFICES ASSUME NEW t \in Threads, local[t].batch.place = p,
                        k > local[t].batch.chunk_offset
                 PROVE  FALSE
      BY DEF Remaining
    <3>1. Length(local[t].batch) = stream[p].length
      BY ScanTypes DEF Length
    <3> QED
      BY <1>1, <3>1, ThreadTypes, ScanTypes DEF MoreRows
  <2> QED
    BY <2>1, <2>2 DEF Delivered
<1>3. ASSUME NEW i \in DOMAIN chunks
      PROVE  chunks[i].first..chunks[i].last
               \subseteq 1..stream[chunks[i].place].length
  BY ScanTypes DEF CollectedInv, Extents
<1>4. ASSUME NEW i \in DOMAIN chunks, NEW j \in DOMAIN chunks,
             CollectedBefore(i, j)
      PROVE  \/ chunks[i].place < chunks[j].place
             \/ /\ chunks[i].place = chunks[j].place
                /\ chunks[i].last < chunks[j].first
  <2>1. BatchesAreOwned
    BY InvImpliesOwned
  <2> QED
    BY <1>4, <2>1 DEF CollectedBefore, BatchesAreOwned, CollectedInv, Successive
<1> QED
  BY <1>2, <1>3, <1>4 DEF OrderPreserved

(* However many threads share the stream, in whatever order they take and  *)
(* deliver its batches, and however these fill the vectors: a scan that    *)
(* succeeds has every row of the layer once, and in the order of the layer *)
(* when its chunks are put in the order of their batch numbers.            *)
THEOREM GdalOrderPreserved == ScanSpec => []OrderPreserved
<1>1. ScanSpec => []ScanInv
  BY ScanInitInv, ScanNextInv, PTL DEF ScanSpec
<1>2. ScanSpec => []CollectedInv
  BY <1>1, CollectedInit, CollectedNext, PTL DEF ScanSpec
<1> QED
  BY <1>1, <1>2, InvImpliesOrder, PTL

-----------------------------------------------------------------------------
(* Induction over the numbers up to one, of membership in a set.           *)
LEMMA Induction ==
  ASSUME NEW S, NEW last \in Nat, 0 \in S, \A n \in 0..last : n < last /\ n \in S => n + 1 \in S
  PROVE  \A n \in 0..last : n \in S
<1> DEFINE R == {p \in Nat \X Nat : p[1] < p[2]}
           T == (0..last) \ S
<1>1. IsWellFoundedOn(R, Nat)
  BY NatLessThanWellFounded DEF OpToRel
<1>2. SUFFICES ASSUME T # {} PROVE FALSE
  OBVIOUS
<1>3. PICK x \in T : \A y \in T : <<y, x>> \notin R
  <2>1. T \subseteq Nat
    OBVIOUS
  <2> HIDE DEF R, T
  <2> QED
    BY <1>1, <1>2, <2>1, WFMin
<1>4. x - 1 \in 0..last /\ x - 1 < last /\ x = (x - 1) + 1 /\ <<x - 1, x>> \in R
  BY <1>3
<1>5. x - 1 \notin S
  BY <1>4
<1> QED
  BY <1>3, <1>4, <1>5

-----------------------------------------------------------------------------
(* What a clause selects.                                                  *)
TestHolds(w, row) == w.word = "test" => Passes(w.filter, ValueOf(row, w.column))

HoldsBetween(words, row, i, j) == \A k \in (i + 1)..(j - 1) : TestHolds(words[k], row)

LEMMA SelectsIs ==
  ASSUME NEW words, NEW row
  PROVE  Selects(words, row) <=>
           \E i, j \in 0..(Len(words) + 1) : Between(words, i, j) /\ HoldsBetween(words, row, i, j)
BY DEF Selects, HoldsBetween, TestHolds

(* Without OR, the rows of which every test holds.                         *)
LEMMA SelectsAll ==
  ASSUME NEW W, NEW words \in Seq(W), \A k \in DOMAIN words : words[k].word # "OR", NEW row
  PROVE  Selects(words, row) <=> \A k \in DOMAIN words : TestHolds(words[k], row)
<1>1. Len(words) \in Nat /\ DOMAIN words = 1..Len(words)
  OBVIOUS
<1> PICK n : n = Len(words)
  OBVIOUS
<1>2. \A k \in 0..(n + 1) : IsOr(words, k) <=> k \in {0, n + 1}
  BY <1>1 DEF IsOr
<1>3. Between(words, 0, n + 1)
  BY <1>1, <1>2 DEF Between
<1>4. \A i, j \in 0..(n + 1) : Between(words, i, j) => i = 0 /\ j = n + 1
  BY <1>1, <1>2 DEF Between
<1>5. HoldsBetween(words, row, 0, n + 1) <=> \A k \in DOMAIN words : TestHolds(words[k], row)
  BY <1>1 DEF HoldsBetween
<1>6. 0 \in 0..(n + 1) /\ n + 1 \in 0..(n + 1)
  BY <1>1
<1> QED
  BY <1>3, <1>4, <1>5, <1>6, SelectsIs

(* The words of two clauses with one OR between them.                      *)
Either(words, u, v, a, b) ==
  words = u \o (OrWord \o v) /\ a = Len(u) /\ b = Len(v)

EitherWords(words, u, v, a, b) ==
  /\ a \in Nat /\ b \in Nat /\ Len(words) = a + 1 + b
  /\ \A k \in 1..a : words[k] = u[k]
  /\ words[a + 1].word = "OR"
  /\ \A k \in 1..b : words[a + 1 + k] = v[k]

LEMMA EitherIs ==
  ASSUME NEW W, NEW u \in Seq(W), NEW v \in Seq(W), OrWord \in Seq(W),
         NEW words, NEW a, NEW b, Either(words, u, v, a, b)
  PROVE  EitherWords(words, u, v, a, b)
<1> USE DEF Either
<1>1. Len(OrWord) = 1 /\ OrWord[1].word = "OR"
  BY DEF OrWord
<1> PICK w : w = OrWord \o v
  OBVIOUS
<1>2. /\ w \in Seq(W) /\ Len(w) = 1 + b /\ b \in Nat
      /\ w[1] = OrWord[1] /\ \A k \in 1..b : w[1 + k] = v[k]
  <2>1. /\ w \in Seq(W) /\ Len(w) = Len(OrWord) + Len(v)
        /\ \A i \in 1..Len(OrWord) + Len(v) :
             w[i] = IF i <= Len(OrWord) THEN OrWord[i] ELSE v[i - Len(OrWord)]
    BY Zenon, ConcatProperties
  <2>2. b \in Nat
    OBVIOUS
  <2>3. \A i \in 1..1 + b : w[i] = IF i <= 1 THEN OrWord[i] ELSE v[i - 1]
    BY <1>1, <2>1
  <2>4. \A k \in 1..b : 1 + k \in 1..1 + b /\ ~(1 + k <= 1) /\ 1 + k - 1 = k
    BY <2>2
  <2>5. 1 \in 1..1 + b
    BY <2>2
  <2> QED
    BY <1>1, <2>1, <2>2, <2>3, <2>4, <2>5
<1>3. words = u \o w /\ Len(words) = a + (1 + b) /\ a \in Nat
      /\ \A k \in 1..a + (1 + b) : words[k] = IF k <= a THEN u[k] ELSE w[k - a]
  <2>1. words = u \o w
    OBVIOUS
  <2>2. /\ Len(u \o w) = Len(u) + Len(w)
        /\ \A i \in 1..Len(u) + Len(w) : (u \o w)[i] = IF i <= Len(u) THEN u[i] ELSE w[i - Len(u)]
    <3>1. w \in Seq(W)
      BY <1>2
    <3> HIDE DEF Either
    <3> QED
      BY Zenon, <3>1, ConcatProperties
  <2> QED
    BY <1>2, <2>1, <2>2
<1>4. \A k \in 1..a : words[k] = u[k]
  BY <1>2, <1>3
<1>5. words[a + 1] = w[1]
  BY <1>2, <1>3
<1>6. ASSUME NEW k \in 1..b PROVE words[a + 1 + k] = v[k]
  <2> HIDE DEF Either
  <2>1. PICK p : p = a + 1 + k
    OBVIOUS
  <2>2. p \in 1..a + (1 + b) /\ ~(p <= a) /\ p - a = 1 + k
    BY <1>2, <1>3, <2>1
  <2>3. words[p] = w[p - a]
    BY <1>3, <2>2
  <2> QED
    BY <1>2, <2>1, <2>2, <2>3
<1> QED
  BY <1>1, <1>2, <1>3, <1>4, <1>5, <1>6 DEF EitherWords

LEMMA SelectsEither ==
  ASSUME NEW W, NEW u \in Seq(W), NEW v \in Seq(W), OrWord \in Seq(W), NEW row
  PROVE  Selects(u \o (OrWord \o v), row) <=> Selects(u, row) \/ Selects(v, row)
<1> PICK words, a, b : Either(words, u, v, a, b)
  BY DEF Either
<1>1. /\ a \in Nat /\ b \in Nat /\ Len(words) = a + 1 + b
      /\ \A k \in 1..a : words[k] = u[k]
      /\ words[a + 1].word = "OR"
      /\ \A k \in 1..b : words[a + 1 + k] = v[k]
  <2>1. EitherWords(words, u, v, a, b)
    BY EitherIs
  <2> QED
    BY <2>1 DEF EitherWords
<1>0. a = Len(u) /\ b = Len(v) /\ words = u \o (OrWord \o v)
  BY DEF Either
<1>2. \A k \in 0..(a + 1) : IsOr(words, k) <=> IsOr(u, k)
  BY <1>0, <1>1 DEF IsOr
<1>3. \A k \in 0..(b + 1) : IsOr(words, a + 1 + k) <=> IsOr(v, k)
  <2> SUFFICES ASSUME NEW k \in 0..(b + 1) PROVE IsOr(words, a + 1 + k) <=> IsOr(v, k)
    OBVIOUS
  <2>1. CASE k = 0
    BY <1>0, <1>1, <2>1 DEF IsOr
  <2>2. CASE k = b + 1
    BY <1>0, <1>1, <2>2 DEF IsOr
  <2>3. CASE k \in 1..b
    <3>1. a + 1 + k \notin {0, Len(words) + 1} /\ k \notin {0, Len(v) + 1}
      BY <1>0, <1>1, <2>3
    <3> QED
      BY <1>0, <1>1, <2>3, <3>1 DEF IsOr
  <2> QED
    BY <1>0, <1>1, <2>1, <2>2, <2>3
<1>4. ASSUME NEW i \in 0..(a + 1), NEW j \in 0..(a + 1)
      PROVE  /\ Between(words, i, j) <=> Between(u, i, j)
             /\ HoldsBetween(words, row, i, j) <=> HoldsBetween(u, row, i, j)
  <2>1. \A k \in (i + 1)..(j - 1) : words[k] = u[k]
    BY <1>0, <1>1
  <2> QED
    BY <1>2, <2>1 DEF Between, HoldsBetween
<1>5. ASSUME NEW i \in 0..(b + 1), NEW j \in 0..(b + 1), NEW p, p = a + 1 + i, NEW q, q = a + 1 + j
      PROVE  /\ Between(words, p, q) <=> Between(v, i, j)
             /\ HoldsBetween(words, row, p, q) <=> HoldsBetween(v, row, i, j)
  <2>1. \A k \in (i + 1)..(j - 1) : k \in 1..b
    BY <1>1
  <2>2. ASSUME NEW k \in (i + 1)..(j - 1)
        PROVE  \E l \in (p + 1)..(q - 1) : words[l] = v[k]
    <3>1. a + 1 + k \in (p + 1)..(q - 1)
      BY <1>1, <1>5
    <3>2. words[a + 1 + k] = v[k]
      BY <1>1, <2>1
    <3> QED
      BY <3>1, <3>2
  <2>3. ASSUME NEW l \in (p + 1)..(q - 1)
        PROVE  \E k \in (i + 1)..(j - 1) : words[l] = v[k]
    <3> PICK k : k = l - a - 1
      OBVIOUS
    <3>1. k \in (i + 1)..(j - 1) /\ l = a + 1 + k
      BY <1>1, <1>5
    <3>2. words[l] = v[k]
      BY <1>1, <2>1, <3>1
    <3> QED
      BY <3>1, <3>2
  <2>4. (\A l \in (p + 1)..(q - 1) : words[l].word # "OR")
          <=> \A k \in (i + 1)..(j - 1) : v[k].word # "OR"
    BY <2>2, <2>3
  <2>5. HoldsBetween(words, row, p, q) <=> HoldsBetween(v, row, i, j)
    BY <2>2, <2>3 DEF HoldsBetween
  <2>6. p < q <=> i < j
    BY <1>1, <1>5
  <2>7. (IsOr(words, p) <=> IsOr(v, i)) /\ (IsOr(words, q) <=> IsOr(v, j))
    BY <1>3, <1>5
  <2> QED
    BY <2>4, <2>5, <2>6, <2>7 DEF Between
<1>6. ASSUME NEW i \in 0..(a + 1 + b + 1), NEW j \in 0..(a + 1 + b + 1), Between(words, i, j)
      PROVE  i < j /\ (j <= a + 1 \/ i >= a + 1)
  <2>1. i < j /\ \A k \in (i + 1)..(j - 1) : words[k].word # "OR"
    BY <1>6 DEF Between
  <2>2. i < a + 1 /\ a + 1 < j => a + 1 \in (i + 1)..(j - 1)
    BY <1>1
  <2> QED
    BY <1>1, <2>1, <2>2
<1>7. ASSUME Selects(words, row) PROVE Selects(u, row) \/ Selects(v, row)
  <2>1. PICK i, j \in 0..(a + 1 + b + 1) : Between(words, i, j) /\ HoldsBetween(words, row, i, j)
    BY <1>0, <1>1, <1>7, SelectsIs
  <2>2. CASE j <= a + 1
    <3>1. i \in 0..(a + 1) /\ j \in 0..(a + 1)
      BY <1>0, <1>1, <1>6, <2>1, <2>2
    <3> QED
      BY <1>0, <1>4, <2>1, <3>1, SelectsIs
  <2>3. CASE i >= a + 1
    <3>1. PICK p, q \in 0..(b + 1) : i = a + 1 + p /\ j = a + 1 + q
      <4>1. i < j
        BY <1>6, <2>1
      <4>2. a \in Nat /\ b \in Nat
        BY <1>1
      <4>3. i - a - 1 \in 0..(b + 1) /\ j - a - 1 \in 0..(b + 1)
            /\ i = a + 1 + (i - a - 1) /\ j = a + 1 + (j - a - 1)
        BY <2>3, <4>1, <4>2
      <4> QED
        BY <4>3
    <3>2. Between(v, p, q) /\ HoldsBetween(v, row, p, q)
      BY <1>5, <2>1, <3>1
    <3> QED
      BY <1>0, <3>2, SelectsIs
  <2> QED
    BY <1>6, <2>1, <2>2, <2>3
<1>8. ASSUME Selects(u, row) PROVE Selects(words, row)
  <2>1. PICK i, j \in 0..(a + 1) : Between(u, i, j) /\ HoldsBetween(u, row, i, j)
    BY <1>0, <1>8, SelectsIs
  <2>2. i \in 0..(Len(words) + 1) /\ j \in 0..(Len(words) + 1)
    BY <1>0, <1>1
  <2> QED
    BY <1>4, <2>1, <2>2, SelectsIs
<1>9. ASSUME Selects(v, row) PROVE Selects(words, row)
  <2>1. PICK i, j \in 0..(b + 1) : Between(v, i, j) /\ HoldsBetween(v, row, i, j)
    BY <1>0, <1>9, SelectsIs
  <2>2. a + 1 + i \in 0..(Len(words) + 1) /\ a + 1 + j \in 0..(Len(words) + 1)
    BY <1>0, <1>1
  <2> QED
    BY <1>5, <2>1, <2>2, SelectsIs
<1> QED
  BY <1>0, <1>7, <1>8, <1>9

-----------------------------------------------------------------------------
(* StringUtil::Join, one string after the other.                           *)
Flattens(f, seqs, n) ==
  f = [m \in 1..n |-> IF m = 1 THEN seqs[m] ELSE f[m - 1] \o seqs[m]]

LEMMA FlattenDefined ==
  ASSUME NEW seqs, Len(seqs) \in Nat \ {0}
  PROVE  \E f : Flattens(f, seqs, Len(seqs)) /\ FlattenSeq(seqs) = f[Len(seqs)]
<1> DEFINE S == {n \in Nat : \E f : Flattens(f, seqs, n)}
<1>1. 0 \in S
  <2>1. Flattens([m \in 1..0 |-> <<>>], seqs, 0)
    BY DEF Flattens
  <2> QED
    BY <2>1
<1>2. ASSUME NEW n \in Nat, n \in S PROVE n + 1 \in S
  <2>1. PICK f : Flattens(f, seqs, n)
    BY <1>2
  <2> DEFINE last == IF n + 1 = 1 THEN seqs[n + 1] ELSE f[n] \o seqs[n + 1]
             g    == [m \in 1..n + 1 |-> IF m = n + 1 THEN last ELSE f[m]]
  <2>2. ASSUME NEW m \in 1..n + 1
        PROVE  g[m] = IF m = 1 THEN seqs[m] ELSE g[m - 1] \o seqs[m]
    <3>1. CASE m = n + 1
      <4>1. g[m] = last /\ (m # 1 => g[m - 1] = f[n])
        BY <3>1
      <4> HIDE DEF g
      <4> QED
        BY <3>1, <4>1
    <3>2. CASE m # n + 1
      <4>1. m \in 1..n /\ g[m] = f[m] /\ (m # 1 => g[m - 1] = f[m - 1])
        BY <3>2
      <4>2. f[m] = IF m = 1 THEN seqs[m] ELSE f[m - 1] \o seqs[m]
        BY <2>1, <4>1 DEF Flattens
      <4> HIDE DEF g
      <4> QED
        BY <4>1, <4>2
    <3> QED
      BY <3>1, <3>2
  <2>3. Flattens(g, seqs, n + 1)
    <3>1. g = [m \in 1..n + 1 |-> g[m]]
      OBVIOUS
    <3> HIDE DEF g
    <3> QED
      BY <2>2, <3>1 DEF Flattens
  <2> QED
    BY <2>3
<1>3. Len(seqs) \in S
  <2> HIDE DEF S
  <2>1. \A n \in 0..Len(seqs) : n < Len(seqs) /\ n \in S => n + 1 \in S
    BY <1>2
  <2>2. \A n \in 0..Len(seqs) : n \in S
    BY <1>1, <2>1, Induction
  <2> QED
    BY <2>2
<1>4. FlattenSeq(seqs) = (CHOOSE f : Flattens(f, seqs, Len(seqs)))[Len(seqs)]
  BY DEF FlattenSeq, Flattens
<1>5. Flattens(CHOOSE f : Flattens(f, seqs, Len(seqs)), seqs, Len(seqs))
  BY <1>3
<1> QED
  BY <1>4, <1>5

(* The first m clauses, joined, are j[m].                                  *)
JoinedTo(j, W, clauses, separator) ==
  /\ j[1] = clauses[1]
  /\ \A m \in 1..Len(clauses) :
       /\ j[m] \in Seq(W)
       /\ m + 1 <= Len(clauses) => j[m + 1] = j[m] \o (separator \o clauses[m + 1])
  /\ Join(clauses, separator) = j[Len(clauses)]

LEMMA JoinIs ==
  ASSUME NEW W, NEW clauses \in Seq(Seq(W)), clauses # <<>>, NEW separator \in Seq(W)
  PROVE  \E j : JoinedTo(j, W, clauses, separator)
<1> DEFINE seqs == [i \in DOMAIN clauses |->
                      IF i = 1 THEN clauses[i] ELSE separator \o clauses[i]]
<1> PICK n : n = Len(clauses)
  OBVIOUS
<1>1. n \in Nat \ {0} /\ DOMAIN clauses = 1..n /\ \A i \in 1..n : clauses[i] \in Seq(W)
  OBVIOUS
<1>2. /\ Len(seqs) = n
      /\ \A i \in 1..n : seqs[i] = IF i = 1 THEN clauses[i] ELSE separator \o clauses[i]
  BY <1>1
<1>3. Join(clauses, separator) = FlattenSeq(seqs)
  BY DEF Join
<1> HIDE DEF seqs
<1>4. PICK j : Flattens(j, seqs, n) /\ FlattenSeq(seqs) = j[n]
  BY <1>1, <1>2, FlattenDefined
<1>5. \A m \in 1..n : j[m] = IF m = 1 THEN seqs[m] ELSE j[m - 1] \o seqs[m]
  BY <1>4 DEF Flattens
<1>6. j[1] = clauses[1]
  BY <1>1, <1>2, <1>5
<1>7. ASSUME NEW m \in 1..n, m + 1 <= n
      PROVE  j[m + 1] = j[m] \o (separator \o clauses[m + 1])
  <2>1. m + 1 \in 1..n /\ m + 1 # 1 /\ m + 1 - 1 = m
    BY <1>1, <1>7
  <2>2. j[m + 1] = j[m] \o seqs[m + 1]
    <3>1. PICK k \in 1..n : k = m + 1 /\ k # 1 /\ k - 1 = m
      BY <2>1
    <3>2. j[k] = j[k - 1] \o seqs[k]
      BY <1>5, <3>1
    <3> QED
      BY <3>1, <3>2
  <2>3. seqs[m + 1] = separator \o clauses[m + 1]
    BY <1>2, <2>1
  <2> QED
    BY <2>2, <2>3
<1> DEFINE S == {m \in 0..n : m = 0 \/ j[m] \in Seq(W)}
<1>8. ASSUME NEW m \in 0..n, m < n, m \in S PROVE m + 1 \in S
  <2>1. m + 1 \in 0..n /\ m + 1 \in 1..n
    BY <1>1, <1>8
  <2>2. CASE m = 0
    BY <1>1, <1>6, <2>1, <2>2
  <2>3. CASE m # 0
    <3>1. m \in 1..n /\ m + 1 <= n /\ j[m] \in Seq(W) /\ clauses[m + 1] \in Seq(W)
      BY <1>1, <1>8, <2>1, <2>3
    <3>2. j[m] \o (separator \o clauses[m + 1]) \in Seq(W)
      BY <3>1, ConcatProperties
    <3> QED
      BY <1>7, <2>1, <3>1, <3>2
  <2> QED
    BY <2>2, <2>3
<1>9. \A m \in 0..n : m \in S
  <2>1. 0 \in S /\ n \in Nat
    BY <1>1
  <2> HIDE DEF S
  <2> QED
    BY <1>8, <2>1, Induction
<1>10. \A m \in 1..n : j[m] \in Seq(W)
  BY <1>1, <1>9
<1> QED
  BY <1>3, <1>4, <1>6, <1>7, <1>10 DEF JoinedTo

LEMMA RangeOfConcat ==
  ASSUME NEW W, NEW u \in Seq(W), NEW v \in Seq(W)
  PROVE  Range(u \o v) = Range(u) \cup Range(v)
<1>1. /\ u \o v \in Seq(W) /\ Len(u \o v) = Len(u) + Len(v)
      /\ \A i \in 1..Len(u) + Len(v) : (u \o v)[i] = IF i <= Len(u) THEN u[i] ELSE v[i - Len(u)]
  BY Zenon, ConcatProperties
<1> PICK w, a, b : w = u \o v /\ a = Len(u) /\ b = Len(v)
  OBVIOUS
<1>2. /\ a \in Nat /\ b \in Nat /\ DOMAIN u = 1..a /\ DOMAIN v = 1..b /\ DOMAIN w = 1..a + b
      /\ \A i \in 1..a + b : w[i] = IF i <= a THEN u[i] ELSE v[i - a]
  BY <1>1
<1>3. ASSUME NEW x \in Range(w) PROVE x \in Range(u) \cup Range(v)
  <2>1. PICK i \in 1..a + b : x = w[i]
    BY <1>2 DEF Range
  <2>2. i <= a => i \in 1..a
    BY <1>2
  <2>3. ~(i <= a) => i - a \in 1..b
    BY <1>2
  <2> QED
    BY <1>2, <2>1, <2>2, <2>3 DEF Range
<1>4. ASSUME NEW i \in 1..a PROVE u[i] \in Range(w)
  <2>1. i \in 1..a + b /\ i <= a
    BY <1>2
  <2> QED
    BY <1>2, <2>1 DEF Range
<1>5. ASSUME NEW i \in 1..b PROVE v[i] \in Range(w)
  <2>1. a + i \in 1..a + b /\ ~(a + i <= a) /\ a + i - a = i
    BY <1>2
  <2>2. w[a + i] = v[i]
    BY <1>2, <2>1
  <2> QED
    BY <1>2, <2>1, <2>2 DEF Range
<1>6. Range(u) = {u[i] : i \in 1..a} /\ Range(v) = {v[i] : i \in 1..b}
  BY <1>2 DEF Range
<1>7. Range(u) \cup Range(v) \subseteq Range(w)
  BY <1>4, <1>5, <1>6
<1>8. Range(w) = Range(u) \cup Range(v)
  BY <1>3, <1>7
<1> QED
  BY <1>8

(* The words of the clauses, with those of the separators.                 *)
LEMMA JoinRange ==
  ASSUME NEW W, NEW clauses \in Seq(Seq(W)), clauses # <<>>, NEW separator \in Seq(W)
  PROVE  /\ Join(clauses, separator) \in Seq(W)
         /\ \A i \in DOMAIN clauses : Range(clauses[i]) \subseteq Range(Join(clauses, separator))
         /\ \A w \in Range(Join(clauses, separator)) :
              w \in Range(separator) \/ \E i \in DOMAIN clauses : w \in Range(clauses[i])
<1>1. PICK j : JoinedTo(j, W, clauses, separator)
  BY JoinIs
<1> PICK n : n = Len(clauses)
  OBVIOUS
<1>2. n \in Nat \ {0} /\ DOMAIN clauses = 1..n /\ \A i \in 1..n : clauses[i] \in Seq(W)
  OBVIOUS
<1> DEFINE Has(m) ==
             /\ \A i \in 1..m : Range(clauses[i]) \subseteq Range(j[m])
             /\ \A w \in Range(j[m]) :
                  w \in Range(separator) \/ \E i \in 1..m : w \in Range(clauses[i])
           S == {m \in 0..n : m = 0 \/ Has(m)}
<1>3. ASSUME NEW m \in 0..n, m < n, m \in S PROVE m + 1 \in S
  <2>1. m + 1 \in 0..n /\ m + 1 \in 1..n
    BY <1>2, <1>3
  <2>2. CASE m = 0
    <3>1. j[m + 1] = clauses[1] /\ 1..(m + 1) = {1}
      BY <1>1, <2>2 DEF JoinedTo
    <3>2. Has(m + 1)
      BY <3>1
    <3> QED
      BY <2>1, <3>2
  <2>3. CASE m # 0
    <3>1. m \in 1..n /\ m + 1 <= n /\ clauses[m + 1] \in Seq(W)
      BY <1>2, <1>3, <2>1, <2>3
    <3>2. j[m] \in Seq(W) /\ j[m + 1] = j[m] \o (separator \o clauses[m + 1])
      BY <1>1, <3>1 DEF JoinedTo
    <3>3. Range(j[m + 1]) = Range(j[m]) \cup (Range(separator) \cup Range(clauses[m + 1]))
      <4>0. PICK before, rest : before = j[m] /\ rest = separator \o clauses[m + 1]
        OBVIOUS
      <4>1. rest \in Seq(W)
        BY <3>1, <4>0, ConcatProperties
      <4>2. Range(rest) = Range(separator) \cup Range(clauses[m + 1])
        BY <3>1, <4>0, RangeOfConcat
      <4>3. before \in Seq(W)
        BY <3>2, <4>0
      <4>4. Range(before \o rest) = Range(before) \cup Range(rest)
        BY <4>1, <4>3, RangeOfConcat
      <4> QED
        BY <3>2, <4>0, <4>2, <4>4
    <3>4. 1..(m + 1) = 1..m \cup {m + 1}
      BY <3>1
    <3>5. Has(m)
      BY <1>3, <2>3
    <3>6. Has(m + 1)
      <4>1. \A i \in 1..(m + 1) : Range(clauses[i]) \subseteq Range(j[m + 1])
        BY <3>3, <3>4, <3>5
      <4>2. \A w \in Range(j[m + 1]) :
              w \in Range(separator) \/ \E i \in 1..(m + 1) : w \in Range(clauses[i])
        BY <3>3, <3>4, <3>5
      <4> QED
        BY <4>1, <4>2
    <3> QED
      BY <2>1, <3>6
  <2> QED
    BY <2>2, <2>3
<1>4. Has(n)
  <2>1. 0 \in S /\ n \in Nat
    BY <1>2
  <2>2. \A m \in 0..n : m \in S
    <3> HIDE DEF S
    <3> QED
      BY <1>3, <2>1, Induction
  <2>3. n \in S
    <3> HIDE DEF S
    <3> QED
      BY <2>1, <2>2
  <2> QED
    BY <1>2, <2>3
<1>5. Join(clauses, separator) = j[n] /\ j[n] \in Seq(W)
  <2>1. n \in 1..n /\ n = Len(clauses)
    BY <1>2
  <2> HIDE DEF S, Has
  <2> QED
    BY <1>1, <2>1 DEF JoinedTo
<1> QED
  BY <1>2, <1>4, <1>5

(* Clauses with OR between them select what one of them selects.           *)
LEMMA JoinSelects ==
  ASSUME NEW W, NEW clauses \in Seq(Seq(W)), clauses # <<>>, OrWord \in Seq(W), NEW row
  PROVE  Selects(Join(clauses, OrWord), row)
           <=> \E i \in DOMAIN clauses : Selects(clauses[i], row)
<1>1. PICK j : JoinedTo(j, W, clauses, OrWord)
  BY JoinIs
<1> PICK n : n = Len(clauses)
  OBVIOUS
<1>2. n \in Nat \ {0} /\ DOMAIN clauses = 1..n /\ \A i \in 1..n : clauses[i] \in Seq(W)
  OBVIOUS
<1> DEFINE Selected(m) == Selects(j[m], row) <=> \E i \in 1..m : Selects(clauses[i], row)
           S == {m \in 0..n : m = 0 \/ Selected(m)}
<1>3. ASSUME NEW m \in 0..n, m < n, m \in S PROVE m + 1 \in S
  <2>1. m + 1 \in 0..n /\ m + 1 \in 1..n
    BY <1>2, <1>3
  <2>2. CASE m = 0
    <3>1. j[m + 1] = clauses[1] /\ 1..(m + 1) = {1}
      BY <1>1, <2>2 DEF JoinedTo
    <3>2. Selected(m + 1)
      BY <3>1
    <3> QED
      BY <2>1, <3>2
  <2>3. CASE m # 0
    <3>1. m \in 1..n /\ m + 1 <= n /\ clauses[m + 1] \in Seq(W)
      BY <1>2, <1>3, <2>1, <2>3
    <3>2. j[m] \in Seq(W) /\ j[m + 1] = j[m] \o (OrWord \o clauses[m + 1])
      BY <1>1, <3>1 DEF JoinedTo
    <3>3. Selects(j[m + 1], row) <=> Selects(j[m], row) \/ Selects(clauses[m + 1], row)
      BY <3>1, <3>2, SelectsEither
    <3>4. 1..(m + 1) = 1..m \cup {m + 1}
      BY <3>1
    <3>5. Selected(m)
      BY <1>3, <2>3
    <3>6. Selected(m + 1)
      BY <3>3, <3>4, <3>5
    <3> QED
      BY <2>1, <3>6
  <2> QED
    BY <2>2, <2>3
<1>4. Selected(n)
  <2>1. 0 \in S /\ n \in Nat
    BY <1>2
  <2>2. \A m \in 0..n : m \in S
    <3> HIDE DEF S
    <3> QED
      BY <1>3, <2>1, Induction
  <2>3. n \in S
    <3> HIDE DEF S
    <3> QED
      BY <2>1, <2>2
  <2> QED
    BY <1>2, <2>3
<1> QED
  BY <1>1, <1>2, <1>4 DEF JoinedTo

-----------------------------------------------------------------------------
(* Filters are trees.                                                      *)
LEMMA Tree ==
  ASSUME NEW f \in Filters, f.type \in Conjunctions
  PROVE  /\ f.child_filters \in Seq(Filters) /\ f.child_filters # <<>>
         /\ DOMAIN f.child_filters = 1..Len(f.child_filters) /\ Len(f.child_filters) \in Nat \ {0}
         /\ \A i \in DOMAIN f.child_filters :
              /\ f.child_filters[i] \in Filters
              /\ Depth(f.child_filters[i]) < Depth(f)
BY FiltersAssumption

LEMMA TreeInduction ==
  ASSUME NEW S \in SUBSET Filters, NEW P,
         \A f \in S : (\A g \in S : Depth(g) < Depth(f) => g \in P) => f \in P
  PROVE  S \subseteq P
<1> DEFINE N == {n \in 0..MaxDepth + 1 : \A f \in S : Depth(f) < n => f \in P}
<1>1. MaxDepth \in Nat /\ \A f \in S : Depth(f) \in 0..MaxDepth
  BY FiltersAssumption
<1>2. 0 \in N
  BY <1>1
<1>3. ASSUME NEW n \in 0..MaxDepth + 1, n < MaxDepth + 1, n \in N PROVE n + 1 \in N
  <2>1. n + 1 \in 0..MaxDepth + 1
    BY <1>1, <1>3
  <2>2. ASSUME NEW f \in S, Depth(f) < n + 1 PROVE f \in P
    <3>1. \A g \in S : Depth(g) < Depth(f) => Depth(g) < n
      BY <1>1, <1>3, <2>2
    <3> QED
      BY <1>3, <3>1
  <2> QED
    BY <2>1, <2>2
<1>4. \A n \in 0..MaxDepth + 1 : n \in N
  <2>1. MaxDepth + 1 \in Nat
    BY <1>1
  <2> HIDE DEF N
  <2> QED
    BY <1>2, <1>3, <2>1, Induction
<1>5. MaxDepth + 1 \in N
  <2>1. MaxDepth + 1 \in 0..MaxDepth + 1
    BY <1>1
  <2> HIDE DEF N
  <2> QED
    BY <1>4, <2>1
<1> QED
  BY <1>1, <1>5

(* The value of a filter, if m has the values of its children.             *)
Children(m, g) == {m[g.child_filters[i]] : i \in DOMAIN g.child_filters}

MeetsStep(m, g, x) ==
  LET met == Children(m, g)
  IN  IF g.type = "CONJUNCTION_AND" THEN FALSE \notin met
      ELSE IF g.type = "CONJUNCTION_OR" THEN TRUE \in met
      ELSE Passes(g, x)

MeetsBy(m, x) == m = [g \in Filters |-> MeetsStep(m, g, x)]

LEMMA MeetsStepSame ==
  ASSUME NEW m, NEW h, NEW g, NEW x,
         g.type \in Conjunctions =>
           \A i \in DOMAIN g.child_filters : m[g.child_filters[i]] = h[g.child_filters[i]]
  PROVE  MeetsStep(m, g, x) = MeetsStep(h, g, x)
<1>1. CASE g.type \in Conjunctions
  <2>1. Children(m, g) = Children(h, g)
    BY <1>1 DEF Children
  <2> QED
    BY <2>1, Zenon DEF MeetsStep
<1>2. CASE g.type \notin Conjunctions
  BY <1>2 DEF MeetsStep, Conjunctions
<1> QED
  BY <1>1, <1>2

LEMMA MeetsDefined ==
  ASSUME NEW x
  PROVE  \E m : MeetsBy(m, x) /\ \A f \in Filters : Meets(f, x) = m[f]
<1> DEFINE Upto(m, n) == \A g \in Filters : Depth(g) < n => m[g] = MeetsStep(m, g, x)
           N == {n \in 0..MaxDepth + 1 : \E m : m = [g \in Filters |-> m[g]] /\ Upto(m, n)}
<1>1. MaxDepth \in Nat /\ \A f \in Filters : Depth(f) \in 0..MaxDepth
  BY FiltersAssumption
<1>2. 0 \in N
  <2>1. Upto([g \in Filters |-> TRUE], 0)
    BY <1>1
  <2> QED
    BY <1>1, <2>1
<1>3. ASSUME NEW n \in 0..MaxDepth + 1, n < MaxDepth + 1, n \in N PROVE n + 1 \in N
  <2>1. n + 1 \in 0..MaxDepth + 1
    BY <1>1, <1>3
  <2>2. PICK m : Upto(m, n)
    BY <1>3
  <2> DEFINE h == [g \in Filters |-> MeetsStep(m, g, x)]
  <2>3. ASSUME NEW g \in Filters, Depth(g) < n + 1 PROVE h[g] = MeetsStep(h, g, x)
    <3>1. ASSUME g.type \in Conjunctions, NEW i \in DOMAIN g.child_filters
          PROVE  m[g.child_filters[i]] = h[g.child_filters[i]]
      <4>1. g.child_filters[i] \in Filters /\ Depth(g.child_filters[i]) < Depth(g)
        BY <3>1, Tree
      <4>2. Depth(g.child_filters[i]) < n
        BY <1>1, <2>3, <4>1
      <4> QED
        BY <2>2, <4>1, <4>2
    <3>2. MeetsStep(m, g, x) = MeetsStep(h, g, x)
      <4> HIDE DEF h
      <4> QED
        BY <3>1, MeetsStepSame
    <3> QED
      BY <3>2
  <2>4. h = [g \in Filters |-> h[g]]
    OBVIOUS
  <2>5. Upto(h, n + 1)
    <3> HIDE DEF h
    <3> QED
      BY <2>3
  <2> HIDE DEF h, Upto
  <2> QED
    BY <2>1, <2>4, <2>5
<1>4. MaxDepth + 1 \in N
  <2>1. MaxDepth + 1 \in Nat /\ MaxDepth + 1 \in 0..MaxDepth + 1
    BY <1>1
  <2> HIDE DEF N
  <2>2. \A n \in 0..MaxDepth + 1 : n \in N
    BY <1>2, <1>3, <2>1, Induction
  <2> QED
    BY <2>1, <2>2
<1>5. PICK m : m = [g \in Filters |-> m[g]] /\ Upto(m, MaxDepth + 1)
  BY <1>4
<1>6. \A g \in Filters : Depth(g) < MaxDepth + 1
  BY <1>1
<1>7. \A g \in Filters : m[g] = MeetsStep(m, g, x)
  BY <1>5, <1>6
<1>8. MeetsBy(m, x)
  BY <1>5, <1>7 DEF MeetsBy
<1>9. MeetsBy(CHOOSE q : MeetsBy(q, x), x)
  BY <1>8
<1>10. \A f \in Filters : Meets(f, x) = (CHOOSE q : MeetsBy(q, x))[f]
  BY DEF Meets, MeetsBy, MeetsStep, Children
<1> QED
  BY <1>9, <1>10

LEMMA MeetsIs ==
  ASSUME NEW f \in Filters, NEW x
  PROVE  /\ Meets(f, x) \in BOOLEAN
         /\ f.type = "CONJUNCTION_AND" =>
              (Meets(f, x) <=> \A i \in DOMAIN f.child_filters : Meets(f.child_filters[i], x))
         /\ f.type = "CONJUNCTION_OR" =>
              (Meets(f, x) <=> \E i \in DOMAIN f.child_filters : Meets(f.child_filters[i], x))
         /\ f.type \notin Conjunctions => Meets(f, x) = Passes(f, x)
<1>1. PICK m : MeetsBy(m, x) /\ \A g \in Filters : Meets(g, x) = m[g]
  BY MeetsDefined
<1>2. \A g \in Filters : m[g] = MeetsStep(m, g, x)
  BY <1>1 DEF MeetsBy
<1>3. ASSUME NEW g \in Filters PROVE m[g] \in BOOLEAN
  <2>1. CASE g.type \in Conjunctions
    <3>1. CASE g.type = "CONJUNCTION_AND"
      <4>1. m[g] = (FALSE \notin Children(m, g))
        BY <1>2, <3>1 DEF MeetsStep
      <4> QED
        BY <4>1
    <3>2. CASE g.type = "CONJUNCTION_OR"
      <4>1. m[g] = (TRUE \in Children(m, g))
        BY <1>2, <3>2 DEF MeetsStep
      <4> QED
        BY <4>1
    <3> QED
      BY <2>1, <3>1, <3>2 DEF Conjunctions
  <2>2. CASE g.type \notin Conjunctions
    <3>1. m[g] = Passes(g, x)
      BY <1>2, <2>2 DEF MeetsStep, Conjunctions
    <3>2. g.type \in {"CONSTANT_COMPARISON", "IS_NULL", "IS_NOT_NULL"}
      BY <2>2, FiltersAssumption DEF FilterTypes
    <3> QED
      BY <3>1, <3>2 DEF Passes
  <2> QED
    BY <2>1, <2>2
<1>4. f.type \in Conjunctions =>
        \A i \in DOMAIN f.child_filters :
          Meets(f.child_filters[i], x) = m[f.child_filters[i]] /\ m[f.child_filters[i]] \in BOOLEAN
  BY <1>1, <1>3, Tree
<1>5. ASSUME f.type = "CONJUNCTION_AND"
      PROVE  m[f] <=> \A i \in DOMAIN f.child_filters : m[f.child_filters[i]]
  <2>1. f.type \in Conjunctions
    BY <1>5 DEF Conjunctions
  <2>2. m[f] = (FALSE \notin Children(m, f))
    BY <1>2, <1>5 DEF MeetsStep
  <2> QED
    BY <1>4, <2>1, <2>2 DEF Children
<1>6. ASSUME f.type = "CONJUNCTION_OR"
      PROVE  m[f] <=> \E i \in DOMAIN f.child_filters : m[f.child_filters[i]]
  <2>1. f.type \in Conjunctions
    BY <1>6 DEF Conjunctions
  <2>2. m[f] = (TRUE \in Children(m, f))
    BY <1>2, <1>6 DEF MeetsStep
  <2> QED
    BY <1>4, <2>1, <2>2 DEF Children
<1>7. f.type \notin Conjunctions => m[f] = Passes(f, x)
  BY <1>2 DEF MeetsStep, Conjunctions
<1> QED
  BY <1>1, <1>3, <1>4, <1>5, <1>6, <1>7 DEF Conjunctions

-----------------------------------------------------------------------------
(* The clause of a filter, if c has the clauses of its children.           *)
Separator(g) == IF g.type = "CONJUNCTION_AND" THEN AndWord ELSE OrWord

ChildClauses(c, g) == [i \in DOMAIN g.child_filters |-> c[g.child_filters[i]]]

ClauseStep(c, g, column) ==
  IF g.type \in Conjunctions THEN Join(ChildClauses(c, g), Separator(g))
  ELSE Test(column, g)

ClauseBy(c, column) == c = [g \in Filters |-> ClauseStep(c, g, column)]

LEMMA ClauseStepSame ==
  ASSUME NEW c, NEW h, NEW g, NEW column,
         g.type \in Conjunctions =>
           \A i \in DOMAIN g.child_filters : c[g.child_filters[i]] = h[g.child_filters[i]]
  PROVE  ClauseStep(c, g, column) = ClauseStep(h, g, column)
<1>1. CASE g.type \in Conjunctions
  <2>1. ChildClauses(c, g) = ChildClauses(h, g)
    BY <1>1 DEF ChildClauses
  <2> QED
    BY <2>1, Zenon DEF ClauseStep
<1>2. CASE g.type \notin Conjunctions
  BY <1>2 DEF ClauseStep
<1> QED
  BY <1>1, <1>2

LEMMA ClauseDefined ==
  ASSUME NEW column
  PROVE  \E c : ClauseBy(c, column) /\ \A f \in Filters : FilterToGdal(f, column) = c[f]
<1> DEFINE Upto(c, n) ==
             \A g \in Filters : Depth(g) < n => c[g] = ClauseStep(c, g, column)
           N == {n \in 0..MaxDepth + 1 : \E c : c = [g \in Filters |-> c[g]] /\ Upto(c, n)}
<1>1. MaxDepth \in Nat /\ \A f \in Filters : Depth(f) \in 0..MaxDepth
  BY FiltersAssumption
<1>2. 0 \in N
  <2>1. Upto([g \in Filters |-> <<>>], 0)
    BY <1>1
  <2>2. [g \in Filters |-> <<>>] = [g \in Filters |-> [h \in Filters |-> <<>>][g]]
    OBVIOUS
  <2> QED
    BY <1>1, <2>1, <2>2
<1>3. ASSUME NEW n \in 0..MaxDepth + 1, n < MaxDepth + 1, n \in N PROVE n + 1 \in N
  <2>1. n + 1 \in 0..MaxDepth + 1
    BY <1>1, <1>3
  <2>2. PICK c : Upto(c, n)
    BY <1>3
  <2> DEFINE h == [g \in Filters |-> ClauseStep(c, g, column)]
  <2>3. ASSUME NEW g \in Filters, Depth(g) < n + 1 PROVE h[g] = ClauseStep(h, g, column)
    <3>1. ASSUME g.type \in Conjunctions, NEW i \in DOMAIN g.child_filters
          PROVE  c[g.child_filters[i]] = h[g.child_filters[i]]
      <4>1. g.child_filters[i] \in Filters /\ Depth(g.child_filters[i]) < Depth(g)
        BY <3>1, Tree
      <4>2. Depth(g.child_filters[i]) < n
        BY <1>1, <2>3, <4>1
      <4> QED
        BY <2>2, <4>1, <4>2
    <3>2. ClauseStep(c, g, column) = ClauseStep(h, g, column)
      <4> HIDE DEF h
      <4> QED
        BY <3>1, ClauseStepSame
    <3> QED
      BY <3>2
  <2>4. h = [g \in Filters |-> h[g]]
    OBVIOUS
  <2>5. Upto(h, n + 1)
    <3> HIDE DEF h
    <3> QED
      BY <2>3
  <2> HIDE DEF h, Upto
  <2> QED
    BY <2>1, <2>4, <2>5
<1>4. MaxDepth + 1 \in N
  <2>1. MaxDepth + 1 \in Nat /\ MaxDepth + 1 \in 0..MaxDepth + 1
    BY <1>1
  <2> HIDE DEF N
  <2>2. \A n \in 0..MaxDepth + 1 : n \in N
    BY <1>2, <1>3, <2>1, Induction
  <2> QED
    BY <2>1, <2>2
<1>5. PICK c : c = [g \in Filters |-> c[g]] /\ Upto(c, MaxDepth + 1)
  BY <1>4
<1>6. \A g \in Filters : Depth(g) < MaxDepth + 1
  BY <1>1
<1>7. \A g \in Filters : c[g] = ClauseStep(c, g, column)
  BY <1>5, <1>6
<1>8. ClauseBy(c, column)
  BY <1>5, <1>7 DEF ClauseBy
<1>9. ClauseBy(CHOOSE q : ClauseBy(q, column), column)
  BY <1>8
<1>10. \A f \in Filters : FilterToGdal(f, column) = (CHOOSE q : ClauseBy(q, column))[f]
  BY DEF FilterToGdal, ClauseBy, ClauseStep, ChildClauses, Separator
<1> QED
  BY <1>9, <1>10

Clauses(f, column) ==
  [i \in DOMAIN f.child_filters |-> FilterToGdal(f.child_filters[i], column)]

LEMMA ClauseIs ==
  ASSUME NEW f \in Filters, NEW column
  PROVE  /\ f.type \in Conjunctions =>
              FilterToGdal(f, column) = Join(Clauses(f, column), Separator(f))
         /\ f.type \notin Conjunctions => FilterToGdal(f, column) = Test(column, f)
<1>1. PICK c : ClauseBy(c, column) /\ \A g \in Filters : FilterToGdal(g, column) = c[g]
  BY ClauseDefined
<1>2. \A g \in Filters : c[g] = ClauseStep(c, g, column)
  BY <1>1 DEF ClauseBy
<1>3. FilterToGdal(f, column) = ClauseStep(c, f, column)
  BY <1>1, <1>2
<1>4. ASSUME f.type \in Conjunctions PROVE ChildClauses(c, f) = Clauses(f, column)
  <2>1. \A i \in DOMAIN f.child_filters : FilterToGdal(f.child_filters[i], column) = c[f.child_filters[i]]
    BY <1>1, <1>4, Tree
  <2> QED
    BY <2>1 DEF ChildClauses, Clauses
<1>5. f.type \in Conjunctions => FilterToGdal(f, column) = Join(Clauses(f, column), Separator(f))
  BY <1>3, <1>4, Zenon DEF ClauseStep
<1> QED
  BY <1>3, <1>5 DEF ClauseStep

-----------------------------------------------------------------------------
(* The words of clauses about the columns of C.                            *)
Word(C) == [word : {"test"}, column : C, filter : Filters]
             \cup {[word |-> "AND"], [word |-> "OR"]}

LEMMA SeparatorWords ==
  ASSUME NEW C
  PROVE  AndWord \in Seq(Word(C)) /\ OrWord \in Seq(Word(C))
BY DEF AndWord, OrWord, Word

(* What the words of the clause of a filter of a closed set may be.        *)
Closed(S) ==
  \A f \in S : f.type \in Conjunctions => Range(f.child_filters) \subseteq S

WordIn(w, S, column) ==
  \/ w = [word |-> "AND"]
  \/ w = [word |-> "OR"] /\ \E f \in S : f.type = "CONJUNCTION_OR"
  \/ \E f \in S : f.type \notin Conjunctions
                    /\ w = [word |-> "test", column |-> column, filter |-> f]

LEMMA ClosedChildren ==
  ASSUME NEW S \in SUBSET Filters, Closed(S), NEW f \in S, f.type \in Conjunctions
  PROVE  /\ f.child_filters # <<>>
         /\ DOMAIN f.child_filters = 1..Len(f.child_filters) /\ Len(f.child_filters) \in Nat \ {0}
         /\ \A i \in DOMAIN f.child_filters :
              f.child_filters[i] \in S /\ Depth(f.child_filters[i]) < Depth(f)
BY Tree DEF Closed, Range

-----------------------------------------------------------------------------
(* The clause of a filter of a closed set consists of such words.          *)
ClauseWords(f, S, C, column) ==
  /\ FilterToGdal(f, column) \in Seq(Word(C))
  /\ \A w \in Range(FilterToGdal(f, column)) : WordIn(w, S, column)

LEMMA TreeWords ==
  ASSUME NEW S \in SUBSET Filters, Closed(S), NEW C, NEW column \in C
  PROVE  \A f \in S : ClauseWords(f, S, C, column)
<1> DEFINE P == {f \in S : ClauseWords(f, S, C, column)}
<1>1. ASSUME NEW f \in S, \A g \in S : Depth(g) < Depth(f) => g \in P
      PROVE  f \in P
  <2>1. CASE f.type \in Conjunctions
    <3> DEFINE clauses == Clauses(f, column)
    <3>1. \A i \in DOMAIN f.child_filters :
            f.child_filters[i] \in S /\ ClauseWords(f.child_filters[i], S, C, column)
      BY <1>1, <2>1, ClosedChildren
    <3>2. /\ DOMAIN clauses = DOMAIN f.child_filters
          /\ \A i \in DOMAIN clauses : clauses[i] = FilterToGdal(f.child_filters[i], column)
      BY DEF Clauses
    <3>3. clauses \in Seq(Seq(Word(C))) /\ clauses # <<>>
      <4>1. \A i \in DOMAIN f.child_filters : FilterToGdal(f.child_filters[i], column) \in Seq(Word(C))
        BY <3>1 DEF ClauseWords
      <4>2. clauses \in [1..Len(f.child_filters) -> Seq(Word(C))] /\ Len(f.child_filters) \in Nat \ {0}
        BY <2>1, <4>1, ClosedChildren DEF Clauses
      <4> HIDE DEF clauses
      <4> QED
        BY <4>2
    <3>4. Separator(f) \in Seq(Word(C))
          /\ \A w \in Range(Separator(f)) : WordIn(w, S, column)
      <4>1. \A w \in Range(AndWord) : w = [word |-> "AND"]
        BY DEF AndWord, Range
      <4>2. \A w \in Range(OrWord) : w = [word |-> "OR"]
        BY DEF OrWord, Range
      <4>3. f.type # "CONJUNCTION_AND" => f.type = "CONJUNCTION_OR"
        BY <2>1 DEF Conjunctions
      <4> QED
        BY <4>1, <4>2, <4>3, SeparatorWords DEF Separator, WordIn
    <3>5. FilterToGdal(f, column) = Join(clauses, Separator(f))
      BY <2>1, ClauseIs
    <3>6. /\ Join(clauses, Separator(f)) \in Seq(Word(C))
          /\ \A w \in Range(Join(clauses, Separator(f))) :
               w \in Range(Separator(f)) \/ \E i \in DOMAIN clauses : w \in Range(clauses[i])
      <4> HIDE DEF clauses
      <4> QED
        BY <3>3, <3>4, JoinRange
    <3>7. \A w \in Range(FilterToGdal(f, column)) : WordIn(w, S, column)
      <4> HIDE DEF clauses
      <4> QED
        BY <3>1, <3>2, <3>4, <3>5, <3>6 DEF ClauseWords
    <3> QED
      BY <3>5, <3>6, <3>7 DEF ClauseWords
  <2>2. CASE f.type \notin Conjunctions
    <3>1. FilterToGdal(f, column) = <<[word |-> "test", column |-> column, filter |-> f]>>
      BY <2>2, ClauseIs DEF Test
    <3>2. [word |-> "test", column |-> column, filter |-> f] \in Word(C)
      BY DEF Word
    <3>3. WordIn([word |-> "test", column |-> column, filter |-> f], S, column)
      BY <2>2 DEF WordIn
    <3>4. \A w \in Range(FilterToGdal(f, column)) :
            w = [word |-> "test", column |-> column, filter |-> f]
      BY <3>1 DEF Range
    <3>5. FilterToGdal(f, column) \in Seq(Word(C))
      BY <3>1, <3>2
    <3>6. \A w \in Range(FilterToGdal(f, column)) : WordIn(w, S, column)
      BY <3>3, <3>4
    <3> QED
      BY <3>5, <3>6 DEF ClauseWords
  <2> QED
    BY <2>1, <2>2
<1>2. S \subseteq P
  <2> HIDE DEF P
  <2> QED
    BY <1>1, TreeInduction
<1> QED
  BY <1>2

(* Every test of a clause holds of a row.                                  *)
AllHold(words, row) == \A w \in Range(words) : TestHolds(w, row)

(* Joined by AND, clauses hold if each of them does.                       *)
LEMMA JoinHolds ==
  ASSUME NEW W, NEW clauses \in Seq(Seq(W)), clauses # <<>>, AndWord \in Seq(W), NEW row
  PROVE  AllHold(Join(clauses, AndWord), row)
           <=> \A i \in DOMAIN clauses : AllHold(clauses[i], row)
<1>1. \A w \in Range(AndWord) : TestHolds(w, row)
  BY DEF AndWord, Range, TestHolds
<1> QED
  BY <1>1, JoinRange DEF AllHold

(* Where there is no OR, the tests of the clause say what the filter says. *)
LEMMA ConjunctionHolds ==
  ASSUME NEW S \in SUBSET Filters, Closed(S), \A f \in S : f.type # "CONJUNCTION_OR",
         NEW column, NEW row
  PROVE  \A f \in S :
           AllHold(FilterToGdal(f, column), row) <=> Meets(f, ValueOf(row, column))
<1> DEFINE P == {f \in S : AllHold(FilterToGdal(f, column), row)
                              <=> Meets(f, ValueOf(row, column))}
           W == Word({column})
<1>1. ASSUME NEW f \in S, \A g \in S : Depth(g) < Depth(f) => g \in P
      PROVE  f \in P
  <2>1. CASE f.type \in Conjunctions
    <3> DEFINE clauses == Clauses(f, column)
    <3>0. f.type = "CONJUNCTION_AND"
      BY <2>1 DEF Conjunctions
    <3>1. \A i \in DOMAIN f.child_filters :
            f.child_filters[i] \in S /\ f.child_filters[i] \in P
      BY <1>1, <2>1, ClosedChildren
    <3>2. /\ DOMAIN clauses = DOMAIN f.child_filters
          /\ \A i \in DOMAIN clauses : clauses[i] = FilterToGdal(f.child_filters[i], column)
      BY DEF Clauses
    <3>3. clauses \in Seq(Seq(W)) /\ clauses # <<>>
      <4>1. \A i \in DOMAIN f.child_filters : FilterToGdal(f.child_filters[i], column) \in Seq(W)
        BY <3>1, TreeWords DEF ClauseWords
      <4>2. clauses \in [1..Len(f.child_filters) -> Seq(W)] /\ Len(f.child_filters) \in Nat \ {0}
        BY <2>1, <4>1, ClosedChildren DEF Clauses
      <4> HIDE DEF clauses, W
      <4> QED
        BY <4>2
    <3>4. FilterToGdal(f, column) = Join(clauses, AndWord)
      BY <2>1, <3>0, ClauseIs DEF Separator
    <3>5. AllHold(FilterToGdal(f, column), row)
            <=> \A i \in DOMAIN clauses : AllHold(clauses[i], row)
      <4>1. AndWord \in Seq(W)
        BY SeparatorWords
      <4> HIDE DEF clauses, W
      <4> QED
        BY <3>3, <3>4, <4>1, JoinHolds
    <3>6. AllHold(FilterToGdal(f, column), row)
            <=> \A i \in DOMAIN f.child_filters :
                  Meets(f.child_filters[i], ValueOf(row, column))
      <4> HIDE DEF clauses
      <4> QED
        BY <3>1, <3>2, <3>5
    <3> QED
      BY <3>0, <3>6, MeetsIs
  <2>2. CASE f.type \notin Conjunctions
    <3>1. FilterToGdal(f, column) = <<[word |-> "test", column |-> column, filter |-> f]>>
      BY <2>2, ClauseIs DEF Test
    <3>2. Range(FilterToGdal(f, column)) = {[word |-> "test", column |-> column, filter |-> f]}
      BY <3>1 DEF Range
    <3>3. AllHold(FilterToGdal(f, column), row) <=> Passes(f, ValueOf(row, column))
      BY <3>2 DEF AllHold, TestHolds
    <3> QED
      BY <2>2, <3>3, MeetsIs
  <2> QED
    BY <2>1, <2>2
<1>2. S \subseteq P
  <2> HIDE DEF P
  <2> QED
    BY <1>1, TreeInduction
<1> QED
  BY <1>2

-----------------------------------------------------------------------------
(* A filter with no OR in it, one that is a disjunction of such, and one   *)
(* whose constants are spelled without a cast.                             *)
Conjunctive(f) ==
  \E S \in SUBSET Filters :
    f \in S /\ Closed(S) /\ \A g \in S : g.type # "CONJUNCTION_OR"

Disjunctive(f) ==
  \E S \in SUBSET Filters :
    /\ f \in S
    /\ \A g \in S : \/ Conjunctive(g)
                    \/ g.type = "CONJUNCTION_OR" /\ Range(g.child_filters) \subseteq S

Spellable(f) ==
  \E S \in SUBSET Filters :
    f \in S /\ Closed(S) /\ \A g \in S : g.type = "CONSTANT_COMPARISON" => ~g.cast

LEMMA FiltersClosed == Closed(Filters)
BY Tree DEF Closed, Range

(* Every clause is a sequence of words.                                    *)
LEMMA ClauseTyped ==
  ASSUME NEW f \in Filters, NEW C, NEW column \in C
  PROVE  FilterToGdal(f, column) \in Seq(Word(C))
<1>1. Closed(Filters) /\ Filters \in SUBSET Filters
  BY FiltersClosed
<1>2. ClauseWords(f, Filters, C, column)
  BY <1>1, TreeWords
<1> QED
  BY <1>2 DEF ClauseWords

LEMMA ConjunctiveClause ==
  ASSUME NEW f, Conjunctive(f), NEW column, NEW row
  PROVE  /\ f \in Filters
         /\ \A w \in Range(FilterToGdal(f, column)) : w.word # "OR"
         /\ AllHold(FilterToGdal(f, column), row) <=> Meets(f, ValueOf(row, column))
<1>1. PICK S \in SUBSET Filters : f \in S /\ Closed(S) /\ \A g \in S : g.type # "CONJUNCTION_OR"
  BY DEF Conjunctive
<1>2. \A w \in Range(FilterToGdal(f, column)) : WordIn(w, S, column)
  BY <1>1, TreeWords DEF ClauseWords
<1>3. \A w \in Range(FilterToGdal(f, column)) : w.word # "OR"
  BY <1>1, <1>2 DEF WordIn
<1>4. AllHold(FilterToGdal(f, column), row) <=> Meets(f, ValueOf(row, column))
  BY <1>1, ConjunctionHolds
<1> QED
  BY <1>1, <1>3, <1>4

(* A clause without OR selects the rows all its tests hold of.             *)
LEMMA SelectsAllHold ==
  ASSUME NEW W, NEW words \in Seq(W), \A w \in Range(words) : w.word # "OR", NEW row
  PROVE  Selects(words, row) <=> AllHold(words, row)
<1>1. \A k \in DOMAIN words : words[k].word # "OR"
  BY DEF Range
<1>2. (\A k \in DOMAIN words : TestHolds(words[k], row)) <=> AllHold(words, row)
  BY DEF AllHold, Range
<1> QED
  BY <1>1, <1>2, SelectsAll

LEMMA DisjunctiveSelects ==
  ASSUME NEW f, Disjunctive(f), NEW column, NEW row
  PROVE  /\ f \in Filters
         /\ Selects(FilterToGdal(f, column), row) <=> Meets(f, ValueOf(row, column))
<1>1. PICK S \in SUBSET Filters :
        /\ f \in S
        /\ \A g \in S : \/ Conjunctive(g)
                        \/ g.type = "CONJUNCTION_OR" /\ Range(g.child_filters) \subseteq S
  BY DEF Disjunctive
<1> DEFINE P == {g \in S : Selects(FilterToGdal(g, column), row)
                              <=> Meets(g, ValueOf(row, column))}
           W == Word({column})
<1>2. ASSUME NEW g \in S, \A h \in S : Depth(h) < Depth(g) => h \in P
      PROVE  g \in P
  <2>1. CASE Conjunctive(g)
    <3>1. FilterToGdal(g, column) \in Seq(W)
      BY ClauseTyped
    <3>2. Selects(FilterToGdal(g, column), row) <=> AllHold(FilterToGdal(g, column), row)
      <4> HIDE DEF W
      <4> QED
        BY <2>1, <3>1, ConjunctiveClause, SelectsAllHold
    <3> QED
      BY <2>1, <3>2, ConjunctiveClause
  <2>2. CASE g.type = "CONJUNCTION_OR" /\ Range(g.child_filters) \subseteq S
    <3> DEFINE clauses == Clauses(g, column)
    <3>0. g.type \in Conjunctions /\ g \in Filters
      BY <2>2 DEF Conjunctions
    <3>1. \A i \in DOMAIN g.child_filters :
            g.child_filters[i] \in S /\ g.child_filters[i] \in P
      BY <1>2, <2>2, <3>0, Tree DEF Range
    <3>2. /\ DOMAIN clauses = DOMAIN g.child_filters
          /\ \A i \in DOMAIN clauses : clauses[i] = FilterToGdal(g.child_filters[i], column)
      BY DEF Clauses
    <3>3. clauses \in Seq(Seq(W)) /\ clauses # <<>>
      <4>1. \A i \in DOMAIN g.child_filters : FilterToGdal(g.child_filters[i], column) \in Seq(W)
        BY <3>1, ClauseTyped
      <4>2. clauses \in [1..Len(g.child_filters) -> Seq(W)] /\ Len(g.child_filters) \in Nat \ {0}
        BY <3>0, <4>1, Tree DEF Clauses
      <4> HIDE DEF clauses, W
      <4> QED
        BY <4>2
    <3>4. FilterToGdal(g, column) = Join(clauses, OrWord)
      BY <2>2, <3>0, ClauseIs DEF Separator
    <3>5. Selects(FilterToGdal(g, column), row)
            <=> \E i \in DOMAIN clauses : Selects(clauses[i], row)
      <4>1. OrWord \in Seq(W)
        BY SeparatorWords
      <4> HIDE DEF clauses, W
      <4> QED
        BY <3>3, <3>4, <4>1, JoinSelects
    <3>6. Selects(FilterToGdal(g, column), row)
            <=> \E i \in DOMAIN g.child_filters :
                  Meets(g.child_filters[i], ValueOf(row, column))
      <4> HIDE DEF clauses
      <4> QED
        BY <3>1, <3>2, <3>5
    <3> QED
      BY <2>2, <3>0, <3>6, MeetsIs
  <2> QED
    BY <1>1, <2>1, <2>2
<1>3. S \subseteq P
  <2> HIDE DEF P
  <2> QED
    BY <1>2, TreeInduction
<1> QED
  BY <1>1, <1>3

-----------------------------------------------------------------------------
(* An order of a finite set has all of it.                                 *)
LEMMA OrderIsOnto ==
  ASSUME NEW S, IsFiniteSet(S), NEW order \in SetToSeqs(S)
  PROVE  order \in [1..Cardinality(S) -> S] /\ Cardinality(S) \in Nat /\ Range(order) = S
<1>1. Cardinality(S) \in Nat
  BY FS_CardinalityType
<1>2. /\ order \in [1..Cardinality(S) -> S]
      /\ \A i, j \in 1..Cardinality(S) : i # j => order[i] # order[j]
  BY DEF SetToSeqs
<1>3. order \in Injection(1..Cardinality(S), S)
  BY <1>2 DEF Injection, IsInjective
<1>4. Cardinality(1..Cardinality(S)) = Cardinality(S)
  BY <1>1, FS_Interval
<1>5. order \in Surjection(1..Cardinality(S), S)
  BY <1>3, <1>4, FS_Injection
<1> QED
  BY <1>1, <1>2, <1>5 DEF Surjection, Range

-----------------------------------------------------------------------------
(* The clause that BuildClause makes of an order of the filters.           *)
Ordered(order) ==
  [k \in DOMAIN order |-> FilterToGdal(request.filters[order[k]], FilteredColumn(order[k]))]

BuiltOf(words) ==
  \E order \in SetToSeqs(DOMAIN request.filters) : words = Join(Ordered(order), AndWord)

WellAsked ==
  /\ IsFiniteSet(DOMAIN request.filters)
  /\ \A i \in DOMAIN request.filters :
       request.filters[i] \in Filters /\ request.column_ids[i] \in DOMAIN attributes

(* A request whose clause OGR SQL reads as it was meant: no constant needs *)
(* a cast, and an OR stands beside no other filter and inside no AND.      *)
Unambiguous ==
  /\ \A i \in DOMAIN request.filters : Spellable(request.filters[i])
  /\ \/ \A i \in DOMAIN request.filters : Conjunctive(request.filters[i])
     \/ \E i \in DOMAIN request.filters :
          DOMAIN request.filters = {i} /\ Disjunctive(request.filters[i])

LEMMA OrderedClauses ==
  ASSUME WellAsked, NEW order \in SetToSeqs(DOMAIN request.filters)
  PROVE  /\ Ordered(order) \in Seq(Seq(Word(Range(attributes))))
         /\ Range(order) = DOMAIN request.filters
         /\ \A k \in DOMAIN order :
              /\ order[k] \in DOMAIN request.filters
              /\ FilteredColumn(order[k]) \in Range(attributes)
         /\ DOMAIN request.filters # {} => Ordered(order) # <<>>
         /\ DOMAIN request.filters = {} => Ordered(order) = <<>>
<1> DEFINE S == DOMAIN request.filters
           W == Word(Range(attributes))
<1>1. order \in [1..Cardinality(S) -> S] /\ Cardinality(S) \in Nat /\ Range(order) = S
  BY OrderIsOnto DEF WellAsked
<1>2. \A i \in S : FilteredColumn(i) \in Range(attributes)
  BY DEF WellAsked, FilteredColumn, Range
<1>3. \A k \in DOMAIN order :
        FilterToGdal(request.filters[order[k]], FilteredColumn(order[k])) \in Seq(W)
  BY <1>1, <1>2, ClauseTyped DEF WellAsked
<1>4. Ordered(order) \in [1..Cardinality(S) -> Seq(W)]
  BY <1>1, <1>3 DEF Ordered
<1>5. Ordered(order) \in Seq(Seq(W))
  <2> HIDE DEF W, S
  <2> QED
    BY <1>1, <1>4
<1>6. S # {} => Cardinality(S) # 0
  BY FS_EmptySet DEF WellAsked
<1>7. S = {} => Cardinality(S) = 0
  BY FS_EmptySet
<1> QED
  <2>1. \A k \in DOMAIN order : order[k] \in S /\ FilteredColumn(order[k]) \in Range(attributes)
    BY <1>1, <1>2
  <2>2. S # {} => Ordered(order) # <<>>
    <3> HIDE DEF W, S
    <3> QED
      BY <1>1, <1>4, <1>6
  <2>3. S = {} => Ordered(order) = <<>>
    <3> HIDE DEF W, S
    <3> QED
      BY <1>1, <1>4, <1>7
  <2> QED
    BY <1>1, <1>5, <2>1, <2>2, <2>3

(* The value of a filtered column is the one at its place in the row.      *)
LEMMA ValueOfPlace ==
  ASSUME LayerNamesDiffer, WellAsked, NEW i \in DOMAIN request.filters, NEW row
  PROVE  ValueOf(row, FilteredColumn(i)) = row[request.column_ids[i]]
BY DEF LayerNamesDiffer, WellAsked, ValueOf, FilteredColumn

(* Without filters there is no clause, and every row is selected.          *)
LEMMA NothingAsked ==
  ASSUME NEW row
  PROVE  Join(<<>>, AndWord) = <<>> /\ Understood(<<>>) /\ Selects(<<>>, row)
<1>1. Join(<<>>, AndWord) = <<>>
  BY DEF Join, FlattenSeq
<1>2. Understood(<<>>)
  BY DEF Understood
<1>3. <<>> \in Seq(Nat) /\ DOMAIN <<>> = {}
  OBVIOUS
<1> QED
  BY <1>1, <1>2, <1>3, SelectsAll

(* The words of a clause: AND, or words of the filters.                    *)
LEMMA WordsOfClause ==
  ASSUME WellAsked, DOMAIN request.filters # {}, NEW order \in SetToSeqs(DOMAIN request.filters)
  PROVE  /\ Join(Ordered(order), AndWord) \in Seq(Word(Range(attributes)))
         /\ \A w \in Range(Join(Ordered(order), AndWord)) :
              \/ w = [word |-> "AND"]
              \/ \E i \in DOMAIN request.filters :
                   w \in Range(FilterToGdal(request.filters[i], FilteredColumn(i)))
<1> DEFINE W == Word(Range(attributes))
<1>1. Ordered(order) \in Seq(Seq(W)) /\ Ordered(order) # <<>>
  BY OrderedClauses
<1>2. \A k \in DOMAIN Ordered(order) :
        /\ order[k] \in DOMAIN request.filters
        /\ Ordered(order)[k] = FilterToGdal(request.filters[order[k]], FilteredColumn(order[k]))
  BY OrderedClauses DEF Ordered
<1>3. AndWord \in Seq(W)
  BY SeparatorWords
<1>4. \A w \in Range(AndWord) : w = [word |-> "AND"]
  BY DEF AndWord, Range
<1>5. /\ Join(Ordered(order), AndWord) \in Seq(W)
      /\ \A w \in Range(Join(Ordered(order), AndWord)) :
           w \in Range(AndWord) \/ \E k \in DOMAIN Ordered(order) : w \in Range(Ordered(order)[k])
  <2> HIDE DEF W
  <2> QED
    BY <1>1, <1>3, JoinRange
<1> QED
  BY <1>2, <1>4, <1>5

LEMMA ClauseUnderstood ==
  ASSUME WellAsked, Unambiguous, DOMAIN request.filters # {},
         NEW order \in SetToSeqs(DOMAIN request.filters)
  PROVE  Understood(Join(Ordered(order), AndWord))
<1>1. ASSUME NEW i \in DOMAIN request.filters,
             NEW w \in Range(FilterToGdal(request.filters[i], FilteredColumn(i)))
      PROVE  w.word = "test" /\ w.filter.type = "CONSTANT_COMPARISON" => ~w.filter.cast
  <2>1. PICK S \in SUBSET Filters :
          /\ request.filters[i] \in S /\ Closed(S)
          /\ \A g \in S : g.type = "CONSTANT_COMPARISON" => ~g.cast
    BY DEF Unambiguous, Spellable
  <2>2. WordIn(w, S, FilteredColumn(i))
    BY <2>1, TreeWords DEF ClauseWords
  <2> QED
    BY <2>1, <2>2 DEF WordIn
<1>2. \A w \in Range(Join(Ordered(order), AndWord)) :
        w.word = "test" /\ w.filter.type = "CONSTANT_COMPARISON" => ~w.filter.cast
  BY <1>1, WordsOfClause
<1>3. \A k \in DOMAIN Join(Ordered(order), AndWord) :
        Join(Ordered(order), AndWord)[k] \in Range(Join(Ordered(order), AndWord))
  BY DEF Range
<1> QED
  BY <1>2, <1>3 DEF Understood

LEMMA ClauseSelects ==
  ASSUME WellAsked, Unambiguous, LayerNamesDiffer, DOMAIN request.filters # {},
         NEW order \in SetToSeqs(DOMAIN request.filters), NEW row
  PROVE  Selects(Join(Ordered(order), AndWord), row)
           <=> \A i \in DOMAIN request.filters :
                 Meets(request.filters[i], row[request.column_ids[i]])
<1> DEFINE W == Word(Range(attributes))
           words == Join(Ordered(order), AndWord)
<1>1. Ordered(order) \in Seq(Seq(W)) /\ Ordered(order) # <<>>
  BY OrderedClauses
<1>2. /\ Range(order) = DOMAIN request.filters
      /\ DOMAIN Ordered(order) = DOMAIN order
      /\ \A k \in DOMAIN Ordered(order) :
           /\ order[k] \in DOMAIN request.filters
           /\ Ordered(order)[k] = FilterToGdal(request.filters[order[k]], FilteredColumn(order[k]))
  BY OrderedClauses DEF Ordered
<1>3. AndWord \in Seq(W)
  BY SeparatorWords
<1>4. CASE \A i \in DOMAIN request.filters : Conjunctive(request.filters[i])
  <2>1. \A i \in DOMAIN request.filters :
          /\ \A w \in Range(FilterToGdal(request.filters[i], FilteredColumn(i))) : w.word # "OR"
          /\ AllHold(FilterToGdal(request.filters[i], FilteredColumn(i)), row)
               <=> Meets(request.filters[i], row[request.column_ids[i]])
    BY <1>4, ConjunctiveClause, ValueOfPlace
  <2>2. words \in Seq(W) /\ \A w \in Range(words) : w.word # "OR"
    BY <2>1, WordsOfClause
  <2>3. Selects(words, row) <=> AllHold(words, row)
    <3> HIDE DEF W, words
    <3> QED
      BY <2>2, SelectsAllHold
  <2>4. AllHold(words, row) <=> \A k \in DOMAIN Ordered(order) : AllHold(Ordered(order)[k], row)
    <3> HIDE DEF W
    <3> QED
      BY <1>1, <1>3, JoinHolds
  <2>5. (\A k \in DOMAIN Ordered(order) : AllHold(Ordered(order)[k], row))
          <=> \A i \in DOMAIN request.filters :
                AllHold(FilterToGdal(request.filters[i], FilteredColumn(i)), row)
    BY <1>2 DEF Range
  <2> QED
    BY <2>1, <2>3, <2>4, <2>5
<1>5. CASE \E i \in DOMAIN request.filters :
             DOMAIN request.filters = {i} /\ Disjunctive(request.filters[i])
  <2>1. PICK i \in DOMAIN request.filters :
          DOMAIN request.filters = {i} /\ Disjunctive(request.filters[i])
    BY <1>5
  <2>2. Len(Ordered(order)) = 1 /\ order[1] = i
    <3>1. Cardinality(DOMAIN request.filters) = 1
      BY <2>1, FS_Singleton
    <3>2. order \in [1..1 -> {i}]
      BY <2>1, <3>1, OrderIsOnto DEF WellAsked
    <3> QED
      BY <3>2 DEF Ordered
  <2>3. words = Ordered(order)[1]
    <3>1. PICK j : JoinedTo(j, W, Ordered(order), AndWord)
      <4> HIDE DEF W
      <4> QED
        BY <1>1, <1>3, JoinIs
    <3> QED
      BY <2>2, <3>1 DEF JoinedTo
  <2>4. words = FilterToGdal(request.filters[i], FilteredColumn(i))
    <3>1. 1 \in DOMAIN Ordered(order)
      BY <1>1, <2>2
    <3> QED
      BY <1>2, <2>2, <2>3, <3>1
  <2>5. Selects(words, row) <=> Meets(request.filters[i], row[request.column_ids[i]])
    BY <2>1, <2>4, DisjunctiveSelects, ValueOfPlace
  <2> QED
    BY <2>1, <2>5
<1> QED
  BY <1>4, <1>5 DEF Unambiguous

-----------------------------------------------------------------------------
(* The clause is one that BuildClause makes of the request, and the filter *)
(* of the layer is that clause if GDAL understood it.                      *)
PushedInv ==
  /\ WellAsked
  /\ stage \in {"built", "open"} => BuiltOf(clause)
  /\ stage = "open" => filter = IF Understood(clause) THEN clause ELSE <<>>

LEMMA PushedInit == Init => PushedInv
<1> SUFFICES ASSUME Init PROVE PushedInv
  OBVIOUS
<1>1. WellAsked
  BY ReadsAssumption DEF Init, WellAsked
<1>2. stage = "bound"
  BY DEF Init, FilterInit
<1> QED
  BY <1>1, <1>2 DEF PushedInv

LEMMA BuiltKept ==
  ASSUME UNCHANGED <<attributes, request>>, NEW words
  PROVE  /\ BuiltOf(words) <=> BuiltOf(words)'
         /\ WellAsked <=> WellAsked'
<1>1. \A order : Ordered(order)' = Ordered(order)
  BY DEF Ordered, FilteredColumn
<1> QED
  BY <1>1 DEF BuiltOf, WellAsked

LEMMA PushedNext == PushedInv /\ [Next]_vars => PushedInv'
<1> SUFFICES ASSUME PushedInv, [Next]_vars PROVE PushedInv'
  OBVIOUS
<1> USE DEF PushedInv
<1>1. UNCHANGED <<attributes, request>>
  BY DEF Next, vars, NameColumns, PushFilters, Scan, List, NamesStep, KeepName, MeetDuplicate,
         TryNextSuffix, Rename, BuildClause, SetAttributeFilter, namesVars, filterVars
<1>2. WellAsked'
  BY <1>1, BuiltKept
<1>3. ASSUME UNCHANGED filterVars PROVE PushedInv'
  <2>1. UNCHANGED <<stage, clause, filter>>
    BY <1>3 DEF filterVars
  <2>2. BuiltOf(clause) => BuiltOf(clause)'
    BY <1>1, <2>1, BuiltKept DEF BuiltOf, Ordered, FilteredColumn
  <2>3. Understood(clause)' <=> Understood(clause)
    BY <2>1 DEF Understood
  <2> QED
    BY <1>2, <2>1, <2>2, <2>3
<1>4. CASE BuildClause
  <2>1. BuiltOf(clause')
    BY <1>4 DEF BuildClause, BuiltOf, Ordered
  <2>2. BuiltOf(clause)'
    BY <1>1, <2>1 DEF BuiltOf, Ordered, FilteredColumn
  <2> QED
    BY <1>2, <1>4, <2>2 DEF BuildClause
<1>5. CASE SetAttributeFilter
  <2>1. stage = "built" /\ stage' = "open" /\ clause' = clause
        /\ filter' = IF Understood(clause) THEN clause ELSE <<>>
    BY <1>5 DEF SetAttributeFilter
  <2>2. BuiltOf(clause)'
    BY <1>1, <2>1, BuiltKept DEF BuiltOf, Ordered, FilteredColumn
  <2>3. Understood(clause)' <=> Understood(clause)
    BY <2>1 DEF Understood
  <2> QED
    BY <1>2, <2>1, <2>2, <2>3
<1>6. \/ UNCHANGED filterVars \/ BuildClause \/ SetAttributeFilter
  BY DEF Next, vars, NameColumns, PushFilters, Scan, List
<1> QED
  BY <1>3, <1>4, <1>5, <1>6

LEMMA PushedSelects == PushedInv => (Unambiguous => PushdownSelectsTheSameRows)
<1> SUFFICES ASSUME PushedInv, Unambiguous, stage = "open", LayerNamesDiffer, NEW row \in Rows
             PROVE  Selects(filter, row) <=>
                      \A i \in DOMAIN request.filters :
                        Meets(request.filters[i], row[request.column_ids[i]])
  BY DEF PushdownSelectsTheSameRows
<1>1. PICK order \in SetToSeqs(DOMAIN request.filters) : clause = Join(Ordered(order), AndWord)
  BY DEF PushedInv, BuiltOf
<1>2. WellAsked /\ filter = IF Understood(clause) THEN clause ELSE <<>>
  BY DEF PushedInv
<1>3. CASE DOMAIN request.filters = {}
  <2>1. Ordered(order) = <<>>
    BY <1>2, <1>3, OrderedClauses
  <2> QED
    BY <1>1, <1>2, <1>3, <2>1, NothingAsked
<1>4. CASE DOMAIN request.filters # {}
  BY <1>1, <1>2, <1>4, ClauseUnderstood, ClauseSelects
<1> QED
  BY <1>3, <1>4

(* Whatever the columns of the layer and however deep the filters, in      *)
(* whatever order the map gives them and whichever columns are read: GDAL  *)
(* selects with the clause of FilterToGdal the rows that meet the filters, *)
(* if OR stands beside no other filter and no constant needs a cast.       *)
THEOREM PushdownKeepsRows == Spec => [](Unambiguous => PushdownSelectsTheSameRows)
BY PushedInit, PushedNext, PushedSelects, PTL DEF Spec

-----------------------------------------------------------------------------
LEMMA ReadInit == Init => NamesInit /\ ScanInit
BY DEF Init

LEMMA ReadNext == [Next]_vars => [NamesNext]_namesVars /\ [ScanNext]_scanVars
BY DEF Next, vars, NameColumns, PushFilters, Scan, List, NamesNext

(* A query of ST_Read, from its first column to its last chunk, keeps what *)
(* naming and scanning promise apart: InitGlobal comes between them and    *)
(* threads scan while files are listed, and neither disturbs them.         *)
THEOREM ReadKeepsItsParts ==
  Spec => []( /\ DistinctNames /\ RenamedOnlyOnCollision
              /\ BatchesAreOwned /\ OrderPreserved )
<1>1. Init => RenamedInv /\ ScanInv /\ CollectedInv
  BY ReadInit, RenamedInitInv, ScanInitInv, CollectedInit
<1>2. RenamedInv /\ [Next]_vars => RenamedInv'
  BY ReadNext, RenamedNextInv
<1>3. ScanInv /\ [Next]_vars => ScanInv'
  BY ReadNext, ScanNextInv
<1>4. ScanInv /\ CollectedInv /\ [Next]_vars => CollectedInv'
  BY <1>3, ReadNext, CollectedNext
<1>5. RenamedInv => DistinctNames /\ RenamedOnlyOnCollision
  BY DEF RenamedInv, NamesInv
<1>6. ScanInv /\ CollectedInv => BatchesAreOwned /\ OrderPreserved
  BY InvImpliesOwned, InvImpliesOrder
<1> QED
  BY <1>1, <1>2, <1>3, <1>4, <1>5, <1>6, PTL DEF Spec

-----------------------------------------------------------------------------
(* Listings (MetaScan).  What Only keeps of the first n entries is k[n].   *)
KeptStep(k, s, S, n) ==
  IF n = 0 THEN <<>> ELSE IF s[n] \in S THEN Append(k[n - 1], s[n]) ELSE k[n - 1]

KeptBy(k, s, S, last) == k = [n \in 0..last |-> KeptStep(k, s, S, n)]

LEMMA OnlyDefined ==
  ASSUME NEW E, NEW s \in Seq(E), NEW S
  PROVE  \E k : KeptBy(k, s, S, Len(s)) /\ Only(s, S) = k[Len(s)]
<1> DEFINE N == {n \in Nat : \E k : KeptBy(k, s, S, n)}
<1>1. 0 \in N
  <2>1. KeptBy([n \in 0..0 |-> <<>>], s, S, 0)
    BY DEF KeptBy, KeptStep
  <2> QED
    BY <2>1
<1>2. ASSUME NEW n \in Nat, n \in N PROVE n + 1 \in N
  <2>1. PICK k : KeptBy(k, s, S, n)
    BY <1>2
  <2> DEFINE h == [m \in 0..n + 1 |-> IF m = n + 1 THEN KeptStep(k, s, S, m) ELSE k[m]]
  <2>2. ASSUME NEW m \in 0..n + 1 PROVE h[m] = KeptStep(h, s, S, m)
    <3>1. CASE m = n + 1
      <4>1. h[m] = KeptStep(k, s, S, m) /\ h[m - 1] = k[m - 1]
        BY <3>1
      <4> HIDE DEF h
      <4> QED
        BY <4>1 DEF KeptStep
    <3>2. CASE m # n + 1
      <4>1. m \in 0..n /\ h[m] = k[m] /\ (m # 0 => h[m - 1] = k[m - 1])
        BY <3>2
      <4>2. k[m] = KeptStep(k, s, S, m)
        BY <2>1, <4>1 DEF KeptBy
      <4> HIDE DEF h
      <4> QED
        BY <4>1, <4>2 DEF KeptStep
    <3> QED
      BY <3>1, <3>2
  <2>3. KeptBy(h, s, S, n + 1)
    <3>1. h = [m \in 0..n + 1 |-> h[m]]
      OBVIOUS
    <3> HIDE DEF h
    <3> QED
      BY <2>2, <3>1 DEF KeptBy
  <2> QED
    BY <2>3
<1>3. Len(s) \in N
  <2> HIDE DEF N
  <2>1. Len(s) \in Nat /\ \A n \in 0..Len(s) : n < Len(s) /\ n \in N => n + 1 \in N
    BY <1>2
  <2>2. \A n \in 0..Len(s) : n \in N
    BY <1>1, <2>1, Induction
  <2> QED
    BY <2>1, <2>2
<1>4. Only(s, S) = (CHOOSE k : KeptBy(k, s, S, Len(s)))[Len(s)]
  BY DEF Only, KeptBy, KeptStep
<1>5. KeptBy(CHOOSE k : KeptBy(k, s, S, Len(s)), s, S, Len(s))
  BY <1>3
<1> QED
  BY <1>4, <1>5

(* The steps by which Only goes from one entry to the next.                *)
Keeps(k, s, S) ==
  /\ k[0] = <<>>
  /\ \A n \in 0..Len(s) - 1 :
       k[n + 1] = IF s[n + 1] \in S THEN Append(k[n], s[n + 1]) ELSE k[n]
  /\ Only(s, S) = k[Len(s)]

LEMMA OnlyIs ==
  ASSUME NEW E, NEW s \in Seq(E), NEW S
  PROVE  \E k : Keeps(k, s, S)
<1>1. PICK k : KeptBy(k, s, S, Len(s)) /\ Only(s, S) = k[Len(s)]
  BY OnlyDefined
<1>2. Len(s) \in Nat
  OBVIOUS
<1>3. \A n \in 0..Len(s) : k[n] = KeptStep(k, s, S, n)
  BY <1>1 DEF KeptBy
<1>4. k[0] = <<>>
  BY <1>2, <1>3 DEF KeptStep
<1>5. ASSUME NEW n \in 0..Len(s) - 1
      PROVE  k[n + 1] = IF s[n + 1] \in S THEN Append(k[n], s[n + 1]) ELSE k[n]
  <2>1. n + 1 \in 0..Len(s) /\ n + 1 # 0 /\ n + 1 - 1 = n
    BY <1>2
  <2> QED
    BY <1>3, <2>1 DEF KeptStep
<1> QED
  BY <1>1, <1>4, <1>5 DEF Keeps

(* What is kept consists of entries, and of entries of the set.            *)
LEMMA OnlyTyped ==
  ASSUME NEW E, NEW s \in Seq(E), NEW S
  PROVE  Only(s, S) \in Seq(E \cap S)
<1>1. PICK k : Keeps(k, s, S)
  BY OnlyIs
<1>2. Len(s) \in Nat /\ \A n \in 0..Len(s) - 1 : s[n + 1] \in E
  OBVIOUS
<1> DEFINE N == {n \in 0..Len(s) : k[n] \in Seq(E \cap S)}
<1>3. 0 \in N
  <2>1. k[0] \in Seq(E \cap S)
    <3>1. k[0] = <<>>
      BY <1>1 DEF Keeps
    <3> QED
      BY <3>1
  <2> QED
    BY <1>2, <2>1
<1>4. ASSUME NEW n \in 0..Len(s), n < Len(s), n \in N PROVE n + 1 \in N
  <2>1. n \in 0..Len(s) - 1 /\ n + 1 \in 0..Len(s)
    BY <1>2, <1>4
  <2>2. k[n + 1] = IF s[n + 1] \in S THEN Append(k[n], s[n + 1]) ELSE k[n]
    BY <1>1, <2>1 DEF Keeps
  <2>3. k[n + 1] \in Seq(E \cap S)
    BY <1>2, <1>4, <2>1, <2>2
  <2> QED
    BY <2>1, <2>3
<1>5. \A n \in 0..Len(s) : n \in N
  <2> HIDE DEF N
  <2> QED
    BY <1>2, <1>3, <1>4, Induction
<1> QED
  BY <1>1, <1>2, <1>5 DEF Keeps

LEMMA OnlyOne ==
  ASSUME NEW x, NEW S
  PROVE  Only(<<x>>, S) = IF x \in S THEN <<x>> ELSE <<>>
<1>1. <<x>> \in Seq({x}) /\ Len(<<x>>) = 1 /\ <<x>>[1] = x
  OBVIOUS
<1>2. PICK k : Keeps(k, <<x>>, S)
  BY <1>1, OnlyIs
<1>3. k[0] = <<>> /\ k[1] = (IF x \in S THEN Append(k[0], x) ELSE k[0]) /\ Only(<<x>>, S) = k[1]
  <2>1. PICK s : s = <<x>>
    OBVIOUS
  <2>2. Len(s) = 1 /\ s[1] = x /\ Keeps(k, s, S)
    BY <1>1, <1>2, <2>1
  <2>3. 0 \in 0..Len(s) - 1 /\ 0 + 1 = 1
    BY <2>2
  <2>4. k[0 + 1] = IF s[0 + 1] \in S THEN Append(k[0], s[0 + 1]) ELSE k[0]
    BY <2>2, <2>3 DEF Keeps
  <2> QED
    BY <2>1, <2>2, <2>3, <2>4 DEF Keeps
<1> QED
  BY <1>3

LEMMA OnlyNothing ==
  ASSUME NEW S
  PROVE  Only(<<>>, S) = <<>>
<1>1. <<>> \in Seq({}) /\ Len(<<>>) = 0
  OBVIOUS
<1>2. PICK k : Keeps(k, <<>>, S)
  BY <1>1, OnlyIs
<1> QED
  BY <1>1, <1>2 DEF Keeps

(* An entry added to the end.                                              *)
AddsToEnd(u, v, x) == Append(u \o v, x) = u \o Append(v, x)

LEMMA AddedToEnd ==
  ASSUME NEW E, NEW u \in Seq(E), NEW v \in Seq(E), NEW x \in E
  PROVE  AddsToEnd(u, v, x)
BY DEF AddsToEnd

(* What is kept of two sequences, one after the other.                     *)
Distributes(u, v, S) == Only(u \o v, S) = Only(u, S) \o Only(v, S)

LEMMA OnlyConcat ==
  ASSUME NEW E, NEW u \in Seq(E), NEW v \in Seq(E), NEW S
  PROVE  Distributes(u, v, S)
<1>1. PICK w, a, b : w = u \o v /\ a = Len(u) /\ b = Len(v)
  OBVIOUS
<1>2. /\ w \in Seq(E) /\ a \in Nat /\ b \in Nat /\ Len(w) = a + b
      /\ \A n \in 0..a - 1 : w[n + 1] = u[n + 1]
      /\ \A n \in 0..b - 1 : w[a + n + 1] = v[n + 1]
  BY <1>1
<1>3. PICK k : Keeps(k, w, S)
  BY <1>2, OnlyIs
<1>4. PICK p : Keeps(p, u, S)
  BY OnlyIs
<1>5. PICK q : Keeps(q, v, S)
  BY OnlyIs
<1>6. \A n \in 0..a + b - 1 :
        k[n + 1] = IF w[n + 1] \in S THEN Append(k[n], w[n + 1]) ELSE k[n]
  BY <1>2, <1>3 DEF Keeps
<1> DEFINE M == {n \in 0..a : k[n] = p[n]}
           N == {n \in 0..b : q[n] \in Seq(E) /\ k[a + n] = p[a] \o q[n]}
<1>7. \A n \in 0..a : n \in M
  <2>1. 0 \in M
    BY <1>2, <1>3, <1>4 DEF Keeps
  <2>2. ASSUME NEW n \in 0..a, n < a, n \in M PROVE n + 1 \in M
    <3>1. n \in 0..a - 1 /\ n \in 0..a + b - 1 /\ n + 1 \in 0..a
      BY <1>2, <2>2
    <3>2. p[n + 1] = IF u[n + 1] \in S THEN Append(p[n], u[n + 1]) ELSE p[n]
      BY <1>1, <1>4, <3>1 DEF Keeps
    <3>3. k[n + 1] = p[n + 1]
      BY <1>2, <1>6, <2>2, <3>1, <3>2
    <3> QED
      BY <3>1, <3>3
  <2> HIDE DEF M
  <2> QED
    BY <1>2, <2>1, <2>2, Induction
<1>8. p[a] \in Seq(E) /\ Only(u, S) = p[a]
  <2>1. Only(u, S) \in Seq(E \cap S)
    BY OnlyTyped
  <2> QED
    BY <1>1, <1>4, <2>1 DEF Keeps
<1>9. \A n \in 0..b : n \in N
  <2>1. 0 \in N
    <3>1. q[0] = <<>> /\ k[a] = p[a] /\ a + 0 = a
      BY <1>2, <1>5, <1>7 DEF Keeps
    <3>2. p[a] \o <<>> = p[a]
      BY <1>8
    <3>3. q[0] \in Seq(E)
      BY <3>1
    <3>4. k[a + 0] = p[a] \o q[0] /\ 0 \in 0..b
      <4>1. k[a + 0] = k[a]
        BY <3>1
      <4>2. p[a] \o q[0] = p[a]
        BY <3>1, <3>2
      <4> QED
        BY <1>2, <3>1, <4>1, <4>2
    <3> QED
      BY <3>3, <3>4
  <2>2. ASSUME NEW n \in 0..b, n < b, n \in N PROVE n + 1 \in N
    <3>1. n \in 0..b - 1 /\ a + n \in 0..a + b - 1 /\ n + 1 \in 0..b
      BY <1>2, <2>2
    <3>2. q[n + 1] = IF v[n + 1] \in S THEN Append(q[n], v[n + 1]) ELSE q[n]
      BY <1>1, <1>5, <3>1 DEF Keeps
    <3>3. k[a + n + 1] = IF v[n + 1] \in S THEN Append(k[a + n], v[n + 1]) ELSE k[a + n]
      BY <1>2, <1>6, <3>1
    <3>4. v[n + 1] \in E
      BY <1>1, <1>2, <3>1
    <3>5. q[n + 1] \in Seq(E) /\ k[a + n + 1] = p[a] \o q[n + 1]
      <4>1. q[n] \in Seq(E) /\ k[a + n] = p[a] \o q[n]
        BY <2>2
      <4>2. Append(p[a] \o q[n], v[n + 1]) = p[a] \o Append(q[n], v[n + 1])
        <5>1. PICK c, d, x : c = p[a] /\ d = q[n] /\ x = v[n + 1]
          OBVIOUS
        <5>2. AddsToEnd(c, d, x)
          BY <1>8, <3>4, <4>1, <5>1, AddedToEnd
        <5>3. Append(c \o d, x) = c \o Append(d, x)
          BY <5>2, Zenon DEF AddsToEnd
        <5> QED
          BY <5>1, <5>3, Zenon
      <4>3. Append(q[n], v[n + 1]) \in Seq(E)
        BY <3>4, <4>1
      <4> HIDE DEF N
      <4> QED
        BY <3>2, <3>3, <4>1, <4>2, <4>3
    <3>6. a + (n + 1) = a + n + 1
      BY <1>2, <3>1
    <3> QED
      BY <3>1, <3>5, <3>6
  <2> HIDE DEF N
  <2> QED
    BY <1>2, <2>1, <2>2, Induction
<1>10. k[a + b] = p[a] \o q[b]
  <2>1. b \in N
    <3> HIDE DEF N
    <3> QED
      BY <1>2, <1>9
  <2> QED
    BY <2>1
<1> QED
  BY <1>1, <1>2, <1>3, <1>5, <1>8, <1>10 DEF Keeps, Distributes

(* What is kept of what was kept.                                          *)
LEMMA OnlyOnly ==
  ASSUME NEW E, NEW s \in Seq(E), NEW A, NEW B
  PROVE  Only(Only(s, A), B) = Only(s, A \cap B)
<1>1. PICK k : Keeps(k, s, A)
  BY OnlyIs
<1>2. PICK l : Keeps(l, s, A \cap B)
  BY OnlyIs
<1>3. Len(s) \in Nat /\ \A n \in 0..Len(s) - 1 : s[n + 1] \in E
  OBVIOUS
<1> DEFINE N == {n \in 0..Len(s) : k[n] \in Seq(E) /\ l[n] \in Seq(E) /\ Only(k[n], B) = l[n]}
<1>4. 0 \in N
  <2>1. k[0] = <<>> /\ l[0] = <<>>
    BY <1>1, <1>2 DEF Keeps
  <2>2. k[0] \in Seq(E) /\ l[0] \in Seq(E)
    BY <2>1
  <2>3. Only(k[0], B) = l[0]
    BY <2>1, OnlyNothing, Zenon
  <2> QED
    BY <1>3, <2>2, <2>3
<1>5. ASSUME NEW n \in 0..Len(s), n < Len(s), n \in N PROVE n + 1 \in N
  <2>1. n \in 0..Len(s) - 1 /\ n + 1 \in 0..Len(s)
    BY <1>3, <1>5
  <2>2. PICK x \in E : x = s[n + 1]
    BY <1>3, <2>1
  <2>3. k[n + 1] = IF x \in A THEN Append(k[n], x) ELSE k[n]
    BY <1>1, <2>1, <2>2 DEF Keeps
  <2>4. l[n + 1] = IF x \in A \cap B THEN Append(l[n], x) ELSE l[n]
    BY <1>2, <2>1, <2>2 DEF Keeps
  <2>5. Only(Append(k[n], x), B) = IF x \in B THEN Append(l[n], x) ELSE l[n]
    <3>0. k[n] \in Seq(E) /\ l[n] \in Seq(E) /\ Only(k[n], B) = l[n]
      BY <1>5
    <3>1. Append(k[n], x) = k[n] \o <<x>> /\ <<x>> \in Seq(E)
      BY <3>0
    <3>2. Only(k[n] \o <<x>>, B) = l[n] \o Only(<<x>>, B)
      <4>1. PICK u, one : u = k[n] /\ one = <<x>>
        OBVIOUS
      <4>2. u \in Seq(E) /\ one \in Seq(E)
        BY <3>0, <3>1, <4>1
      <4>3. Distributes(u, one, B)
        BY <4>2, OnlyConcat
      <4> QED
        BY <3>0, <4>1, <4>3, Zenon DEF Distributes
    <3>3. l[n] \o <<x>> = Append(l[n], x) /\ l[n] \o <<>> = l[n]
      BY <3>0
    <3>4. Only(<<x>>, B) = IF x \in B THEN <<x>> ELSE <<>>
      BY OnlyOne
    <3> QED
      BY <3>1, <3>2, <3>3, <3>4
  <2>6. Only(k[n + 1], B) = l[n + 1]
    BY <1>5, <2>3, <2>4, <2>5
  <2>7. k[n + 1] \in Seq(E) /\ l[n + 1] \in Seq(E)
    BY <1>5, <2>2, <2>3, <2>4
  <2> QED
    BY <2>1, <2>6, <2>7
<1>6. \A n \in 0..Len(s) : n \in N
  <2> HIDE DEF N
  <2> QED
    BY <1>3, <1>4, <1>5, Induction
<1>7. Only(k[Len(s)], B) = l[Len(s)]
  BY <1>3, <1>6
<1> QED
  BY <1>1, <1>2, <1>7 DEF Keeps

(* If nothing is kept, nothing was there to be kept.                       *)
LEMMA OnlyAll ==
  ASSUME NEW E, NEW s \in Seq(E), NEW S, NEW i \in DOMAIN s, s[i] \in S
  PROVE  Only(s, S) # <<>>
<1> DEFINE u == SubSeq(s, 1, i - 1)
           v == SubSeq(s, i + 1, Len(s))
<1>1. u \in Seq(E) /\ v \in Seq(E) /\ s[i] \in E /\ <<s[i]>> \in Seq(E)
  OBVIOUS
<1>2. s = u \o (<<s[i]>> \o v)
  <2>1. Len(s) \in Nat /\ i \in 1..Len(s) /\ DOMAIN s = 1..Len(s)
    OBVIOUS
  <2>2. /\ Len(u) = i - 1 /\ \A n \in 1..i - 1 : u[n] = s[n]
        /\ Len(v) = Len(s) - i /\ \A n \in 1..Len(s) - i : v[n] = s[i + n]
    BY <2>1
  <2> PICK w : w = <<s[i]>> \o v
    OBVIOUS
  <2>3. w \in Seq(E) /\ Len(w) = 1 + Len(s) - i /\ w[1] = s[i] /\ \A n \in 1..Len(s) - i : w[1 + n] = v[n]
    <3> HIDE DEF u, v
    <3> QED
      BY <1>1, <2>1, <2>2
  <2>4. u \o w \in Seq(E) /\ Len(u \o w) = Len(s)
        /\ \A n \in 1..Len(s) : (u \o w)[n] = IF n <= i - 1 THEN u[n] ELSE w[n - (i - 1)]
    <3> HIDE DEF u, v
    <3>1. Len(u) + Len(w) = Len(s) /\ Len(s) \in Nat
      BY <2>1, <2>2, <2>3
    <3>2. /\ u \o w \in Seq(E) /\ Len(u \o w) = Len(u) + Len(w)
          /\ \A n \in 1..Len(u) + Len(w) : (u \o w)[n] = IF n <= Len(u) THEN u[n] ELSE w[n - Len(u)]
      BY <1>1, <2>3, ConcatProperties, Zenon
    <3> QED
      BY <2>2, <3>1, <3>2, Zenon
  <2>5. ASSUME NEW n \in 1..Len(s) PROVE (u \o w)[n] = s[n]
    <3> HIDE DEF u, v
    <3>1. CASE n <= i - 1
      BY <2>1, <2>2, <2>4, <3>1
    <3>2. CASE n = i
      BY <2>1, <2>3, <2>4, <3>2
    <3>3. CASE n > i
      <4>1. PICK m \in 1..Len(s) - i : n = i + m
        <5>1. n - i \in 1..Len(s) - i /\ n = i + (n - i)
          BY <2>1, <3>3
        <5> QED
          BY <5>1
      <4>2. n - (i - 1) = 1 + m /\ ~(n <= i - 1)
        BY <2>1, <4>1
      <4> QED
        BY <2>2, <2>3, <2>4, <4>1, <4>2
    <3>4. n <= i - 1 \/ n = i \/ n > i
      BY <2>1
    <3> QED
      BY <3>1, <3>2, <3>3, <3>4, Zenon
  <2> HIDE DEF u, v
  <2> QED
    BY <2>4, <2>5, SeqEqual
<1>3. Only(u, S) \in Seq(E \cap S) /\ Only(v, S) \in Seq(E \cap S)
  BY <1>1, OnlyTyped
<1>4. Only(<<s[i]>>, S) = <<s[i]>>
  BY OnlyOne
<1>5. <<s[i]>> \o v \in Seq(E)
  BY <1>1
<1> HIDE DEF u, v
<1>6. Only(s, S) = Only(u, S) \o (<<s[i]>> \o Only(v, S))
  <2> PICK one : one = <<s[i]>>
    OBVIOUS
  <2>1. one \in Seq(E) /\ one \o v \in Seq(E)
    BY <1>1, <1>5
  <2>2. Distributes(u, one \o v, S)
    BY <1>1, <2>1, OnlyConcat, Zenon
  <2>3. Distributes(one, v, S)
    BY <1>1, <2>1, OnlyConcat, Zenon
  <2> QED
    BY <1>2, <1>4, <2>2, <2>3, Zenon DEF Distributes
<1> QED
  BY <1>1, <1>3, <1>6

-----------------------------------------------------------------------------
(* The scan stands at the start of a vector or at the end, and what it has *)
(* listed is what can be opened of the files before.                       *)
Multiple(c) == \E k \in Nat : c = k * STANDARD_VECTOR_SIZE

Found == IF listing.function = "shapefile_meta" THEN Only(listing.entries, Shapes)
         ELSE listing.entries

(* The files that shapefile_meta cannot open end the query instead.        *)
NoVectorIsLost == listing.function = "shapefile_meta" \/ NoVectorLost(listing.entries)

ListingInv ==
  /\ listing.entries \in Seq(Entries)
  /\ outcome \in {"none", "bind", "scan", "failed", "complete"}
  /\ outcome = "bind" => current = 0 /\ listed = <<>>
  /\ outcome \in {"scan", "complete"} =>
       /\ file_list = Found
       /\ current \in 0..Len(Found)
       /\ listed = Only(SubSeq(Found, 1, current), Openable)
  /\ outcome = "scan" => Multiple(current) \/ current = Len(Found)
  /\ outcome = "complete" /\ NoVectorIsLost => current = Len(Found)

(* A piece of a sequence and the piece that comes after it.                *)
Continues(s, a, n) == SubSeq(s, 1, a) \o SubSeq(s, a + 1, a + n) = SubSeq(s, 1, a + n)

LEMMA NextPiece ==
  ASSUME NEW E, NEW s \in Seq(E), NEW a \in Nat, NEW n \in Nat, a + n <= Len(s)
  PROVE  Continues(s, a, n)
<1> PICK u, v, w : u = SubSeq(s, 1, a) /\ v = SubSeq(s, a + 1, a + n) /\ w = SubSeq(s, 1, a + n)
  OBVIOUS
<1>1. u \in Seq(E) /\ Len(u) = a /\ \A k \in 1..a : u[k] = s[k]
  OBVIOUS
<1>2. v \in Seq(E) /\ Len(v) = n /\ \A k \in 1..n : v[k] = s[a + k]
  OBVIOUS
<1>3. w \in Seq(E) /\ Len(w) = a + n /\ \A k \in 1..a + n : w[k] = s[k]
  OBVIOUS
<1>4. /\ u \o v \in Seq(E) /\ Len(u \o v) = Len(u) + Len(v)
      /\ \A k \in 1..Len(u) + Len(v) : (u \o v)[k] = IF k <= Len(u) THEN u[k] ELSE v[k - Len(u)]
  <2>1. u \in Seq(E) /\ v \in Seq(E)
    BY <1>1, <1>2
  <2> QED
    BY <2>1, ConcatProperties, Zenon
<1> PICK z : z = u \o v
  OBVIOUS
<1>5. z \in Seq(E) /\ Len(z) = a + n
      /\ \A k \in 1..a + n : z[k] = IF k <= a THEN u[k] ELSE v[k - a]
  BY <1>1, <1>2, <1>4
<1>6. ASSUME NEW k \in 1..a + n PROVE z[k] = w[k]
  <2>1. CASE k <= a
    BY <1>1, <1>3, <1>5, <2>1
  <2>2. CASE ~(k <= a)
    <3>1. k - a \in 1..n /\ a + (k - a) = k
      BY <2>2
    <3> QED
      BY <1>2, <1>3, <1>5, <2>2, <3>1
  <2> QED
    BY <2>1, <2>2
<1>7. z = w
  BY <1>3, <1>5, <1>6, SeqEqual
<1> QED
  BY <1>7 DEF Continues

LEMMA FoundTyped ==
  ASSUME listing.entries \in Seq(Entries)
  PROVE  Found \in Seq(Entries) /\ Len(Found) \in Nat
<1>1. Only(listing.entries, Shapes) \in Seq(Entries \cap Shapes)
  BY OnlyTyped
<1>2. Only(listing.entries, Shapes) \in Seq(Entries)
  BY <1>1
<1> QED
  BY <1>2 DEF Found

LEMMA ListingInitInv == Init => ListingInv
<1> SUFFICES ASSUME Init PROVE ListingInv
  OBVIOUS
<1>1. ListingInit
  BY DEF Init
<1> QED
  BY <1>1, ListingsAssumption DEF ListingInit, ListingInv

LEMMA BindInv == ListingInv /\ Bind => ListingInv'
<1> SUFFICES ASSUME ListingInv, Bind PROVE ListingInv'
  OBVIOUS
<1>1. listing' = listing /\ Found' = Found /\ file_list' = Found /\ outcome' = "scan"
      /\ current' = 0 /\ listed' = <<>>
  BY DEF Bind, ListingInv, Found
<1>2. Found \in Seq(Entries) /\ Len(Found) \in Nat
  BY FoundTyped DEF ListingInv
<1>3. Multiple(0)
  <2>1. 0 \in Nat /\ 0 = 0 * STANDARD_VECTOR_SIZE
    BY ListingsAssumption
  <2> QED
    BY <2>1 DEF Multiple
<1>4. SubSeq(Found, 1, 0) = <<>>
  BY <1>2
<1>5. listed' = Only(SubSeq(Found, 1, 0), Openable)
  BY <1>1, <1>4, OnlyNothing, Zenon
<1>6. Multiple(current')
  BY <1>1, <1>3, Zenon
<1>7. Multiple(current)'
  BY <1>6 DEF Multiple
<1> QED
  BY <1>1, <1>2, <1>5, <1>7 DEF ListingInv

LEMMA OpenFailsInv == ListingInv /\ OpenFails => ListingInv'
BY DEF OpenFails, ListingInv

(* A call looks at the files of a vector, or at those that are left.       *)
LEMMA WindowIs ==
  ASSUME ListingInv, outcome = "scan"
  PROVE  /\ Window \in Seq(Entries) /\ Len(Window) \in Nat
         /\ current + Len(Window) \in 0..Len(Found)
         /\ SubSeq(Found, 1, current) \in Seq(Entries)
         /\ SubSeq(Found, 1, current) \o Window = SubSeq(Found, 1, current + Len(Window))
         /\ \A n \in 1..Len(Window) : Window[n] = Found[current + n]
         /\ Len(Window) = STANDARD_VECTOR_SIZE \/ current + Len(Window) = Len(Found)
<1>1. Found \in Seq(Entries) /\ Len(Found) \in Nat
  BY FoundTyped DEF ListingInv
<1>2. file_list = Found /\ current \in 0..Len(Found)
  BY DEF ListingInv
<1>3. STANDARD_VECTOR_SIZE \in Nat \ {0}
  BY ListingsAssumption
<1> PICK n : n = IF Len(Found) - current < STANDARD_VECTOR_SIZE
                 THEN Len(Found) - current ELSE STANDARD_VECTOR_SIZE
  OBVIOUS
<1>4. n \in Nat /\ current + n \in 0..Len(Found)
      /\ (n = STANDARD_VECTOR_SIZE \/ current + n = Len(Found))
  BY <1>1, <1>2, <1>3
<1>5. Window = SubSeq(Found, current + 1, current + n)
  BY <1>2 DEF Window
<1> HIDE DEF Found
<1>6. /\ Window \in Seq(Entries) /\ Len(Window) = n
      /\ \A k \in 1..n : Window[k] = Found[current + k]
  BY <1>1, <1>2, <1>4, <1>5
<1>7. SubSeq(Found, 1, current) \in Seq(Entries)
  BY <1>1, <1>2
<1>8. SubSeq(Found, 1, current) \o SubSeq(Found, current + 1, current + n) = SubSeq(Found, 1, current + n)
  <2>1. PICK s, c : s = Found /\ c = current
    OBVIOUS
  <2>2. s \in Seq(Entries) /\ c \in Nat /\ n \in Nat /\ c + n <= Len(s)
    BY <1>1, <1>2, <1>4, <2>1
  <2>3. Continues(s, c, n)
    BY <2>2, NextPiece
  <2> QED
    BY <2>1, <2>3, Zenon DEF Continues
<1> QED
  BY <1>4, <1>5, <1>6, <1>7, <1>8

(* With nothing left of a vector there was no vector left.                 *)
FilesListed == Len(Window) = 0 /\ current = Len(Found)

LEMMA NoFilesLeft ==
  ListingInv /\ Execute /\ Readable = <<>> /\ NoVectorIsLost => FilesListed
<1> SUFFICES ASSUME ListingInv, Execute, Readable = <<>>, NoVectorIsLost
             PROVE  FilesListed
  OBVIOUS
<1>0. outcome = "scan" /\ (listing.function = "shapefile_meta" => Readable = Window)
  BY DEF Execute
<1>1. /\ Window \in Seq(Entries) /\ Len(Window) \in Nat
      /\ current + Len(Window) \in 0..Len(Found)
      /\ \A n \in 1..Len(Window) : Window[n] = Found[current + n]
      /\ Len(Window) = STANDARD_VECTOR_SIZE \/ current + Len(Window) = Len(Found)
  BY <1>0, WindowIs
<1>2. /\ Found \in Seq(Entries) /\ Len(Found) \in Nat /\ current \in 0..Len(Found)
      /\ Multiple(current) \/ current = Len(Found)
  BY <1>0, FoundTyped DEF ListingInv
<1>3. STANDARD_VECTOR_SIZE \in Nat \ {0}
  BY ListingsAssumption
<1>4. CASE listing.function = "shapefile_meta"
  <2>1. Len(Window) = 0
    BY <1>0, <1>4
  <2> HIDE DEF Window, Found
  <2> QED
    BY <1>1, <1>2, <1>3, <2>1 DEF FilesListed
<1>5. CASE listing.function # "shapefile_meta"
  <2>1. ASSUME current # Len(Found) PROVE FALSE
    <3>1. current \in 0..Len(Found) - 1 /\ Multiple(current)
      <4> HIDE DEF Found, Multiple
      <4> QED
        BY <1>2, <2>1
    <3>2. PICK k \in Nat : current = k * STANDARD_VECTOR_SIZE
      BY <3>1 DEF Multiple
    <3>3. NoVectorLost(Found)
      BY <1>5 DEF NoVectorIsLost, Found
    <3> HIDE DEF Found
    <3>4. k \in 0..Len(Found) /\ k * STANDARD_VECTOR_SIZE < Len(Found)
      <4>1. k <= k * STANDARD_VECTOR_SIZE
        BY <1>3
      <4> QED
        BY <1>2, <3>1, <3>2, <4>1
    <3>5. PICK n \in 1..STANDARD_VECTOR_SIZE :
            /\ k * STANDARD_VECTOR_SIZE + n <= Len(Found)
            /\ Found[k * STANDARD_VECTOR_SIZE + n].readable
      BY <3>3, <3>4 DEF NoVectorLost
    <3>6. current + n <= Len(Found) /\ Found[current + n].readable
      BY <3>2, <3>5
    <3>7. n \in 1..Len(Window)
      BY <1>1, <1>2, <1>3, <3>5, <3>6
    <3>8. n \in DOMAIN Window /\ Window[n] \in Openable
      <4> HIDE DEF Window
      <4> QED
        BY <1>1, <3>6, <3>7 DEF Openable
    <3>9. Only(Window, Openable) # <<>>
      <4> HIDE DEF Window
      <4> QED
        BY <1>1, <3>8, OnlyAll
    <3> QED
      BY <3>9 DEF Readable
  <2> HIDE DEF Window, Found
  <2> QED
    BY <1>1, <1>2, <2>1 DEF FilesListed
<1> QED
  BY <1>4, <1>5

LEMMA ExecuteInv == ListingInv /\ Execute => ListingInv'
<1> SUFFICES ASSUME ListingInv, Execute PROVE ListingInv'
  OBVIOUS
<1>1. /\ outcome = "scan" /\ listed' = listed \o Readable /\ current' = Advanced
      /\ outcome' = (IF Readable = <<>> THEN "complete" ELSE "scan")
      /\ listing.function = "shapefile_meta" => Readable = Window
      /\ listing' = listing /\ file_list' = file_list
  BY DEF Execute
<1>2. Found' = Found
  BY <1>1 DEF Found
<1>3. /\ Window \in Seq(Entries) /\ Len(Window) \in Nat
      /\ current + Len(Window) \in 0..Len(Found)
      /\ SubSeq(Found, 1, current) \in Seq(Entries)
      /\ SubSeq(Found, 1, current) \o Window = SubSeq(Found, 1, current + Len(Window))
      /\ Len(Window) = STANDARD_VECTOR_SIZE \/ current + Len(Window) = Len(Found)
  BY <1>1, WindowIs
<1>4. /\ Found \in Seq(Entries) /\ Len(Found) \in Nat /\ current \in 0..Len(Found)
      /\ file_list = Found /\ listing.entries \in Seq(Entries)
      /\ listed = Only(SubSeq(Found, 1, current), Openable)
      /\ Multiple(current) \/ current = Len(Found)
  BY <1>1, FoundTyped DEF ListingInv
<1>5. current' = current + Len(Window)
  BY <1>1 DEF Advanced
<1>6. listed' = Only(SubSeq(Found, 1, current'), Openable)
  <2> PICK u, v : u = SubSeq(Found, 1, current) /\ v = Window
    OBVIOUS
  <2>1. u \in Seq(Entries) /\ v \in Seq(Entries)
    BY <1>3, Zenon
  <2>2. Distributes(u, v, Openable)
    BY <2>1, OnlyConcat, Zenon
  <2>3. listed' = Only(u, Openable) \o Only(v, Openable)
    BY <1>1, <1>4, Zenon DEF Readable
  <2>4. u \o v = SubSeq(Found, 1, current')
    BY <1>3, <1>5, Zenon
  <2> QED
    BY <2>2, <2>3, <2>4, Zenon DEF Distributes
<1>7. Multiple(current') \/ current' = Len(Found)
  <2> HIDE DEF Window, Found
  <2>1. CASE Len(Window) = STANDARD_VECTOR_SIZE /\ Multiple(current)
    <3>1. PICK k \in Nat : current = k * STANDARD_VECTOR_SIZE
      BY <2>1 DEF Multiple
    <3>2. k + 1 \in Nat /\ current' = (k + 1) * STANDARD_VECTOR_SIZE
      BY <1>5, <2>1, <3>1, ListingsAssumption
    <3> QED
      BY <3>2 DEF Multiple
  <2>2. CASE current = Len(Found)
    BY <1>3, <1>4, <1>5, <2>2
  <2>3. CASE current + Len(Window) = Len(Found)
    BY <1>5, <2>3
  <2> QED
    BY <1>3, <1>4, <2>1, <2>2, <2>3
<1>8. Multiple(current)' \/ current' = Len(Found)
  BY <1>7 DEF Multiple
<1>9. Readable = <<>> /\ NoVectorIsLost => current' = Len(Found)
  <2> SUFFICES ASSUME Readable = <<>>, NoVectorIsLost PROVE current' = Len(Found)
    OBVIOUS
  <2>1. Len(Window) = 0 /\ current = Len(Found)
    BY NoFilesLeft DEF FilesListed
  <2> HIDE DEF Window, Found
  <2> QED
    BY <1>4, <1>5, <2>1
<1>10. NoVectorIsLost' = NoVectorIsLost
  BY <1>1, <1>2 DEF NoVectorIsLost, NoVectorLost
<1>11. current' \in 0..Len(Found)
  BY <1>3, <1>5, Zenon
<1> HIDE DEF Found, Readable, Window, NoVectorIsLost, Multiple
<1> QED
  BY <1>1, <1>2, <1>4, <1>6, <1>8, <1>9, <1>10, <1>11 DEF ListingInv

LEMMA ListingKept == ListingInv /\ UNCHANGED listingVars => ListingInv'
BY DEF ListingInv, listingVars, Found, NoVectorIsLost, NoVectorLost

LEMMA ListingNextInv == ListingInv /\ [Next]_vars => ListingInv'
<1> SUFFICES ASSUME ListingInv, [Next]_vars PROVE ListingInv'
  OBVIOUS
<1>1. CASE ListingStep
  BY <1>1, BindInv, OpenFailsInv, ExecuteInv DEF ListingStep
<1>2. CASE UNCHANGED listingVars
  BY <1>2, ListingKept
<1>3. ListingStep \/ UNCHANGED listingVars
  BY DEF Next, NameColumns, PushFilters, Scan, List, vars
<1> QED
  BY <1>1, <1>2, <1>3

(* A completed listing, by what it was asked for.                          *)
LEMMA CompletedIsWhole ==
  ListingInv /\ outcome = "complete" /\ NoVectorIsLost
    => listed = Only(listing.entries, Listable)
<1> SUFFICES ASSUME ListingInv, outcome = "complete", NoVectorIsLost
             PROVE  listed = Only(listing.entries, Listable)
  OBVIOUS
<1>1. listing.entries \in Seq(Entries) /\ current = Len(Found)
      /\ listed = Only(SubSeq(Found, 1, current), Openable)
  BY DEF ListingInv
<1>2. Found \in Seq(Entries)
  BY <1>1, FoundTyped
<1>3. SubSeq(Found, 1, Len(Found)) = Found
  <2> HIDE DEF Found
  <2> QED
    BY <1>2
<1>4. listed = Only(Found, Openable)
  BY <1>1, <1>3, Zenon
<1>5. CASE listing.function = "shapefile_meta"
  <2>1. Found = Only(listing.entries, Shapes) /\ Listable = Shapes \cap Openable
    BY <1>5 DEF Found, Listable
  <2>2. Only(Only(listing.entries, Shapes), Openable) = Only(listing.entries, Shapes \cap Openable)
    BY <1>1, OnlyOnly
  <2> QED
    BY <1>4, <2>1, <2>2, Zenon
<1>6. CASE listing.function # "shapefile_meta"
  BY <1>4, <1>6 DEF Found, Listable
<1> QED
  BY <1>5, <1>6

(* A listing that completes has every file or driver that can be listed,   *)
(* once and in order, and nothing else: for every vector size, unless a    *)
(* whole vector of files cannot be opened (which ends ST_Read_Meta early). *)
THEOREM ListingComplete ==
  Spec => [](outcome = "complete" /\ NoVectorIsLost => listed = Only(listing.entries, Listable))
BY ListingInitInv, ListingNextInv, CompletedIsWhole, PTL DEF Spec

(* A listing that has ended stays as it is.                                *)
LEMMA ListingEnds ==
  ASSUME [Next]_vars
  PROVE  /\ outcome \in {"none", "failed"} => outcome' \in {"none", "failed"}
         /\ outcome = "complete" => outcome' = "complete"
         /\ NoVectorIsLost <=> NoVectorIsLost'
<1>1. (outcome # "complete" /\ outcome # "none" /\ outcome # "failed") \/ UNCHANGED outcome
  BY DEF Next, NameColumns, PushFilters, Scan, List, vars, ListingStep, Bind, OpenFails, Execute, listingVars
<1>2. listing' = listing
  BY DEF Next, NameColumns, PushFilters, Scan, List, vars, ListingStep, Bind, OpenFails, Execute, listingVars
<1> QED
  BY <1>1, <1>2 DEF NoVectorIsLost

(* Of a listing that ends, ListingIsWhole holds; that it does end is about *)
(* fairness and left to TLC.                                               *)
THEOREM EndedListingIsWhole ==
  Spec /\ NoVectorIsLost /\ <>(outcome \in {"none", "failed", "complete"}) => ListingIsWhole
<1>1. outcome \in {"none", "failed", "complete"}
        <=> outcome \in {"none", "failed"} \/ outcome = "complete"
  OBVIOUS
<1>2. [Next]_vars => /\ outcome \in {"none", "failed"} => (outcome \in {"none", "failed"})'
                     /\ outcome = "complete" => (outcome = "complete")'
                     /\ NoVectorIsLost => NoVectorIsLost'
  BY ListingEnds
<1> QED
  BY <1>1, <1>2, ListingComplete, PTL DEF Spec, ListingIsWhole

=============================================================================
