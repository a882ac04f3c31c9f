-------------------------- MODULE VertexArrayProofs ---------------------------
(***************************************************************************)
(* Arrays of vertices that own their words own them alone, for any number  *)
(* of arrays, vertices and dimensions, and wherever the arena extends an   *)
(* allocation in place or moves it.  The arrays therefore behave as        *)
(* values: every operation changes the vertices of the array it is called  *)
(* on, as VertexValues says, and of no other.                              *)
(*                                                                         *)
(* The second half of the module follows an operation from the words it    *)
(* writes to the vertices that are read from them.  "Sound" is what a      *)
(* state of the memory must be for h to become its array: it fits, and     *)
(* the words that others refer to are as they were.  The loops are        *)
(* functions over the vertices written so far; "Written" is the invariant  *)
(* of each, proved by induction over the vertices.                         *)
(***************************************************************************)
EXTENDS VertexArray, TLAPS, SequenceTheorems, WellFoundedInduction

ArrayType == [data : Nat, count : Nat, z : BOOLEAN, m : BOOLEAN, owning : BOOLEAN]

BlobLength == Len(blob.words)

(* The words of the blob come first, so that whatever is allocated lies    *)
(* behind them; an array is within the memory, and owns only such words.   *)
TypeInv ==
  /\ blob \in Blobs
  /\ top \in Nat /\ BlobLength <= top
  /\ arrays \in [Arrays -> ArrayType]

Inv == TypeInv /\ OwnersDisjoint

(* Of an array and its memory: what must be true before it may become h.   *)
Fits(h, s) ==
  /\ s = [mem |-> s.mem, top |-> s.top, array |-> s.array]
  /\ s.top \in Nat /\ BlobLength <= s.top
  /\ s.array \in ArrayType
  /\ Region(s.array) \subseteq 1..s.top
  /\ \A g \in Arrays \ {h} : Region(arrays[g]) \subseteq 1..s.top
  /\ s.array.owning =>
       /\ Region(s.array) \cap 1..BlobLength = {}
       /\ \A g \in Arrays \ {h} : arrays[g].owning =>
            Region(arrays[g]) \cap Region(s.array) = {}

(* No other array refers to the words of the array.                        *)
Alone(h, s) ==
  \A g \in Arrays \ {h} : Region(arrays[g]) \cap Region(s.array) = {}

-----------------------------------------------------------------------------
LEMMA Sizes ==
  ASSUME NEW z \in BOOLEAN, NEW m \in BOOLEAN
  PROVE  VertexSize(z, m) \in {2, 3, 4}
BY DEF VertexSize

LEMMA Multiples ==
  ASSUME NEW k \in {2, 3, 4}, NEW n \in Nat
  PROVE  /\ n * k \in Nat
         /\ n = 0 => n * k = 0
         /\ \A i \in Nat : i < n => i * k \in Nat /\ i * k + k <= n * k
         /\ \A i \in Nat : i <= n => i * k \in Nat /\ i * k <= n * k
         /\ \A i \in Nat : (n + i) * k = n * k + i * k
<1>1. CASE k = 2
  BY <1>1
<1>2. CASE k = 3
  BY <1>2
<1>3. CASE k = 4
  BY <1>3
<1> QED
  BY <1>1, <1>2, <1>3

LEMMA ArraySizes ==
  ASSUME NEW a \in ArrayType
  PROVE  /\ Size(a) \in {2, 3, 4} /\ Words(a) \in Nat
         /\ a.data \in Nat /\ a.count \in Nat
         /\ a.z \in BOOLEAN /\ a.m \in BOOLEAN /\ a.owning \in BOOLEAN
         /\ a.count = 0 => Words(a) = 0
         /\ Region(a) = a.data..(a.data + Words(a) - 1)
<1>1. /\ a.data \in Nat /\ a.count \in Nat
      /\ a.z \in BOOLEAN /\ a.m \in BOOLEAN /\ a.owning \in BOOLEAN
  BY DEF ArrayType
<1>2. Size(a) \in {2, 3, 4}
  BY <1>1, Sizes DEF Size
<1> QED
  BY <1>1, <1>2, Multiples DEF Words, Region

(* An array that fits may be put in the place of h. *)
LEMMA BecomesFits ==
  ASSUME Inv, NEW h \in Arrays, NEW s, Fits(h, s), Become(h, s)
  PROVE  Inv'
<1>1. /\ top' = s.top /\ arrays' = [arrays EXCEPT ![h] = s.array]
      /\ blob' = blob
  BY DEF Become
<1>2. /\ arrays'[h] = s.array
      /\ \A g \in Arrays \ {h} : arrays'[g] = arrays[g]
  BY <1>1 DEF Inv, TypeInv
<1>3. TypeInv'
  BY <1>1 DEF Inv, TypeInv, Fits, BlobLength
<1>4. \A g \in Arrays : Region(arrays'[g]) \subseteq 1..top'
  BY <1>1, <1>2 DEF Fits
<1>5. ASSUME NEW g \in Arrays, arrays'[g].owning
      PROVE  /\ Region(arrays'[g]) \cap 1..Len(blob'.words) = {}
             /\ \A k \in Arrays \ {g} : arrays'[k].owning =>
                  Region(arrays'[k]) \cap Region(arrays'[g]) = {}
  <2>1. CASE g = h
    BY <1>1, <1>2, <1>5, <2>1 DEF Fits, BlobLength
  <2>2. CASE g # h
    <3>1. Region(arrays[g]) \cap 1..Len(blob.words) = {}
      BY <1>2, <1>5, <2>2 DEF Inv, OwnersDisjoint
    <3>2. ASSUME NEW k \in Arrays \ {g}, arrays'[k].owning
          PROVE  Region(arrays'[k]) \cap Region(arrays'[g]) = {}
      <4>1. CASE k = h
        BY <1>2, <1>5, <2>2, <3>2, <4>1 DEF Fits
      <4>2. CASE k # h
        BY <1>2, <1>5, <2>2, <3>2, <4>2 DEF Inv, OwnersDisjoint
      <4> QED
        BY <4>1, <4>2
    <3> QED
      BY <1>1, <1>2, <2>2, <3>1, <3>2
  <2> QED
    BY <2>1, <2>2
<1>6. OwnersDisjoint'
  BY <1>4, <1>5 DEF OwnersDisjoint, Region, Words, Size
<1> QED
  BY <1>3, <1>6 DEF Inv

-----------------------------------------------------------------------------
LEMMA StateFits ==
  ASSUME Inv, NEW h \in Arrays
  PROVE  /\ Fits(h, State(h))
         /\ State(h).top = top /\ State(h).array = arrays[h]
         /\ Exclusive(h) => (arrays[h].owning => Alone(h, State(h)))
<1>1. /\ arrays[h] \in ArrayType /\ top \in Nat /\ BlobLength <= top
  BY DEF Inv, TypeInv
<1>2. /\ State(h) = [mem |-> mem, top |-> top, array |-> arrays[h]]
      /\ State(h).top = top /\ State(h).array = arrays[h] /\ State(h).mem = mem
  BY DEF State
<1>3. Fits(h, State(h))
  BY <1>1, <1>2 DEF Fits, Inv, OwnersDisjoint, BlobLength
<1> QED
  BY <1>2, <1>3 DEF Exclusive, Alone

(* What any operation leaves behind when it takes new memory, ...          *)
LEMMA FreshFits ==
  ASSUME Inv, NEW h \in Arrays, NEW s, Fits(h, s),
         NEW r, r = [mem |-> r.mem, top |-> r.top, array |-> r.array],
         r.array \in ArrayType,
         r.array.data = s.top + 1, r.top = s.top + Words(r.array)
  PROVE  Fits(h, r) /\ Alone(h, r)
<1>1. Words(r.array) \in Nat
  BY ArraySizes
<1>2. Region(r.array) = (s.top + 1)..r.top
  <2>1. r.array.data + Words(r.array) - 1 = r.top
    BY <1>1 DEF Fits
  <2> QED
    BY <2>1, ArraySizes
<1>3. /\ s.top \in Nat /\ r.top \in Nat /\ s.top <= r.top
      /\ BlobLength \in Nat /\ BlobLength <= s.top /\ BlobLength <= r.top
  <2>1. BlobLength \in Nat
    BY BlobsAssumption DEF Inv, TypeInv, BlobLength
  <2> QED
    BY <1>1, <2>1 DEF Fits
<1>4. \A g \in Arrays \ {h} : Region(arrays[g]) \subseteq 1..s.top
  BY DEF Fits
<1>5. Alone(h, r)
  <2> SUFFICES ASSUME NEW g \in Arrays \ {h}, NEW q \in Region(arrays[g]),
                      q \in Region(r.array)
               PROVE  FALSE
    BY DEF Alone
  <2>1. q \in 1..s.top /\ q \in (s.top + 1)..r.top
    BY <1>2, <1>4
  <2> QED
    BY <1>3, <2>1
<1>6. /\ Region(r.array) \subseteq 1..r.top
      /\ \A g \in Arrays \ {h} : Region(arrays[g]) \subseteq 1..r.top
      /\ Region(r.array) \cap 1..BlobLength = {}
  BY SMTT(30), <1>2, <1>3, <1>4
<1> QED
  BY <1>3, <1>5, <1>6 DEF Fits, Alone

(* ... when it keeps the words, ...                                        *)
LEMMA SameWordsFit ==
  ASSUME NEW h \in Arrays, NEW s, Fits(h, s),
         NEW r, r = [mem |-> r.mem, top |-> r.top, array |-> r.array],
         r.array \in ArrayType, r.array.owning = s.array.owning,
         Region(r.array) = Region(s.array), r.top = s.top
  PROVE  Fits(h, r) /\ (Alone(h, s) => Alone(h, r))
BY DEF Fits, Alone

(* ... and when it has no words.                                           *)
LEMMA NoWordsFit ==
  ASSUME NEW h \in Arrays, NEW s, Fits(h, s),
         NEW r, r = [mem |-> r.mem, top |-> r.top, array |-> r.array],
         r.array \in ArrayType, r.array.count = 0, r.top = s.top
  PROVE  Fits(h, r) /\ Alone(h, r)
<1>1. Region(r.array) = {}
  BY ArraySizes
<1> QED
  BY <1>1 DEF Fits, Alone

LEMMA MakeOwningFits ==
  ASSUME Inv, NEW h \in Arrays, NEW s, Fits(h, s), s.array.owning => Alone(h, s)
  PROVE  /\ Fits(h, MakeOwning(s)) /\ Alone(h, MakeOwning(s))
         /\ MakeOwning(s).array.owning
         /\ MakeOwning(s).array.count = s.array.count
         /\ MakeOwning(s).array.z = s.array.z
         /\ MakeOwning(s).array.m = s.array.m
<1> DEFINE r == MakeOwning(s)
<1>0. s.array \in ArrayType /\ s = [mem |-> s.mem, top |-> s.top, array |-> s.array]
      /\ s.top \in Nat
  BY DEF Fits
<1>1. CASE s.array.owning
  BY <1>1 DEF MakeOwning
<1>2. CASE ~s.array.owning /\ s.array.count = 0
  <2>1. r = [s EXCEPT !.array.data = Null, !.array.owning = TRUE]
    BY <1>2 DEF MakeOwning
  <2>2. /\ r.array = [s.array EXCEPT !.data = Null, !.owning = TRUE]
        /\ r.top = s.top /\ r.mem = s.mem
        /\ r = [mem |-> r.mem, top |-> r.top, array |-> r.array]
    BY <1>0, <2>1
  <2>3. /\ r.array \in ArrayType /\ r.array.count = 0 /\ r.array.owning
        /\ r.array.z = s.array.z /\ r.array.m = s.array.m
    BY <1>0, <1>2, <2>2 DEF ArrayType, Null
  <2> HIDE DEF r
  <2>4. Fits(h, r) /\ Alone(h, r)
    BY <2>2, <2>3, NoWordsFit
  <2> QED
    BY <1>2, <2>3, <2>4 DEF r
<1>3. CASE ~s.array.owning /\ s.array.count # 0
  <2>1. /\ r.top = s.top + Words(s.array)
        /\ r.array = [s.array EXCEPT !.data = s.top + 1, !.owning = TRUE]
        /\ r = [mem |-> r.mem, top |-> r.top, array |-> r.array]
    BY <1>3 DEF MakeOwning
  <2> HIDE DEF r
  <2>2. /\ r.array \in ArrayType /\ r.array.data = s.top + 1
        /\ r.array.count = s.array.count /\ r.array.owning
        /\ r.array.z = s.array.z /\ r.array.m = s.array.m
        /\ Words(r.array) = Words(s.array)
    <3>1. PICK p \in Nat : p = s.top + 1
      BY <1>0
    <3>2. PICK a \in ArrayType : a = s.array
      BY <1>0
    <3>3. PICK b : b = r.array
      OBVIOUS
    <3>4. b = [a EXCEPT !.data = p, !.owning = TRUE]
      BY <2>1, <3>1, <3>2, <3>3
    <3>5. /\ b \in ArrayType /\ b.data = p /\ b.owning
          /\ b.count = a.count /\ b.z = a.z /\ b.m = a.m
      BY <3>4 DEF ArrayType
    <3>6. Words(b) = Words(a)
      BY <3>5 DEF Words, Size
    <3> QED
      BY <3>1, <3>2, <3>3, <3>5, <3>6
  <2>3. r.top = s.top + Words(r.array)
    BY <2>1, <2>2
  <2>4. Fits(h, r) /\ Alone(h, r)
    BY <2>1, <2>2, <2>3, FreshFits
  <2> QED
    BY <2>2, <2>4 DEF r
<1> QED
  BY <1>1, <1>2, <1>3

(* Wherever ArenaAllocator::Reallocate puts the words of an array that no  *)
(* other refers to, the array has them alone.                              *)
LEMMA ReallocatedFits ==
  ASSUME Inv, NEW h \in Arrays, NEW s, Fits(h, s), s.array.owning, Alone(h, s),
         NEW new \in Nat, NEW inPlace \in BOOLEAN,
         NEW r, r = [mem |-> r.mem, top |-> r.top, array |-> r.array],
         r.array \in ArrayType, r.array.owning, Words(r.array) = new,
         r.array.data = Reallocated(s, new, inPlace).array.data,
         r.top = Reallocated(s, new, inPlace).top
  PROVE  Fits(h, r) /\ Alone(h, r)
<1> DEFINE old == Words(s.array)
<1>1. /\ s.array \in ArrayType /\ s.top \in Nat
      /\ Region(s.array) \subseteq 1..s.top
      /\ Region(s.array) \cap 1..BlobLength = {}
      /\ \A g \in Arrays \ {h} : Region(arrays[g]) \subseteq 1..s.top
  BY DEF Fits
<1>2. /\ s.array.data \in Nat /\ old \in Nat /\ r.array.data \in Nat
      /\ Region(s.array) = s.array.data..(s.array.data + old - 1)
      /\ Region(r.array) = r.array.data..(r.array.data + new - 1)
  BY <1>1, ArraySizes
<1>3. BlobLength \in Nat /\ BlobLength <= s.top
  BY BlobsAssumption DEF Inv, TypeInv, BlobLength, Fits
<1>4. CASE old = new
  <2>1. r.array.data = s.array.data /\ r.top = s.top
    BY <1>4 DEF Reallocated
  <2>2. Region(r.array) = Region(s.array)
    BY <1>2, <1>4, <2>1
  <2> QED
    BY <2>1, <2>2, SameWordsFit
<1>5. CASE old # new /\ inPlace /\ s.array.data + old - 1 = s.top
  <2>1. r.array.data = s.array.data /\ r.top = s.array.data + new - 1
    <3> DEFINE i == [s EXCEPT !.top = s.array.data + new - 1]
    <3>1. Reallocated(s, new, inPlace) = i
      BY <1>5 DEF Reallocated
    <3>2. i.array = s.array /\ i.top = s.array.data + new - 1
      BY DEF Fits
    <3> QED
      BY <3>1, <3>2
  <2>2. s.array.data > BlobLength /\ s.array.data > 0
    <3>1. CASE old = 0
      BY <1>1, <1>2, <1>3, <1>5, <3>1
    <3>2. CASE old > 0
      <4>1. s.array.data \in Region(s.array)
        BY <1>2, <3>2
      <4>2. s.array.data \in 1..s.top /\ s.array.data \notin 1..BlobLength
        BY <1>1, <4>1
      <4> QED
        BY <1>1, <1>2, <1>3, <4>2
    <3> QED
      BY <1>2, <3>1, <3>2
  <2>3. ASSUME NEW g \in Arrays \ {h}, NEW q \in Region(arrays[g])
        PROVE  q \in 1..s.top /\ q < s.array.data
    <3>1. q \in 1..s.top
      BY <1>1
    <3>2. q \notin Region(s.array)
      BY DEF Alone
    <3> QED
      BY <1>2, <1>5, <3>1, <3>2
  <2>4. r.top \in Nat /\ BlobLength <= r.top
    BY <1>2, <1>3, <2>1, <2>2
  <2>5. \A g \in Arrays \ {h} : Region(arrays[g]) \subseteq 1..r.top
    <3> SUFFICES ASSUME NEW g \in Arrays \ {h}, NEW q \in Region(arrays[g])
                 PROVE  q \in 1..r.top
      OBVIOUS
    <3>1. q \in 1..s.top /\ q < s.array.data
      BY <2>3
    <3> QED
      BY <1>1, <1>2, <2>1, <3>1
  <2>6. Region(r.array) = s.array.data..r.top
    BY <1>2, <2>1
  <2>7. \A g \in Arrays \ {h} : Region(arrays[g]) \cap Region(r.array) = {}
    <3> SUFFICES ASSUME NEW g \in Arrays \ {h}, NEW q \in Region(arrays[g]),
                        q \in Region(r.array)
                 PROVE  FALSE
      OBVIOUS
    <3>1. q \in 1..s.top /\ q < s.array.data
      BY <2>3
    <3>2. PICK d \in Nat : d = s.array.data
      BY <1>2
    <3>3. PICK e \in Nat : e = r.top
      BY <2>4
    <3>4. q \in d..e
      BY <2>6, <3>2, <3>3
    <3>5. q < d /\ q \in 1..s.top
      BY <3>1, <3>2
    <3> QED
      BY <3>4, <3>5
  <2>8. Region(r.array) \subseteq 1..r.top /\ Region(r.array) \cap 1..BlobLength = {}
    <3>1. PICK d \in Nat : d = s.array.data
      BY <1>2
    <3>2. PICK e \in Nat : e = r.top
      BY <2>4
    <3>3. Region(r.array) = d..e /\ d > BlobLength /\ d > 0
      BY <2>2, <2>6, <3>1, <3>2
    <3>4. Region(r.array) \subseteq 1..e
      BY <3>3
    <3>5. \A q \in d..e : q \notin 1..BlobLength
      BY <1>3, <3>3
    <3> QED
      BY <3>2, <3>3, <3>4, <3>5
  <2> QED
    BY <2>4, <2>5, <2>7, <2>8 DEF Fits, Alone
<1>6. CASE old # new /\ ~(inPlace /\ s.array.data + old - 1 = s.top)
  <2>1. r.array.data = s.top + 1 /\ r.top = s.top + new
    <3> DEFINE a == [s.array EXCEPT !.data = s.top + 1]
    <3>1. /\ Reallocated(s, new, inPlace).array = a
          /\ Reallocated(s, new, inPlace).top = s.top + new
      BY <1>6 DEF Reallocated
    <3>2. a.data = s.top + 1
      BY <1>1 DEF ArrayType
    <3> QED
      BY <3>1, <3>2
  <2> QED
    BY <2>1, FreshFits
<1> QED
  BY <1>4, <1>5, <1>6

(* The array that Reallocated returns differs in where its words are. *)
LEMMA ReallocatedArray ==
  ASSUME NEW h \in Arrays, NEW s, Fits(h, s), NEW new \in Nat, NEW inPlace \in BOOLEAN
  PROVE  /\ Reallocated(s, new, inPlace) =
              [mem   |-> Reallocated(s, new, inPlace).mem,
               top   |-> Reallocated(s, new, inPlace).top,
               array |-> Reallocated(s, new, inPlace).array]
         /\ Reallocated(s, new, inPlace).array \in
              {s.array, [s.array EXCEPT !.data = s.top + 1]}
<1>1. s = [mem |-> s.mem, top |-> s.top, array |-> s.array]
  BY DEF Fits
<1>2. CASE Words(s.array) = new
  BY <1>1, <1>2 DEF Reallocated
<1>3. CASE Words(s.array) # new /\ inPlace /\ s.array.data + Words(s.array) - 1 = s.top
  BY <1>1, <1>3 DEF Reallocated
<1>4. CASE Words(s.array) # new /\ ~(inPlace /\ s.array.data + Words(s.array) - 1 = s.top)
  BY <1>4 DEF Reallocated
<1> QED
  BY <1>2, <1>3, <1>4

LEMMA ResizedFits ==
  ASSUME Inv, NEW h \in Arrays, NEW s, Fits(h, s), s.array.owning => Alone(h, s),
         NEW n \in Nat, NEW inPlace \in BOOLEAN
  PROVE  /\ Fits(h, Resized(s, n, inPlace))
         /\ Resized(s, n, inPlace).array.owning => Alone(h, Resized(s, n, inPlace))
<1> DEFINE r   == Resized(s, n, inPlace)
           new == n * Size(s.array)
<1>1. /\ s.array \in ArrayType /\ s.top \in Nat
      /\ s = [mem |-> s.mem, top |-> s.top, array |-> s.array]
  BY DEF Fits
<1>2. Size(s.array) \in {2, 3, 4} /\ new \in Nat
  BY <1>1, ArraySizes, Multiples
<1>3. CASE n = s.array.count
  BY <1>3 DEF Resized
<1>4. CASE n # s.array.count /\ s.array.data # Null /\ s.array.owning
  <2> DEFINE a == Reallocated(s, new, inPlace)
  <2>1. r = [a EXCEPT !.array.count = n]
    BY <1>4 DEF Resized
  <2> HIDE DEF new
  <2>2. /\ a = [mem |-> a.mem, top |-> a.top, array |-> a.array]
        /\ a.array \in {s.array, [s.array EXCEPT !.data = s.top + 1]}
    BY <1>2, ReallocatedArray
  <2> HIDE DEF a
  <2>3. PICK b : b = a.array
    OBVIOUS
  <2>4. PICK p \in Nat : p = s.top + 1
    BY <1>1
  <2>5. PICK c \in ArrayType : c = s.array
    BY <1>1
  <2>6. b \in {c, [c EXCEPT !.data = p]}
    BY <2>2, <2>3, <2>4, <2>5
  <2>7. b \in ArrayType /\ b.z = c.z /\ b.m = c.m /\ b.owning = c.owning
    BY <2>6 DEF ArrayType
  <2>8. /\ r.top = a.top /\ r.array = [b EXCEPT !.count = n]
        /\ r = [mem |-> r.mem, top |-> r.top, array |-> r.array]
    BY <2>1, <2>2, <2>3
  <2> HIDE DEF r
  <2>9. PICK e : e = r.array
    OBVIOUS
  <2>10. e = [b EXCEPT !.count = n]
    BY <2>8, <2>9
  <2>11. /\ e \in ArrayType /\ e.data = b.data /\ e.count = n
         /\ e.z = b.z /\ e.m = b.m /\ e.owning = b.owning
    BY <2>7, <2>10 DEF ArrayType
  <2>12. Words(e) = new
    BY <2>5, <2>7, <2>11 DEF new, Words, Size
  <2>13. /\ r.array \in ArrayType /\ r.array.owning /\ Words(r.array) = new
         /\ r.array.data = a.array.data /\ r.top = a.top
    BY <1>4, <2>3, <2>5, <2>7, <2>8, <2>9, <2>11, <2>12
  <2>14. r = [mem |-> r.mem, top |-> r.top, array |-> r.array]
    BY <2>8
  <2>15. s.array.owning /\ Alone(h, s)
    BY <1>4
  <2>16. new \in Nat
    BY <1>2
  <2>17. Fits(h, r) /\ Alone(h, r)
    BY <2>13, <2>14, <2>15, <2>16, ReallocatedFits DEF a
  <2> QED
    BY <2>17 DEF r
<1>5. CASE n # s.array.count /\ ~(s.array.data # Null /\ s.array.owning)
  <2>1. /\ r.top = s.top + new
        /\ r.array = [s.array EXCEPT !.data = s.top + 1, !.count = n, !.owning = TRUE]
        /\ r = [mem |-> r.mem, top |-> r.top, array |-> r.array]
    BY <1>5 DEF Resized
  <2> HIDE DEF r, new
  <2>2. PICK p \in Nat : p = s.top + 1
    BY <1>1
  <2>3. PICK c \in ArrayType : c = s.array
    BY <1>1
  <2>4. PICK e : e = r.array
    OBVIOUS
  <2>5. e = [c EXCEPT !.data = p, !.count = n, !.owning = TRUE]
    BY <2>1, <2>2, <2>3, <2>4
  <2>6. /\ e \in ArrayType /\ e.data = p /\ e.count = n
        /\ e.z = c.z /\ e.m = c.m
    BY <2>5 DEF ArrayType
  <2>7. Words(e) = new
    BY <2>3, <2>6 DEF new, Words, Size
  <2>8. /\ r.array \in ArrayType /\ r.array.data = s.top + 1
        /\ r.top = s.top + Words(r.array)
    BY <2>1, <2>2, <2>4, <2>6, <2>7
  <2>9. r = [mem |-> r.mem, top |-> r.top, array |-> r.array]
    BY <2>1
  <2>10. Fits(h, r) /\ Alone(h, r)
    BY <2>8, <2>9, FreshFits
  <2> QED
    BY <2>10 DEF r
<1> QED
  BY <1>3, <1>4, <1>5

(* Writing words does not move any.                                        *)
LEMMA MemoryFits ==
  ASSUME NEW h \in Arrays, NEW s, Fits(h, s), NEW words
  PROVE  /\ Fits(h, [s EXCEPT !.mem = words])
         /\ Alone(h, s) => Alone(h, [s EXCEPT !.mem = words])
<1> DEFINE r == [s EXCEPT !.mem = words]
<1>1. /\ s = [mem |-> s.mem, top |-> s.top, array |-> s.array]
      /\ s.array \in ArrayType
  BY DEF Fits
<1>2. /\ r.array = s.array /\ r.top = s.top
      /\ r = [mem |-> r.mem, top |-> r.top, array |-> r.array]
  BY <1>1
<1> HIDE DEF r
<1>3. /\ r.array \in ArrayType /\ r.array.owning = s.array.owning
      /\ Region(r.array) = Region(s.array)
  BY <1>1, <1>2
<1>4. Fits(h, r) /\ (Alone(h, s) => Alone(h, r))
  BY <1>2, <1>3, SameWordsFit
<1> QED
  BY <1>4 DEF r

LEMMA AppendedFits ==
  ASSUME Inv, NEW h \in Arrays, NEW s, Fits(h, s), s.array.owning => Alone(h, s),
         NEW other, other.count \in Nat, NEW inPlace \in BOOLEAN
  PROVE  Fits(h, Appended(s, other, inPlace))
<1> DEFINE old == MakeOwning(s)
           n   == old.array.count + other.count
           r   == Resized(old, n, inPlace)
<1>1. Fits(h, old) /\ Alone(h, old)
  BY MakeOwningFits
<1>2. n \in Nat
  BY <1>1 DEF Fits, ArrayType
<1> HIDE DEF old, n
<1>3. Fits(h, r)
  BY <1>1, <1>2, ResizedFits
<1> HIDE DEF r
<1>4. \A words : Fits(h, [r EXCEPT !.mem = words])
  BY <1>3, MemoryFits
<1>5. PICK words : Appended(s, other, inPlace) = [r EXCEPT !.mem = words]
  BY DEF Appended, r, n, old
<1> QED
  BY <1>4, <1>5

LEMMA FlippedFits ==
  ASSUME NEW h \in Arrays, NEW s, Fits(h, s)
  PROVE  Fits(h, Flipped(s))
<1>1. PICK words : Flipped(s) = [s EXCEPT !.mem = words]
  BY DEF Flipped
<1>2. Fits(h, [s EXCEPT !.mem = words])
  BY MemoryFits
<1> QED
  BY <1>1, <1>2

(* The array with the words and the type that SetVertexType leaves it.     *)
LEMMA RetypedFits ==
  ASSUME Inv, NEW h \in Arrays, NEW s, Fits(h, s), s.array.owning, Alone(h, s),
         NEW z \in BOOLEAN, NEW m \in BOOLEAN, NEW inPlace \in BOOLEAN
  PROVE  Fits(h, Retyped(s, z, m, inPlace)) /\ Alone(h, Retyped(s, z, m, inPlace))
<1> DEFINE r    == Retyped(s, z, m, inPlace)
           size == VertexSize(z, m)
           new  == s.array.count * size
<1>1. /\ s.array \in ArrayType /\ s.top \in Nat
      /\ s = [mem |-> s.mem, top |-> s.top, array |-> s.array]
  BY DEF Fits
<1>2. /\ Size(s.array) \in {2, 3, 4} /\ size \in {2, 3, 4}
      /\ s.array.count \in Nat /\ new \in Nat
  BY <1>1, ArraySizes, Sizes, Multiples
<1> PICK c \in ArrayType : c = s.array
  BY <1>1
<1>3. \A b : b \in {c, [c EXCEPT !.data = s.top + 1]} =>
        LET e == [b EXCEPT !.z = z, !.m = m]
        IN  /\ e \in ArrayType /\ e.owning /\ e.data = b.data
            /\ Words(e) = new
  <2> SUFFICES ASSUME NEW b \in {c, [c EXCEPT !.data = s.top + 1]},
                      NEW e, e = [b EXCEPT !.z = z, !.m = m]
               PROVE  /\ e \in ArrayType /\ e.owning /\ e.data = b.data
                      /\ Words(e) = new
    OBVIOUS
  <2>1. PICK p \in Nat : p = s.top + 1
    BY <1>1
  <2>2. b \in {c, [c EXCEPT !.data = p]}
    BY <2>1
  <2>3. b \in ArrayType /\ b.owning /\ b.count = c.count
    BY <2>2 DEF ArrayType
  <2>4. /\ e \in ArrayType /\ e.owning /\ e.data = b.data
        /\ e.count = c.count /\ e.z = z /\ e.m = m
    BY <2>3 DEF ArrayType
  <2> QED
    BY <2>4 DEF Words, Size
<1>4. CASE size > Size(s.array)
  <2> DEFINE a == Reallocated(s, new, inPlace)
             g == Grown(s, z, m, inPlace)
  <2>1. r = [g EXCEPT !.array.z = z, !.array.m = m]
    BY <1>4 DEF Retyped, Rewritten
  <2>2. /\ a = [mem |-> a.mem, top |-> a.top, array |-> a.array]
        /\ a.array \in {c, [c EXCEPT !.data = s.top + 1]}
    BY <1>2, ReallocatedArray
  <2>3. PICK words : g = [a EXCEPT !.mem = words]
    BY DEF Grown
  <2> HIDE DEF g, a, r
  <2>4. g.array = a.array /\ g.top = a.top
    BY <2>2, <2>3
  <2>5. g = [mem |-> g.mem, top |-> g.top, array |-> g.array]
    BY <2>2, <2>3
  <2>6. /\ r.array = [g.array EXCEPT !.z = z, !.m = m]
        /\ r.top = g.top
        /\ r = [mem |-> r.mem, top |-> r.top, array |-> r.array]
    BY <2>1, <2>5
  <2>7. /\ r.array \in ArrayType /\ r.array.owning
        /\ r.array.data = a.array.data /\ Words(r.array) = new
    BY ZenonT(40), <1>3, <2>2, <2>4, <2>6
  <2>8. r.top = a.top
    BY <2>4, <2>6
  <2>9. Fits(h, r) /\ Alone(h, r)
    BY ZenonT(40), <1>2, <2>6, <2>7, <2>8, ReallocatedFits DEF a
  <2> QED
    BY <2>9 DEF r
<1>5. CASE size = Size(s.array)
  <2> DEFINE e == Exchanged(s, z, m)
  <2>0. r = [e EXCEPT !.array.z = z, !.array.m = m]
    <3>1. ~(size > Size(s.array))
      BY <1>2, <1>5
    <3>2. Rewritten(s, z, m, inPlace) = e
      BY <1>5, <3>1 DEF Rewritten
    <3> QED
      BY <3>2 DEF Retyped
  <2>1. PICK words : e = [s EXCEPT !.mem = words]
    BY DEF Exchanged
  <2> HIDE DEF r, e
  <2>2. /\ r.array = [c EXCEPT !.z = z, !.m = m]
        /\ r.top = s.top
        /\ r = [mem |-> r.mem, top |-> r.top, array |-> r.array]
    BY <1>1, <2>0, <2>1
  <2>3. /\ r.array \in ArrayType /\ r.array.owning
        /\ r.array.data = c.data /\ Words(r.array) = new
    BY <1>3, <2>2
  <2>4. Region(r.array) = Region(s.array)
    BY <1>5, <2>3 DEF Region, Words
  <2>5. Fits(h, r) /\ Alone(h, r)
    BY <2>2, <2>3, <2>4, SameWordsFit
  <2> QED
    BY <2>5 DEF r
<1>6. CASE size < Size(s.array)
  <2> DEFINE e == Shortened(s, z, m)
  <2>0. r = [e EXCEPT !.array.z = z, !.array.m = m]
    <3>1. ~(size > Size(s.array)) /\ size # Size(s.array)
      BY <1>2, <1>6
    <3>2. Rewritten(s, z, m, inPlace) = e
      BY <1>6, <3>1 DEF Rewritten
    <3> QED
      BY <3>2 DEF Retyped
  <2>1. PICK words :
          e = [mem |-> words, top |-> s.top + new,
               array |-> [s.array EXCEPT !.data = s.top + 1]]
    BY DEF Shortened
  <2> HIDE DEF r, e
  <2> DEFINE b == [c EXCEPT !.data = s.top + 1]
  <2>2. /\ r.array = [b EXCEPT !.z = z, !.m = m]
        /\ r.top = s.top + new
        /\ r = [mem |-> r.mem, top |-> r.top, array |-> r.array]
    BY <2>0, <2>1
  <2>3. b.data = s.top + 1
    BY DEF ArrayType
  <2> HIDE DEF b
  <2>4. /\ r.array \in ArrayType /\ r.array.owning
        /\ r.array.data = b.data /\ Words(r.array) = new
    BY <1>3, <2>2 DEF b
  <2>5. r.array.data = s.top + 1 /\ r.top = s.top + Words(r.array)
    BY <2>2, <2>3, <2>4
  <2>6. Fits(h, r) /\ Alone(h, r)
    BY <2>2, <2>4, <2>5, FreshFits
  <2> QED
    BY <2>6 DEF r
<1> QED
  BY <1>2, <1>4, <1>5, <1>6

-----------------------------------------------------------------------------
LEMMA NewArrayFits ==
  ASSUME Inv, NEW h \in Arrays, NEW count \in Nat,
         NEW z \in BOOLEAN, NEW m \in BOOLEAN, NEW words
  PROVE  Fits(h, [mem   |-> words,
                  top   |-> top + count * VertexSize(z, m),
                  array |-> Array(top + 1, count, z, m, TRUE)])
<1>1. VertexSize(z, m) \in {2, 3, 4} /\ count * VertexSize(z, m) \in Nat
  BY Sizes, Multiples
<1>2. top \in Nat /\ Fits(h, State(h)) /\ State(h).top = top
  BY StateFits DEF Inv, TypeInv
<1> DEFINE a == Array(top + 1, count, z, m, TRUE)
           r == [mem   |-> words,
                 top   |-> top + count * VertexSize(z, m),
                 array |-> a]
<1>3. /\ a \in ArrayType /\ a.data = top + 1
      /\ Words(a) = count * VertexSize(z, m)
  BY <1>2 DEF Array, ArrayType, Words, Size
<1> HIDE DEF a
<1>4. /\ r.array = a /\ r.top = top + count * VertexSize(z, m)
      /\ r = [mem |-> r.mem, top |-> r.top, array |-> r.array]
  OBVIOUS
<1> HIDE DEF r
<1>5. /\ r.array \in ArrayType /\ r.array.data = State(h).top + 1
      /\ r.top = State(h).top + Words(r.array)
  BY <1>2, <1>3, <1>4
<1>6. Fits(h, r)
  BY <1>2, <1>4, <1>5, FreshFits
<1> QED
  BY <1>6 DEF r, a

(* An array that owns nothing and refers to words in use fits in anywhere. *)
LEMMA ReferenceFits ==
  ASSUME Inv, NEW h \in Arrays, NEW a \in ArrayType, ~a.owning,
         Region(a) \subseteq 1..top
  PROVE  Fits(h, [State(h) EXCEPT !.array = a])
<1> DEFINE r == [State(h) EXCEPT !.array = a]
<1>1. r = [mem |-> mem, top |-> top, array |-> a]
  BY DEF State
<1>2. r.mem = mem /\ r.top = top /\ r.array = a
  BY <1>1
<1> HIDE DEF r
<1>3. /\ r = [mem |-> r.mem, top |-> r.top, array |-> r.array]
      /\ top \in Nat /\ BlobLength <= top
      /\ \A g \in Arrays : Region(arrays[g]) \subseteq 1..top
  BY <1>1, <1>2 DEF Inv, TypeInv, OwnersDisjoint
<1>4. Fits(h, r)
  BY <1>2, <1>3 DEF Fits
<1> QED
  BY <1>4 DEF r

LEMMA DropKeeps == ASSUME Inv, NEW h \in Arrays, Drop(h) PROVE Inv'
<1>1. PICK z \in BOOLEAN, m \in BOOLEAN :
        Become(h, [State(h) EXCEPT !.array = EmptyArray(z, m)])
  BY DEF Drop
<1> DEFINE a == EmptyArray(z, m)
<1>2. a \in ArrayType /\ ~a.owning /\ a.count = 0
  BY DEF EmptyArray, Array, ArrayType, Null
<1> HIDE DEF a
<1>3. Region(a) = {}
  BY <1>2, ArraySizes
<1>4. Fits(h, [State(h) EXCEPT !.array = a])
  BY <1>2, <1>3, ReferenceFits
<1> QED
  BY <1>1, <1>4, BecomesFits DEF a

LEMMA DeserializeKeeps == ASSUME Inv, NEW h \in Arrays, Deserialize(h) PROVE Inv'
<1> DEFINE a == Array(1, blob.count, blob.z, blob.m, FALSE)
<1>1. /\ blob.count \in Nat /\ blob.z \in BOOLEAN /\ blob.m \in BOOLEAN
      /\ BlobLength \in Nat /\ BlobLength <= top /\ top \in Nat
      /\ blob.count * VertexSize(blob.z, blob.m) <= BlobLength
  BY BlobsAssumption DEF Inv, TypeInv, BlobLength
<1>2. /\ a \in ArrayType /\ ~a.owning /\ a.data = 1
      /\ Words(a) = blob.count * VertexSize(blob.z, blob.m)
  BY <1>1 DEF Array, ArrayType, Words, Size
<1> HIDE DEF a
<1>3. Words(a) \in Nat /\ Region(a) = 1..(1 + Words(a) - 1)
  BY <1>2, ArraySizes
<1>4. Region(a) \subseteq 1..top
  BY <1>1, <1>2, <1>3
<1>5. Fits(h, [State(h) EXCEPT !.array = a])
  BY <1>2, <1>4, ReferenceFits
<1> QED
  BY <1>5, BecomesFits DEF Deserialize, a

LEMMA ReferenceKeeps ==
  ASSUME Inv, NEW h \in Arrays, NEW g \in Arrays, Reference(h, g) PROVE Inv'
<1> PICK c \in ArrayType : c = arrays[g]
  BY DEF Inv, TypeInv
<1>1. /\ Size(c) \in {2, 3, 4} /\ Words(c) \in Nat
      /\ c.data \in Nat /\ c.count \in Nat /\ c.z \in BOOLEAN /\ c.m \in BOOLEAN
      /\ Region(c) = c.data..(c.data + Words(c) - 1)
  BY ArraySizes
<1>2. PICK i \in 0..c.count - 1 :
        Become(h, [State(h) EXCEPT !.array =
                     Array(c.data + i * Size(c), 1, c.z, c.m, FALSE)])
  BY DEF Reference
<1>3. i \in Nat /\ i < c.count
  BY <1>1, <1>2
<1>4. i * Size(c) \in Nat /\ i * Size(c) + Size(c) <= Words(c)
  BY <1>1, <1>3, Multiples DEF Words
<1> DEFINE a == Array(c.data + i * Size(c), 1, c.z, c.m, FALSE)
<1>5. /\ a \in ArrayType /\ ~a.owning /\ a.data = c.data + i * Size(c)
      /\ Size(a) = Size(c) /\ a.count = 1
  BY <1>1, <1>4 DEF Array, ArrayType, Size
<1> HIDE DEF a
<1>6. Region(a) = a.data..(a.data + Size(c) - 1)
  BY <1>1, <1>5, ArraySizes DEF Words
<1>7. Region(a) \subseteq Region(c)
  <2>1. PICK k \in Nat : k = i * Size(c)
    BY <1>4
  <2>2. PICK w \in Nat : w = Words(c)
    BY <1>1
  <2>3. PICK v \in Nat : v = Size(c)
    BY <1>1
  <2>4. /\ Region(a) = c.data + k..(c.data + k + v - 1)
        /\ Region(c) = c.data..(c.data + w - 1)
        /\ k + v <= w /\ c.data \in Nat
    BY <1>1, <1>4, <1>5, <1>6, <2>1, <2>2, <2>3
  <2> QED
    BY SMTT(30), <2>4
<1>8. Region(a) \subseteq 1..top
  BY <1>7 DEF Inv, OwnersDisjoint
<1>9. Fits(h, [State(h) EXCEPT !.array = a])
  BY <1>5, <1>8, ReferenceFits
<1> QED
  BY <1>2, <1>9, BecomesFits DEF a

LEMMA SetVertexTypeKeeps ==
  ASSUME Inv, NEW h \in Arrays, SetVertexType(h) PROVE Inv'
<1>1. PICK z \in BOOLEAN, m \in BOOLEAN :
        \/ \E inPlace \in BOOLEAN :
             Become(h, Retyped(MakeOwning(State(h)), z, m, inPlace))
        \/ UNCHANGED <<blob, top, arrays>>
  BY DEF SetVertexType
<1>2. CASE UNCHANGED <<blob, top, arrays>>
  BY <1>2 DEF Inv, TypeInv, OwnersDisjoint, BlobLength, Region, Words, Size
<1>3. CASE \E inPlace \in BOOLEAN :
             Become(h, Retyped(MakeOwning(State(h)), z, m, inPlace))
  <2>1. PICK inPlace \in BOOLEAN :
          Become(h, Retyped(MakeOwning(State(h)), z, m, inPlace))
    BY <1>3
  <2>2. Fits(h, State(h)) /\ (State(h).array.owning => Alone(h, State(h)))
    BY StateFits DEF SetVertexType
  <2> DEFINE s == MakeOwning(State(h))
  <2>3. Fits(h, s) /\ Alone(h, s) /\ s.array.owning
    BY <2>2, MakeOwningFits
  <2> HIDE DEF s
  <2>4. Fits(h, Retyped(s, z, m, inPlace))
    BY <2>3, RetypedFits
  <2> QED
    BY <2>1, <2>4, BecomesFits DEF s
<1> QED
  BY <1>1, <1>2, <1>3

LEMMA StepKeeps == Inv /\ [Next]_vars => Inv'
<1> SUFFICES ASSUME Inv, [Next]_vars PROVE Inv'
  OBVIOUS
<1>1. ASSUME NEW h \in Arrays, New(h) PROVE Inv'
  <2>1. PICK n \in 1..MaxVertices, z \in BOOLEAN, m \in BOOLEAN :
          Become(h, [mem   |-> Filled(mem, top + 1, n * VertexSize(z, m), Zero),
                     top   |-> top + n * VertexSize(z, m),
                     array |-> Array(top + 1, n, z, m, TRUE)])
    BY <1>1 DEF New
  <2>2. n \in Nat
    BY SizesAssumption
  <2> QED
    BY <2>1, <2>2, NewArrayFits, BecomesFits
<1>2. ASSUME NEW h \in Arrays, Copy(h) PROVE Inv'
  <2> DEFINE n == blob.count * VertexSize(blob.z, blob.m)
  <2>1. Become(h, [mem   |-> Copied(mem, top + 1, 1, n),
                   top   |-> top + n,
                   array |-> Array(top + 1, blob.count, blob.z, blob.m, TRUE)])
    BY <1>2 DEF Copy
  <2>2. blob.count \in Nat /\ blob.z \in BOOLEAN /\ blob.m \in BOOLEAN
    BY BlobsAssumption DEF Inv, TypeInv
  <2> QED
    BY <2>1, <2>2, NewArrayFits, BecomesFits
<1>3. ASSUME NEW h \in Arrays, Resize(h) PROVE Inv'
  <2>1. PICK n \in 0..MaxVertices, inPlace \in BOOLEAN :
          Become(h, Resized(State(h), n, inPlace))
    BY <1>3 DEF Resize
  <2>2. n \in Nat
    BY SizesAssumption
  <2>3. Fits(h, State(h)) /\ (State(h).array.owning => Alone(h, State(h)))
    BY <1>3, StateFits DEF Resize
  <2>4. Fits(h, Resized(State(h), n, inPlace))
    BY <2>2, <2>3, ResizedFits
  <2> QED
    BY <2>1, <2>4, BecomesFits
<1>4. ASSUME NEW h \in Arrays, FlipCoordinates(h) PROVE Inv'
  <2>1. Become(h, Flipped(MakeOwning(State(h))))
    BY <1>4 DEF FlipCoordinates
  <2>2. Fits(h, State(h)) /\ (State(h).array.owning => Alone(h, State(h)))
    BY <1>4, StateFits DEF FlipCoordinates
  <2>3. Fits(h, Flipped(MakeOwning(State(h))))
    BY <2>2, MakeOwningFits, FlippedFits
  <2> QED
    BY <2>1, <2>3, BecomesFits
<1>5. ASSUME NEW h \in Arrays, NEW g \in Arrays, AppendArray(h, g) PROVE Inv'
  <2>1. PICK inPlace \in BOOLEAN :
          Become(h, Appended(State(h), arrays[g], inPlace))
    BY <1>5 DEF AppendArray
  <2>2. Fits(h, State(h)) /\ (State(h).array.owning => Alone(h, State(h)))
    BY <1>5, StateFits DEF AppendArray
  <2>3. arrays[g].count \in Nat
    BY DEF Inv, TypeInv, ArrayType
  <2>4. Fits(h, Appended(State(h), arrays[g], inPlace))
    BY <2>2, <2>3, AppendedFits
  <2> QED
    BY <2>1, <2>4, BecomesFits
<1>6. CASE UNCHANGED vars
  BY <1>6 DEF vars, Inv, TypeInv, OwnersDisjoint, BlobLength, Region, Words, Size
<1>7. CASE Stopped
  BY <1>6, <1>7 DEF Stopped
<1> QED
  BY <1>1, <1>2, <1>3, <1>4, <1>5, <1>6, <1>7,
     DropKeeps, DeserializeKeeps, ReferenceKeeps, SetVertexTypeKeeps DEF Next

LEMMA InitKeeps == Init => Inv
<1> SUFFICES ASSUME Init PROVE Inv
  OBVIOUS
<1>1. /\ blob \in Blobs /\ top = BlobLength /\ top \in Nat
      /\ arrays = [h \in Arrays |-> EmptyArray(FALSE, FALSE)]
  BY BlobsAssumption DEF Init, BlobLength
<1>2. EmptyArray(FALSE, FALSE) \in ArrayType
  BY DEF EmptyArray, Array, ArrayType, Null
<1>3. TypeInv
  <2>1. arrays \in [Arrays -> ArrayType]
    BY <1>1, <1>2
  <2>2. BlobLength \in Nat /\ BlobLength <= BlobLength
    BY <1>1
  <2>3. BlobLength <= top
    BY <1>1, <2>2
  <2> QED
    BY <1>1, <2>1, <2>3 DEF TypeInv
<1>4. \A h \in Arrays : ~arrays[h].owning /\ arrays[h].count = 0
  BY <1>1 DEF EmptyArray, Array
<1>5. \A h \in Arrays : Region(arrays[h]) = {}
  <2> SUFFICES ASSUME NEW h \in Arrays PROVE Region(arrays[h]) = {}
    OBVIOUS
  <2>1. PICK a \in ArrayType : a = arrays[h]
    BY <1>3 DEF TypeInv
  <2>2. a.data \in Nat /\ Region(a) = a.data..(a.data + 0 - 1)
    BY <1>4, <2>1, ArraySizes
  <2> QED
    BY <2>1, <2>2
<1> QED
  BY <1>3, <1>4, <1>5 DEF Inv, OwnersDisjoint

(* Whatever arrays are created, shared, appended to, resized, given other  *)
(* dimensions and flipped, in any order and however often: each lies in    *)
(* the memory in use, and the words of an array that owns them are neither *)
(* the query's nor another owner's, so that a write through it changes     *)
(* neither (VertexArray, vertex_vector.cpp).                               *)
THEOREM WordsOwnedOnce == Spec => []OwnersDisjoint
<1>1. Inv => OwnersDisjoint
  BY DEF Inv
<1> QED
  BY <1>1, InitKeeps, StepKeeps, PTL DEF Spec

-----------------------------------------------------------------------------
(* The word of a dimension of vertex i, counted from 0.                    *)
Place(a, i, d) == i * Size(a) + Offset(d, a.z)

Word(memory, a, i, d) == memory[a.data + Place(a, i, d)]

GivenValue == Read(blob.words, Array(1, blob.count, blob.z, blob.m, FALSE))
ArrayValues == [h \in Arrays |-> Read(mem, arrays[h])]

(* Of the words of a memory. *)
Memory(words) == DOMAIN words = 1..ArenaSize

(* What a copy of words, or a write of one, leaves where it was and what   *)
(* it puts at the n places from "to" on.                                   *)
Same(after, memory, places) == \A p \in places : after[p] = memory[p]
Moved(after, to, memory, from, n) ==
  \A k \in Nat : k < n => after[to + k] = memory[from + k]
Holds(after, to, n, word) == \A k \in Nat : k < n => after[to + k] = word
HoldsFrom(after, to, first, n, word) ==
  \A k \in Nat : first <= k /\ k < n => after[to + k] = word

(* Of arrays whose vertices have the same dimensions, and some words.      *)
SameType(a, b) == a.z = b.z /\ a.m = b.m
Shares(memory, a, first, other, b, n) ==
  \A i \in 1..n : ReadVertices(memory, a)[first + i] = ReadVertices(other, b)[i]

Joined(e, f, g) == e = f \o g

(* What the memory holds for others than h.                                *)
Elsewhere(h) == 1..BlobLength \cup UNION {Region(arrays[g]) : g \in Arrays \ {h}}

MemoryInv ==
  /\ Memory(mem) /\ top <= ArenaSize
  /\ \A p \in 1..BlobLength : mem[p] = blob.words[p]

(* An operation on h has left what others have.                            *)
Sound(h, s) ==
  /\ Fits(h, s)
  /\ Memory(s.mem) /\ s.top <= ArenaSize
  /\ Same(s.mem, mem, Elsewhere(h))

LEMMA OffsetIs ==
  ASSUME NEW z \in BOOLEAN, NEW m \in BOOLEAN, NEW d \in Values!Dims(z, m)
  PROVE  Offset(d, z) \in Nat /\ Offset(d, z) < VertexSize(z, m)
BY DEF Values!Dims, Offset, VertexSize

LEMMA PlaceIs ==
  ASSUME NEW a \in ArrayType, NEW i \in Nat, i < a.count, NEW d \in Values!Dims(a.z, a.m)
  PROVE  /\ Place(a, i, d) \in Nat /\ Place(a, i, d) < Words(a)
         /\ a.data + Place(a, i, d) \in Region(a)
         /\ a.data + i * Size(a) + Offset(d, a.z) = a.data + Place(a, i, d)
<1>1. /\ Size(a) \in {2, 3, 4} /\ Words(a) \in Nat /\ a.data \in Nat /\ a.count \in Nat
      /\ a.z \in BOOLEAN /\ a.m \in BOOLEAN
      /\ Region(a) = a.data..(a.data + Words(a) - 1)
  BY ArraySizes
<1>2. Offset(d, a.z) \in Nat /\ Offset(d, a.z) < Size(a)
  BY <1>1, OffsetIs DEF Size
<1>3. i * Size(a) \in Nat /\ i * Size(a) + Size(a) <= Words(a)
  BY <1>1, Multiples DEF Words
<1> PICK k \in Nat, o \in Nat, v \in Nat, w \in Nat, q \in Nat :
      k = i * Size(a) /\ o = Offset(d, a.z) /\ v = Size(a) /\ w = Words(a) /\ q = a.data
  BY <1>1, <1>2, <1>3
<1>4. k + v <= w /\ o < v
  BY Zenon, <1>2, <1>3
<1>5. k + o \in Nat /\ k + o < w /\ q + (k + o) \in q..(q + w - 1) /\ q + k + o = q + (k + o)
  BY <1>4
<1> QED
  BY Zenon, <1>1, <1>5 DEF Place

LEMMA ReadIs ==
  ASSUME NEW memory, NEW a \in ArrayType
  PROVE  /\ Read(memory, a) = [z |-> a.z, m |-> a.m, vertices |-> ReadVertices(memory, a)]
         /\ ReadVertices(memory, a) = [i \in 1..a.count |->
              [d \in Values!Dims(a.z, a.m) |-> Word(memory, a, i - 1, d)]]
<1>1. ASSUME NEW i \in 1..a.count, NEW d \in Values!Dims(a.z, a.m)
      PROVE  memory[a.data + (i - 1) * Size(a) + Offset(d, a.z)] = Word(memory, a, i - 1, d)
  <2>1. a.count \in Nat
    BY DEF ArrayType
  <2>2. i - 1 \in Nat /\ i - 1 < a.count
    BY <2>1
  <2>3. a.data + (i - 1) * Size(a) + Offset(d, a.z) = a.data + Place(a, i - 1, d)
    BY Zenon, <2>2, PlaceIs
  <2> QED
    BY Zenon, <2>3 DEF Word
<1>2. ReadVertices(memory, a) = [i \in 1..a.count |-> [d \in Values!Dims(a.z, a.m) |->
        memory[a.data + (i - 1) * Size(a) + Offset(d, a.z)]]]
  BY DEF ReadVertices, Values!Dims
<1> QED
  BY Zenon, <1>1, <1>2 DEF Read

LEMMA RegionIs ==
  ASSUME NEW a \in ArrayType
  PROVE  /\ \A k \in Nat : k < Words(a) => a.data + k \in Region(a)
         /\ a.data \in Nat /\ Words(a) \in Nat
<1>1. /\ Words(a) \in Nat /\ a.data \in Nat
      /\ Region(a) = a.data..(a.data + Words(a) - 1)
  BY ArraySizes
<1>2. \A q, w \in Nat : \A k \in Nat : k < w => q + k \in q..(q + w - 1)
  OBVIOUS
<1> QED
  BY Zenon, <1>1, <1>2

(* Two arrays with the same words have the same vertices.                  *)
LEMMA SameRead ==
  ASSUME NEW a \in ArrayType, NEW b \in ArrayType, NEW memory, NEW other,
         a.count = b.count, a.z = b.z, a.m = b.m,
         Moved(memory, a.data, other, b.data, Words(a))
  PROVE  Read(memory, a) = Read(other, b)
<1>1. ASSUME NEW i \in 1..a.count, NEW d \in Values!Dims(a.z, a.m)
      PROVE  Word(memory, a, i - 1, d) = Word(other, b, i - 1, d)
  <2>1. a.count \in Nat
    BY DEF ArrayType
  <2>2. i - 1 \in Nat /\ i - 1 < a.count
    BY <2>1
  <2>3. Place(a, i - 1, d) \in Nat /\ Place(a, i - 1, d) < Words(a)
    BY Zenon, <2>2, PlaceIs
  <2>4. Place(b, i - 1, d) = Place(a, i - 1, d)
    BY Zenon DEF Place, Size
  <2> QED
    BY Zenon, <2>3, <2>4 DEF Word, Moved
<1>2. ReadVertices(other, b) = [i \in 1..a.count |->
        [d \in Values!Dims(a.z, a.m) |-> Word(other, b, i - 1, d)]]
  BY ReadIs
<1>3. ReadVertices(memory, a) = ReadVertices(other, b)
  <2>1. ASSUME NEW i \in 1..a.count
        PROVE  [d \in Values!Dims(a.z, a.m) |-> Word(memory, a, i - 1, d)] =
               [d \in Values!Dims(a.z, a.m) |-> Word(other, b, i - 1, d)]
    BY Zenon, <1>1
  <2>2. ReadVertices(memory, a) = [i \in 1..a.count |->
          [d \in Values!Dims(a.z, a.m) |-> Word(memory, a, i - 1, d)]]
    BY ReadIs
  <2> QED
    BY Zenon, <1>2, <2>1, <2>2
<1> QED
  BY <1>3, ReadIs

LEMMA SameWords ==
  ASSUME NEW a \in ArrayType, NEW memory, NEW other,
         Same(memory, other, Region(a))
  PROVE  Read(memory, a) = Read(other, a)
<1>1. Moved(memory, a.data, other, a.data, Words(a))
  BY Zenon, RegionIs DEF Same, Moved
<1> QED
  BY <1>1, SameRead

LEMMA ElsewhereIs ==
  ASSUME Inv, NEW h \in Arrays, NEW s, Fits(h, s)
  PROVE  /\ Elsewhere(h) \subseteq 1..s.top
         /\ \A g \in Arrays \ {h} : Region(arrays[g]) \subseteq Elsewhere(h)
         /\ 1..BlobLength \subseteq Elsewhere(h)
         /\ s.array.owning /\ Alone(h, s) => Region(s.array) \cap Elsewhere(h) = {}
         /\ s.top \in Nat /\ BlobLength \in Nat
<1>1. BlobLength \in Nat
  BY BlobsAssumption DEF Inv, TypeInv, BlobLength
<1>2. s.top \in Nat /\ BlobLength <= s.top
  BY DEF Fits
<1>3. 1..BlobLength \subseteq 1..s.top
  BY <1>1, <1>2
<1>4. Elsewhere(h) \subseteq 1..s.top
  BY <1>3 DEF Fits, Elsewhere
<1>5. s.array.owning /\ Alone(h, s) => Region(s.array) \cap Elsewhere(h) = {}
  BY Zenon DEF Fits, Elsewhere, Alone
<1> QED
  BY <1>1, <1>2, <1>4, <1>5 DEF Elsewhere

LEMMA CopiedIs ==
  ASSUME NEW memory, Memory(memory),
         NEW to \in Nat, NEW from \in Nat, NEW n \in Nat, to..to + n - 1 \subseteq 1..ArenaSize
  PROVE  /\ Memory(Copied(memory, to, from, n))
         /\ Same(Copied(memory, to, from, n), memory, (1..ArenaSize) \ (to..to + n - 1))
         /\ Moved(Copied(memory, to, from, n), to, memory, from, n)
<1> PICK after : after = Copied(memory, to, from, n)
  OBVIOUS
<1>1. /\ DOMAIN after = 1..ArenaSize
      /\ \A p \in 1..ArenaSize : after[p] =
           IF p \in to..to + n - 1 THEN memory[from + p - to] ELSE memory[p]
  BY DEF Copied, Memory
<1>2. \A k \in Nat : k < n => /\ to + k \in 1..ArenaSize /\ to + k \in to..to + n - 1
                              /\ from + (to + k) - to = from + k
  BY SizesAssumption
<1>3. Memory(after) /\ Same(after, memory, (1..ArenaSize) \ (to..to + n - 1))
  BY Zenon, <1>1 DEF Memory, Same
<1>4. Moved(after, to, memory, from, n)
  BY Zenon, <1>1, <1>2 DEF Moved
<1> QED
  BY <1>3, <1>4

LEMMA FilledIs ==
  ASSUME NEW memory, Memory(memory), NEW word,
         NEW to \in Nat, NEW n \in Nat, to..to + n - 1 \subseteq 1..ArenaSize
  PROVE  /\ Memory(Filled(memory, to, n, word))
         /\ Same(Filled(memory, to, n, word), memory, (1..ArenaSize) \ (to..to + n - 1))
         /\ Holds(Filled(memory, to, n, word), to, n, word)
<1> PICK after : after = Filled(memory, to, n, word)
  OBVIOUS
<1>1. /\ DOMAIN after = 1..ArenaSize
      /\ \A p \in 1..ArenaSize : after[p] = IF p \in to..to + n - 1 THEN word ELSE memory[p]
  BY DEF Filled, Memory
<1>2. \A k \in Nat : k < n => to + k \in 1..ArenaSize /\ to + k \in to..to + n - 1
  BY SizesAssumption
<1>3. Memory(after) /\ Same(after, memory, (1..ArenaSize) \ (to..to + n - 1))
  BY Zenon, <1>1 DEF Memory, Same
<1>4. Holds(after, to, n, word)
  BY Zenon, <1>1, <1>2 DEF Holds
<1> QED
  BY <1>3, <1>4

(* Words copied or written behind the first t.                             *)
LEMMA CopiedBehind ==
  ASSUME NEW memory, Memory(memory),
         NEW t \in Nat, NEW from \in Nat, NEW n \in Nat, t + n <= ArenaSize
  PROVE  /\ Memory(Copied(memory, t + 1, from, n))
         /\ Same(Copied(memory, t + 1, from, n), memory, 1..t)
         /\ Moved(Copied(memory, t + 1, from, n), t + 1, memory, from, n)
<1> PICK to \in Nat : to = t + 1
  OBVIOUS
<1>1. to..to + n - 1 \subseteq 1..ArenaSize /\ 1..t \subseteq (1..ArenaSize) \ (to..to + n - 1)
  BY SizesAssumption
<1>2. /\ Memory(Copied(memory, to, from, n))
      /\ Same(Copied(memory, to, from, n), memory, (1..ArenaSize) \ (to..to + n - 1))
      /\ Moved(Copied(memory, to, from, n), to, memory, from, n)
  BY Zenon, <1>1, CopiedIs
<1>3. Same(Copied(memory, to, from, n), memory, 1..t)
  BY Zenon, <1>1, <1>2 DEF Same
<1> QED
  BY <1>2, <1>3

LEMMA FilledBehind ==
  ASSUME NEW memory, Memory(memory), NEW word,
         NEW t \in Nat, NEW n \in Nat, t + n <= ArenaSize
  PROVE  /\ Memory(Filled(memory, t + 1, n, word))
         /\ Same(Filled(memory, t + 1, n, word), memory, 1..t)
         /\ Holds(Filled(memory, t + 1, n, word), t + 1, n, word)
<1> PICK to \in Nat : to = t + 1
  OBVIOUS
<1>1. to..to + n - 1 \subseteq 1..ArenaSize /\ 1..t \subseteq (1..ArenaSize) \ (to..to + n - 1)
  BY SizesAssumption
<1>2. /\ Memory(Filled(memory, to, n, word))
      /\ Same(Filled(memory, to, n, word), memory, (1..ArenaSize) \ (to..to + n - 1))
      /\ Holds(Filled(memory, to, n, word), to, n, word)
  BY Zenon, <1>1, FilledIs
<1>3. Same(Filled(memory, to, n, word), memory, 1..t)
  BY Zenon, <1>1, <1>2 DEF Same
<1> QED
  BY <1>2, <1>3

(* The array that h becomes is the value that h becomes, and no other      *)
(* array is another value than before.                                     *)
LEMMA BecomesValue ==
  ASSUME Inv, MemoryInv, NEW h \in Arrays, NEW s, Sound(h, s), Become(h, s)
  PROVE  /\ MemoryInv'
         /\ ArrayValues' = [ArrayValues EXCEPT ![h] = Read(s.mem, s.array)]
         /\ GivenValue' = GivenValue
<1>1. /\ top' = s.top /\ arrays' = [arrays EXCEPT ![h] = s.array] /\ blob' = blob
      /\ mem' = [p \in DOMAIN mem |->
               IF p \in 1..Len(blob.words) \/ \E g \in Arrays : p \in Region(arrays'[g])
               THEN s.mem[p] ELSE Junk]
  BY DEF Become
<1>2. /\ arrays'[h] = s.array /\ \A g \in Arrays \ {h} : arrays'[g] = arrays[g]
      /\ s.array \in ArrayType /\ \A g \in Arrays : arrays[g] \in ArrayType
  BY <1>1 DEF Inv, TypeInv, Sound, Fits
<1>3. /\ 1..BlobLength \subseteq 1..ArenaSize
      /\ \A g \in Arrays : Region(arrays'[g]) \subseteq 1..ArenaSize
  <2>1. /\ BlobLength \in Nat /\ BlobLength <= s.top /\ s.top \in Nat /\ s.top <= ArenaSize
        /\ ArenaSize \in Nat
    BY ElsewhereIs, SizesAssumption DEF Sound, Fits
  <2>2. 1..s.top \subseteq 1..ArenaSize /\ 1..BlobLength \subseteq 1..s.top
    BY <2>1
  <2>3. \A g \in Arrays : Region(arrays'[g]) \subseteq 1..s.top
    BY <1>2 DEF Sound, Fits
  <2> QED
    BY <2>2, <2>3
<1>4. /\ \A p \in 1..BlobLength : mem'[p] = s.mem[p]
      /\ \A g \in Arrays : \A p \in Region(arrays'[g]) : mem'[p] = s.mem[p]
  <2>1. \A p \in 1..ArenaSize : p \in 1..BlobLength \/ (\E g \in Arrays : p \in Region(arrays'[g]))
                                  => mem'[p] = s.mem[p]
    BY Zenon, <1>1 DEF MemoryInv, Memory, BlobLength
  <2> QED
    BY Zenon, <1>3, <2>1
<1>5. \A p \in Elsewhere(h) : s.mem[p] = mem[p]
  BY DEF Sound, Same
<1>6. MemoryInv'
  <2>1. Memory(mem)'
    BY <1>1 DEF MemoryInv, Memory
  <2>2. \A p \in 1..BlobLength : mem'[p] = blob.words[p]
    BY Zenon, <1>4, <1>5, ElsewhereIs DEF MemoryInv, Sound
  <2>3. BlobLength' = BlobLength /\ top' <= ArenaSize
    BY <1>1 DEF BlobLength, Sound
  <2> QED
    BY <1>1, <2>1, <2>2, <2>3 DEF MemoryInv
<1>7. Read(mem', arrays'[h]) = Read(s.mem, s.array)
  <2>1. Same(mem', s.mem, Region(s.array))
    BY <1>2, <1>4 DEF Same
  <2>2. Read(mem', s.array) = Read(s.mem, s.array)
    BY Zenon, <1>2, <2>1, SameWords
  <2> QED
    BY Zenon, <1>2, <2>2
<1>8. ASSUME NEW g \in Arrays \ {h} PROVE Read(mem', arrays'[g]) = Read(mem, arrays[g])
  <2>1. Same(mem', mem, Region(arrays[g]))
    BY Zenon, <1>2, <1>4, <1>5, ElsewhereIs DEF Sound, Same
  <2>2. Read(mem', arrays[g]) = Read(mem, arrays[g])
    BY Zenon, <1>2, <2>1, SameWords
  <2> QED
    BY Zenon, <1>2, <2>2
<1>9. ArrayValues' = [ArrayValues EXCEPT ![h] = Read(s.mem, s.array)]
  BY <1>2, <1>7, <1>8 DEF ArrayValues
<1>10. GivenValue' = GivenValue
  BY <1>1 DEF GivenValue, Read, ReadVertices, Array, Size
<1> QED
  BY <1>6, <1>9, <1>10

LEMMA StateSound ==
  ASSUME Inv, MemoryInv, NEW h \in Arrays
  PROVE  /\ Sound(h, State(h)) /\ State(h).array = arrays[h] /\ State(h).mem = mem
         /\ State(h).top = top
         /\ Exclusive(h) => (State(h).array.owning => Alone(h, State(h)))
<1>1. State(h).mem = mem /\ State(h).top = top /\ State(h).array = arrays[h]
  BY DEF State
<1> QED
  BY <1>1, StateFits DEF Sound, MemoryInv, Same

(* Copying the words of an array to the end of the memory.                 *)
LEMMA MakeOwningSound ==
  ASSUME Inv, NEW h \in Arrays, NEW s, Sound(h, s), s.array.owning => Alone(h, s),
         MakeOwning(s).top <= ArenaSize
  PROVE  /\ Sound(h, MakeOwning(s))
         /\ Read(MakeOwning(s).mem, MakeOwning(s).array) = Read(s.mem, s.array)
<1> PICK r : r = MakeOwning(s)
  OBVIOUS
<1>1. /\ Fits(h, r) /\ r.array.owning
      /\ r.array.count = s.array.count /\ r.array.z = s.array.z /\ r.array.m = s.array.m
      /\ s.array \in ArrayType /\ r.array \in ArrayType /\ r.top <= ArenaSize
  BY MakeOwningFits DEF Sound, Fits
<1>2. Words(r.array) = Words(s.array) /\ Words(s.array) \in Nat /\ s.array.data \in Nat
  BY <1>1, RegionIs DEF Words, Size
<1>3. CASE s.array.owning
  BY <1>3 DEF MakeOwning
<1>4. CASE ~s.array.owning /\ s.array.count = 0
  <2>1. r = [s EXCEPT !.array.data = Null, !.array.owning = TRUE]
    BY <1>4 DEF MakeOwning
  <2>2. r.mem = s.mem
    BY <2>1 DEF Sound, Fits
  <2>3. Words(s.array) = 0
    BY <1>1, <1>4, ArraySizes
  <2>4. Read(r.mem, r.array) = Read(s.mem, s.array)
    <3>1. \A k \in Nat : ~(k < 0)
      OBVIOUS
    <3>2. Moved(r.mem, r.array.data, s.mem, s.array.data, Words(r.array))
      BY Zenon, <1>2, <2>3, <3>1 DEF Moved
    <3> QED
      BY <1>1, <3>2, SameRead
  <2> QED
    BY <1>1, <2>2, <2>4 DEF Sound
<1>5. CASE ~s.array.owning /\ s.array.count # 0
  <2>1. r = [mem   |-> Copied(s.mem, s.top + 1, s.array.data, Words(s.array)),
             top   |-> s.top + Words(s.array),
             array |-> [s.array EXCEPT !.data = s.top + 1, !.owning = TRUE]]
    BY <1>5 DEF MakeOwning
  <2>2. /\ r.mem = Copied(s.mem, s.top + 1, s.array.data, Words(s.array))
        /\ r.top = s.top + Words(s.array)
    BY <2>1
  <2>3. r.array.data = s.top + 1
    <3>1. PICK c \in ArrayType : c = s.array
      BY <1>1
    <3>2. r.array = [c EXCEPT !.data = s.top + 1, !.owning = TRUE]
      BY <2>1, <3>1
    <3> QED
      BY <3>2 DEF ArrayType
  <2>4. Memory(s.mem) /\ s.top \in Nat /\ s.top + Words(s.array) <= ArenaSize
    BY <1>1, <2>2 DEF Sound, Fits
  <2>5. Words(s.array) \in Nat /\ s.array.data \in Nat
    BY <1>2
  <2>6. /\ Memory(r.mem) /\ Same(r.mem, s.mem, 1..s.top)
        /\ Moved(r.mem, s.top + 1, s.mem, s.array.data, Words(s.array))
    <3> DEFINE after == Copied(s.mem, s.top + 1, s.array.data, Words(s.array))
    <3>1. /\ Memory(after) /\ Same(after, s.mem, 1..s.top)
          /\ Moved(after, s.top + 1, s.mem, s.array.data, Words(s.array))
      BY Zenon, <2>4, <2>5, CopiedBehind
    <3> QED
      BY Zenon, <2>2, <3>1
  <2>7. Read(r.mem, r.array) = Read(s.mem, s.array)
    <3>1. Moved(r.mem, r.array.data, s.mem, s.array.data, Words(r.array))
      BY Zenon, <1>2, <2>3, <2>6
    <3> QED
      BY <1>1, <3>1, SameRead
  <2>8. Same(r.mem, mem, Elsewhere(h))
    BY Zenon, <2>6, ElsewhereIs DEF Sound, Same
  <2> QED
    BY <1>1, <2>6, <2>7, <2>8 DEF Sound
<1> QED
  BY <1>3, <1>4, <1>5

(* ArenaAllocator::Reallocate keeps the words both allocations have room   *)
(* for, and leaves those of others.                                        *)
LEMMA ReallocatedSound ==
  ASSUME Inv, NEW h \in Arrays, NEW s, Sound(h, s), s.array.owning, Alone(h, s),
         NEW new \in Nat, NEW inPlace \in BOOLEAN,
         Reallocated(s, new, inPlace).top <= ArenaSize
  PROVE  /\ Memory(Reallocated(s, new, inPlace).mem)
         /\ Same(Reallocated(s, new, inPlace).mem, mem, Elsewhere(h))
         /\ \A n \in Nat : n <= Words(s.array) /\ n <= new =>
              Moved(Reallocated(s, new, inPlace).mem, Reallocated(s, new, inPlace).array.data,
                    s.mem, s.array.data, n)
<1> PICK r : r = Reallocated(s, new, inPlace)
  OBVIOUS
<1>1. /\ s.array \in ArrayType /\ s.top \in Nat /\ Memory(s.mem)
      /\ s = [mem |-> s.mem, top |-> s.top, array |-> s.array]
      /\ Same(s.mem, mem, Elsewhere(h))
      /\ Words(s.array) \in Nat /\ s.array.data \in Nat
  BY RegionIs DEF Sound, Fits
<1>2. ASSUME r.mem = s.mem, r.array.data = s.array.data
      PROVE  /\ Memory(r.mem) /\ Same(r.mem, mem, Elsewhere(h))
             /\ \A n \in Nat : Moved(r.mem, r.array.data, s.mem, s.array.data, n)
  BY <1>1, <1>2 DEF Moved
<1>3. CASE Words(s.array) = new
  BY <1>2, <1>3 DEF Reallocated
<1>4. CASE Words(s.array) # new /\ inPlace /\ s.array.data + Words(s.array) - 1 = s.top
  <2>1. r = [s EXCEPT !.top = s.array.data + new - 1]
    BY <1>4 DEF Reallocated
  <2>2. r.mem = s.mem /\ r.array = s.array
    BY <1>1, <2>1
  <2> QED
    BY <1>2, <2>2
<1>5. CASE Words(s.array) # new /\ ~(inPlace /\ s.array.data + Words(s.array) - 1 = s.top)
  <2> PICK kept \in Nat : kept = IF Words(s.array) < new THEN Words(s.array) ELSE new
    BY <1>1
  <2>1. /\ r.mem = Copied(s.mem, s.top + 1, s.array.data, kept)
        /\ r.top = s.top + new
        /\ r.array = [s.array EXCEPT !.data = s.top + 1]
    BY <1>5 DEF Reallocated
  <2>2. r.array.data = s.top + 1
    <3>1. PICK c \in ArrayType : c = s.array
      BY <1>1
    <3>2. r.array = [c EXCEPT !.data = s.top + 1]
      BY <2>1, <3>1
    <3> QED
      BY <3>2 DEF ArrayType
  <2>3. s.top + kept <= ArenaSize
    <3>1. kept <= new /\ s.top + new <= ArenaSize
      BY <1>1, <2>1
    <3> QED
      BY <1>1, <3>1, SizesAssumption
  <2>4. \A n \in Nat : n <= Words(s.array) /\ n <= new => n <= kept
    OBVIOUS
  <2>5. /\ Memory(r.mem) /\ Same(r.mem, s.mem, 1..s.top)
        /\ Moved(r.mem, s.top + 1, s.mem, s.array.data, kept)
    <3> DEFINE after == Copied(s.mem, s.top + 1, s.array.data, kept)
    <3>1. /\ Memory(after) /\ Same(after, s.mem, 1..s.top)
          /\ Moved(after, s.top + 1, s.mem, s.array.data, kept)
      BY Zenon, <1>1, <2>3, CopiedBehind
    <3> QED
      BY Zenon, <2>1, <3>1
  <2>6. Same(r.mem, mem, Elsewhere(h))
    BY Zenon, <1>1, <2>5, ElsewhereIs DEF Sound, Same
  <2>7. ASSUME NEW n \in Nat, n <= kept
        PROVE  Moved(r.mem, r.array.data, s.mem, s.array.data, n)
    <3>1. \A k \in Nat : k < n => k < kept
      BY <2>7
    <3> QED
      BY Zenon, <2>2, <2>5, <3>1 DEF Moved
  <2> QED
    BY <2>4, <2>5, <2>6, <2>7
<1> QED
  BY <1>3, <1>4, <1>5

(* Words written behind the first t, and the first of them overwritten.    *)
LEMMA FilledAndCopied ==
  ASSUME NEW memory, Memory(memory), NEW word,
         NEW t \in Nat, NEW n \in Nat, t + n <= ArenaSize,
         NEW from \in Nat, NEW kept \in Nat, kept <= n,
         from..from + kept - 1 \subseteq 1..t
  PROVE  LET after == Copied(Filled(memory, t + 1, n, word), t + 1, from, kept)
         IN  /\ Memory(after) /\ Same(after, memory, 1..t)
             /\ Moved(after, t + 1, memory, from, kept)
             /\ HoldsFrom(after, t + 1, kept, n, word)
<1> PICK after : after = Copied(Filled(memory, t + 1, n, word), t + 1, from, kept)
  OBVIOUS
<1> PICK filled : filled = Filled(memory, t + 1, n, word)
  OBVIOUS
<1>1. /\ Memory(filled) /\ Same(filled, memory, 1..t)
      /\ Holds(filled, t + 1, n, word)
  BY FilledBehind
<1> PICK to \in Nat : to = t + 1
  OBVIOUS
<1>2. to..to + kept - 1 \subseteq 1..ArenaSize
  BY SizesAssumption
<1>3. /\ Memory(Copied(filled, to, from, kept))
      /\ Same(Copied(filled, to, from, kept), filled, (1..ArenaSize) \ (to..to + kept - 1))
      /\ Moved(Copied(filled, to, from, kept), to, filled, from, kept)
  BY Zenon, <1>1, <1>2, CopiedIs
<1>4. /\ Memory(after) /\ Same(after, filled, (1..ArenaSize) \ (to..to + kept - 1))
      /\ Moved(after, to, filled, from, kept)
  BY <1>3
<1>5. /\ 1..t \subseteq (1..ArenaSize) \ (to..to + kept - 1)
      /\ \A k \in Nat : k < kept => from + k \in 1..t
      /\ \A k \in Nat : kept <= k /\ k < n => to + k \in (1..ArenaSize) \ (to..to + kept - 1)
  <2>1. \A k \in Nat : k < kept => from + k \in from..from + kept - 1
    OBVIOUS
  <2>2. 1..t \subseteq (1..ArenaSize) \ (to..to + kept - 1)
    BY SizesAssumption
  <2>3. \A k \in Nat : kept <= k /\ k < n => to + k \in (1..ArenaSize) \ (to..to + kept - 1)
    BY SizesAssumption
  <2> QED
    BY <2>1, <2>2, <2>3
<1>6. Same(after, memory, 1..t) /\ Moved(after, to, memory, from, kept)
  BY Zenon, <1>1, <1>4, <1>5 DEF Same, Moved
<1>7. HoldsFrom(after, to, kept, n, word)
  BY Zenon, <1>1, <1>4, <1>5 DEF Same, Holds, HoldsFrom
<1> QED
  BY <1>4, <1>6, <1>7

(* Resize keeps the vertices there is room for; the words it adds to an    *)
(* array that did not own any are zeros.                                   *)
LEMMA ResizedSound ==
  ASSUME Inv, NEW h \in Arrays, NEW s, Sound(h, s), s.array.owning => Alone(h, s),
         NEW n \in Nat, NEW inPlace \in BOOLEAN, Resized(s, n, inPlace).top <= ArenaSize
  PROVE  LET r == Resized(s, n, inPlace)
         IN  /\ Sound(h, r)
             /\ r.array.count = n /\ r.array.z = s.array.z /\ r.array.m = s.array.m
             /\ s.array.owning => r.array.owning
             /\ \A k \in Nat : k <= Words(s.array) /\ k <= Words(r.array) =>
                  Moved(r.mem, r.array.data, s.mem, s.array.data, k)
             /\ s.array.data = Null \/ ~s.array.owning =>
                  HoldsFrom(r.mem, r.array.data, Words(s.array), Words(r.array), Zero)
<1> PICK r : r = Resized(s, n, inPlace)
  OBVIOUS
<1>1. /\ s.array \in ArrayType /\ s.top \in Nat /\ Memory(s.mem)
      /\ s = [mem |-> s.mem, top |-> s.top, array |-> s.array]
      /\ Same(s.mem, mem, Elsewhere(h))
      /\ Words(s.array) \in Nat /\ s.array.data \in Nat
      /\ Region(s.array) \subseteq 1..s.top
      /\ s.array.count \in Nat /\ Size(s.array) \in {2, 3, 4}
      /\ Region(s.array) = s.array.data..(s.array.data + Words(s.array) - 1)
  BY ArraySizes DEF Sound, Fits
<1>2. Fits(h, r)
  BY ResizedFits DEF Sound
<1> PICK new \in Nat : new = n * Size(s.array)
  BY <1>1, Multiples
<1> PICK c \in ArrayType : c = s.array
  BY <1>1
<1>3. CASE n = s.array.count
  <2>1. r = s
    BY <1>3 DEF Resized
  <2>2. \A k \in Nat : ~(Words(s.array) <= k /\ k < Words(s.array))
    BY <1>1
  <2> QED
    BY <1>3, <2>1, <2>2 DEF Moved, HoldsFrom
<1>4. CASE n # s.array.count /\ s.array.data # Null /\ s.array.owning
  <2> PICK a : a = Reallocated(s, new, inPlace)
    OBVIOUS
  <2>1. r = [a EXCEPT !.array.count = n]
    BY <1>4 DEF Resized
  <2>2. /\ a = [mem |-> a.mem, top |-> a.top, array |-> a.array]
        /\ a.array \in {c, [c EXCEPT !.data = s.top + 1]}
    BY ReallocatedArray DEF Sound
  <2>3. r.mem = a.mem /\ r.top = a.top /\ r.array = [a.array EXCEPT !.count = n]
    BY <2>1, <2>2
  <2>4. /\ r.array.data = a.array.data /\ r.array.count = n
        /\ r.array.z = c.z /\ r.array.m = c.m /\ r.array.owning = c.owning
    <3>1. /\ a.array \in ArrayType /\ a.array.z = c.z /\ a.array.m = c.m
          /\ a.array.owning = c.owning
      BY <1>1, <2>2 DEF ArrayType
    <3> QED
      BY <2>3, <3>1 DEF ArrayType
  <2>5. Words(r.array) = new
    BY <2>4 DEF Words, Size
  <2>6. /\ Memory(a.mem) /\ Same(a.mem, mem, Elsewhere(h))
        /\ \A k \in Nat : k <= Words(s.array) /\ k <= new =>
             Moved(a.mem, a.array.data, s.mem, s.array.data, k)
    <3>1. a.top <= ArenaSize
      BY <2>3
    <3> QED
      BY <1>4, <3>1, ReallocatedSound
  <2> QED
    BY <1>2, <1>4, <2>3, <2>4, <2>5, <2>6 DEF Sound
<1>5. CASE n # s.array.count /\ ~(s.array.data # Null /\ s.array.owning)
  <2> PICK kept \in Nat :
        kept = IF n < s.array.count THEN n * Size(s.array) ELSE Words(s.array)
    BY <1>1
  <2>1. /\ r.mem = Copied(Filled(s.mem, s.top + 1, new, Zero), s.top + 1, s.array.data, kept)
        /\ r.top = s.top + new
        /\ r.array = [c EXCEPT !.data = s.top + 1, !.count = n, !.owning = TRUE]
    BY <1>5 DEF Resized
  <2>2. /\ r.array.data = s.top + 1 /\ r.array.count = n
        /\ r.array.z = c.z /\ r.array.m = c.m /\ r.array.owning
    BY <2>1 DEF ArrayType
  <2>3. Words(r.array) = new
    BY <2>2 DEF Words, Size
  <2>4. /\ kept <= new /\ kept <= Words(s.array)
        /\ new <= Words(s.array) => kept = new
        /\ Words(s.array) <= new => kept = Words(s.array)
    <3> PICK w \in Nat, v \in {2, 3, 4}, count \in Nat :
          w = Words(s.array) /\ v = Size(s.array) /\ count = s.array.count
      BY <1>1
    <3>1. w = count * v /\ new = n * v /\ kept = IF n < count THEN n * v ELSE w
      BY DEF Words
    <3>2. /\ kept <= new /\ kept <= w
          /\ new <= w => kept = new
          /\ w <= new => kept = w
      <4>1. CASE v = 2
        BY <3>1, <4>1
      <4>2. CASE v = 3
        BY <3>1, <4>2
      <4>3. CASE v = 4
        BY <3>1, <4>3
      <4> QED
        BY <4>1, <4>2, <4>3
    <3> QED
      BY Zenon, <3>2
  <2>5. s.array.data..s.array.data + kept - 1 \subseteq 1..s.top
    BY <1>1, <2>4
  <2>6. s.top + new <= ArenaSize
    BY <2>1
  <2>7. /\ Memory(r.mem) /\ Same(r.mem, s.mem, 1..s.top)
        /\ Moved(r.mem, s.top + 1, s.mem, s.array.data, kept)
        /\ HoldsFrom(r.mem, s.top + 1, kept, new, Zero)
    <3> DEFINE after == Copied(Filled(s.mem, s.top + 1, new, Zero), s.top + 1, s.array.data, kept)
    <3>1. /\ Memory(after) /\ Same(after, s.mem, 1..s.top)
          /\ Moved(after, s.top + 1, s.mem, s.array.data, kept)
          /\ HoldsFrom(after, s.top + 1, kept, new, Zero)
      BY Zenon, <1>1, <2>4, <2>5, <2>6, FilledAndCopied
    <3> QED
      BY Zenon, <2>1, <3>1
  <2>8. Same(r.mem, mem, Elsewhere(h))
    BY Zenon, <1>1, <2>7, ElsewhereIs DEF Sound, Same
  <2>9. ASSUME NEW k \in Nat, k <= Words(s.array), k <= new
        PROVE  Moved(r.mem, r.array.data, s.mem, s.array.data, k)
    <3>1. \A i \in Nat : i < k => i < kept
      BY <1>1, <2>4, <2>9
    <3> QED
      BY Zenon, <2>2, <2>7, <3>1 DEF Moved
  <2>10. HoldsFrom(r.mem, r.array.data, Words(s.array), new, Zero)
    <3>1. \A k \in Nat : Words(s.array) <= k /\ k < new => kept <= k
      BY <1>1, <2>4
    <3> QED
      BY Zenon, <2>2, <2>7, <3>1 DEF HoldsFrom
  <2> QED
    BY <1>2, <2>2, <2>3, <2>7, <2>8, <2>9, <2>10 DEF Sound
<1> QED
  BY <1>3, <1>4, <1>5

LEMMA VertexIs ==
  ASSUME NEW memory, NEW a \in ArrayType, NEW i \in 1..a.count
  PROVE  ReadVertices(memory, a)[i] = [d \in Values!Dims(a.z, a.m) |-> Word(memory, a, i - 1, d)]
<1>1. ReadVertices(memory, a) = [k \in 1..a.count |->
        [d \in Values!Dims(a.z, a.m) |-> Word(memory, a, k - 1, d)]]
  BY Zenon, ReadIs
<1> QED
  BY Zenon, <1>1

(* Arrays with some vertices in common.                                    *)
LEMMA SliceRead ==
  ASSUME NEW a \in ArrayType, NEW b \in ArrayType, NEW memory, NEW other,
         SameType(a, b), NEW first \in Nat, NEW n \in Nat,
         first + n <= a.count, n <= b.count,
         Moved(memory, a.data + first * Size(a), other, b.data, n * Size(a))
  PROVE  Shares(memory, a, first, other, b, n)
<1> SUFFICES ASSUME NEW i \in 1..n
             PROVE  ReadVertices(memory, a)[first + i] = ReadVertices(other, b)[i]
  BY DEF Shares
<1> a.z = b.z /\ a.m = b.m
  BY DEF SameType
<1>1. /\ a.count \in Nat /\ b.count \in Nat /\ a.data \in Nat
      /\ Size(a) \in {2, 3, 4} /\ Size(b) = Size(a)
      /\ a.z \in BOOLEAN /\ a.m \in BOOLEAN
  BY ArraySizes DEF Size
<1>2. /\ i \in 1..b.count /\ first + i \in 1..a.count
      /\ i - 1 \in Nat /\ i - 1 < n /\ (first + i) - 1 = first + (i - 1)
  BY <1>1
<1>3. ASSUME NEW d \in Values!Dims(a.z, a.m)
      PROVE  Word(memory, a, first + (i - 1), d) = Word(other, b, i - 1, d)
  <2>1. Offset(d, a.z) \in Nat /\ Offset(d, a.z) < Size(a)
    BY <1>1, OffsetIs DEF Size
  <2> PICK o \in Nat, v \in {2, 3, 4}, k \in Nat, p \in Nat :
        o = Offset(d, a.z) /\ v = Size(a) /\ k = i - 1 /\ p = a.data
    BY <1>1, <1>2, <2>1
  <2>2. /\ k * v + o \in Nat /\ k * v + o < n * v
        /\ p + ((first + k) * v + o) = (p + first * v) + (k * v + o)
    <3>1. k < n /\ o < v
      BY <1>2, <2>1
    <3>2. CASE v = 2
      BY <3>1, <3>2
    <3>3. CASE v = 3
      BY <3>1, <3>3
    <3>4. CASE v = 4
      BY <3>1, <3>4
    <3> QED
      BY <3>2, <3>3, <3>4
  <2>3. memory[(p + first * v) + (k * v + o)] = other[b.data + (k * v + o)]
    BY Zenon, <2>2 DEF Moved
  <2> QED
    BY Zenon, <1>1, <2>2, <2>3 DEF Word, Place
<1>4. ReadVertices(memory, a)[first + i] =
        [d \in Values!Dims(a.z, a.m) |-> Word(memory, a, first + (i - 1), d)]
  <2> PICK j \in 1..a.count : j = first + i
    BY <1>2
  <2>1. ReadVertices(memory, a)[j] = [d \in Values!Dims(a.z, a.m) |-> Word(memory, a, j - 1, d)]
    BY VertexIs
  <2>2. j - 1 = first + (i - 1)
    BY Zenon, <1>2
  <2> QED
    BY Zenon, <2>1, <2>2
<1>5. ReadVertices(other, b)[i] = [d \in Values!Dims(a.z, a.m) |-> Word(other, b, i - 1, d)]
  <2>1. ReadVertices(other, b)[i] = [d \in Values!Dims(b.z, b.m) |-> Word(other, b, i - 1, d)]
    BY <1>2, VertexIs
  <2> QED
    BY Zenon, <2>1
<1> QED
  BY Zenon, <1>3, <1>4, <1>5

LEMMA ReadSequence ==
  ASSUME NEW memory, NEW a \in ArrayType
  PROVE  /\ DOMAIN ReadVertices(memory, a) = 1..a.count
         /\ Len(ReadVertices(memory, a)) = a.count
         /\ \A S : (\A i \in 1..a.count : ReadVertices(memory, a)[i] \in S)
                  => ReadVertices(memory, a) \in Seq(S)
<1> PICK f : f = ReadVertices(memory, a)
  OBVIOUS
<1>1. a.count \in Nat
  BY ArraySizes
<1>2. f = [k \in 1..a.count |-> [d \in Values!Dims(a.z, a.m) |-> Word(memory, a, k - 1, d)]]
  BY Zenon, ReadIs
<1>3. DOMAIN f = 1..a.count /\ f = [k \in 1..a.count |-> f[k]]
  BY Zenon, <1>2
<1>4. ASSUME NEW S, \A i \in 1..a.count : f[i] \in S
      PROVE  f \in Seq(S) /\ Len(f) = a.count
  <2>1. f \in [1..a.count -> S]
    BY Zenon, <1>3, <1>4
  <2>2. f \in Seq(S)
    BY Zenon, <1>1, <2>1, SeqDef
  <2>3. Len(f) \in Nat /\ 1..Len(f) = 1..a.count
    BY Zenon, <1>3, <2>2, LenProperties
  <2>4. \A k, n \in Nat : 1..k = 1..n => k = n
    OBVIOUS
  <2> QED
    BY Zenon, <1>1, <2>2, <2>3, <2>4
<1>5. Len(f) = a.count
  <2>1. \A i \in 1..a.count : f[i] \in {f[k] : k \in 1..a.count}
    OBVIOUS
  <2> QED
    BY Zenon, <1>4, <2>1
<1> QED
  BY <1>3, <1>4, <1>5

(* An array with the vertices of one and then those of another.            *)
LEMMA JoinedRead ==
  ASSUME NEW a \in ArrayType, NEW b \in ArrayType, NEW c \in ArrayType,
         NEW memory, NEW other, NEW after, c.count = a.count + b.count,
         Shares(after, c, 0, memory, a, a.count), Shares(after, c, a.count, other, b, b.count)
  PROVE  Joined(ReadVertices(after, c), ReadVertices(memory, a), ReadVertices(other, b))
<1> PICK e, f, g :
      e = ReadVertices(after, c) /\ f = ReadVertices(memory, a) /\ g = ReadVertices(other, b)
  OBVIOUS
<1> PICK m \in Nat, n \in Nat : m = a.count /\ n = b.count
  BY ArraySizes
<1> DEFINE S == {e[i] : i \in 1..(m + n)}
<1>1. /\ \A i \in 1..m : i \in 1..(m + n)
      /\ \A i \in 1..n : m + i \in 1..(m + n)
      /\ m + n \in Nat
  OBVIOUS
<1>2. \A i \in 1..m : f[i] = e[i]
  BY DEF Shares
<1>3. \A i \in 1..n : g[i] = e[m + i]
  BY DEF Shares
<1>4. (\A i \in 1..(m + n) : e[i] \in S) /\ (\A i \in 1..m : f[i] \in S)
      /\ (\A i \in 1..n : g[i] \in S)
  BY Zenon, <1>1, <1>2, <1>3
<1> HIDE DEF S
<1>5. e \in Seq(S) /\ Len(e) = m + n
  BY <1>4, ReadSequence
<1>6. f \in Seq(S) /\ Len(f) = m
  BY <1>4, ReadSequence
<1>7. g \in Seq(S) /\ Len(g) = n
  BY <1>4, ReadSequence
<1>8. /\ f \o g \in Seq(S) /\ Len(f \o g) = m + n
      /\ \A i \in 1..(m + n) : (f \o g)[i] = IF i <= m THEN f[i] ELSE g[i - m]
  BY SMTT(30), <1>6, <1>7, ConcatProperties
<1>9. \A i \in 1..(m + n) : e[i] = (f \o g)[i]
  <2>1. \A i \in 1..(m + n) : /\ i <= m => i \in 1..m
                            /\ ~(i <= m) => i - m \in 1..n /\ m + (i - m) = i
    OBVIOUS
  <2>2. ASSUME NEW i \in 1..(m + n), i <= m PROVE e[i] = (f \o g)[i]
    <3>1. i \in 1..m
      BY <2>2
    <3>2. e[i] = f[i]
      BY <1>2, <3>1
    <3> QED
      BY Zenon, <1>8, <2>2, <3>2
  <2>3. ASSUME NEW i \in 1..(m + n), ~(i <= m) PROVE e[i] = (f \o g)[i]
    <3>1. e[i] = g[i - m]
      BY Zenon, <1>3, <2>1, <2>3
    <3> QED
      BY Zenon, <1>8, <2>3, <3>1
  <2> QED
    BY Zenon, <2>2, <2>3
<1> QED
  <2>1. e = f \o g
    BY Zenon, <1>5, <1>8, <1>9, SeqEqual
  <2> QED
    BY <2>1 DEF Joined

(* An array that does not lose vertices takes no memory from others.       *)
LEMMA GrowingTop ==
  ASSUME NEW h \in Arrays, NEW s, Fits(h, s), NEW new \in Nat, Words(s.array) <= new,
         NEW inPlace \in BOOLEAN
  PROVE  s.top <= Reallocated(s, new, inPlace).top
<1> PICK r : r = Reallocated(s, new, inPlace)
  OBVIOUS
<1>1. /\ s.array \in ArrayType /\ s.top \in Nat
      /\ s = [mem |-> s.mem, top |-> s.top, array |-> s.array]
      /\ Words(s.array) \in Nat /\ s.array.data \in Nat
  BY ArraySizes DEF Fits
<1>2. CASE Words(s.array) = new
  BY <1>1, <1>2 DEF Reallocated
<1>3. CASE Words(s.array) # new /\ inPlace /\ s.array.data + Words(s.array) - 1 = s.top
  <2>1. r = [s EXCEPT !.top = s.array.data + new - 1]
    BY <1>3 DEF Reallocated
  <2>2. r.top = s.array.data + new - 1
    BY <1>1, <2>1
  <2> PICK d \in Nat, w \in Nat, t \in Nat : d = s.array.data /\ w = Words(s.array) /\ t = s.top
    BY <1>1
  <2>3. d + w - 1 = t /\ w <= new => t <= d + new - 1
    OBVIOUS
  <2> QED
    BY Zenon, <1>3, <2>2, <2>3
<1>4. CASE Words(s.array) # new /\ ~(inPlace /\ s.array.data + Words(s.array) - 1 = s.top)
  <2>1. r.top = s.top + new
    BY <1>4 DEF Reallocated
  <2> QED
    BY <1>1, <2>1
<1> QED
  BY <1>2, <1>3, <1>4

LEMMA ResizedTop ==
  ASSUME NEW h \in Arrays, NEW s, Fits(h, s), NEW n \in Nat, s.array.count <= n,
         NEW inPlace \in BOOLEAN
  PROVE  s.top <= Resized(s, n, inPlace).top
<1>1. /\ s.array \in ArrayType /\ s.top \in Nat /\ Size(s.array) \in {2, 3, 4}
      /\ s.array.count \in Nat
  BY ArraySizes DEF Fits
<1> PICK new \in Nat : new = n * Size(s.array)
  BY <1>1, Multiples
<1>2. Words(s.array) <= new
  BY <1>1, Multiples DEF Words
<1>3. CASE n = s.array.count
  BY <1>1, <1>3 DEF Resized
<1>4. CASE n # s.array.count /\ s.array.data # Null /\ s.array.owning
  <2> PICK a : a = Reallocated(s, new, inPlace)
    OBVIOUS
  <2>1. a = [mem |-> a.mem, top |-> a.top, array |-> a.array]
    BY ReallocatedArray
  <2>2. Resized(s, n, inPlace) = [a EXCEPT !.array.count = n]
    BY <1>4 DEF Resized
  <2>3. Resized(s, n, inPlace).top = a.top
    BY <2>1, <2>2
  <2>4. s.top <= a.top
    BY <1>2, GrowingTop
  <2> QED
    BY <2>3, <2>4
<1>5. CASE n # s.array.count /\ ~(s.array.data # Null /\ s.array.owning)
  <2>1. Resized(s, n, inPlace).top = s.top + new
    BY <1>5 DEF Resized
  <2> QED
    BY <1>1, <2>1
<1> QED
  BY <1>3, <1>4, <1>5

LEMMA MovedTwice ==
  ASSUME NEW a, NEW b, NEW c, NEW x, NEW y, NEW u, NEW n,
         Moved(a, x, b, y, n), Moved(b, y, c, u, n)
  PROVE  Moved(a, x, c, u, n)
BY Zenon DEF Moved

(* Words of others put behind the first v of those an array has alone.     *)
LEMMA CopiedBetween ==
  ASSUME NEW memory, Memory(memory), NEW d \in Nat, NEW v \in Nat, NEW w \in Nat,
         d..d + (v + w) - 1 \subseteq 1..ArenaSize,
         NEW others, others \subseteq 1..ArenaSize, others \cap (d..d + (v + w) - 1) = {},
         NEW from \in Nat
  PROVE  LET after == Copied(memory, d + v, from, w)
         IN  /\ Memory(after) /\ Same(after, memory, others)
             /\ Moved(after, d, memory, d, v)
             /\ Moved(after, d + v, memory, from, w)
<1> PICK to \in Nat : to = d + v
  OBVIOUS
<1> PICK after : after = Copied(memory, to, from, w)
  OBVIOUS
<1>1. to..to + w - 1 \subseteq d..d + (v + w) - 1
  OBVIOUS
<1>2. /\ to..to + w - 1 \subseteq 1..ArenaSize
      /\ \A p \in others : p \in (1..ArenaSize) \ (to..to + w - 1)
  BY Zenon, <1>1
<1>3. \A k \in Nat : k < v => d + k \in (1..ArenaSize) \ (to..to + w - 1)
  <2>1. \A k \in Nat : k < v => d + k \in d..d + (v + w) - 1 /\ d + k \notin to..to + w - 1
    OBVIOUS
  <2> QED
    BY Zenon, <2>1
<1>4. /\ Memory(after) /\ Same(after, memory, (1..ArenaSize) \ (to..to + w - 1))
      /\ Moved(after, to, memory, from, w)
  BY <1>2, CopiedIs
<1>5. Same(after, memory, others)
  BY Zenon, <1>2, <1>4 DEF Same
<1>6. Moved(after, d, memory, d, v)
  BY Zenon, <1>3, <1>4 DEF Same, Moved
<1> QED
  BY <1>4, <1>5, <1>6

(* Append puts the vertices of the other array behind those of its own.    *)
LEMMA AppendedSound ==
  ASSUME Inv, NEW h \in Arrays, NEW s, Sound(h, s), s.array.owning => Alone(h, s),
         NEW g \in Arrays \ {h}, arrays[g].z = s.array.z, arrays[g].m = s.array.m,
         NEW inPlace \in BOOLEAN, Appended(s, arrays[g], inPlace).top <= ArenaSize
  PROVE  LET r == Appended(s, arrays[g], inPlace)
         IN  /\ Sound(h, r)
             /\ r.array.z = s.array.z /\ r.array.m = s.array.m
             /\ ReadVertices(r.mem, r.array) =
                  ReadVertices(s.mem, s.array) \o ReadVertices(mem, arrays[g])
<1>a. PICK other \in ArrayType : other = arrays[g]
  BY DEF Inv, TypeInv
<1>b. PICK old : old = MakeOwning(s)
  OBVIOUS
<1>1. /\ Fits(h, old) /\ Alone(h, old) /\ old.array.owning
      /\ old.array.count = s.array.count /\ old.array.z = s.array.z /\ old.array.m = s.array.m
      /\ old.array \in ArrayType /\ s.array \in ArrayType
  BY <1>b, MakeOwningFits DEF Sound, Fits
<1>2. /\ other.count \in Nat /\ Size(other) \in {2, 3, 4} /\ Words(other) \in Nat
      /\ other.data \in Nat /\ old.array.count \in Nat
      /\ Size(old.array) = Size(other) /\ Words(old.array) \in Nat
  BY <1>1, <1>a, ArraySizes DEF Size
<1>c. PICK n \in Nat : n = old.array.count + other.count
  BY <1>2
<1>d. PICK b : b = Resized(old, n, inPlace)
  OBVIOUS
<1>e. PICK r : r = Appended(s, arrays[g], inPlace)
  OBVIOUS
<1>3. r = [b EXCEPT !.mem = Copied(@, b.array.data + Words(old.array), other.data, Words(other))]
  BY <1>a, <1>b, <1>c, <1>d, <1>e DEF Appended
<1>4. Fits(h, b)
  BY <1>1, <1>d, ResizedFits
<1>5. /\ r.array = b.array /\ r.top = b.top /\ b.array \in ArrayType
      /\ r.mem = Copied(b.mem, b.array.data + Words(old.array), other.data, Words(other))
  BY <1>3, <1>4 DEF Fits
<1>6. old.top <= ArenaSize /\ b.top <= ArenaSize /\ b.top \in Nat
  <2>1. old.array.count <= n
    BY <1>2, <1>c
  <2>2. old.top <= b.top
    BY <1>1, <1>d, <2>1, ResizedTop
  <2>3. old.top \in Nat /\ b.top \in Nat /\ b.top <= ArenaSize
    BY <1>1, <1>4, <1>5, <1>e DEF Fits
  <2> QED
    BY <2>2, <2>3, SizesAssumption
<1>7. Sound(h, old) /\ Read(old.mem, old.array) = Read(s.mem, s.array)
  BY <1>6, <1>b, MakeOwningSound
<1>8. /\ Sound(h, b) /\ b.array.owning
      /\ b.array.count = n /\ b.array.z = old.array.z /\ b.array.m = old.array.m
      /\ \A k \in Nat : k <= Words(old.array) /\ k <= Words(b.array) =>
           Moved(b.mem, b.array.data, old.mem, old.array.data, k)
  BY <1>1, <1>6, <1>7, <1>d, ResizedSound
<1>9. Fits(h, r)
  <2>1. PICK words : r = [b EXCEPT !.mem = words]
    BY <1>3
  <2> QED
    BY <1>4, <2>1, MemoryFits
<1>f. PICK d \in Nat, v \in Nat, w \in Nat :
        d = b.array.data /\ v = Words(old.array) /\ w = Words(other)
  BY <1>2, <1>5, ArraySizes
<1>10. /\ Region(b.array) = d..d + (v + w) - 1
       /\ v <= Words(b.array) /\ v <= v
  <2>1. Words(b.array) = v + w
    BY <1>1, <1>2, <1>8, <1>c, <1>f, Multiples DEF Words, Size
  <2>2. Region(b.array) = b.array.data..(b.array.data + Words(b.array) - 1)
    BY <1>5, ArraySizes
  <2> QED
    BY <1>f, <2>1, <2>2
<1>11. /\ d..d + (v + w) - 1 \subseteq 1..ArenaSize
       /\ Elsewhere(h) \subseteq 1..ArenaSize /\ Elsewhere(h) \cap (d..d + (v + w) - 1) = {}
  <2>1. b.top \in Nat /\ b.top <= ArenaSize /\ Region(b.array) \subseteq 1..b.top
    BY <1>4, <1>6 DEF Fits
  <2>2. 1..b.top \subseteq 1..ArenaSize
    BY <2>1, SizesAssumption
  <2>3. Alone(h, b)
    BY <1>1, <1>8, <1>d, ResizedFits
  <2>4. Region(b.array) \cap Elsewhere(h) = {} /\ Elsewhere(h) \subseteq 1..b.top
    BY <1>4, <1>8, <2>3, ElsewhereIs
  <2> QED
    BY Zenon, <1>10, <2>1, <2>2, <2>4
<1>12. /\ Memory(r.mem) /\ Same(r.mem, b.mem, Elsewhere(h))
       /\ Moved(r.mem, d, b.mem, d, v) /\ Moved(r.mem, d + v, b.mem, other.data, w)
  <2>1. Memory(b.mem)
    BY <1>8 DEF Sound
  <2>2. /\ Memory(Copied(b.mem, d + v, other.data, w))
        /\ Same(Copied(b.mem, d + v, other.data, w), b.mem, Elsewhere(h))
        /\ Moved(Copied(b.mem, d + v, other.data, w), d, b.mem, d, v)
        /\ Moved(Copied(b.mem, d + v, other.data, w), d + v, b.mem, other.data, w)
    BY Zenon, <1>2, <1>11, <2>1, CopiedBetween
  <2> QED
    BY <1>5, <1>f, <2>2
<1>13. Same(b.mem, mem, Elsewhere(h)) /\ Same(r.mem, mem, Elsewhere(h))
  BY <1>8, <1>12 DEF Same, Sound
<1>14. Moved(r.mem, d, old.mem, old.array.data, v)
  <2>1. Moved(b.mem, d, old.mem, old.array.data, v)
    BY <1>8, <1>10, <1>f
  <2> QED
    BY Zenon, <1>12, <2>1 DEF Moved
<1>15. Moved(r.mem, d + v, mem, other.data, w)
  <2>1. Moved(b.mem, other.data, mem, other.data, w)
    BY <1>4, <1>13, <1>a, <1>f, ElsewhereIs, RegionIs DEF Moved, Same
  <2>2. Moved(r.mem, d + v, b.mem, other.data, w)
    BY <1>12
  <2> QED
    BY <2>1, <2>2, MovedTwice
<1>16. Shares(r.mem, b.array, 0, old.mem, old.array, old.array.count)
  <2>1. /\ d + 0 * Size(b.array) = d /\ old.array.count * Size(b.array) = v
        /\ 0 + old.array.count <= b.array.count /\ 0 \in Nat
        /\ old.array.count <= old.array.count
        /\ SameType(b.array, old.array)
    BY <1>1, <1>2, <1>8, <1>c, <1>f DEF Words, Size, SameType
  <2>2. Moved(r.mem, b.array.data + 0 * Size(b.array), old.mem, old.array.data,
              old.array.count * Size(b.array))
    BY Zenon, <1>14, <1>f, <2>1
  <2> QED
    BY ZenonT(30), <1>1, <1>2, <1>5, <2>1, <2>2, SliceRead
<1>17. Shares(r.mem, b.array, old.array.count, mem, other, other.count)
  <2>1. /\ old.array.count * Size(b.array) = v /\ other.count * Size(b.array) = w
        /\ old.array.count + other.count <= b.array.count
        /\ other.count <= other.count
        /\ SameType(b.array, other)
    BY <1>1, <1>2, <1>8, <1>a, <1>c, <1>f DEF Words, Size, SameType
  <2>2. Moved(r.mem, b.array.data + old.array.count * Size(b.array), mem, other.data,
              other.count * Size(b.array))
    BY Zenon, <1>15, <1>f, <2>1
  <2> QED
    BY ZenonT(30), <1>2, <1>5, <2>1, <2>2, SliceRead
<1>18. ReadVertices(r.mem, b.array) = ReadVertices(old.mem, old.array) \o ReadVertices(mem, other)
  <2>1. b.array.count = old.array.count + other.count
    BY <1>8, <1>c
  <2>2. old.array \in ArrayType /\ b.array \in ArrayType
    BY <1>1, <1>5
  <2>3. Joined(ReadVertices(r.mem, b.array),
               ReadVertices(old.mem, old.array), ReadVertices(mem, other))
    BY Zenon, <1>16, <1>17, <2>1, <2>2, JoinedRead
  <2> QED
    BY <2>3 DEF Joined
<1>19. ReadVertices(old.mem, old.array) = ReadVertices(s.mem, s.array)
  BY <1>7 DEF Read
<1>20. Sound(h, r)
  BY <1>5, <1>6, <1>9, <1>12, <1>13 DEF Sound
<1> QED
  BY <1>1, <1>5, <1>8, <1>18, <1>19, <1>20, <1>a, <1>e

(* Induction over the numbers up to one, of membership in a set.           *)
LEMMA Induction ==
  ASSUME NEW S, NEW last \in Nat, 0 \in S, \A n \in 0..last : n < last /\ n \in S => n + 1 \in S
  PROVE  \A n \in 0..last : n \in S
<1> DEFINE R == {p \in Nat \X Nat : p[1] < p[2]}
           T == (0..last) \ S
<1>1. IsWellFoundedOn(R, Nat)
  BY NatLessThanWellFounded DEF OpToRel
<1>2. SUFFICES ASSUME T # {} PROVE FALSE
  OBVIOUS
<1>3. PICK x \in T : \A y \in T : <<y, x>> \notin R
  <2>1. T \subseteq Nat
    OBVIOUS
  <2> HIDE DEF R, T
  <2> QED
    BY <1>1, <1>2, <2>1, WFMin
<1>4. x - 1 \in 0..last /\ x - 1 < last /\ x = (x - 1) + 1 /\ <<x - 1, x>> \in R
  BY <1>3
<1>5. x - 1 \notin S
  BY <1>4
<1> QED
  BY <1>3, <1>4, <1>5

-----------------------------------------------------------------------------
(* What a loop does to the memory at vertex i of the array.                *)
FlipVertex(s, w, i) ==
  LET x == s.array.data + i * Size(s.array)
  IN  [w EXCEPT ![x] = w[x + 1], ![x + 1] = w[x]]

Step(loop, s, z, m, w, i) ==
  IF loop = "flip" THEN FlipVertex(s, w, i)
  ELSE IF loop = "exchange"
  THEN Filled(w, s.array.data + i * VertexSize(z, m) + 2, 1, IF m THEN DefaultM ELSE DefaultZ)
  ELSE IF loop = "narrow" THEN Narrowed(w, s.array, s.top + 1, z, m, i)
  ELSE Widened(w, s.array, z, m, i)

(* The memory before the loop and after each of its steps.                 *)
Ascends(after, memory, loop, s, z, m, n) ==
  after = [i \in 0..n |->
             IF i = 0 THEN memory ELSE Step(loop, s, z, m, after[i - 1], i - 1)]

LEMMA AscendingDefined ==
  ASSUME NEW memory, NEW loop, NEW s, NEW z, NEW m, NEW n \in Nat
  PROVE  \E after : Ascends(after, memory, loop, s, z, m, n)
<1> DEFINE S == {k \in Nat : \E f : Ascends(f, memory, loop, s, z, m, k)}
<1>1. 0 \in S
  <2>1. Ascends([i \in 0..0 |-> memory], memory, loop, s, z, m, 0)
    BY DEF Ascends
  <2> QED
    BY <2>1
<1>2. ASSUME NEW k \in Nat, k \in S PROVE k + 1 \in S
  <2>1. PICK f : Ascends(f, memory, loop, s, z, m, k)
    BY <1>2
  <2> DEFINE last == Step(loop, s, z, m, f[k], k)
             g    == [i \in 0..k + 1 |-> IF i = k + 1 THEN last ELSE f[i]]
  <2>2. ASSUME NEW i \in 0..k + 1
        PROVE  g[i] = IF i = 0 THEN memory ELSE Step(loop, s, z, m, g[i - 1], i - 1)
    <3>1. CASE i = k + 1
      <4>1. g[i] = last /\ i - 1 = k /\ g[i - 1] = f[k] /\ i # 0
        BY <3>1
      <4> HIDE DEF g
      <4> QED
        BY <4>1
    <3>2. CASE i # k + 1
      <4>1. i \in 0..k /\ g[i] = f[i] /\ (i # 0 => g[i - 1] = f[i - 1])
        BY <3>2
      <4>2. f[i] = IF i = 0 THEN memory ELSE Step(loop, s, z, m, f[i - 1], i - 1)
        BY <2>1, <4>1 DEF Ascends
      <4> HIDE DEF g
      <4> QED
        BY <4>1, <4>2
    <3> QED
      BY <3>1, <3>2
  <2>3. Ascends(g, memory, loop, s, z, m, k + 1)
    <3>1. g = [i \in 0..k + 1 |-> g[i]]
      OBVIOUS
    <3> HIDE DEF g
    <3> QED
      BY <2>2, <3>1 DEF Ascends
  <2> QED
    BY <2>3
<1>3. n \in S
  <2> HIDE DEF S
  <2>1. \A k \in 0..n : k < n /\ k \in S => k + 1 \in S
    BY <1>2
  <2>2. \A k \in 0..n : k \in S
    BY <1>1, <2>1, Induction
  <2> QED
    BY <2>2
<1> QED
  BY <1>3

LEMMA FlippedIs ==
  ASSUME NEW h \in Arrays, NEW s, Fits(h, s)
  PROVE  \E after :
           /\ Ascends(after, s.mem, "flip", s, FALSE, FALSE, s.array.count)
           /\ Flipped(s).mem = after[s.array.count]
<1> PICK n \in Nat : n = s.array.count
  BY DEF Fits, ArrayType
<1> DEFINE Loop(f) == f = [i \in 0..n |-> IF i = 0 THEN s.mem ELSE FlipVertex(s, f[i - 1], i - 1)]
<1>1. \A f : Ascends(f, s.mem, "flip", s, FALSE, FALSE, n) <=> Loop(f)
  BY DEF Ascends, Step
<1>2. Flipped(s).mem = (CHOOSE f : Loop(f))[n]
  <2>1. s = [mem |-> s.mem, top |-> s.top, array |-> s.array]
    BY DEF Fits
  <2>2. Flipped(s) = [s EXCEPT !.mem = (CHOOSE f : Loop(f))[n]]
    BY DEF Flipped, Ascending, FlipVertex
  <2> QED
    BY <2>1, <2>2
<1>3. Loop(CHOOSE f : Loop(f))
  <2>1. \E f : Ascends(f, s.mem, "flip", s, FALSE, FALSE, n)
    BY AscendingDefined
  <2> HIDE DEF Loop
  <2> QED
    BY <1>1, <2>1
<1> QED
  BY <1>1, <1>2, <1>3

LEMMA ExchangedIs ==
  ASSUME NEW h \in Arrays, NEW s, Fits(h, s), NEW z, NEW m
  PROVE  \E after :
           /\ Ascends(after, s.mem, "exchange", s, z, m, s.array.count)
           /\ Exchanged(s, z, m) = [mem |-> after[s.array.count], top |-> s.top, array |-> s.array]
<1> PICK n \in Nat : n = s.array.count
  BY DEF Fits, ArrayType
<1> DEFINE Loop(f) ==
      f = [i \in 0..n |->
             IF i = 0 THEN s.mem
             ELSE Filled(f[i - 1], s.array.data + (i - 1) * VertexSize(z, m) + 2, 1,
                         IF m THEN DefaultM ELSE DefaultZ)]
<1>1. \A f : Ascends(f, s.mem, "exchange", s, z, m, n) <=> Loop(f)
  BY DEF Ascends, Step
<1>2. Exchanged(s, z, m) = [mem |-> (CHOOSE f : Loop(f))[n], top |-> s.top, array |-> s.array]
  <2>1. s = [mem |-> s.mem, top |-> s.top, array |-> s.array]
    BY DEF Fits
  <2>2. Exchanged(s, z, m) = [s EXCEPT !.mem = (CHOOSE f : Loop(f))[n]]
    BY DEF Exchanged, Ascending
  <2> QED
    BY <2>1, <2>2
<1>3. Loop(CHOOSE f : Loop(f))
  <2>1. \E f : Ascends(f, s.mem, "exchange", s, z, m, n)
    BY AscendingDefined
  <2> HIDE DEF Loop
  <2> QED
    BY <1>1, <2>1
<1> QED
  BY <1>1, <1>2, <1>3

LEMMA ShortenedIs ==
  ASSUME NEW h \in Arrays, NEW s, Fits(h, s), NEW z, NEW m,
         NEW new, new = s.array.count * VertexSize(z, m)
  PROVE  \E after :
           /\ Ascends(after, Filled(s.mem, s.top + 1, new, Zero), "narrow", s, z, m, s.array.count)
           /\ Shortened(s, z, m) = [mem |-> after[s.array.count], top |-> s.top + new,
                                    array |-> [s.array EXCEPT !.data = s.top + 1]]
<1> PICK n \in Nat : n = s.array.count
  BY DEF Fits, ArrayType
<1> DEFINE Loop(f) ==
      f = [i \in 0..n |->
             IF i = 0 THEN Filled(s.mem, s.top + 1, new, Zero)
             ELSE Narrowed(f[i - 1], s.array, s.top + 1, z, m, i - 1)]
<1>1. \A f : Ascends(f, Filled(s.mem, s.top + 1, new, Zero), "narrow", s, z, m, n) <=> Loop(f)
  BY DEF Ascends, Step
<1>2. Shortened(s, z, m) = [mem |-> (CHOOSE f : Loop(f))[n], top |-> s.top + new,
                            array |-> [s.array EXCEPT !.data = s.top + 1]]
  BY DEF Shortened, Ascending
<1>3. Loop(CHOOSE f : Loop(f))
  <2>1. \E f : Ascends(f, Filled(s.mem, s.top + 1, new, Zero), "narrow", s, z, m, n)
    BY AscendingDefined
  <2> HIDE DEF Loop
  <2> QED
    BY <1>1, <2>1
<1> QED
  BY <1>1, <1>2, <1>3

(* The loop from the last vertex to the first.                             *)
Descends(after, memory, a, z, m, n) ==
  after = [i \in 0..n |->
             IF i = n THEN memory ELSE Widened(after[i + 1], a, z, m, i)]

LEMMA DescendingDefined ==
  ASSUME NEW memory, NEW a, NEW z, NEW m, NEW n \in Nat
  PROVE  \E after : Descends(after, memory, a, z, m, n)
<1> DEFINE From(f, k) ==
             f = [i \in n - k..n |-> IF i = n THEN memory ELSE Widened(f[i + 1], a, z, m, i)]
           S == {k \in 0..n : \E f : From(f, k)}
<1>1. 0 \in S
  <2> DEFINE f == [i \in n - 0..n |-> memory]
  <2>1. f = [i \in n - 0..n |-> IF i = n THEN memory ELSE Widened(f[i + 1], a, z, m, i)]
    <3>1. \A i \in n - 0..n : i = n
      OBVIOUS
    <3>2. f = [i \in n - 0..n |-> memory]
      OBVIOUS
    <3> HIDE DEF f
    <3> QED
      BY <3>1, <3>2
  <2>2. From(f, 0)
    BY <2>1
  <2> HIDE DEF From, f
  <2> QED
    BY <2>2
<1>2. ASSUME NEW k \in 0..n, k < n, k \in S PROVE k + 1 \in S
  <2>1. PICK f : f = [i \in n - k..n |->
                   IF i = n THEN memory ELSE Widened(f[i + 1], a, z, m, i)]
    BY <1>2
  <2> PICK j \in 0..n : j = n - (k + 1)
    BY <1>2
  <2> DEFINE last == Widened(f[j + 1], a, z, m, j)
             g    == [i \in j..n |-> IF i = j THEN last ELSE f[i]]
  <2>2. ASSUME NEW i \in j..n
        PROVE  g[i] = IF i = n THEN memory ELSE Widened(g[i + 1], a, z, m, i)
    <3>1. CASE i = j
      <4>1. g[i] = last /\ g[i + 1] = f[j + 1] /\ i # n
        BY <1>2, <3>1
      <4> HIDE DEF g
      <4> QED
        BY <3>1, <4>1
    <3>2. CASE i # j
      <4>1. i \in n - k..n /\ g[i] = f[i] /\ (i # n => g[i + 1] = f[i + 1])
        BY <1>2, <3>2
      <4>2. f[i] = IF i = n THEN memory ELSE Widened(f[i + 1], a, z, m, i)
        BY <2>1, <4>1
      <4> HIDE DEF g
      <4> QED
        BY <4>1, <4>2
    <3> QED
      BY <3>1, <3>2
  <2>3. g = [i \in j..n |-> IF i = n THEN memory ELSE Widened(g[i + 1], a, z, m, i)]
    <3>1. g = [i \in j..n |-> g[i]]
      OBVIOUS
    <3> HIDE DEF g
    <3> QED
      BY <2>2, <3>1
  <2>4. j..n = n - (k + 1)..n /\ k + 1 \in 0..n
    BY <1>2
  <2> QED
    BY <2>3, <2>4
<1>3. n \in S
  <2> HIDE DEF S, From
  <2>1. \A k \in 0..n : k < n /\ k \in S => k + 1 \in S
    BY <1>2
  <2>2. \A k \in 0..n : k \in S
    BY <1>1, <2>1, Induction
  <2> QED
    BY <2>2
<1>4. n - n..n = 0..n
  OBVIOUS
<1> QED
  BY <1>3, <1>4 DEF Descends

LEMMA GrownIs ==
  ASSUME NEW h \in Arrays, NEW s, Fits(h, s), NEW z \in BOOLEAN, NEW m \in BOOLEAN,
         NEW inPlace \in BOOLEAN
  PROVE  LET r == Reallocated(s, s.array.count * VertexSize(z, m), inPlace)
         IN  \E after :
               /\ Descends(after, r.mem, r.array, z, m, s.array.count)
               /\ Grown(s, z, m, inPlace) = [mem |-> after[0], top |-> r.top, array |-> r.array]
<1>1. s.array \in ArrayType
  BY DEF Fits
<1> PICK n \in Nat : n = s.array.count
  BY <1>1 DEF ArrayType
<1>2. s.array.count * VertexSize(z, m) \in Nat
  BY <1>1, Sizes, ArraySizes, Multiples
<1> PICK r : r = Reallocated(s, s.array.count * VertexSize(z, m), inPlace)
  OBVIOUS
<1> DEFINE Loop(f) ==
      f = [i \in 0..n |-> IF i = n THEN r.mem ELSE Widened(f[i + 1], r.array, z, m, i)]
<1>3. Grown(s, z, m, inPlace) = [mem |-> (CHOOSE f : Loop(f))[0], top |-> r.top, array |-> r.array]
  <2>1. r = [mem |-> r.mem, top |-> r.top, array |-> r.array]
    BY <1>2, ReallocatedArray
  <2>2. Grown(s, z, m, inPlace) = [r EXCEPT !.mem = (CHOOSE f : Loop(f))[0]]
    BY DEF Grown, Descending
  <2> QED
    BY <2>1, <2>2
<1>4. \A f : Descends(f, r.mem, r.array, z, m, n) <=> Loop(f)
  BY DEF Descends
<1>5. Loop(CHOOSE f : Loop(f))
  <2>1. \E f : Descends(f, r.mem, r.array, z, m, n)
    BY DescendingDefined
  <2> HIDE DEF Loop
  <2> QED
    BY <1>4, <2>1
<1> QED
  BY <1>3, <1>4, <1>5

-----------------------------------------------------------------------------
(* The words of vertex i, and those of some vertices.                      *)
Block(a, i) == a.data + i * Size(a)..a.data + i * Size(a) + Size(a) - 1

Blocks(a, vertices) == UNION {Block(a, i) : i \in vertices}

VertexAt(memory, a, i, value) ==
  \A d \in Values!Dims(a.z, a.m) : Word(memory, a, i, d) = value[d]

(* The array has these vertices. *)
Reads(memory, a, values) ==
  ReadVertices(memory, a) =
    [i \in 1..a.count |-> [d \in Values!Dims(a.z, a.m) |-> values[i - 1][d]]]

(* A step that writes the words of vertex i and no other.                  *)
Writes(before, after, a, i, value) ==
  /\ Memory(after)
  /\ Same(after, before, (1..ArenaSize) \ Block(a, i))
  /\ VertexAt(after, a, i, value)

(* The memory when some vertices are written.                              *)
Written(before, after, a, vertices, values) ==
  /\ Memory(after)
  /\ Same(after, before, (1..ArenaSize) \ Blocks(a, vertices))
  /\ \A i \in vertices : VertexAt(after, a, i, values[i])

LEMMA BlockArithmetic ==
  ASSUME NEW v \in {2, 3, 4}, NEW i \in Nat, NEW n \in Nat, NEW p \in Nat
  PROVE  /\ \A j \in Nat : i # j =>
              (p + i * v..p + i * v + v - 1) \cap (p + j * v..p + j * v + v - 1) = {}
         /\ i < n => p + i * v..p + i * v + v - 1 \subseteq p..p + n * v - 1
         /\ \A o \in Nat : o < v => p + (i * v + o) \in p + i * v..p + i * v + v - 1
<1>1. CASE v = 2
  BY <1>1
<1>2. CASE v = 3
  BY <1>2
<1>3. CASE v = 4
  BY <1>3
<1> QED
  BY <1>1, <1>2, <1>3

LEMMA BlockIs ==
  ASSUME NEW a \in ArrayType, NEW i \in Nat, i < a.count
  PROVE  /\ Block(a, i) \subseteq Region(a)
         /\ \A j \in Nat : i # j => Block(a, i) \cap Block(a, j) = {}
         /\ \A d \in Values!Dims(a.z, a.m) : a.data + Place(a, i, d) \in Block(a, i)
<1>1. /\ Size(a) \in {2, 3, 4} /\ a.data \in Nat /\ a.count \in Nat
      /\ a.z \in BOOLEAN /\ a.m \in BOOLEAN
      /\ Region(a) = a.data..a.data + a.count * Size(a) - 1
  BY ArraySizes DEF Region, Words
<1>2. \A d \in Values!Dims(a.z, a.m) : Offset(d, a.z) \in Nat /\ Offset(d, a.z) < Size(a)
  BY <1>1, OffsetIs DEF Size
<1>3. /\ \A j \in Nat : i # j => Block(a, i) \cap Block(a, j) = {}
      /\ Block(a, i) \subseteq Region(a)
      /\ \A o \in Nat : o < Size(a) => a.data + (i * Size(a) + o) \in Block(a, i)
  <2>a. PICK v \in {2, 3, 4}, p \in Nat, n \in Nat : v = Size(a) /\ p = a.data /\ n = a.count
    BY <1>1
  <2>1. /\ \A j \in Nat : Block(a, j) = p + j * v..p + j * v + v - 1
        /\ Region(a) = p..p + n * v - 1 /\ i < n
    BY <1>1, <2>a DEF Block
  <2>2. /\ \A j \in Nat : i # j =>
             (p + i * v..p + i * v + v - 1) \cap (p + j * v..p + j * v + v - 1) = {}
        /\ p + i * v..p + i * v + v - 1 \subseteq p..p + n * v - 1
        /\ \A o \in Nat : o < v => p + (i * v + o) \in p + i * v..p + i * v + v - 1
    <3>1. i < n
      BY <2>1
    <3> QED
      BY <3>1, BlockArithmetic
  <2>3. \A j \in Nat : i # j => Block(a, i) \cap Block(a, j) = {}
    BY Zenon, <2>1, <2>2
  <2>4. Block(a, i) \subseteq Region(a)
    BY Zenon, <2>1, <2>2
  <2>5. \A o \in Nat : o < v => p + (i * v + o) \in Block(a, i)
    BY Zenon, <2>1, <2>2
  <2> QED
    BY <2>3, <2>4, <2>5, <2>a
<1> QED
  BY Zenon, <1>2, <1>3 DEF Place

LEMMA OneMoreWritten ==
  ASSUME NEW a \in ArrayType, Region(a) \subseteq 1..ArenaSize,
         NEW vertices, vertices \subseteq 0..a.count - 1, NEW i \in (0..a.count - 1) \ vertices,
         NEW before, NEW now, NEW after, NEW values,
         Written(before, now, a, vertices, values), Writes(now, after, a, i, values[i])
  PROVE  Written(before, after, a, vertices \cup {i}, values)
<1>1. a.count \in Nat /\ \A j \in 0..a.count - 1 : j \in Nat /\ j < a.count
  BY ArraySizes
<1>2. Blocks(a, vertices \cup {i}) = Blocks(a, vertices) \cup Block(a, i)
  BY DEF Blocks
<1>3. Same(after, before, (1..ArenaSize) \ Blocks(a, vertices \cup {i}))
  BY Zenon, <1>2 DEF Written, Writes, Same
<1>4. ASSUME NEW j \in vertices PROVE VertexAt(after, a, j, values[j])
  <2>1. VertexAt(now, a, j, values[j])
    BY DEF Written
  <2>2. j \in Nat /\ j < a.count /\ i \in Nat /\ i < a.count /\ j # i
    BY <1>1
  <2>3. \A d \in Values!Dims(a.z, a.m) :
          a.data + Place(a, j, d) \in (1..ArenaSize) \ Block(a, i)
    BY <2>2, BlockIs
  <2> QED
    BY Zenon, <2>1, <2>3 DEF VertexAt, Word, Writes, Same
<1> QED
  BY <1>3, <1>4 DEF Written, Writes

(* A loop that writes the vertices one after the other, ...                *)
LEMMA AscendingWrites ==
  ASSUME NEW a \in ArrayType, Region(a) \subseteq 1..ArenaSize,
         NEW f, Memory(f[0]), NEW values,
         \A i \in 0..a.count - 1 :
           Written(f[0], f[i], a, 0..i - 1, values) => Writes(f[i], f[i + 1], a, i, values[i])
  PROVE  Written(f[0], f[a.count], a, 0..a.count - 1, values)
<1> PICK n \in Nat : n = a.count
  BY ArraySizes
<1> DEFINE S == {k \in 0..n : Written(f[0], f[k], a, 0..k - 1, values)}
<1>1. 0 \in S
  <2>1. 0..0 - 1 = {}
    OBVIOUS
  <2>2. Written(f[0], f[0], a, {}, values)
    BY DEF Written, Same
  <2> QED
    BY <2>1, <2>2
<1>2. ASSUME NEW k \in 0..n, k < n, k \in S PROVE k + 1 \in S
  <2>1. k \in 0..n - 1 /\ k \notin 0..k - 1 /\ 0..k - 1 \subseteq 0..n - 1 /\ k + 1 \in 0..n
    BY <1>2
  <2>2. Written(f[0], f[k], a, 0..k - 1, values) /\ Writes(f[k], f[k + 1], a, k, values[k])
    BY <1>2, <2>1
  <2>3. Written(f[0], f[k + 1], a, (0..k - 1) \cup {k}, values)
    BY <2>1, <2>2, OneMoreWritten
  <2>4. (0..k - 1) \cup {k} = 0..(k + 1) - 1
    OBVIOUS
  <2> QED
    BY <2>1, <2>3, <2>4
<1>3. n \in S
  <2> HIDE DEF S
  <2>1. \A k \in 0..n : k < n /\ k \in S => k + 1 \in S
    BY <1>2
  <2>2. \A k \in 0..n : k \in S
    BY <1>1, <2>1, Induction
  <2> QED
    BY <2>2
<1> QED
  BY <1>3

(* ... and one that comes from the last to the first.                      *)
LEMMA DescendingWrites ==
  ASSUME NEW a \in ArrayType, Region(a) \subseteq 1..ArenaSize,
         NEW f, Memory(f[a.count]), NEW values,
         \A i \in 0..a.count - 1 :
           Written(f[a.count], f[i + 1], a, i + 1..a.count - 1, values)
             => Writes(f[i + 1], f[i], a, i, values[i])
  PROVE  Written(f[a.count], f[0], a, 0..a.count - 1, values)
<1> PICK n \in Nat : n = a.count
  BY ArraySizes
<1> DEFINE S == {k \in 0..n : Written(f[n], f[n - k], a, n - k..n - 1, values)}
<1>1. 0 \in S
  <2>1. n - 0..n - 1 = {} /\ n - 0 = n
    OBVIOUS
  <2>2. Written(f[n], f[n], a, {}, values)
    BY DEF Written, Same
  <2> QED
    BY <2>1, <2>2
<1>2. ASSUME NEW k \in 0..n, k < n, k \in S PROVE k + 1 \in S
  <2> PICK i \in 0..n - 1 : i = n - (k + 1)
    BY <1>2
  <2>1. /\ i + 1 = n - k /\ i \notin i + 1..n - 1 /\ i + 1..n - 1 \subseteq 0..n - 1
        /\ k + 1 \in 0..n
    BY <1>2
  <2>2. Written(f[n], f[i + 1], a, i + 1..n - 1, values)
    BY <1>2, <2>1
  <2>3. Writes(f[i + 1], f[i], a, i, values[i])
    BY <2>2
  <2>4. Written(f[n], f[i], a, (i + 1..n - 1) \cup {i}, values)
    BY <2>1, <2>2, <2>3, OneMoreWritten
  <2>5. (i + 1..n - 1) \cup {i} = n - (k + 1)..n - 1
    OBVIOUS
  <2> QED
    BY <2>1, <2>4, <2>5
<1>3. n \in S
  <2> HIDE DEF S
  <2>1. \A k \in 0..n : k < n /\ k \in S => k + 1 \in S
    BY <1>2
  <2>2. \A k \in 0..n : k \in S
    BY <1>1, <2>1, Induction
  <2> QED
    BY <2>2
<1>4. n - n..n - 1 = 0..n - 1 /\ n - n = 0
  OBVIOUS
<1> QED
  BY <1>3, <1>4

(* When all vertices are written, nothing else is.                         *)
LEMMA AllWritten ==
  ASSUME NEW a \in ArrayType, NEW before, NEW after, NEW values,
         Written(before, after, a, 0..a.count - 1, values)
  PROVE  /\ Memory(after) /\ Same(after, before, (1..ArenaSize) \ Region(a))
         /\ Reads(after, a, values)
<1>1. a.count \in Nat /\ \A j \in 0..a.count - 1 : j \in Nat /\ j < a.count
  BY ArraySizes
<1>2. Blocks(a, 0..a.count - 1) \subseteq Region(a)
  BY <1>1, BlockIs DEF Blocks
<1>3. ASSUME NEW i \in 1..a.count, NEW d \in Values!Dims(a.z, a.m)
      PROVE  Word(after, a, i - 1, d) = values[i - 1][d]
  <2>1. i - 1 \in 0..a.count - 1
    BY <1>1
  <2> QED
    BY Zenon, <2>1 DEF Written, VertexAt
<1>4. ReadVertices(after, a) = [i \in 1..a.count |->
        [d \in Values!Dims(a.z, a.m) |-> Word(after, a, i - 1, d)]]
  BY Zenon, ReadIs
<1>5. Reads(after, a, values)
  BY Zenon, <1>3, <1>4 DEF Reads
<1> QED
  BY Zenon, <1>2, <1>5 DEF Written, Same

(* The words of vertex i are where its dimensions are, ...                 *)
LEMMA WordIs ==
  ASSUME NEW a \in ArrayType, NEW i \in Nat, i < a.count, NEW memory
  PROVE  /\ a.data + i * Size(a) \in Nat
         /\ \A d \in Values!Dims(a.z, a.m) :
              /\ Word(memory, a, i, d) = memory[a.data + i * Size(a) + Offset(d, a.z)]
              /\ a.data + i * Size(a) + Offset(d, a.z) \in Block(a, i)
<1>1. a.data \in Nat /\ a.count \in Nat /\ Size(a) \in {2, 3, 4}
  BY ArraySizes
<1>2. i * Size(a) \in Nat
  BY <1>1, Multiples
<1>3. \A d \in Values!Dims(a.z, a.m) :
        a.data + i * Size(a) + Offset(d, a.z) = a.data + Place(a, i, d)
  BY PlaceIs
<1>4. \A d \in Values!Dims(a.z, a.m) : a.data + Place(a, i, d) \in Block(a, i)
  BY BlockIs
<1> QED
  BY <1>1, <1>2, <1>3, <1>4 DEF Word

(* ... and untouched as long as only other vertices are written.           *)
LEMMA Unwritten ==
  ASSUME NEW a \in ArrayType, Region(a) \subseteq 1..ArenaSize,
         NEW i \in 0..a.count - 1, NEW vertices, vertices \subseteq (0..a.count - 1) \ {i},
         NEW before, NEW after, NEW values, Written(before, after, a, vertices, values)
  PROVE  Same(after, before, Block(a, i))
<1>1. a.count \in Nat /\ i \in Nat /\ i < a.count /\ \A j \in vertices : j \in Nat /\ i # j
  BY ArraySizes
<1>2. /\ Block(a, i) \subseteq Region(a)
      /\ \A j \in vertices : Block(a, i) \cap Block(a, j) = {}
  BY <1>1, BlockIs
<1>3. Block(a, i) \subseteq (1..ArenaSize) \ Blocks(a, vertices)
  BY Zenon, <1>2 DEF Blocks
<1> QED
  BY Zenon, <1>3 DEF Written, Same

(* The vertices of an array with x and y exchanged.                        *)
FlipValues(memory, a) ==
  [i \in 0..a.count - 1 |->
     [d \in Values!Dims(a.z, a.m) |->
        Word(memory, a, i, IF d = "x" THEN "y" ELSE IF d = "y" THEN "x" ELSE d)]]

LEMMA FlipWrites ==
  ASSUME NEW s, s.array \in ArrayType, Region(s.array) \subseteq 1..ArenaSize,
         NEW i \in 0..s.array.count - 1, NEW memory, NEW w, Memory(w),
         Same(w, memory, Block(s.array, i))
  PROVE  Writes(w, FlipVertex(s, w, i), s.array, i, FlipValues(memory, s.array)[i])
<1> PICK a \in ArrayType : a = s.array
  OBVIOUS
<1>1. i \in Nat /\ i < a.count
  BY ArraySizes
<1> PICK x \in Nat : x = a.data + i * Size(a)
  BY <1>1, WordIs
<1> PICK after : after = FlipVertex(s, w, i)
  OBVIOUS
<1>2. after = [w EXCEPT ![x] = w[x + 1], ![x + 1] = w[x]]
  BY DEF FlipVertex
<1>3. ASSUME NEW d \in Values!Dims(a.z, a.m)
      PROVE  /\ x + Offset(d, a.z) \in Block(a, i)
             /\ \A words : Word(words, a, i, d) = words[x + Offset(d, a.z)]
  <2>1. x + Offset(d, a.z) \in Block(a, i)
    BY <1>1, WordIs
  <2>2. ASSUME NEW words PROVE Word(words, a, i, d) = words[x + Offset(d, a.z)]
    BY <1>1, WordIs
  <2> QED
    BY <2>1, <2>2
<1>4. a.z \in BOOLEAN /\ a.m \in BOOLEAN
  BY ArraySizes
<1>5. /\ "x" \in Values!Dims(a.z, a.m) /\ "y" \in Values!Dims(a.z, a.m)
      /\ Offset("x", a.z) = 0 /\ Offset("y", a.z) = 1
      /\ \A d \in Values!Dims(a.z, a.m) \ {"x", "y"} : Offset(d, a.z) \in {2, 3}
  BY <1>4 DEF Values!Dims, Offset
<1>6. x \in Block(a, i) /\ x + 1 \in Block(a, i)
  BY <1>3, <1>5
<1>7. Block(a, i) \subseteq 1..ArenaSize
  BY <1>1, BlockIs
<1>8. /\ DOMAIN after = 1..ArenaSize
      /\ after[x] = w[x + 1] /\ after[x + 1] = w[x]
      /\ \A p \in 1..ArenaSize : p # x /\ p # x + 1 => after[p] = w[p]
  BY <1>2, <1>6, <1>7 DEF Memory
<1>9. Same(after, w, (1..ArenaSize) \ Block(a, i))
  BY Zenon, <1>6, <1>8 DEF Same
<1>10. ASSUME NEW d \in Values!Dims(a.z, a.m)
       PROVE  Word(after, a, i, d) = FlipValues(memory, a)[i][d]
  <2>1. FlipValues(memory, a)[i][d] =
          Word(memory, a, i, IF d = "x" THEN "y" ELSE IF d = "y" THEN "x" ELSE d)
    BY DEF FlipValues
  <2>2. /\ Word(after, a, i, d) = after[x + Offset(d, a.z)]
        /\ Word(memory, a, i, d) = memory[x + Offset(d, a.z)]
        /\ Word(memory, a, i, "x") = memory[x] /\ Word(memory, a, i, "y") = memory[x + 1]
        /\ x + 0 = x
    BY <1>3, <1>5
  <2>3. w[x] = memory[x] /\ w[x + 1] = memory[x + 1]
    BY Zenon, <1>6 DEF Same
  <2>4. CASE d = "x"
    BY <1>5, <1>8, <2>1, <2>2, <2>3, <2>4
  <2>5. CASE d = "y"
    BY <1>5, <1>8, <2>1, <2>2, <2>3, <2>5
  <2>6. CASE d # "x" /\ d # "y"
    <3> PICK p \in 1..ArenaSize : p = x + Offset(d, a.z) /\ p \in Block(a, i)
      BY Zenon, <1>3, <1>7
    <3>1. p # x /\ p # x + 1
      BY <1>5, <2>6
    <3>2. after[p] = memory[p]
      BY Zenon, <1>8, <3>1 DEF Same
    <3> QED
      BY <2>1, <2>2, <2>6, <3>2
  <2> QED
    BY <2>4, <2>5, <2>6
<1> QED
  BY <1>8, <1>9, <1>10 DEF Writes, VertexAt, Memory

(* Within the memory, and apart from what others have.                     *)
LEMMA RegionOf ==
  ASSUME Inv, NEW h \in Arrays, NEW s, Fits(h, s), s.top <= ArenaSize, s.array.owning, Alone(h, s)
  PROVE  /\ s.array \in ArrayType /\ Region(s.array) \subseteq 1..ArenaSize
         /\ Elsewhere(h) \subseteq (1..ArenaSize) \ Region(s.array)
<1>1. s.top \in Nat /\ Region(s.array) \subseteq 1..s.top /\ s.array \in ArrayType
  BY DEF Fits
<1>2. 1..s.top \subseteq 1..ArenaSize
  BY <1>1, SizesAssumption
<1>3. Elsewhere(h) \subseteq 1..s.top /\ Region(s.array) \cap Elsewhere(h) = {}
  BY ElsewhereIs
<1> QED
  BY <1>1, <1>2, <1>3

LEMMA FlippedSound ==
  ASSUME Inv, NEW h \in Arrays, NEW s, Sound(h, s), s.array.owning, Alone(h, s)
  PROVE  /\ Sound(h, Flipped(s)) /\ Flipped(s).array = s.array
         /\ Reads(Flipped(s).mem, s.array, FlipValues(s.mem, s.array))
<1>1. /\ Fits(h, s) /\ Memory(s.mem) /\ s.top <= ArenaSize /\ Same(s.mem, mem, Elsewhere(h))
      /\ s = [mem |-> s.mem, top |-> s.top, array |-> s.array]
  BY DEF Sound, Fits
<1>2. /\ s.array \in ArrayType /\ Region(s.array) \subseteq 1..ArenaSize
      /\ Elsewhere(h) \subseteq (1..ArenaSize) \ Region(s.array)
  BY <1>1, RegionOf
<1>3. PICK f : /\ Ascends(f, s.mem, "flip", s, FALSE, FALSE, s.array.count)
               /\ Flipped(s).mem = f[s.array.count]
  BY <1>1, FlippedIs
<1>4. s.array.count \in Nat
  BY <1>2, ArraySizes
<1>5. f[0] = s.mem /\ \A i \in 0..s.array.count - 1 : f[i + 1] = FlipVertex(s, f[i], i)
  <2>1. \A i \in 0..s.array.count :
          f[i] = IF i = 0 THEN s.mem ELSE Step("flip", s, FALSE, FALSE, f[i - 1], i - 1)
    BY <1>3 DEF Ascends
  <2>2. 0 \in 0..s.array.count
    BY <1>4
  <2>3. \A i \in 0..s.array.count - 1 : i + 1 \in 0..s.array.count /\ i + 1 # 0 /\ (i + 1) - 1 = i
    BY <1>4
  <2>4. \A i \in 0..s.array.count - 1 : f[i + 1] = Step("flip", s, FALSE, FALSE, f[i], i)
    BY Zenon, <2>1, <2>3
  <2> QED
    BY <2>1, <2>2, <2>4 DEF Step
<1>v. PICK values : values = FlipValues(s.mem, s.array)
  OBVIOUS
<1>6. ASSUME NEW i \in 0..s.array.count - 1, Written(f[0], f[i], s.array, 0..i - 1, values)
      PROVE  Writes(f[i], f[i + 1], s.array, i, values[i])
  <2>1. 0..i - 1 \subseteq (0..s.array.count - 1) \ {i}
    BY <1>4
  <2>2. Same(f[i], f[0], Block(s.array, i))
    BY Zenon, <1>2, <1>6, <2>1, Unwritten
  <2>3. Memory(f[i])
    BY <1>6 DEF Written
  <2>4. Same(f[i], s.mem, Block(s.array, i))
    BY <1>5, <2>2
  <2>5. Writes(f[i], FlipVertex(s, f[i], i), s.array, i, FlipValues(s.mem, s.array)[i])
    BY Zenon, <1>2, <2>3, <2>4, FlipWrites
  <2> QED
    BY <1>5, <1>v, <2>5
<1>7. Written(f[0], f[s.array.count], s.array, 0..s.array.count - 1, values)
  <2>1. Memory(f[0])
    BY <1>1, <1>5
  <2> QED
    BY Zenon, <1>2, <1>6, <2>1, AscendingWrites
<1>8. /\ Memory(f[s.array.count]) /\ Same(f[s.array.count], f[0], (1..ArenaSize) \ Region(s.array))
      /\ Reads(f[s.array.count], s.array, values)
  BY Zenon, <1>2, <1>7, AllWritten
<1>9. Flipped(s) = [s EXCEPT !.mem = f[s.array.count]]
  <2>1. PICK words : Flipped(s) = [s EXCEPT !.mem = words]
    BY DEF Flipped
  <2> QED
    BY <1>1, <1>3, <2>1
<1>10. Flipped(s).array = s.array /\ Flipped(s).top = s.top
  BY <1>1, <1>9
<1>11. Same(f[s.array.count], mem, Elsewhere(h))
  BY Zenon, <1>1, <1>2, <1>5, <1>8 DEF Same
<1> QED
  BY <1>1, <1>3, <1>8, <1>10, <1>11, <1>v, FlippedFits DEF Sound

(* The vertices of an array with the dimensions of another type: those it  *)
(* has already, and defaults.                                              *)
Default(d) == IF d = "z" THEN DefaultZ ELSE DefaultM

ConvertedValues(memory, c, z, m) ==
  [i \in 0..c.count - 1 |->
     [d \in Values!Dims(z, m) |->
        IF d \in Values!Dims(c.z, c.m) THEN Word(memory, c, i, d) ELSE Default(d)]]

(* The words of one vertex at "from" as they should be at "to".            *)
Converts(after, to, z, m, memory, from, cz, cm) ==
  \A d \in Values!Dims(z, m) :
    after[to + Offset(d, z)] =
      IF d \in Values!Dims(cz, cm) THEN memory[from + Offset(d, cz)] ELSE Default(d)

LEMMA ConvertWrites ==
  ASSUME NEW c \in ArrayType, NEW b \in ArrayType, b.count = c.count,
         NEW i \in 0..c.count - 1, NEW memory, NEW w, NEW after, Memory(after),
         Same(after, w, (1..ArenaSize) \ Block(b, i)),
         Converts(after, b.data + i * Size(b), b.z, b.m,
                  memory, c.data + i * Size(c), c.z, c.m)
  PROVE  Writes(w, after, b, i, ConvertedValues(memory, c, b.z, b.m)[i])
<1>1. i \in Nat /\ i < c.count /\ i < b.count
  BY ArraySizes
<1>2. ASSUME NEW d \in Values!Dims(b.z, b.m)
      PROVE  Word(after, b, i, d) = ConvertedValues(memory, c, b.z, b.m)[i][d]
  <2>1. Word(after, b, i, d) = after[b.data + i * Size(b) + Offset(d, b.z)]
    BY Zenon, <1>1, WordIs
  <2>2. ConvertedValues(memory, c, b.z, b.m)[i][d] =
          IF d \in Values!Dims(c.z, c.m) THEN Word(memory, c, i, d) ELSE Default(d)
    BY DEF ConvertedValues
  <2>3. after[b.data + i * Size(b) + Offset(d, b.z)] =
          IF d \in Values!Dims(c.z, c.m) THEN memory[c.data + i * Size(c) + Offset(d, c.z)]
          ELSE Default(d)
    BY Zenon DEF Converts
  <2>4. CASE d \in Values!Dims(c.z, c.m)
    <3>1. Word(memory, c, i, d) = memory[c.data + i * Size(c) + Offset(d, c.z)]
      BY Zenon, <1>1, <2>4, WordIs
    <3> QED
      BY Zenon, <2>1, <2>2, <2>3, <2>4, <3>1
  <2>5. CASE d \notin Values!Dims(c.z, c.m)
    BY Zenon, <2>1, <2>2, <2>3, <2>5
  <2> QED
    BY <2>4, <2>5
<1> QED
  BY Zenon, <1>2 DEF Writes, VertexAt

LEMMA FilledWord ==
  ASSUME NEW w, Memory(w), NEW to \in Nat, to \in 1..ArenaSize, NEW word
  PROVE  /\ Memory(Filled(w, to, 1, word)) /\ Filled(w, to, 1, word)[to] = word
         /\ Same(Filled(w, to, 1, word), w, (1..ArenaSize) \ {to})
<1>1. to..to + 1 - 1 = {to}
  OBVIOUS
<1>2. to + 0 = to
  OBVIOUS
<1>3. to..to + 1 - 1 \subseteq 1..ArenaSize
  BY <1>1
<1>4. /\ Memory(Filled(w, to, 1, word)) /\ Holds(Filled(w, to, 1, word), to, 1, word)
      /\ Same(Filled(w, to, 1, word), w, (1..ArenaSize) \ (to..to + 1 - 1))
  BY <1>3, FilledIs
<1> QED
  BY <1>1, <1>2, <1>4 DEF Holds

(* One of Z and M in the place of the other.                               *)
LEMMA ExchangeConverts ==
  ASSUME NEW w, Memory(w), NEW to \in Nat, to..to + 2 \subseteq 1..ArenaSize,
         NEW z \in BOOLEAN, NEW m \in BOOLEAN, z # m
  PROVE  LET after == Filled(w, to + 2, 1, IF m THEN DefaultM ELSE DefaultZ)
         IN  /\ Memory(after) /\ Same(after, w, (1..ArenaSize) \ (to..to + 2))
             /\ Converts(after, to, z, m, w, to, m, z)
<1> PICK after : after = Filled(w, to + 2, 1, IF m THEN DefaultM ELSE DefaultZ)
  OBVIOUS
<1>1. /\ to \in 1..ArenaSize /\ to + 1 \in 1..ArenaSize /\ to + 2 \in 1..ArenaSize
      /\ to + 2 # to /\ to + 2 # to + 1 /\ to + 2 \in to..to + 2 /\ to + 2 \in Nat /\ to + 0 = to
  OBVIOUS
<1>2. /\ Memory(after) /\ after[to + 2] = (IF m THEN DefaultM ELSE DefaultZ)
      /\ Same(after, w, (1..ArenaSize) \ {to + 2})
  BY <1>1, FilledWord
<1>3. after[to] = w[to] /\ after[to + 1] = w[to + 1]
  BY Zenon, <1>1, <1>2 DEF Same
<1>4. Same(after, w, (1..ArenaSize) \ (to..to + 2))
  BY Zenon, <1>1, <1>2 DEF Same
<1>5. Converts(after, to, z, m, w, to, m, z)
  <2> SUFFICES ASSUME NEW d \in Values!Dims(z, m)
               PROVE  after[to + Offset(d, z)] =
                        IF d \in Values!Dims(m, z) THEN w[to + Offset(d, m)] ELSE Default(d)
    BY DEF Converts
  <2>1. CASE z
    BY <1>1, <1>2, <1>3, <2>1 DEF Values!Dims, Offset, Default
  <2>2. CASE m
    BY <1>1, <1>2, <1>3, <2>2 DEF Values!Dims, Offset, Default
  <2> QED
    BY <2>1, <2>2
<1> QED
  BY <1>2, <1>4, <1>5

(* A vertex that loses dimensions, copied to where nothing is read.        *)
LEMMA NarrowConverts ==
  ASSUME NEW w, Memory(w), NEW a \in ArrayType, NEW data \in Nat, NEW i \in Nat,
         NEW z \in BOOLEAN, NEW m \in BOOLEAN, z => a.z, m => a.m,
         NEW to \in Nat, to = data + i * VertexSize(z, m),
         NEW from \in Nat, from = a.data + i * Size(a),
         to..to + VertexSize(z, m) - 1 \subseteq 1..ArenaSize,
         from..from + Size(a) - 1 \subseteq 1..ArenaSize,
         (to..to + VertexSize(z, m) - 1) \cap (from..from + Size(a) - 1) = {},
         VertexSize(z, m) < Size(a)
  PROVE  LET after == Narrowed(w, a, data, z, m, i)
         IN  /\ Memory(after) /\ Same(after, w, (1..ArenaSize) \ (to..to + VertexSize(z, m) - 1))
             /\ Converts(after, to, z, m, w, from, a.z, a.m)
<1>1. a.z \in BOOLEAN /\ a.m \in BOOLEAN
  BY ArraySizes
<1>2. CASE a.z /\ a.m /\ ~z /\ m
  <2>1. VertexSize(z, m) = 3 /\ Size(a) = 4
    BY <1>2 DEF VertexSize, Size
  <2>a. PICK first : first = Copied(w, to, from, 2)
    OBVIOUS
  <2>b. PICK after : after = Copied(first, to + 2, from + 3, 1)
    OBVIOUS
  <2>2. Narrowed(w, a, data, z, m, i) = after
    BY <1>2, <2>a, <2>b DEF Narrowed
  <2>3. /\ to..to + 2 - 1 \subseteq 1..ArenaSize
        /\ to + 2 \in Nat /\ to + 2..to + 2 + 1 - 1 \subseteq 1..ArenaSize
    BY <2>1
  <2>4. /\ Memory(first) /\ Same(first, w, (1..ArenaSize) \ (to..to + 2 - 1))
        /\ Moved(first, to, w, from, 2)
    <3>1. 2 \in Nat
      OBVIOUS
    <3> QED
      BY <2>3, <2>a, <3>1, CopiedIs
  <2>5. /\ Memory(after) /\ Same(after, first, (1..ArenaSize) \ (to + 2..to + 2 + 1 - 1))
        /\ Moved(after, to + 2, first, from + 3, 1)
    <3>1. 1 \in Nat /\ from + 3 \in Nat
      OBVIOUS
    <3> QED
      BY <2>3, <2>4, <2>b, <3>1, CopiedIs
  <2>6. /\ to \in (1..ArenaSize) \ (to + 2..to + 2 + 1 - 1)
        /\ to + 1 \in (1..ArenaSize) \ (to + 2..to + 2 + 1 - 1)
        /\ from + 3 \in (1..ArenaSize) \ (to..to + 2 - 1)
        /\ 0 \in Nat /\ 1 \in Nat /\ 0 < 2 /\ 1 < 2 /\ 0 < 1
        /\ to + 0 = to /\ from + 0 = from /\ to + 2 + 0 = to + 2 /\ from + 3 + 0 = from + 3
    BY <2>1
  <2>7. first[to] = w[from] /\ first[to + 1] = w[from + 1] /\ first[from + 3] = w[from + 3]
    BY <2>4, <2>6 DEF Same, Moved
  <2>8. after[to] = w[from] /\ after[to + 1] = w[from + 1] /\ after[to + 2] = w[from + 3]
    BY <2>5, <2>6, <2>7 DEF Same, Moved
  <2>9. Same(after, w, (1..ArenaSize) \ (to..to + VertexSize(z, m) - 1))
    <3>1. \A p \in (1..ArenaSize) \ (to..to + VertexSize(z, m) - 1) :
            /\ p \in (1..ArenaSize) \ (to..to + 2 - 1)
            /\ p \in (1..ArenaSize) \ (to + 2..to + 2 + 1 - 1)
      BY <2>1
    <3> QED
      BY Zenon, <2>4, <2>5, <3>1 DEF Same
  <2>10. Converts(after, to, z, m, w, from, a.z, a.m)
    BY <1>2, <2>6, <2>8 DEF Converts, Values!Dims, Offset
  <2> QED
    BY <2>2, <2>5, <2>9, <2>10
<1>3. CASE ~(a.z /\ a.m /\ ~z /\ m)
  <2>a. PICK after : after = Copied(w, to, from, VertexSize(z, m))
    OBVIOUS
  <2>1. Narrowed(w, a, data, z, m, i) = after
    BY <1>3, <2>a DEF Narrowed
  <2>2. VertexSize(z, m) \in Nat
    BY Sizes
  <2>3. /\ Memory(after) /\ Same(after, w, (1..ArenaSize) \ (to..to + VertexSize(z, m) - 1))
        /\ Moved(after, to, w, from, VertexSize(z, m))
    BY <2>2, <2>a, CopiedIs
  <2>4. ASSUME NEW d \in Values!Dims(z, m)
        PROVE  /\ d \in Values!Dims(a.z, a.m) /\ Offset(d, z) = Offset(d, a.z)
               /\ Offset(d, z) \in Nat /\ Offset(d, z) < VertexSize(z, m)
    <3>1. d \in Values!Dims(a.z, a.m) /\ Offset(d, z) = Offset(d, a.z)
      BY <1>1, <1>3 DEF Values!Dims, Offset
    <3> QED
      BY <3>1, OffsetIs
  <2>5. Converts(after, to, z, m, w, from, a.z, a.m)
    BY Zenon, <2>3, <2>4 DEF Converts, Moved
  <2> QED
    BY <2>1, <2>3, <2>5
<1> QED
  BY <1>2, <1>3

(* A vertex that gains dimensions, moved to where it was or further on: no *)
(* word is overwritten before it is read.                                  *)
LEMMA WidenConverts ==
  ASSUME NEW w, Memory(w), NEW a \in ArrayType, NEW i \in Nat,
         NEW z \in BOOLEAN, NEW m \in BOOLEAN, a.z => z, a.m => m,
         NEW to \in Nat, to = a.data + i * VertexSize(z, m),
         NEW from \in Nat, from = a.data + i * Size(a), from <= to,
         to..to + VertexSize(z, m) - 1 \subseteq 1..ArenaSize,
         from..from + Size(a) - 1 \subseteq 1..ArenaSize,
         VertexSize(z, m) > Size(a)
  PROVE  LET after == Widened(w, a, z, m, i)
         IN  /\ Memory(after) /\ Same(after, w, (1..ArenaSize) \ (to..to + VertexSize(z, m) - 1))
             /\ Converts(after, to, z, m, w, from, a.z, a.m)
<1>1. a.z \in BOOLEAN /\ a.m \in BOOLEAN
  BY ArraySizes
<1>0. /\ 0 \in Nat /\ 1 \in Nat /\ 2 \in Nat /\ 0 < 1 /\ 0 < 2 /\ 1 < 2
      /\ to + 2 \in Nat /\ to + 3 \in Nat
      /\ from + 2 \in Nat /\ to + 0 = to /\ from + 0 = from /\ to + 3 + 0 = to + 3
      /\ from + 2 + 0 = from + 2
  OBVIOUS
<1>2. CASE a.m /\ ~a.z
  <2>0. z /\ m
    BY <1>1, <1>2 DEF VertexSize, Size
  <2>1. VertexSize(z, m) = 4 /\ Size(a) = 3
    BY <1>1, <1>2, <2>0 DEF VertexSize, Size
  <2>2. /\ to + 3..to + 3 + 1 - 1 \subseteq 1..ArenaSize
        /\ to + 2 \in 1..ArenaSize /\ to..to + 2 - 1 \subseteq 1..ArenaSize
    BY <2>1
  <2>a. PICK first : first = Copied(w, to + 3, from + 2, 1)
    OBVIOUS
  <2>b. PICK second : second = Filled(first, to + 2, 1, DefaultZ)
    OBVIOUS
  <2>c. PICK after : after = Copied(second, to, from, 2)
    OBVIOUS
  <2>3. Widened(w, a, z, m, i) = after
    BY <1>2, <2>a, <2>b, <2>c DEF Widened
  <2>4. /\ Memory(first) /\ Same(first, w, (1..ArenaSize) \ (to + 3..to + 3 + 1 - 1))
        /\ Moved(first, to + 3, w, from + 2, 1)
    BY <1>0, <2>2, <2>a, CopiedIs
  <2>5. /\ Memory(second) /\ second[to + 2] = DefaultZ
        /\ Same(second, first, (1..ArenaSize) \ {to + 2})
    BY <1>0, <2>2, <2>4, <2>b, FilledWord
  <2>6. /\ Memory(after) /\ Same(after, second, (1..ArenaSize) \ (to..to + 2 - 1))
        /\ Moved(after, to, second, from, 2)
    BY <1>0, <2>2, <2>5, <2>c, CopiedIs
  <2>7. /\ from \in (1..ArenaSize) \ (to + 3..to + 3 + 1 - 1)
        /\ from + 1 \in (1..ArenaSize) \ (to + 3..to + 3 + 1 - 1)
        /\ from \in (1..ArenaSize) \ {to + 2} /\ from + 1 \in (1..ArenaSize) \ {to + 2}
        /\ to + 3 \in (1..ArenaSize) \ {to + 2}
        /\ to + 2 \in (1..ArenaSize) \ (to..to + 2 - 1)
        /\ to + 3 \in (1..ArenaSize) \ (to..to + 2 - 1)
    BY <2>1
  <2>8. first[from] = w[from] /\ first[from + 1] = w[from + 1] /\ first[to + 3] = w[from + 2]
    BY <1>0, <2>4, <2>7 DEF Same, Moved
  <2>9. second[from] = w[from] /\ second[from + 1] = w[from + 1] /\ second[to + 3] = w[from + 2]
    BY <2>5, <2>7, <2>8 DEF Same
  <2>10. /\ after[to] = w[from] /\ after[to + 1] = w[from + 1]
         /\ after[to + 2] = DefaultZ /\ after[to + 3] = w[from + 2]
    BY <1>0, <2>5, <2>6, <2>7, <2>9 DEF Same, Moved
  <2>11. Same(after, w, (1..ArenaSize) \ (to..to + VertexSize(z, m) - 1))
    <3>1. \A p \in (1..ArenaSize) \ (to..to + VertexSize(z, m) - 1) :
            /\ p \in (1..ArenaSize) \ (to..to + 2 - 1) /\ p \in (1..ArenaSize) \ {to + 2}
            /\ p \in (1..ArenaSize) \ (to + 3..to + 3 + 1 - 1)
      BY <2>1
    <3> QED
      BY Zenon, <2>4, <2>5, <2>6, <3>1 DEF Same
  <2>12. Converts(after, to, z, m, w, from, a.z, a.m)
    BY <1>0, <1>2, <2>0, <2>10 DEF Converts, Values!Dims, Offset, Default
  <2> QED
    BY <2>3, <2>6, <2>11, <2>12
<1>3. CASE z /\ m /\ ~a.z /\ ~a.m
  <2>1. VertexSize(z, m) = 4 /\ Size(a) = 2
    BY <1>1, <1>3 DEF VertexSize, Size
  <2>2. to + 2 \in 1..ArenaSize /\ to + 3 \in 1..ArenaSize /\ to..to + 2 - 1 \subseteq 1..ArenaSize
    BY <2>1
  <2>a. PICK first : first = Copied(w, to, from, 2)
    OBVIOUS
  <2>b. PICK second : second = Filled(first, to + 2, 1, DefaultZ)
    OBVIOUS
  <2>c. PICK after : after = Filled(second, to + 3, 1, DefaultM)
    OBVIOUS
  <2>3. Widened(w, a, z, m, i) = after
    BY <1>3, <2>a, <2>b, <2>c DEF Widened
  <2>4. /\ Memory(first) /\ Same(first, w, (1..ArenaSize) \ (to..to + 2 - 1))
        /\ Moved(first, to, w, from, 2)
    BY <1>0, <2>2, <2>a, CopiedIs
  <2>5. /\ Memory(second) /\ second[to + 2] = DefaultZ
        /\ Same(second, first, (1..ArenaSize) \ {to + 2})
    BY <1>0, <2>2, <2>4, <2>b, FilledWord
  <2>6. /\ Memory(after) /\ after[to + 3] = DefaultM
        /\ Same(after, second, (1..ArenaSize) \ {to + 3})
    BY <1>0, <2>2, <2>5, <2>c, FilledWord
  <2>7. /\ to \in (1..ArenaSize) \ {to + 2} /\ to + 1 \in (1..ArenaSize) \ {to + 2}
        /\ to \in (1..ArenaSize) \ {to + 3} /\ to + 1 \in (1..ArenaSize) \ {to + 3}
        /\ to + 2 \in (1..ArenaSize) \ {to + 3}
    BY <2>1
  <2>8. first[to] = w[from] /\ first[to + 1] = w[from + 1]
    BY <1>0, <2>4 DEF Moved
  <2>9. /\ after[to] = w[from] /\ after[to + 1] = w[from + 1]
        /\ after[to + 2] = DefaultZ /\ after[to + 3] = DefaultM
    BY <2>5, <2>6, <2>7, <2>8 DEF Same
  <2>10. Same(after, w, (1..ArenaSize) \ (to..to + VertexSize(z, m) - 1))
    <3>1. \A p \in (1..ArenaSize) \ (to..to + VertexSize(z, m) - 1) :
            /\ p \in (1..ArenaSize) \ (to..to + 2 - 1) /\ p \in (1..ArenaSize) \ {to + 2}
            /\ p \in (1..ArenaSize) \ {to + 3}
      BY <2>1
    <3> QED
      BY Zenon, <2>4, <2>5, <2>6, <3>1 DEF Same
  <2>11. Converts(after, to, z, m, w, from, a.z, a.m)
    BY <1>0, <1>3, <2>1, <2>9 DEF Converts, Values!Dims, Offset, Default
  <2> QED
    BY <2>3, <2>6, <2>10, <2>11
<1>4. CASE ~(a.m /\ ~a.z) /\ ~(z /\ m /\ ~a.z)
  <2>1. /\ Size(a) \in {2, 3} /\ VertexSize(z, m) = Size(a) + 1 /\ Size(a) \in Nat
        /\ \/ ~a.z /\ ~a.m /\ z /\ ~m /\ Size(a) = 2
           \/ ~a.z /\ ~a.m /\ ~z /\ m /\ Size(a) = 2
           \/ a.z /\ ~a.m /\ z /\ m /\ Size(a) = 3
    BY <1>1, <1>4 DEF VertexSize, Size
  <2>2. /\ to + Size(a) \in 1..ArenaSize /\ to..to + Size(a) - 1 \subseteq 1..ArenaSize
        /\ to + Size(a) \in Nat
    BY <2>1
  <2>a. PICK first : first = Copied(w, to, from, Size(a))
    OBVIOUS
  <2>b. PICK word : word = IF m THEN DefaultM ELSE DefaultZ
    OBVIOUS
  <2>c. PICK after : after = Filled(first, to + Size(a), 1, word)
    OBVIOUS
  <2>3. Widened(w, a, z, m, i) = after
    BY <1>4, <2>a, <2>b, <2>c DEF Widened
  <2>4. /\ Memory(first) /\ Same(first, w, (1..ArenaSize) \ (to..to + Size(a) - 1))
        /\ Moved(first, to, w, from, Size(a))
    BY <2>1, <2>2, <2>a, CopiedIs
  <2>5. /\ Memory(after) /\ after[to + Size(a)] = word
        /\ Same(after, first, (1..ArenaSize) \ {to + Size(a)})
    BY <2>2, <2>4, <2>c, FilledWord
  <2>6. ASSUME NEW k \in Nat, k < Size(a) PROVE after[to + k] = w[from + k]
    <3>1. to + k \in (1..ArenaSize) \ {to + Size(a)}
      BY <2>1, <2>6
    <3> QED
      BY Zenon, <2>4, <2>5, <2>6, <3>1 DEF Same, Moved
  <2>7. Same(after, w, (1..ArenaSize) \ (to..to + VertexSize(z, m) - 1))
    <3>1. \A p \in (1..ArenaSize) \ (to..to + VertexSize(z, m) - 1) :
            /\ p \in (1..ArenaSize) \ (to..to + Size(a) - 1)
            /\ p \in (1..ArenaSize) \ {to + Size(a)}
      BY <2>1
    <3> QED
      BY Zenon, <2>4, <2>5, <3>1 DEF Same
  <2>8. Converts(after, to, z, m, w, from, a.z, a.m)
    <3> SUFFICES ASSUME NEW d \in Values!Dims(z, m)
                 PROVE  after[to + Offset(d, z)] =
                          IF d \in Values!Dims(a.z, a.m) THEN w[from + Offset(d, a.z)]
                          ELSE Default(d)
      BY DEF Converts
    <3>1. CASE d \in Values!Dims(a.z, a.m)
      <4>1. Offset(d, z) = Offset(d, a.z) /\ Offset(d, z) \in Nat /\ Offset(d, z) < Size(a)
        BY <2>1, <3>1 DEF Values!Dims, Offset
      <4> QED
        BY Zenon, <2>6, <3>1, <4>1
    <3>2. CASE d \notin Values!Dims(a.z, a.m)
      <4>1. Offset(d, z) = Size(a) /\ Default(d) = word
        BY <2>1, <2>b, <3>2 DEF Values!Dims, Offset, Default
      <4> QED
        BY Zenon, <2>5, <3>2, <4>1
    <3> QED
      BY <3>1, <3>2
  <2> QED
    BY <2>3, <2>5, <2>7, <2>8
<1> QED
  BY <1>1, <1>2, <1>3, <1>4

(* A state has its parts, and Reallocate at most moves the array.          *)
Whole(e) == e = [mem |-> e.mem, top |-> e.top, array |-> e.array]
PlacedAt(a, c, p) == a \in {c, [c EXCEPT !.data = p]}
TypeSet(r, e, z, m) == r = [e EXCEPT !.array.z = z, !.array.m = m]

(* The array with the type that SetVertexType gives it at last.            *)
LEMMA RetypedIs ==
  ASSUME NEW c \in ArrayType, NEW p \in Nat, NEW z \in BOOLEAN, NEW m \in BOOLEAN,
         NEW e, Whole(e), PlacedAt(e.array, c, p), NEW r, TypeSet(r, e, z, m)
  PROVE  /\ r.mem = e.mem /\ r.top = e.top /\ r.array \in ArrayType
         /\ r.array.data = e.array.data /\ r.array.count = c.count
         /\ r.array.z = z /\ r.array.m = m
         /\ e.array \in ArrayType /\ e.array.count = c.count
         /\ e.array.z = c.z /\ e.array.m = c.m
<1>1. /\ r.mem = e.mem /\ r.top = e.top
      /\ r.array = [e.array EXCEPT !.z = z, !.m = m]
  BY DEF Whole, TypeSet
<1> PICK a, b : a = e.array /\ b = r.array
  OBVIOUS
<1>2. /\ a \in ArrayType /\ a.count = c.count /\ a.z = c.z /\ a.m = c.m
  BY DEF ArrayType, PlacedAt
<1>3. b = [a EXCEPT !.z = z, !.m = m]
  BY <1>1
<1>4. /\ b \in ArrayType /\ b.data = a.data /\ b.count = a.count /\ b.z = z /\ b.m = m
  BY <1>2, <1>3 DEF ArrayType
<1> QED
  BY <1>1, <1>2, <1>4

LEMMA ConvertStep ==
  ASSUME NEW c \in ArrayType, NEW b \in ArrayType, b.count = c.count,
         NEW i \in 0..c.count - 1, NEW memory, NEW w, Same(w, memory, Block(c, i)),
         NEW after, Memory(after),
         Same(after, w, (1..ArenaSize) \ Block(b, i)),
         Converts(after, b.data + i * Size(b), b.z, b.m, w, c.data + i * Size(c), c.z, c.m)
  PROVE  Writes(w, after, b, i, ConvertedValues(memory, c, b.z, b.m)[i])
<1>1. i \in Nat /\ i < c.count
  BY ArraySizes
<1>2. \A d \in Values!Dims(c.z, c.m) :
        w[c.data + i * Size(c) + Offset(d, c.z)] = memory[c.data + i * Size(c) + Offset(d, c.z)]
  BY Zenon, <1>1, WordIs DEF Same
<1>3. Converts(after, b.data + i * Size(b), b.z, b.m,
               memory, c.data + i * Size(c), c.z, c.m)
  <2> SUFFICES ASSUME NEW d \in Values!Dims(b.z, b.m)
               PROVE  after[b.data + i * Size(b) + Offset(d, b.z)] =
                        IF d \in Values!Dims(c.z, c.m)
                        THEN memory[c.data + i * Size(c) + Offset(d, c.z)] ELSE Default(d)
    BY Zenon DEF Converts
  <2>1. after[b.data + i * Size(b) + Offset(d, b.z)] =
          IF d \in Values!Dims(c.z, c.m)
          THEN w[c.data + i * Size(c) + Offset(d, c.z)] ELSE Default(d)
    BY Zenon DEF Converts
  <2>2. CASE d \in Values!Dims(c.z, c.m)
    BY Zenon, <1>2, <2>1, <2>2
  <2>3. CASE d \notin Values!Dims(c.z, c.m)
    BY Zenon, <2>1, <2>3
  <2> QED
    BY <2>2, <2>3
<1> QED
  BY Zenon, <1>3, ConvertWrites

(* The block of a vertex within the memory.                                *)
LEMMA BlockBounds ==
  ASSUME NEW b \in ArrayType, Region(b) \subseteq 1..ArenaSize, NEW i \in 0..b.count - 1
  PROVE  /\ i \in Nat /\ b.data + i * Size(b) \in Nat /\ Block(b, i) \subseteq 1..ArenaSize
         /\ Block(b, i) \subseteq Region(b)
<1>1. i \in Nat /\ i < b.count
  BY ArraySizes
<1> QED
  BY <1>1, WordIs, BlockIs

(* The array that has the vertices of c, with other dimensions, at "data". *)
Retypes(b, data, c, z, m) ==
  /\ b \in ArrayType /\ b.data = data /\ b.count = c.count
  /\ b.z = z /\ b.m = m /\ Size(b) = VertexSize(z, m)

(* Z in the place of M or M in the place of Z.                             *)
LEMMA ExchangedConverted ==
  ASSUME Inv, NEW h \in Arrays, NEW s, Sound(h, s), s.array.owning, Alone(h, s),
         NEW z \in BOOLEAN, NEW m \in BOOLEAN, z # m, s.array.z = m, s.array.m = z,
         NEW b \in ArrayType, b.data = s.array.data, b.count = s.array.count, b.z = z, b.m = m
  PROVE  /\ Memory(Exchanged(s, z, m).mem)
         /\ Same(Exchanged(s, z, m).mem, mem, Elsewhere(h))
         /\ Reads(Exchanged(s, z, m).mem, b, ConvertedValues(s.mem, s.array, z, m))
<1>1. /\ Fits(h, s) /\ Memory(s.mem) /\ s.top <= ArenaSize /\ Same(s.mem, mem, Elsewhere(h))
  BY DEF Sound
<1>a. PICK c \in ArrayType : c = s.array
  BY <1>1 DEF Fits
<1>2. /\ Region(c) \subseteq 1..ArenaSize /\ Elsewhere(h) \subseteq (1..ArenaSize) \ Region(c)
  BY <1>1, <1>a, RegionOf
<1>3. /\ Size(b) = 3 /\ Size(c) = 3 /\ VertexSize(z, m) = 3 /\ b.count \in Nat
      /\ b.count = c.count /\ b.data = c.data
  BY <1>a, ArraySizes DEF Size, VertexSize
<1>4. /\ Region(b) = Region(c) /\ \A i : Block(b, i) = Block(c, i)
  BY <1>3 DEF Region, Words, Block
<1>5. PICK f : /\ Ascends(f, s.mem, "exchange", s, z, m, s.array.count)
               /\ Exchanged(s, z, m) = [mem |-> f[s.array.count], top |-> s.top, array |-> s.array]
  BY <1>1, ExchangedIs
<1>6. f[0] = s.mem /\ \A i \in 0..b.count - 1 : f[i + 1] = Step("exchange", s, z, m, f[i], i)
  <2>1. \A i \in 0..b.count :
          f[i] = IF i = 0 THEN s.mem ELSE Step("exchange", s, z, m, f[i - 1], i - 1)
    BY <1>3, <1>5, <1>a DEF Ascends
  <2>2. 0 \in 0..b.count
    BY <1>3
  <2>3. \A i \in 0..b.count - 1 : i + 1 \in 0..b.count /\ i + 1 # 0 /\ (i + 1) - 1 = i
    BY <1>3
  <2>4. \A i \in 0..b.count - 1 : f[i + 1] = Step("exchange", s, z, m, f[i], i)
    BY Zenon, <2>1, <2>3
  <2> QED
    BY <2>1, <2>2, <2>4
<1>v. PICK values : values = ConvertedValues(s.mem, c, z, m)
  OBVIOUS
<1>7. ASSUME NEW i \in 0..b.count - 1, Written(f[0], f[i], b, 0..i - 1, values)
      PROVE  Writes(f[i], f[i + 1], b, i, values[i])
  <2>1. 0..i - 1 \subseteq (0..b.count - 1) \ {i}
    BY <1>3
  <2>2. Same(f[i], f[0], Block(b, i))
    BY Zenon, <1>2, <1>4, <1>7, <2>1, Unwritten
  <2>3. Memory(f[i]) /\ Same(f[i], s.mem, Block(c, i)) /\ i \in 0..c.count - 1
    BY <1>3, <1>4, <1>6, <1>7, <2>2 DEF Written
  <2>4. /\ i \in Nat /\ b.data + i * Size(b) \in Nat /\ Block(b, i) \subseteq 1..ArenaSize
    BY <1>2, <1>4, BlockBounds
  <2> PICK to \in Nat : to = b.data + i * Size(b)
    BY <2>4
  <2>5. Block(b, i) = to..to + 2
    BY <1>3 DEF Block
  <2> PICK w : w = f[i]
    OBVIOUS
  <2> PICK after : after = Filled(w, to + 2, 1, IF m THEN DefaultM ELSE DefaultZ)
    OBVIOUS
  <2>6. f[i + 1] = after
    BY <1>3, <1>6 DEF Step
  <2>7. /\ Memory(after) /\ Same(after, w, (1..ArenaSize) \ (to..to + 2))
        /\ Converts(after, to, z, m, w, to, m, z)
    BY ZenonT(30), <2>3, <2>4, <2>5, ExchangeConverts
  <2>8. c.data + i * Size(c) = to /\ c.z = m /\ c.m = z
    BY <1>3, <1>a
  <2>9. /\ Same(after, w, (1..ArenaSize) \ Block(b, i))
        /\ Converts(after, b.data + i * Size(b), b.z, b.m, w, c.data + i * Size(c), c.z, c.m)
    BY <2>5, <2>7, <2>8
  <2>10. Writes(w, after, b, i, ConvertedValues(s.mem, c, b.z, b.m)[i])
    BY Zenon, <1>3, <2>3, <2>7, <2>9, ConvertStep
  <2> QED
    BY <1>v, <2>6, <2>10
<1>8. Written(f[0], f[b.count], b, 0..b.count - 1, values)
  <2>1. Memory(f[0]) /\ Region(b) \subseteq 1..ArenaSize
    BY <1>1, <1>2, <1>4, <1>6
  <2> QED
    BY Zenon, <1>7, <2>1, AscendingWrites
<1>9. /\ Memory(f[b.count]) /\ Same(f[b.count], f[0], (1..ArenaSize) \ Region(b))
      /\ Reads(f[b.count], b, values)
  BY Zenon, <1>8, AllWritten
<1>10. Exchanged(s, z, m).mem = f[b.count]
  BY <1>5, <1>a, <1>3
<1>11. Same(f[b.count], mem, Elsewhere(h))
  <2>1. Elsewhere(h) \subseteq (1..ArenaSize) \ Region(b) /\ Same(f[0], mem, Elsewhere(h))
    BY <1>1, <1>2, <1>4, <1>6
  <2> QED
    BY Zenon, <1>9, <2>1 DEF Same
<1> QED
  BY <1>9, <1>10, <1>11, <1>a, <1>v

(* Fewer dimensions, in new memory.                                        *)
LEMMA ShortenedConverted ==
  ASSUME Inv, NEW h \in Arrays, NEW s, Sound(h, s),
         NEW z \in BOOLEAN, NEW m \in BOOLEAN, VertexSize(z, m) < Size(s.array),
         z => s.array.z, m => s.array.m, Shortened(s, z, m).top <= ArenaSize,
         NEW b \in ArrayType, Retypes(b, s.top + 1, s.array, z, m)
  PROVE  /\ Memory(Shortened(s, z, m).mem)
         /\ Same(Shortened(s, z, m).mem, mem, Elsewhere(h))
         /\ Reads(Shortened(s, z, m).mem, b, ConvertedValues(s.mem, s.array, z, m))
<1>1. /\ Fits(h, s) /\ Memory(s.mem) /\ s.top <= ArenaSize /\ Same(s.mem, mem, Elsewhere(h))
  BY DEF Sound
<1>a. PICK c \in ArrayType : c = s.array
  BY <1>1 DEF Fits
<1>t. PICK t \in Nat : t = s.top
  BY <1>1 DEF Fits
<1>2. Region(c) \subseteq 1..t /\ Elsewhere(h) \subseteq 1..t
  BY <1>1, <1>a, <1>t, ElsewhereIs DEF Fits
<1>3. /\ Size(b) = VertexSize(z, m) /\ b.count \in Nat /\ b.count = c.count
      /\ b.data = t + 1 /\ Words(b) = c.count * VertexSize(z, m) /\ Words(b) \in Nat
      /\ Region(b) = t + 1..t + 1 + Words(b) - 1
  BY <1>a, <1>t, ArraySizes DEF Words, Retypes
<1>4. b.z = z /\ b.m = m
  BY DEF Retypes
<1>5. PICK f : /\ Ascends(f, Filled(s.mem, t + 1, Words(b), Zero), "narrow", s, z, m, c.count)
               /\ Shortened(s, z, m) = [mem |-> f[c.count], top |-> t + Words(b),
                                        array |-> [c EXCEPT !.data = t + 1]]
  BY <1>1, <1>3, <1>a, <1>t, ShortenedIs
<1>6. /\ f[0] = Filled(s.mem, t + 1, Words(b), Zero)
      /\ \A i \in 0..b.count - 1 : f[i + 1] = Step("narrow", s, z, m, f[i], i)
  <2>1. \A i \in 0..b.count :
          f[i] = IF i = 0 THEN Filled(s.mem, t + 1, Words(b), Zero)
                 ELSE Step("narrow", s, z, m, f[i - 1], i - 1)
    BY <1>3, <1>5 DEF Ascends
  <2>2. 0 \in 0..b.count
    BY <1>3
  <2>3. \A i \in 0..b.count - 1 : i + 1 \in 0..b.count /\ i + 1 # 0 /\ (i + 1) - 1 = i
    BY <1>3
  <2>4. \A i \in 0..b.count - 1 : f[i + 1] = Step("narrow", s, z, m, f[i], i)
    BY Zenon, <2>1, <2>3
  <2> QED
    BY <2>1, <2>2, <2>4
<1>7. t + Words(b) <= ArenaSize
  BY <1>5
<1>8. Memory(f[0]) /\ Same(f[0], s.mem, 1..t)
  BY <1>1, <1>3, <1>6, <1>7, FilledBehind
<1>9. /\ Region(b) \subseteq 1..ArenaSize /\ 1..t \subseteq (1..ArenaSize) \ Region(b)
  BY SMTT(30), <1>3, <1>7, SizesAssumption
<1>v. PICK values : values = ConvertedValues(s.mem, c, z, m)
  OBVIOUS
<1>10. ASSUME NEW i \in 0..b.count - 1, Written(f[0], f[i], b, 0..i - 1, values)
       PROVE  Writes(f[i], f[i + 1], b, i, values[i])
  <2>1. /\ i \in Nat /\ i < c.count /\ i \in 0..c.count - 1
        /\ \A j \in 0..i - 1 : j \in Nat /\ j < b.count
    BY <1>3
  <2>2. /\ b.data + i * Size(b) \in Nat /\ Block(b, i) \subseteq Region(b)
        /\ c.data + i * Size(c) \in Nat /\ Block(c, i) \subseteq Region(c)
    BY <1>3, <2>1, WordIs, BlockIs
  <2>p. PICK to \in Nat, from \in Nat : to = b.data + i * Size(b) /\ from = c.data + i * Size(c)
    BY <2>2
  <2>3. Blocks(b, 0..i - 1) \subseteq Region(b)
    BY <2>1, BlockIs DEF Blocks
  <2>4. /\ Memory(f[i]) /\ Same(f[i], f[0], (1..ArenaSize) \ Blocks(b, 0..i - 1))
    BY <1>10 DEF Written
  <2>5. Block(c, i) \subseteq 1..t /\ Block(c, i) \subseteq (1..ArenaSize) \ Blocks(b, 0..i - 1)
    BY Zenon, <1>2, <1>9, <2>2, <2>3
  <2>6. Same(f[i], s.mem, Block(c, i))
    BY Zenon, <1>8, <2>4, <2>5 DEF Same
  <2>w. PICK w : w = f[i]
    OBVIOUS
  <2>x. PICK after : after = Narrowed(w, c, t + 1, z, m, i)
    OBVIOUS
  <2>7. f[i + 1] = after
    BY <1>6, <1>a, <1>t, <2>w, <2>x DEF Step
  <2>8. /\ Block(b, i) = to..to + VertexSize(z, m) - 1
        /\ Block(c, i) = from..from + Size(c) - 1
        /\ to = (t + 1) + i * VertexSize(z, m)
    BY <1>3, <2>p DEF Block
  <2>9. /\ Block(b, i) \subseteq 1..ArenaSize /\ Block(c, i) \subseteq 1..ArenaSize
        /\ Block(b, i) \cap Block(c, i) = {}
    BY Zenon, <1>9, <2>2, <2>5
  <2>10. /\ Memory(after) /\ Same(after, w, (1..ArenaSize) \ (to..to + VertexSize(z, m) - 1))
         /\ Converts(after, to, z, m, w, from, c.z, c.m)
    <3>1. /\ Memory(w) /\ t + 1 \in Nat /\ (z => c.z) /\ (m => c.m) /\ VertexSize(z, m) < Size(c)
          /\ from = c.data + i * Size(c)
      BY <1>a, <2>4, <2>p, <2>w
    <3>2. /\ to..to + VertexSize(z, m) - 1 \subseteq 1..ArenaSize
          /\ from..from + Size(c) - 1 \subseteq 1..ArenaSize
          /\ (to..to + VertexSize(z, m) - 1) \cap (from..from + Size(c) - 1) = {}
      BY <2>8, <2>9
    <3>a. PICK data \in Nat : data = t + 1
      BY <3>1
    <3>3. to = data + i * VertexSize(z, m)
      BY <2>8, <3>a
    <3>4. LET n == Narrowed(w, c, data, z, m, i)
          IN  /\ Memory(n) /\ Same(n, w, (1..ArenaSize) \ (to..to + VertexSize(z, m) - 1))
              /\ Converts(n, to, z, m, w, from, c.z, c.m)
      BY SMT, <2>1, <3>1, <3>2, <3>3, NarrowConverts
    <3> QED
      BY <2>x, <3>4, <3>a
  <2>11. /\ Same(after, w, (1..ArenaSize) \ Block(b, i))
         /\ Converts(after, b.data + i * Size(b), b.z, b.m, w, c.data + i * Size(c), c.z, c.m)
    BY <1>3, <1>4, <2>8, <2>10, <2>p
  <2>12. Writes(w, after, b, i, ConvertedValues(s.mem, c, b.z, b.m)[i])
    <3>1. Same(w, s.mem, Block(c, i))
      BY <2>6, <2>w
    <3> QED
      BY Zenon, <1>3, <2>1, <2>10, <2>11, <3>1, ConvertStep
  <2> QED
    BY <1>4, <1>v, <2>7, <2>12, <2>w
<1>11. Written(f[0], f[b.count], b, 0..b.count - 1, values)
  BY Zenon, <1>8, <1>9, <1>10, AscendingWrites
<1>12. /\ Memory(f[b.count]) /\ Same(f[b.count], f[0], (1..ArenaSize) \ Region(b))
       /\ Reads(f[b.count], b, values)
  BY Zenon, <1>11, AllWritten
<1>13. Shortened(s, z, m).mem = f[b.count]
  BY <1>3, <1>5
<1>14. Same(f[b.count], mem, Elsewhere(h))
  BY Zenon, <1>1, <1>2, <1>8, <1>9, <1>12 DEF Same
<1> QED
  BY <1>12, <1>13, <1>14, <1>a, <1>v

LEMMA WideningArithmetic ==
  ASSUME NEW v \in {2, 3, 4}, NEW w \in {2, 3, 4}, v < w, NEW i \in Nat, NEW n \in Nat, i < n,
         NEW p \in Nat
  PROVE  /\ i * v \in Nat /\ i * w \in Nat /\ p + i * v <= p + i * w
         /\ p + i * v..p + i * v + v - 1 \subseteq p..p + n * w - 1
         /\ \A j \in Nat : i < j =>
              (p + i * v..p + i * v + v - 1) \cap (p + j * w..p + j * w + w - 1) = {}
<1>1. CASE v = 2 /\ w = 3
  BY <1>1
<1>2. CASE v = 2 /\ w = 4
  BY <1>2
<1>3. CASE v = 3 /\ w = 4
  BY <1>3
<1> QED
  BY <1>1, <1>2, <1>3

(* The vertices with new dimensions, which come later in the memory.       *)
LEMMA WidenedBlocks ==
  ASSUME NEW a \in ArrayType, NEW b \in ArrayType, a.data = b.data, a.count = b.count,
         Size(a) < Size(b), NEW i \in 0..a.count - 1
  PROVE  /\ i \in Nat /\ a.data + i * Size(a) \in Nat /\ b.data + i * Size(b) \in Nat
         /\ a.data + i * Size(a) <= b.data + i * Size(b)
         /\ Block(a, i) \subseteq Region(b)
         /\ \A j \in Nat : i < j => Block(a, i) \cap Block(b, j) = {}
<1> PICK v \in {2, 3, 4}, w \in {2, 3, 4}, p \in Nat, n \in Nat :
      v = Size(a) /\ w = Size(b) /\ p = a.data /\ n = a.count
  BY ArraySizes
<1>1. i \in Nat /\ i < n /\ v < w
  BY ArraySizes
<1>2. /\ Block(a, i) = p + i * v..p + i * v + v - 1 /\ Region(b) = p..p + n * w - 1
      /\ \A j : Block(b, j) = p + j * w..p + j * w + w - 1
  BY DEF Block, Region, Words
<1>3. /\ i * v \in Nat /\ i * w \in Nat /\ p + i * v <= p + i * w
      /\ p + i * v..p + i * v + v - 1 \subseteq p..p + n * w - 1
      /\ \A j \in Nat : i < j =>
           (p + i * v..p + i * v + v - 1) \cap (p + j * w..p + j * w + w - 1) = {}
  BY <1>1, WideningArithmetic
<1>4. Block(a, i) \subseteq Region(b)
  BY Zenon, <1>2, <1>3
<1>5. \A j \in Nat : i < j => Block(a, i) \cap Block(b, j) = {}
  BY ZenonT(30), <1>2, <1>3
<1> QED
  BY <1>1, <1>3, <1>4, <1>5

(* The loop over an array whose words have been given room.                *)
LEMMA WidenedConverted ==
  ASSUME NEW memory, Memory(memory), NEW a \in ArrayType, NEW z \in BOOLEAN, NEW m \in BOOLEAN,
         a.z => z, a.m => m, VertexSize(z, m) > Size(a),
         NEW b \in ArrayType, Retypes(b, a.data, a, z, m), Region(b) \subseteq 1..ArenaSize,
         NEW f, Descends(f, memory, a, z, m, a.count)
  PROVE  /\ Memory(f[0]) /\ Same(f[0], memory, (1..ArenaSize) \ Region(b))
         /\ Reads(f[0], b, ConvertedValues(memory, a, z, m))
<1>3. /\ Size(b) = VertexSize(z, m) /\ b.count \in Nat /\ b.count = a.count /\ b.data = a.data
      /\ Size(a) < Size(b) /\ Size(a) \in {2, 3, 4} /\ Size(b) \in {2, 3, 4}
  BY ArraySizes DEF Retypes
<1>4. b.z = z /\ b.m = m
  BY DEF Retypes
<1>6. /\ f[b.count] = memory
      /\ \A i \in 0..b.count - 1 : f[i] = Widened(f[i + 1], a, z, m, i)
  <2>1. \A i \in 0..b.count : f[i] = IF i = b.count THEN memory ELSE Widened(f[i + 1], a, z, m, i)
    BY <1>3 DEF Descends
  <2>2. b.count \in 0..b.count
    BY <1>3
  <2>3. \A i \in 0..b.count - 1 : i \in 0..b.count /\ i # b.count
    BY <1>3
  <2> QED
    BY <2>1, <2>2, <2>3
<1>v. PICK values : values = ConvertedValues(memory, a, z, m)
  OBVIOUS
<1>10. ASSUME NEW i \in 0..b.count - 1,
              Written(f[b.count], f[i + 1], b, i + 1..b.count - 1, values)
       PROVE  Writes(f[i + 1], f[i], b, i, values[i])
  <2>1. /\ i \in Nat /\ i < a.count /\ i \in 0..a.count - 1 /\ i < b.count
        /\ \A j \in i + 1..b.count - 1 : j \in Nat /\ j < b.count /\ i < j
    BY <1>3
  <2>2. /\ b.data + i * Size(b) \in Nat /\ Block(b, i) \subseteq Region(b)
        /\ a.data + i * Size(a) \in Nat /\ Block(a, i) \subseteq Region(b)
        /\ a.data + i * Size(a) <= b.data + i * Size(b)
        /\ \A j \in Nat : i < j => Block(a, i) \cap Block(b, j) = {}
    BY <1>3, <2>1, BlockIs, WidenedBlocks
  <2>p. PICK to \in Nat, from \in Nat : to = b.data + i * Size(b) /\ from = a.data + i * Size(a)
    BY <2>2
  <2>3. Block(a, i) \subseteq (1..ArenaSize) \ Blocks(b, i + 1..b.count - 1)
    BY Zenon, <2>1, <2>2 DEF Blocks
  <2>4. /\ Memory(f[i + 1])
        /\ Same(f[i + 1], memory, (1..ArenaSize) \ Blocks(b, i + 1..b.count - 1))
    BY <1>6, <1>10 DEF Written
  <2>w. PICK w : w = f[i + 1]
    OBVIOUS
  <2>x. PICK after : after = Widened(w, a, z, m, i)
    OBVIOUS
  <2>6. Memory(w) /\ Same(w, memory, Block(a, i))
    BY Zenon, <2>3, <2>4, <2>w DEF Same
  <2>7. f[i] = after
    BY <1>6, <2>w, <2>x
  <2>8. /\ Block(b, i) = to..to + VertexSize(z, m) - 1
        /\ Block(a, i) = from..from + Size(a) - 1
        /\ to = a.data + i * VertexSize(z, m) /\ from = a.data + i * Size(a)
    BY <1>3, <2>p DEF Block
  <2>9. /\ Block(b, i) \subseteq 1..ArenaSize /\ Block(a, i) \subseteq 1..ArenaSize
    BY Zenon, <2>2
  <2>10. /\ Memory(after) /\ Same(after, w, (1..ArenaSize) \ (to..to + VertexSize(z, m) - 1))
         /\ Converts(after, to, z, m, w, from, a.z, a.m)
    <3>1. /\ to..to + VertexSize(z, m) - 1 \subseteq 1..ArenaSize
          /\ from..from + Size(a) - 1 \subseteq 1..ArenaSize
          /\ from <= to
      BY <2>2, <2>8, <2>9, <2>p
    <3>2. LET n == Widened(w, a, z, m, i)
          IN  /\ Memory(n) /\ Same(n, w, (1..ArenaSize) \ (to..to + VertexSize(z, m) - 1))
              /\ Converts(n, to, z, m, w, from, a.z, a.m)
      <4>1. i \in Nat /\ to = a.data + i * VertexSize(z, m) /\ from = a.data + i * Size(a)
        BY <2>1, <2>8
      <4> QED
        BY ZenonT(30), <2>6, <3>1, <4>1, WidenConverts
    <3> QED
      BY <2>x, <3>2
  <2>11. /\ Same(after, w, (1..ArenaSize) \ Block(b, i))
         /\ Converts(after, b.data + i * Size(b), b.z, b.m, w, a.data + i * Size(a), a.z, a.m)
    BY <1>4, <2>8, <2>10, <2>p
  <2>12. Writes(w, after, b, i, ConvertedValues(memory, a, b.z, b.m)[i])
    BY Zenon, <1>3, <2>1, <2>6, <2>10, <2>11, ConvertStep
  <2> QED
    BY <1>4, <1>v, <2>7, <2>12, <2>w
<1>11. Written(f[b.count], f[0], b, 0..b.count - 1, values)
  <2>1. Memory(f[b.count])
    BY <1>6
  <2> QED
    BY Zenon, <1>10, <2>1, DescendingWrites
<1>12. /\ Memory(f[0]) /\ Same(f[0], f[b.count], (1..ArenaSize) \ Region(b))
       /\ Reads(f[0], b, values)
  BY Zenon, <1>11, AllWritten
<1> QED
  BY <1>6, <1>12, <1>v

(* More dimensions, in the words the arena gives it.                       *)
LEMMA GrownConverted ==
  ASSUME Inv, NEW h \in Arrays, NEW s, Sound(h, s), s.array.owning, Alone(h, s),
         NEW z \in BOOLEAN, NEW m \in BOOLEAN, VertexSize(z, m) > Size(s.array),
         s.array.z => z, s.array.m => m, NEW inPlace \in BOOLEAN,
         NEW r, Fits(h, r), Alone(h, r), r.array.owning, r.top <= ArenaSize,
         r.mem = Grown(s, z, m, inPlace).mem, r.top = Grown(s, z, m, inPlace).top,
         Retypes(r.array, Grown(s, z, m, inPlace).array.data, s.array, z, m)
  PROVE  /\ Memory(r.mem) /\ Same(r.mem, mem, Elsewhere(h))
         /\ Reads(r.mem, r.array, ConvertedValues(s.mem, s.array, z, m))
<1>1. /\ Fits(h, s) /\ s.array \in ArrayType /\ s.top \in Nat
  BY DEF Sound, Fits
<1>c. PICK c \in ArrayType : c = s.array
  BY <1>1
<1>n. PICK new \in Nat : new = c.count * VertexSize(z, m)
  BY ArraySizes, Sizes, Multiples
<1>e. PICK e : e = Reallocated(s, new, inPlace)
  OBVIOUS
<1>a. PICK a : a = e.array
  OBVIOUS
<1>2. PICK f : /\ Descends(f, e.mem, a, z, m, c.count)
               /\ Grown(s, z, m, inPlace) = [mem |-> f[0], top |-> e.top, array |-> a]
  BY <1>1, <1>c, <1>n, <1>e, <1>a, GrownIs
<1>3. a \in {c, [c EXCEPT !.data = s.top + 1]}
  BY <1>1, <1>c, <1>e, <1>a, ReallocatedArray
<1>4. /\ a \in ArrayType /\ a.count = c.count /\ a.z = c.z /\ a.m = c.m /\ Size(a) = Size(c)
      /\ SameType(a, c) /\ Words(a) = Words(c)
  <2> PICK p \in Nat : p = s.top + 1
    BY <1>1
  <2>1. a \in {c, [c EXCEPT !.data = p]}
    BY <1>3
  <2>2. a \in ArrayType /\ a.count = c.count /\ a.z = c.z /\ a.m = c.m
    BY <2>1 DEF ArrayType
  <2> QED
    BY <2>2 DEF Size, SameType, Words
<1>5. r.mem = f[0] /\ e.top <= ArenaSize /\ Retypes(r.array, a.data, c, z, m)
  BY <1>2, <1>c
<1>b. PICK b \in ArrayType : b = r.array
  BY DEF Fits
<1>6. Retypes(b, a.data, a, z, m)
  BY <1>4, <1>5, <1>b DEF Retypes
<1>7. /\ Region(b) \subseteq 1..ArenaSize /\ Elsewhere(h) \subseteq (1..ArenaSize) \ Region(b)
  BY <1>b, RegionOf
<1>8. /\ Memory(e.mem) /\ Same(e.mem, mem, Elsewhere(h))
      /\ \A n \in Nat : n <= Words(c) /\ n <= new => Moved(e.mem, a.data, s.mem, c.data, n)
  BY <1>5, <1>c, <1>e, <1>a, ReallocatedSound
<1>9. Words(c) \in Nat /\ Words(c) <= new
  <2>1. VertexSize(z, m) > Size(c) /\ Size(c) \in {2, 3, 4} /\ VertexSize(z, m) \in {2, 3, 4}
    BY <1>c, ArraySizes, Sizes
  <2> PICK n \in Nat, v \in {2, 3, 4}, w \in {2, 3, 4} :
        n = c.count /\ v = Size(c) /\ w = VertexSize(z, m)
    BY <2>1, ArraySizes
  <2>2. v < w => n * v \in Nat /\ n * v <= n * w
    <3>1. CASE v = 2 /\ w = 3
      BY <3>1
    <3>2. CASE v = 2 /\ w = 4
      BY <3>2
    <3>3. CASE v = 3 /\ w = 4
      BY <3>3
    <3> QED
      BY <3>1, <3>2, <3>3
  <2>3. Words(c) = n * v /\ new = n * w /\ v < w
    BY <1>n, <2>1 DEF Words
  <2> QED
    BY <2>2, <2>3
<1>10. Moved(e.mem, a.data, s.mem, c.data, Words(c))
  <2>1. Words(c) <= Words(c)
    BY <1>9
  <2> QED
    BY <1>8, <1>9, <2>1
<1>11. /\ Memory(f[0]) /\ Same(f[0], e.mem, (1..ArenaSize) \ Region(b))
       /\ Reads(f[0], b, ConvertedValues(e.mem, a, z, m))
  <2>1. /\ (a.z => z) /\ (a.m => m) /\ VertexSize(z, m) > Size(a)
        /\ Descends(f, e.mem, a, z, m, a.count)
    BY <1>2, <1>4, <1>c
  <2>2. Memory(e.mem) /\ Region(b) \subseteq 1..ArenaSize
    BY <1>7, <1>8
  <2> QED
    BY ZenonT(30), <1>4, <1>6, <2>1, <2>2, WidenedConverted
<1>12. ConvertedValues(e.mem, a, z, m) = ConvertedValues(s.mem, c, z, m)
  <2>1. ASSUME NEW i \in 0..c.count - 1, NEW d \in Values!Dims(c.z, c.m)
        PROVE  Word(e.mem, a, i, d) = Word(s.mem, c, i, d)
    <3>1. i \in Nat /\ i < c.count
      BY ArraySizes
    <3>2. Place(c, i, d) \in Nat /\ Place(c, i, d) < Words(c)
      BY <3>1, PlaceIs
    <3>3. Place(a, i, d) = Place(c, i, d)
      BY <1>4 DEF Place
    <3> QED
      BY Zenon, <1>10, <3>2, <3>3 DEF Word, Moved
  <2>2. ASSUME NEW i \in 0..c.count - 1, NEW d \in Values!Dims(z, m)
        PROVE  (IF d \in Values!Dims(c.z, c.m) THEN Word(e.mem, a, i, d) ELSE Default(d)) =
               (IF d \in Values!Dims(c.z, c.m) THEN Word(s.mem, c, i, d) ELSE Default(d))
    BY <2>1
  <2> QED
    BY <1>4, <2>2 DEF ConvertedValues
<1>13. Same(f[0], mem, Elsewhere(h))
  BY Zenon, <1>7, <1>8, <1>11 DEF Same
<1> QED
  BY <1>5, <1>11, <1>12, <1>13, <1>b, <1>c

(* SetVertexType keeps what the array has already and adds the defaults.   *)
LEMMA RetypedSound ==
  ASSUME Inv, NEW h \in Arrays, NEW s, Sound(h, s), s.array.owning, Alone(h, s),
         NEW z \in BOOLEAN, NEW m \in BOOLEAN, <<z, m>> # <<s.array.z, s.array.m>>,
         NEW inPlace \in BOOLEAN, Retyped(s, z, m, inPlace).top <= ArenaSize
  PROVE  LET r == Retyped(s, z, m, inPlace)
         IN  /\ Sound(h, r) /\ r.array \in ArrayType /\ r.array.count = s.array.count
             /\ r.array.z = z /\ r.array.m = m
             /\ Reads(r.mem, r.array, ConvertedValues(s.mem, s.array, z, m))
<1>r. PICK r : r = Retyped(s, z, m, inPlace)
  OBVIOUS
<1>e. PICK e : e = Rewritten(s, z, m, inPlace)
  OBVIOUS
<1>1. /\ Fits(h, s) /\ Fits(h, r) /\ Alone(h, r) /\ s.array \in ArrayType
      /\ s = [mem |-> s.mem, top |-> s.top, array |-> s.array]
      /\ r.top <= ArenaSize
  <2>1. Fits(h, s)
    BY DEF Sound
  <2>2. Fits(h, r) /\ Alone(h, r)
    BY <1>r, <2>1, RetypedFits
  <2> QED
    BY <1>r, <2>1, <2>2 DEF Fits
<1>c. PICK c \in ArrayType : c = s.array
  BY <1>1
<1>p. PICK p \in Nat : p = s.top + 1
  BY <1>1 DEF Fits
<1>2. /\ Size(c) \in {2, 3, 4} /\ VertexSize(z, m) \in {2, 3, 4}
      /\ c.z \in BOOLEAN /\ c.m \in BOOLEAN
      /\ r = [e EXCEPT !.array.z = z, !.array.m = m]
  BY <1>r, <1>e, ArraySizes, Sizes DEF Retyped
<1>3. /\ e = [mem |-> e.mem, top |-> e.top, array |-> e.array]
      /\ e.array \in {c, [c EXCEPT !.data = p]}
  <2>1. CASE VertexSize(z, m) > Size(c)
    <3>1. e = Grown(s, z, m, inPlace)
      BY <1>c, <1>e, <2>1 DEF Rewritten
    <3>2. s.array.count * VertexSize(z, m) \in Nat
      BY <1>1, ArraySizes, Sizes, Multiples
    <3>3. PICK a : a = Reallocated(s, s.array.count * VertexSize(z, m), inPlace)
      OBVIOUS
    <3>4. PICK words : e = [mem |-> words, top |-> a.top, array |-> a.array]
      BY <1>1, <3>1, <3>3, GrownIs
    <3>5. a.array \in {c, [c EXCEPT !.data = p]}
      BY <1>1, <1>c, <1>p, <3>2, <3>3, ReallocatedArray
    <3> QED
      BY <3>4, <3>5
  <2>2. CASE VertexSize(z, m) = Size(c)
    <3>1. e = Exchanged(s, z, m)
      BY <1>2, <1>c, <1>e, <2>2 DEF Rewritten
    <3>2. PICK words : e = [mem |-> words, top |-> s.top, array |-> s.array]
      BY <1>1, <3>1, ExchangedIs
    <3> QED
      BY <1>c, <3>2
  <2>3. CASE VertexSize(z, m) < Size(c)
    <3>1. e = Shortened(s, z, m)
      BY <1>2, <1>c, <1>e, <2>3 DEF Rewritten
    <3> QED
      BY <1>c, <1>p, <3>1 DEF Shortened
  <2> QED
    BY <1>2, <2>1, <2>2, <2>3
<1>4. /\ r.mem = e.mem /\ r.top = e.top /\ r.array \in ArrayType
      /\ r.array.data = e.array.data /\ r.array.count = c.count
      /\ r.array.z = z /\ r.array.m = m
      /\ e.array \in ArrayType /\ e.array.count = c.count
      /\ e.array.z = c.z /\ e.array.m = c.m
  <2>1. Whole(e) /\ PlacedAt(e.array, c, p) /\ TypeSet(r, e, z, m)
    BY <1>2, <1>3 DEF Whole, PlacedAt, TypeSet
  <2> QED
    BY <2>1, RetypedIs
<1>5. Size(r.array) = VertexSize(z, m)
  BY <1>4 DEF Size
<1>6. /\ Memory(r.mem) /\ Same(r.mem, mem, Elsewhere(h))
      /\ Reads(r.mem, r.array, ConvertedValues(s.mem, s.array, z, m))
  <2>1. CASE VertexSize(z, m) > Size(c)
    <3>1. e = Grown(s, z, m, inPlace)
      BY <1>c, <1>e, <2>1 DEF Rewritten
    <3>2. (c.z => z) /\ (c.m => m)
      BY <1>2, <2>1 DEF VertexSize, Size
    <3>3. Retypes(r.array, e.array.data, s.array, z, m)
      BY <1>4, <1>5, <1>c DEF Retypes
    <3>4. r.array.owning
      <4>1. e.array.owning
        BY <1>3, <1>c DEF ArrayType
      <4>2. r.array = [e.array EXCEPT !.z = z, !.m = m]
        BY <1>2, <1>3
      <4> QED
        BY <1>4, <4>1, <4>2 DEF ArrayType
    <3> QED
      BY <1>1, <1>4, <1>c, <2>1, <3>1, <3>2, <3>3, <3>4, GrownConverted
  <2>2. CASE VertexSize(z, m) = Size(c)
    <3>1. e = Exchanged(s, z, m)
      BY <1>2, <1>c, <1>e, <2>2 DEF Rewritten
    <3>2. z # m /\ c.z = m /\ c.m = z
      BY <1>2, <1>c, <2>2 DEF VertexSize, Size
    <3>3. e.array = c
      <4>1. PICK words : e = [mem |-> words, top |-> s.top, array |-> s.array]
        BY <1>1, <3>1, ExchangedIs
      <4> QED
        BY <1>c, <4>1
    <3>4. r.array.data = c.data
      BY <1>4, <3>3
    <3> QED
      BY <1>4, <1>c, <3>1, <3>2, <3>4, ExchangedConverted
  <2>3. CASE VertexSize(z, m) < Size(c)
    <3>1. e = Shortened(s, z, m)
      BY <1>2, <1>c, <1>e, <2>3 DEF Rewritten
    <3>2. (z => c.z) /\ (m => c.m)
      BY <1>2, <2>3 DEF VertexSize, Size
    <3>3. e.array = [c EXCEPT !.data = p]
      BY <1>c, <1>p, <3>1 DEF Shortened
    <3>4. r.array.data = s.top + 1
      BY <1>4, <1>p, <3>3 DEF ArrayType
    <3>5. Retypes(r.array, s.top + 1, s.array, z, m)
      BY <1>4, <1>5, <1>c, <3>4 DEF Retypes
    <3>6. Shortened(s, z, m).top <= ArenaSize
      BY <1>1, <1>4, <3>1
    <3> QED
      BY <1>4, <1>c, <2>3, <3>1, <3>2, <3>5, <3>6, ShortenedConverted
  <2> QED
    BY <1>2, <2>1, <2>2, <2>3
<1>7. Sound(h, r)
  BY <1>1, <1>6 DEF Sound
<1> QED
  BY <1>4, <1>6, <1>7, <1>c, <1>r

LEMMA RetypedTop ==
  ASSUME NEW h \in Arrays, NEW s, Fits(h, s), NEW z \in BOOLEAN, NEW m \in BOOLEAN,
         NEW inPlace \in BOOLEAN
  PROVE  s.top <= Retyped(s, z, m, inPlace).top
<1>e. PICK e : e = Rewritten(s, z, m, inPlace)
  OBVIOUS
<1>1. /\ s.array \in ArrayType /\ s.top \in Nat /\ s.array.count \in Nat
      /\ Size(s.array) \in {2, 3, 4} /\ VertexSize(z, m) \in {2, 3, 4}
  BY ArraySizes, Sizes DEF Fits
<1>n. PICK new \in Nat : new = s.array.count * VertexSize(z, m)
  BY <1>1, Multiples
<1>2. Retyped(s, z, m, inPlace) = [e EXCEPT !.array.z = z, !.array.m = m]
  BY <1>e DEF Retyped
<1>3. CASE VertexSize(z, m) > Size(s.array)
  <2>1. e = Grown(s, z, m, inPlace)
    BY <1>e, <1>3 DEF Rewritten
  <2>a. PICK a : a = Reallocated(s, new, inPlace)
    OBVIOUS
  <2>2. PICK words : e = [mem |-> words, top |-> a.top, array |-> a.array]
    BY <1>n, <2>1, <2>a, GrownIs
  <2>3. Words(s.array) <= new
    <3> PICK n \in Nat, v \in {2, 3, 4}, w \in {2, 3, 4} :
          n = s.array.count /\ v = Size(s.array) /\ w = VertexSize(z, m)
      BY <1>1
    <3>1. v < w => n * v <= n * w
      <4>1. CASE v = 2 /\ w = 3
        BY <4>1
      <4>2. CASE v = 2 /\ w = 4
        BY <4>2
      <4>3. CASE v = 3 /\ w = 4
        BY <4>3
      <4> QED
        BY <4>1, <4>2, <4>3
    <3>2. Words(s.array) = n * v /\ new = n * w /\ v < w
      BY <1>3, <1>n DEF Words
    <3> QED
      BY <3>1, <3>2
  <2>4. s.top <= a.top
    BY <2>3, <2>a, GrowingTop
  <2> QED
    BY <1>2, <2>2, <2>4
<1>4. CASE VertexSize(z, m) = Size(s.array)
  <2>1. e = Exchanged(s, z, m)
    BY <1>1, <1>e, <1>4 DEF Rewritten
  <2>2. PICK words : e = [mem |-> words, top |-> s.top, array |-> s.array]
    BY <2>1, ExchangedIs
  <2> QED
    BY <1>1, <1>2, <2>2
<1>5. CASE VertexSize(z, m) < Size(s.array)
  <2>1. e = Shortened(s, z, m)
    BY <1>1, <1>e, <1>5 DEF Rewritten
  <2>2. PICK words, b : e = [mem |-> words, top |-> s.top + new, array |-> b]
    BY <1>n, <2>1 DEF Shortened
  <2> QED
    BY <1>1, <1>2, <2>2
<1> QED
  BY <1>1, <1>3, <1>4, <1>5

-----------------------------------------------------------------------------
(* The mapping of the arrays to the values.                                *)
LEMMA ValueIs ==
  ASSUME NEW h \in Arrays
  PROVE  /\ ArrayValues[h] = Read(mem, arrays[h])
         /\ Read(mem, arrays[h]).vertices = ReadVertices(mem, arrays[h])
         /\ Read(mem, arrays[h]).z = arrays[h].z /\ Read(mem, arrays[h]).m = arrays[h].m
BY DEF ArrayValues, Read

LEMMA ReadParts ==
  ASSUME NEW memory, NEW a
  PROVE  /\ Read(memory, a) = [z |-> a.z, m |-> a.m, vertices |-> ReadVertices(memory, a)]
         /\ Read(memory, a).vertices = ReadVertices(memory, a)
         /\ Read(memory, a).z = a.z /\ Read(memory, a).m = a.m
BY DEF Read

(* What an action of the arrays shows of the array it changes.             *)
Shows(h, v) ==
  /\ ArrayValues' = [ArrayValues EXCEPT ![h] = v]
  /\ GivenValue' = GivenValue

LEMMA ShowsIs ==
  ASSUME NEW h \in Arrays, NEW v, Shows(h, v)
  PROVE  ArrayValues'[h] = v /\ Values!Make(h, v)
<1>1. DOMAIN ArrayValues = Arrays
  BY DEF ArrayValues
<1> QED
  BY <1>1 DEF Shows, Values!Make, ArrayValues

(* New arrays hold zeros.                                                  *)
LEMMA ZerosRead ==
  ASSUME NEW a \in ArrayType, NEW memory, Holds(memory, a.data, Words(a), Zero)
  PROVE  ReadVertices(memory, a) = Values!Zeros(a.count, a.z, a.m)
<1>1. ASSUME NEW i \in 1..a.count, NEW d \in Values!Dims(a.z, a.m)
      PROVE  Word(memory, a, i - 1, d) = Zero
  <2>1. i - 1 \in Nat /\ i - 1 < a.count
    BY ArraySizes
  <2>2. Place(a, i - 1, d) \in Nat /\ Place(a, i - 1, d) < Words(a)
    BY Zenon, <2>1, PlaceIs
  <2> QED
    BY Zenon, <2>2 DEF Word, Holds
<1>2. ReadVertices(memory, a) = [i \in 1..a.count |->
        [d \in Values!Dims(a.z, a.m) |-> Word(memory, a, i - 1, d)]]
  BY ReadIs
<1> QED
  BY Zenon, <1>1, <1>2 DEF Values!Zeros

LEMMA ShowsZeros ==
  ASSUME NEW h \in Arrays, NEW a \in ArrayType, NEW memory, Shows(h, Read(memory, a)),
         ReadVertices(memory, a) = Values!Zeros(a.count, a.z, a.m)
  PROVE  Values!New(h)
<1>1. Read(memory, a) = [z |-> a.z, m |-> a.m, vertices |-> Values!Zeros(a.count, a.z, a.m)]
  BY Zenon, ReadParts
<1>2. ArrayValues'[h].vertices = ReadVertices(memory, a) /\ Values!Make(h, Read(memory, a))
  BY ShowsIs, ReadParts
<1>3. a.z \in BOOLEAN /\ a.m \in BOOLEAN /\ a.count \in 0..Len(ArrayValues'[h].vertices)
  BY <1>2, ArraySizes, ReadSequence
<1>4. Values!Make(h, [z |-> a.z, m |-> a.m, vertices |-> Values!Zeros(a.count, a.z, a.m)])
  BY Zenon, <1>1, <1>2
<1> QED
  BY Zenon, <1>3, <1>4 DEF Values!New, ArrayValues

LEMMA NewShows ==
  ASSUME Inv, MemoryInv, NEW h \in Arrays, New(h)
  PROVE  MemoryInv' /\ Values!New(h) /\ GivenValue' = GivenValue
<1>1. PICK n \in 1..MaxVertices, z \in BOOLEAN, m \in BOOLEAN :
        Become(h, [mem   |-> Filled(mem, top + 1, n * VertexSize(z, m), Zero),
                   top   |-> top + n * VertexSize(z, m),
                   array |-> Array(top + 1, n, z, m, TRUE)])
  BY DEF New
<1>2. n \in Nat /\ top \in Nat /\ VertexSize(z, m) \in {2, 3, 4} /\ n * VertexSize(z, m) \in Nat
  BY SizesAssumption, Sizes, Multiples DEF Inv, TypeInv
<1>a. PICK a : a = Array(top + 1, n, z, m, TRUE)
  OBVIOUS
<1>s. PICK s : s = [mem   |-> Filled(mem, top + 1, n * VertexSize(z, m), Zero),
                    top   |-> top + n * VertexSize(z, m),
                    array |-> a]
  OBVIOUS
<1>3. /\ a \in ArrayType /\ a.data = top + 1 /\ Words(a) = n * VertexSize(z, m)
      /\ s.array = a /\ s.mem = Filled(mem, top + 1, Words(a), Zero)
      /\ s.top = top + Words(a) /\ Words(a) \in Nat
  BY <1>2, <1>a, <1>s DEF Array, ArrayType, Words, Size
<1>4. Become(h, s) /\ Fits(h, s)
  BY <1>1, <1>2, <1>a, <1>s, NewArrayFits
<1>5. top + Words(a) <= ArenaSize
  BY <1>3, <1>4 DEF Become
<1>6. /\ Memory(s.mem) /\ Same(s.mem, mem, 1..top) /\ Holds(s.mem, a.data, Words(a), Zero)
  BY <1>2, <1>3, <1>5, FilledBehind DEF MemoryInv
<1>7. Same(s.mem, mem, Elsewhere(h))
  <2>1. Elsewhere(h) \subseteq 1..top
    BY StateFits, ElsewhereIs
  <2> QED
    BY Zenon, <1>6, <2>1 DEF Same
<1>8. Sound(h, s)
  BY <1>3, <1>4, <1>5, <1>6, <1>7 DEF Sound
<1>9. MemoryInv' /\ Shows(h, Read(s.mem, a)) /\ GivenValue' = GivenValue
  BY <1>3, <1>4, <1>8, BecomesValue DEF Shows
<1> QED
  BY <1>3, <1>6, <1>9, ZerosRead, ShowsZeros

(* A state with the memory as it is.                                       *)
LEMMA SameMemorySound ==
  ASSUME Inv, MemoryInv, NEW h \in Arrays, NEW a, Fits(h, [State(h) EXCEPT !.array = a])
  PROVE  LET s == [State(h) EXCEPT !.array = a]
         IN  Sound(h, s) /\ s.mem = mem /\ s.array = a
<1> PICK s : s = [State(h) EXCEPT !.array = a]
  OBVIOUS
<1>1. s.mem = mem /\ s.top = top /\ s.array = a
  BY DEF State
<1> QED
  BY <1>1 DEF Sound, MemoryInv, Same

LEMMA DropShows ==
  ASSUME Inv, MemoryInv, NEW h \in Arrays, Drop(h)
  PROVE  MemoryInv' /\ Values!New(h) /\ GivenValue' = GivenValue
<1>1. PICK z \in BOOLEAN, m \in BOOLEAN :
        Become(h, [State(h) EXCEPT !.array = EmptyArray(z, m)])
  BY DEF Drop
<1>a. PICK a : a = EmptyArray(z, m)
  OBVIOUS
<1>2. a \in ArrayType /\ ~a.owning /\ a.count = 0
  BY <1>a DEF EmptyArray, Array, ArrayType, Null
<1>3. Region(a) = {} /\ Words(a) = 0
  BY <1>2, ArraySizes
<1>s. PICK s : s = [State(h) EXCEPT !.array = a]
  OBVIOUS
<1>4. Fits(h, s) /\ Become(h, s)
  BY <1>1, <1>2, <1>3, <1>a, <1>s, ReferenceFits
<1>5. Sound(h, s) /\ s.mem = mem /\ s.array = a
  BY <1>4, <1>s, SameMemorySound
<1>6. MemoryInv' /\ Shows(h, Read(mem, a)) /\ GivenValue' = GivenValue
  BY <1>4, <1>5, BecomesValue DEF Shows
<1>7. Holds(mem, a.data, Words(a), Zero)
  BY <1>3 DEF Holds
<1> QED
  BY <1>2, <1>6, <1>7, ZerosRead, ShowsZeros

(* The words of the serialized geometry are in the memory as they came.    *)
LEMMA GivenRead ==
  ASSUME Inv, MemoryInv, NEW a \in ArrayType, NEW memory,
         a.count = blob.count, a.z = blob.z, a.m = blob.m,
         Moved(memory, a.data, mem, 1, Words(a))
  PROVE  Read(memory, a) = GivenValue
<1>b. PICK b : b = Array(1, blob.count, blob.z, blob.m, FALSE)
  OBVIOUS
<1>1. /\ blob.count \in Nat /\ blob.z \in BOOLEAN /\ blob.m \in BOOLEAN
      /\ BlobLength \in Nat /\ blob.count * VertexSize(blob.z, blob.m) <= BlobLength
  BY BlobsAssumption DEF Inv, TypeInv, BlobLength
<1>2. /\ b \in ArrayType /\ b.data = 1 /\ b.count = a.count /\ b.z = a.z /\ b.m = a.m
      /\ Words(b) = blob.count * VertexSize(blob.z, blob.m) /\ Words(b) = Words(a)
      /\ Words(b) \in Nat
  BY <1>1, <1>b, ArraySizes DEF Array, ArrayType, Words, Size
<1>3. \A k \in Nat : k < Words(b) => 1 + k \in 1..BlobLength
  BY <1>1, <1>2
<1>4. Moved(memory, a.data, blob.words, b.data, Words(a))
  BY Zenon, <1>2, <1>3 DEF Moved, MemoryInv
<1>5. Read(memory, a) = Read(blob.words, b)
  BY <1>2, <1>4, SameRead
<1> QED
  BY <1>5, <1>b DEF GivenValue

LEMMA ShowsGiven ==
  ASSUME NEW h \in Arrays, Shows(h, GivenValue)
  PROVE  Values!Receive(h)
BY ShowsIs DEF Values!Receive, GivenValue

LEMMA DeserializeShows ==
  ASSUME Inv, MemoryInv, NEW h \in Arrays, Deserialize(h)
  PROVE  MemoryInv' /\ Values!Receive(h) /\ GivenValue' = GivenValue
<1>a. PICK a : a = Array(1, blob.count, blob.z, blob.m, FALSE)
  OBVIOUS
<1>1. /\ blob.count \in Nat /\ blob.z \in BOOLEAN /\ blob.m \in BOOLEAN
      /\ BlobLength \in Nat /\ BlobLength <= top /\ top \in Nat
      /\ blob.count * VertexSize(blob.z, blob.m) <= BlobLength
  BY BlobsAssumption DEF Inv, TypeInv, BlobLength
<1>2. /\ a \in ArrayType /\ ~a.owning /\ a.data = 1
      /\ a.count = blob.count /\ a.z = blob.z /\ a.m = blob.m
      /\ Words(a) = blob.count * VertexSize(blob.z, blob.m)
  BY <1>1, <1>a DEF Array, ArrayType, Words, Size
<1>3. Words(a) \in Nat /\ Region(a) = 1..(1 + Words(a) - 1)
  BY <1>2, ArraySizes
<1>4. Region(a) \subseteq 1..top
  BY <1>1, <1>2, <1>3
<1>s. PICK s : s = [State(h) EXCEPT !.array = a]
  OBVIOUS
<1>5. Fits(h, s) /\ Become(h, s)
  BY <1>2, <1>4, <1>a, <1>s, ReferenceFits DEF Deserialize
<1>6. Sound(h, s) /\ s.mem = mem /\ s.array = a
  BY <1>5, <1>s, SameMemorySound
<1>7. MemoryInv' /\ Shows(h, Read(mem, a)) /\ GivenValue' = GivenValue
  BY <1>5, <1>6, BecomesValue DEF Shows
<1>8. Moved(mem, a.data, mem, 1, Words(a))
  BY <1>2 DEF Moved
<1>9. Read(mem, a) = GivenValue
  BY <1>2, <1>8, GivenRead
<1> QED
  BY <1>7, <1>9, ShowsGiven

LEMMA CopyShows ==
  ASSUME Inv, MemoryInv, NEW h \in Arrays, Copy(h)
  PROVE  MemoryInv' /\ Values!Receive(h) /\ GivenValue' = GivenValue
<1>1. /\ blob.count \in Nat /\ blob.z \in BOOLEAN /\ blob.m \in BOOLEAN /\ top \in Nat
      /\ blob.count * VertexSize(blob.z, blob.m) \in Nat
  BY BlobsAssumption, Sizes, Multiples DEF Inv, TypeInv
<1>n. PICK n \in Nat : n = blob.count * VertexSize(blob.z, blob.m)
  BY <1>1
<1>a. PICK a : a = Array(top + 1, blob.count, blob.z, blob.m, TRUE)
  OBVIOUS
<1>s. PICK s : s = [mem |-> Copied(mem, top + 1, 1, n), top |-> top + n, array |-> a]
  OBVIOUS
<1>2. Become(h, s) /\ Fits(h, s)
  BY <1>1, <1>n, <1>a, <1>s, NewArrayFits DEF Copy
<1>3. /\ a \in ArrayType /\ a.data = top + 1 /\ a.count = blob.count
      /\ a.z = blob.z /\ a.m = blob.m /\ Words(a) = n
      /\ s.array = a /\ s.mem = Copied(mem, top + 1, 1, n) /\ s.top = top + n
  BY <1>1, <1>n, <1>a, <1>s DEF Array, ArrayType, Words, Size
<1>4. top + n <= ArenaSize
  BY <1>2, <1>3 DEF Become
<1>5. /\ Memory(s.mem) /\ Same(s.mem, mem, 1..top) /\ Moved(s.mem, a.data, mem, 1, Words(a))
  <2>1. 1 \in Nat /\ Memory(mem)
    BY DEF MemoryInv
  <2> QED
    BY <1>1, <1>3, <1>4, <2>1, CopiedBehind
<1>6. Same(s.mem, mem, Elsewhere(h))
  <2>1. Elsewhere(h) \subseteq 1..top
    BY StateFits, ElsewhereIs
  <2> QED
    BY Zenon, <1>5, <2>1 DEF Same
<1>7. Sound(h, s)
  BY <1>2, <1>3, <1>4, <1>5, <1>6 DEF Sound
<1>8. Read(s.mem, a) = GivenValue
  BY <1>3, <1>5, GivenRead
<1>9. MemoryInv' /\ Shows(h, GivenValue) /\ GivenValue' = GivenValue
  BY <1>2, <1>3, <1>7, <1>8, BecomesValue DEF Shows
<1> QED
  BY <1>9, ShowsGiven

LEMMA ReferenceShows ==
  ASSUME Inv, MemoryInv, NEW h \in Arrays, NEW g \in Arrays, Reference(h, g)
  PROVE  MemoryInv' /\ Values!Point(h, g) /\ GivenValue' = GivenValue
<1>c. PICK c \in ArrayType : c = arrays[g]
  BY DEF Inv, TypeInv
<1>1. /\ Size(c) \in {2, 3, 4} /\ Words(c) \in Nat
      /\ c.data \in Nat /\ c.count \in Nat /\ c.z \in BOOLEAN /\ c.m \in BOOLEAN
      /\ Region(c) = c.data..(c.data + Words(c) - 1)
  BY ArraySizes
<1>2. PICK i \in 0..c.count - 1 :
        Become(h, [State(h) EXCEPT !.array =
                     Array(c.data + i * Size(c), 1, c.z, c.m, FALSE)])
  BY <1>c DEF Reference
<1>3. i \in Nat /\ i < c.count
  BY <1>1, <1>2
<1>4. c.data + i * Size(c) \in Nat /\ Block(c, i) \subseteq Region(c)
  BY <1>3, WordIs, BlockIs
<1>a. PICK a : a = Array(c.data + i * Size(c), 1, c.z, c.m, FALSE)
  OBVIOUS
<1>5. /\ a \in ArrayType /\ ~a.owning /\ a.data = c.data + i * Size(c)
      /\ Size(a) = Size(c) /\ a.count = 1 /\ a.z = c.z /\ a.m = c.m
      /\ Words(a) = 1 * Size(c) /\ SameType(c, a)
  BY <1>1, <1>4, <1>a DEF Array, ArrayType, Size, SameType, Words
<1>6. Region(a) \subseteq 1..top
  <2>1. Region(a) = Block(c, i)
    BY <1>1, <1>5 DEF Region, Block
  <2>2. Region(c) \subseteq 1..top
    BY <1>c DEF Inv, OwnersDisjoint
  <2> QED
    BY <1>4, <2>1, <2>2
<1>s. PICK s : s = [State(h) EXCEPT !.array = a]
  OBVIOUS
<1>7. Fits(h, s) /\ Become(h, s)
  BY <1>2, <1>5, <1>6, <1>a, <1>s, ReferenceFits
<1>8. Sound(h, s) /\ s.mem = mem /\ s.array = a
  BY <1>7, <1>s, SameMemorySound
<1>9. MemoryInv' /\ Shows(h, Read(mem, a)) /\ GivenValue' = GivenValue
  BY <1>7, <1>8, BecomesValue DEF Shows
<1>10. Shares(mem, c, i, mem, a, 1)
  <2>1. Moved(mem, c.data + i * Size(c), mem, a.data, 1 * Size(c))
    BY <1>5 DEF Moved
  <2>2. 1 \in Nat /\ i + 1 <= c.count /\ 1 <= a.count
    BY <1>1, <1>3, <1>5
  <2> QED
    BY <1>3, <1>5, <2>1, <2>2, SliceRead
<1>11. ReadVertices(mem, a) = <<ReadVertices(mem, c)[i + 1]>>
  <2>1. ReadVertices(mem, c)[i + 1] = ReadVertices(mem, a)[1]
    BY <1>10 DEF Shares
  <2>2. PICK v : v = ReadVertices(mem, a)
    OBVIOUS
  <2>3. v = [k \in 1..1 |-> [d \in Values!Dims(a.z, a.m) |-> Word(mem, a, k - 1, d)]]
    <3>1. ReadVertices(mem, a) = [k \in 1..a.count |->
            [d \in Values!Dims(a.z, a.m) |-> Word(mem, a, k - 1, d)]]
      BY Zenon, <1>5, ReadIs
    <3> QED
      BY <1>5, <2>2, <3>1
  <2>4. v = <<v[1]>>
    BY <2>3
  <2> QED
    BY <2>1, <2>2, <2>4
<1>12. /\ ArrayValues[g] = [z |-> c.z, m |-> c.m, vertices |-> ReadVertices(mem, c)]
       /\ i + 1 \in DOMAIN ReadVertices(mem, c)
  <2>1. i + 1 \in 1..c.count
    BY <1>1, <1>3
  <2> QED
    BY <1>c, <2>1, ValueIs, ReadParts, ReadSequence
<1>13. Read(mem, a) = [ArrayValues[g] EXCEPT !.vertices = <<@[i + 1]>>]
  BY <1>5, <1>11, <1>12, ReadParts
<1>14. /\ i + 1 \in DOMAIN ArrayValues[g].vertices
       /\ Values!Make(h, [ArrayValues[g] EXCEPT !.vertices = <<@[i + 1]>>])
  BY <1>9, <1>12, <1>13, ShowsIs
<1>15. Values!Point(h, g)
  BY Zenon, <1>14 DEF Values!Point, ArrayValues
<1> QED
  BY <1>9, <1>15

(* An array at Null has no words.                                          *)
LEMMA NullIsEmpty ==
  ASSUME Inv, NEW h \in Arrays, arrays[h].data = Null
  PROVE  arrays[h].count = 0
<1> PICK a \in ArrayType : a = arrays[h]
  BY DEF Inv, TypeInv
<1>1. /\ Size(a) \in {2, 3, 4} /\ a.count \in Nat /\ a.data = 0
      /\ Region(a) = a.data..(a.data + a.count * Size(a) - 1)
  BY ArraySizes DEF Null, Words
<1>2. Region(a) \subseteq 1..top /\ top \in Nat
  BY DEF Inv, OwnersDisjoint, TypeInv
<1>3. 0 \notin Region(a)
  BY <1>2
<1>4. a.count > 0 => a.count * Size(a) > 0 /\ a.count * Size(a) \in Nat
  <2>1. CASE Size(a) = 2
    BY <1>1, <2>1
  <2>2. CASE Size(a) = 3
    BY <1>1, <2>2
  <2>3. CASE Size(a) = 4
    BY <1>1, <2>3
  <2> QED
    BY <1>1, <2>1, <2>2, <2>3
<1> PICK k : k = a.count * Size(a)
  OBVIOUS
<1>5. a.count > 0 => 0 \in Region(a)
  BY <1>1, <1>4
<1> QED
  BY <1>1, <1>3, <1>5

LEMMA ResizeShows ==
  ASSUME Inv, MemoryInv, NEW h \in Arrays, Resize(h)
  PROVE  MemoryInv' /\ Values!Resize(h) /\ GivenValue' = GivenValue
<1>1. PICK n \in 0..MaxVertices, inPlace \in BOOLEAN :
        /\ arrays[h].data = Null \/ n <= arrays[h].count
        /\ Become(h, Resized(State(h), n, inPlace))
  BY DEF Resize
<1>2. n \in Nat
  BY SizesAssumption
<1>c. PICK c \in ArrayType : c = arrays[h]
  BY DEF Inv, TypeInv
<1>s. PICK s : s = State(h)
  OBVIOUS
<1>3. /\ Sound(h, s) /\ (s.array.owning => Alone(h, s))
      /\ s.array = c /\ s.mem = mem /\ Fits(h, s)
  BY <1>c, <1>s, StateSound DEF Resize, Sound
<1>r. PICK r : r = Resized(s, n, inPlace)
  OBVIOUS
<1>4. Become(h, r) /\ r.top <= ArenaSize
  BY <1>1, <1>r, <1>s DEF Become
<1>5. /\ Sound(h, r)
      /\ r.array.count = n /\ r.array.z = c.z /\ r.array.m = c.m
      /\ \A k \in Nat : k <= Words(c) /\ k <= Words(r.array) =>
           Moved(r.mem, r.array.data, mem, c.data, k)
      /\ c.data = Null \/ ~c.owning =>
           HoldsFrom(r.mem, r.array.data, Words(c), Words(r.array), Zero)
  BY <1>2, <1>3, <1>4, <1>r, ResizedSound
<1>a. PICK a \in ArrayType : a = r.array
  BY <1>5 DEF Sound, Fits
<1>6. MemoryInv' /\ Shows(h, Read(r.mem, a)) /\ GivenValue' = GivenValue
  BY <1>4, <1>5, <1>a, BecomesValue DEF Shows
<1>7. /\ a.count = n /\ a.z = c.z /\ a.m = c.m /\ SameType(a, c) /\ Size(a) = Size(c)
      /\ Size(c) \in {2, 3, 4} /\ c.count \in Nat /\ Words(a) = n * Size(c) /\ Words(a) \in Nat
  BY <1>5, <1>a, ArraySizes DEF SameType, Size, Words
<1>8. ASSUME NEW i \in 1..n
      PROVE  ReadVertices(r.mem, a)[i] =
               IF i <= c.count THEN ReadVertices(mem, c)[i]
               ELSE [d \in Values!Dims(c.z, c.m) |-> Zero]
  <2>1. CASE n <= c.count
    <3>1. Words(a) <= Words(c) /\ Words(a) <= Words(a)
      BY <1>2, <1>7, <2>1, Multiples DEF Words
    <3>2. Moved(r.mem, a.data, mem, c.data, n * Size(a))
      BY <1>5, <1>7, <1>a, <3>1
    <3>3. /\ a.data + 0 * Size(a) = a.data /\ 0 + n <= a.count /\ 0 \in Nat
      BY <1>2, <1>7, ArraySizes
    <3>4. Moved(r.mem, a.data + 0 * Size(a), mem, c.data, n * Size(a))
      BY <3>2, <3>3
    <3>5. Shares(r.mem, a, 0, mem, c, n)
      BY Zenon, <1>2, <1>7, <2>1, <3>3, <3>4, SliceRead
    <3>6. ReadVertices(r.mem, a)[0 + i] = ReadVertices(mem, c)[i]
      BY Zenon, <3>5 DEF Shares
    <3>7. 0 + i = i /\ i <= c.count
      BY <1>2, <1>7, <2>1
    <3> QED
      BY <3>6, <3>7
  <2>2. CASE c.data = Null
    <3>1. c.count = 0 /\ Words(c) = 0
      BY <1>c, <2>2, NullIsEmpty, ArraySizes
    <3>2. HoldsFrom(r.mem, a.data, 0, Words(a), Zero)
      BY <1>5, <1>a, <2>2, <3>1
    <3>3. \A k \in Nat : 0 <= k
      OBVIOUS
    <3>4. Holds(r.mem, a.data, Words(a), Zero)
      BY Zenon, <3>2, <3>3 DEF Holds, HoldsFrom
    <3>5. ReadVertices(r.mem, a) = Values!Zeros(a.count, a.z, a.m)
      BY <3>4, ZerosRead
    <3>6. Values!Zeros(n, c.z, c.m)[i] = [d \in Values!Dims(c.z, c.m) |-> Zero]
      BY DEF Values!Zeros
    <3>7. ~(i <= c.count)
      BY <1>2, <3>1
    <3> QED
      BY <1>7, <3>5, <3>6, <3>7
  <2> QED
    BY <1>1, <1>c, <2>1, <2>2
<1>9. ReadVertices(r.mem, a) =
        [i \in 1..n |-> IF i <= Len(ReadVertices(mem, c)) THEN ReadVertices(mem, c)[i]
                        ELSE [d \in Values!Dims(c.z, c.m) |-> Zero]]
  <2>1. Len(ReadVertices(mem, c)) = c.count
    BY ReadSequence
  <2>2. ReadVertices(r.mem, a) = [i \in 1..n |-> ReadVertices(r.mem, a)[i]]
    <3>1. ReadVertices(r.mem, a) = [k \in 1..a.count |->
            [d \in Values!Dims(a.z, a.m) |-> Word(r.mem, a, k - 1, d)]]
      BY ReadIs
    <3> QED
      BY Zenon, <1>7, <3>1
  <2> QED
    BY Zenon, <1>8, <2>1, <2>2
<1>10. /\ ArrayValues[h] = [z |-> c.z, m |-> c.m, vertices |-> ReadVertices(mem, c)]
       /\ ArrayValues'[h] = Read(r.mem, a)
       /\ Values!Make(h, Read(r.mem, a))
  BY <1>6, <1>c, ShowsIs, ValueIs, ReadParts
<1>11. Len(ArrayValues'[h].vertices) = n
  BY <1>7, <1>10, ReadParts, ReadSequence
<1>12. Read(r.mem, a) =
         [ArrayValues[h] EXCEPT !.vertices =
            [i \in 1..Len(ArrayValues'[h].vertices) |->
               IF i <= Len(ArrayValues[h].vertices) THEN ArrayValues[h].vertices[i]
               ELSE [d \in Values!Dims(ArrayValues[h].z, ArrayValues[h].m) |-> Zero]]]
  <2>a. PICK old, new, v : /\ old = ReadVertices(mem, c) /\ new = ReadVertices(r.mem, a)
                           /\ v = ArrayValues[h]
    OBVIOUS
  <2>1. v.vertices = old /\ v.z = c.z /\ v.m = c.m
    BY <1>10, <2>a
  <2>2. new = [i \in 1..Len(ArrayValues'[h].vertices) |->
               IF i <= Len(v.vertices) THEN v.vertices[i]
               ELSE [d \in Values!Dims(v.z, v.m) |-> Zero]]
    BY <1>9, <1>11, <2>1, <2>a
  <2>3. Read(r.mem, a) = [v EXCEPT !.vertices = new]
    BY <1>7, <1>10, <2>a, ReadParts
  <2> QED
    BY <2>2, <2>3, <2>a
<1>13. Values!Resize(h)
  BY <1>10, <1>12 DEF Values!Resize, ArrayValues
<1> QED
  BY <1>6, <1>13

LEMMA AppendShows ==
  ASSUME Inv, MemoryInv, NEW h \in Arrays, NEW g \in Arrays, AppendArray(h, g)
  PROVE  MemoryInv' /\ Values!AppendArray(h, g) /\ GivenValue' = GivenValue
<1>1. PICK inPlace \in BOOLEAN : Become(h, Appended(State(h), arrays[g], inPlace))
  BY DEF AppendArray
<1>s. PICK s : s = State(h)
  OBVIOUS
<1>2. /\ Sound(h, s) /\ (s.array.owning => Alone(h, s))
      /\ s.array = arrays[h] /\ s.mem = mem /\ g \in Arrays \ {h}
      /\ arrays[g].z = s.array.z /\ arrays[g].m = s.array.m
  BY <1>s, StateSound DEF AppendArray
<1>r. PICK r : r = Appended(s, arrays[g], inPlace)
  OBVIOUS
<1>3. Become(h, r) /\ r.top <= ArenaSize
  BY <1>1, <1>r, <1>s DEF Become
<1>4. /\ Sound(h, r)
      /\ r.array.z = arrays[h].z /\ r.array.m = arrays[h].m
      /\ ReadVertices(r.mem, r.array) =
           ReadVertices(mem, arrays[h]) \o ReadVertices(mem, arrays[g])
  <2>1. Appended(s, arrays[g], inPlace).top <= ArenaSize
    BY <1>3, <1>r
  <2>2. LET q == Appended(s, arrays[g], inPlace)
        IN  /\ Sound(h, q)
            /\ q.array.z = s.array.z /\ q.array.m = s.array.m
            /\ ReadVertices(q.mem, q.array) =
                 ReadVertices(s.mem, s.array) \o ReadVertices(mem, arrays[g])
    BY <1>2, <2>1, AppendedSound
  <2> QED
    BY <1>2, <1>r, <2>2
<1>5. MemoryInv' /\ Shows(h, Read(r.mem, r.array)) /\ GivenValue' = GivenValue
  BY <1>3, <1>4, BecomesValue DEF Shows
<1>6. Read(r.mem, r.array) =
        [Read(mem, arrays[h]) EXCEPT !.vertices = @ \o Read(mem, arrays[g]).vertices]
  <2>a. PICK own, others, new :
          /\ own = ReadVertices(mem, arrays[h]) /\ others = ReadVertices(mem, arrays[g])
          /\ new = ReadVertices(r.mem, r.array)
    OBVIOUS
  <2>1. new = own \o others
    BY Zenon, <1>4, <2>a
  <2>2. Read(r.mem, r.array) = [z |-> arrays[h].z, m |-> arrays[h].m, vertices |-> new]
    <3>1. Read(r.mem, r.array) = [z |-> r.array.z, m |-> r.array.m, vertices |-> new]
      BY <2>a, ReadParts
    <3> QED
      BY Zenon, <1>4, <3>1
  <2>3. Read(mem, arrays[h]) = [z |-> arrays[h].z, m |-> arrays[h].m, vertices |-> own]
    BY <2>a, ReadParts
  <2>4. Read(mem, arrays[g]).vertices = others
    BY <2>a, ReadParts
  <2>5. Read(r.mem, r.array) =
          [Read(mem, arrays[h]) EXCEPT !.vertices = own \o others]
    <3>1. Read(r.mem, r.array) = [Read(mem, arrays[h]) EXCEPT !.vertices = new]
      BY <2>2, <2>3
    <3> QED
      BY Zenon, <2>1, <3>1
  <2>6. Read(mem, arrays[h]).vertices = own
    BY <2>3
  <2> QED
    BY <2>4, <2>5, <2>6
<1>7. Read(r.mem, r.array) = [ArrayValues[h] EXCEPT !.vertices = @ \o ArrayValues[g].vertices]
  BY <1>6, ValueIs
<1>8. Values!AppendArray(h, g)
  BY <1>5, <1>7, ShowsIs DEF Values!AppendArray, ArrayValues
<1> QED
  BY <1>5, <1>8

(* The array the operations on words of its own begin with.                *)
LEMMA OwnedSound ==
  ASSUME Inv, MemoryInv, NEW h \in Arrays, Exclusive(h), MakeOwning(State(h)).top <= ArenaSize
  PROVE  LET s == MakeOwning(State(h))
         IN  /\ Sound(h, s) /\ Alone(h, s) /\ s.array.owning /\ s.array \in ArrayType
             /\ s.array.count = arrays[h].count
             /\ s.array.z = arrays[h].z /\ s.array.m = arrays[h].m
             /\ Read(s.mem, s.array) = ArrayValues[h]
<1>1. /\ Sound(h, State(h)) /\ (State(h).array.owning => Alone(h, State(h)))
      /\ Fits(h, State(h)) /\ State(h).array = arrays[h] /\ State(h).mem = mem
  BY StateSound DEF Sound
<1>s. PICK s : s = MakeOwning(State(h))
  OBVIOUS
<1>2. /\ Fits(h, s) /\ Alone(h, s) /\ s.array.owning
      /\ s.array.count = arrays[h].count /\ s.array.z = arrays[h].z /\ s.array.m = arrays[h].m
  BY <1>1, <1>s, MakeOwningFits
<1>3. Sound(h, s) /\ Read(s.mem, s.array) = Read(mem, arrays[h])
  BY <1>1, <1>s, MakeOwningSound
<1> QED
  BY <1>2, <1>3, <1>s, ValueIs DEF Fits

LEMMA FlipShows ==
  ASSUME Inv, MemoryInv, NEW h \in Arrays, FlipCoordinates(h)
  PROVE  MemoryInv' /\ Values!Flip(h) /\ GivenValue' = GivenValue
<1>s. PICK s : s = MakeOwning(State(h))
  OBVIOUS
<1>1. Exclusive(h) /\ s.top <= ArenaSize /\ Become(h, Flipped(s))
  BY <1>s DEF FlipCoordinates
<1>2. /\ Sound(h, s) /\ Alone(h, s) /\ s.array.owning /\ s.array \in ArrayType
      /\ Read(s.mem, s.array) = ArrayValues[h]
  BY <1>1, <1>s, OwnedSound
<1>c. PICK c \in ArrayType : c = s.array
  BY <1>2
<1>r. PICK r : r = Flipped(s)
  OBVIOUS
<1>3. /\ Sound(h, r) /\ r.array = c /\ Reads(r.mem, c, FlipValues(s.mem, c))
  BY <1>2, <1>c, <1>r, FlippedSound
<1>4. MemoryInv' /\ Shows(h, Read(r.mem, c)) /\ GivenValue' = GivenValue
  BY <1>1, <1>3, <1>r, BecomesValue DEF Shows
<1>v. PICK old, new : old = ReadVertices(s.mem, c) /\ new = ReadVertices(r.mem, c)
  OBVIOUS
<1>5. DOMAIN old = 1..c.count
  BY <1>v, ReadSequence
<1>6. ASSUME NEW i \in 1..c.count
      PROVE  [d \in Values!Dims(c.z, c.m) |-> FlipValues(s.mem, c)[i - 1][d]] =
               [old[i] EXCEPT !["x"] = old[i]["y"], !["y"] = old[i]["x"]]
  <2>1. old[i] = [d \in Values!Dims(c.z, c.m) |-> Word(s.mem, c, i - 1, d)]
    BY <1>v, VertexIs
  <2>2. i - 1 \in 0..c.count - 1
    BY ArraySizes
  <2>3. \A d \in Values!Dims(c.z, c.m) :
          FlipValues(s.mem, c)[i - 1][d] =
            Word(s.mem, c, i - 1, IF d = "x" THEN "y" ELSE IF d = "y" THEN "x" ELSE d)
    BY <2>2 DEF FlipValues
  <2>4. "x" \in Values!Dims(c.z, c.m) /\ "y" \in Values!Dims(c.z, c.m)
    BY DEF Values!Dims
  <2> PICK v : v = old[i]
    OBVIOUS
  <2>5. /\ DOMAIN v = Values!Dims(c.z, c.m)
        /\ \A d \in Values!Dims(c.z, c.m) : v[d] = Word(s.mem, c, i - 1, d)
    BY <2>1
  <2> PICK u : u = [v EXCEPT !["x"] = v["y"], !["y"] = v["x"]]
    OBVIOUS
  <2>6. /\ u = [d \in Values!Dims(c.z, c.m) |-> u[d]]
        /\ \A d \in Values!Dims(c.z, c.m) :
             u[d] = IF d = "x" THEN v["y"] ELSE IF d = "y" THEN v["x"] ELSE v[d]
    BY <2>4, <2>5
  <2>7. ASSUME NEW d \in Values!Dims(c.z, c.m) PROVE u[d] = FlipValues(s.mem, c)[i - 1][d]
    <3>1. CASE d = "x"
      BY <2>3, <2>4, <2>5, <2>6, <3>1
    <3>2. CASE d = "y"
      BY <2>3, <2>4, <2>5, <2>6, <3>2
    <3>3. CASE d # "x" /\ d # "y"
      BY <2>3, <2>5, <2>6, <3>3
    <3> QED
      BY <3>1, <3>2, <3>3
  <2>8. u = [d \in Values!Dims(c.z, c.m) |-> FlipValues(s.mem, c)[i - 1][d]]
    BY Zenon, <2>6, <2>7
  <2> QED
    BY <2>8
<1>7. new = [i \in DOMAIN old |-> [old[i] EXCEPT !["x"] = old[i]["y"], !["y"] = old[i]["x"]]]
  <2>1. new = [i \in 1..c.count |->
                 [d \in Values!Dims(c.z, c.m) |-> FlipValues(s.mem, c)[i - 1][d]]]
    BY Zenon, <1>3, <1>v DEF Reads
  <2> QED
    BY Zenon, <1>5, <1>6, <2>1
<1>8. Read(r.mem, c) = [ArrayValues[h] EXCEPT !.vertices = new]
  <2>1. ArrayValues[h] = [z |-> c.z, m |-> c.m, vertices |-> old]
    BY <1>2, <1>c, <1>v, ReadParts
  <2>2. Read(r.mem, c) = [z |-> c.z, m |-> c.m, vertices |-> new]
    BY <1>v, ReadParts
  <2> QED
    BY <2>1, <2>2
<1>9. ArrayValues[h].vertices = old
  BY <1>2, <1>c, <1>v, ReadParts
<1>10. Values!Make(h, Read(r.mem, c))
  BY <1>4, ShowsIs
<1>11. Values!Flip(h)
  BY <1>7, <1>8, <1>9, <1>10 DEF Values!Flip, ArrayValues
<1> QED
  BY <1>4, <1>11

LEMMA SetVertexTypeShows ==
  ASSUME Inv, MemoryInv, NEW h \in Arrays, SetVertexType(h)
  PROVE  \/ MemoryInv' /\ Values!SetVertexType(h) /\ GivenValue' = GivenValue
         \/ UNCHANGED <<blob, mem, top, arrays>>
<1>1. SUFFICES ASSUME ~UNCHANGED <<blob, mem, top, arrays>>
               PROVE  MemoryInv' /\ Values!SetVertexType(h) /\ GivenValue' = GivenValue
  OBVIOUS
<1>s. PICK s : s = MakeOwning(State(h))
  OBVIOUS
<1>2. Exclusive(h) /\ Fits(h, State(h)) /\ (State(h).array.owning => Alone(h, State(h)))
  BY StateFits DEF SetVertexType
<1>3. Fits(h, s)
  BY <1>2, <1>s, MakeOwningFits
<1>4. PICK z \in BOOLEAN, m \in BOOLEAN, inPlace \in BOOLEAN :
        /\ <<z, m>> # <<arrays[h].z, arrays[h].m>>
        /\ Become(h, Retyped(s, z, m, inPlace))
  BY <1>1, <1>s DEF SetVertexType
<1>r. PICK r : r = Retyped(s, z, m, inPlace)
  OBVIOUS
<1>5. Become(h, r) /\ r.top <= ArenaSize
  BY <1>4, <1>r DEF Become
<1>6. s.top <= ArenaSize
  <2>1. s.top <= r.top
    BY <1>3, <1>r, RetypedTop
  <2>2. Fits(h, r)
    <3>1. Fits(h, s) /\ Alone(h, s) /\ s.array.owning
      BY <1>2, <1>s, MakeOwningFits
    <3> QED
      BY <1>r, <3>1, RetypedFits
  <2>3. s.top \in Nat /\ r.top \in Nat
    BY <1>3, <2>2 DEF Fits
  <2> QED
    BY <1>5, <2>1, <2>3, SizesAssumption
<1>7. /\ Sound(h, s) /\ Alone(h, s) /\ s.array.owning /\ s.array \in ArrayType
      /\ s.array.z = arrays[h].z /\ s.array.m = arrays[h].m
      /\ Read(s.mem, s.array) = ArrayValues[h]
  BY <1>2, <1>6, <1>s, OwnedSound
<1>c. PICK c \in ArrayType : c = s.array
  BY <1>7
<1>8. /\ Sound(h, r) /\ r.array \in ArrayType /\ r.array.count = c.count
      /\ r.array.z = z /\ r.array.m = m
      /\ Reads(r.mem, r.array, ConvertedValues(s.mem, c, z, m))
  <2>1. Retyped(s, z, m, inPlace).top <= ArenaSize /\ <<z, m>> # <<s.array.z, s.array.m>>
    BY <1>4, <1>5, <1>7, <1>r
  <2>2. LET q == Retyped(s, z, m, inPlace)
        IN  /\ Sound(h, q) /\ q.array \in ArrayType /\ q.array.count = s.array.count
            /\ q.array.z = z /\ q.array.m = m
            /\ Reads(q.mem, q.array, ConvertedValues(s.mem, s.array, z, m))
    BY <1>7, <2>1, RetypedSound
  <2> QED
    BY <1>c, <1>r, <2>2
<1>9. MemoryInv' /\ Shows(h, Read(r.mem, r.array)) /\ GivenValue' = GivenValue
  BY <1>5, <1>8, BecomesValue DEF Shows
<1>v. PICK old, new : old = ReadVertices(s.mem, c) /\ new = ReadVertices(r.mem, r.array)
  OBVIOUS
<1>10. DOMAIN old = 1..c.count
  BY <1>v, ReadSequence
<1>11. ASSUME NEW i \in 1..c.count
       PROVE  [d \in Values!Dims(z, m) |-> ConvertedValues(s.mem, c, z, m)[i - 1][d]] =
              [d \in Values!Dims(z, m) |->
                 IF d \in Values!Dims(c.z, c.m) THEN old[i][d]
                 ELSE IF d = "z" THEN DefaultZ ELSE DefaultM]
  <2>1. old[i] = [d \in Values!Dims(c.z, c.m) |-> Word(s.mem, c, i - 1, d)]
    BY <1>v, VertexIs
  <2>2. i - 1 \in 0..c.count - 1
    BY ArraySizes
  <2>3. ConvertedValues(s.mem, c, z, m)[i - 1] =
          [d \in Values!Dims(z, m) |->
             IF d \in Values!Dims(c.z, c.m) THEN Word(s.mem, c, i - 1, d) ELSE Default(d)]
    BY <2>2 DEF ConvertedValues
  <2>4. ASSUME NEW d \in Values!Dims(z, m)
        PROVE  ConvertedValues(s.mem, c, z, m)[i - 1][d] =
                 IF d \in Values!Dims(c.z, c.m) THEN old[i][d]
                 ELSE IF d = "z" THEN DefaultZ ELSE DefaultM
    BY <2>1, <2>3 DEF Default
  <2> QED
    BY Zenon, <2>4
<1>12. new = [i \in DOMAIN old |->
                [d \in Values!Dims(z, m) |->
                   IF d \in Values!Dims(c.z, c.m) THEN old[i][d]
                   ELSE IF d = "z" THEN DefaultZ ELSE DefaultM]]
  <2>1. new = [i \in 1..c.count |->
                 [d \in Values!Dims(z, m) |-> ConvertedValues(s.mem, c, z, m)[i - 1][d]]]
    BY Zenon, <1>8, <1>v DEF Reads
  <2> QED
    BY Zenon, <1>10, <1>11, <2>1
<1>13. /\ ArrayValues[h].vertices = old /\ ArrayValues[h].z = c.z /\ ArrayValues[h].m = c.m
       /\ Read(r.mem, r.array) = [z |-> z, m |-> m, vertices |-> new]
  BY <1>7, <1>8, <1>c, <1>v, ReadParts
<1>14. Values!Make(h, Read(r.mem, r.array))
  BY <1>9, ShowsIs
<1>15. Values!SetVertexType(h)
  <2> PICK v : v = ArrayValues[h]
    OBVIOUS
  <2>1. new = [i \in DOMAIN v.vertices |->
                 [d \in Values!Dims(z, m) |->
                    IF d \in Values!Dims(v.z, v.m) THEN v.vertices[i][d]
                    ELSE IF d = "z" THEN DefaultZ ELSE DefaultM]]
    BY <1>12, <1>13
  <2> QED
    BY <1>13, <1>14, <2>1 DEF Values!SetVertexType, ArrayValues
<1> QED
  BY <1>9, <1>15

LEMMA MemoryInit == Init => MemoryInv
<1> SUFFICES ASSUME Init PROVE MemoryInv
  OBVIOUS
<1>1. /\ blob \in Blobs /\ top = BlobLength /\ BlobLength \in 0..ArenaSize
      /\ mem = [p \in 1..ArenaSize |-> IF p <= BlobLength THEN blob.words[p] ELSE Junk]
  BY BlobsAssumption DEF Init, BlobLength
<1>2. top <= ArenaSize /\ \A p \in 1..BlobLength : p \in 1..ArenaSize /\ p <= BlobLength
  BY <1>1, SizesAssumption
<1>3. Memory(mem) /\ \A p \in 1..BlobLength : mem[p] = blob.words[p]
  BY Zenon, <1>1, <1>2 DEF Memory
<1> QED
  BY <1>2, <1>3 DEF MemoryInv

LEMMA ValuesInit == Init => Values!Init
<1> SUFFICES ASSUME Init PROVE Values!Init
  OBVIOUS
<1>1. arrays = [h \in Arrays |-> EmptyArray(FALSE, FALSE)]
  BY DEF Init
<1>a. PICK a : a = EmptyArray(FALSE, FALSE)
  OBVIOUS
<1>2. a \in ArrayType /\ a.count = 0 /\ ~a.z /\ ~a.m /\ a.z = FALSE /\ a.m = FALSE
  BY <1>a DEF EmptyArray, Array, ArrayType, Null
<1>3. Read(mem, a) = Values!Empty(FALSE, FALSE)
  <2>1. ReadVertices(mem, a) = [i \in 1..0 |-> ReadVertices(mem, a)[i]]
    <3>1. ReadVertices(mem, a) = [i \in 1..a.count |->
            [d \in Values!Dims(a.z, a.m) |-> Word(mem, a, i - 1, d)]]
      BY <1>2, ReadIs
    <3> QED
      BY Zenon, <1>2, <3>1
  <2>2. \A f : f = [i \in 1..0 |-> f[i]] => f = <<>>
    OBVIOUS
  <2>3. ReadVertices(mem, a) = <<>>
    BY <2>1, <2>2
  <2> QED
    BY <1>2, <2>3, ReadParts DEF Values!Empty
<1>4. \A h \in Arrays : Read(mem, arrays[h]) = Values!Empty(FALSE, FALSE)
  BY <1>1, <1>3, <1>a
<1> QED
  BY <1>4 DEF Values!Init

LEMMA UnchangedShows ==
  ASSUME MemoryInv, UNCHANGED <<blob, mem, top, arrays>>
  PROVE  MemoryInv' /\ UNCHANGED Values!valueVars
BY DEF MemoryInv, Memory, BlobLength, Values!valueVars, Read, ReadVertices, Size, Array

(* One step of the arrays is one of the values, or none.                   *)
LEMMA StepShows ==
  ASSUME Inv, MemoryInv, [Next]_vars
  PROVE  MemoryInv' /\ [Values!Next]_(Values!valueVars)
<1>1. ASSUME NEW h \in Arrays,
             MemoryInv', GivenValue' = GivenValue,
             \/ Values!New(h) \/ Values!Receive(h) \/ Values!Resize(h)
             \/ Values!SetVertexType(h) \/ Values!Flip(h)
             \/ \E g \in Arrays : Values!Point(h, g) \/ Values!AppendArray(h, g)
      PROVE  MemoryInv' /\ [Values!Next]_(Values!valueVars)
  <2>1. Values!Next
    BY Zenon, <1>1 DEF Values!Next, GivenValue
  <2> QED
    BY <1>1, <2>1
<1>2. ASSUME NEW h \in Arrays, New(h) PROVE MemoryInv' /\ [Values!Next]_(Values!valueVars)
  BY <1>1, <1>2, NewShows
<1>3. ASSUME NEW h \in Arrays, Drop(h) PROVE MemoryInv' /\ [Values!Next]_(Values!valueVars)
  BY <1>1, <1>3, DropShows
<1>4. ASSUME NEW h \in Arrays, Deserialize(h) PROVE MemoryInv' /\ [Values!Next]_(Values!valueVars)
  BY <1>1, <1>4, DeserializeShows
<1>5. ASSUME NEW h \in Arrays, Copy(h) PROVE MemoryInv' /\ [Values!Next]_(Values!valueVars)
  BY <1>1, <1>5, CopyShows
<1>6. ASSUME NEW h \in Arrays, Resize(h) PROVE MemoryInv' /\ [Values!Next]_(Values!valueVars)
  BY <1>1, <1>6, ResizeShows
<1>7. ASSUME NEW h \in Arrays, SetVertexType(h)
      PROVE  MemoryInv' /\ [Values!Next]_(Values!valueVars)
  BY <1>1, <1>7, SetVertexTypeShows, UnchangedShows
<1>8. ASSUME NEW h \in Arrays, FlipCoordinates(h)
      PROVE  MemoryInv' /\ [Values!Next]_(Values!valueVars)
  BY <1>1, <1>8, FlipShows
<1>9. ASSUME NEW h \in Arrays, NEW g \in Arrays, Reference(h, g)
      PROVE  MemoryInv' /\ [Values!Next]_(Values!valueVars)
  BY <1>1, <1>9, ReferenceShows
<1>10. ASSUME NEW h \in Arrays, NEW g \in Arrays, AppendArray(h, g)
       PROVE  MemoryInv' /\ [Values!Next]_(Values!valueVars)
  BY <1>1, <1>10, AppendShows
<1>11. CASE UNCHANGED vars
  <2>1. UNCHANGED <<blob, mem, top, arrays>>
    BY <1>11 DEF vars
  <2> QED
    BY <2>1, UnchangedShows
<1>12. CASE Stopped
  BY <1>11, <1>12 DEF Stopped
<1> QED
  BY <1>2, <1>3, <1>4, <1>5, <1>6, <1>7, <1>8, <1>9, <1>10, <1>11, <1>12 DEF Next

(* "A VertexArray represents a copy-on-write array" (vertex_vector.hpp:62):*)
(* whatever words the arrays share, each behaves as a value of its own.    *)
THEOREM ArraysImplementValues == Spec => ArraysAreValues
<1>1. Init => Inv /\ MemoryInv /\ Values!Init
  BY InitKeeps, MemoryInit, ValuesInit
<1>2. Inv /\ MemoryInv /\ [Next]_vars => (Inv /\ MemoryInv)' /\ [Values!Next]_(Values!valueVars)
  BY StepKeeps, StepShows
<1> QED
  BY <1>1, <1>2, PTL DEF Spec, ArraysAreValues, Values!Spec

=============================================================================
