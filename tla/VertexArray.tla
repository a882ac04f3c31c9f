----------------------------- MODULE VertexArray ------------------------------
(***************************************************************************)
(* Arrays of vertices over the memory of an arena.  An array is a pointer  *)
(* to words (doubles), a number of vertices, which of Z and M they have,   *)
(* and whether the array owns the words: it then changes them in place,    *)
(* and otherwise copies them first.  The words of the serialized geometry, *)
(* which belong to the query, come first in the memory.                    *)
(*                                                                         *)
(* An operation works on a record of the memory, its first free word and   *)
(* the array.  Allocated memory is never freed.                            *)
(***************************************************************************)
EXTENDS Integers, Sequences

CONSTANTS
  Arrays,             \* the arrays in use
  Blobs,              \* the vertices a serialized geometry may have
  Zero,               \* the word 0.0
  DefaultZ, DefaultM, \* the words SetVertexType is given
  Junk,               \* what allocated memory holds
  UintRange,          \* the range of uint32_t, here a small one
  MaxVertices,        \* bound: the most vertices of an array
  MaxOperations,      \* bound: the operations on the arrays of one row
  ArenaSize           \* bound: the words of the memory

ASSUME SizesAssumption ==
  /\ MaxVertices \in Nat /\ MaxOperations \in Nat /\ ArenaSize \in Nat
  /\ UintRange \in Nat /\ UintRange > ArenaSize

Null == 0

VertexSize(z, m) == 2 + (IF z THEN 1 ELSE 0) + (IF m THEN 1 ELSE 0)

(* The vertices of a serialized geometry are among its words, which the    *)
(* bound on the memory has room for.                                       *)
ASSUME BlobsAssumption ==
  \A b \in Blobs :
    /\ b.count \in Nat /\ b.z \in BOOLEAN /\ b.m \in BOOLEAN
    /\ Len(b.words) \in 0..ArenaSize
    /\ b.count * VertexSize(b.z, b.m) <= Len(b.words)

VARIABLES
  blob,   \* the serialized geometry: its words, its count, Z and M
  mem,    \* the words of the memory
  top,    \* the last word in use
  arrays, \* the arrays
  fault,  \* has a word outside of the memory been accessed?
  calls   \* the operations so far

vars == <<blob, mem, top, arrays, fault, calls>>

Size(a)  == VertexSize(a.z, a.m)
Words(a) == a.count * Size(a)

Array(data, count, z, m, owning) ==
  [data |-> data, count |-> count, z |-> z, m |-> m, owning |-> owning]

EmptyArray(z, m) == Array(Null, 0, z, m, FALSE)

Init ==
  /\ blob \in Blobs
  /\ mem = [p \in 1..ArenaSize |->
              IF p <= Len(blob.words) THEN blob.words[p] ELSE Junk]
  /\ top = Len(blob.words)
  /\ arrays = [h \in Arrays |-> EmptyArray(FALSE, FALSE)]
  /\ fault = FALSE
  /\ calls = 0

-----------------------------------------------------------------------------
(* memcpy of whole words, and the write of one.  The copies between words  *)
(* that overlap are of two words and compiled to one load and one store.   *)
Copied(memory, to, from, n) ==
  [p \in DOMAIN memory |->
     IF p \in to..to + n - 1 THEN memory[from + p - to] ELSE memory[p]]

Filled(memory, to, n, word) ==
  [p \in DOMAIN memory |-> IF p \in to..to + n - 1 THEN word ELSE memory[p]]

(* A loop over the n vertices of an array, from the first or from the last.*)
Ascending(memory, n, Body(_, _)) ==
  LET after[i \in 0..n] ==
        IF i = 0 THEN memory ELSE Body(after[i - 1], i - 1)
  IN  after[n]

Descending(memory, n, Body(_, _)) ==
  LET after[i \in 0..n] ==
        IF i = n THEN memory ELSE Body(after[i + 1], i)
  IN  after[0]

State(h) == [mem |-> mem, top |-> top, array |-> arrays[h]]

(* ArenaAllocator::Reallocate extends or cuts the last allocation where it *)
(* is, or copies the words to a new one.                                   *)
Reallocated(s, new, inPlace) ==
  LET old  == Words(s.array)
      kept == IF old < new THEN old ELSE new
  IN  IF old = new THEN s
      ELSE IF inPlace /\ s.array.data + old - 1 = s.top
      THEN [s EXCEPT !.top = s.array.data + new - 1]
      ELSE [mem   |-> Copied(s.mem, s.top + 1, s.array.data, kept),
            top   |-> s.top + new,
            array |-> [s.array EXCEPT !.data = s.top + 1]]

BugOwnedNotCopied(s) == [s EXCEPT !.array.owning = TRUE]

MakeOwning(s) ==
  IF s.array.owning THEN s
  ELSE IF s.array.count = 0
  THEN [s EXCEPT !.array.data = Null, !.array.owning = TRUE]
  ELSE [mem   |-> Copied(s.mem, s.top + 1, s.array.data, Words(s.array)),
        top   |-> s.top + Words(s.array),
        array |-> [s.array EXCEPT !.data = s.top + 1, !.owning = TRUE]]

(* Resize copies the words of an array that does not own them and clears   *)
(* the rest; the words an owning array gains keep what they hold.          *)
Resized(s, n, inPlace) ==
  LET new  == n * Size(s.array)
      kept == IF n < s.array.count THEN n * Size(s.array) ELSE Words(s.array)
  IN  IF n = s.array.count THEN s
      ELSE IF s.array.data # Null /\ s.array.owning
      THEN LET r == Reallocated(s, new, inPlace)
           IN  [r EXCEPT !.array.count = n]
      ELSE [mem   |-> Copied(Filled(s.mem, s.top + 1, new, Zero),
                             s.top + 1, s.array.data, kept),
            top   |-> s.top + new,
            array |-> [s.array EXCEPT !.data = s.top + 1, !.count = n,
                                      !.owning = TRUE]]

(* The offset taken from the count after Resize has changed it.            *)
BugOffsetOfNewCount(s, other, inPlace) ==
  LET old == MakeOwning(s)
      r   == Resized(old, old.array.count + other.count, inPlace)
  IN  [r EXCEPT !.mem =
         Copied(@, r.array.data + Words(r.array), other.data, Words(other))]

Appended(s, other, inPlace) ==
  LET old == MakeOwning(s)
      r   == Resized(old, old.array.count + other.count, inPlace)
  IN  [r EXCEPT !.mem =
         Copied(@, r.array.data + Words(old.array), other.data, Words(other))]

(* Vertex i is moved from its old place to its new one, further on, in     *)
(* array a that gains dimensions.                                          *)
BugZBeforeM(memory, a, z, m, i) ==
  LET from == a.data + i * Size(a)
      to   == a.data + i * VertexSize(z, m)
      xy(words) == Copied(words, to, from, 2)
  IN  IF a.m /\ ~a.z
      THEN xy(Copied(Filled(memory, to + 2, 1, DefaultZ), to + 3, from + 2, 1))
      ELSE IF z /\ m /\ ~a.z
      THEN Filled(Filled(xy(memory), to + 2, 1, DefaultZ), to + 3, 1, DefaultM)
      ELSE Filled(Copied(memory, to, from, Size(a)), to + Size(a), 1,
                  IF m THEN DefaultM ELSE DefaultZ)

Widened(memory, a, z, m, i) ==
  LET from == a.data + i * Size(a)
      to   == a.data + i * VertexSize(z, m)
      xy(words) == Copied(words, to, from, 2)
  IN  IF a.m /\ ~a.z
      THEN xy(Filled(Copied(memory, to + 3, from + 2, 1), to + 2, 1, DefaultZ))
      ELSE IF z /\ m /\ ~a.z
      THEN Filled(Filled(xy(memory), to + 2, 1, DefaultZ), to + 3, 1, DefaultM)
      ELSE Filled(Copied(memory, to, from, Size(a)), to + Size(a), 1,
                  IF m THEN DefaultM ELSE DefaultZ)

(* Vertex i is copied to its place in the narrower array at "data".        *)
Narrowed(memory, a, data, z, m, i) ==
  LET from == a.data + i * Size(a)
      to   == data + i * VertexSize(z, m)
  IN  IF a.z /\ a.m /\ ~z /\ m
      THEN Copied(Copied(memory, to, from, 2), to + 2, from + 3, 1)
      ELSE Copied(memory, to, from, VertexSize(z, m))

(* An array that gains dimensions is rewritten in place, from its last     *)
(* vertex to its first; one that loses some is copied to new memory.       *)
BugFromTheFirst(s, z, m, inPlace) ==
  LET new == s.array.count * VertexSize(z, m)
      r   == Reallocated(s, new, inPlace)
  IN  [r EXCEPT !.mem = Ascending(@, s.array.count,
         LAMBDA w, i : Widened(w, r.array, z, m, i))]

Grown(s, z, m, inPlace) ==
  LET new == s.array.count * VertexSize(z, m)
      r   == Reallocated(s, new, inPlace)
  IN  [r EXCEPT !.mem = Descending(@, s.array.count,
         LAMBDA w, i : Widened(w, r.array, z, m, i))]

Exchanged(s, z, m) ==
  [s EXCEPT !.mem = Ascending(@, s.array.count,
     LAMBDA w, i : Filled(w, s.array.data + i * VertexSize(z, m) + 2, 1,
                          IF m THEN DefaultM ELSE DefaultZ))]

Shortened(s, z, m) ==
  LET new == s.array.count * VertexSize(z, m)
  IN  [mem   |-> Ascending(Filled(s.mem, s.top + 1, new, Zero), s.array.count,
                   LAMBDA w, i : Narrowed(w, s.array, s.top + 1, z, m, i)),
       top   |-> s.top + new,
       array |-> [s.array EXCEPT !.data = s.top + 1]]

Rewritten(s, z, m, inPlace) ==
  IF VertexSize(z, m) > Size(s.array) THEN Grown(s, z, m, inPlace)
  ELSE IF VertexSize(z, m) = Size(s.array) THEN Exchanged(s, z, m)
  ELSE Shortened(s, z, m)

Retyped(s, z, m, inPlace) ==
  [Rewritten(s, z, m, inPlace) EXCEPT !.array.z = z, !.array.m = m]

(* The loop of an array that gains dimensions starts at count - 1, of type *)
(* uint32_t, which is no vertex of an empty array.                         *)
LastIndex(count) == (count - 1) % UintRange

StartsOutside(a, z, m) ==
  /\ VertexSize(z, m) > Size(a)
  /\ LastIndex(a.count) >= a.count

Flipped(s) ==
  [s EXCEPT !.mem = Ascending(@, s.array.count,
     LAMBDA w, i : LET x == s.array.data + i * Size(s.array)
                   IN  [w EXCEPT ![x] = w[x + 1], ![x + 1] = w[x]])]

-----------------------------------------------------------------------------
Region(a) == a.data..a.data + Words(a) - 1

(* No caller changes an array that owns its words while another one still  *)
(* refers to them.                                                         *)
Exclusive(h) ==
  arrays[h].owning =>
    \A g \in Arrays \ {h} : Region(arrays[g]) \cap Region(arrays[h]) = {}

Called == calls < MaxOperations /\ calls' = calls + 1

(* Words that no array refers to any more are never read again: whatever   *)
(* they hold, they are called junk.  An operation that needs more memory   *)
(* than the bound allows is not taken.                                     *)
Become(h, s) ==
  /\ s.top <= ArenaSize
  /\ top' = s.top
  /\ arrays' = [arrays EXCEPT ![h] = s.array]
  /\ mem' = [p \in DOMAIN mem |->
               IF \/ p \in 1..Len(blob.words)
                  \/ \E g \in Arrays : p \in Region(arrays'[g])
               THEN s.mem[p] ELSE Junk]
  /\ Called
  /\ UNCHANGED <<blob, fault>>

New(h) ==
  /\ ~fault
  /\ \E n \in 1..MaxVertices, z, m \in BOOLEAN :
       Become(h, [mem   |-> Filled(mem, top + 1, n * VertexSize(z, m), Zero),
                  top   |-> top + n * VertexSize(z, m),
                  array |-> Array(top + 1, n, z, m, TRUE)])

Drop(h) ==
  /\ ~fault
  /\ \E z, m \in BOOLEAN :
       Become(h, [State(h) EXCEPT !.array = EmptyArray(z, m)])

(* The arrays of a deserialized geometry refer to the serialized one.      *)
Deserialize(h) ==
  /\ ~fault
  /\ Become(h, [State(h) EXCEPT !.array =
                  Array(1, blob.count, blob.z, blob.m, FALSE)])

(* Reference, to one vertex of another array.                              *)
Reference(h, g) ==
  /\ ~fault
  /\ \E i \in 0..arrays[g].count - 1 :
       Become(h, [State(h) EXCEPT !.array =
         Array(arrays[g].data + i * Size(arrays[g]), 1,
               arrays[g].z, arrays[g].m, FALSE)])

(* The readers of WKB and WKT copy the words.                              *)
Copy(h) ==
  /\ ~fault
  /\ LET n == blob.count * VertexSize(blob.z, blob.m)
     IN  Become(h, [mem   |-> Copied(mem, top + 1, 1, n),
                    top   |-> top + n,
                    array |-> Array(top + 1, blob.count, blob.z, blob.m, TRUE)])

AppendArray(h, g) ==
  /\ ~fault /\ h # g /\ Exclusive(h)
  /\ arrays[h].z = arrays[g].z /\ arrays[h].m = arrays[g].m
  /\ arrays[h].count + arrays[g].count <= MaxVertices
  /\ \E inPlace \in BOOLEAN :
       Become(h, Appended(State(h), arrays[g], inPlace))

(* The callers fill an empty array or cut one off.                         *)
Resize(h) ==
  /\ ~fault /\ Exclusive(h)
  /\ \E n \in 0..MaxVertices, inPlace \in BOOLEAN :
       /\ arrays[h].data = Null \/ n <= arrays[h].count
       /\ Become(h, Resized(State(h), n, inPlace))

SetVertexType(h) ==
  /\ ~fault /\ Exclusive(h)
  /\ \E z, m \in BOOLEAN :
       /\ <<z, m>> # <<arrays[h].z, arrays[h].m>>
       /\ \/ /\ ~StartsOutside(arrays[h], z, m)
             /\ \E inPlace \in BOOLEAN :
                  Become(h, Retyped(MakeOwning(State(h)), z, m, inPlace))
          \/ /\ StartsOutside(arrays[h], z, m)
             /\ fault' = TRUE
             /\ Called
             /\ UNCHANGED <<blob, mem, top, arrays>>

BugFlipInPlace(h) ==
  /\ ~fault /\ Exclusive(h)
  /\ Become(h, Flipped(State(h)))

FlipCoordinates(h) ==
  /\ ~fault /\ Exclusive(h)
  /\ LET s == MakeOwning(State(h))
     IN  s.top <= ArenaSize /\ Become(h, Flipped(s))

Stopped == (fault \/ calls = MaxOperations) /\ UNCHANGED vars

Next ==
  \/ \E h \in Arrays :
       \/ New(h) \/ Drop(h) \/ Deserialize(h) \/ Copy(h)
       \/ Resize(h) \/ SetVertexType(h) \/ FlipCoordinates(h)
       \/ \E g \in Arrays : Reference(h, g) \/ AppendArray(h, g)
  \/ Stopped

Spec == Init /\ [][Next]_vars

-----------------------------------------------------------------------------
(* The word of each dimension, at its place in the vertex.                 *)
Offset(d, z) ==
  CASE d = "x" -> 0 [] d = "y" -> 1 [] d = "z" -> 2
    [] d = "m" -> IF z THEN 3 ELSE 2

ReadVertices(memory, a) ==
  LET Dims == {"x", "y"} \cup (IF a.z THEN {"z"} ELSE {})
                         \cup (IF a.m THEN {"m"} ELSE {})
  IN  [i \in 1..a.count |->
         [d \in Dims |-> memory[a.data + (i - 1) * Size(a) + Offset(d, a.z)]]]

Read(memory, a) == [z |-> a.z, m |-> a.m, vertices |-> ReadVertices(memory, a)]

Values == INSTANCE VertexValues WITH
  given <- Read(blob.words, Array(1, blob.count, blob.z, blob.m, FALSE)),
  value <- [h \in Arrays |-> Read(mem, arrays[h])]

-----------------------------------------------------------------------------
(* Every array lies in the memory in use, and an array owns only words     *)
(* that are not the query's and that no other array owns.                  *)
OwnersDisjoint ==
  /\ \A h \in Arrays : Region(arrays[h]) \subseteq 1..top
  /\ \A h \in Arrays : arrays[h].owning =>
       /\ Region(arrays[h]) \cap 1..Len(blob.words) = {}
       /\ \A g \in Arrays \ {h} : arrays[g].owning =>
            Region(arrays[g]) \cap Region(arrays[h]) = {}

(* "A VertexArray represents a copy-on-write array" (vertex_vector.hpp:62):*)
(* whatever words the arrays share, each behaves as a value of its own.    *)
ArraysAreValues == Values!Spec

(* "Make sure the geometry has unified vertex type" (wkb_reader.cpp:22):   *)
(* SetVertexType reaches its end without leaving the memory.               *)
VertexTypeUnified == ~fault

=============================================================================
