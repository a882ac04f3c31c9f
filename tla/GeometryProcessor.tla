-------------------------- MODULE GeometryProcessor --------------------------
(***************************************************************************)
(* The visitor of serialized geometries (geometry_processor.hpp).          *)
(*                                                                         *)
(* A blob is the sequence of its words of four bytes.  A word says what    *)
(* was written there, so that reading it as anything else, or half of a    *)
(* double, gives Foreign and not a plausible value.                        *)
(*                                                                         *)
(* What a visitor is shown of a geometry is an event: the type, the type   *)
(* of the parent and the nesting level at that moment, the arrays, the     *)
(* number of rings or items, and the events of the items.  What a visitor  *)
(* computes is then an operator on events.  A visitor need not take every  *)
(* ring or item: takes gives the number it takes for each type.            *)
(***************************************************************************)
EXTENDS Geometry

Foreign == 8888

Uint(v)  == [k |-> "uint", v |-> v]
Float(v) == [k |-> "float", v |-> v]
Double(v) == <<[k |-> "low", v |-> v], [k |-> "high", v |-> v]>>

Header(type, z, m, box) ==
  [k |-> "header", v |-> [type |-> type, z |-> z, m |-> m, box |-> box]]

At(words, i, k) ==
  IF i \in DOMAIN words /\ words[i].k = k THEN words[i].v ELSE Foreign

(* Words are numbered from 1; a double takes two, the lower one first.     *)
ReadUint(words, i) == At(words, i, "uint")
ReadDouble(words, i) ==
  IF At(words, i + 1, "high") = At(words, i, "low") THEN At(words, i, "low")
  ELSE Foreign

(* VertexData: count vertices from word i on.                              *)
VertexData(words, i, count, z, m) ==
  LET dims == Dims(z, m)
  IN  Array(z, m, [n \in 1..count |->
        [d \in 1..dims |-> ReadDouble(words, i + 2 * (dims * (n - 1) + d - 1))]])

WordsOf(count, z, m) == 2 * count * Dims(z, m)

(* The processor: where its cursor stands, current_type, parent_type,      *)
(* nesting_level, and the dimensions of the blob.                          *)
Taken(takes, type, count) == Min({takes[type], count})

Shown(st, arrays, count, taken, items) ==
  [type |-> st.type, parent |-> st.parent, nesting |-> st.nesting,
   z |-> st.z, m |-> st.m,
   arrays |-> arrays, count |-> count, taken |-> taken, items |-> items]

(* ReadPoint and ReadLineString.                                           *)
ReadVertices(words, st) ==
  LET count == ReadUint(words, st.at + 1)
  IN  [event |-> Shown(st, <<VertexData(words, st.at + 2, count, st.z, st.m)>>,
                       count, count, <<>>),
       st |-> [st EXCEPT !.at = @ + 2 + WordsOf(count, st.z, st.m)]]

(* A nested polygon or collection is read to its end, whatever the visitor *)
(* took, so that the parent can go on behind it.                           *)
BugRestNotConsumed(st, count, taken) == taken

Consumed(st, count, taken) == IF st.nesting > 0 THEN count ELSE taken

(* ReadPolygon with PolygonState: the lengths of the rings stand before    *)
(* the vertices.  The cursor ends where the rings read end.                *)
Padding(ring_count) == ring_count % 2

ReadPolygon(words, st, takes) ==
  LET count == ReadUint(words, st.at + 1)
      length == [i \in 1..count |-> ReadUint(words, st.at + 1 + i)]
      start[i \in 1..(count + 1)] ==
        IF i = 1 THEN st.at + 2 + count + Padding(count)
        ELSE start[i - 1] + WordsOf(length[i - 1], st.z, st.m)
      taken == Taken(takes, "POLYGON", count)
  IN  [event |-> Shown(st, [i \in 1..taken |->
                              VertexData(words, start[i], length[i], st.z, st.m)],
                       count, taken, <<>>),
       st |-> [st EXCEPT !.at = start[Consumed(st, count, taken) + 1]]]

(* CollectionState::Next around the reading of an item.                    *)
Entered(st) == [st EXCEPT !.parent = st.type, !.nesting = @ + 1]

BugParentNotRestored(before, st) ==
  [st EXCEPT !.type = st.parent, !.nesting = @ - 1]

Left(before, st) ==
  [st EXCEPT !.type = st.parent, !.parent = before.parent, !.nesting = @ - 1]

(* ReadGeometry, with ReadCollection: the items the visitor takes, and if  *)
(* the collection is nested the rest as well.                              *)
RECURSIVE ReadGeometry(_, _, _)
ReadGeometry(words, at_type, takes) ==
  LET type == Types[ReadUint(words, at_type.at) + 1]
      st   == [at_type EXCEPT !.type = type]
      count == ReadUint(words, st.at + 1)
      taken == Taken(takes, type, count)
      NextItem(r, i) ==
        LET inner == ReadGeometry(words, Entered(r.st), takes)
        IN  [items |-> Append(r.items, inner.event), st |-> Left(r.st, inner.st)]
      all == FoldLeft(NextItem, [items |-> <<>>, st |-> [st EXCEPT !.at = @ + 2]],
                      [i \in 1..Consumed(st, count, taken) |-> i])
  IN  CASE type \in {"POINT", "LINESTRING"} -> ReadVertices(words, st)
        [] type = "POLYGON" -> ReadPolygon(words, st, takes)
        [] OTHER -> [event |-> Shown(st, <<>>, count, taken, all.items), st |-> all.st]

(* Process: the header, the padding, the box if there is one.              *)
BoxWords(header) == IF header.box THEN 2 * Dims(header.z, header.m) ELSE 0

Start(words) ==
  LET header == words[1].v
  IN  [at |-> 3 + BoxWords(header), type |-> header.type, parent |-> "POINT",
       nesting |-> 0, z |-> header.z, m |-> header.m]

Process(words, takes) == ReadGeometry(words, Start(words), takes).event

Everything == [t \in ToSet(Types) |-> 1000]

=============================================================================
