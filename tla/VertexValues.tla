----------------------------- MODULE VertexValues -----------------------------
(***************************************************************************)
(* What an array of vertices promises the functions that use it: each      *)
(* array is a value of its own, the sequence of its vertices, and an       *)
(* operation changes the array it is called on and no other, whoever holds *)
(* the words it came from.                                                 *)
(***************************************************************************)
EXTENDS Naturals, Sequences

CONSTANTS
  Arrays,   \* the arrays in use
  Zero,     \* the word 0.0
  DefaultZ, DefaultM

VARIABLES
  given, \* the vertices of the serialized geometry
  value  \* the vertices of each array

valueVars == <<given, value>>

Dims(z, m) ==
  {"x", "y"} \cup (IF z THEN {"z"} ELSE {}) \cup (IF m THEN {"m"} ELSE {})

Empty(z, m) == [z |-> z, m |-> m, vertices |-> <<>>]

Zeros(n, z, m) == [i \in 1..n |-> [d \in Dims(z, m) |-> Zero]]

Init == value = [h \in Arrays |-> Empty(FALSE, FALSE)]

Make(h, v) == value' = [value EXCEPT ![h] = v]

New(h) ==
  \E z, m \in BOOLEAN, n \in 0..Len(value'[h].vertices) :
    Make(h, [z |-> z, m |-> m, vertices |-> Zeros(n, z, m)])

Receive(h) == Make(h, given)

Point(h, g) ==
  \E i \in DOMAIN value[g].vertices :
    Make(h, [value[g] EXCEPT !.vertices = <<@[i]>>])

AppendArray(h, g) ==
  Make(h, [value[h] EXCEPT !.vertices = @ \o value[g].vertices])

(* Cut off, or filled with zeros.                                          *)
Resize(h) ==
  LET old == value[h].vertices
      n   == Len(value'[h].vertices)
  IN  Make(h, [value[h] EXCEPT !.vertices =
                 [i \in 1..n |->
                    IF i <= Len(old) THEN old[i]
                    ELSE [d \in Dims(value[h].z, value[h].m) |-> Zero]]])

(* A dimension the array has already keeps its words, a new one has its    *)
(* default in every vertex, any other is dropped.                          *)
SetVertexType(h) ==
  \E z, m \in BOOLEAN :
    Make(h, [z |-> z, m |-> m,
             vertices |-> [i \in DOMAIN value[h].vertices |->
               [d \in Dims(z, m) |->
                  IF d \in Dims(value[h].z, value[h].m)
                  THEN value[h].vertices[i][d]
                  ELSE IF d = "z" THEN DefaultZ ELSE DefaultM]]])

Flip(h) ==
  LET old == value[h].vertices
  IN  Make(h, [value[h] EXCEPT !.vertices =
                 [i \in DOMAIN old |-> [old[i] EXCEPT !["x"] = old[i]["y"],
                                                      !["y"] = old[i]["x"]]]])

Next ==
  /\ \E h \in Arrays :
       \/ New(h) \/ Receive(h) \/ Resize(h) \/ SetVertexType(h) \/ Flip(h)
       \/ \E g \in Arrays : Point(h, g) \/ AppendArray(h, g)
  /\ UNCHANGED given

Spec == Init /\ [][Next]_valueVars

=============================================================================
