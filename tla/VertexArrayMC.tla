---------------------------- MODULE VertexArrayMC -----------------------------
(***************************************************************************)
(* Serialized geometries for VertexArray: the words of two vertices, each  *)
(* of which names its vertex and dimension, and what is left of 8 words.   *)
(***************************************************************************)
EXTENDS VertexArray, TLC

Symmetry == Permutations(Arrays)

Blob(z, m) ==
  LET dims == <<"x", "y">> \o (IF z THEN <<"z">> ELSE <<>>)
                           \o (IF m THEN <<"m">> ELSE <<>>)
  IN  [count |-> 2, z |-> z, m |-> m,
       words |-> [p \in 1..8 |->
                    IF p > 2 * Len(dims) THEN <<0, "rest">>
                    ELSE <<((p - 1) \div Len(dims)) + 1,
                           dims[((p - 1) % Len(dims)) + 1]>>]]

MCBlobs == {Blob(FALSE, TRUE)}

MCZero     == <<0, "zero">>
MCDefaultZ == <<0, "z">>
MCDefaultM == <<0, "m">>
MCJunk     == <<0, "junk">>

=============================================================================
