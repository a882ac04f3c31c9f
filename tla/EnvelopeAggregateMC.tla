------------------------- MODULE EnvelopeAggregateMC -------------------------
(***************************************************************************)
(* Rows for EnvelopeAggregate, single precision being the even numbers     *)
(* from -10 to 10.                                                         *)
(***************************************************************************)
EXTENDS EnvelopeAggregate, TLC

Symmetry == Permutations(Threads)

Geometry(kind, a, b, c, d) ==
  [kind |-> kind, box |-> [xmin |-> a, xmax |-> b, ymin |-> c, ymax |-> d]]

Given == {Geometry("point", 1, 1, -1, -1), Geometry("empty", 0, 0, 0, 0),
          Geometry("other", -3, -1, 3, 5), Geometry("other", 2, 3, -5, 0)}

MCTables  == [Rows -> Given]
MCGarbage == {[xmin |-> -9, xmax |-> 9, ymin |-> -9, ymax |-> 9],
              [xmin |-> 7, xmax |-> -7, ymin |-> 0, ymax |-> 0]}

=============================================================================
