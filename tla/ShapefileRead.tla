---------------------------- MODULE ShapefileRead ----------------------------
(***************************************************************************)
(* A query that reads a shapefile with ST_ReadSHP: the columns are named   *)
(* in Bind (ShapefileColumnNames), then the records are scanned by one     *)
(* thread (ShapefileScan).                                                 *)
(***************************************************************************)
EXTENDS ShapefileColumnNames, ShapefileScan

CONSTANTS
  Reads \* the statements: files, encoding option, columns

(* What shapelib reads: a point has one vertex, the parts of an arc or a   *)
(* polygon start one after the other, the first with the first vertex.     *)
Listed(s) == Len(s) \in Nat /\ s = [n \in 1..Len(s) |-> s[n]]

ShapeRead(shape_type, shape) ==
  /\ Listed(shape.vertices)
  /\ shape_type = "POINT" => Len(shape.vertices) = 1
  /\ shape_type \in {"ARC", "POLYGON"} =>
       LET start == shape.part_start IN
       /\ Listed(start) /\ Len(start) > 0 /\ start[1] = 0
       /\ \A p, q \in DOMAIN start :
            start[p] \in 0..Len(shape.vertices) /\ (p < q => start[p] <= start[q])

CellRead(type, cell) ==
  /\ type = "FTString" => Listed(cell) /\ \A n \in DOMAIN cell : cell[n] \in 0..255
  /\ type = "FTDouble" => cell \in Nat /\ cell < 2^(Mantissa + Excess)

ASSUME ReadsAssumption ==
  \A r \in Reads :
    /\ Listed(r.file.fields) /\ Listed(r.file.shapes)
    /\ \A s \in DOMAIN r.now.shapes :
         LET shape == r.now.shapes[s]
         IN  shape # Damaged /\ shape.type # "NULL" => ShapeRead(r.file.shape_type, shape)
    /\ \A n \in DOMAIN r.now.records, f \in DOMAIN r.file.fields :
         LET cells == r.now.records[n]
         IN  f \in DOMAIN cells /\ cells[f] # Null =>
               CellRead(r.file.fields[f].type, cells[f])

(* A name with "_" and a number appended has only one way to be read.      *)
ASSUME SuffixAssumption ==
  \A r \in Reads :
    LET given == {r.file.fields[f].name : f \in DOMAIN r.file.fields} \cup {GeometryName}
    IN  \A m, n \in given : \A k, l \in 1..Len(r.file.fields) + 1 :
          Suffixed(m, k) = Suffixed(n, l) => m = n /\ k = l

vars == <<namesVars, scanVars>>

Init ==
  /\ read \in Reads
  /\ attributes = [f \in DOMAIN file.fields |-> file.fields[f].name]
  /\ NamesInit
  /\ ScanInit

Named == stage = "bound" /\ Deduplicated

Next ==
  \/ Bind /\ UNCHANGED namesVars
  \/ stage = "bound" /\ NamesStep /\ UNCHANGED scanVars
  \/ Named /\ InitGlobal /\ UNCHANGED namesVars
  \/ (Execute \/ ExecuteFails) /\ UNCHANGED namesVars
  \/ Ended /\ UNCHANGED vars

(* One thread runs the statement and is not interrupted.                   *)
Spec == Init /\ [][Next]_vars /\ WF_vars(Next)

(* The statement ends: the deduplication comes to its last pair of columns *)
(* and the scan to an empty batch, or to the record that stops it.         *)
Termination == <>Ended

=============================================================================
