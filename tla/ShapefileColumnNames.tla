------------------------- MODULE ShapefileColumnNames -------------------------
(***************************************************************************)
(* The end of Bind of ST_ReadSHP: the attribute names of the .dbf file,    *)
(* followed by "geom", are deduplicated by two nested loops.               *)
(***************************************************************************)
EXTENDS Integers, Sequences

CONSTANTS
  Names,          \* all names
  Suffixed(_, _), \* a name, "_" and a number
  GeometryName    \* the name of the last column, "geom"

ASSUME GeometryNameAssumption == GeometryName \in Names

VARIABLES
  attributes, \* the names of the fields of the .dbf file
  names,      \* the names of the columns
  i, j,       \* the two columns compared
  count       \* the number of the next suffix

namesVars == <<attributes, names, i, j, count>>

NamesInit ==
  /\ names = Append(attributes, GeometryName)
  /\ i = 1
  /\ j = 2
  /\ count = 1

(* The inner loop at column j.                                             *)
SameName  == names[i] = names[j]
InnerLoop == i <= Len(names) /\ j <= Len(names)

(* Only the first duplicate of a column is renamed.                        *)
BugFirstDuplicateOnly ==
  /\ InnerLoop /\ SameName
  /\ names' = [names EXCEPT ![j] = Suffixed(@, count)]
  /\ count' = count + 1
  /\ j' = Len(names) + 1
  /\ UNCHANGED <<attributes, i>>

AddSuffix ==
  /\ InnerLoop /\ SameName
  /\ names' = [names EXCEPT ![j] = Suffixed(@, count)]
  /\ count' = count + 1
  /\ j' = j + 1
  /\ UNCHANGED <<attributes, i>>

BugSameColumn ==
  /\ InnerLoop /\ ~SameName
  /\ j' = j
  /\ UNCHANGED <<attributes, names, i, count>>

PassColumn ==
  /\ InnerLoop /\ ~SameName
  /\ j' = j + 1
  /\ UNCHANGED <<attributes, names, i, count>>

NextColumn ==
  /\ i <= Len(names) /\ j > Len(names)
  /\ i' = i + 1
  /\ j' = i + 2
  /\ count' = 1
  /\ UNCHANGED <<attributes, names>>

Deduplicated == i > Len(names)

NamesStep == AddSuffix \/ PassColumn \/ NextColumn

-----------------------------------------------------------------------------
NoDuplicate ==
  \A m, n \in DOMAIN names : m # n => names[m] # names[n]

(* As long as no attribute already looks like another one with a number    *)
(* appended, deduplication leaves no two columns with one name.            *)
DistinctUnlessSuffixed ==
  LET given == {attributes[n] : n \in DOMAIN attributes} \cup {GeometryName} IN
  Deduplicated /\ (\A m, n \in given : \A k \in DOMAIN names : m # Suffixed(n, k))
    => NoDuplicate

=============================================================================
