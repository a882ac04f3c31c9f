--------------------------- MODULE GdalColumnNames ---------------------------
(***************************************************************************)
(* GdalTableFunction::RenameColumns: column names taken from a dataset are *)
(* made distinct, ignoring case, before ST_Read hands them to DuckDB.      *)
(*                                                                         *)
(* Names are opaque: Lower is StringUtil::Lower, Suffixed(n, k) the name   *)
(* n followed by "_" and the number k.                                     *)
(***************************************************************************)
EXTENDS Integers, Sequences

CONSTANTS
  Names,          \* all names
  Lower(_),
  Suffixed(_, _),
  Datasets        \* sequences of attribute names a dataset may have

ASSUME NamesAssumption ==
  /\ Datasets \subseteq Seq(Names)
  /\ \A n \in Names : Lower(n) \in Names

VARIABLES
  attributes, \* the names in the dataset
  names,      \* the vector being rewritten in place
  pos,        \* the column the loop is at
  name_map,   \* occurrences counted under each lower-case name in the map
  renaming    \* inside the else branch, looking for a free suffix

namesVars == <<attributes, names, pos, name_map, renaming>>

NamesInit ==
  /\ attributes \in Datasets
  /\ names = attributes
  /\ pos = 1
  /\ name_map = <<>>
  /\ renaming = FALSE

Current   == names[pos]
Key       == Lower(Current)
Candidate == Suffixed(Current, name_map[Key])

(* name_map[key]++, which creates the entry it does not find.              *)
BugNotRecorded(key) == name_map

Counted(key) ==
  [k \in DOMAIN name_map \cup {key} |->
     IF k # key THEN name_map[k]
     ELSE IF k \in DOMAIN name_map THEN name_map[k] + 1 ELSE 1]

KeepName ==
  /\ pos <= Len(names) /\ ~renaming
  /\ Key \notin DOMAIN name_map
  /\ name_map' = Counted(Key)
  /\ pos' = pos + 1
  /\ UNCHANGED <<attributes, names, renaming>>

MeetDuplicate ==
  /\ pos <= Len(names) /\ ~renaming
  /\ Key \in DOMAIN name_map
  /\ renaming' = TRUE
  /\ UNCHANGED <<attributes, names, pos, name_map>>

(* One turn of the while loop.                                             *)
BugSameSuffixAgain ==
  /\ renaming
  /\ Lower(Candidate) \in DOMAIN name_map
  /\ UNCHANGED namesVars

TryNextSuffix ==
  /\ renaming
  /\ Lower(Candidate) \in DOMAIN name_map
  /\ name_map' = Counted(Key)
  /\ UNCHANGED <<attributes, names, pos, renaming>>

BugNextSuffixRecorded ==
  /\ renaming
  /\ Lower(Candidate) \notin DOMAIN name_map
  /\ names' = [names EXCEPT ![pos] = Candidate]
  /\ name_map' = Counted(Lower(Suffixed(Current, name_map[Key] + 1)))
  /\ pos' = pos + 1
  /\ renaming' = FALSE
  /\ UNCHANGED attributes

Rename ==
  /\ renaming
  /\ Lower(Candidate) \notin DOMAIN name_map
  /\ names' = [names EXCEPT ![pos] = Candidate]
  /\ name_map' = Counted(Lower(Candidate))
  /\ pos' = pos + 1
  /\ renaming' = FALSE
  /\ UNCHANGED attributes

Renamed == pos > Len(names)

NamesStep == KeepName \/ MeetDuplicate \/ TryNextSuffix \/ Rename

NamesNext == NamesStep \/ (Renamed /\ UNCHANGED namesVars)

NamesSpec == NamesInit /\ [][NamesNext]_namesVars

-----------------------------------------------------------------------------
NamesTypeOK ==
  /\ attributes \in Datasets
  /\ names \in Seq(Names)
  /\ Len(names) = Len(attributes)
  /\ pos \in 1..Len(names) + 1
  /\ DOMAIN name_map \subseteq Names
  /\ \A k \in DOMAIN name_map : name_map[k] \in Nat \ {0}
  /\ renaming \in BOOLEAN

(* The columns already passed have distinct names for DuckDB, which        *)
(* compares them without case: a suffix added to one column never collides *)
(* with another column, whether that one was renamed or not.               *)
DistinctNames ==
  \A i, j \in 1..pos - 1 : i # j => Lower(names[i]) # Lower(names[j])

(* A column keeps the dataset's name unless an earlier column already has  *)
(* it, so a query written against the dataset's schema finds its columns.  *)
RenamedOnlyOnCollision ==
  \A i \in 1..pos - 1 : names[i] # attributes[i] =>
    \E j \in 1..i - 1 : Lower(names[j]) = Lower(attributes[i])

=============================================================================
