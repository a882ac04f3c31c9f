------------------------------- MODULE MetaScan -------------------------------
(***************************************************************************)
(* The functions that list instead of read: ST_Read_Meta, shapefile_meta   *)
(* and ST_Drivers.  Each has one thread, which is called for a chunk at a  *)
(* time until it returns an empty one.                                     *)
(***************************************************************************)
EXTENDS Integers, Sequences

CONSTANTS
  STANDARD_VECTOR_SIZE,
  Listings \* the calls: the function, and the files or drivers there are

(* Files have a suffix and may be beyond reading; a driver that is not for *)
(* vector data takes the place of such a file.                             *)
Entries  == [shp : BOOLEAN, readable : BOOLEAN]
Shapes   == {e \in Entries : e.shp}
Openable == {e \in Entries : e.readable}

ASSUME ListingsAssumption ==
  /\ STANDARD_VECTOR_SIZE \in Nat \ {0}
  /\ \A l \in Listings : l.entries \in Seq(Entries)

VARIABLES
  listing,   \* the call; NoListing if the query makes none
  file_list, \* what Bind found to list
  current,   \* state.current_file_idx, state.current_idx
  listed,    \* the rows returned
  outcome

listingVars == <<listing, file_list, current, listed, outcome>>

(* What a loop over entries keeps: those of a set, in their order.         *)
Only(entries, S) ==
  LET kept[n \in 0..Len(entries)] ==
        IF n = 0 THEN <<>>
        ELSE IF entries[n] \in S THEN Append(kept[n - 1], entries[n]) ELSE kept[n - 1]
  IN  kept[Len(entries)]

NoListing == [function |-> "none", entries |-> <<>>]

ListingInit ==
  /\ listing \in Listings
  /\ file_list = <<>> /\ current = 0 /\ listed = <<>>
  /\ outcome = IF listing = NoListing THEN "none" ELSE "bind"

Bind ==
  /\ outcome = "bind"
  /\ file_list' = IF listing.function = "shapefile_meta"
                  THEN Only(listing.entries, Shapes)
                  ELSE listing.entries
  /\ outcome' = "scan"
  /\ UNCHANGED <<listing, current, listed>>

(* One call.  Every entry of a vector is looked at; those that cannot be   *)
(* opened are left out, or, of shapefiles, fail the query.  The chunk is   *)
(* empty if none is left, and that ends the scan.                          *)
Window ==
  LET left == Len(file_list) - current
  IN  SubSeq(file_list, current + 1,
             current + IF left < STANDARD_VECTOR_SIZE THEN left ELSE STANDARD_VECTOR_SIZE)

Readable == Only(Window, Openable)

BugRowsCounted == current + Len(Readable)

Advanced == current + Len(Window)

OpenFails ==
  /\ outcome = "scan"
  /\ listing.function = "shapefile_meta" /\ Readable # Window
  /\ outcome' = "failed"
  /\ UNCHANGED <<listing, file_list, current, listed>>

Execute ==
  /\ outcome = "scan"
  /\ listing.function = "shapefile_meta" => Readable = Window
  /\ listed' = listed \o Readable
  /\ current' = Advanced
  /\ outcome' = IF Readable = <<>> THEN "complete" ELSE "scan"
  /\ UNCHANGED <<listing, file_list>>

ListingStep == Bind \/ OpenFails \/ Execute

-----------------------------------------------------------------------------
(* Each vector of files has one that can be opened, as vectors of 2048     *)
(* have; one without ends the scan before the files behind it.             *)
NoVectorLost(entries) ==
  \A k \in 0..Len(entries) : k * STANDARD_VECTOR_SIZE < Len(entries) =>
    \E j \in 1..STANDARD_VECTOR_SIZE :
      /\ k * STANDARD_VECTOR_SIZE + j <= Len(entries)
      /\ entries[k * STANDARD_VECTOR_SIZE + j].readable

(* A listing ends.  If it does not fail it has every file that can be read,*)
(* or every driver for vector data, once and in the order of the listing;  *)
(* what is left out on the way takes no other entry with it.               *)
Listable == IF listing.function = "shapefile_meta" THEN Shapes \cap Openable ELSE Openable

ListingIsWhole ==
  <>[] \/ outcome \in {"none", "failed"}
       \/ outcome = "complete" /\ listed = Only(listing.entries, Listable)

=============================================================================
