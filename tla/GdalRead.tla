------------------------------- MODULE GdalRead -------------------------------
(***************************************************************************)
(* A query that reads a layer with ST_Read.  Bind names the columns        *)
(* (GdalColumnNames), InitGlobal pushes the filters into GDAL (GdalFilter) *)
(* and opens the stream of the layer, which the threads scan (GdalScan).   *)
(* A query may also list what there is to read (MetaScan).                 *)
(***************************************************************************)
EXTENDS GdalFilter, GdalScan, MetaScan

CONSTANTS
  Reads \* the layers read: their columns, the request, and their stream,
        \* and what is listed

(* A filter is about one of the columns that are read.                     *)
ASSUME ReadsAssumption ==
  \A read \in Reads :
    /\ IsFiniteSet(DOMAIN read.request.filters)
    /\ \A i \in DOMAIN read.request.filters :
         /\ read.request.filters[i] \in Filters
         /\ read.request.column_ids[i] \in DOMAIN read.attributes

vars == <<namesVars, filterVars, scanVars, listingVars>>

Init ==
  /\ \E read \in Reads :
       /\ attributes = read.attributes
       /\ request = read.request
       /\ stream = read.stream
       /\ listing = read.listing
  /\ NamesInit
  /\ FilterInit
  /\ ScanInit
  /\ ListingInit

(* Bind                                                                    *)
NameColumns == NamesStep /\ UNCHANGED <<filterVars, scanVars, listingVars>>

(* InitGlobal                                                              *)
PushFilters ==
  /\ BuildClause \/ SetAttributeFilter
  /\ UNCHANGED <<namesVars, scanVars, listingVars>>

Opened == stage = "open"

(* InitLocal and Scan                                                      *)
Scan ==
  /\ Opened
  /\ ScanNext
  /\ UNCHANGED <<namesVars, filterVars, listingVars>>

(* ST_Read_Meta, shapefile_meta, ST_Drivers                                *)
List == ListingStep /\ UNCHANGED <<namesVars, filterVars, scanVars>>

Next == NameColumns \/ PushFilters \/ Scan \/ List

(* Binding and InitGlobal run on one thread and are not interrupted.       *)
Fairness ==
  /\ WF_vars(NameColumns)
  /\ WF_vars(PushFilters)
  /\ WF_vars(List)
  /\ \A t \in Threads :
       WF_vars(Opened /\ Step(t) /\ UNCHANGED <<namesVars, filterVars, listingVars>>)
  /\ WF_vars(Opened /\ Complete /\ UNCHANGED <<namesVars, filterVars, listingVars>>)

Spec == Init /\ [][Next]_vars /\ Fairness

=============================================================================
