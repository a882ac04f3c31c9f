---------------------------- MODULE OsmDelivery ----------------------------
(***************************************************************************)
(* What a scan of an OSM file promises the query above it, whatever the    *)
(* number of threads: rows arrive in chunks, every row exactly once, and   *)
(* the scan ends well only when every row has arrived.  A scan that meets  *)
(* an unreadable file fails, and may still deliver chunks until all its    *)
(* threads have been stopped.                                              *)
(***************************************************************************)
EXTENDS Naturals, FiniteSets

CONSTANTS Capacity \* the most rows a chunk holds

VARIABLES
  pending, \* the rows of the file not delivered yet
  count,   \* how many rows have been delivered
  result   \* outcome of the query

deliveryVars == <<pending, count, result>>

Results == {"running", "complete", "failed"}

Init ==
  /\ IsFiniteSet(pending)
  /\ count = 0
  /\ result = "running"

Deliver ==
  /\ result # "complete"
  /\ pending' \subseteq pending
  /\ count' = count + Cardinality(pending \ pending')
  /\ count' \in count + 1 .. count + Capacity
  /\ UNCHANGED result

Succeed ==
  /\ result = "running"
  /\ pending = {}
  /\ result' = "complete"
  /\ UNCHANGED <<pending, count>>

Fail ==
  /\ result = "running"
  /\ result' = "failed"
  /\ UNCHANGED <<pending, count>>

Next == Deliver \/ Succeed \/ Fail

(* What may happen, and that the query ends.                               *)
Deliveries == Init /\ [][Next]_deliveryVars

Spec == Deliveries /\ <>(result # "running")

=============================================================================
