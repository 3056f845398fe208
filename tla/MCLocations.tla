---------------------------- MODULE MCLocations ----------------------------
(* Names for the small sets of the runs of Locations. *)
EXTENDS Locations

CONSTANTS q1, q2, l1

TwoColumns == {"name", "is_active"}
OneLocation == {l1}
TwoRequests == {q1, q2}
=============================================================================
