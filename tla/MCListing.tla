----------------------------- MODULE MCListing -----------------------------
(* Names for the small sets of the run of Listing. *)
EXTENDS Listing, TLC

CONSTANTS a1, a2, a3, a4, reader1

Items == {a1, a2, a3, a4}
ChosenItems == {a1, a2, a3}
Readers == {reader1}
Times == 1..3

SameItems == Permutations(ChosenItems)
=============================================================================
