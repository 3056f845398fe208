----------------------------- MODULE MCIngestion -----------------------------
(* Two overlapping ingesters, two locations, two observed_at labels. *)
EXTENDS Ingestion

CONSTANTS l1, l2, s1, s2, scheduler, manual

MCLocation == {l1, l2}
MCSlot == {s1, s2}
MCIngester == {scheduler, manual}
=============================================================================
