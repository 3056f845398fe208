------------------------------ MODULE MCRules ------------------------------
(* Names for the small sets of the run of Rules. *)
EXTENDS Rules

CONSTANTS q1, q2, c1, k1

TwoColumns == {"severity", "is_active"}
OneRule == {k1}
TwoRequests == {q1, q2}
OneCycle == {c1}
=============================================================================
