---------------------------- MODULE MCProcessing ----------------------------
(* Two observations, two stamps, a background task and a request, and a    *)
(* rule whose severity changes.                                            *)
EXTENDS ProcessingReports, TLC

CONSTANTS o1, o2, k1, scheduler, manual

MCObs == {o1, o2}
MCRule == {k1}
MCProcessor == {scheduler, manual}
MCTime == {1, 2}
MCLevel == {2, 10}

(* Every observation meets the condition of every rule. *)
MCBreaches == [o \in Obs |-> Rule]
=============================================================================
