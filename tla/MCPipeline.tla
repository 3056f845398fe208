----------------------------- MODULE MCPipeline -----------------------------
(* Small deployments: one or two locations, ingesters and processors.      *)
EXTENDS Pipeline, TLC

CONSTANTS l1, l2, s1, s2, k1, scheduler, manual, task, request

MCLocationOne == {l1}
MCLocationTwo == {l1, l2}
MCSlotOne == {s1}
MCSlotTwo == {s1, s2}
MCIngesterOne == {task}
MCIngesterTwo == {task, request}
MCProcessorOne == {scheduler}
MCProcessorTwo == {scheduler, manual}
MCNoRule == {}
MCRuleOne == {k1}
MCLevelOne == {10}

(* Every observation meets the condition of every rule. *)
MCBreaches == [o \in I!Obs |-> Rule]
=============================================================================
