---------------------------- MODULE MCDeployment ----------------------------
(* The ingestion-service, its two tables and three of its endpoints.       *)
EXTENDS Deployment

CONSTANTS r1, task, m1, m2

MCRequest == {r1}
MCMigrator == {m1, m2}
MCCreate == <<"locations", "raw_observations">>
MCDrop == <<"raw_observations", "locations">>
MCParents ==
    [t \in Table |-> IF t = "raw_observations" THEN {"locations"} ELSE {}]
MCKind == {"ingest", "put", "list"}
MCCycle == {"ingest"}
MCRoute ==
    [k \in Kind |-> CASE k = "ingest" -> <<"locations", "raw_observations">>
                      [] k = "put" -> <<"locations">>
                      [] k = "list" -> <<"raw_observations">>]
MCGuarded == [k \in MCCycle |-> {2}]
=============================================================================
