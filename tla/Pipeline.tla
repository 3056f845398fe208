------------------------------ MODULE Pipeline ------------------------------
(***************************************************************************)
(* The two services together.  They share no table and no lock: the        *)
(* processing-service sees the ingestion-service only through              *)
(* GET /api/v1/observations?since=...&limit=100, that is, through the      *)
(* committed rows.  Every step is a step of one service that leaves the    *)
(* other as it is; a commit of the ingestion-service changes what the next *)
(* poll of the processing-service may return.                              *)
(***************************************************************************)
EXTENDS Naturals, FiniteSets

CONSTANTS
    Location, Slot, Ingester, MaxClock,             \* see Ingestion
    Rule, Level, Breaches,                          \* see Processing
    Processor, Scheduler, BatchLimit,
    MaxFaults   \* bound: faults met by the cycles of the processing-service

ASSUME MaxClockAssumption == MaxClock \in Nat
ASSUME LevelAssumption == Level \subseteq {2, 5, 7, 10}
ASSUME BreachesAssumption == Breaches \in [Location \X Slot -> SUBSET Rule]
ASSUME SchedulerAssumption == Scheduler \in Processor
ASSUME BatchLimitAssumption == BatchLimit \in Nat \ {0}

VARIABLES
    rows, clock, active,
    phase, began, queue, fetched, held, doomed, stored, errors,
    watermark, copies, score, alerts, created, live, rule,
    pc, since, page, todo, current, snapshot, matches, staged, newAlerts, newMark,
    faults      \* faults met so far

ingestionOnly == <<clock, active, phase, began, queue, fetched, held, doomed,
                   stored, errors>>
processingOnly == <<watermark, copies, score, alerts, created, live, rule,
                    pc, since, page, todo, current, snapshot, matches, staged,
                    newAlerts, newMark>>
vars == <<rows, ingestionOnly, processingOnly, faults>>

(* The services, with what is proved about each of them alone.  The        *)
(* results that cycles of the processing-service return are not in this    *)
(* module, so the variables of ProcessingReports are constants here.       *)
I == INSTANCE Ingestion_proofs
P == INSTANCE Processing_proofs
        WITH Obs <- I!Obs, Time <- I!Time, counted <- 0, errors <- 0, result <- {}

Init == I!Init /\ P!Init /\ faults = 0

Ingest == I!Next /\ UNCHANGED <<processingOnly, faults>>

Process ==
    /\ \E p \in Processor : P!ReadWatermark(p) \/ P!Step(p) \/ P!DeadlockVictim(p)
    /\ UNCHANGED <<ingestionOnly, faults>>

ProcessFault ==
    /\ faults < MaxFaults
    /\ faults' = faults + 1
    /\ \E p \in Processor : P!Fault(p)
    /\ UNCHANGED ingestionOnly

EditRules == P!RuleNext /\ UNCHANGED <<ingestionOnly, faults>>

Next == Ingest \/ Process \/ ProcessFault \/ EditRules

Spec == Init /\ [][Next]_vars

(* The background task sleeps and begins its next cycle, whatever happened *)
(* in the last one; a begun cycle goes on (see Processing).  No request is *)
(* bound to arrive, and the ingestion-service may stop.                    *)
Fairness ==
    /\ WF_vars(P!ReadWatermark(Scheduler) /\ UNCHANGED <<ingestionOnly, faults>>)
    /\ \A p \in Processor :
          /\ SF_vars(P!Step(p) /\ UNCHANGED <<ingestionOnly, faults>>)
          /\ WF_vars(P!DeadlockVictim(p) /\ UNCHANGED <<ingestionOnly, faults>>)

FairSpec == Spec /\ Fairness

-----------------------------------------------------------------------------

(* The ingestion-service is an environment the Processing module allows:   *)
(* its commits show whole tie groups, with a stamp no visible row has and  *)
(* observations not stored before.  What is proved of Processing holds     *)
(* here.                                                                   *)
ImplementsProcessing == P!Spec

(* No row is ever passed over by the watermark: see Processing.            *)
NeverSkipped == P!NeverSkipped

(* With one ingester nothing is passed over but rows of a group that a     *)
(* page has cut.                                                           *)
GroupsBegun == P!GroupsBegun

(* The rows at or below the watermark are the processed ones.              *)
WatermarkExact == P!WatermarkExact

(* The high-water mark never goes back.                                    *)
WatermarkMonotone == P!WatermarkMonotone

(* Every observation the ingestion-service stores is processed in the end, *)
(* if only finitely many faults hit the processing-service.                *)
EventuallyProcessed ==
    \A o \in I!Obs : o \in I!Keys(rows) ~> o \in P!Processed

(* The processing-service works through whatever has been stored: the      *)
(* watermark reaches every stored stamp (ADR 0004: it "loops through pages *)
(* until it receives an empty response").                                  *)
CatchesUp ==
    \A t \in I!Time : (\E r \in rows : r.at = t) ~> watermark >= t

=============================================================================
