--------------------------- MODULE Pipeline_proofs ---------------------------
(***************************************************************************)
(* What is proved of each service alone holds of the two together, for     *)
(* every set of locations, labels, rules and sessions: the pipeline        *)
(* implements both, and with one ingester it skips no row unless a page    *)
(* cuts a group of equal stamps.                                           *)
(***************************************************************************)
EXTENDS Pipeline, TLAPS

(* The assumptions of the two modules, about this instance of them. *)
LEMMA Assumptions ==
    /\ MaxClock \in Nat
    /\ I!Time \subseteq Nat \ {0}
    /\ Level \subseteq {2, 5, 7, 10}
    /\ Breaches \in [I!Obs -> SUBSET Rule]
    /\ Scheduler \in Processor
    /\ BatchLimit \in Nat \ {0}
BY MaxClockAssumption, LevelAssumption, BreachesAssumption, SchedulerAssumption,
   BatchLimitAssumption
DEF I!Time, I!Obs

(* A cycle of the processing-service and an edit of rules are nothing to   *)
(* the ingestion-service.                                                  *)
LEMMA StepImplementsIngestion == [Next]_vars => [I!Next]_(I!vars)
<1> SUFFICES ASSUME [Next]_vars PROVE [I!Next]_(I!vars)
  OBVIOUS
<1>1. CASE Ingest
  BY <1>1 DEF Ingest
<1>2. CASE Process \/ ProcessFault \/ EditRules
  <2>1. P!CycleNext \/ P!RuleNext
    BY <1>2 DEF Process, ProcessFault, EditRules, P!CycleNext
  <2>2. rows' = rows
    BY <2>1, Assumptions, P!RowsAreForeign
  <2> QED
    BY <1>2, <2>2 DEF Process, ProcessFault, EditRules, ingestionOnly, I!vars, I!session
<1>3. CASE UNCHANGED vars
  BY <1>3 DEF vars, ingestionOnly, I!vars, I!session
<1> QED
  BY <1>1, <1>2, <1>3 DEF Next

(* The pipeline is an ingestion-service, so that what is proved of that    *)
(* holds: types, unique rows, whole groups.                                *)
THEOREM PipelineIngests == Spec => I!Spec
<1>1. Init => I!Init
  BY DEF Init
<1>2. [Next]_vars => [I!Next]_(I!vars)
  BY StepImplementsIngestion
<1> QED
  BY <1>1, <1>2, PTL DEF Spec, I!Spec

LEMMA PipelineIngestionInvariant == Spec => []I!IngestionInv
<1>1. I!Spec => []I!IngestionInv
  BY Assumptions, I!IngestionInvariant
<1> QED
  BY <1>1, PipelineIngests, PTL

(* A commit of an ingestion cycle is what Processing expects of its        *)
(* environment: a set of new observations under one new stamp.             *)
LEMMA CommitIsIngested ==
    ASSUME I!IngestionInv, NEW i \in Ingester, I!Commit(i), UNCHANGED processingOnly
    PROVE  rows' = rows \/ P!Ingested
<1>1. /\ rows' = rows \cup I!Shown(i)
      /\ \A r \in I!Shown(i) : r.at \in I!Time /\ r.key \in I!Obs
      /\ \A r \in I!Shown(i), q \in rows : r.at # q.at /\ r.key # q.key
  BY Assumptions, I!CommitShows DEF I!Row
<1>2. CASE held[i] = {}
  BY <1>1, <1>2 DEF I!Shown
<1>3. CASE held[i] # {}
  <2> DEFINE K == held[i]
             t == began[i]
  <2>1. I!Shown(i) = {[key |-> o, at |-> t] : o \in K}
    BY DEF I!Shown
  <2>2. \A o \in K : [key |-> o, at |-> t] \in I!Shown(i)
    BY <2>1
  <2>3. K \in (SUBSET (I!Obs \ P!Keys(rows))) \ {{}}
    BY <1>1, <1>3, <2>2 DEF P!Keys
  <2>4. t \in I!Time \ {r.at : r \in rows}
    BY <1>1, <1>3, <2>2
  <2>5. UNCHANGED <<P!store, P!rules, P!session>>
    BY DEF processingOnly, P!store, P!rules, P!session
  <2> QED
    BY <1>1, <2>1, <2>3, <2>4, <2>5 DEF P!Ingested
<1> QED
  BY <1>2, <1>3

LEMMA StepImplementsProcessing == I!IngestionInv /\ [Next]_vars => [P!Next]_(P!vars)
<1> SUFFICES ASSUME I!IngestionInv, [Next]_vars PROVE [P!Next]_(P!vars)
  OBVIOUS
<1>1. CASE Ingest
  <2>1. I!Next /\ UNCHANGED processingOnly
    BY <1>1 DEF Ingest
  <2>2. CASE rows' = rows
    BY <2>1, <2>2 DEF processingOnly, P!vars, P!store, P!rules, P!session
  <2>3. ASSUME NEW i \in Ingester, I!Commit(i) PROVE [P!Next]_(P!vars)
    BY <2>1, <2>2, <2>3, CommitIsIngested DEF P!Next
  <2> QED
    BY <2>1, <2>2, <2>3, Assumptions, I!OnlyCommitsAdd
<1>2. CASE Process \/ ProcessFault \/ EditRules
  BY <1>2 DEF Process, ProcessFault, EditRules, P!Next, P!CycleNext
<1>3. CASE UNCHANGED vars
  BY <1>3 DEF vars, processingOnly, P!vars, P!store, P!rules, P!session
<1> QED
  BY <1>1, <1>2, <1>3 DEF Next

(* The pipeline is a processing-service, so that what is proved of that    *)
(* holds: exactly one effect per row, whole pages, scores that match.      *)
THEOREM PipelineProcesses == Spec => ImplementsProcessing
<1>1. Init => P!Init
  BY DEF Init
<1>2. I!IngestionInv /\ [Next]_vars => [P!Next]_(P!vars)
  BY StepImplementsProcessing
<1> QED
  BY <1>1, <1>2, PipelineIngestionInvariant, PTL DEF Spec, ImplementsProcessing, P!Spec

(* What the two services promise holds across the request between them,    *)
(* for any number of overlapping and failing cycles on either side: an     *)
(* observation has one row and at most one effect, the score agrees with   *)
(* the alerts, every alert has its row and its rule, and the watermark     *)
(* stands on a processed row.                                              *)
THEOREM PipelineKeepsPromises ==
    Spec => [](/\ I!OneRowPerKey
               /\ P!ExactlyOnce
               /\ P!ScoreMatchesAlerts
               /\ P!NoOrphanAlert
               /\ P!WatermarkJustified)
<1>1. P!Spec => []P!IInv
  BY Assumptions, P!Invariant
<1>2. I!IngestionInv => I!OneRowPerKey
  BY DEF I!IngestionInv
<1>3. P!IInv => /\ P!ExactlyOnce
                /\ P!ScoreMatchesAlerts
                /\ P!NoOrphanAlert
                /\ P!WatermarkJustified
  BY DEF P!IInv
<1> QED
  BY <1>1, <1>2, <1>3, PipelineIngestionInvariant, PipelineProcesses, PTL
  DEF ImplementsProcessing

(* With one ingester, the pipeline skips nothing but rows of a group that  *)
(* a page has cut, for any number of locations and any page limit.         *)
THEOREM OneIngesterBeginsGroups ==
    ASSUME \A i, j \in Ingester : i = j
    PROVE  Spec => []GroupsBegun
<1>1. I!Spec => [][I!Ordered]_rows
  BY Assumptions, I!SoloOrdersStamps DEF I!Solo
<1>2. [I!Ordered]_rows => [\A r \in rows' \ rows, q \in rows : q.at < r.at]_rows
  BY DEF I!Ordered
<1>3. P!Spec /\ P!StampsOrdered => []P!GroupsBegun
  BY Assumptions, P!GroupsAreBegun
<1> QED
  BY <1>1, <1>2, <1>3, PipelineIngests, PipelineProcesses, PTL
  DEF ImplementsProcessing, P!StampsOrdered, GroupsBegun

(* With one ingester, the pipeline skips no row whose group is not cut by  *)
(* a page, however many processors overlap and fail.                       *)
THEOREM OneIngesterSkipsNothing ==
    ASSUME \A i, j \in Ingester : i = j
    PROVE  Spec /\ []P!GroupsWhole => []NeverSkipped
<1>1. I!Spec => [][I!Ordered]_rows
  BY Assumptions, I!SoloOrdersStamps DEF I!Solo
<1>2. [I!Ordered]_rows => [\A r \in rows' \ rows, q \in rows : q.at < r.at]_rows
  BY DEF I!Ordered
<1>3. P!Spec /\ P!StampsOrdered /\ []P!GroupsWhole => []P!NeverSkipped
  BY Assumptions, P!NothingSkipped
<1> QED
  BY <1>1, <1>2, <1>3, PipelineIngests, PipelineProcesses, PTL
  DEF ImplementsProcessing, P!StampsOrdered, NeverSkipped

(* One location: a stamp has one row, so no page can cut a group. *)
LEMMA OneLocationKeepsGroups ==
    ASSUME \A l, m \in Location : l = m, I!IngestionInv, P!IInv
    PROVE  P!GroupsWhole
<1>1. \A r, q \in rows : r.at = q.at => r = q
  BY DEF I!IngestionInv, I!OneRowPerStamp, I!TypeOK, I!Row, I!Obs
<1>2. \A p \in Processor : page[p] \subseteq rows
  BY DEF P!IInv, P!Working
<1> QED
  BY <1>1, <1>2 DEF P!GroupsWhole

(* One ingester and one location: nothing is skipped, whatever the page    *)
(* limit, the number of cycles and the faults (run pipeline_backlog).      *)
THEOREM OneLocationSkipsNothing ==
    ASSUME \A i, j \in Ingester : i = j, \A l, m \in Location : l = m
    PROVE  Spec => []NeverSkipped
<1>1. P!Spec => []P!IInv
  BY Assumptions, P!Invariant
<1>2. I!IngestionInv /\ P!IInv => P!GroupsWhole
  BY OneLocationKeepsGroups
<1>3. Spec /\ []P!GroupsWhole => []NeverSkipped
  BY OneIngesterSkipsNothing
<1> QED
  BY <1>1, <1>2, <1>3, PipelineIngestionInvariant, PipelineProcesses, PTL
  DEF ImplementsProcessing

(* And the watermark stands where the processed rows end.                  *)
THEOREM OneLocationIsExact ==
    ASSUME \A i, j \in Ingester : i = j, \A l, m \in Location : l = m
    PROVE  Spec => []WatermarkExact
<1>1. P!Spec => []P!IInv
  BY Assumptions, P!Invariant
<1>2. I!IngestionInv /\ P!IInv => P!GroupsWhole
  BY OneLocationKeepsGroups
<1>3. I!Spec => [][I!Ordered]_rows
  BY Assumptions, I!SoloOrdersStamps DEF I!Solo
<1>4. [I!Ordered]_rows => [\A r \in rows' \ rows, q \in rows : q.at < r.at]_rows
  BY DEF I!Ordered
<1>5. P!Spec /\ P!StampsOrdered /\ []P!GroupsWhole => []P!WatermarkExact
  BY Assumptions, P!WatermarkIsExact
<1> QED
  BY <1>1, <1>2, <1>3, <1>4, <1>5, PipelineIngestionInvariant, PipelineIngests,
     PipelineProcesses, PTL
  DEF ImplementsProcessing, P!StampsOrdered, WatermarkExact

(* Nor does the watermark go back: with one ingester and one location,     *)
(* overlapping processors cannot undo each other's progress.               *)
THEOREM OneLocationAdvances ==
    ASSUME \A i, j \in Ingester : i = j, \A l, m \in Location : l = m
    PROVE  Spec => WatermarkMonotone
<1>1. P!Spec => []P!IInv
  BY Assumptions, P!Invariant
<1>2. I!IngestionInv /\ P!IInv => P!GroupsWhole
  BY OneLocationKeepsGroups
<1>3. I!Spec => [][I!Ordered]_rows
  BY Assumptions, I!SoloOrdersStamps DEF I!Solo
<1>4. [I!Ordered]_rows => [\A r \in rows' \ rows, q \in rows : q.at < r.at]_rows
  BY DEF I!Ordered
<1>5. P!Spec /\ P!StampsOrdered /\ []P!GroupsWhole => P!WatermarkMonotone
  BY Assumptions, P!WatermarkAdvances
<1> QED
  BY <1>1, <1>2, <1>3, <1>4, <1>5, PipelineIngestionInvariant, PipelineIngests,
     PipelineProcesses, PTL
  DEF ImplementsProcessing, P!StampsOrdered, WatermarkMonotone
=============================================================================
