----------------------------- MODULE Processing -----------------------------
(***************************************************************************)
(* The processing-service: cycles of ProcessObservationsUseCase.execute    *)
(* over the PostgreSQL tables of the processing schema.                    *)
(*                                                                         *)
(* A cycle is run by the background task of the service or by a            *)
(* POST /api/v1/process request.  It reads the watermark, asks the         *)
(* ingestion-service for ONE page of rows newer than it, reads the active  *)
(* rules, and for each row saves a processed observation and its alerts;   *)
(* then it overwrites the watermark.  The whole cycle is one session and   *)
(* one READ COMMITTED transaction.  execute catches the error of a save    *)
(* and goes on with the next row, but a failed flush has already rolled    *)
(* the transaction back, and the session refuses every later statement:    *)
(* a cycle commits all of its page or nothing.                             *)
(***************************************************************************)
EXTENDS Naturals, FiniteSets

CONSTANTS
    Obs,        \* raw observations: rows of ingestion.raw_observations
    Time,       \* ingested_at stamps
    Rule,       \* ids of rows of processing_rules
    Level,      \* severity scores the rules in use may have
    Breaches,   \* for each observation, the rules whose condition it meets
    Processor,  \* the sessions that run cycles: the background task, requests
    Scheduler,  \* the background task
    BatchLimit  \* limit=100 of get_observations

ASSUME TimeAssumption == Time \subseteq Nat \ {0}
ASSUME LevelAssumption == Level \subseteq {2, 5, 7, 10}
ASSUME BreachesAssumption == Breaches \in [Obs -> SUBSET Rule]
ASSUME SchedulerAssumption == Scheduler \in Processor
ASSUME BatchLimitAssumption == BatchLimit \in Nat \ {0}

Row == [key : Obs, at : Time]
Score == {0} \cup Level
Alert == [key : Obs, rule : Rule, severity : Level]

VARIABLES
    rows,       \* what GET /observations serves: committed raw rows
    watermark,  \* last_ingested_at of source "ingestion", 0 with no row
    copies,     \* committed processed_observations with this raw id
    score,      \* severity_score of the committed row
    alerts,     \* committed alerts
    created,    \* rule ids ever inserted
    live,       \* rows of processing_rules
    rule,       \* severity score of an active rule, 0 of any other
    pc,         \* where each cycle stands
    since,      \* the watermark it read
    page,       \* the rows it was sent
    todo,       \* rows its loop has not finished
    current,    \* the row whose alerts it is saving, if any
    snapshot,   \* rule, as list_active found it
    matches,    \* rules matched by the current row, alerts still to save
    staged,     \* processed rows flushed and not committed
    newAlerts,  \* alerts flushed and not committed
    newMark     \* new_watermark_ts, 0 for None

store == <<watermark, copies, score, alerts>>
rules == <<created, live, rule>>
session == <<pc, since, page, todo, current, snapshot, matches, staged,
             newAlerts, newMark>>
vars == <<rows, store, rules, session>>

NoRules == [k \in Rule |-> 0]

Init ==
    /\ rows = {}
    /\ watermark = 0
    /\ copies = [o \in Obs |-> 0]
    /\ score = [o \in Obs |-> 0]
    /\ alerts = {}
    /\ created = {}
    /\ live = {}
    /\ rule = NoRules
    /\ pc = [p \in Processor |-> "idle"]
    /\ since = [p \in Processor |-> 0]
    /\ page = [p \in Processor |-> {}]
    /\ todo = [p \in Processor |-> {}]
    /\ current = [p \in Processor |-> {}]
    /\ snapshot = [p \in Processor |-> NoRules]
    /\ matches = [p \in Processor |-> {}]
    /\ staged = [p \in Processor |-> {}]
    /\ newAlerts = [p \in Processor |-> {}]
    /\ newMark = [p \in Processor |-> 0]

Keys(R) == {r.key : r \in R}

(* compute_severity_score: the highest, 0 when nothing matched. *)
Highest(S) == IF S = {} THEN 0 ELSE CHOOSE m \in S : \A n \in S : n <= m

Later(s, t) == IF s < t THEN t ELSE s

-----------------------------------------------------------------------------
(* The request to the ingestion-service. *)

(* Seeded bug: the filter is not strict. *)
NewerOrSame(s) == {r \in rows : r.at >= s}

(* The since filter of the list endpoint. *)
Newer(s) == {r \in rows : r.at > s}

(* Seeded bug: the page is not ordered. *)
PagesUnordered(s) ==
    {B \in SUBSET Newer(s) : Cardinality(B) <= BatchLimit
                             /\ (B = Newer(s) \/ Cardinality(B) = BatchLimit)}

(* ORDER BY ingested_at LIMIT BatchLimit OFFSET 0: rows with equal stamps  *)
(* come in any order, so any of them may be left out by the limit.         *)
Pages(s) ==
    {B \in SUBSET Newer(s) :
        /\ IsFiniteSet(B) /\ Cardinality(B) <= BatchLimit
        /\ B = Newer(s) \/ Cardinality(B) = BatchLimit
        /\ \A b \in B, r \in Newer(s) \ B : b.at <= r.at}

(* The row the loop takes next, in the order of the page. *)
First(R) == {r \in R : \A q \in R : r.at <= q.at}

-----------------------------------------------------------------------------
(* The cycle. *)

Close(p) ==
    /\ pc' = [pc EXCEPT ![p] = "idle"]
    /\ since' = [since EXCEPT ![p] = 0]
    /\ page' = [page EXCEPT ![p] = {}]
    /\ todo' = [todo EXCEPT ![p] = {}]
    /\ current' = [current EXCEPT ![p] = {}]
    /\ snapshot' = [snapshot EXCEPT ![p] = NoRules]
    /\ matches' = [matches EXCEPT ![p] = {}]
    /\ staged' = [staged EXCEPT ![p] = {}]
    /\ newAlerts' = [newAlerts EXCEPT ![p] = {}]
    /\ newMark' = [newMark EXCEPT ![p] = 0]

ReadWatermark(p) ==
    /\ pc[p] = "idle"
    /\ since' = [since EXCEPT ![p] = watermark]
    /\ pc' = [pc EXCEPT ![p] = "polling"]
    /\ UNCHANGED <<rows, store, rules, page, todo, current, snapshot, matches,
                   staged, newAlerts, newMark>>

Poll(p) ==
    /\ pc[p] = "polling"
    /\ \E B \in Pages(since[p]) \ {{}} :
          /\ page' = [page EXCEPT ![p] = B]
          /\ todo' = [todo EXCEPT ![p] = B]
    /\ pc' = [pc EXCEPT ![p] = "listing"]
    /\ UNCHANGED <<rows, store, rules, since, current, snapshot, matches, staged,
                   newAlerts, newMark>>

(* No row is newer than the watermark: execute returns at once. *)
PollNothing(p) ==
    /\ pc[p] = "polling"
    /\ Newer(since[p]) = {}
    /\ Close(p)
    /\ UNCHANGED <<rows, store, rules>>

(* httpx.HTTPError: the client returns [], which looks like no new row. *)
PollFails(p) ==
    /\ pc[p] = "polling"
    /\ Close(p)
    /\ UNCHANGED <<rows, store, rules>>

(* list_active, once for the whole page. *)
ListRules(p) ==
    /\ pc[p] = "listing"
    /\ snapshot' = [snapshot EXCEPT ![p] = rule]
    /\ pc' = [pc EXCEPT ![p] = "saving"]
    /\ UNCHANGED <<rows, store, rules, since, page, todo, current, matches, staged,
                   newAlerts, newMark>>

(* evaluate_rules over the rules read at the start of the cycle. *)
Matched(p, o) == {k \in Breaches[o] : snapshot[p][k] # 0}

(* The unique constraint on raw_observation_id makes the INSERT wait for   *)
(* the open transaction that inserted the same id.                         *)
WaitsFor(p, q) ==
    /\ p # q
    /\ pc[p] = "saving"
    /\ Keys(First(todo[p])) \cap Keys(staged[q]) # {}

Free(p, o) == \A q \in Processor \ {p} : o \notin Keys(staged[q])

(* Seeded bug: the table has no unique constraint. *)
InsertableAlways(p, o) == TRUE

Insertable(p, o) == Free(p, o) /\ copies[o] = 0

(* _obs_repo.save of the next row: INSERT and flush. *)
SaveObservation(p) ==
    /\ pc[p] = "saving"
    /\ \E r \in First(todo[p]) :
          /\ Insertable(p, r.key)
          /\ LET m == Matched(p, r.key)
             IN  /\ matches' = [matches EXCEPT ![p] = m]
                 /\ staged' = [staged EXCEPT ![p] = @ \cup
                        {[key |-> r.key, score |-> Highest({snapshot[p][k] : k \in m})]}]
          /\ current' = [current EXCEPT ![p] = {r}]
    /\ pc' = [pc EXCEPT ![p] = "alerting"]
    /\ UNCHANGED <<rows, store, rules, since, page, todo, snapshot, newAlerts, newMark>>

(* Seeded bug: the alert takes the severity the rule has by now. *)
SaveAlertRereading(p) ==
    /\ pc[p] = "alerting"
    /\ \E k \in matches[p] \cap live, r \in current[p] :
          /\ newAlerts' = [newAlerts EXCEPT ![p] = @ \cup
                {[key |-> r.key, rule |-> k, severity |-> rule[k]]}]
          /\ matches' = [matches EXCEPT ![p] = @ \ {k}]
    /\ UNCHANGED <<rows, store, rules, pc, since, page, todo, current, snapshot,
                   staged, newMark>>

(* _alert_repo.save of one match.  The foreign key takes a share lock on   *)
(* the rule, which holds off its deletion until this transaction ends.     *)
SaveAlert(p) ==
    /\ pc[p] = "alerting"
    /\ \E k \in matches[p] \cap live, r \in current[p] :
          /\ newAlerts' = [newAlerts EXCEPT ![p] = @ \cup
                {[key |-> r.key, rule |-> k, severity |-> snapshot[p][k]]}]
          /\ matches' = [matches EXCEPT ![p] = @ \ {k}]
    /\ UNCHANGED <<rows, store, rules, pc, since, page, todo, current, snapshot,
                   staged, newMark>>

(* The end of the loop body: the row counts for the new watermark. *)
FinishObservation(p) ==
    /\ pc[p] = "alerting"
    /\ matches[p] = {}
    /\ \E r \in current[p] :
          /\ newMark' = [newMark EXCEPT ![p] = Later(@, r.at)]
          /\ todo' = [todo EXCEPT ![p] = @ \ {r}]
    /\ current' = [current EXCEPT ![p] = {}]
    /\ pc' = [pc EXCEPT ![p] = "saving"]
    /\ UNCHANGED <<rows, store, rules, since, page, snapshot, matches, staged,
                   newAlerts>>

(* Seeded bug: a savepoint per row, so that only the failed row is undone. *)
RollBackRow(p) ==
    /\ pc' = [pc EXCEPT ![p] = "saving"]
    /\ \E r \in First(todo[p]) :
          /\ todo' = [todo EXCEPT ![p] = @ \ {r}]
          /\ staged' = [staged EXCEPT ![p] = {s \in @ : s.key # r.key}]
          /\ newAlerts' = [newAlerts EXCEPT ![p] = {a \in @ : a.key # r.key}]
    /\ current' = [current EXCEPT ![p] = {}]
    /\ matches' = [matches EXCEPT ![p] = {}]
    /\ UNCHANGED <<rows, store, rules, since, page, snapshot, newMark>>

(* The session rolled back by a failed flush.  execute records the error   *)
(* and tries the remaining rows, but each save is refused.                 *)
RollBack(p) ==
    /\ pc' = [pc EXCEPT ![p] = "failed"]
    /\ todo' = [todo EXCEPT ![p] = {}]
    /\ current' = [current EXCEPT ![p] = {}]
    /\ matches' = [matches EXCEPT ![p] = {}]
    /\ staged' = [staged EXCEPT ![p] = {}]
    /\ newAlerts' = [newAlerts EXCEPT ![p] = {}]
    /\ UNCHANGED <<rows, store, rules, since, page, snapshot, newMark>>

(* uq_processed_observations_raw_id: the row is already processed. *)
ObservationRejected(p) ==
    /\ pc[p] = "saving"
    /\ \E r \in First(todo[p]) : Free(p, r.key) /\ copies[r.key] > 0
    /\ RollBack(p)

(* Seeded bug: an alert whose rule is gone is dropped without an error. *)
AlertDropped(p) ==
    /\ pc[p] = "alerting"
    /\ matches[p] \ live # {}
    /\ matches' = [matches EXCEPT ![p] = @ \cap live]
    /\ UNCHANGED <<rows, store, rules, pc, since, page, todo, current, snapshot,
                   staged, newAlerts, newMark>>

(* alerts.rule_id: the rule has been deleted since list_active. *)
AlertRejected(p) ==
    /\ pc[p] = "alerting"
    /\ matches[p] \ live # {}
    /\ RollBack(p)

(* Any other error of a flush. *)
FlushBreaks(p) ==
    /\ pc[p] \in {"saving", "alerting"}
    /\ todo[p] # {}
    /\ RollBack(p)

(* PostgreSQL ends a cycle of waiting inserts by failing one of them. *)
DeadlockVictim(p) ==
    /\ \E S \in SUBSET Processor :
          /\ p \in S
          /\ \A x \in S : \E y \in S : WaitsFor(x, y)
    /\ RollBack(p)

(* Seeded bugs: the watermark of a failed cycle is saved in a session of   *)
(* its own; a failed cycle without one is never closed.                    *)
EndFailedSaving(p) ==
    /\ pc[p] = "failed"
    /\ Close(p)
    /\ watermark' = Later(watermark, newMark[p])
    /\ UNCHANGED <<rows, copies, score, alerts, rules>>

EndFailedRaising(p) ==
    /\ pc[p] = "failed"
    /\ newMark[p] # 0
    /\ Close(p)
    /\ UNCHANGED <<rows, store, rules>>

(* The loop of a rolled-back session ends.  With new_watermark_ts set the  *)
(* upsert raises and the cycle is an error; without it execute returns     *)
(* normally and there is nothing to commit.                                *)
EndFailed(p) ==
    /\ pc[p] = "failed"
    /\ Close(p)
    /\ UNCHANGED <<rows, store, rules>>

(* upsert: INSERT ... ON CONFLICT (source) DO UPDATE waits for the open    *)
(* transaction that wrote the row, then overwrites what it committed.      *)
UpsertWatermark(p) ==
    /\ pc[p] = "saving"
    /\ todo[p] = {}
    /\ newMark[p] # 0
    /\ \A q \in Processor \ {p} : pc[q] # "committing"
    /\ pc' = [pc EXCEPT ![p] = "committing"]
    /\ UNCHANGED <<rows, store, rules, since, page, todo, current, snapshot, matches,
                   staged, newAlerts, newMark>>

(* session.begin() ends: everything the cycle wrote becomes visible. *)
Commit(p) ==
    /\ pc[p] = "committing"
    /\ copies' = [o \in Obs |-> copies[o] + Cardinality({s \in staged[p] : s.key = o})]
    /\ score' = [o \in Obs |-> IF o \in Keys(staged[p])
                               THEN (CHOOSE s \in staged[p] : s.key = o).score
                               ELSE score[o]]
    /\ alerts' = alerts \cup newAlerts[p]
    /\ watermark' = newMark[p]
    /\ Close(p)
    /\ UNCHANGED <<rows, rules>>

(* The process stops, the task or the request is cancelled, the connection *)
(* is lost, or the client raises: rollback, anywhere in the cycle.         *)
Abort(p) ==
    /\ pc[p] # "idle"
    /\ Close(p)
    /\ UNCHANGED <<rows, store, rules>>

Step(p) ==
    \/ Poll(p) \/ PollNothing(p) \/ ListRules(p)
    \/ SaveObservation(p) \/ SaveAlert(p) \/ FinishObservation(p)
    \/ ObservationRejected(p) \/ AlertRejected(p) \/ EndFailed(p)
    \/ UpsertWatermark(p) \/ Commit(p)

Fault(p) == PollFails(p) \/ FlushBreaks(p) \/ Abort(p)

CycleNext ==
    \E p \in Processor :
        ReadWatermark(p) \/ Step(p) \/ DeadlockVictim(p) \/ Fault(p)

-----------------------------------------------------------------------------
(* The rule endpoints, each one transaction. *)

CreateRule(k, s) ==
    /\ k \notin created
    /\ created' = created \cup {k}
    /\ live' = live \cup {k}
    /\ rule' = [rule EXCEPT ![k] = s]
    /\ UNCHANGED <<rows, store, session>>

(* A new severity, or is_active set or cleared. *)
UpdateRule(k, s) ==
    /\ k \in live
    /\ rule[k] # s
    /\ rule' = [rule EXCEPT ![k] = s]
    /\ UNCHANGED <<rows, store, created, live, session>>

(* Seeded bug: the alert's insert takes no lock on its rule. *)
DeleteRuleUnlocked(k) ==
    /\ k \in live
    /\ \A a \in alerts : a.rule # k
    /\ live' = live \ {k}
    /\ rule' = [rule EXCEPT ![k] = 0]
    /\ UNCHANGED <<rows, store, created, session>>

(* The DELETE waits for the transactions whose uncommitted alerts refer to *)
(* the rule, and fails, changing nothing, if a committed alert does.       *)
DeleteRule(k) ==
    /\ k \in live
    /\ \A p \in Processor : \A a \in newAlerts[p] : a.rule # k
    /\ \A a \in alerts : a.rule # k
    /\ live' = live \ {k}
    /\ rule' = [rule EXCEPT ![k] = 0]
    /\ UNCHANGED <<rows, store, created, session>>

RuleNext ==
    \E k \in Rule :
        \/ \E s \in Score : CreateRule(k, s) \/ UpdateRule(k, s)
        \/ DeleteRule(k)

(* What the ingestion-service does to the page endpoint: a cycle of it     *)
(* commits, and a set of new rows with one new stamp is visible at once.   *)
(* Nothing orders that stamp after those already visible.                  *)
Ingested ==
    /\ \E t \in Time \ {r.at : r \in rows},
          K \in (SUBSET (Obs \ Keys(rows))) \ {{}} :
             rows' = rows \cup {[key |-> o, at |-> t] : o \in K}
    /\ UNCHANGED <<store, rules, session>>

Next == CycleNext \/ RuleNext \/ Ingested

Spec == Init /\ [][Next]_vars

(* A begun cycle goes on: its awaits end, by an answer, a time-out or the  *)
(* release of a lock.  Fairness is strong because PostgreSQL wakes a       *)
(* waiter when the holder ends: a session that keeps failing and coming    *)
(* back does not overtake the one that waits for it forever.               *)
CycleFairness ==
    \A p \in Processor : SF_vars(Step(p)) /\ WF_vars(DeadlockVictim(p))

FairSpec == Spec /\ CycleFairness

-----------------------------------------------------------------------------

(* The type invariant of the tables and of the sessions. *)
TypeOK ==
    /\ rows \subseteq Row
    /\ watermark \in {0} \cup Time
    /\ copies \in [Obs -> Nat]
    /\ score \in [Obs -> Score]
    /\ alerts \subseteq Alert
    /\ created \subseteq Rule
    /\ live \subseteq created
    /\ rule \in [Rule -> Score]
    /\ pc \in [Processor -> {"idle", "polling", "listing", "saving", "alerting",
                             "failed", "committing"}]
    /\ since \in [Processor -> {0} \cup Time]
    /\ page \in [Processor -> SUBSET Row]
    /\ todo \in [Processor -> SUBSET Row]
    /\ current \in [Processor -> SUBSET Row]
    /\ snapshot \in [Processor -> [Rule -> Score]]
    /\ matches \in [Processor -> SUBSET Rule]
    /\ staged \in [Processor -> SUBSET [key : Obs, score : Score]]
    /\ newAlerts \in [Processor -> SUBSET Alert]
    /\ newMark \in [Processor -> {0} \cup Time]

Processed == {o \in Obs : copies[o] > 0}

(* However cycles overlap, wait, deadlock, fail and are retried, no raw    *)
(* observation is processed twice, and no rule raises two alerts for one   *)
(* observation (README: "re-running never creates duplicate records").     *)
ExactlyOnce ==
    /\ \A o \in Obs : copies[o] <= 1
    /\ \A a, b \in alerts : a.key = b.key /\ a.rule = b.rule => a = b

(* The watermark is the stamp of a row that has been processed: it never   *)
(* gets ahead of the work, since it commits with the rows it speaks for.   *)
WatermarkJustified ==
    watermark # 0 =>
        \E r \in rows : r.at = watermark /\ r.key \in Processed

(* No partial result is ever visible: the severity_score of a committed    *)
(* observation is the highest severity among its committed alerts, even    *)
(* when rules are edited or deleted during the cycle or its saves fail     *)
(* half way through the alerts.                                            *)
ScoreMatchesAlerts ==
    \A o \in Obs :
        /\ \A a \in alerts : a.key = o => a.severity <= score[o]
        /\ score[o] # 0 => \E a \in alerts : a.key = o /\ a.severity = score[o]

(* Every alert refers to a rule and a processed observation that exist.    *)
(* Rules are deleted while cycles hold a stale list of them.               *)
NoOrphanAlert == \A a \in alerts : a.rule \in live /\ a.key \in Processed

(* A cycle commits its whole page with the watermark of its newest row, or *)
(* nothing, although execute handles errors row by row.                    *)
PageAtomic ==
    [][copies' # copies \/ watermark' # watermark =>
         \E p \in Processor :
            /\ page[p] # {}
            /\ Processed' \ Processed = Keys(page[p])
            /\ Processed \subseteq Processed'
            /\ watermark' \in {r.at : r \in page[p]}
            /\ \A r \in page[p] : r.at <= watermark']_vars

(* A row at or below the watermark is never asked for again, so it must    *)
(* have been processed (ADR 0011: the mechanism must "never skip an        *)
(* observation").  Overlapping and failing cycles cannot break this by     *)
(* themselves; it depends on the rows and the pages, in two ways.          *)
NeverSkipped == \A r \in rows : r.at <= watermark => r.key \in Processed

(* Some row with the stamp of r is processed. *)
Begun(r) == \E q \in rows : q.at = r.at /\ q.key \in Processed

(* A row that is passed over belongs to a group of equal stamps of which a *)
(* page has taken a part: whole groups are never skipped, if rows become   *)
(* visible in the order of their stamps.                                   *)
GroupsBegun == \A r \in rows : r.at <= watermark => Begun(r)

(* The watermark stands where the processed rows end: those at or below it *)
(* are the processed ones, whichever of the overlapping cycles wrote it    *)
(* last.  Like NeverSkipped, for rows that become visible in the order of  *)
(* their stamps and pages that keep groups of equal stamps whole.          *)
WatermarkExact == \A r \in rows : r.key \in Processed <=> r.at <= watermark

(* The high-water mark never goes back. *)
WatermarkMonotone == [][watermark <= watermark']_vars

(* Rows become visible in the order of their stamps.                       *)
StampsOrdered == [][\A r \in rows' \ rows, q \in rows : q.at < r.at]_rows

(* No page is cut inside a group of rows with one stamp.                   *)
GroupsWhole ==
    \A p \in Processor : \A b \in page[p], r \in rows : r.at = b.at => r \in page[p]

(* The service implements the log: see ObservationLog. *)
Log == INSTANCE ObservationLog
            WITH raw <- rows, mark <- watermark, done <- Processed, raised <- alerts

(* Every behaviour of the cycles is one of the log: of all their steps,    *)
(* only a commit is seen outside, as one batch.                            *)
ImplementsLog == Log!Spec

(* Every cycle ends, whatever the others hold. *)
CycleEnds == \A p \in Processor : pc[p] # "idle" ~> pc[p] = "idle"

=============================================================================
