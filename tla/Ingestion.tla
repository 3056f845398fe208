------------------------------ MODULE Ingestion ------------------------------
(***************************************************************************)
(* The ingestion-service: cycles of IngestObservationsUseCase.execute over *)
(* one PostgreSQL table, ingestion.raw_observations.                       *)
(*                                                                         *)
(* A cycle is run by the background task of the service or by a            *)
(* POST /api/v1/observations/ingest request; both open one session, and    *)
(* the whole cycle is one READ COMMITTED transaction.  It reads the active *)
(* locations once, then asks Open-Meteo for the current observation of     *)
(* each and inserts it with ON CONFLICT (location_id, observed_at)         *)
(* DO NOTHING.  ingested_at is the column default now(), which PostgreSQL  *)
(* evaluates to the START of the transaction: every row of a cycle carries *)
(* the same stamp, fixed long before the row becomes visible.              *)
(***************************************************************************)
EXTENDS Naturals, FiniteSets

CONSTANTS
    Location,  \* ids of rows of ingestion.locations
    Slot,      \* observed_at labels that Open-Meteo may report
    Ingester,  \* the sessions that run cycles: the background task, requests
    MaxClock   \* bound: the number of cycles begun

ASSUME MaxClockAssumption == MaxClock \in Nat

(* A row is identified by the columns of its unique constraint. *)
Obs == Location \X Slot

Time == 1..MaxClock

Row == [key : Obs, at : Time]

VARIABLES
    rows,     \* committed rows of raw_observations, as readers see them
    clock,    \* start stamp of the youngest transaction
    active,   \* locations whose is_active is true
    phase,    \* where each ingester stands
    began,    \* now() of its transaction, 0 when it has none
    queue,    \* locations its loop has still to visit
    fetched,  \* the list fetch_current returned, whose INSERT is under way
    held,     \* keys it has inserted and not committed
    doomed,   \* PostgreSQL has aborted its transaction after an error
    stored,   \* total_stored of execute
    errors    \* len(errors) of execute

session == <<phase, began, queue, fetched, held, doomed, stored, errors>>
vars == <<rows, clock, active, session>>

Init ==
    /\ rows = {}
    /\ clock = 0
    /\ active \in SUBSET Location
    /\ phase = [i \in Ingester |-> "idle"]
    /\ began = [i \in Ingester |-> 0]
    /\ queue = [i \in Ingester |-> {}]
    /\ fetched = [i \in Ingester |-> {}]
    /\ held = [i \in Ingester |-> {}]
    /\ doomed = [i \in Ingester |-> FALSE]
    /\ stored = [i \in Ingester |-> 0]
    /\ errors = [i \in Ingester |-> 0]

Keys(R) == {r.key : r \in R}

-----------------------------------------------------------------------------
(* The cycle. *)

(* Seeded bug: stamps too coarse to tell two transactions apart. *)
BeginSameStamp(i) ==
    /\ phase[i] = "idle"
    /\ clock < MaxClock
    /\ clock' = clock + 1
    /\ began' = [began EXCEPT ![i] = 1]
    /\ queue' = [queue EXCEPT ![i] = active]
    /\ phase' = [phase EXCEPT ![i] = "fetching"]
    /\ UNCHANGED <<rows, active, fetched, held, doomed, stored, errors>>

(* maker()/session.begin() and the first statement, list_all(active_only). *)
Begin(i) ==
    /\ phase[i] = "idle"
    /\ clock < MaxClock
    /\ clock' = clock + 1
    /\ began' = [began EXCEPT ![i] = clock + 1]
    /\ queue' = [queue EXCEPT ![i] = active]
    /\ phase' = [phase EXCEPT ![i] = "fetching"]
    /\ UNCHANGED <<rows, active, fetched, held, doomed, stored, errors>>

(* Seeded bug: a location is visited again. *)
VisitAgain(i, l) ==
    /\ phase[i] = "fetching"
    /\ l \in queue[i]
    /\ \E Q \in {queue[i], queue[i] \ {l}} : queue' = [queue EXCEPT ![i] = Q]

(* The SELECT has no ORDER BY: the loop visits the locations in any order. *)
Visit(i, l) ==
    /\ phase[i] = "fetching"
    /\ l \in queue[i]
    /\ queue' = [queue EXCEPT ![i] = @ \ {l}]

(* fetch_current returns one observation, and save_many sends its INSERT. *)
FetchOne(i, l) ==
    /\ Visit(i, l)
    /\ \E s \in Slot : fetched' = [fetched EXCEPT ![i] = {<<l, s>>}]
    /\ phase' = [phase EXCEPT ![i] = "inserting"]
    /\ UNCHANGED <<rows, clock, active, began, held, doomed, stored, errors>>

(* httpx.HTTPError, no "current" block, or a bad time: an empty list, which *)
(* counts as a location processed.                                          *)
FetchNone(i, l) ==
    /\ Visit(i, l)
    /\ UNCHANGED <<rows, clock, active, phase, began, fetched, held, doomed,
                   stored, errors>>

(* response.json() raises: the loop records an error and goes on. *)
FetchRaises(i, l) ==
    /\ Visit(i, l)
    /\ errors' = [errors EXCEPT ![i] = @ + 1]
    /\ UNCHANGED <<rows, clock, active, phase, began, fetched, held, doomed, stored>>

(* The unique index makes an INSERT wait for the open transaction that     *)
(* inserted the same key.                                                  *)
WaitsFor(i, j) ==
    /\ i # j
    /\ phase[i] = "inserting"
    /\ ~doomed[i]
    /\ fetched[i] \cap held[j] # {}

(* Seeded bug: the table has no unique constraint. *)
NewKeysAll(i) == fetched[i]

(* DO NOTHING for the keys that exist. *)
NewKeys(i) == fetched[i] \ (Keys(rows) \cup held[i])

(* Seeded bug: every observation sent is counted as stored. *)
RowCountSent(i) == Cardinality(fetched[i])

RowCount(i) == Cardinality(NewKeys(i))

(* save_many, once no open transaction holds one of its keys. *)
Insert(i) ==
    /\ phase[i] = "inserting"
    /\ ~doomed[i]
    /\ \A j \in Ingester : ~WaitsFor(i, j)
    /\ held' = [held EXCEPT ![i] = @ \cup NewKeys(i)]
    /\ stored' = [stored EXCEPT ![i] = @ + RowCount(i)]
    /\ fetched' = [fetched EXCEPT ![i] = {}]
    /\ phase' = [phase EXCEPT ![i] = "fetching"]
    /\ UNCHANGED <<rows, clock, active, began, queue, doomed, errors>>

(* The INSERT ends in a server error.  execute catches it and goes on, but *)
(* PostgreSQL has aborted the transaction and dropped what it held.        *)
InsertFails(i) ==
    /\ phase[i] = "inserting"
    /\ doomed' = [doomed EXCEPT ![i] = TRUE]
    /\ held' = [held EXCEPT ![i] = {}]
    /\ errors' = [errors EXCEPT ![i] = @ + 1]
    /\ fetched' = [fetched EXCEPT ![i] = {}]
    /\ phase' = [phase EXCEPT ![i] = "fetching"]
    /\ UNCHANGED <<rows, clock, active, began, queue, stored>>

(* Every later INSERT of an aborted transaction is refused. *)
InsertRefused(i) == doomed[i] /\ InsertFails(i)

(* A server error of a live transaction. *)
InsertBreaks(i) == ~doomed[i] /\ InsertFails(i)

(* PostgreSQL ends a cycle of waiting inserts by failing one of them. *)
DeadlockVictim(i) ==
    /\ \E S \in SUBSET Ingester :
          /\ i \in S
          /\ \A x \in S : \E y \in S : WaitsFor(x, y)
    /\ InsertFails(i)

Close(i) ==
    /\ phase' = [phase EXCEPT ![i] = "idle"]
    /\ began' = [began EXCEPT ![i] = 0]
    /\ queue' = [queue EXCEPT ![i] = {}]
    /\ fetched' = [fetched EXCEPT ![i] = {}]
    /\ held' = [held EXCEPT ![i] = {}]
    /\ doomed' = [doomed EXCEPT ![i] = FALSE]
    /\ stored' = [stored EXCEPT ![i] = 0]
    /\ errors' = [errors EXCEPT ![i] = 0]
    /\ UNCHANGED <<clock, active>>

(* Seeded bug: an aborted transaction is left open. *)
CommitHealthy(i) ==
    /\ phase[i] = "fetching"
    /\ queue[i] = {}
    /\ ~doomed[i]
    /\ rows' = rows \cup {[key |-> o, at |-> began[i]] : o \in held[i]}
    /\ Close(i)

(* execute returns and session.begin() commits.  COMMIT of an aborted      *)
(* transaction is a ROLLBACK that raises nothing: held is empty then, and  *)
(* the result still carries stored.                                        *)
Commit(i) ==
    /\ phase[i] = "fetching"
    /\ queue[i] = {}
    /\ rows' = rows \cup {[key |-> o, at |-> began[i]] : o \in held[i]}
    /\ Close(i)

(* The process stops, the task or the request is cancelled, or the         *)
(* connection is lost, anywhere in the cycle: rollback.                    *)
Abort(i) ==
    /\ phase[i] # "idle"
    /\ rows' = rows
    /\ Close(i)

Step(i) ==
    \/ \E l \in Location : FetchOne(i, l) \/ FetchNone(i, l) \/ FetchRaises(i, l)
    \/ Insert(i)
    \/ InsertRefused(i)
    \/ Commit(i)

CycleNext ==
    \E i \in Ingester :
        Begin(i) \/ Step(i) \/ InsertBreaks(i) \/ DeadlockVictim(i) \/ Abort(i)

-----------------------------------------------------------------------------
(* What the location endpoints do to a cycle: the set the next one reads. *)

(* POST /locations, or PUT with is_active true. *)
ActivateLocation(l) ==
    /\ l \notin active
    /\ active' = active \cup {l}
    /\ UNCHANGED <<rows, clock, session>>

(* DELETE /locations/{id} (soft_delete), or PUT with is_active false. *)
DeleteLocation(l) ==
    /\ l \in active
    /\ active' = active \ {l}
    /\ UNCHANGED <<rows, clock, session>>

Next ==
    \/ CycleNext
    \/ \E l \in Location : ActivateLocation(l) \/ DeleteLocation(l)

Spec == Init /\ [][Next]_vars

(* Every await of a cycle ends: httpx has a 10 s timeout, a lock is        *)
(* released when its holder ends, and the server's deadlock detector runs  *)
(* one second into a wait.  Nothing forces a cycle to begin.               *)
Fairness ==
    \A i \in Ingester : WF_vars(Step(i)) /\ WF_vars(DeadlockVictim(i))

FairSpec == Spec /\ Fairness

-----------------------------------------------------------------------------

(* The type invariant of raw_observations and of the sessions. *)
TypeOK ==
    /\ rows \subseteq Row
    /\ clock \in 0..MaxClock
    /\ active \subseteq Location
    /\ phase \in [Ingester -> {"idle", "fetching", "inserting"}]
    /\ began \in [Ingester -> 0..MaxClock]
    /\ queue \in [Ingester -> SUBSET Location]
    /\ fetched \in [Ingester -> SUBSET Obs]
    /\ held \in [Ingester -> SUBSET Obs]
    /\ doomed \in [Ingester -> BOOLEAN]
    /\ stored \in [Ingester -> Nat]
    /\ errors \in [Ingester -> Nat]

(* However cycles overlap, wait for each other, fail or die, no            *)
(* observation of a location is stored twice (overview.md, "Ingestion is   *)
(* idempotent").                                                           *)
OneRowPerKey == \A r, q \in rows : r.key = q.key => r = q

(* Rows with equal ingested_at come from one cycle, which visits each      *)
(* location once: a tie group has at most one row per location.  The       *)
(* processing-service reads pages ordered by ingested_at alone, so this    *)
(* bounds the rows a page boundary can separate.                           *)
OneRowPerStamp ==
    \A r, q \in rows : r.at = q.at /\ r.key[1] = q.key[1] => r = q

(* A tie group becomes visible at once: no step adds a row whose stamp a   *)
(* visible row already has.  A reader that has seen a stamp may ask for    *)
(* rows strictly newer than it.                                            *)
TieGroupComplete ==
    [][\A r \in rows' \ rows, q \in rows : r.at # q.at]_vars

(* A cycle that reports no error has made visible, when its COMMIT ends,   *)
(* exactly as many rows as its observations_stored says.  (execute returns *)
(* the report before that; if the COMMIT fails, nothing is stored: Abort.) *)
CleanReport ==
    [][\A i \in Ingester :
          Commit(i) /\ errors[i] = 0 => Cardinality(rows' \ rows) = stored[i]]_vars

(* Every cycle ends, also when cycles insert the same keys in opposite     *)
(* orders and wait for each other.                                         *)
CycleEnds == \A i \in Ingester : phase[i] # "idle" ~> phase[i] = "idle"

=============================================================================
