----------------------------- MODULE Deployment -----------------------------
(***************************************************************************)
(* One of the two services as a process: the lifespan of the application,  *)
(* its scheduler loop, the requests it serves, the connection pool they    *)
(* share, and the Alembic migrations that are run beside it (by docker     *)
(* compose exec, while the service is up).                                 *)
(*                                                                         *)
(* A unit of work is a request or a cycle of the loop.  It has one session *)
(* and one transaction, whose connection is taken from the pool by the     *)
(* first statement and given back at the end, and uses the tables of its   *)
(* route one after the other.  What it reads and writes there is the       *)
(* matter of the other modules: here it either commits or does not.        *)
(*                                                                         *)
(* get_session iterates over get_db_session.  When the endpoint raises,    *)
(* the exception leaves get_session and does not reach the inner generator *)
(* which stays suspended inside session.begin() until it is collected: the *)
(* request is answered while its transaction is still open.  Whether a     *)
(* successful request is answered before or after its commit depends on    *)
(* the version of FastAPI (>= 0.115), so that both orders are possible.    *)
(***************************************************************************)
EXTENDS Naturals, Sequences, FiniteSets, SequencesExt

CONSTANTS
    Request,    \* clients, each with one request at a time
    Loop,       \* the background task
    Migrator,   \* processes that run alembic
    Create,     \* the tables, in the order of upgrade()
    Drop,       \* the same, in the order of downgrade()
    Parents,    \* the tables each table refers to by a foreign key
    Kind,       \* endpoints
    Cycle,      \* those that run a cycle
    Route,      \* the tables an endpoint uses, in the order it does
    Guarded,    \* positions in its route where execute catches errors
    PoolSize    \* database_pool_size + database_max_overflow

Table == ToSet(Create)
User == Request \cup {Loop}

ASSUME LoopAssumption == Loop \notin Request
ASSUME TablesAssumption ==
    /\ Create \in Seq(Table) /\ Drop \in Seq(Table)
    /\ ToSet(Drop) = Table
    /\ Parents \in [Table -> SUBSET Table]
ASSUME RouteAssumption == Route \in [Kind -> Seq(Table) \ {<<>>}]
ASSUME CycleAssumption ==
    /\ Cycle # {} /\ Cycle \subseteq Kind
    /\ Guarded \in [Cycle -> SUBSET (Nat \ {0})]
ASSUME PoolAssumption == PoolSize \in Nat \ {0}

VARIABLES
    app,        \* the process
    pc,         \* where each unit of work stands
    kind,       \* what it runs
    held,       \* connections it holds
    used,       \* tables of its route its transaction has used, if alive
    answer,     \* to the last request of each client; "unclear" is the
                \* error of a COMMIT, any other error is "error"
    effect,     \* it has committed
    tables,     \* committed tables
    version,    \* alembic_version has a row
    job,        \* what each migrator runs
    steps       \* statements of its script it has executed

work == <<pc, kind, held, used, answer, effect>>
schema == <<tables, version>>
migration == <<job, steps>>
vars == <<app, work, schema, migration>>

AnyKind == CHOOSE k \in Cycle : TRUE

Init ==
    /\ app = "down"
    /\ pc = [u \in User |-> "idle"]
    /\ kind = [u \in User |-> AnyKind]
    /\ held = [u \in User |-> 0]
    /\ used = [u \in User |-> 0]
    /\ answer = [r \in Request |-> "none"]
    /\ effect = [r \in Request |-> FALSE]
    /\ tables = {}
    /\ version = FALSE
    /\ job = [m \in Migrator |-> "idle"]
    /\ steps = [m \in Migrator |-> 0]

-----------------------------------------------------------------------------
(* The pool and the table locks. *)

(* Seeded bug: a session for each repository, as without the cache of      *)
(* FastAPI's dependencies.                                                 *)
SessionsPerRepository(u) == Len(Route[kind[u]])

(* All repositories of a request share the session of SessionDep. *)
Sessions(u) == 1

(* The connections that are out. *)
Connections == {x \in User \X (1..PoolSize) : x[2] <= held[x[1]]}

Total == Cardinality(Connections)

Taken(s, n) == ToSet(SubSeq(s, 1, n))

(* The tables whose locks a transaction holds until it ends. *)
Using(u) == Taken(Route[kind[u]], used[u])

NextTable(u) == Route[kind[u]][used[u] + 1]

(* Tables a migrator has locked exclusively by dropping them. *)
Dropped(m) == IF job[m] = "downgrade" THEN Taken(Drop, steps[m]) ELSE {}

(* Tables a migrator has created and not committed. *)
Created(m) == IF job[m] = "upgrade" THEN Taken(Create, steps[m]) ELSE {}

DropWaits(m, u) ==
    job[m] = "downgrade" /\ steps[m] < Len(Drop) /\ Drop[steps[m] + 1] \in Using(u)

(* And the one it waits for: whoever comes later queues behind it.         *)
Claimed(m) ==
    Dropped(m) \cup {t \in Table : \E u \in User : DropWaits(m, u) /\ t = Drop[steps[m] + 1]}

WorkWaits(u, m) ==
    pc[u] = "working" /\ used[u] < Len(Route[kind[u]]) /\ NextTable(u) \in Claimed(m)

(* Another migrator has created or dropped the same table. *)
JobWaits(m, n) ==
    /\ m # n
    /\ \/ /\ job[m] = "upgrade" /\ steps[m] < Len(Create)
          /\ Create[steps[m] + 1] \in Created(n)
       \/ /\ job[m] = "downgrade" /\ steps[m] < Len(Drop)
          /\ Drop[steps[m] + 1] \in Dropped(n)

-----------------------------------------------------------------------------
(* A unit of work. *)

(* The loop goes on until its task is cancelled. *)
Serving(u) == app = "serving" \/ (u = Loop /\ app # "down")

(* require_api_key: a request without the key is refused before            *)
(* get_session is entered.                                                 *)
Refuse(r) ==
    /\ Serving(r)
    /\ pc[r] = "idle"
    /\ answer' = [answer EXCEPT ![r] = "error"]
    /\ effect' = [effect EXCEPT ![r] = FALSE]
    /\ UNCHANGED <<app, pc, kind, held, used, schema, migration>>

(* Any other request comes in, or the sleep of the loop is over. *)
Begin(u) ==
    /\ Serving(u)
    /\ pc[u] = "idle"
    /\ \E k \in IF u = Loop THEN Cycle ELSE Kind : kind' = [kind EXCEPT ![u] = k]
    /\ pc' = [pc EXCEPT ![u] = "waiting"]
    /\ answer' = [r \in Request |-> IF r = u THEN "none" ELSE answer[r]]
    /\ effect' = [r \in Request |-> IF r = u THEN FALSE ELSE effect[r]]
    /\ UNCHANGED <<app, held, used, schema, migration>>

(* A connection from the pool. *)
Checkout(u) ==
    /\ pc[u] = "waiting"
    /\ Total < PoolSize
    /\ held' = [held EXCEPT ![u] = @ + 1]
    /\ pc' = [pc EXCEPT ![u] = IF held'[u] = Sessions(u) THEN "working" ELSE "waiting"]
    /\ UNCHANGED <<app, kind, used, answer, effect, schema, migration>>

(* Seeded bug: the connection is not given back. *)
EndsHolding(u, state) ==
    /\ pc' = [pc EXCEPT ![u] = state]
    /\ used' = [used EXCEPT ![u] = 0]
    /\ UNCHANGED held

Ends(u, state) ==
    /\ pc' = [pc EXCEPT ![u] = state]
    /\ held' = [held EXCEPT ![u] = 0]
    /\ used' = [used EXCEPT ![u] = 0]

Answers(u, a) == answer' = [r \in Request |-> IF r = u THEN a ELSE answer[r]]

(* TimeoutError of the pool, after 30 s. *)
CheckoutTimesOut(u) ==
    /\ pc[u] = "waiting"
    /\ Total = PoolSize
    /\ Ends(u, "idle")
    /\ Answers(u, "error")
    /\ UNCHANGED <<app, kind, effect, schema, migration>>

(* The first statement on the next table. *)
UseTable(u) ==
    /\ pc[u] = "working"
    /\ used[u] < Len(Route[kind[u]])
    /\ NextTable(u) \in tables
    /\ \A m \in Migrator : ~ WorkWaits(u, m)
    /\ used' = [used EXCEPT ![u] = @ + 1]
    /\ pc' = [pc EXCEPT ![u] = IF used'[u] = Len(Route[kind[u]]) THEN "returned" ELSE "working"]
    /\ UNCHANGED <<app, kind, held, answer, effect, schema, migration>>

(* Seeded bug: the try is around the while, not inside. *)
RaisesOut(u, locks) ==
    /\ pc' = [pc EXCEPT ![u] = IF u = Loop THEN "ended" ELSE "orphan"]
    /\ held' = [held EXCEPT ![u] = IF u = Loop THEN 0 ELSE @]
    /\ used' = [used EXCEPT ![u] = IF u = Loop THEN 0 ELSE locks]
    /\ Answers(u, "error")
    /\ UNCHANGED <<app, kind, effect, schema, migration>>

(* The exception leaves the session of a cycle of the loop, which closes   *)
(* it; that of a request stays behind, with the connection.  Locks are     *)
(* kept unless PostgreSQL has aborted the transaction.                     *)
Raises(u, locks) ==
    /\ pc' = [pc EXCEPT ![u] = IF u = Loop THEN "idle" ELSE "orphan"]
    /\ held' = [held EXCEPT ![u] = IF u = Loop THEN 0 ELSE @]
    /\ used' = [used EXCEPT ![u] = IF u = Loop THEN 0 ELSE locks]
    /\ Answers(u, "error")
    /\ UNCHANGED <<app, kind, effect, schema, migration>>

(* In the loop over the locations, or over the rows of a page. *)
Catches(u) == kind[u] \in Cycle /\ used[u] + 1 \in Guarded[kind[u]]

(* A statement of a transaction that PostgreSQL aborts by its error.       *)
(* Where the error is caught, execute goes on to its end and returns.      *)
StatementFails(u) ==
    IF Catches(u)
    THEN /\ pc' = [pc EXCEPT ![u] = "returned"]
         /\ used' = [used EXCEPT ![u] = 0]
         /\ UNCHANGED <<app, kind, held, answer, effect, schema, migration>>
    ELSE Raises(u, 0)

(* UndefinedTable: before the migration, or after a downgrade. *)
NoTable(u) ==
    /\ pc[u] = "working"
    /\ NextTable(u) \notin tables
    /\ StatementFails(u)

(* Any other error of a statement, a lost connection for one. *)
StatementBreaks(u) ==
    /\ pc[u] = "working"
    /\ StatementFails(u)

(* A SELECT finds no row, and the use case raises HTTPException: the       *)
(* transaction is not aborted, and keeps its locks.                        *)
NotFound(r) ==
    /\ pc[r] = "working"
    /\ kind[r] \notin Cycle
    /\ NextTable(r) \in tables
    /\ \A m \in Migrator : ~ WorkWaits(r, m)
    /\ Raises(r, used[r] + 1)

(* Seeded bug: the exception handler commits what was flushed. *)
CommitsAnyway(u) ==
    /\ pc[u] = "orphan"
    /\ Ends(u, "idle")
    /\ effect' = [r \in Request |-> IF r = u THEN TRUE ELSE effect[r]]
    /\ UNCHANGED <<app, kind, answer, schema, migration>>

(* Seeded bug: something keeps a reference to the generator. *)
NeverCollected(u) == FALSE /\ UNCHANGED vars

(* The event loop closes the generator that was left behind: rollback. *)
Collected(u) ==
    /\ pc[u] = "orphan"
    /\ Ends(u, "idle")
    /\ UNCHANGED <<app, kind, answer, effect, schema, migration>>

(* FastAPI answers first. *)
AnswersEarly(r) ==
    /\ pc[r] = "returned"
    /\ answer[r] = "none"
    /\ Answers(r, "ok")
    /\ UNCHANGED <<app, pc, kind, held, used, effect, schema, migration>>

(* session.begin() ends.  COMMIT of an aborted transaction is a ROLLBACK.  *)
Commit(u) ==
    /\ pc[u] = "returned"
    /\ Ends(u, "idle")
    /\ effect' = [r \in Request |-> IF r = u THEN used[u] > 0 ELSE effect[r]]
    /\ Answers(u, "ok")
    /\ UNCHANGED <<app, kind, schema, migration>>

(* The COMMIT raises: the server has refused it, or has applied it and the *)
(* connection was lost before it could say so.  An answer that has been    *)
(* sent stays as it is; one that has not is an error that leaves both      *)
(* open.                                                                   *)
CommitFails(u) ==
    /\ pc[u] = "returned"
    /\ Ends(u, "idle")
    /\ \E applied \in {FALSE, used[u] > 0} :
          effect' = [r \in Request |-> IF r = u THEN applied ELSE effect[r]]
    /\ answer' = [r \in Request |->
                    IF r = u /\ answer[r] = "none" THEN "unclear" ELSE answer[r]]
    /\ UNCHANGED <<app, kind, schema, migration>>

WorkStep(u) == UseTable(u) \/ NoTable(u) \/ Collected(u) \/ Commit(u)

WorkFault(u) == CheckoutTimesOut(u) \/ StatementBreaks(u) \/ CommitFails(u)

-----------------------------------------------------------------------------
(* The lifespan. *)

Start ==
    /\ app = "down"
    /\ app' = "serving"
    /\ UNCHANGED <<work, schema, migration>>

(* SIGTERM: the server accepts nothing more, and waits for its requests. *)
Stop ==
    /\ app = "serving"
    /\ app' = "stopping"
    /\ UNCHANGED <<work, schema, migration>>

(* Seeded bug: the task is cancelled and not awaited. *)
CancelOnly ==
    /\ app = "stopping"
    /\ \A r \in Request : pc[r] \in {"idle", "orphan"}
    /\ app' = "stopped"
    /\ pc' = [pc EXCEPT ![Loop] = "cancelled"]
    /\ UNCHANGED <<kind, held, used, answer, effect, schema, migration>>

(* scheduler_task.cancel(), and its await begins: wherever the task is, in *)
(* its sleep or in a statement, it goes no further.                        *)
CancelLoop ==
    /\ app = "stopping"
    /\ \A r \in Request : pc[r] \in {"idle", "orphan"}
    /\ app' = "awaiting"
    /\ pc' = [pc EXCEPT ![Loop] = "cancelled"]
    /\ UNCHANGED <<kind, held, used, answer, effect, schema, migration>>

(* Seeded bug: the loop catches CancelledError like any other exception,   *)
(* so that its task does not end.                                          *)
CancelCaught ==
    /\ pc[Loop] = "cancelled"
    /\ Ends(Loop, "idle")
    /\ UNCHANGED <<app, kind, answer, effect, schema, migration>>

(* CancelledError leaves the session, which rolls back, and the task ends. *)
RollBackLoop ==
    /\ pc[Loop] = "cancelled"
    /\ Ends(Loop, "ended")
    /\ UNCHANGED <<app, kind, answer, effect, schema, migration>>

(* await scheduler_task raises what the task has ended with. *)
LoopAwaited ==
    /\ app = "awaiting"
    /\ pc[Loop] = "ended"
    /\ app' = "stopped"
    /\ UNCHANGED <<work, schema, migration>>

Gone ==
    /\ pc' = [u \in User |-> "idle"]
    /\ held' = [u \in User |-> 0]
    /\ used' = [u \in User |-> 0]

(* dispose_engine, and the process exits. *)
Dispose ==
    /\ app = "stopped"
    /\ app' = "down"
    /\ Gone
    /\ UNCHANGED <<kind, answer, effect, schema, migration>>

(* The process is killed.  PostgreSQL rolls its transactions back. *)
Crash ==
    /\ app # "down"
    /\ app' = "down"
    /\ Gone
    /\ UNCHANGED <<kind, answer, effect, schema, migration>>

Lifespan ==
    Start \/ Stop \/ CancelLoop \/ RollBackLoop \/ LoopAwaited \/ Dispose \/ Crash

-----------------------------------------------------------------------------
(* Migrations: one transaction each, begin_transaction of env.py. *)

BeginUpgrade(m) ==
    /\ job[m] = "idle"
    /\ ~ version
    /\ job' = [job EXCEPT ![m] = "upgrade"]
    /\ UNCHANGED <<app, work, schema, steps>>

BeginDowngrade(m) ==
    /\ job[m] = "idle"
    /\ version
    /\ job' = [job EXCEPT ![m] = "downgrade"]
    /\ UNCHANGED <<app, work, schema, steps>>

JobFree(m) ==
    /\ \A u \in User : ~ DropWaits(m, u)
    /\ \A n \in Migrator : ~ JobWaits(m, n)

(* Seeded bug: each CREATE TABLE commits by itself. *)
CreateTableCommitting(m) ==
    /\ job[m] = "upgrade" /\ steps[m] < Len(Create) /\ JobFree(m)
    /\ Create[steps[m] + 1] \notin tables
    /\ tables' = tables \cup {Create[steps[m] + 1]}
    /\ steps' = [steps EXCEPT ![m] = @ + 1]
    /\ UNCHANGED <<app, work, version, job>>

CreateTable(m) ==
    /\ job[m] = "upgrade" /\ steps[m] < Len(Create) /\ JobFree(m)
    /\ Create[steps[m] + 1] \notin tables
    /\ steps' = [steps EXCEPT ![m] = @ + 1]
    /\ UNCHANGED <<app, work, schema, job>>

(* DROP TABLE, and of its indexes: no other table may refer to it. *)
DropTable(m) ==
    /\ job[m] = "downgrade" /\ steps[m] < Len(Drop) /\ JobFree(m)
    /\ Drop[steps[m] + 1] \in tables
    /\ \A t \in tables \ Dropped(m) : Drop[steps[m] + 1] \notin Parents[t] \ {t}
    /\ steps' = [steps EXCEPT ![m] = @ + 1]
    /\ UNCHANGED <<app, work, schema, job>>

JobOver(m) ==
    /\ job' = [job EXCEPT ![m] = "idle"]
    /\ steps' = [steps EXCEPT ![m] = 0]

(* The version row is written and the transaction committed. *)
CommitUpgrade(m) ==
    /\ job[m] = "upgrade" /\ steps[m] = Len(Create)
    /\ tables' = tables \cup Table
    /\ version' = TRUE
    /\ JobOver(m)
    /\ UNCHANGED <<app, work>>

CommitDowngrade(m) ==
    /\ job[m] = "downgrade" /\ steps[m] = Len(Drop)
    /\ tables' = {}
    /\ version' = FALSE
    /\ JobOver(m)
    /\ UNCHANGED <<app, work>>

(* The table is already there, or already gone: another one was faster. *)
JobOvertaken(m) ==
    /\ \/ job[m] = "upgrade" /\ steps[m] < Len(Create) /\ Create[steps[m] + 1] \in tables
       \/ job[m] = "downgrade" /\ steps[m] < Len(Drop) /\ Drop[steps[m] + 1] \notin tables
    /\ JobOver(m)
    /\ UNCHANGED <<app, work, schema>>

(* It is interrupted. *)
JobBreaks(m) ==
    /\ job[m] # "idle"
    /\ JobOver(m)
    /\ UNCHANGED <<app, work, schema>>

(* PostgreSQL ends a circle of waits: a unit of work has one table and     *)
(* wants another, and a downgrade holds this one and wants that one.       *)
WorkVictim(u) ==
    /\ \E m \in Migrator : WorkWaits(u, m) /\ DropWaits(m, u)
    /\ StatementFails(u)

JobVictim(m) ==
    /\ \E u \in User : WorkWaits(u, m) /\ DropWaits(m, u)
    /\ JobOver(m)
    /\ UNCHANGED <<app, work, schema>>

Deadlock(m) == JobVictim(m) \/ \E u \in User : DropWaits(m, u) /\ WorkVictim(u)

JobStep(m) ==
    CreateTable(m) \/ DropTable(m) \/ CommitUpgrade(m) \/ CommitDowngrade(m) \/ JobOvertaken(m)

-----------------------------------------------------------------------------

Next ==
    \/ \E u \in User : Begin(u) \/ Checkout(u) \/ WorkStep(u) \/ WorkFault(u)
    \/ \E r \in Request : Refuse(r) \/ NotFound(r) \/ AnswersEarly(r)
    \/ Lifespan
    \/ \E m \in Migrator :
          BeginUpgrade(m) \/ BeginDowngrade(m) \/ JobStep(m) \/ JobBreaks(m) \/ Deadlock(m)

(* The pool and the locks serve those that wait in turn; the awaits of a   *)
(* unit of work end; the loop's sleep does.  No time-out is relied on.     *)
Fairness ==
    /\ \A u \in User : SF_vars(Checkout(u)) /\ SF_vars(WorkStep(u))
    /\ WF_vars(Begin(Loop))
    /\ WF_vars(CancelLoop) /\ WF_vars(RollBackLoop) /\ WF_vars(LoopAwaited)
    /\ WF_vars(Dispose)
    /\ \A m \in Migrator : SF_vars(JobStep(m)) /\ WF_vars(Deadlock(m))

Spec == Init /\ [][Next]_vars /\ Fairness

-----------------------------------------------------------------------------
(* Properties. *)

(* The variables have their types; connections are in the pool or with a   *)
(* unit of work that has not ended.                                        *)
TypeOK ==
    /\ app \in {"down", "serving", "stopping", "awaiting", "stopped"}
    /\ pc \in [User -> {"idle", "waiting", "working", "returned", "orphan", "cancelled",
                        "ended"}]
    /\ kind \in [User -> Kind]
    /\ held \in [User -> 0..PoolSize]
    /\ Total <= PoolSize
    /\ \A u \in User : used[u] \in 0..Len(Route[kind[u]])
    /\ \A u \in User : pc[u] \in {"idle", "ended"} => held[u] = 0 /\ used[u] = 0
    /\ answer \in [Request -> {"none", "ok", "error", "unclear"}]
    /\ effect \in [Request -> BOOLEAN]
    /\ tables \subseteq Table
    /\ version \in BOOLEAN
    /\ job \in [Migrator -> {"idle", "upgrade", "downgrade"}]
    /\ steps \in [Migrator -> Nat]
    /\ \A m \in Migrator : steps[m] <= Len(IF job[m] = "downgrade" THEN Drop ELSE Create)

(* A request that fails before its COMMIT, in a dependency, a statement or *)
(* the endpoint, has changed nothing and never will, although it is        *)
(* answered while its transaction is open and left to be collected.  (Of   *)
(* one that fails in its COMMIT nobody can say.)                           *)
FailureChangesNothing == \A r \in Request : answer[r] = "error" => ~ effect[r]

(* The tables are there with their version row, all of them, or none, at   *)
(* every moment a unit of work may look, whatever migrations overlap and   *)
(* break off.                                                              *)
SchemaWhole == tables = IF version THEN Table ELSE {}

(* When the engine is disposed of, no cycle and no request has one of its  *)
(* connections any more, wherever the loop was cancelled; the only ones    *)
(* still out are in sessions that failed requests have left behind.        *)
DisposedUnused == app = "stopped" => \A u \in User : held[u] # 0 => pc[u] = "orphan"

(* Every request and cycle ends, and gives its connection back, without    *)
(* the help of a time-out: nobody waits for the pool while holding a part  *)
(* of it.                                                                  *)
WorkEnds == \A u \in User : pc[u] \notin {"idle", "ended"} ~> pc[u] \in {"idle", "ended"}

(* A migration that has begun ends, although the service is up and its     *)
(* transactions are in the way.                                            *)
MigrationEnds == \A m \in Migrator : job[m] # "idle" ~> job[m] = "idle"

(* The service stops when it is told to. *)
StopEnds == app = "stopping" ~> app = "down"

(* No failed cycle is the loop's last while the service is up; in          *)
(* particular the service may be started before its tables exist.          *)
LoopGoesOn == <>[](app = "serving") => []<>(pc[Loop] = "waiting")
=============================================================================
