------------------------ MODULE Deployment_proofs ------------------------
(***************************************************************************)
(* What holds of a service and its migrations for any number of requests   *)
(* and migrators, any tables, endpoints and routes, and any pool: what     *)
(* fails before its COMMIT changes nothing, the schema is whole, the pool  *)
(* is kept, and the engine is disposed of when nobody uses it.             *)
(***************************************************************************)
EXTENDS Deployment, FiniteSetTheorems, TLAPS

(* The functions have their domains. *)
Shape ==
    /\ pc = [u \in User |-> pc[u]]
    /\ answer = [r \in Request |-> answer[r]]
    /\ effect = [r \in Request |-> effect[r]]

(* A request that has not ended has committed nothing: this is what makes  *)
(* it safe to answer it with an error at any moment before its COMMIT.     *)
OpenUncommitted == \A r \in Request : pc[r] # "idle" => ~ effect[r]

(* Nor has one been answered with an error that is still on its way.       *)
OpenUnfailed ==
    \A r \in Request : pc[r] \in {"waiting", "working", "returned"} => answer[r] # "error"

RequestsInv == Shape /\ OpenUncommitted /\ OpenUnfailed /\ FailureChangesNothing

-----------------------------------------------------------------------------
(* Requests. *)

LEMMA RequestsInit == Init => RequestsInv
  BY DEF Init, RequestsInv, Shape, OpenUncommitted, OpenUnfailed,
      FailureChangesNothing, User

(* What a step leaves alone. *)
LEMMA RequestsFrame ==
  ASSUME RequestsInv, UNCHANGED <<pc, answer, effect>>
  PROVE  RequestsInv'
  BY DEF RequestsInv, Shape, OpenUncommitted, OpenUnfailed,
      FailureChangesNothing

(* A unit of work raises, before or after it has used its tables. *)
LEMMA RaisesKeeps ==
  ASSUME RequestsInv, NEW u \in User, NEW locks, pc[u] # "idle", Raises(u, locks)
  PROVE  RequestsInv'
  BY LoopAssumption
  DEF RequestsInv, Shape, OpenUncommitted, OpenUnfailed,
      FailureChangesNothing, Raises, Answers, User

LEMMA StatementFailsKeeps ==
  ASSUME RequestsInv, NEW u \in User, pc[u] = "working", StatementFails(u)
  PROVE  RequestsInv'
<1>1. CASE Catches(u)
  BY <1>1
  DEF StatementFails, RequestsInv, Shape, OpenUncommitted, OpenUnfailed,
      FailureChangesNothing, User
<1>2. CASE ~ Catches(u)
  BY <1>2, RaisesKeeps DEF StatementFails
<1> QED
  BY <1>1, <1>2

(* The step of one unit of work. *)
LEMMA WorkKeeps ==
  ASSUME RequestsInv, NEW u \in User,
         Begin(u) \/ Checkout(u) \/ WorkStep(u) \/ WorkFault(u)
  PROVE  RequestsInv'
<1> USE DEF RequestsInv, Shape, OpenUncommitted, OpenUnfailed,
      FailureChangesNothing, User
<1>1. CASE Begin(u)
  BY <1>1 DEF Begin
<1>2. CASE Checkout(u)
  BY <1>2 DEF Checkout
<1>3. CASE UseTable(u)
  BY <1>3 DEF UseTable
<1>4. CASE NoTable(u)
  BY <1>4, StatementFailsKeeps DEF NoTable
<1>5. CASE Collected(u)
  BY <1>5 DEF Collected, Ends
<1>6. CASE Commit(u)
  BY <1>6 DEF Commit, Ends, Answers
<1>7. CASE CheckoutTimesOut(u)
  BY <1>7 DEF CheckoutTimesOut, Ends, Answers
<1>8. CASE StatementBreaks(u)
  BY <1>8, StatementFailsKeeps DEF StatementBreaks
<1>9. CASE CommitFails(u)
  <2>1. PICK applied \in {FALSE, used[u] > 0} :
              effect' = [r \in Request |-> IF r = u THEN applied ELSE effect[r]]
    BY <1>9 DEF CommitFails
  <2>2. \A r \in Request : r = u \/ effect'[r] = effect[r]
    BY <2>1
  <2>3. \A r \in Request : r = u => pc'[r] = "idle" /\ answer'[r] # "error"
    BY <1>9 DEF CommitFails, Ends
  <2>4. \A r \in Request : r # u => pc'[r] = pc[r] /\ answer'[r] = answer[r]
    BY <1>9 DEF CommitFails, Ends
  <2>5. Shape'
    BY <1>9, <2>1 DEF CommitFails, Ends
  <2> QED
    BY <2>2, <2>3, <2>4, <2>5
<1> QED
  BY <1>1, <1>2, <1>3, <1>4, <1>5, <1>6, <1>7, <1>8, <1>9 DEF WorkStep, WorkFault

LEMMA RequestKeeps ==
  ASSUME RequestsInv, NEW r \in Request,
         Refuse(r) \/ NotFound(r) \/ AnswersEarly(r)
  PROVE  RequestsInv'
<1>1. CASE Refuse(r)
  BY <1>1 DEF Refuse, RequestsInv, Shape, OpenUncommitted, OpenUnfailed,
      FailureChangesNothing
<1>2. CASE NotFound(r)
  BY <1>2, RaisesKeeps DEF NotFound, User
<1>3. CASE AnswersEarly(r)
  BY <1>3
  DEF AnswersEarly, Answers, RequestsInv, Shape, OpenUncommitted, OpenUnfailed,
      FailureChangesNothing
<1> QED
  BY <1>1, <1>2, <1>3

LEMMA LifespanKeeps ==
  ASSUME RequestsInv, Lifespan
  PROVE  RequestsInv'
<1>1. CASE Start \/ Stop \/ LoopAwaited
  BY <1>1, RequestsFrame DEF Start, Stop, LoopAwaited, work
<1>2. CASE CancelLoop \/ RollBackLoop
  BY <1>2, LoopAssumption
  DEF CancelLoop, RollBackLoop, Ends, RequestsInv, Shape, OpenUncommitted, OpenUnfailed,
      FailureChangesNothing, User
<1>3. CASE Dispose \/ Crash
  BY <1>3
  DEF Dispose, Crash, Gone, RequestsInv, Shape, OpenUncommitted, OpenUnfailed,
      FailureChangesNothing, User
<1> QED
  BY <1>1, <1>2, <1>3 DEF Lifespan

(* A migration fails a unit of work at most. *)
LEMMA MigrationKeeps ==
  ASSUME RequestsInv, NEW m \in Migrator,
         BeginUpgrade(m) \/ BeginDowngrade(m) \/ JobStep(m) \/ JobBreaks(m) \/ Deadlock(m)
  PROVE  RequestsInv'
<1>1. CASE BeginUpgrade(m) \/ BeginDowngrade(m)
  BY <1>1, RequestsFrame DEF BeginUpgrade, BeginDowngrade, work
<1>2. CASE CreateTable(m) \/ DropTable(m)
  BY <1>2, RequestsFrame DEF CreateTable, DropTable, work
<1>3. CASE CommitUpgrade(m) \/ CommitDowngrade(m)
  BY <1>3, RequestsFrame DEF CommitUpgrade, CommitDowngrade, work
<1>4. CASE JobOvertaken(m) \/ JobBreaks(m) \/ JobVictim(m)
  BY <1>4, RequestsFrame DEF JobOvertaken, JobBreaks, JobVictim, work
<1>5. ASSUME NEW u \in User, WorkVictim(u)
      PROVE  RequestsInv'
  BY <1>5, StatementFailsKeeps DEF WorkVictim, WorkWaits
<1> QED
  BY <1>1, <1>2, <1>3, <1>4, <1>5 DEF JobStep, Deadlock

(* The requests' invariant, whatever the service, its loop and the         *)
(* migrations do: get_session, require_api_key, the commits and the        *)
(* answers.                                                                *)
THEOREM RequestsInvariant == Spec => []RequestsInv
<1>1. RequestsInv /\ [Next]_vars => RequestsInv'
  <2> SUFFICES ASSUME RequestsInv, [Next]_vars
               PROVE  RequestsInv'
    OBVIOUS
  <2>1. CASE UNCHANGED vars
    BY <2>1, RequestsFrame DEF vars, work
  <2> QED
    BY <2>1, WorkKeeps, RequestKeeps, LifespanKeeps, MigrationKeeps DEF Next
<1> QED
  BY <1>1, RequestsInit, PTL DEF Spec

(* A request that fails before its COMMIT has changed nothing and never    *)
(* will, although its transaction is still open when the client hears of   *)
(* it, whoever ends it later and however.  Nothing is claimed of a request *)
(* whose COMMIT raises: a lost connection may hide that it was applied.    *)
THEOREM FailuresChangeNothing == Spec => []FailureChangesNothing
<1>1. RequestsInv => FailureChangesNothing
  BY DEF RequestsInv
<1> QED
  BY <1>1, RequestsInvariant, PTL

-----------------------------------------------------------------------------
(* The schema. *)

LEMMA StatementFailsSchema ==
  ASSUME NEW u, StatementFails(u)
  PROVE  UNCHANGED schema
  BY DEF StatementFails, Raises

(* Only the commit of a migration changes the tables. *)
LEMMA SchemaChanges ==
  ASSUME Next
  PROVE  UNCHANGED schema \/ \E m \in Migrator : CommitUpgrade(m) \/ CommitDowngrade(m)
<1>1. ASSUME NEW u \in User, Begin(u) \/ Checkout(u) \/ WorkStep(u) \/ WorkFault(u)
      PROVE  UNCHANGED schema
  BY <1>1, StatementFailsSchema
  DEF Begin, Checkout, WorkStep, UseTable, NoTable, Collected, Commit,
      WorkFault, CheckoutTimesOut, StatementBreaks, CommitFails
<1>2. ASSUME NEW r \in Request, Refuse(r) \/ NotFound(r) \/ AnswersEarly(r)
      PROVE  UNCHANGED schema
  BY <1>2 DEF Refuse, NotFound, Raises, AnswersEarly
<1>3. CASE Lifespan
  BY <1>3 DEF Lifespan, Start, Stop, CancelLoop, RollBackLoop, LoopAwaited, Dispose, Crash
<1>4. ASSUME NEW m \in Migrator,
             BeginUpgrade(m) \/ BeginDowngrade(m) \/ JobStep(m) \/ JobBreaks(m) \/ Deadlock(m)
      PROVE  UNCHANGED schema \/ CommitUpgrade(m) \/ CommitDowngrade(m)
  BY <1>4, StatementFailsSchema
  DEF BeginUpgrade, BeginDowngrade, JobStep, CreateTable, DropTable, JobOvertaken,
      JobBreaks, Deadlock, JobVictim, WorkVictim, schema
<1> QED
  BY <1>1, <1>2, <1>3, <1>4 DEF Next

(* The tables and the version row come and go together, however many       *)
(* migrations overlap, fail or are interrupted: env.py runs each in one    *)
(* transaction.                                                            *)
THEOREM SchemaStaysWhole == Spec => []SchemaWhole
<1>1. Init => SchemaWhole
  BY DEF Init, SchemaWhole
<1>2. SchemaWhole /\ [Next]_vars => SchemaWhole'
  <2> SUFFICES ASSUME SchemaWhole, [Next]_vars
               PROVE  SchemaWhole'
    OBVIOUS
  <2>1. CASE UNCHANGED schema
    BY <2>1 DEF SchemaWhole, schema
  <2>2. ASSUME NEW m \in Migrator, CommitUpgrade(m)
        PROVE  SchemaWhole'
    BY <2>2 DEF SchemaWhole, CommitUpgrade
  <2>3. ASSUME NEW m \in Migrator, CommitDowngrade(m)
        PROVE  SchemaWhole'
    BY <2>3 DEF SchemaWhole, CommitDowngrade
  <2> QED
    BY <2>1, <2>2, <2>3, SchemaChanges DEF vars
<1> QED
  BY <1>1, <1>2, PTL DEF Spec

-----------------------------------------------------------------------------
(* Types, and the limit of the pool. *)

Place == {"idle", "waiting", "working", "returned", "orphan", "cancelled", "ended"}

(* What each unit of work has of the pool and of its route.                *)
Progress(u) ==
    /\ used[u] \in 0..Len(Route[kind[u]])
    /\ pc[u] \in {"idle", "ended", "waiting"} => held[u] = 0 /\ used[u] = 0
    /\ pc[u] = "working" => used[u] < Len(Route[kind[u]])

WorkTyped ==
    /\ pc \in [User -> Place]
    /\ kind \in [User -> Kind]
    /\ held \in [User -> 0..PoolSize]
    /\ used \in [User -> Nat]
    /\ \A u \in User : Progress(u)

(* The connections that are out are never more than the pool has.          *)
PoolKept == IsFiniteSet(Connections) /\ Total <= PoolSize

AnswersTyped ==
    /\ answer \in [Request -> {"none", "ok", "error", "unclear"}]
    /\ effect \in [Request -> BOOLEAN]

JobsTyped ==
    /\ job \in [Migrator -> {"idle", "upgrade", "downgrade"}]
    /\ steps \in [Migrator -> Nat]
    /\ \A m \in Migrator : steps[m] <= Len(IF job[m] = "downgrade" THEN Drop ELSE Create)
    /\ \A m \in Migrator : job[m] = "idle" => steps[m] = 0

AppTyped == app \in {"down", "serving", "stopping", "awaiting", "stopped"}

DeploymentInv == AppTyped /\ WorkTyped /\ PoolKept /\ AnswersTyped /\ JobsTyped

LEMMA RouteLength == \A k \in Kind : Len(Route[k]) \in Nat \ {0}
<1> SUFFICES ASSUME NEW k \in Kind PROVE Len(Route[k]) \in Nat \ {0}
  OBVIOUS
<1>1. Route[k] \in Seq(Table) /\ Route[k] # <<>>
  BY RouteAssumption
<1> QED
  BY <1>1

LEMMA ScriptLength == Len(Create) \in Nat /\ Len(Drop) \in Nat
  BY TablesAssumption

LEMMA AnyKindType == AnyKind \in Kind
<1>1. \E k \in Cycle : TRUE
  BY CycleAssumption
<1> QED
  BY <1>1, CycleAssumption DEF AnyKind

(* Connections are only given back: the pool is kept.                      *)
LEMMA GivenBack ==
  ASSUME WorkTyped, PoolKept, \A u \in User : held'[u] \in {0, held[u]}
  PROVE  PoolKept'
<1>1. Connections' \subseteq Connections
  <2> SUFFICES ASSUME NEW u \in User, NEW n \in 1..PoolSize, n <= held'[u]
               PROVE  n <= held[u]
    BY DEF Connections
  <2>1. held'[u] # 0
    BY PoolAssumption
  <2> QED
    BY <2>1
<1>2. IsFiniteSet(Connections') /\ Cardinality(Connections') <= Cardinality(Connections)
  BY <1>1, FS_Subset DEF PoolKept
<1>3. Cardinality(Connections') \in Nat /\ Cardinality(Connections) \in Nat
  BY <1>2, FS_CardinalityType DEF PoolKept
<1> QED
  BY <1>2, <1>3, PoolAssumption DEF PoolKept, Total

(* A connection is taken when one is left.                                 *)
LEMMA TakenFromPool ==
  ASSUME WorkTyped, PoolKept, NEW u \in User, Checkout(u)
  PROVE  PoolKept'
<1>1. held[u] = 0 /\ held' = [held EXCEPT ![u] = 1]
  <2>1. pc[u] = "waiting" /\ held' = [held EXCEPT ![u] = held[u] + 1]
    BY DEF Checkout
  <2>2. held[u] = 0
    BY <2>1 DEF WorkTyped, Progress
  <2>3. held[u] + 1 = 1
    BY <2>2
  <2> QED
    BY <2>1, <2>2, <2>3
<1>2. Connections' = Connections \cup {<<u, 1>>}
  <2>1. ASSUME NEW x \in Connections'
        PROVE  x \in Connections \cup {<<u, 1>>}
    <3>1. x \in User \X (1..PoolSize) /\ x[2] <= held'[x[1]]
      BY DEF Connections
    <3>2. CASE x[1] = u
      <4>1. x[2] = 1
        BY <1>1, <3>1, <3>2, PoolAssumption DEF WorkTyped
      <4> QED
        BY <3>1, <3>2, <4>1
    <3>3. CASE x[1] # u
      BY <1>1, <3>1, <3>3 DEF WorkTyped, Connections
    <3> QED
      BY <3>2, <3>3
  <2>2. ASSUME NEW x \in Connections
        PROVE  x \in Connections'
    <3>1. x \in User \X (1..PoolSize) /\ x[2] <= held[x[1]]
      BY DEF Connections
    <3>2. x[1] # u
      BY <1>1, <3>1, PoolAssumption
    <3> QED
      BY <1>1, <3>1, <3>2 DEF WorkTyped, Connections
  <2>3. <<u, 1>> \in Connections'
    BY <1>1, PoolAssumption DEF WorkTyped, Connections
  <2> QED
    BY <2>1, <2>2, <2>3
<1>3. <<u, 1>> \notin Connections
  BY <1>1 DEF Connections
<1>4. /\ IsFiniteSet(Connections')
      /\ Cardinality(Connections') = Cardinality(Connections) + 1
  <2>1. IsFiniteSet(Connections)
    BY DEF PoolKept
  <2>2. /\ IsFiniteSet(Connections \cup {<<u, 1>>})
        /\ Cardinality(Connections \cup {<<u, 1>>}) = Cardinality(Connections) + 1
    BY <1>3, <2>1, FS_AddElement
  <2> QED
    BY <1>2, <2>2
<1>5. Cardinality(Connections) \in Nat /\ Cardinality(Connections) < PoolSize
  BY FS_CardinalityType DEF PoolKept, Checkout, Total
<1> QED
  BY <1>4, <1>5, PoolAssumption DEF PoolKept, Total

LEMMA PoolFrame ==
  ASSUME PoolKept, held' = held
  PROVE  PoolKept'
<1>1. Connections' = Connections
  BY DEF Connections
<1> QED
  BY <1>1 DEF PoolKept, Total

(* A unit of work that does not move keeps its part.                       *)
LEMMA ProgressFrame ==
  ASSUME NEW x \in User, Progress(x),
         pc'[x] = pc[x], kind'[x] = kind[x], held'[x] = held[x], used'[x] = used[x]
  PROVE  Progress(x)'
  BY DEF Progress

(* It ends.                                                                *)
LEMMA EndsKeeps ==
  ASSUME WorkTyped, PoolKept, NEW u \in User, NEW state \in {"idle", "ended"},
         Ends(u, state), kind' = kind
  PROVE  WorkTyped' /\ PoolKept'
<1> USE DEF WorkTyped, Ends, Place
<1>1. /\ pc' \in [User -> Place]
      /\ held' \in [User -> 0..PoolSize] /\ used' \in [User -> Nat]
  BY PoolAssumption
<1>2. Progress(u)'
  <2>1. held'[u] = 0 /\ used'[u] = 0 /\ pc'[u] = state
    OBVIOUS
  <2>2. Len(Route[kind[u]]) \in Nat
    BY RouteLength
  <2> QED
    BY <2>1, <2>2 DEF Progress
<1>3. \A x \in User \ {u} : Progress(x)'
  BY ProgressFrame
<1>4. \A x \in User : held'[x] \in {0, held[x]}
  OBVIOUS
<1> QED
  BY <1>1, <1>2, <1>3, <1>4, GivenBack

(* It raises, or its statement fails: a request keeps its connection until *)
(* it is collected.                                                        *)
LEMMA RaisesTyped ==
  ASSUME WorkTyped, PoolKept, AnswersTyped, NEW u \in User,
         NEW locks \in 0..Len(Route[kind[u]]), Raises(u, locks)
  PROVE  WorkTyped' /\ PoolKept' /\ AnswersTyped'
<1> USE DEF WorkTyped, Raises, Place
<1>1. Len(Route[kind[u]]) \in Nat
  BY RouteLength
<1>2. /\ pc' \in [User -> Place]
      /\ held' \in [User -> 0..PoolSize] /\ used' \in [User -> Nat]
      /\ kind' = kind
  BY <1>1, PoolAssumption
<1>3. Progress(u)'
  BY <1>1, <1>2 DEF Progress
<1>4. \A x \in User \ {u} : Progress(x)'
  BY ProgressFrame
<1>5. \A x \in User : held'[x] \in {0, held[x]}
  OBVIOUS
<1>6. AnswersTyped'
  BY DEF AnswersTyped, Answers
<1> QED
  BY <1>2, <1>3, <1>4, <1>5, <1>6, GivenBack

LEMMA StatementFailsTyped ==
  ASSUME WorkTyped, PoolKept, AnswersTyped, NEW u \in User, StatementFails(u),
         pc[u] = "working"
  PROVE  WorkTyped' /\ PoolKept' /\ AnswersTyped'
<1>1. Len(Route[kind[u]]) \in Nat
  BY RouteLength DEF WorkTyped
<1>2. CASE ~ Catches(u)
  BY <1>1, <1>2, RaisesTyped DEF StatementFails
<1>3. CASE Catches(u)
  <2> USE <1>3 DEF WorkTyped, StatementFails, Place
  <2>1. Progress(u)'
    BY <1>1 DEF Progress
  <2>2. \A x \in User \ {u} : Progress(x)'
    BY ProgressFrame
  <2> QED
    BY <2>1, <2>2, PoolFrame DEF AnswersTyped
<1> QED
  BY <1>2, <1>3

(* Every step of a unit of work keeps the types and the pool.              *)
LEMMA UnitTyped ==
  ASSUME WorkTyped, PoolKept, AnswersTyped, NEW u \in User,
         Begin(u) \/ Checkout(u) \/ WorkStep(u) \/ WorkFault(u)
  PROVE  WorkTyped' /\ PoolKept' /\ AnswersTyped'
<1> USE DEF Place
<1>1. CASE Begin(u)
  <2>1. /\ \E k \in Kind : kind' = [kind EXCEPT ![u] = k]
        /\ held' = held /\ used' = used /\ pc[u] = "idle"
        /\ pc' = [pc EXCEPT ![u] = "waiting"]
    BY <1>1, CycleAssumption DEF Begin
  <2>2. kind' \in [User -> Kind] /\ \A x \in User \ {u} : kind'[x] = kind[x]
    BY <2>1 DEF WorkTyped
  <2>3. Progress(u)'
    <3>1. held[u] = 0 /\ used[u] = 0
      BY <2>1 DEF WorkTyped, Progress
    <3>2. Len(Route[kind'[u]]) \in Nat
      BY <2>2, RouteLength
    <3> QED
      BY <2>1, <3>1, <3>2 DEF WorkTyped, Progress
  <2>4. \A x \in User \ {u} : Progress(x)'
    BY <2>1, <2>2, ProgressFrame DEF WorkTyped
  <2>5. AnswersTyped'
    BY <1>1 DEF Begin, AnswersTyped
  <2> QED
    BY <2>1, <2>2, <2>3, <2>4, <2>5, PoolFrame DEF WorkTyped
<1>2. CASE Checkout(u)
  <2>1. pc[u] = "waiting" /\ used' = used /\ kind' = kind /\ UNCHANGED <<answer, effect>>
    BY <1>2 DEF Checkout
  <2>2. held[u] = 0 /\ used[u] = 0
    BY <2>1 DEF WorkTyped, Progress
  <2>3. held' = [held EXCEPT ![u] = 1] /\ pc' = [pc EXCEPT ![u] = "working"]
    <3>1. held' = [held EXCEPT ![u] = held[u] + 1]
      BY <1>2 DEF Checkout
    <3>2. held'[u] = 1
      BY <2>2, <3>1 DEF WorkTyped
    <3> QED
      BY <1>2, <2>2, <3>1, <3>2 DEF Checkout, Sessions
  <2>4. Progress(u)'
    <3>1. Len(Route[kind[u]]) \in Nat \ {0}
      BY RouteLength DEF WorkTyped
    <3> QED
      BY <2>1, <2>2, <2>3, <3>1 DEF WorkTyped, Progress
  <2>5. \A x \in User \ {u} : Progress(x)'
    BY <2>1, <2>3, ProgressFrame DEF WorkTyped
  <2>6. held' \in [User -> 0..PoolSize]
    BY <2>3, PoolAssumption DEF WorkTyped
  <2>7. PoolKept'
    BY <1>2, TakenFromPool
  <2> QED
    BY <2>1, <2>3, <2>4, <2>5, <2>6, <2>7 DEF WorkTyped, AnswersTyped
<1>3. CASE UseTable(u)
  <2>1. /\ pc[u] = "working" /\ held' = held /\ kind' = kind /\ UNCHANGED <<answer, effect>>
        /\ used[u] < Len(Route[kind[u]])
        /\ used' = [used EXCEPT ![u] = used[u] + 1]
        /\ pc' = [pc EXCEPT ![u] = IF used'[u] = Len(Route[kind[u]]) THEN "returned"
                                                                     ELSE "working"]
    BY <1>3 DEF UseTable
  <2>2. Progress(u)'
    <3>1. Len(Route[kind[u]]) \in Nat /\ used[u] \in Nat
      BY RouteLength DEF WorkTyped
    <3>2. used'[u] = used[u] + 1
      BY <2>1 DEF WorkTyped
    <3> QED
      BY <2>1, <3>1, <3>2 DEF WorkTyped, Progress
  <2>3. \A x \in User \ {u} : Progress(x)'
    BY <2>1, ProgressFrame DEF WorkTyped
  <2> QED
    BY <2>1, <2>2, <2>3, PoolFrame DEF WorkTyped, AnswersTyped
<1>4. CASE NoTable(u) \/ StatementBreaks(u)
  BY <1>4, StatementFailsTyped DEF NoTable, StatementBreaks
<1>5. CASE Collected(u) \/ Commit(u) \/ CommitFails(u) \/ CheckoutTimesOut(u)
  <2>1. Ends(u, "idle") /\ kind' = kind
    BY <1>5 DEF Collected, Commit, CommitFails, CheckoutTimesOut
  <2>2. AnswersTyped'
    <3>1. (used[u] > 0) \in BOOLEAN
      OBVIOUS
    <3> QED
      BY <1>5, <3>1 DEF Collected, Commit, CommitFails, CheckoutTimesOut, Answers, AnswersTyped
  <2> QED
    BY <2>1, <2>2, EndsKeeps
<1> QED
  BY <1>1, <1>2, <1>3, <1>4, <1>5 DEF WorkStep, WorkFault

(* Work that does not move keeps its part.                                 *)
LEMMA WorkFrame ==
  ASSUME WorkTyped, PoolKept, UNCHANGED <<pc, kind, held, used>>
  PROVE  WorkTyped' /\ PoolKept'
  BY ProgressFrame, PoolFrame DEF WorkTyped

LEMMA RequestTyped ==
  ASSUME WorkTyped, PoolKept, AnswersTyped, NEW r \in Request,
         Refuse(r) \/ NotFound(r) \/ AnswersEarly(r)
  PROVE  WorkTyped' /\ PoolKept' /\ AnswersTyped'
<1>1. CASE Refuse(r) \/ AnswersEarly(r)
  BY <1>1, WorkFrame DEF Refuse, AnswersEarly, Answers, AnswersTyped
<1>2. CASE NotFound(r)
  <2>1. pc[r] = "working" /\ Raises(r, used[r] + 1) /\ r \in User
    BY <1>2 DEF NotFound, User
  <2>2. used[r] + 1 \in 0..Len(Route[kind[r]])
    BY <2>1, RouteLength DEF WorkTyped, Progress
  <2>3. PICK locks \in 0..Len(Route[kind[r]]) : locks = used[r] + 1
    BY <2>2
  <2> QED
    BY <2>1, <2>3, RaisesTyped
<1> QED
  BY <1>1, <1>2

LEMMA LifespanTyped ==
  ASSUME AppTyped, WorkTyped, PoolKept, AnswersTyped,
         Lifespan
  PROVE  AppTyped' /\ WorkTyped' /\ PoolKept' /\ AnswersTyped'
<1> USE DEF Lifespan
<1>1. AppTyped'
  BY DEF Start, Stop, CancelLoop, RollBackLoop, LoopAwaited, Dispose, Crash, AppTyped
<1>2. AnswersTyped'
  BY DEF Start, Stop, CancelLoop, RollBackLoop, LoopAwaited, Dispose, Crash, AnswersTyped, work
<1>3. CASE Start \/ Stop \/ LoopAwaited
  BY <1>1, <1>2, <1>3, WorkFrame DEF Start, Stop, LoopAwaited, work
<1>4. CASE RollBackLoop
  BY <1>1, <1>2, <1>4, EndsKeeps DEF RollBackLoop, User
<1>6. CASE CancelLoop
  <2>1. pc' = [pc EXCEPT ![Loop] = "cancelled"] /\ UNCHANGED <<kind, held, used>>
    BY <1>6 DEF CancelLoop
  <2>2. Progress(Loop)'
    BY <2>1 DEF WorkTyped, Progress, User
  <2>3. \A x \in User \ {Loop} : Progress(x)'
    BY <2>1, ProgressFrame DEF WorkTyped
  <2>4. pc' \in [User -> Place]
    BY <2>1 DEF WorkTyped, Place
  <2> QED
    BY <1>1, <1>2, <2>1, <2>2, <2>3, <2>4, PoolFrame DEF WorkTyped
<1>5. CASE Dispose \/ Crash
  <2>1. Gone /\ kind' = kind
    BY <1>5 DEF Dispose, Crash
  <2>2. \A u \in User : pc'[u] = "idle" /\ held'[u] = 0 /\ used'[u] = 0
    BY <2>1 DEF Gone
  <2>3. \A u \in User : Progress(u)'
    BY <2>1, <2>2, RouteLength DEF Progress, WorkTyped
  <2>4. PoolKept'
    BY <2>2, GivenBack
  <2> QED
    BY <1>1, <1>2, <2>1, <2>3, <2>4, PoolAssumption DEF Gone, WorkTyped, Place
<1> QED
  BY <1>3, <1>4, <1>5, <1>6

(* A migration counts the statements of its script.                        *)
LEMMA JobTyped ==
  ASSUME JobsTyped, NEW m \in Migrator,
         BeginUpgrade(m) \/ BeginDowngrade(m) \/ JobStep(m) \/ JobBreaks(m) \/ JobVictim(m)
  PROVE  JobsTyped'
<1> USE ScriptLength DEF JobsTyped
<1>1. CASE BeginUpgrade(m) \/ BeginDowngrade(m)
  BY <1>1 DEF BeginUpgrade, BeginDowngrade
<1>2. CASE CreateTable(m)
  BY <1>2 DEF CreateTable
<1>3. CASE DropTable(m)
  BY <1>3 DEF DropTable
<1>4. CASE JobOver(m)
  BY <1>4 DEF JobOver
<1> QED
  BY <1>1, <1>2, <1>3, <1>4
  DEF JobStep, CommitUpgrade, CommitDowngrade, JobOvertaken, JobBreaks, JobVictim

(* Units of work do not touch migrations or the process.                   *)
LEMMA WorkIsLocal ==
  ASSUME \/ \E u \in User : \/ Begin(u) \/ Checkout(u) \/ WorkStep(u) \/ WorkFault(u)
                           \/ StatementFails(u)
         \/ \E r \in Request : Refuse(r) \/ NotFound(r) \/ AnswersEarly(r)
  PROVE  UNCHANGED <<app, migration>>
<1>1. ASSUME NEW u, StatementFails(u)
      PROVE  UNCHANGED <<app, migration>>
  BY <1>1 DEF StatementFails, Raises
<1> QED
  BY <1>1
  DEF Begin, Checkout, WorkStep, UseTable, NoTable, Collected, Commit, WorkFault,
      CheckoutTimesOut, StatementBreaks, CommitFails, Refuse, NotFound, Raises, AnswersEarly

LEMMA DeploymentStep == DeploymentInv /\ [Next]_vars => DeploymentInv'
<1> SUFFICES ASSUME DeploymentInv, [Next]_vars PROVE DeploymentInv'
  OBVIOUS
<1> USE DEF DeploymentInv
<1>1. CASE UNCHANGED <<app, migration>>
  <2>1. AppTyped' /\ JobsTyped'
    BY <1>1 DEF AppTyped, JobsTyped, migration
  <2>2. CASE UNCHANGED work
    BY <2>1, <2>2, WorkFrame DEF work, AnswersTyped
  <2>3. ASSUME NEW u \in User,
               \/ Begin(u) \/ Checkout(u) \/ WorkStep(u) \/ WorkFault(u) \/ WorkVictim(u)
        PROVE  DeploymentInv'
    BY <2>1, <2>3, UnitTyped, StatementFailsTyped DEF WorkVictim, WorkWaits
  <2>4. ASSUME NEW r \in Request, Refuse(r) \/ NotFound(r) \/ AnswersEarly(r)
        PROVE  DeploymentInv'
    BY <2>1, <2>4, RequestTyped
  <2>5. CASE Lifespan
    BY <2>1, <2>5, LifespanTyped
  <2>6. ASSUME NEW m \in Migrator,
               BeginUpgrade(m) \/ BeginDowngrade(m) \/ JobStep(m) \/ JobBreaks(m) \/ JobVictim(m)
        PROVE  UNCHANGED work
    BY <2>6
    DEF BeginUpgrade, BeginDowngrade, JobStep, CreateTable, DropTable, CommitUpgrade,
        CommitDowngrade, JobOvertaken, JobBreaks, JobVictim
  <2> QED
    BY <2>2, <2>3, <2>4, <2>5, <2>6 DEF Next, Deadlock, vars
<1>2. CASE Lifespan
  <2>1. JobsTyped'
    BY <1>2 DEF Lifespan, Start, Stop, CancelLoop, RollBackLoop, LoopAwaited, Dispose, Crash,
                migration, JobsTyped
  <2> QED
    BY <1>2, <2>1, LifespanTyped
<1>3. ASSUME NEW m \in Migrator,
             BeginUpgrade(m) \/ BeginDowngrade(m) \/ JobStep(m) \/ JobBreaks(m) \/ JobVictim(m)
      PROVE  DeploymentInv'
  <2>1. UNCHANGED <<app, work>>
    BY <1>3
    DEF BeginUpgrade, BeginDowngrade, JobStep, CreateTable, DropTable, CommitUpgrade,
        CommitDowngrade, JobOvertaken, JobBreaks, JobVictim
  <2> QED
    BY <1>3, <2>1, JobTyped, WorkFrame DEF AppTyped, AnswersTyped, work
<1>4. ASSUME NEW u \in User, WorkVictim(u)
      PROVE  UNCHANGED <<app, migration>>
  BY <1>4, WorkIsLocal DEF WorkVictim
<1> QED
  BY <1>1, <1>2, <1>3, <1>4, WorkIsLocal DEF Next, Deadlock, vars

LEMMA DeploymentInit == Init => DeploymentInv
<1> SUFFICES ASSUME Init PROVE DeploymentInv
  OBVIOUS
<1> USE DEF Init
<1>1. Connections = {}
  BY DEF Connections
<1>2. PoolKept
  BY <1>1, FS_EmptySet, PoolAssumption DEF PoolKept, Total
<1>3. WorkTyped
  BY AnyKindType, RouteLength, PoolAssumption DEF WorkTyped, Progress, Place
<1> QED
  BY <1>2, <1>3, ScriptLength DEF DeploymentInv, AppTyped, AnswersTyped, JobsTyped

(* The pool never lends more than it has, a unit of work never uses more   *)
(* tables than its route names and holds nothing when it has ended, and a  *)
(* migration never runs past its script, for any number of requests, which *)
(* need not be finite, and of migrators.                                   *)
THEOREM DeploymentTyped == Spec => []TypeOK
<1>1. Init => version \in BOOLEAN
  BY DEF Init
<1>2. version \in BOOLEAN /\ [Next]_vars => (version \in BOOLEAN)'
  BY SchemaChanges DEF schema, vars, CommitUpgrade, CommitDowngrade
<1>3. DeploymentInv /\ SchemaWhole /\ version \in BOOLEAN => TypeOK
  BY DEF DeploymentInv, AppTyped, WorkTyped, Progress, PoolKept, AnswersTyped, JobsTyped,
         SchemaWhole, TypeOK, Place
<1> QED
  BY <1>1, <1>2, <1>3, DeploymentInit, DeploymentStep, SchemaStaysWhole, PTL DEF Spec

-----------------------------------------------------------------------------
(* The end of the lifespan. *)

(* Once the loop is cancelled no request comes in, and its task never      *)
(* begins another cycle.                                                   *)
Closing ==
    /\ app \in {"awaiting", "stopped"} =>
          /\ \A r \in Request : pc[r] \in {"idle", "orphan"}
          /\ pc[Loop] \in {"cancelled", "ended"}
    /\ app = "stopped" => pc[Loop] = "ended"

LEMMA ClosingFrame ==
  ASSUME Closing, UNCHANGED <<app, pc>>
  PROVE  Closing'
  BY DEF Closing

(* A unit of work that is under way is not there while the service closes. *)
LEMMA NobodyWorks ==
  ASSUME Closing, NEW u \in User, pc[u] \in {"waiting", "working", "returned"}
  PROVE  app \notin {"awaiting", "stopped"}
  BY DEF Closing, User

LEMMA ClosingStep ==
  ASSUME WorkTyped, Closing, Next
  PROVE  Closing'
<1>1. ASSUME NEW u \in User, Begin(u)
      PROVE  Closing'
  BY <1>1 DEF Begin, Serving, Closing
<1>2. ASSUME NEW u \in User,
             Checkout(u) \/ UseTable(u) \/ Commit(u) \/ CheckoutTimesOut(u) \/ CommitFails(u)
      PROVE  Closing'
  BY <1>2, NobodyWorks
  DEF Checkout, UseTable, Commit, CheckoutTimesOut, CommitFails, Closing
<1>3. ASSUME NEW u \in User, StatementFails(u), pc[u] = "working"
      PROVE  Closing'
  BY <1>3, NobodyWorks DEF StatementFails, Raises, Closing
<1>4. ASSUME NEW u \in User, Collected(u)
      PROVE  Closing'
  BY <1>4 DEF Collected, Ends, Closing, WorkTyped, User
<1>5. ASSUME NEW r \in Request, Refuse(r) \/ NotFound(r) \/ AnswersEarly(r)
      PROVE  Closing'
  BY <1>5, NobodyWorks DEF Refuse, NotFound, Raises, AnswersEarly, Closing, User
<1>6. CASE Lifespan
  <2>1. CASE CancelLoop
    BY <2>1, LoopAssumption DEF CancelLoop, Closing, WorkTyped, User
  <2>2. CASE RollBackLoop
    BY <2>2, LoopAssumption DEF RollBackLoop, Ends, Closing, WorkTyped, User
  <2> QED
    BY <1>6, <2>1, <2>2 DEF Lifespan, Start, Stop, LoopAwaited, Dispose, Crash, work, Closing
<1>7. ASSUME NEW m \in Migrator,
             BeginUpgrade(m) \/ BeginDowngrade(m) \/ JobStep(m) \/ JobBreaks(m) \/ JobVictim(m)
      PROVE  Closing'
  BY <1>7, ClosingFrame
  DEF BeginUpgrade, BeginDowngrade, JobStep, CreateTable, DropTable, CommitUpgrade,
      CommitDowngrade, JobOvertaken, JobBreaks, JobVictim, work
<1> QED
  BY <1>1, <1>2, <1>3, <1>4, <1>5, <1>6, <1>7
  DEF Next, WorkStep, NoTable, WorkFault, StatementBreaks, Deadlock, WorkVictim, WorkWaits

(* dispose_engine runs when no cycle and no request holds one of the       *)
(* engine's connections: the loop, wherever its task was cancelled, has    *)
(* rolled back and given its connection to the pool, for any number of     *)
(* requests, any routes and any pool.                                      *)
THEOREM EngineUnused == Spec => []DisposedUnused
<1>1. Init => Closing
  BY DEF Init, Closing
<1>2. DeploymentInv /\ Closing /\ [Next]_vars => Closing'
  BY ClosingFrame, ClosingStep DEF DeploymentInv, vars, work
<1>3. DeploymentInv /\ Closing => DisposedUnused
  BY DEF DeploymentInv, WorkTyped, Progress, Closing, DisposedUnused, User
<1> QED
  BY <1>1, <1>2, <1>3, DeploymentInit, DeploymentStep, PTL DEF Spec

=============================================================================
