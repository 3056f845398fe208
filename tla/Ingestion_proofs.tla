-------------------------- MODULE Ingestion_proofs --------------------------
(***************************************************************************)
(* Proofs about Ingestion, for every set of locations, labels and          *)
(* ingesters, and any number of cycles.                                    *)
(***************************************************************************)
EXTENDS Ingestion, FiniteSetTheorems, FunctionTheorems, TLAPS

(* An open transaction has a stamp the clock has reached, an idle session  *)
(* has nothing, and one whose transaction is aborted holds no key.         *)
Standing(i) ==
    /\ phase[i] = "idle" => began[i] = 0 /\ held[i] = {} /\ fetched[i] = {}
    /\ phase[i] # "idle" => began[i] \in 1..clock
    /\ doomed[i] => held[i] = {}

(* A cycle visits a location once, for one observation: what it holds,     *)
(* what it is inserting and what it has still to visit are about different *)
(* locations.                                                              *)
OnceEach(i) ==
    /\ \A o, p \in fetched[i] : o = p
    /\ \A o, p \in held[i] \cup fetched[i] : o[1] = p[1] => o = p
    /\ \A o \in held[i] \cup fetched[i] : o[1] \notin queue[i]
    /\ held[i] \cap fetched[i] = {}

(* The stamp of a transaction is nobody else's, and its keys are nobody    *)
(* else's either: the unique index makes the others wait.                  *)
Apart(i, j) ==
    i # j =>
        /\ began[i] # 0 => began[i] # began[j]
        /\ held[i] \cap held[j] = {}

(* What a transaction will commit is not in the table yet. *)
Fresh(i) ==
    /\ held[i] \cap Keys(rows) = {}
    /\ \A r \in rows : r.at # began[i]

ClockAhead == \A r \in rows : r.at <= clock

(* The inductive invariant. *)
IngestionInv ==
    /\ TypeOK
    /\ ClockAhead
    /\ OneRowPerKey
    /\ OneRowPerStamp
    /\ \A i \in Ingester : Standing(i) /\ OnceEach(i) /\ Fresh(i)
    /\ \A i, j \in Ingester : Apart(i, j)
-----------------------------------------------------------------------------
(* Lemmas. *)

(* fetch_current returns at most one observation, so the count that an     *)
(* INSERT reports is a natural number.                                     *)
LEMMA RowCountType ==
    ASSUME NEW i \in Ingester, OnceEach(i)
    PROVE  RowCount(i) \in Nat
<1>1. CASE NewKeys(i) = {}
  BY <1>1, FS_EmptySet DEF RowCount
<1>2. CASE NewKeys(i) # {}
  <2>1. PICK o \in NewKeys(i) : TRUE
    BY <1>2
  <2>2. NewKeys(i) = {o}
    BY <2>1 DEF NewKeys, OnceEach
  <2> QED
    BY <2>2, FS_Singleton DEF RowCount
<1> QED
  BY <1>1, <1>2

(* The session of an ingester stands still. *)
Still(i) ==
    /\ phase'[i] = phase[i] /\ began'[i] = began[i] /\ queue'[i] = queue[i]
    /\ fetched'[i] = fetched[i] /\ held'[i] = held[i] /\ doomed'[i] = doomed[i]

(* A step of one session, which adds no row, leaves the invariant to be    *)
(* shown of that session alone.                                            *)
LEMMA SessionMoves ==
    ASSUME IngestionInv, TypeOK', NEW i \in Ingester,
           rows' = rows, clock <= clock',
           \A j \in Ingester \ {i} : Still(j),
           Standing(i)', OnceEach(i)', Fresh(i)',
           \A j \in Ingester : Apart(i, j)' /\ Apart(j, i)'
    PROVE  IngestionInv'
<1>1. ClockAhead' /\ OneRowPerKey' /\ OneRowPerStamp'
  BY DEF IngestionInv, TypeOK, ClockAhead, OneRowPerKey, OneRowPerStamp, Row, Time
<1>2. ASSUME NEW j \in Ingester PROVE Standing(j)' /\ OnceEach(j)' /\ Fresh(j)'
  <2>1. CASE j = i
    BY <2>1
  <2>2. CASE j # i
    BY <2>2 DEF IngestionInv, TypeOK, Still, Standing, OnceEach, Fresh, Keys
  <2> QED
    BY <2>1, <2>2
<1>3. ASSUME NEW j \in Ingester, NEW k \in Ingester PROVE Apart(j, k)'
  <2>1. CASE j = i \/ k = i
    BY <2>1
  <2>2. CASE j # i /\ k # i
    BY <2>2 DEF IngestionInv, Still, Apart
  <2> QED
    BY <2>1, <2>2
<1> QED
  BY <1>1, <1>2, <1>3 DEF IngestionInv

(* What a session has after it is closed, and what it leaves alone. *)
LEMMA SessionCloses ==
    ASSUME IngestionInv, NEW i \in Ingester, Close(i)
    PROVE  /\ \A j \in Ingester \ {i} : Still(j)
           /\ phase'[i] = "idle" /\ began'[i] = 0
           /\ held'[i] = {} /\ fetched'[i] = {}
           /\ doomed'[i] = FALSE /\ clock' = clock
BY DEF IngestionInv, TypeOK, Close, Still

-----------------------------------------------------------------------------
(* The steps of a session. *)

(* A new transaction gets a stamp the clock had not reached. *)
LEMMA BeginKeepsInvariant ==
    ASSUME IngestionInv, NEW i \in Ingester, Begin(i)
    PROVE  IngestionInv'
<1>1. TypeOK'
  BY MaxClockAssumption DEF IngestionInv, TypeOK, Begin
<1>2. /\ rows' = rows /\ clock' = clock + 1 /\ clock \in Nat
      /\ \A j \in Ingester \ {i} : Still(j)
      /\ phase'[i] = "fetching" /\ began'[i] = clock + 1
      /\ held'[i] = {} /\ fetched'[i] = {} /\ doomed'[i] = doomed[i]
  BY MaxClockAssumption DEF IngestionInv, TypeOK, Begin, Standing, Still
<1>3. Standing(i)' /\ OnceEach(i)'
  BY <1>2 DEF Standing, OnceEach
<1>4. Fresh(i)'
  BY <1>2 DEF IngestionInv, ClockAhead, Fresh, TypeOK, Row, Time
<1>5. ASSUME NEW j \in Ingester PROVE Apart(i, j)' /\ Apart(j, i)'
  <2>1. j # i => began'[j] \in Nat /\ began'[j] <= clock
    BY <1>2, MaxClockAssumption DEF IngestionInv, TypeOK, Standing, Still
  <2> QED
    BY <1>2, <2>1 DEF Apart
<1> QED
  BY <1>1, <1>2, <1>3, <1>4, <1>5, SessionMoves

(* The outcomes of fetch_current: the visited location leaves the queue. *)
LEMMA FetchKeepsInvariant ==
    ASSUME IngestionInv, NEW i \in Ingester, NEW l \in Location,
           FetchOne(i, l) \/ FetchNone(i, l) \/ FetchRaises(i, l)
    PROVE  IngestionInv'
<1>1. TypeOK'
  BY DEF IngestionInv, TypeOK, FetchOne, FetchNone, FetchRaises, Visit, Obs
<1>2. /\ rows' = rows /\ clock' = clock /\ clock \in Nat
      /\ \A j \in Ingester \ {i} : Still(j)
      /\ phase[i] = "fetching" /\ phase'[i] \in {"fetching", "inserting"}
      /\ began'[i] = began[i] /\ held'[i] = held[i] /\ doomed'[i] = doomed[i]
      /\ l \in queue[i] /\ queue'[i] = queue[i] \ {l}
      /\ fetched'[i] = fetched[i] \/ \E s \in Slot : fetched'[i] = {<<l, s>>}
  BY MaxClockAssumption
  DEF IngestionInv, TypeOK, FetchOne, FetchNone, FetchRaises, Visit, Still
<1>3. Standing(i)'
  BY <1>2 DEF IngestionInv, Standing
<1>4. OnceEach(i)'
  <2>1. CASE fetched'[i] = fetched[i]
    BY <1>2, <2>1 DEF IngestionInv, OnceEach
  <2>2. ASSUME NEW s \in Slot, fetched'[i] = {<<l, s>>} PROVE OnceEach(i)'
    BY <1>2, <2>2 DEF IngestionInv, OnceEach
  <2> QED
    BY <1>2, <2>1, <2>2
<1>5. Fresh(i)'
  BY <1>2 DEF IngestionInv, Fresh, Keys
<1>6. ASSUME NEW j \in Ingester PROVE Apart(i, j)' /\ Apart(j, i)'
  BY <1>2 DEF IngestionInv, Apart, Still
<1> QED
  BY <1>1, <1>2, <1>3, <1>4, <1>5, <1>6, SessionMoves

(* An INSERT adds keys that nobody holds and the table does not have. *)
LEMMA InsertKeepsInvariant ==
    ASSUME IngestionInv, NEW i \in Ingester, Insert(i)
    PROVE  IngestionInv'
<1>1. TypeOK'
  <2>1. RowCount(i) \in Nat
    BY RowCountType DEF IngestionInv
  <2> QED
    BY <2>1 DEF IngestionInv, TypeOK, Insert, NewKeys
<1>2. /\ rows' = rows /\ clock' = clock /\ clock \in Nat
      /\ \A j \in Ingester \ {i} : Still(j)
      /\ phase[i] = "inserting" /\ phase'[i] = "fetching" /\ ~doomed[i]
      /\ began'[i] = began[i] /\ queue'[i] = queue[i] /\ doomed'[i] = doomed[i]
      /\ held'[i] = held[i] \cup NewKeys(i) /\ fetched'[i] = {}
  BY MaxClockAssumption DEF IngestionInv, TypeOK, Insert, Still
<1>3. \A j \in Ingester \ {i} : NewKeys(i) \cap held[j] = {}
  BY <1>2 DEF Insert, WaitsFor, NewKeys
<1>4. Standing(i)'
  BY <1>2 DEF IngestionInv, Standing
<1>5. OnceEach(i)'
  BY <1>2 DEF IngestionInv, OnceEach, NewKeys
<1>6. Fresh(i)'
  BY <1>2 DEF IngestionInv, Fresh, NewKeys, Keys
<1>7. ASSUME NEW j \in Ingester PROVE Apart(i, j)' /\ Apart(j, i)'
  BY <1>2, <1>3 DEF IngestionInv, Apart, Still
<1> QED
  BY <1>1, <1>2, <1>4, <1>5, <1>6, <1>7, SessionMoves

(* A failed INSERT drops what the transaction held. *)
LEMMA InsertFailsKeepsInvariant ==
    ASSUME IngestionInv, NEW i \in Ingester, InsertFails(i)
    PROVE  IngestionInv'
<1>1. TypeOK'
  BY DEF IngestionInv, TypeOK, InsertFails
<1>2. /\ rows' = rows /\ clock' = clock /\ clock \in Nat
      /\ \A j \in Ingester \ {i} : Still(j)
      /\ phase[i] = "inserting" /\ phase'[i] = "fetching"
      /\ began'[i] = began[i] /\ queue'[i] = queue[i]
      /\ held'[i] = {} /\ fetched'[i] = {}
  BY MaxClockAssumption DEF IngestionInv, TypeOK, InsertFails, Still
<1>3. Standing(i)' /\ OnceEach(i)' /\ Fresh(i)'
  BY <1>2 DEF IngestionInv, Standing, OnceEach, Fresh
<1>4. ASSUME NEW j \in Ingester PROVE Apart(i, j)' /\ Apart(j, i)'
  BY <1>2 DEF IngestionInv, Apart, Still
<1> QED
  BY <1>1, <1>2, <1>3, <1>4, SessionMoves

(* A rollback leaves nothing behind. *)
LEMMA AbortKeepsInvariant ==
    ASSUME IngestionInv, NEW i \in Ingester, Abort(i)
    PROVE  IngestionInv'
<1>1. TypeOK'
  BY MaxClockAssumption DEF IngestionInv, TypeOK, Abort, Close
<1>2. /\ rows' = rows /\ clock' = clock /\ clock \in Nat
      /\ \A j \in Ingester \ {i} : Still(j)
      /\ phase'[i] = "idle" /\ began'[i] = 0
      /\ held'[i] = {} /\ fetched'[i] = {} /\ doomed'[i] = FALSE
  <2>1. Close(i) /\ rows' = rows
    BY DEF Abort
  <2>2. clock \in Nat
    BY MaxClockAssumption DEF IngestionInv, TypeOK
  <2> QED
    BY <2>1, <2>2, SessionCloses
<1>3. Standing(i)' /\ OnceEach(i)'
  BY <1>2 DEF Standing, OnceEach
<1>4. Fresh(i)'
  BY <1>2 DEF IngestionInv, TypeOK, Fresh, Row, Time
<1>5. ASSUME NEW j \in Ingester PROVE Apart(i, j)' /\ Apart(j, i)'
  BY <1>2 DEF Apart
<1> QED
  BY <1>1, <1>2, <1>3, <1>4, <1>5, SessionMoves

(* The rows a commit makes visible. *)
Shown(i) == {[key |-> o, at |-> began[i]] : o \in held[i]}

(* What a commit shows is new in every respect: the stamp, and the keys. *)
LEMMA CommitShows ==
    ASSUME IngestionInv, NEW i \in Ingester, Commit(i)
    PROVE  /\ Close(i) /\ rows' = rows \cup Shown(i)
           /\ \A r \in Shown(i) : /\ r.at = began[i] /\ r.at \in 1..clock
                                  /\ r.key \in held[i] /\ r \in Row
           /\ \A r \in Shown(i), q \in rows : r.at # q.at /\ r.key # q.key
<1>1. Close(i) /\ rows' = rows \cup Shown(i)
  BY DEF Commit, Shown
<1>2. began[i] \in 1..clock /\ clock \in 0..MaxClock /\ held[i] \subseteq Obs
  BY DEF IngestionInv, TypeOK, Commit, Standing
<1>3. \A r \in Shown(i) : /\ r.at = began[i] /\ r.at \in 1..clock
                          /\ r.key \in held[i] /\ r \in Row
  BY <1>2, MaxClockAssumption DEF Shown, Row, Time
<1>4. \A r \in Shown(i), q \in rows : r.at # q.at /\ r.key # q.key
  BY <1>3 DEF IngestionInv, Fresh, Keys
<1> QED
  BY <1>1, <1>3, <1>4

(* A commit keeps what is in the table unique, and what the others will    *)
(* commit fresh.                                                           *)
LEMMA CommitKeepsInvariant ==
    ASSUME IngestionInv, NEW i \in Ingester, Commit(i)
    PROVE  IngestionInv'
<1>1. Close(i) /\ rows' = rows \cup Shown(i)
  BY CommitShows
<1>2. /\ \A j \in Ingester \ {i} : Still(j)
      /\ phase'[i] = "idle" /\ began'[i] = 0 /\ held'[i] = {} /\ fetched'[i] = {}
      /\ doomed'[i] = FALSE /\ clock' = clock
  BY <1>1, SessionCloses
<1>3. TypeOK'
  <2>1. rows' \subseteq Row
    BY <1>1, CommitShows DEF IngestionInv, TypeOK
  <2>2. Close(i)
    BY <1>1
  <2> QED
    BY <2>1, <2>2, MaxClockAssumption DEF IngestionInv, TypeOK, Close
<1>4. ClockAhead'
  BY <1>1, <1>2, CommitShows DEF IngestionInv, ClockAhead
<1>5. OneRowPerKey'
  <2> SUFFICES ASSUME NEW r \in rows', NEW q \in rows', r.key = q.key PROVE r = q
    BY DEF OneRowPerKey
  <2>1. CASE r \in rows /\ q \in rows
    BY <2>1 DEF IngestionInv, OneRowPerKey
  <2>2. CASE r \in Shown(i) /\ q \in Shown(i)
    BY <2>2 DEF Shown
  <2> QED
    BY <1>1, <2>1, <2>2, CommitShows
<1>6. OneRowPerStamp'
  <2> SUFFICES ASSUME NEW r \in rows', NEW q \in rows',
                      r.at = q.at, r.key[1] = q.key[1]
               PROVE  r = q
    BY DEF OneRowPerStamp
  <2>1. CASE r \in rows /\ q \in rows
    BY <2>1 DEF IngestionInv, OneRowPerStamp
  <2>2. CASE r \in Shown(i) /\ q \in Shown(i)
    <3>1. r.key = q.key
      BY <2>2, CommitShows DEF IngestionInv, OnceEach
    <3> QED
      BY <2>2, <3>1 DEF Shown
  <2> QED
    BY <1>1, <2>1, <2>2, CommitShows
<1>7. ASSUME NEW j \in Ingester PROVE Standing(j)' /\ OnceEach(j)' /\ Fresh(j)'
  <2>1. CASE j = i
    <3>1. Standing(i)' /\ OnceEach(i)'
      BY <1>2 DEF Standing, OnceEach
    <3>2. Fresh(i)'
      BY <1>2, <1>3 DEF TypeOK, Fresh, Row, Time
    <3> QED
      BY <2>1, <3>1, <3>2
  <2>2. CASE j # i
    <3>1. Standing(j)' /\ OnceEach(j)'
      BY <1>2, <2>2 DEF IngestionInv, Still, Standing, OnceEach
    <3>2. held'[j] \cap Keys(rows') = {}
      <4>1. held[j] \cap held[i] = {}
        BY <2>2 DEF IngestionInv, Apart
      <4> QED
        BY <1>1, <1>2, <2>2, <4>1, CommitShows DEF IngestionInv, Fresh, Still, Keys
    <3>3. \A r \in rows' : r.at # began'[j]
      <4>1. began[i] # began[j]
        BY <2>2, CommitShows DEF IngestionInv, Apart, Commit, Standing
      <4> QED
        BY <1>1, <1>2, <2>2, <4>1, CommitShows DEF IngestionInv, Fresh, Still
    <3> QED
      BY <3>1, <3>2, <3>3 DEF Fresh
  <2> QED
    BY <2>1, <2>2
<1>8. ASSUME NEW j \in Ingester, NEW k \in Ingester PROVE Apart(j, k)'
  BY <1>2 DEF IngestionInv, Apart, Still
<1> QED
  BY <1>3, <1>4, <1>5, <1>6, <1>7, <1>8 DEF IngestionInv

(* What the location endpoints do, and a step of nobody. *)
LEMMA OutsideKeepsInvariant ==
    ASSUME IngestionInv,
           \/ \E l \in Location : ActivateLocation(l) \/ DeleteLocation(l)
           \/ UNCHANGED vars
    PROVE  IngestionInv'
<1>1. UNCHANGED <<rows, clock, session>> /\ active' \subseteq Location
  BY DEF IngestionInv, TypeOK, ActivateLocation, DeleteLocation, vars
<1>2. TypeOK'
  BY <1>1 DEF IngestionInv, TypeOK, session
<1> QED
  BY <1>1, <1>2
  DEF IngestionInv, session, ClockAhead, OneRowPerKey, OneRowPerStamp, Standing,
      OnceEach, Fresh, Apart, Keys

LEMMA NextKeepsInvariant == IngestionInv /\ [Next]_vars => IngestionInv'
<1> SUFFICES ASSUME IngestionInv, [Next]_vars PROVE IngestionInv'
  OBVIOUS
<1>1. ASSUME NEW i \in Ingester, NEW l \in Location,
             FetchOne(i, l) \/ FetchNone(i, l) \/ FetchRaises(i, l)
      PROVE  IngestionInv'
  BY <1>1, FetchKeepsInvariant
<1>2. ASSUME NEW i \in Ingester,
             Begin(i) \/ Insert(i) \/ InsertFails(i) \/ Commit(i) \/ Abort(i)
      PROVE  IngestionInv'
  BY <1>2, BeginKeepsInvariant, InsertKeepsInvariant, InsertFailsKeepsInvariant,
     CommitKeepsInvariant, AbortKeepsInvariant
<1>3. ASSUME \/ \E l \in Location : ActivateLocation(l) \/ DeleteLocation(l)
             \/ UNCHANGED vars
      PROVE  IngestionInv'
  BY <1>3, OutsideKeepsInvariant
<1> QED
  BY <1>1, <1>2, <1>3
  DEF Next, CycleNext, Step, InsertRefused, InsertBreaks, DeadlockVictim

LEMMA InitInvariant == Init => IngestionInv
BY MaxClockAssumption
DEF Init, IngestionInv, TypeOK, ClockAhead, OneRowPerKey, OneRowPerStamp, Standing,
    OnceEach, Fresh, Apart, Keys

-----------------------------------------------------------------------------
(* Theorems. *)

(* What open transactions hold is about locations visited once, under      *)
(* stamps and keys nobody else has: the inductive invariant of the cycles. *)
THEOREM IngestionInvariant == Spec => []IngestionInv
<1>1. Init => IngestionInv
  BY InitInvariant
<1>2. IngestionInv /\ [Next]_vars => IngestionInv'
  BY NextKeepsInvariant
<1> QED
  BY <1>1, <1>2, PTL DEF Spec

(* The tables and sessions keep their types; counting the rows that an     *)
(* INSERT added always gives a number.                                     *)
THEOREM IngestionTyped == Spec => []TypeOK
<1>1. IngestionInv => TypeOK
  BY DEF IngestionInv
<1> QED
  BY <1>1, IngestionInvariant, PTL

(* However many cycles overlap, wait, fail and die: no observation is      *)
(* stored twice.                                                           *)
THEOREM StoredOnce == Spec => []OneRowPerKey
<1>1. IngestionInv => OneRowPerKey
  BY DEF IngestionInv
<1> QED
  BY <1>1, IngestionInvariant, PTL

(* A tie group has one row of a location, however many cycles there are. *)
THEOREM StampOfOneCycle == Spec => []OneRowPerStamp
<1>1. IngestionInv => OneRowPerStamp
  BY DEF IngestionInv
<1> QED
  BY <1>1, IngestionInvariant, PTL

(* Only a commit adds rows, those that its session holds. *)
LEMMA OnlyCommitsAdd ==
    ASSUME IngestionInv, [Next]_vars
    PROVE  \/ rows' = rows
           \/ \E i \in Ingester : Commit(i) /\ rows' = rows \cup Shown(i)
BY CommitShows
DEF Next, CycleNext, Step, Begin, FetchOne, FetchNone, FetchRaises, Insert,
    InsertRefused, InsertBreaks, DeadlockVictim, InsertFails, Abort,
    ActivateLocation, DeleteLocation, vars

(* The rows of a stamp become visible in one step, that of their commit,   *)
(* and no visible row has their stamp.                                     *)
THEOREM GroupsAppearWhole == Spec => TieGroupComplete
<1>1. IngestionInv /\ [Next]_vars =>
        [\A r \in rows' \ rows, q \in rows : r.at # q.at]_vars
  BY OnlyCommitsAdd, CommitShows
<1> QED
  BY <1>1, IngestionInvariant, PTL DEF Spec, TieGroupComplete

-----------------------------------------------------------------------------
(* One ingester.  While the only transaction is open, no row can become    *)
(* visible, so its stamp stays the newest.                                 *)

Solo == \A i, j \in Ingester : i = j

Ahead == \A i \in Ingester : began[i] # 0 => \A r \in rows : r.at < began[i]

Ordered == \A r \in rows' \ rows, q \in rows : q.at < r.at

LEMMA AheadStep ==
    ASSUME Solo, IngestionInv, Ahead, [Next]_vars
    PROVE  Ahead' /\ Ordered
<1>1. CASE \E i \in Ingester : Commit(i)
  <2>1. PICK i \in Ingester : Commit(i)
    BY <1>1
  <2>2. Close(i) /\ rows' = rows \cup Shown(i) /\ \A r \in Shown(i) : r.at = began[i]
    BY <2>1, CommitShows
  <2>3. began'[i] = 0
    BY <2>2, SessionCloses
  <2>4. began[i] # 0
    BY <2>1 DEF Commit, IngestionInv, Standing
  <2> QED
    BY <2>2, <2>3, <2>4 DEF Solo, Ahead, Ordered
<1>2. CASE rows' = rows
  <2>1. \A r \in rows : r.at \in Nat /\ r.at < clock + 1
    BY MaxClockAssumption DEF IngestionInv, TypeOK, ClockAhead, Row, Time
  <2>2. ASSUME NEW i \in Ingester
        PROVE  began'[i] \in {0, began[i], clock + 1}
    <3>1. CASE UNCHANGED began
      BY <3>1
    <3>2. ASSUME NEW j \in Ingester, Begin(j) \/ Close(j)
          PROVE  began'[i] \in {0, began[i], clock + 1}
      BY <3>2 DEF Begin, Close, IngestionInv, TypeOK
    <3> QED
      BY <3>1, <3>2
      DEF Next, CycleNext, Step, FetchOne, FetchNone, FetchRaises, Insert,
          InsertRefused, InsertBreaks, DeadlockVictim, InsertFails, Commit, Abort,
          ActivateLocation, DeleteLocation, session, vars
  <2> QED
    BY <1>2, <2>1, <2>2 DEF Ahead, Ordered
<1> QED
  BY <1>1, <1>2, OnlyCommitsAdd

(* With one ingester, rows become visible in the order of their stamps:    *)
(* what the since filter of the list endpoint relies on.  With two they    *)
(* need not (run pipeline_overlap).                                        *)
THEOREM SoloOrdersStamps == ASSUME Solo PROVE Spec => [][Ordered]_rows
<1>1. Init => Ahead
  BY DEF Init, Ahead
<1>2. IngestionInv /\ Ahead /\ [Next]_vars => Ahead' /\ [Ordered]_rows
  BY AheadStep
<1> QED
  BY <1>1, <1>2, IngestionInvariant, PTL DEF Spec

-----------------------------------------------------------------------------
(* The report of a cycle.  As long as no error has been counted, each row  *)
(* that an INSERT reported is still held.                                  *)

CountTrue(i) ==
    errors[i] = 0 => IsFiniteSet(held[i]) /\ Cardinality(held[i]) = stored[i]

ReportInv == IngestionInv /\ \A i \in Ingester : CountTrue(i)

(* The session's holdings and counters stand still. *)
LEMMA CountStays ==
    ASSUME ReportInv, NEW i \in Ingester,
           held'[i] = held[i], stored'[i] = stored[i], errors'[i] = errors[i]
    PROVE  CountTrue(i)'
BY DEF ReportInv, CountTrue

(* An INSERT that adds a key reports a row, one that does not reports none. *)
LEMMA InsertCounts ==
    ASSUME ReportInv, NEW i \in Ingester, Insert(i)
    PROVE  CountTrue(i)'
<1>1. /\ held'[i] = held[i] \cup NewKeys(i)
      /\ stored'[i] = stored[i] + Cardinality(NewKeys(i))
      /\ errors'[i] = errors[i] /\ stored[i] \in Nat
  BY DEF ReportInv, IngestionInv, TypeOK, Insert, RowCount
<1>2. CASE NewKeys(i) = {}
  <2>1. held'[i] = held[i] /\ stored'[i] = stored[i]
    BY <1>1, <1>2, FS_EmptySet
  <2> QED
    BY <1>1, <2>1, CountStays
<1>3. CASE NewKeys(i) # {}
  <2>1. PICK o \in NewKeys(i) : TRUE
    BY <1>3
  <2>2. NewKeys(i) = {o} /\ o \notin held[i]
    BY <2>1 DEF NewKeys, ReportInv, IngestionInv, OnceEach
  <2>3. Cardinality(NewKeys(i)) = 1
    BY <2>2, FS_Singleton
  <2>4. IsFiniteSet(held[i]) =>
           /\ IsFiniteSet(held[i] \cup {o})
           /\ Cardinality(held[i] \cup {o}) = Cardinality(held[i]) + 1
    BY <2>2, FS_AddElement
  <2> QED
    BY <1>1, <2>2, <2>3, <2>4 DEF ReportInv, CountTrue
<1> QED
  BY <1>2, <1>3

(* Every step keeps the count: it stands still, is corrected by an error,  *)
(* or starts again from nothing.                                           *)
LEMMA StepCounts ==
    ASSUME ReportInv, [Next]_vars, NEW i \in Ingester
    PROVE  CountTrue(i)'
<1> DEFINE Same(j) == held'[j] = held[j] /\ stored'[j] = stored[j] /\ errors'[j] = errors[j]
<1>1. TypeOK /\ errors[i] \in Nat
  BY DEF ReportInv, IngestionInv, TypeOK
<1>2. CASE UNCHANGED <<held, stored, errors>>
  BY <1>2, CountStays
<1>3. ASSUME NEW j \in Ingester, Begin(j) PROVE Same(i)
  BY <1>1, <1>3 DEF Begin
<1>4. ASSUME NEW j \in Ingester, NEW l \in Location,
             FetchOne(j, l) \/ FetchNone(j, l) \/ FetchRaises(j, l)
      PROVE  Same(i) \/ errors'[i] = errors[i] + 1
  BY <1>1, <1>4 DEF FetchOne, FetchNone, FetchRaises, TypeOK
<1>5. ASSUME NEW j \in Ingester, Insert(j) PROVE Same(i) \/ j = i
  BY <1>1, <1>5 DEF Insert, TypeOK
<1>6. ASSUME NEW j \in Ingester, InsertFails(j)
      PROVE  Same(i) \/ errors'[i] = errors[i] + 1
  BY <1>1, <1>6 DEF InsertFails, TypeOK
<1>7. ASSUME NEW j \in Ingester, Close(j)
      PROVE  Same(i) \/ (held'[i] = {} /\ stored'[i] = 0)
  BY <1>1, <1>7 DEF Close, TypeOK
<1>8. CASE Same(i)
  BY <1>8, CountStays
<1>9. CASE errors'[i] = errors[i] + 1
  BY <1>1, <1>9 DEF CountTrue
<1>10. CASE held'[i] = {} /\ stored'[i] = 0
  BY <1>10, FS_EmptySet DEF CountTrue
<1> HIDE DEF Same
<1> QED
  BY <1>2, <1>3, <1>4, <1>5, <1>6, <1>7, <1>8, <1>9, <1>10, InsertCounts
  DEF Next, CycleNext, Step, InsertRefused, InsertBreaks, DeadlockVictim, Commit,
      Abort, ActivateLocation, DeleteLocation, session, vars

(* A commit shows a row for each key it holds, and nothing else.           *)
LEMMA CommitCounts ==
    ASSUME IngestionInv, NEW i \in Ingester, Commit(i), IsFiniteSet(held[i])
    PROVE  Cardinality(rows' \ rows) = Cardinality(held[i])
<1>1. rows' \ rows = Shown(i)
  BY CommitShows
<1> DEFINE f == [o \in held[i] |-> [key |-> o, at |-> began[i]]]
<1>2. f \in Bijection(held[i], Shown(i))
  <2>1. f \in [held[i] -> Shown(i)]
    BY DEF Shown
  <2>2. \A o, p \in held[i] : f[o] = f[p] => o = p
    OBVIOUS
  <2>3. \A r \in Shown(i) : \E o \in held[i] : f[o] = r
    BY DEF Shown
  <2> QED
    BY <2>1, <2>2, <2>3, Fun_IsBij
<1> QED
  BY <1>1, <1>2, FS_Bijection DEF ExistsBijection

(* A cycle that counted no error has stored what it says, however many     *)
(* others inserted the same observations meanwhile, and although errors    *)
(* that are counted do not keep it from committing.                        *)
THEOREM CleanReportsAreTrue == Spec => CleanReport
<1>1. Init => ReportInv
  BY InitInvariant, FS_EmptySet DEF Init, ReportInv, CountTrue
<1>2. ReportInv /\ [Next]_vars => ReportInv'
  BY NextKeepsInvariant, StepCounts DEF ReportInv
<1>3. ReportInv /\ [Next]_vars =>
        [\A i \in Ingester :
            Commit(i) /\ errors[i] = 0 => Cardinality(rows' \ rows) = stored[i]]_vars
  BY CommitCounts DEF ReportInv, CountTrue
<1> QED
  BY <1>1, <1>2, <1>3, PTL DEF Spec, CleanReport
=============================================================================
