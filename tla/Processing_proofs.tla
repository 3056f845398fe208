-------------------------- MODULE Processing_proofs --------------------------
(***************************************************************************)
(* Proofs about Processing, for every set of observations, stamps, rules   *)
(* and sessions, and every page limit.  The last part is about             *)
(* ProcessingReports, whose variables the others do not use.               *)
(***************************************************************************)
EXTENDS ProcessingReports, FiniteSetTheorems, FunctionTheorems, TLAPS

-----------------------------------------------------------------------------
(* Lemmas about the operators. *)

(* compute_severity_score returns one of the scores it is given, and none  *)
(* of them is higher.                                                      *)
LEMMA HighestIsMaximum ==
    ASSUME NEW S \in SUBSET Score, S # {}
    PROVE  Highest(S) \in S /\ \A n \in S : n <= Highest(S)
<1>1. S \subseteq {0, 2, 5, 7, 10}
  BY LevelAssumption DEF Score
<1>2. \E m \in S : \A n \in S : n <= m
  <2>1. CASE 10 \in S
    BY <1>1, <2>1
  <2>2. CASE 10 \notin S /\ 7 \in S
    BY <1>1, <2>2
  <2>3. CASE 10 \notin S /\ 7 \notin S /\ 5 \in S
    BY <1>1, <2>3
  <2>4. CASE 10 \notin S /\ 7 \notin S /\ 5 \notin S /\ 2 \in S
    BY <1>1, <2>4
  <2>5. CASE 10 \notin S /\ 7 \notin S /\ 5 \notin S /\ 2 \notin S
    <3>1. 0 \in S
      BY <1>1, <2>5
    <3> QED
      BY <1>1, <2>5, <3>1
  <2> QED
    BY <2>1, <2>2, <2>3, <2>4, <2>5
<1> QED
  BY <1>2 DEF Highest

(* The score of no match is 0, and every score is one of Score. *)
LEMMA HighestInScore ==
    ASSUME NEW S \in SUBSET Score
    PROVE  /\ Highest(S) \in Score
           /\ S = {} => Highest(S) = 0
<1>1. CASE S = {}
  BY <1>1 DEF Highest, Score
<1>2. CASE S # {}
  BY <1>2, HighestIsMaximum
<1> QED
  BY <1>1, <1>2

(* When a session has flushed one row for each key, its commit adds one    *)
(* copy of the keys it has flushed and of no other.                        *)
LEMMA OneCopyEach ==
    ASSUME NEW S, NEW o,
           \A s, t \in S : s.key = t.key => s = t
    PROVE  Cardinality({s \in S : s.key = o}) = IF o \in Keys(S) THEN 1 ELSE 0
<1>1. CASE o \in Keys(S)
  <2>1. PICK s \in S : s.key = o
    BY <1>1 DEF Keys
  <2>2. {t \in S : t.key = o} = {s}
    BY <2>1
  <2> QED
    BY <1>1, <2>2, FS_Singleton
<1>2. CASE o \notin Keys(S)
  <2>1. {t \in S : t.key = o} = {}
    BY <1>2 DEF Keys
  <2> QED
    BY <1>2, <2>1, FS_EmptySet
<1> QED
  BY <1>1, <1>2

(* The keys of a set with one more row. *)
LEMMA KeysOfUnion ==
    ASSUME NEW S, NEW x
    PROVE  Keys(S \cup {x}) = Keys(S) \cup {x.key}
BY DEF Keys

(* Stamps, and the 0 that stands for none, are natural numbers. *)
LEMMA StampsAreNaturals == \A t \in {0} \cup Time : t \in Nat
<1>1. \A t \in Time : t \in Nat
  BY TimeAssumption
<1>2. 0 \in Nat
  OBVIOUS
<1> QED
  BY <1>1, <1>2

(* Later is the maximum of two stamps. *)
LEMMA LaterIsMaximum ==
    ASSUME NEW s \in Nat, NEW t \in Nat
    PROVE  Later(s, t) \in {s, t} /\ s <= Later(s, t) /\ t <= Later(s, t)
BY DEF Later

-----------------------------------------------------------------------------
(* What a step that leaves a session alone keeps of it. *)

Session(q) == Working(q) /\ Flushed(q) /\ Marked(q) /\ Alerted(q) /\ Scored(q)

Same(q) ==
    /\ pc'[q] = pc[q]
    /\ page'[q] = page[q]
    /\ todo'[q] = todo[q]
    /\ current'[q] = current[q]
    /\ snapshot'[q] = snapshot[q]
    /\ matches'[q] = matches[q]
    /\ staged'[q] = staged[q]
    /\ newAlerts'[q] = newAlerts[q]
    /\ newMark'[q] = newMark[q]

(* A session that does not move keeps its part of the invariant while rows *)
(* are only added and the rules of its alerts stay.                        *)
LEMMA SessionFrame ==
    ASSUME NEW q \in Processor, Session(q), Same(q), rows \subseteq rows',
           \A a \in newAlerts[q] : a.rule \in live'
    PROVE  Session(q)'
<1> USE DEF Same
<1>1. Working(q)'
  BY DEF Session, Working
<1>2. Flushed(q)'
  BY DEF Session, Flushed, Done, Keys
<1>3. Marked(q)'
  BY DEF Session, Marked
<1>4. Alerted(q)'
  BY DEF Session, Alerted, Keys
<1>5. Scored(q)'
  BY DEF Session, Scored, Keys
<1> QED
  BY <1>1, <1>2, <1>3, <1>4, <1>5 DEF Session

(* A session that has been closed satisfies its part of the invariant. *)
LEMMA SessionClosed ==
    ASSUME NEW p \in Processor, TypeOK, Close(p)
    PROVE  /\ Session(p)'
           /\ \A q \in Processor \ {p} : Same(q)
<1> USE DEF Close, TypeOK
<1>1. /\ pc'[p] = "idle"
      /\ page'[p] = {}
      /\ todo'[p] = {}
      /\ current'[p] = {}
      /\ matches'[p] = {}
      /\ staged'[p] = {}
      /\ newAlerts'[p] = {}
      /\ newMark'[p] = 0
  OBVIOUS
<1>2. Session(p)'
  BY <1>1 DEF Session, Working, Flushed, Marked, Alerted, Scored, Done, Keys
<1>3. \A q \in Processor \ {p} : Same(q)
  BY DEF Same
<1> QED
  BY <1>2, <1>3

(* What the tables owe to themselves is kept while they do not change and  *)
(* the rules of committed alerts stay.                                     *)
Stored ==
    RowsUnique /\ Tables /\ ExactlyOnce /\ WatermarkJustified
    /\ ScoreMatchesAlerts /\ NoOrphanAlert

LEMMA StoredFrame ==
    ASSUME Stored, UNCHANGED <<rows, store>>, \A a \in alerts : a.rule \in live'
    PROVE  Stored'
<1> USE DEF Stored, store
<1>1. RowsUnique' /\ Tables'
  BY DEF RowsUnique, Tables, Processed, Keys
<1>2. ExactlyOnce' /\ WatermarkJustified'
  BY DEF ExactlyOnce, WatermarkJustified, Processed
<1>3. ScoreMatchesAlerts' /\ NoOrphanAlert'
  BY DEF ScoreMatchesAlerts, NoOrphanAlert, Processed
<1> QED
  BY <1>1, <1>2, <1>3

(* Locks are only released. *)
LEMMA ExclusiveFrame ==
    ASSUME Exclusive, copies' = copies,
           \A q \in Processor : staged'[q] \subseteq staged[q]
    PROVE  Exclusive'
BY DEF Exclusive, Keys

-----------------------------------------------------------------------------
(* Each step of a cycle keeps the invariant. *)

(* The steps that end a cycle without a commit. *)
LEMMA CloseKeepsInvariant ==
    ASSUME IInv, NEW p \in Processor, Close(p), UNCHANGED <<rows, store, rules>>
    PROVE  IInv'
<1> USE DEF IInv
<1>1. TypeOK'
  BY DEF TypeOK, Close, store, rules, NoRules, Score
<1>2. Stored'
  BY StoredFrame DEF Stored, NoOrphanAlert, rules
<1>3. Exclusive'
  <2>1. \A q \in Processor : staged'[q] \subseteq staged[q]
    BY DEF Close, TypeOK
  <2> QED
    BY <2>1, ExclusiveFrame DEF store
<1>4. ASSUME NEW q \in Processor PROVE Session(q)'
  <2>1. CASE q = p
    BY <2>1, SessionClosed
  <2>2. CASE q # p
    <3>1. Same(q)
      BY <2>2, SessionClosed
    <3>2. Session(q)
      BY DEF Session
    <3>3. \A a \in newAlerts[q] : a.rule \in live'
      BY <3>2 DEF Session, Alerted, rules
    <3> QED
      BY <3>1, <3>2, <3>3, SessionFrame
  <2> QED
    BY <2>1, <2>2
<1> QED
  BY <1>1, <1>2, <1>3, <1>4 DEF Stored, Session

(* A step of p that changes no table, and takes no lock: it is enough that *)
(* it keeps the types and p's own part.                                    *)
LEMMA MoveKeepsInvariant ==
    ASSUME IInv, NEW p \in Processor, UNCHANGED <<rows, store, rules>>,
           TypeOK', Session(p)', staged'[p] \subseteq staged[p],
           \A q \in Processor \ {p} : Same(q)
    PROVE  IInv'
<1> USE DEF IInv
<1>2. Stored'
  BY StoredFrame DEF Stored, NoOrphanAlert, rules
<1>3. Exclusive'
  <2>1. \A q \in Processor : staged'[q] \subseteq staged[q]
    BY DEF Same
  <2> QED
    BY <2>1, ExclusiveFrame DEF store
<1>4. ASSUME NEW q \in Processor PROVE Session(q)'
  <2>1. CASE q = p
    BY <2>1
  <2>2. CASE q # p
    <3>1. Same(q)
      BY <2>2
    <3>2. Session(q)
      BY DEF Session
    <3>3. \A a \in newAlerts[q] : a.rule \in live'
      BY <3>2 DEF Session, Alerted, rules
    <3> QED
      BY <3>1, <3>2, <3>3, SessionFrame
  <2> QED
    BY <2>1, <2>2
<1> QED
  BY <1>2, <1>3, <1>4 DEF Stored, Session

(* A cycle begins: the session holds nothing.                              *)
LEMMA ReadWatermarkKeepsInvariant ==
    ASSUME IInv, NEW p \in Processor, ReadWatermark(p)
    PROVE  IInv'
<1> USE DEF ReadWatermark, IInv, TypeOK
<1>1. TypeOK'
  BY DEF store, rules
<1>2. Session(p)'
  <2>1. Working(p)' /\ Flushed(p)' /\ Marked(p)'
    BY DEF Working, Flushed, Marked, Done, Keys
  <2>2. Alerted(p)' /\ Scored(p)'
    BY DEF Alerted, Scored, Keys, rules
  <2> QED
    BY <2>1, <2>2 DEF Session
<1>3. \A q \in Processor \ {p} : Same(q)
  BY DEF Same
<1> QED
  BY <1>1, <1>2, <1>3, MoveKeepsInvariant

(* A page of stored rows arrives, none of them finished.                   *)
LEMMA PollKeepsInvariant ==
    ASSUME IInv, NEW p \in Processor, Poll(p)
    PROVE  IInv'
<1> USE DEF Poll, IInv
<1>1. PICK B \in Pages(since[p]) \ {{}} :
         /\ page' = [page EXCEPT ![p] = B]
         /\ todo' = [todo EXCEPT ![p] = B]
  OBVIOUS
<1>2. B \subseteq rows /\ B # {}
  BY DEF Pages, Newer
<1>3. TypeOK'
  BY <1>1, <1>2 DEF TypeOK, store, rules
<1>4. Session(p)'
  <2>1. pc'[p] = "listing" /\ page'[p] = B /\ todo'[p] = B
    BY <1>1 DEF TypeOK
  <2>2. Working(p)'
    BY <1>2, <2>1 DEF Working
  <2>3. Flushed(p)' /\ Marked(p)'
    <3>1. staged[p] = {} /\ newMark[p] = 0 /\ current[p] = {}
      BY DEF Flushed, Marked, Working, Done, Keys
    <3> QED
      BY <2>1, <3>1 DEF Flushed, Marked, Done, Keys
  <2>4. Alerted(p)' /\ Scored(p)'
    BY DEF Alerted, Scored, Keys, rules
  <2> QED
    BY <2>2, <2>3, <2>4 DEF Session
<1>5. \A q \in Processor \ {p} : Same(q)
  BY <1>1 DEF Same, TypeOK
<1> QED
  BY <1>3, <1>4, <1>5, MoveKeepsInvariant

(* The rules are read before anything is flushed, so that no flushed score *)
(* or alert disagrees with them.                                           *)
LEMMA ListRulesKeepsInvariant ==
    ASSUME IInv, NEW p \in Processor, ListRules(p)
    PROVE  IInv'
<1> USE DEF ListRules, IInv
<1>1. TypeOK'
  BY DEF TypeOK, store, rules
<1>2. Session(p)'
  <2>1. pc'[p] = "saving"
    BY DEF TypeOK
  <2>2. staged[p] = {} /\ newAlerts[p] = {}
    <3>1. Keys(Done(p)) = {}
      BY DEF Working, Done, Keys
    <3>2. Keys(staged[p]) = {}
      BY <3>1 DEF Flushed
    <3>3. staged[p] = {}
      BY <3>2 DEF Keys
    <3> QED
      BY <3>2, <3>3 DEF Alerted
  <2>3. Working(p)' /\ Flushed(p)' /\ Marked(p)'
    BY <2>1 DEF Working, Flushed, Marked, Done, Keys
  <2>4. Alerted(p)' /\ Scored(p)'
    BY <2>2 DEF Alerted, Scored
  <2> QED
    BY <2>3, <2>4 DEF Session
<1>3. \A q \in Processor \ {p} : Same(q)
  BY DEF Same, TypeOK
<1> QED
  BY <1>1, <1>2, <1>3, MoveKeepsInvariant

(* Saving a row: the one step that takes a lock.                           *)
LEMMA SaveObservationKeepsInvariant ==
    ASSUME IInv, NEW p \in Processor, SaveObservation(p)
    PROVE  IInv'
<1> USE DEF IInv
<1>1. PICK r \in First(todo[p]) :
         /\ Insertable(p, r.key)
         /\ matches' = [matches EXCEPT ![p] = Matched(p, r.key)]
         /\ staged' = [staged EXCEPT ![p] = @ \cup
                {[key |-> r.key,
                  score |-> Highest({snapshot[p][k] : k \in Matched(p, r.key)})]}]
         /\ current' = [current EXCEPT ![p] = {r}]
  BY DEF SaveObservation
<1> DEFINE M == Matched(p, r.key)
           V == {snapshot[p][k] : k \in M}
           n == [key |-> r.key, score |-> Highest(V)]
<1>2. /\ pc[p] = "saving"
      /\ pc' = [pc EXCEPT ![p] = "alerting"]
      /\ UNCHANGED <<rows, store, rules, since, page, todo, snapshot, newAlerts,
                     newMark>>
  BY DEF SaveObservation
<1>3. r \in todo[p] /\ r \in page[p] /\ r \in rows /\ r \in Row
  BY DEF First, Working, TypeOK
<1>4. M \in SUBSET Rule /\ V \in SUBSET Score
  BY <1>3, BreachesAssumption DEF Matched, TypeOK, Row
<1>5. n \in [key : Obs, score : Score]
  BY <1>3, <1>4, HighestInScore DEF Row
<1>6. /\ pc'[p] = "alerting"
      /\ matches'[p] = M
      /\ staged'[p] = staged[p] \cup {n}
      /\ current'[p] = {r}
  BY <1>1, <1>2 DEF TypeOK
<1>6a. n.key = r.key /\ Keys(staged'[p]) = Keys(staged[p]) \cup {r.key}
  <2>1. n.key = r.key
    OBVIOUS
  <2> HIDE DEF n
  <2> QED
    BY <1>6, <2>1, KeysOfUnion
<1>7. r.key \notin Keys(staged[p])
  <2>1. Keys(staged[p]) = Keys(page[p] \ todo[p])
    BY <1>2 DEF Flushed, Working, Done
  <2>2. \A q \in page[p] \ todo[p] : q.key # r.key
    BY <1>3 DEF Working, RowsUnique
  <2> QED
    BY <2>1, <2>2 DEF Keys
<1>8. TypeOK'
  <2>1. current' \in [Processor -> SUBSET Row]
    BY <1>1, <1>3 DEF TypeOK
  <2>2. staged' \in [Processor -> SUBSET [key : Obs, score : Score]]
    BY <1>1, <1>5 DEF TypeOK
  <2>3. matches' \in [Processor -> SUBSET Rule]
    BY <1>1, <1>4 DEF TypeOK
  <2> QED
    BY <1>2, <2>1, <2>2, <2>3 DEF TypeOK, store, rules
<1>9. Session(p)'
  <2>1. Working(p)'
    BY <1>2, <1>3, <1>6 DEF Working
  <2>2. Flushed(p)'
    <3>1. Keys(staged[p]) = Keys(Done(p)) /\ current[p] = {}
      BY <1>2 DEF Flushed, Working
    <3>3. Done(p)' = Done(p) \cup {r}
      BY <1>2, <1>6, <3>1 DEF Done
    <3>4. Keys(Done(p)') = Keys(Done(p)) \cup {r.key}
      BY <3>3, KeysOfUnion
    <3>5. \A s, t \in staged'[p] : s.key = t.key => s = t
      BY <1>6, <1>7 DEF Flushed, Keys
    <3> QED
      BY <1>6, <1>6a, <3>1, <3>4, <3>5 DEF Flushed
  <2>3. Marked(p)'
    BY <1>2 DEF Marked
  <2>4. Alerted(p)'
    BY <1>2, <1>6 DEF Alerted, Keys, rules
  <2>5. Scored(p)'
    <3>1. \A a \in newAlerts[p] : a.key # r.key
      BY <1>7 DEF Alerted
    <3>2. ASSUME NEW s \in staged[p]
          PROVE  /\ \A a \in newAlerts[p] : a.key = s.key => a.severity <= s.score
                 /\ s.key # r.key
                 /\ s.score # 0 => \E a \in newAlerts[p] :
                                     a.key = s.key /\ a.severity = s.score
      BY <1>2, <1>7, <3>2 DEF Scored, Working, Keys
    <3>3. \A k \in M : snapshot[p][k] # 0 /\ snapshot[p][k] <= n.score
      <4>1. ASSUME NEW k \in M PROVE snapshot[p][k] <= Highest(V)
        <5>1. snapshot[p][k] \in V
          OBVIOUS
        <5> QED
          BY <1>4, <5>1, HighestIsMaximum
      <4> QED
        BY <4>1 DEF Matched
    <3>4. n.score # 0 => \E k \in M : snapshot[p][k] = n.score
      <4>1. V = {} => Highest(V) = 0
        BY <1>4, HighestInScore
      <4>2. V # {} => Highest(V) \in V
        BY <1>4, HighestIsMaximum
      <4> QED
        BY <4>1, <4>2
    <3>5. Keys(current'[p]) = {r.key}
      BY <1>6 DEF Keys
    <3> HIDE DEF M, V, n
    <3>6. n.key = r.key
      BY DEF n
    <3> QED
      BY <1>2, <1>6, <3>1, <3>2, <3>3, <3>4, <3>5, <3>6 DEF Scored
  <2> QED
    BY <2>1, <2>2, <2>3, <2>4, <2>5 DEF Session
<1>10. ASSUME NEW q \in Processor \ {p} PROVE Same(q)
  BY <1>1, <1>2 DEF Same, TypeOK
<1>11. Exclusive'
  <2>1. copies[r.key] = 0 /\ \A q \in Processor \ {p} : r.key \notin Keys(staged[q])
    BY <1>1 DEF Insertable, Free
  <2>3. \A q \in Processor \ {p} : Keys(staged'[q]) = Keys(staged[q])
    BY <1>10 DEF Same
  <2>4. copies' = copies
    BY <1>2 DEF store
  <2> QED
    BY <1>6a, <2>1, <2>3, <2>4 DEF Exclusive
<1>12. Stored'
  BY <1>2, StoredFrame DEF Stored, NoOrphanAlert, rules
<1>13. ASSUME NEW q \in Processor \ {p} PROVE Session(q)'
  <2>1. \A a \in newAlerts[q] : a.rule \in live'
    BY <1>2 DEF Alerted, rules
  <2> QED
    BY <1>2, <1>10, <2>1, SessionFrame DEF Session
<1> QED
  BY <1>8, <1>9, <1>11, <1>12, <1>13 DEF Stored, Session

(* An alert moves a match of the current row to the alerts flushed, with   *)
(* the severity that was counted in the score of the row.                  *)
LEMMA SaveAlertKeepsInvariant ==
    ASSUME IInv, NEW p \in Processor, SaveAlert(p)
    PROVE  IInv'
<1> USE DEF IInv
<1>1. PICK k \in matches[p] \cap live, r \in current[p] :
         /\ newAlerts' = [newAlerts EXCEPT ![p] = @ \cup
               {[key |-> r.key, rule |-> k, severity |-> snapshot[p][k]]}]
         /\ matches' = [matches EXCEPT ![p] = @ \ {k}]
  BY DEF SaveAlert
<1> DEFINE n == [key |-> r.key, rule |-> k, severity |-> snapshot[p][k]]
<1>2. /\ pc[p] = "alerting"
      /\ UNCHANGED <<rows, store, rules, pc, since, page, todo, current, snapshot,
                     staged, newMark>>
  BY DEF SaveAlert
<1>3. /\ newAlerts'[p] = newAlerts[p] \cup {n}
      /\ matches'[p] = matches[p] \ {k}
  BY <1>1 DEF TypeOK
<1>4. r \in Row /\ k \in Rule /\ current[p] = {r}
  BY DEF TypeOK, Working
<1>5. PICK s \in staged[p] : s.key = r.key
  <2>1. r.key \in Keys(Done(p))
    BY DEF Done, Keys
  <2>2. Keys(staged[p]) = Keys(Done(p))
    BY <1>2 DEF Flushed
  <2>3. r.key \in Keys(staged[p])
    BY <2>1, <2>2
  <2> QED
    BY <2>3 DEF Keys
<1>6. snapshot[p][k] \in Level /\ snapshot[p][k] <= s.score
  <2>1. snapshot[p][k] # 0 /\ snapshot[p][k] <= s.score
    BY <1>5 DEF Scored, Keys
  <2> QED
    BY <1>4, <2>1 DEF TypeOK, Score
<1>7. TypeOK'
  <2>1. n \in Alert
    BY <1>4, <1>6 DEF Alert, Row
  <2>2. newAlerts' \in [Processor -> SUBSET Alert]
    BY <1>1, <2>1 DEF TypeOK
  <2>3. matches' \in [Processor -> SUBSET Rule]
    BY <1>1 DEF TypeOK
  <2> QED
    BY <1>2, <2>2, <2>3 DEF TypeOK, store, rules
<1>8. Session(p)'
  <2>1. Working(p)'
    BY <1>2 DEF Working
  <2>2. Flushed(p)' /\ Marked(p)'
    BY <1>2 DEF Flushed, Marked, Done, Keys
  <2>3. Alerted(p)'
    <3>1. r.key \in Keys(staged[p])
      BY <1>5 DEF Keys
    <3> QED
      BY <1>2, <1>3, <3>1 DEF Alerted, Keys, rules
  <2>4. Scored(p)'
    <3> SUFFICES ASSUME NEW t \in staged[p]
                 PROVE  /\ \A a \in newAlerts'[p] : a.key = t.key => a.severity <= t.score
                        /\ \A j \in matches'[p] :
                             t.key \in Keys(current[p]) =>
                                snapshot[p][j] # 0 /\ snapshot[p][j] <= t.score
                        /\ t.score # 0 =>
                             \/ \E a \in newAlerts'[p] :
                                   a.key = t.key /\ a.severity = t.score
                             \/ /\ t.key \in Keys(current[p])
                                /\ \E j \in matches'[p] : snapshot[p][j] = t.score
      BY <1>2 DEF Scored, Keys
    <3>1. t.key = r.key => t = s
      BY <1>5 DEF Flushed
    <3>2. t.key \in Keys(current[p]) <=> t.key = r.key
      BY <1>4 DEF Keys
    <3>3. \A a \in newAlerts'[p] : a.key = t.key => a.severity <= t.score
      BY <1>3, <1>6, <3>1 DEF Scored
    <3>4. \A j \in matches'[p] :
             t.key \in Keys(current[p]) => snapshot[p][j] # 0 /\ snapshot[p][j] <= t.score
      BY <1>3 DEF Scored
    <3>5. ASSUME t.score # 0
          PROVE  \/ \E a \in newAlerts'[p] : a.key = t.key /\ a.severity = t.score
                 \/ /\ t.key \in Keys(current[p])
                    /\ \E j \in matches'[p] : snapshot[p][j] = t.score
      <4>1. CASE \E a \in newAlerts[p] : a.key = t.key /\ a.severity = t.score
        BY <1>3, <4>1
      <4>2. CASE t.key = r.key /\ snapshot[p][k] = t.score
        <5>1. n \in newAlerts'[p] /\ n.key = t.key /\ n.severity = t.score
          BY <1>3, <4>2
        <5> QED
          BY <5>1
      <4>3. CASE /\ t.key \in Keys(current[p])
                 /\ \E j \in matches[p] \ {k} : snapshot[p][j] = t.score
        BY <1>3, <4>3
      <4> QED
        BY <3>2, <3>5, <4>1, <4>2, <4>3 DEF Scored
    <3> QED
      BY <3>3, <3>4, <3>5
  <2> QED
    BY <2>1, <2>2, <2>3, <2>4 DEF Session
<1>9. \A q \in Processor \ {p} : Same(q)
  BY <1>1, <1>2 DEF Same, TypeOK
<1> QED
  BY <1>2, <1>7, <1>8, <1>9, MoveKeepsInvariant

(* A row leaves the loop with all its alerts, and counts for the mark.     *)
LEMMA FinishObservationKeepsInvariant ==
    ASSUME IInv, NEW p \in Processor, FinishObservation(p)
    PROVE  IInv'
<1> USE DEF IInv
<1>1. PICK r \in current[p] :
         /\ newMark' = [newMark EXCEPT ![p] = Later(@, r.at)]
         /\ todo' = [todo EXCEPT ![p] = @ \ {r}]
  BY DEF FinishObservation
<1>2. /\ pc[p] = "alerting"
      /\ matches[p] = {}
      /\ current' = [current EXCEPT ![p] = {}]
      /\ pc' = [pc EXCEPT ![p] = "saving"]
      /\ UNCHANGED <<rows, store, rules, since, page, snapshot, matches, staged,
                     newAlerts>>
  BY DEF FinishObservation
<1>3. /\ current[p] = {r}
      /\ r \in todo[p] /\ r \in page[p] /\ r \in Row
  BY DEF Working, TypeOK
<1>4. /\ newMark'[p] = Later(newMark[p], r.at)
      /\ todo'[p] = todo[p] \ {r}
      /\ current'[p] = {}
      /\ pc'[p] = "saving"
  BY <1>1, <1>2 DEF TypeOK
<1>5. newMark[p] \in Nat /\ r.at \in Nat /\ r.at # 0
  <2>1. newMark[p] \in {0} \cup Time
    BY DEF TypeOK
  <2>2. r.at \in Time
    BY <1>3 DEF Row
  <2>3. newMark[p] \in Nat
    BY <2>1, StampsAreNaturals
  <2>4. r.at \in Nat \ {0}
    BY <2>2, TimeAssumption
  <2> QED
    BY <2>3, <2>4
<1>6. TypeOK'
  <2>1. Later(newMark[p], r.at) \in {0} \cup Time
    BY <1>3 DEF Later, TypeOK, Row
  <2>2. newMark' \in [Processor -> {0} \cup Time]
    BY <1>1, <2>1 DEF TypeOK
  <2>3. todo' \in [Processor -> SUBSET Row]
    BY <1>1 DEF TypeOK
  <2> QED
    BY <1>2, <2>2, <2>3 DEF TypeOK, store, rules
<1>7. Session(p)'
  <2>1. Working(p)'
    BY <1>2, <1>3, <1>4 DEF Working
  <2>2. Flushed(p)'
    <3>1. Done(p)' = Done(p)
      BY <1>2, <1>3, <1>4 DEF Done
    <3> QED
      BY <1>2, <1>4, <3>1 DEF Flushed
  <2>3. Marked(p)'
    <3>1. page'[p] \ todo'[p] = (page[p] \ todo[p]) \cup {r}
      BY <1>2, <1>3, <1>4
    <3>2. \A q \in page[p] \ todo[p] : q.at \in Nat /\ q.at <= newMark[p]
      <4>1. \A q \in page[p] \ todo[p] : q.at <= newMark[p]
        BY <1>2 DEF Marked
      <4>2. \A q \in page[p] : q.at \in Time
        BY DEF TypeOK, Row
      <4> QED
        BY <4>1, <4>2, TimeAssumption
    <3>3. \A q \in page'[p] \ todo'[p] : q.at <= newMark'[p]
      <4> SUFFICES ASSUME NEW q \in page'[p] \ todo'[p]
                   PROVE  q.at <= newMark'[p]
        OBVIOUS
      <4>1. newMark[p] <= newMark'[p] /\ r.at <= newMark'[p] /\ newMark'[p] \in Nat
        BY <1>4, <1>5, LaterIsMaximum
      <4>2. CASE q = r
        BY <4>1, <4>2
      <4>3. CASE q # r
        <5>1. q.at \in Nat /\ q.at <= newMark[p]
          BY <3>1, <3>2, <4>3
        <5> QED
          BY <1>5, <4>1, <5>1
      <4> QED
        BY <4>2, <4>3
    <3>4. \E q \in page'[p] \ todo'[p] : q.at = newMark'[p]
      BY <1>2, <1>4, <1>5, <3>1 DEF Later, Marked
    <3> QED
      BY <3>3, <3>4 DEF Marked
  <2>4. Alerted(p)'
    BY <1>2 DEF Alerted, Keys, rules
  <2>5. Scored(p)'
    BY <1>2, <1>4 DEF Scored
  <2> QED
    BY <2>1, <2>2, <2>3, <2>4, <2>5 DEF Session
<1>8. \A q \in Processor \ {p} : Same(q)
  BY <1>1, <1>2 DEF Same, TypeOK
<1> QED
  BY <1>2, <1>6, <1>7, <1>8, MoveKeepsInvariant

(* A failed flush drops what the session held. *)
LEMMA RollBackKeepsInvariant ==
    ASSUME IInv, NEW p \in Processor, RollBack(p), pc[p] \in {"saving", "alerting"}
    PROVE  IInv'
<1> USE DEF IInv, RollBack
<1>1. TypeOK'
  BY DEF TypeOK, store, rules
<1>2. Session(p)'
  <2>1. /\ pc'[p] = "failed"
        /\ todo'[p] = {}
        /\ current'[p] = {}
        /\ matches'[p] = {}
        /\ staged'[p] = {}
        /\ newAlerts'[p] = {}
    BY DEF TypeOK
  <2> QED
    BY <2>1 DEF Session, Working, Flushed, Marked, Alerted, Scored
<1>3. \A q \in Processor \ {p} : Same(q)
  BY DEF Same, TypeOK
<1>4. staged'[p] \subseteq staged[p]
  BY DEF TypeOK
<1> QED
  BY <1>1, <1>2, <1>3, <1>4, MoveKeepsInvariant

(* A session with no row left waits to commit its mark.                    *)
LEMMA UpsertWatermarkKeepsInvariant ==
    ASSUME IInv, NEW p \in Processor, UpsertWatermark(p)
    PROVE  IInv'
<1> USE DEF IInv, UpsertWatermark
<1>1. TypeOK'
  BY DEF TypeOK, store, rules
<1>2. Session(p)'
  <2>1. pc'[p] = "committing"
    BY DEF TypeOK
  <2>2. Working(p)' /\ Flushed(p)' /\ Marked(p)'
    BY <2>1 DEF Working, Flushed, Marked, Done, Keys
  <2>3. Alerted(p)' /\ Scored(p)'
    BY DEF Alerted, Scored, Keys, rules
  <2> QED
    BY <2>2, <2>3 DEF Session
<1>3. \A q \in Processor \ {p} : Same(q)
  BY DEF Same, TypeOK
<1> QED
  BY <1>1, <1>2, <1>3, MoveKeepsInvariant

(* What a commit writes: one copy and the flushed score for each row the   *)
(* session has flushed, and nothing for any other.                         *)
LEMMA CommitWrites ==
    ASSUME IInv, NEW p \in Processor, Commit(p)
    PROVE  /\ Keys(staged[p]) = Keys(page[p])
           /\ \A o \in Keys(staged[p]) : copies[o] = 0 /\ copies'[o] = 1
           /\ \A o \in Obs \ Keys(staged[p]) : copies'[o] = copies[o] /\ score'[o] = score[o]
           /\ \A s \in staged[p] : s.key \in Obs /\ score'[s.key] = s.score
           /\ copies' \in [Obs -> Nat]
           /\ Processed' = Processed \cup Keys(page[p])
<1> USE DEF IInv
<1>1. /\ pc[p] = "committing"
      /\ copies' = [o \in Obs |-> copies[o] + Cardinality({s \in staged[p] : s.key = o})]
      /\ score' = [o \in Obs |-> IF o \in Keys(staged[p])
                                 THEN (CHOOSE s \in staged[p] : s.key = o).score
                                 ELSE score[o]]
  BY DEF Commit
<1>2. Keys(staged[p]) = Keys(page[p])
  <2>1. Done(p) = page[p]
    BY <1>1 DEF Working, Done
  <2> QED
    BY <1>1, <2>1 DEF Flushed
<1>3. \A s, t \in staged[p] : s.key = t.key => s = t
  BY DEF Flushed
<1>4. \A o \in Obs : Cardinality({s \in staged[p] : s.key = o})
                       = IF o \in Keys(staged[p]) THEN 1 ELSE 0
  BY <1>3, OneCopyEach
<1>5. Keys(staged[p]) \subseteq Obs
  BY DEF TypeOK, Keys
<1>6. \A o \in Keys(staged[p]) : copies[o] = 0
  BY DEF Exclusive
<1>7. \A o \in Keys(staged[p]) : copies'[o] = 1
  BY <1>1, <1>4, <1>5, <1>6
<1>8. \A o \in Obs \ Keys(staged[p]) : copies'[o] = copies[o] /\ score'[o] = score[o]
  BY <1>1, <1>4 DEF TypeOK
<1>9. ASSUME NEW s \in staged[p]
      PROVE  s.key \in Obs /\ score'[s.key] = s.score
  <2>1. s.key \in Keys(staged[p])
    BY DEF Keys
  <2>2. (CHOOSE t \in staged[p] : t.key = s.key) = s
    BY <1>3
  <2>3. s.key \in Obs
    BY <1>5, <2>1
  <2> QED
    BY <1>1, <2>1, <2>2, <2>3
<1>10. copies' \in [Obs -> Nat]
  <2>1. ASSUME NEW o \in Obs
        PROVE  copies[o] + Cardinality({s \in staged[p] : s.key = o}) \in Nat
    BY <1>4 DEF TypeOK
  <2> QED
    BY <1>1, <2>1
<1>11. Processed' = Processed \cup Keys(page[p])
  BY <1>2, <1>5, <1>6, <1>7, <1>8 DEF Processed
<1> QED
  BY <1>2, <1>6, <1>7, <1>8, <1>9, <1>10, <1>11

(* The mark a session commits is the stamp of a row of its page, and no    *)
(* row of the page is newer.                                               *)
LEMMA CommitMark ==
    ASSUME IInv, NEW p \in Processor, pc[p] = "committing"
    PROVE  /\ page[p] # {}
           /\ \A r \in page[p] : r.at <= newMark[p]
           /\ \E r \in page[p] : r.at = newMark[p]
<1> USE DEF IInv
<1>1. page[p] # {} /\ todo[p] = {} /\ page[p] \ todo[p] = page[p]
  BY DEF Working
<1>2. \A r \in page[p] : r.at <= newMark[p]
  BY <1>1 DEF Marked
<1>3. PICK r \in page[p] : TRUE
  BY <1>1
<1>4. r.at \in Nat \ {0}
  <2>1. r.at \in Time
    BY DEF TypeOK, Row
  <2> QED
    BY <2>1, TimeAssumption
<1>5. newMark[p] \in Nat
  <2>1. newMark[p] \in {0} \cup Time
    BY DEF TypeOK
  <2> QED
    BY <2>1, StampsAreNaturals
<1>6. newMark[p] # 0
  BY <1>2, <1>4, <1>5
<1> QED
  BY <1>1, <1>2, <1>6 DEF Marked

(* A commit moves what a session holds into the tables.                    *)
LEMMA CommitKeepsInvariant ==
    ASSUME IInv, NEW p \in Processor, Commit(p)
    PROVE  IInv'
<1> USE DEF IInv
<1>1. /\ pc[p] = "committing"
      /\ alerts' = alerts \cup newAlerts[p]
      /\ watermark' = newMark[p]
      /\ Close(p)
      /\ UNCHANGED <<rows, rules>>
      /\ score' = [o \in Obs |-> IF o \in Keys(staged[p])
                                 THEN (CHOOSE s \in staged[p] : s.key = o).score
                                 ELSE score[o]]
  BY DEF Commit
<1>2. /\ Keys(staged[p]) = Keys(page[p])
      /\ \A o \in Keys(staged[p]) : copies[o] = 0 /\ copies'[o] = 1
      /\ \A o \in Obs \ Keys(staged[p]) : copies'[o] = copies[o] /\ score'[o] = score[o]
      /\ \A s \in staged[p] : s.key \in Obs /\ score'[s.key] = s.score
      /\ copies' \in [Obs -> Nat]
      /\ Processed' = Processed \cup Keys(page[p])
  BY CommitWrites
<1>3. TypeOK'
  <2>1. score' \in [Obs -> Score]
    <3>1. ASSUME NEW o \in Obs PROVE score'[o] \in Score
      <4>1. CASE o \in Keys(staged[p])
        <5>1. PICK s \in staged[p] : s.key = o
          BY <4>1 DEF Keys
        <5> QED
          BY <1>2, <5>1 DEF TypeOK
      <4>2. CASE o \notin Keys(staged[p])
        BY <1>2, <4>2 DEF TypeOK
      <4> QED
        BY <4>1, <4>2
    <3>2. score' = [o \in Obs |-> score'[o]]
      BY <1>1
    <3> QED
      BY <3>1, <3>2
  <2>2. alerts' \subseteq Alert /\ watermark' \in {0} \cup Time
    BY <1>1 DEF TypeOK
  <2>3. /\ rows' \subseteq Row
        /\ created' \subseteq Rule
        /\ live' \subseteq created'
        /\ rule' \in [Rule -> Score]
    BY <1>1 DEF TypeOK, rules
  <2>4. NoRules \in [Rule -> Score]
    BY DEF NoRules, Score
  <2> QED
    BY <1>1, <1>2, <2>1, <2>2, <2>3, <2>4 DEF TypeOK, Close
<1>4. \A q \in Processor \ {p} : Same(q)
  BY <1>1, SessionClosed
<1>5. Exclusive'
  <2>1. staged'[p] = {}
    BY <1>1 DEF Close, TypeOK
  <2>2. \A q \in Processor \ {p} : Keys(staged'[q]) = Keys(staged[q])
    BY <1>4 DEF Same
  <2>3. Keys(staged'[p]) = {}
    BY <2>1 DEF Keys
  <2>4. ASSUME NEW q \in Processor \ {p}, NEW o \in Keys(staged[q])
        PROVE  copies'[o] = 0
    <3>1. o \notin Keys(staged[p]) /\ copies[o] = 0
      BY DEF Exclusive
    <3>2. o \in Obs
      BY DEF TypeOK, Keys
    <3> QED
      BY <1>2, <3>1, <3>2
  <2>5. \A q, s \in Processor : q # s => Keys(staged'[q]) \cap Keys(staged'[s]) = {}
    BY <2>2, <2>3 DEF Exclusive
  <2> QED
    BY <2>2, <2>3, <2>4, <2>5 DEF Exclusive
<1>6. \A q \in Processor : Session(q)'
  <2>1. Session(p)'
    BY <1>1, SessionClosed
  <2>2. ASSUME NEW q \in Processor \ {p} PROVE Session(q)'
    <3>1. \A a \in newAlerts[q] : a.rule \in live'
      BY <1>1 DEF Alerted, rules
    <3> QED
      BY <1>1, <1>4, <3>1, SessionFrame DEF Session
  <2> QED
    BY <2>1, <2>2
<1>7. RowsUnique' /\ Tables'
  <2>1. RowsUnique'
    BY <1>1 DEF RowsUnique
  <2>2. Keys(page[p]) \subseteq Keys(rows)
    BY DEF Working, Keys
  <2>3. Processed' \subseteq Keys(rows')
    BY <1>1, <1>2, <2>2 DEF Tables
  <2>4. \A o \in Obs : copies'[o] = 0 => score'[o] = 0
    BY <1>2 DEF Tables
  <2> QED
    BY <2>1, <2>3, <2>4 DEF Tables
<1>8. \A a \in alerts : a.key \in Processed /\ a.key \notin Keys(staged[p])
  <2>1. \A a \in alerts : a.key \in Processed
    BY DEF NoOrphanAlert
  <2>2. \A o \in Processed : copies[o] # 0
    BY DEF Processed, TypeOK
  <2> QED
    BY <1>2, <2>1, <2>2
<1>9. \A a \in newAlerts[p] : a.key \in Keys(staged[p])
  BY DEF Alerted
<1>10. ExactlyOnce'
  <2>1. \A o \in Obs : copies'[o] <= 1
    BY <1>2 DEF ExactlyOnce
  <2>2. ASSUME NEW a \in newAlerts[p], NEW b \in newAlerts[p],
               a.key = b.key, a.rule = b.rule
        PROVE  a = b
    <3>1. a.severity = b.severity
      BY <2>2 DEF Alerted
    <3>2. a \in Alert /\ b \in Alert
      BY DEF TypeOK
    <3> QED
      BY <2>2, <3>1, <3>2 DEF Alert
  <2>3. \A a, b \in alerts' : a.key = b.key /\ a.rule = b.rule => a = b
    BY <1>1, <1>8, <1>9, <2>2 DEF ExactlyOnce
  <2> QED
    BY <2>1, <2>3 DEF ExactlyOnce
<1>11. WatermarkJustified'
  <2>1. PICK r \in page[p] : r.at = newMark[p]
    BY <1>1, CommitMark
  <2>2. r \in rows' /\ r.key \in Processed'
    BY <1>1, <1>2 DEF Working, Keys
  <2> QED
    BY <1>1, <2>1, <2>2 DEF WatermarkJustified
<1>12. ScoreMatchesAlerts'
  <2> SUFFICES ASSUME NEW o \in Obs
               PROVE  /\ \A a \in alerts' : a.key = o => a.severity <= score'[o]
                      /\ score'[o] # 0 =>
                            \E a \in alerts' : a.key = o /\ a.severity = score'[o]
    BY DEF ScoreMatchesAlerts
  <2>1. CASE o \in Keys(staged[p])
    <3>1. PICK s \in staged[p] : s.key = o
      BY <2>1 DEF Keys
    <3>2. score'[o] = s.score
      BY <1>2, <3>1
    <3>3. current[p] = {}
      BY <1>1 DEF Working
    <3>4. \A a \in newAlerts[p] : a.key = o => a.severity <= s.score
      BY <3>1 DEF Scored
    <3>5. s.score # 0 => \E a \in newAlerts[p] : a.key = o /\ a.severity = s.score
      BY <3>1, <3>3 DEF Scored, Keys
    <3> QED
      BY <1>1, <1>8, <2>1, <3>2, <3>4, <3>5
  <2>2. CASE o \notin Keys(staged[p])
    <3>1. score'[o] = score[o]
      BY <1>2, <2>2
    <3> QED
      BY <1>1, <1>9, <2>2, <3>1 DEF ScoreMatchesAlerts
  <2> QED
    BY <2>1, <2>2
<1>13. NoOrphanAlert'
  <2>1. \A a \in newAlerts[p] : a.rule \in live'
    BY <1>1 DEF Alerted, rules
  <2>2. \A a \in alerts : a.rule \in live'
    BY <1>1 DEF NoOrphanAlert, rules
  <2> QED
    BY <1>1, <1>2, <1>8, <1>9, <2>1, <2>2 DEF NoOrphanAlert
<1> QED
  BY <1>3, <1>5, <1>6, <1>7, <1>10, <1>11, <1>12, <1>13 DEF Session

-----------------------------------------------------------------------------
(* The steps of the rule endpoints and of the ingestion-service.           *)

(* A step outside the sessions that changes no processed row: it must keep *)
(* the types, the rows already there, and the rules alerts refer to.       *)
LEMMA OutsideKeepsInvariant ==
    ASSUME IInv, UNCHANGED <<store, session>>, TypeOK', rows \subseteq rows', RowsUnique',
           \A a \in alerts : a.rule \in live',
           \A q \in Processor : \A a \in newAlerts[q] : a.rule \in live'
    PROVE  IInv'
<1> USE DEF IInv
<1>1. Tables' /\ ExactlyOnce' /\ WatermarkJustified'
  BY DEF Tables, ExactlyOnce, WatermarkJustified, Processed, Keys, store
<1>2. ScoreMatchesAlerts' /\ NoOrphanAlert'
  BY DEF ScoreMatchesAlerts, NoOrphanAlert, Processed, store
<1>3. Exclusive'
  BY DEF Exclusive, Keys, store, session
<1>4. ASSUME NEW q \in Processor PROVE Session(q)'
  <2>1. Same(q)
    BY DEF Same, session
  <2> QED
    BY <2>1, SessionFrame DEF Session
<1> QED
  BY <1>1, <1>2, <1>3, <1>4 DEF Session

(* A rule is created under an id that no alert has.                        *)
LEMMA CreateRuleKeepsInvariant ==
    ASSUME IInv, NEW k \in Rule, NEW s \in Score, CreateRule(k, s)
    PROVE  IInv'
<1> USE DEF IInv, CreateRule
<1>1. TypeOK'
  BY DEF TypeOK, store, session
<1>2. RowsUnique'
  BY DEF RowsUnique
<1>3. \A a \in alerts : a.rule \in live'
  BY DEF NoOrphanAlert
<1>4. \A q \in Processor : \A a \in newAlerts[q] : a.rule \in live'
  BY DEF Alerted
<1> QED
  BY <1>1, <1>2, <1>3, <1>4, OutsideKeepsInvariant

(* An update changes what later cycles read, not what sessions hold.       *)
LEMMA UpdateRuleKeepsInvariant ==
    ASSUME IInv, NEW k \in Rule, NEW s \in Score, UpdateRule(k, s)
    PROVE  IInv'
<1> USE DEF IInv, UpdateRule
<1>1. TypeOK'
  BY DEF TypeOK, store, session
<1>2. RowsUnique'
  BY DEF RowsUnique
<1>3. \A a \in alerts : a.rule \in live'
  BY DEF NoOrphanAlert
<1>4. \A q \in Processor : \A a \in newAlerts[q] : a.rule \in live'
  BY DEF Alerted
<1> QED
  BY <1>1, <1>2, <1>3, <1>4, OutsideKeepsInvariant

(* A rule goes only when no alert, committed or not, refers to it.         *)
LEMMA DeleteRuleKeepsInvariant ==
    ASSUME IInv, NEW k \in Rule, DeleteRule(k)
    PROVE  IInv'
<1> USE DEF IInv, DeleteRule
<1>1. TypeOK'
  BY DEF TypeOK, store, session, Score
<1>2. RowsUnique'
  BY DEF RowsUnique
<1>3. \A a \in alerts : a.rule \in live'
  BY DEF NoOrphanAlert
<1>4. \A q \in Processor : \A a \in newAlerts[q] : a.rule \in live'
  BY DEF Alerted
<1> QED
  BY <1>1, <1>2, <1>3, <1>4, OutsideKeepsInvariant

(* The ingestion-service adds rows of observations it has not stored.      *)
LEMMA IngestedKeepsInvariant ==
    ASSUME IInv, Ingested
    PROVE  IInv'
<1> USE DEF IInv
<1>1. PICK t \in Time \ {r.at : r \in rows}, K \in SUBSET (Obs \ Keys(rows)) :
         rows' = rows \cup {[key |-> o, at |-> t] : o \in K}
  BY DEF Ingested
<1>2. UNCHANGED <<store, rules, session>>
  BY DEF Ingested
<1> DEFINE N == {[key |-> o, at |-> t] : o \in K}
<1>3. N \subseteq Row
  BY DEF Row
<1>4. /\ \A n \in N : n.key \notin Keys(rows)
      /\ \A n, m \in N : n.key = m.key => n = m
  OBVIOUS
<1> HIDE DEF N
<1>5. rows' = rows \cup N
  BY <1>1 DEF N
<1>6. TypeOK'
  BY <1>2, <1>3, <1>5 DEF TypeOK, store, rules, session
<1>7. RowsUnique'
  BY <1>4, <1>5 DEF RowsUnique, Keys
<1>8. \A a \in alerts : a.rule \in live'
  BY <1>2 DEF NoOrphanAlert, rules
<1>9. \A q \in Processor : \A a \in newAlerts[q] : a.rule \in live'
  BY <1>2 DEF Alerted, rules
<1> QED
  BY <1>2, <1>5, <1>6, <1>7, <1>8, <1>9, OutsideKeepsInvariant

-----------------------------------------------------------------------------
(* The invariant.                                                          *)

(* The empty tables and idle sessions satisfy it.                          *)
LEMMA InitInvariant == Init => IInv
<1> SUFFICES ASSUME Init PROVE IInv
  OBVIOUS
<1> USE DEF Init
<1>1. NoRules \in [Rule -> Score]
  BY DEF NoRules, Score
<1>2. TypeOK
  BY <1>1 DEF TypeOK, Score
<1>3. RowsUnique /\ Exclusive /\ Tables
  BY DEF RowsUnique, Exclusive, Tables, Processed, Keys
<1>4. ExactlyOnce /\ WatermarkJustified /\ ScoreMatchesAlerts /\ NoOrphanAlert
  BY DEF ExactlyOnce, WatermarkJustified, ScoreMatchesAlerts, NoOrphanAlert
<1>5. ASSUME NEW p \in Processor
      PROVE  Working(p) /\ Flushed(p) /\ Marked(p) /\ Alerted(p) /\ Scored(p)
  BY DEF Working, Flushed, Marked, Alerted, Scored, Done, Keys
<1> QED
  BY <1>2, <1>3, <1>4, <1>5 DEF IInv

(* Every step of a cycle keeps it.                                         *)
LEMMA CycleKeepsInvariant ==
    ASSUME IInv, CycleNext
    PROVE  IInv'
<1>1. PICK p \in Processor :
         ReadWatermark(p) \/ Step(p) \/ DeadlockVictim(p) \/ Fault(p)
  BY DEF CycleNext
<1>2. CASE ReadWatermark(p)
  BY <1>2, ReadWatermarkKeepsInvariant
<1>3. CASE Poll(p)
  BY <1>3, PollKeepsInvariant
<1>4. CASE PollNothing(p) \/ PollFails(p) \/ EndFailed(p) \/ Abort(p)
  <2>1. Close(p) /\ UNCHANGED <<rows, store, rules>>
    BY <1>4 DEF PollNothing, PollFails, EndFailed, Abort
  <2> QED
    BY <2>1, CloseKeepsInvariant
<1>5. CASE ListRules(p)
  BY <1>5, ListRulesKeepsInvariant
<1>6. CASE SaveObservation(p)
  BY <1>6, SaveObservationKeepsInvariant
<1>7. CASE SaveAlert(p)
  BY <1>7, SaveAlertKeepsInvariant
<1>8. CASE FinishObservation(p)
  BY <1>8, FinishObservationKeepsInvariant
<1>9. CASE ObservationRejected(p) \/ AlertRejected(p) \/ FlushBreaks(p)
  <2>1. RollBack(p) /\ pc[p] \in {"saving", "alerting"}
    BY <1>9 DEF ObservationRejected, AlertRejected, FlushBreaks
  <2> QED
    BY <2>1, RollBackKeepsInvariant
<1>10. CASE DeadlockVictim(p)
  <2>1. RollBack(p) /\ pc[p] = "saving"
    BY <1>10 DEF DeadlockVictim, WaitsFor
  <2> QED
    BY <2>1, RollBackKeepsInvariant
<1>11. CASE UpsertWatermark(p)
  BY <1>11, UpsertWatermarkKeepsInvariant
<1>12. CASE Commit(p)
  BY <1>12, CommitKeepsInvariant
<1> QED
  BY <1>1, <1>2, <1>3, <1>4, <1>5, <1>6, <1>7, <1>8, <1>9, <1>10, <1>11, <1>12
  DEF Step, Fault

(* A step that changes nothing keeps it.                                   *)
LEMMA StutterKeepsInvariant ==
    ASSUME IInv, UNCHANGED vars
    PROVE  IInv'
<1> USE DEF IInv, vars
<1>1. TypeOK' /\ RowsUnique'
  BY DEF TypeOK, RowsUnique, store, rules, session
<1>2. \A a \in alerts : a.rule \in live'
  BY DEF NoOrphanAlert, rules
<1>3. \A q \in Processor : \A a \in newAlerts[q] : a.rule \in live'
  BY DEF Alerted, rules
<1> QED
  BY <1>1, <1>2, <1>3, OutsideKeepsInvariant

(* Every step of the specification keeps it.                               *)
LEMMA NextKeepsInvariant == IInv /\ [Next]_vars => IInv'
<1> SUFFICES ASSUME IInv, [Next]_vars PROVE IInv'
  OBVIOUS
<1>1. CASE CycleNext
  BY <1>1, CycleKeepsInvariant
<1>2. CASE RuleNext
  <2>1. PICK k \in Rule :
           \/ \E s \in Score : CreateRule(k, s) \/ UpdateRule(k, s)
           \/ DeleteRule(k)
    BY <1>2 DEF RuleNext
  <2> QED
    BY <2>1, CreateRuleKeepsInvariant, UpdateRuleKeepsInvariant, DeleteRuleKeepsInvariant
<1>3. CASE Ingested
  BY <1>3, IngestedKeepsInvariant
<1>4. CASE UNCHANGED vars
  BY <1>4, StutterKeepsInvariant
<1> QED
  BY <1>1, <1>2, <1>3, <1>4 DEF Next

(* The tables and the uncommitted work of the sessions agree at every      *)
(* step, whatever the sessions, the rule endpoints and the faults do.      *)
THEOREM Invariant == Spec => []IInv
<1>1. Init => IInv
  BY InitInvariant
<1>2. IInv /\ [Next]_vars => IInv'
  BY NextKeepsInvariant
<1> QED
  BY <1>1, <1>2, PTL DEF Spec

(* Every variable keeps its type.                                          *)
THEOREM TypeCorrect == Spec => []TypeOK
<1>1. IInv => TypeOK
  BY DEF IInv
<1> QED
  BY <1>1, Invariant, PTL

(* However many cycles overlap, no raw observation is processed twice and  *)
(* no rule raises two alerts for it.                                       *)
THEOREM NoDuplicate == Spec => []ExactlyOnce
<1>1. IInv => ExactlyOnce
  BY DEF IInv
<1> QED
  BY <1>1, Invariant, PTL

(* The watermark never speaks for a row that was not processed.            *)
THEOREM WatermarkNotAhead == Spec => []WatermarkJustified
<1>1. IInv => WatermarkJustified
  BY DEF IInv
<1> QED
  BY <1>1, Invariant, PTL

(* A committed severity_score is the highest severity of the committed     *)
(* alerts of the observation, whatever happens to the rules meanwhile.     *)
THEOREM ScoreAgrees == Spec => []ScoreMatchesAlerts
<1>1. IInv => ScoreMatchesAlerts
  BY DEF IInv
<1> QED
  BY <1>1, Invariant, PTL

(* Every committed alert has its rule and its processed observation.       *)
THEOREM AlertsHaveParents == Spec => []NoOrphanAlert
<1>1. IInv => NoOrphanAlert
  BY DEF IInv
<1> QED
  BY <1>1, Invariant, PTL

-----------------------------------------------------------------------------
(* What is seen outside: the tables change in the commits of cycles only.  *)

(* A step that is no commit leaves the tables of the cycles alone, and     *)
(* withdraws no raw row.                                                   *)
LEMMA OnlyCommitsShow ==
    ASSUME [Next]_vars
    PROVE  \/ \E p \in Processor : Commit(p)
           \/ UNCHANGED store /\ rows \subseteq rows'
<1> USE DEF store
<1>1. CASE UNCHANGED vars
  BY <1>1 DEF vars
<1>2. CASE Ingested
  BY <1>2 DEF Ingested
<1>3. CASE RuleNext
  BY <1>3 DEF RuleNext, CreateRule, UpdateRule, DeleteRule
<1>4. CASE CycleNext
  <2>1. PICK p \in Processor :
           ReadWatermark(p) \/ Step(p) \/ DeadlockVictim(p) \/ Fault(p)
    BY <1>4 DEF CycleNext
  <2>2. CASE ReadWatermark(p) \/ Poll(p) \/ PollNothing(p) \/ ListRules(p)
    BY <2>2 DEF ReadWatermark, Poll, PollNothing, ListRules
  <2>3. CASE SaveObservation(p) \/ SaveAlert(p) \/ FinishObservation(p)
    BY <2>3 DEF SaveObservation, SaveAlert, FinishObservation
  <2>4. CASE ObservationRejected(p) \/ AlertRejected(p) \/ DeadlockVictim(p)
    BY <2>4 DEF ObservationRejected, AlertRejected, DeadlockVictim, RollBack
  <2>5. CASE EndFailed(p) \/ UpsertWatermark(p)
    BY <2>5 DEF EndFailed, UpsertWatermark
  <2>6. CASE Commit(p)
    BY <2>6
  <2>7. CASE Fault(p)
    BY <2>7 DEF Fault, PollFails, FlushBreaks, Abort, RollBack
  <2> QED
    BY <2>1, <2>2, <2>3, <2>4, <2>5, <2>6, <2>7 DEF Step
<1> QED
  BY <1>1, <1>2, <1>3, <1>4 DEF Next

(* Neither the cycles nor the rule endpoints touch the raw rows. *)
LEMMA RowsAreForeign ==
    ASSUME CycleNext \/ RuleNext
    PROVE  rows' = rows
<1>1. CASE RuleNext
  BY <1>1 DEF RuleNext, CreateRule, UpdateRule, DeleteRule
<1>2. CASE CycleNext
  BY <1>2
  DEF CycleNext, Step, Fault, ReadWatermark, Poll, PollNothing, PollFails, ListRules,
      SaveObservation, SaveAlert, FinishObservation, ObservationRejected, AlertRejected,
      FlushBreaks, DeadlockVictim, RollBack, EndFailed, UpsertWatermark, Commit, Abort
<1> QED
  BY <1>1, <1>2

(* The observations a commit adds are those of its page: none of them was  *)
(* processed before.                                                       *)
LEMMA CommitConsumesPage ==
    ASSUME IInv, NEW p \in Processor, Commit(p)
    PROVE  /\ Processed \subseteq Processed'
           /\ Processed' \ Processed = Keys(page[p])
<1>1. /\ Processed' = Processed \cup Keys(page[p])
      /\ \A o \in Keys(page[p]) : copies[o] = 0
  BY CommitWrites
<1>2. \A o \in Processed : copies[o] # 0
  BY DEF Processed, IInv, TypeOK
<1> QED
  BY <1>1, <1>2

(* A cycle commits the whole page it was sent, with the stamp of its       *)
(* newest row as the watermark, or nothing.                                *)
THEOREM CyclesAreAtomic == Spec => PageAtomic
<1> DEFINE Whole ==
             copies' # copies \/ watermark' # watermark =>
                \E p \in Processor :
                   /\ page[p] # {}
                   /\ Processed' \ Processed = Keys(page[p])
                   /\ Processed \subseteq Processed'
                   /\ watermark' \in {r.at : r \in page[p]}
                   /\ \A r \in page[p] : r.at <= watermark'
<1>1. IInv /\ [Next]_vars => Whole
  <2> SUFFICES ASSUME IInv, [Next]_vars,
                      copies' # copies \/ watermark' # watermark
               PROVE  Whole
    OBVIOUS
  <2>1. PICK p \in Processor : Commit(p)
    BY OnlyCommitsShow DEF store
  <2>2. pc[p] = "committing" /\ watermark' = newMark[p]
    BY <2>1 DEF Commit
  <2>3. /\ page[p] # {}
        /\ \A r \in page[p] : r.at <= newMark[p]
        /\ \E r \in page[p] : r.at = newMark[p]
    BY <2>2, CommitMark
  <2>4. Processed \subseteq Processed' /\ Processed' \ Processed = Keys(page[p])
    BY <2>1, CommitConsumesPage
  <2> QED
    BY <2>2, <2>3, <2>4
<1>2. [Next]_vars /\ IInv => [Whole]_vars
  BY <1>1
<1> QED
  BY <1>2, Invariant, PTL DEF Spec, PageAtomic

(* Seen from outside, every step of the service publishes rows, consumes   *)
(* one batch, or shows nothing.                                            *)
LEMMA StepImplementsLog == IInv /\ [Next]_vars => [Log!Next]_(Log!vars)
<1> SUFFICES ASSUME IInv, [Next]_vars PROVE [Log!Next]_(Log!vars)
  OBVIOUS
<1>1. CASE UNCHANGED store /\ rows \subseteq rows'
  <2>1. UNCHANGED <<watermark, Processed, alerts>>
    BY <1>1 DEF store, Processed
  <2>2. Log!Publish
    BY <1>1, <2>1 DEF Log!Publish
  <2> QED
    BY <2>2 DEF Log!Next
<1>2. CASE \E p \in Processor : Commit(p)
  <2>1. PICK p \in Processor : Commit(p)
    BY <1>2
  <2>2. /\ pc[p] = "committing"
        /\ watermark' = newMark[p]
        /\ alerts' = alerts \cup newAlerts[p]
        /\ rows' = rows
    BY <2>1 DEF Commit
  <2>3. /\ page[p] # {}
        /\ \A r \in page[p] : r.at <= newMark[p]
        /\ \E r \in page[p] : r.at = newMark[p]
    BY <2>2, CommitMark
  <2>4. Processed \subseteq Processed' /\ Processed' \ Processed = Keys(page[p])
    BY <2>1, CommitConsumesPage
  <2>5. Log!Batch = page[p]
    <3>1. Log!Batch = {r \in rows : r.key \in Processed' \ Processed}
      BY DEF Log!Batch
    <3>2. page[p] \subseteq rows /\ RowsUnique
      BY DEF IInv, Working
    <3>3. {r \in rows : r.key \in Keys(page[p])} = page[p]
      BY <3>2 DEF RowsUnique, Keys
    <3> QED
      BY <2>4, <3>1, <3>3
  <2>6. \A a \in newAlerts[p] : a.key \in Keys(page[p])
    <3>1. Keys(staged[p]) = Keys(page[p])
      BY <2>1, CommitWrites
    <3> QED
      BY <3>1 DEF IInv, Alerted
  <2>7. Log!Consume
    <3>1. Processed' \ Processed = {r.key : r \in Log!Batch}
      BY <2>4, <2>5 DEF Keys
    <3>2. \A a \in alerts' \ alerts : a.key \in Processed' \ Processed
      BY <2>2, <2>4, <2>6
    <3>3. /\ watermark' \in {r.at : r \in Log!Batch}
          /\ \A r \in Log!Batch : r.at <= watermark'
          /\ Log!Batch # {}
      BY <2>2, <2>3, <2>5
    <3> QED
      BY <2>2, <2>4, <3>1, <3>2, <3>3 DEF Log!Consume
  <2> QED
    BY <2>7 DEF Log!Next
<1> QED
  BY <1>1, <1>2, OnlyCommitsShow

(* The service implements the log of ObservationLog: overlapping cycles,   *)
(* failures, retries and edits of rules are not seen outside.              *)
THEOREM ProcessingImplementsLog == Spec => ImplementsLog
<1>1. Init => Log!Init
  BY DEF Init, Log!Init, Processed
<1>2. IInv /\ [Next]_vars => [Log!Next]_(Log!vars)
  BY StepImplementsLog
<1> QED
  BY <1>1, <1>2, Invariant, PTL DEF Spec, ImplementsLog, Log!Spec

-----------------------------------------------------------------------------
(* The watermark, for any number of overlapping and failing cycles.  If    *)
(* rows become visible in the order of their stamps, it passes over no     *)
(* group of equal stamps of which nothing is processed; if moreover no     *)
(* page is cut inside such a group, it passes over no row at all.  These   *)
(* are the two conditions that the deployment has to provide, and both are *)
(* needed: without the first the run pipeline_overlap loses rows, without  *)
(* the second pipeline_split does.                                         *)

(* GroupsBegun holds up to the stamp from which a session asked as well,   *)
(* and that stamp is one of a row.                                         *)
Behind(p) ==
    pc[p] # "idle" =>
        /\ since[p] # 0 => \E r \in rows : r.at = since[p]
        /\ \A r \in rows : r.at <= since[p] => Begun(r)

(* A page is a prefix of the rows newer than that stamp. *)
Prefix(p) ==
    \A b \in page[p], r \in rows \ page[p] : r.at <= since[p] \/ b.at <= r.at

BegunInv ==
    /\ IInv
    /\ GroupsBegun
    /\ \A p \in Processor : Behind(p) /\ Prefix(p)

(* Where pages keep groups whole, the rows of one are processed together.  *)
GroupsTogether ==
    \A r, q \in rows : r.at = q.at /\ q.key \in Processed => r.key \in Processed

(* No row newer than the watermark is processed. *)
NothingBeyond == \A r \in rows : r.key \in Processed => r.at <= watermark

SkipInv == BegunInv /\ GroupsTogether /\ NothingBeyond

(* What StampsOrdered says of a step. *)
Ordered == \A r \in rows' \ rows, q \in rows : q.at < r.at

-----------------------------------------------------------------------------

(* Rows have stamps among the natural numbers, none of them 0. *)
LEMMA StampOfRow == \A r \in Row : r.at \in Nat \ {0}
BY TimeAssumption DEF Row

LEMMA RowStamps ==
    ASSUME TypeOK
    PROVE  /\ \A r \in rows : r.at \in Nat \ {0}
           /\ watermark \in Nat
           /\ \A p \in Processor : since[p] \in Nat
<1>1. rows \subseteq Row /\ watermark \in {0} \cup Time
      /\ \A p \in Processor : since[p] \in {0} \cup Time
  BY DEF TypeOK
<1> QED
  BY <1>1, StampOfRow, StampsAreNaturals

(* Rows are only added, and what is processed stays processed. *)
LEMMA OnlyGrows ==
    ASSUME IInv, [Next]_vars
    PROVE  rows \subseteq rows' /\ Processed \subseteq Processed'
<1>1. CASE \E p \in Processor : Commit(p)
  <2>1. PICK p \in Processor : Commit(p)
    BY <1>1
  <2> QED
    BY <2>1, CommitConsumesPage DEF Commit
<1>2. CASE UNCHANGED store /\ rows \subseteq rows'
  BY <1>2 DEF store, Processed
<1> QED
  BY <1>1, <1>2, OnlyCommitsShow

(* What a step may do to the request of a session: nothing, end it, or one *)
(* of the two steps that make it.                                          *)
LEMMA RequestSteps ==
    ASSUME IInv, [Next]_vars, NEW p \in Processor
    PROVE  \/ /\ since'[p] = since[p] /\ page'[p] = page[p]
              /\ pc[p] = "idle" => pc'[p] = "idle"
           \/ pc'[p] = "idle" /\ page'[p] = {}
           \/ ReadWatermark(p)
           \/ Poll(p)
<1> DEFINE Stays(q) == /\ since'[q] = since[q] /\ page'[q] = page[q]
                       /\ pc[q] = "idle" => pc'[q] = "idle"
<1>1. CASE UNCHANGED session
  BY <1>1 DEF session
<1>2. CASE CycleNext
  <2>1. PICK q \in Processor :
           ReadWatermark(q) \/ Step(q) \/ DeadlockVictim(q) \/ Fault(q)
    BY <1>2 DEF CycleNext
  <2>2. CASE ReadWatermark(q) \/ Poll(q)
    <3>1. q # p => Stays(p)
      BY <2>2 DEF ReadWatermark, Poll, IInv, TypeOK
    <3> QED
      BY <2>2, <3>1
  <2>3. CASE Close(q)
    <3>1. q # p => Stays(p)
      BY <2>3 DEF Close, IInv, TypeOK
    <3>2. pc'[q] = "idle" /\ page'[q] = {}
      BY <2>3 DEF Close, IInv, TypeOK
    <3> QED
      BY <3>1, <3>2
  <2>4. CASE ListRules(q) \/ SaveObservation(q) \/ SaveAlert(q) \/ FinishObservation(q)
             \/ UpsertWatermark(q)
    <3>1. UNCHANGED <<since, page>> /\ pc[q] # "idle"
      BY <2>4 DEF ListRules, SaveObservation, SaveAlert, FinishObservation, UpsertWatermark
    <3>2. q # p => pc'[p] = pc[p]
      BY <2>4 DEF ListRules, SaveObservation, SaveAlert, FinishObservation,
                  UpsertWatermark, IInv, TypeOK
    <3> QED
      BY <3>1, <3>2
  <2>5. CASE ObservationRejected(q) \/ AlertRejected(q) \/ FlushBreaks(q)
             \/ DeadlockVictim(q)
    <3>1. RollBack(q)
      BY <2>5 DEF ObservationRejected, AlertRejected, FlushBreaks, DeadlockVictim
    <3>2. pc[q] # "idle"
      BY <2>5 DEF ObservationRejected, AlertRejected, FlushBreaks, DeadlockVictim, WaitsFor
    <3>3. UNCHANGED <<since, page>>
      BY <3>1 DEF RollBack
    <3>4. q # p => pc'[p] = pc[p]
      BY <3>1 DEF RollBack, IInv, TypeOK
    <3> QED
      BY <3>2, <3>3, <3>4
  <2> QED
    BY <2>1, <2>2, <2>3, <2>4, <2>5
    DEF Step, Fault, PollNothing, PollFails, EndFailed, Commit, Abort
<1>3. RuleNext \/ Ingested => UNCHANGED session
  BY DEF RuleNext, Ingested, CreateRule, UpdateRule, DeleteRule
<1> QED
  BY <1>1, <1>2, <1>3 DEF Next, vars

(* A request in flight is not invalidated by what others do: rows that     *)
(* appear are newer than the stamp it asks from and than its page.         *)
LEMMA RequestStays ==
    ASSUME IInv, TypeOK', rows \subseteq rows', Processed \subseteq Processed', Ordered,
           NEW p \in Processor, Behind(p), Prefix(p),
           since'[p] = since[p], page'[p] = page[p], pc[p] = "idle" => pc'[p] = "idle"
    PROVE  Behind(p)' /\ Prefix(p)'
<1>1. /\ \A r \in rows' : r.at \in Nat \ {0}
      /\ since[p] \in Nat
  <2>1. rows' \subseteq Row
    BY DEF TypeOK
  <2> QED
    BY <2>1, StampOfRow, RowStamps DEF IInv
<1>2. Behind(p)'
  BY <1>1 DEF Behind, Begun, Ordered
<1>3. Prefix(p)'
  <2>1. page[p] \subseteq rows
    BY DEF IInv, Working
  <2> QED
    BY <1>1, <2>1 DEF Prefix, Ordered
<1> QED
  BY <1>2, <1>3

(* The requests of all sessions stay valid. *)
LEMMA RequestsKept ==
    ASSUME BegunInv, [Next]_vars, Ordered, NEW p \in Processor
    PROVE  Behind(p)' /\ Prefix(p)'
<1>1. rows \subseteq rows' /\ Processed \subseteq Processed'
  BY OnlyGrows DEF BegunInv
<1>2. IInv' /\ TypeOK'
  BY NextKeepsInvariant DEF BegunInv, IInv
<1>3. CASE /\ since'[p] = since[p] /\ page'[p] = page[p]
           /\ pc[p] = "idle" => pc'[p] = "idle"
  BY <1>1, <1>2, <1>3, RequestStays DEF BegunInv
<1>4. CASE pc'[p] = "idle" /\ page'[p] = {}
  BY <1>4 DEF Behind, Prefix
<1>5. CASE ReadWatermark(p)
  <2>1. since'[p] = watermark /\ pc[p] = "idle" /\ page' = page /\ UNCHANGED <<rows, store>>
    BY <1>5 DEF ReadWatermark, BegunInv, IInv, TypeOK
  <2>2. page[p] = {}
    BY <2>1 DEF BegunInv, IInv, Working
  <2>3. Behind(p)'
    BY <2>1 DEF BegunInv, IInv, WatermarkJustified, GroupsBegun, Begun, Behind,
                Processed, store
  <2> QED
    BY <2>1, <2>2, <2>3 DEF Prefix
<1>6. CASE Poll(p)
  <2>1. /\ pc[p] # "idle" /\ since' = since /\ UNCHANGED <<rows, store>>
        /\ page'[p] \in Pages(since[p])
    BY <1>6 DEF Poll, BegunInv, IInv, TypeOK
  <2>2. Behind(p)'
    BY <2>1 DEF BegunInv, Behind, Begun, Processed, store
  <2>3. Prefix(p)'
    <3>1. \A r \in rows : r.at \in Nat
      BY RowStamps DEF BegunInv, IInv
    <3>2. since[p] \in Nat
      BY RowStamps DEF BegunInv, IInv
    <3> QED
      BY <2>1, <3>1, <3>2 DEF Prefix, Pages, Newer
  <2> QED
    BY <2>2, <2>3
<1> QED
  BY <1>3, <1>4, <1>5, <1>6, RequestSteps DEF BegunInv

(* A commit moves the watermark over rows that are in its page, have the   *)
(* stamp of one that is, or are below the stamp it asked from.             *)
LEMMA CommitBegins ==
    ASSUME BegunInv, NEW p \in Processor, Commit(p)
    PROVE  GroupsBegun'
<1>1. /\ pc[p] = "committing" /\ rows' = rows /\ watermark' = newMark[p]
  BY DEF Commit
<1>2. PICK b \in page[p] : b.at = newMark[p]
  BY <1>1, CommitMark DEF BegunInv
<1>3. Processed' = Processed \cup Keys(page[p])
  BY CommitWrites DEF BegunInv
<1>4. page[p] \subseteq rows
  BY DEF BegunInv, IInv, Working
<1> SUFFICES ASSUME NEW r \in rows, r.at <= newMark[p] PROVE Begun(r)'
  BY <1>1 DEF GroupsBegun
<1>5. CASE \E q \in page[p] : q.at = r.at
  BY <1>1, <1>3, <1>4, <1>5 DEF Begun, Keys
<1>6. CASE ~ \E q \in page[p] : q.at = r.at
  <2>1. r.at <= since[p] \/ b.at <= r.at
    BY <1>2, <1>6 DEF BegunInv, Prefix
  <2>2. r.at \in Nat /\ b.at \in Nat
    BY <1>2, <1>4, RowStamps DEF BegunInv, IInv
  <2>3. r.at <= since[p]
    BY <1>2, <1>6, <2>1, <2>2
  <2>4. Begun(r)
    BY <1>1, <2>3 DEF BegunInv, Behind
  <2> QED
    BY <1>1, <1>3, <2>4 DEF Begun
<1> QED
  BY <1>5, <1>6

LEMMA BegunStep == BegunInv /\ Ordered /\ [Next]_vars => BegunInv'
<1> SUFFICES ASSUME BegunInv, Ordered, [Next]_vars PROVE BegunInv'
  OBVIOUS
<1>1. IInv'
  BY NextKeepsInvariant DEF BegunInv
<1>2. GroupsBegun'
  <2>1. CASE \E p \in Processor : Commit(p)
    BY <2>1, CommitBegins
  <2>2. CASE UNCHANGED store /\ rows \subseteq rows'
    <3>1. watermark' = watermark /\ Processed' = Processed
      BY <2>2 DEF store, Processed
    <3>2. \A r \in rows' : r.at \in Nat \ {0}
      BY <1>1, StampOfRow DEF IInv, TypeOK
    <3>3. watermark # 0 => \E q \in rows : q.at = watermark
      BY DEF BegunInv, IInv, WatermarkJustified
    <3>4. watermark \in Nat
      BY RowStamps DEF BegunInv, IInv
    <3>5. \A r \in rows' \ rows : ~(r.at <= watermark)
      BY <2>2, <3>2, <3>3, <3>4 DEF Ordered
    <3> QED
      BY <2>2, <3>1, <3>5 DEF BegunInv, GroupsBegun, Begun
  <2> QED
    BY <2>1, <2>2, OnlyCommitsShow DEF BegunInv
<1>3. \A p \in Processor : Behind(p)' /\ Prefix(p)'
  BY RequestsKept
<1> QED
  BY <1>1, <1>2, <1>3 DEF BegunInv

LEMMA BegunInit == Init => BegunInv
BY InitInvariant DEF Init, BegunInv, GroupsBegun, Behind, Prefix

(* Where rows appear in the order of their stamps, the watermark passes    *)
(* over nothing but rows of a group that a page has cut, whatever the      *)
(* cycles do to each other.                                                *)
THEOREM GroupsAreBegun == Spec /\ StampsOrdered => []GroupsBegun
<1>1. Init => BegunInv
  BY BegunInit
<1>2. BegunInv /\ [Next]_vars /\ [Ordered]_rows => BegunInv'
  <2>1. UNCHANGED rows => Ordered
    BY DEF Ordered
  <2> QED
    BY <2>1, BegunStep
<1>3. BegunInv => GroupsBegun
  BY DEF BegunInv
<1>4. StampsOrdered => [][Ordered]_rows
  BY PTL DEF StampsOrdered, Ordered
<1> QED
  BY <1>1, <1>2, <1>3, <1>4, PTL DEF Spec

-----------------------------------------------------------------------------
(* With pages that keep groups whole. *)

LEMMA WholeSkipsNothing ==
    ASSUME SkipInv
    PROVE  NeverSkipped
BY DEF SkipInv, BegunInv, GroupsBegun, Begun, GroupsTogether, NeverSkipped

(* A commit processes groups as a whole. *)
LEMMA CommitTakesGroups ==
    ASSUME SkipInv, GroupsWhole, NEW p \in Processor, Commit(p)
    PROVE  GroupsTogether'
<1>1. rows' = rows
  BY DEF Commit
<1>2. Processed' = Processed \cup Keys(page[p])
  BY CommitWrites DEF SkipInv, BegunInv
<1> SUFFICES ASSUME NEW r \in rows, NEW q \in rows, r.at = q.at, q.key \in Processed'
             PROVE  r.key \in Processed'
  BY <1>1 DEF GroupsTogether
<1>3. CASE q.key \in Processed
  BY <1>2, <1>3 DEF SkipInv, GroupsTogether
<1>4. CASE q.key \in Keys(page[p])
  <2>1. PICK b \in page[p] : b.key = q.key
    BY <1>4 DEF Keys
  <2>2. b = q
    BY <2>1 DEF SkipInv, BegunInv, IInv, Working, RowsUnique
  <2>3. r \in page[p]
    BY <2>2 DEF GroupsWhole
  <2> QED
    BY <1>2, <2>3 DEF Keys
<1> QED
  BY <1>2, <1>3, <1>4

(* A commit moves the watermark forward: the rows at or below the old one  *)
(* are processed, and those of the page were not.                          *)
LEMMA CommitAdvances ==
    ASSUME SkipInv, NEW p \in Processor, Commit(p)
    PROVE  watermark < watermark'
<1>1. pc[p] = "committing" /\ watermark' = newMark[p]
  BY DEF Commit
<1>2. PICK b \in page[p] : b.at = newMark[p]
  BY <1>1, CommitMark DEF SkipInv, BegunInv
<1>3. b \in rows /\ b.key \notin Processed
  <2>1. b \in rows
    BY <1>2 DEF SkipInv, BegunInv, IInv, Working
  <2>2. b.key \in Keys(page[p])
    BY <1>2 DEF Keys
  <2>3. Processed \cap Keys(page[p]) = {}
    BY CommitConsumesPage DEF SkipInv, BegunInv
  <2> QED
    BY <2>1, <2>2, <2>3
<1>4. ~(b.at <= watermark)
  BY <1>3, WholeSkipsNothing DEF NeverSkipped
<1> QED
  BY <1>1, <1>2, <1>3, <1>4, RowStamps DEF SkipInv, BegunInv, IInv

(* Nor is anything beyond it afterwards: what was processed before is at   *)
(* or below the old mark, and the rows of the page at or below the new.    *)
LEMMA CommitReachesAll ==
    ASSUME SkipInv, NEW p \in Processor, Commit(p)
    PROVE  NothingBeyond'
<1>1. pc[p] = "committing" /\ rows' = rows /\ watermark' = newMark[p]
  BY DEF Commit
<1>2. \A b \in page[p] : b.at <= newMark[p]
  BY <1>1, CommitMark DEF SkipInv, BegunInv
<1>3. Processed' = Processed \cup Keys(page[p])
  BY CommitWrites DEF SkipInv, BegunInv
<1>4. watermark < watermark' /\ watermark \in Nat /\ watermark' \in Nat
  <2>1. IInv'
    BY CommitKeepsInvariant DEF SkipInv, BegunInv
  <2> QED
    BY <2>1, CommitAdvances, RowStamps, StampsAreNaturals DEF SkipInv, BegunInv, IInv, TypeOK
<1> SUFFICES ASSUME NEW r \in rows, r.key \in Processed' PROVE r.at <= watermark'
  BY <1>1 DEF NothingBeyond
<1>5. CASE r.key \in Processed
  <2>1. r.at <= watermark /\ r.at \in Nat
    BY <1>5, RowStamps DEF SkipInv, NothingBeyond, BegunInv, IInv
  <2> QED
    BY <1>4, <2>1
<1>6. CASE r.key \in Keys(page[p])
  <2>1. PICK b \in page[p] : b.key = r.key
    BY <1>6 DEF Keys
  <2>2. b = r
    BY <2>1 DEF SkipInv, BegunInv, IInv, Working, RowsUnique
  <2> QED
    BY <1>1, <1>2, <2>2
<1> QED
  BY <1>3, <1>5, <1>6

(* Rows that appear are not processed yet, and no other has their stamp.   *)
LEMMA NewcomersAreUnprocessed ==
    ASSUME SkipInv, IInv', Ordered, UNCHANGED store, rows \subseteq rows'
    PROVE  GroupsTogether' /\ NothingBeyond'
<1>1. watermark' = watermark /\ Processed' = Processed
  BY DEF store, Processed
<1>2. ASSUME NEW r \in rows', r.key \in Processed PROVE r \in rows
  <2>1. PICK q \in rows : q.key = r.key
    BY <1>2 DEF SkipInv, BegunInv, IInv, Tables, Keys
  <2>2. q = r
    BY <2>1 DEF IInv, RowsUnique
  <2> QED
    BY <2>2
<1>3. NothingBeyond'
  BY <1>1, <1>2 DEF SkipInv, NothingBeyond
<1>4. \A r \in rows' : r.at \in Nat
  BY StampOfRow DEF IInv, TypeOK
<1>5. ASSUME NEW r \in rows', NEW q \in rows', r.at = q.at, q.key \in Processed
      PROVE  r.key \in Processed
  <2>1. q \in rows
    BY <1>2, <1>5
  <2>2. r \in rows
    BY <1>4, <1>5, <2>1 DEF Ordered
  <2> QED
    BY <1>5, <2>1, <2>2 DEF SkipInv, GroupsTogether
<1> QED
  BY <1>1, <1>3, <1>5 DEF GroupsTogether

LEMMA SkipStep == SkipInv /\ GroupsWhole /\ Ordered /\ [Next]_vars => SkipInv'
<1> SUFFICES ASSUME SkipInv, GroupsWhole, Ordered, [Next]_vars PROVE SkipInv'
  OBVIOUS
<1>1. BegunInv' /\ IInv'
  BY BegunStep DEF SkipInv, BegunInv
<1>2. GroupsTogether' /\ NothingBeyond'
  BY <1>1, CommitTakesGroups, CommitReachesAll, NewcomersAreUnprocessed, OnlyCommitsShow
  DEF SkipInv, BegunInv
<1> QED
  BY <1>1, <1>2 DEF SkipInv

LEMMA SkipInit == Init => SkipInv
BY BegunInit DEF Init, SkipInv, GroupsTogether, NothingBeyond

(* No row is skipped, whatever the cycles do to each other, as long as     *)
(* rows appear in the order of their stamps and pages keep groups whole.   *)
THEOREM NothingSkipped == Spec /\ StampsOrdered /\ []GroupsWhole => []NeverSkipped
<1>1. Init => SkipInv
  BY SkipInit
<1>2. SkipInv /\ GroupsWhole /\ [Next]_vars /\ [Ordered]_rows => SkipInv'
  <2>1. UNCHANGED rows => Ordered
    BY DEF Ordered
  <2> QED
    BY <2>1, SkipStep
<1>3. SkipInv => NeverSkipped
  BY WholeSkipsNothing
<1>4. StampsOrdered => [][Ordered]_rows
  BY PTL DEF StampsOrdered, Ordered
<1> QED
  BY <1>1, <1>2, <1>3, <1>4, PTL DEF Spec

(* And under the same conditions the watermark says exactly what has been  *)
(* processed.                                                              *)
THEOREM WatermarkIsExact == Spec /\ StampsOrdered /\ []GroupsWhole => []WatermarkExact
<1>1. Init => SkipInv
  BY SkipInit
<1>2. SkipInv /\ GroupsWhole /\ [Next]_vars /\ [Ordered]_rows => SkipInv'
  <2>1. UNCHANGED rows => Ordered
    BY DEF Ordered
  <2> QED
    BY <2>1, SkipStep
<1>3. SkipInv => WatermarkExact
  BY WholeSkipsNothing DEF SkipInv, NeverSkipped, NothingBeyond, WatermarkExact
<1>4. StampsOrdered => [][Ordered]_rows
  BY PTL DEF StampsOrdered, Ordered
<1> QED
  BY <1>1, <1>2, <1>3, <1>4, PTL DEF Spec

(* Under the same two conditions the watermark never goes back, although   *)
(* upsert overwrites it with whatever its cycle has seen.                  *)
THEOREM WatermarkAdvances ==
    Spec /\ StampsOrdered /\ []GroupsWhole => WatermarkMonotone
<1>1. Init => SkipInv
  BY SkipInit
<1>2. SkipInv /\ GroupsWhole /\ [Next]_vars /\ [Ordered]_rows => SkipInv'
  <2>1. UNCHANGED rows => Ordered
    BY DEF Ordered
  <2> QED
    BY <2>1, SkipStep
<1>3. SkipInv /\ [Next]_vars => [watermark <= watermark']_vars
  <2> SUFFICES ASSUME SkipInv, [Next]_vars PROVE watermark <= watermark'
    OBVIOUS
  <2>1. watermark \in Nat /\ watermark' \in Nat
    BY NextKeepsInvariant, StampsAreNaturals DEF SkipInv, BegunInv, IInv, TypeOK
  <2>2. CASE \E p \in Processor : Commit(p)
    BY <2>1, <2>2, CommitAdvances
  <2>3. CASE UNCHANGED store
    BY <2>1, <2>3 DEF store
  <2> QED
    BY <2>2, <2>3, OnlyCommitsShow
<1>4. StampsOrdered => [][Ordered]_rows
  BY PTL DEF StampsOrdered, Ordered
<1> QED
  BY <1>1, <1>2, <1>3, <1>4, PTL DEF Spec, WatermarkMonotone

-----------------------------------------------------------------------------
(* What execute counts, and the result that it returns. *)

(* The alerts of one observation that a session has flushed.               *)
AlertsOf(p, o) == {a \in newAlerts[p] : a.key = o}

(* Those the rules K raise for it.                                         *)
AlertsFor(p, o, K) == {[key |-> o, rule |-> k, severity |-> snapshot[p][k]] : k \in K}

(* The alerts of the rows that the loop has left behind.                   *)
Settled(p) == {a \in newAlerts[p] : a.key \notin Keys(current[p])}

(* A match of the current row is still to save, or has its alert.          *)
Matching(p) ==
    \A r \in current[p] :
        /\ matches[p] \subseteq Matched(p, r.key)
        /\ AlertsOf(p, r.key) = AlertsFor(p, r.key, Matched(p, r.key) \ matches[p])

(* The counters say what the session holds.  Once it has rolled back this  *)
(* is true only if it had finished no row: of such a session alone execute *)
(* returns the counters.                                                   *)
Counting(p) ==
    /\ IsFiniteSet(page[p]) /\ IsFiniteSet(newAlerts[p])
    /\ pc[p] # "failed" => errors[p] = 0 /\ counted[p] = Cardinality(Settled(p))
    /\ pc[p] = "failed" /\ newMark[p] = 0 =>
           errors[p] = Cardinality(page[p]) /\ counted[p] = 0

CountInv ==
    /\ counted \in [Processor -> Nat] /\ errors \in [Processor -> Nat]
    /\ \A p \in Processor : Matching(p) /\ Counting(p)

(* What execute has returned in a session that is still open are the       *)
(* counters of this session, and a COMMIT is all that is left to do.       *)
Returned(p) ==
    /\ pc[p] = "committing" => result[p] = {Result(p)}
    /\ pc[p] \notin {"committing", "idle"} => result[p] = {}

ResultInv ==
    /\ result = [p \in Processor |-> result[p]]
    /\ \A p \in Processor : Returned(p)

(* A step of a session leaves the others as they are.                      *)
LEMMA StepsAreLocal ==
    ASSUME TypeOK, NEW p \in Processor, NEW q \in Processor \ {p},
           ReadWatermark(p) \/ Step(p) \/ DeadlockVictim(p) \/ Fault(p)
    PROVE  Same(q)
<1> USE DEF TypeOK, Same
<1>1. CASE Close(p)
  BY <1>1 DEF Close
<1>2. CASE RollBack(p)
  BY <1>2 DEF RollBack
<1>3. CASE ReadWatermark(p)
  BY <1>3 DEF ReadWatermark
<1>4. CASE Poll(p)
  BY <1>4 DEF Poll
<1>5. CASE ListRules(p) \/ UpsertWatermark(p)
  BY <1>5 DEF ListRules, UpsertWatermark
<1>6. CASE SaveObservation(p)
  BY <1>6 DEF SaveObservation
<1>7. CASE SaveAlert(p)
  BY <1>7 DEF SaveAlert
<1>8. CASE FinishObservation(p)
  BY <1>8 DEF FinishObservation
<1> QED
  BY <1>1, <1>2, <1>3, <1>4, <1>5, <1>6, <1>7, <1>8
  DEF Step, Fault, DeadlockVictim, PollNothing, PollFails, EndFailed, Commit, Abort,
      ObservationRejected, AlertRejected, FlushBreaks

(* The steps with counters are the steps without.                          *)
LEMMA CountedIsCycle ==
    ASSUME NEW p \in Processor,
           \/ Start(p) \/ Uncounted(p) \/ CountAlerts(p) \/ CountErrors(p)
           \/ ReturnUncommitted(p) \/ ReturnNothing(p) \/ ReturnFailed(p) \/ End(p)
    PROVE  ReadWatermark(p) \/ Step(p) \/ DeadlockVictim(p) \/ Fault(p)
BY DEF Start, Uncounted, CountAlerts, CountErrors, ReturnUncommitted, ReturnNothing,
       ReturnFailed, End, Step, Fault

LEMMA CountsRefine == [RNext]_rvars => [Next]_vars
<1>1. RNext => Next
  BY CountedIsCycle DEF RNext, Others, Next, CycleNext
<1> QED
  BY <1>1 DEF rvars

(* Closing a session, or rolling it back, and what the steps of the loop   *)
(* do, on the counters of the others: nothing.                             *)
LEMMA CountsOfOthers ==
    ASSUME CountInv, NEW q \in Processor, Same(q),
           counted'[q] = counted[q], errors'[q] = errors[q]
    PROVE  Matching(q)' /\ Counting(q)'
<1> USE DEF Same
<1>1. Matching(q)'
  BY DEF CountInv, Matching, Matched, AlertsOf, AlertsFor
<1>2. Settled(q)' = Settled(q)
  BY DEF Settled, Keys
<1> QED
  BY <1>1, <1>2 DEF CountInv, Counting

(* The rules that match a row whose matches are all saved are as many as   *)
(* its alerts.                                                             *)
LEMMA MatchesOfAlerts ==
    ASSUME NEW p \in Processor, NEW o, IsFiniteSet(newAlerts[p]),
           AlertsOf(p, o) = AlertsFor(p, o, Matched(p, o))
    PROVE  Cardinality(Matched(p, o)) = Cardinality(AlertsOf(p, o))
<1> DEFINE A == AlertsOf(p, o)
           K == Matched(p, o)
           f == [a \in A |-> a.rule]
<1>1. IsFiniteSet(A)
  BY FS_Subset DEF AlertsOf
<1>2. \A a \in A : \E k \in K : a = [key |-> o, rule |-> k, severity |-> snapshot[p][k]]
  BY DEF AlertsFor
<1>3. \A k \in K : [key |-> o, rule |-> k, severity |-> snapshot[p][k]] \in A
  BY DEF AlertsFor
<1>4. \A a \in A : a.rule \in K
  BY <1>2
<1>5. \A a, b \in A : a.rule = b.rule => a = b
  BY <1>2
<1>6. \A k \in K : \E a \in A : a.rule = k
  BY <1>3
<1> HIDE DEF A, K
<1>7. f \in Bijection(A, K)
  <2>1. f \in [A -> K]
    BY <1>4
  <2> QED
    BY <1>5, <1>6, <2>1, Fun_IsBij
<1>8. ExistsBijection(A, K)
  BY <1>7 DEF ExistsBijection
<1>9. Cardinality(K) = Cardinality(A)
  BY <1>1, <1>8, FS_Bijection
<1> QED
  BY <1>9 DEF A, K

(* Before its loop, and when it is over, a session has no alerts but those *)
(* of the rows left behind.                                                *)
LEMMA SettledBetweenRows ==
    ASSUME NEW p \in Processor, current[p] = {}
    PROVE  Settled(p) = newAlerts[p]
BY DEF Settled, Keys

(* Before anything is flushed there are no alerts.                         *)
LEMMA NothingFlushed ==
    ASSUME IInv, NEW p \in Processor, pc[p] # "failed", page[p] \ todo[p] = {}
    PROVE  current[p] = {} => newAlerts[p] = {}
<1> SUFFICES ASSUME current[p] = {} PROVE newAlerts[p] = {}
  OBVIOUS
<1>1. Keys(Done(p)) = {}
  BY DEF Done, Keys
<1>2. Keys(staged[p]) = {}
  BY <1>1 DEF IInv, Flushed
<1> QED
  BY <1>2 DEF IInv, Alerted

(* The steps in which nothing is counted.                                  *)
LEMMA UncountedKeepsCounts ==
    ASSUME IInv, CountInv, NEW p \in Processor,
           Start(p) \/ Uncounted(p) \/ ReturnUncommitted(p)
    PROVE  Matching(p)' /\ Counting(p)'
<1> USE DEF IInv, TypeOK
<1>1. counted'[p] = counted[p] /\ errors'[p] = errors[p]
  BY DEF Start, Uncounted, ReturnUncommitted
<1>2. Matching(p) /\ Counting(p)
  BY DEF CountInv
<1>3. CASE ReadWatermark(p) \/ UpsertWatermark(p)
  <2>1. /\ page'[p] = page[p] /\ current'[p] = current[p] /\ snapshot'[p] = snapshot[p]
        /\ matches'[p] = matches[p] /\ newAlerts'[p] = newAlerts[p]
        /\ pc[p] # "failed" /\ pc'[p] # "failed"
    BY <1>3 DEF ReadWatermark, UpsertWatermark
  <2>2. Matching(p)'
    BY <1>2, <2>1 DEF Matching, Matched, AlertsOf, AlertsFor
  <2>3. Settled(p)' = Settled(p)
    BY <2>1 DEF Settled, Keys
  <2> QED
    BY <1>1, <1>2, <2>1, <2>2, <2>3 DEF Counting
<1>4. CASE Poll(p) \/ ListRules(p)
  <2>1. /\ current'[p] = current[p] /\ current[p] = {}
        /\ newAlerts'[p] = newAlerts[p]
        /\ pc[p] # "failed" /\ pc'[p] # "failed"
    BY <1>4 DEF Poll, ListRules, Working
  <2>2. IsFiniteSet(page'[p])
    BY <1>2, <1>4 DEF Poll, Pages, ListRules, Counting
  <2>3. Matching(p)'
    BY <2>1 DEF Matching
  <2>4. Settled(p)' = Settled(p)
    BY <2>1 DEF Settled, Keys
  <2> QED
    BY <1>1, <1>2, <2>1, <2>2, <2>3, <2>4 DEF Counting
<1>5. CASE SaveObservation(p)
  <2>1. PICK r \in First(todo[p]) :
           /\ matches' = [matches EXCEPT ![p] = Matched(p, r.key)]
           /\ current' = [current EXCEPT ![p] = {r}]
    BY <1>5 DEF SaveObservation
  <2>2. /\ page'[p] = page[p] /\ newAlerts'[p] = newAlerts[p] /\ snapshot'[p] = snapshot[p]
        /\ pc[p] = "saving" /\ pc'[p] = "alerting"
    BY <1>5 DEF SaveObservation
  <2>3. r \in todo[p] /\ r \in page[p] /\ r \in Row
    BY DEF First, Working
  <2>4. \A a \in newAlerts[p] : a.key # r.key
    <3>1. Keys(staged[p]) = Keys(page[p] \ todo[p])
      BY <2>2 DEF Flushed, Working, Done
    <3>2. \A q \in page[p] \ todo[p] : q.key # r.key
      BY <2>3 DEF Working, RowsUnique
    <3>3. r.key \notin Keys(staged[p])
      BY <3>1, <3>2 DEF Keys
    <3> QED
      BY <3>3 DEF Alerted
  <2>5. matches'[p] = Matched(p, r.key) /\ current'[p] = {r}
    <3>1. Matched(p, r.key) \subseteq Rule
      BY <2>3, BreachesAssumption DEF Matched, Row
    <3> QED
      BY <2>1, <3>1
  <2>6. Matching(p)'
    BY <2>2, <2>4, <2>5 DEF Matching, Matched, AlertsOf, AlertsFor
  <2>7. Settled(p)' = Settled(p)
    <3>1. current[p] = {}
      BY <2>2 DEF Working
    <3> QED
      BY <2>2, <2>4, <2>5, <3>1 DEF Settled, Keys
  <2> QED
    BY <1>1, <1>2, <2>2, <2>6, <2>7 DEF Counting
<1>6. CASE SaveAlert(p)
  <2>1. PICK k \in matches[p] \cap live, r \in current[p] :
           /\ newAlerts' = [newAlerts EXCEPT ![p] = @ \cup
                 {[key |-> r.key, rule |-> k, severity |-> snapshot[p][k]]}]
           /\ matches' = [matches EXCEPT ![p] = @ \ {k}]
    BY <1>6 DEF SaveAlert
  <2> DEFINE n == [key |-> r.key, rule |-> k, severity |-> snapshot[p][k]]
  <2>2. /\ page'[p] = page[p] /\ current'[p] = current[p] /\ snapshot'[p] = snapshot[p]
        /\ pc[p] = "alerting" /\ pc'[p] = pc[p]
    BY <1>6 DEF SaveAlert
  <2>3. newAlerts'[p] = newAlerts[p] \cup {n} /\ matches'[p] = matches[p] \ {k}
    BY <2>1
  <2>4. current[p] = {r}
    BY DEF Working
  <2>5. IsFiniteSet(newAlerts'[p])
    <3>1. IsFiniteSet(newAlerts[p])
      BY <1>2 DEF Counting
    <3> HIDE DEF n
    <3>2. IsFiniteSet(newAlerts[p] \cup {n})
      BY <3>1, FS_AddElement
    <3> QED
      BY <2>3, <3>2
  <2>6. Matching(p)'
    <3> DEFINE M == Matched(p, r.key)
    <3>1. M' = M
      BY <2>2 DEF Matched
    <3>2. /\ matches[p] \subseteq M
          /\ AlertsOf(p, r.key) = AlertsFor(p, r.key, M \ matches[p])
      BY <1>2 DEF Matching
    <3>3. k \in M
      BY <3>2
    <3> HIDE DEF M
    <3>4. AlertsOf(p, r.key)' = AlertsOf(p, r.key) \cup {n}
      BY <2>3 DEF AlertsOf
    <3>5. AlertsFor(p, r.key, M \ matches'[p])
             = AlertsFor(p, r.key, M \ matches[p]) \cup {n}
      BY <2>3, <3>3 DEF AlertsFor
    <3>6. AlertsFor(p, r.key, M \ matches[p])' = AlertsFor(p, r.key, M \ matches'[p])
      BY <2>2, <3>1 DEF AlertsFor
    <3>7. /\ matches'[p] \subseteq M'
          /\ AlertsOf(p, r.key)' = AlertsFor(p, r.key, M \ matches[p])'
      BY <2>3, <3>1, <3>2, <3>4, <3>5, <3>6
    <3>8. ASSUME NEW q \in current'[p] PROVE q = r
      BY <2>2, <2>4
    <3> QED
      BY <3>7, <3>8 DEF Matching, M
  <2>7. Settled(p)' = Settled(p)
    BY <2>2, <2>3, <2>4 DEF Settled, Keys
  <2> QED
    BY <1>1, <1>2, <2>2, <2>5, <2>6, <2>7 DEF Counting
<1> QED
  BY <1>3, <1>4, <1>5, <1>6 DEF Start, Uncounted, ReturnUncommitted

(* A row is finished: the matches counted for it are its alerts, which are *)
(* settled from now on.                                                    *)
LEMMA CountAlertsKeepsCounts ==
    ASSUME IInv, CountInv, NEW p \in Processor, CountAlerts(p)
    PROVE  Matching(p)' /\ Counting(p)'
<1> USE DEF IInv, TypeOK
<1>1. /\ page'[p] = page[p] /\ newAlerts'[p] = newAlerts[p] /\ errors'[p] = errors[p]
      /\ pc[p] = "alerting" /\ pc'[p] = "saving"
      /\ matches[p] = {} /\ current'[p] = {}
  BY DEF CountAlerts, FinishObservation
<1>2. PICK r \in current[p] :
         counted' = [counted EXCEPT ![p] = @ + Cardinality(Matched(p, r.key))]
  BY DEF CountAlerts
<1>3. Matching(p) /\ Counting(p)
  BY DEF CountInv
<1>4. counted'[p] = counted[p] + Cardinality(Matched(p, r.key))
  BY <1>2 DEF CountInv
<1> DEFINE A == AlertsOf(p, r.key)
           S == Settled(p)
<1>5. IsFiniteSet(newAlerts[p]) /\ errors[p] = 0 /\ counted[p] = Cardinality(S)
  BY <1>1, <1>3 DEF Counting
<1>6. A = AlertsFor(p, r.key, Matched(p, r.key))
  <2>1. Matched(p, r.key) \ {} = Matched(p, r.key)
    OBVIOUS
  <2> QED
    BY <1>1, <1>3, <2>1 DEF Matching
<1>7. Cardinality(Matched(p, r.key)) = Cardinality(A)
  BY <1>5, <1>6, MatchesOfAlerts
<1>8. IsFiniteSet(A) /\ IsFiniteSet(S)
  BY <1>5, FS_Subset DEF AlertsOf, Settled
<1>9. newAlerts[p] = S \cup A /\ S \cap A = {}
  <2>1. Keys(current[p]) = {r.key}
    BY DEF Working, Keys
  <2> QED
    BY <2>1 DEF AlertsOf, Settled
<1> HIDE DEF A, S
<1>10. Cardinality(newAlerts[p]) = Cardinality(S) + Cardinality(A)
  <2>1. Cardinality(S \cup A) = Cardinality(S) + Cardinality(A) - Cardinality({})
    BY <1>8, <1>9, FS_Union
  <2>2. Cardinality(S) \in Nat /\ Cardinality(A) \in Nat
    BY <1>8, FS_CardinalityType
  <2> QED
    BY <1>9, <2>1, <2>2, FS_EmptySet
<1>11. Settled(p)' = newAlerts'[p]
  BY <1>1 DEF Settled, Keys
<1>12. counted'[p] = Cardinality(Settled(p)')
  BY <1>1, <1>4, <1>5, <1>7, <1>10, <1>11
<1> QED
  BY <1>1, <1>3, <1>5, <1>12 DEF Matching, Counting

(* A session that rolls back before it has finished a row counts an error  *)
(* for each row of its page, and no alert.                                 *)
LEMMA CountErrorsKeepsCounts ==
    ASSUME IInv, CountInv, NEW p \in Processor, CountErrors(p)
    PROVE  Matching(p)' /\ Counting(p)'
<1> USE DEF IInv, TypeOK
<1>1. RollBack(p) /\ pc[p] \in {"saving", "alerting"}
  BY DEF CountErrors, ObservationRejected, AlertRejected, FlushBreaks, DeadlockVictim,
         WaitsFor
<1>2. /\ page'[p] = page[p] /\ newMark'[p] = newMark[p] /\ newAlerts'[p] = {}
      /\ pc'[p] = "failed" /\ current'[p] = {} /\ counted' = counted
  BY <1>1 DEF RollBack, CountErrors
<1>3. Counting(p)
  BY DEF CountInv
<1>4. errors'[p] = errors[p] + Cardinality(todo[p]) /\ errors[p] = 0
  BY <1>1, <1>3 DEF CountErrors, CountInv, Counting
<1>5. ASSUME newMark[p] = 0
      PROVE  errors'[p] = Cardinality(page[p]) /\ counted[p] = 0
  <2>1. page[p] \ todo[p] = {}
    <3>1. \A r \in page[p] \ todo[p] : r.at <= 0
      BY <1>1, <1>5 DEF Marked
    <3>2. \A r \in page[p] : r.at \in Nat \ {0}
      BY RowStamps DEF Working
    <3> QED
      BY <3>1, <3>2
  <2>2. todo[p] = page[p]
    BY <2>1 DEF Working
  <2>3. Settled(p) = {}
    <3>1. Done(p) = current[p]
      BY <2>1 DEF Done
    <3>2. Keys(staged[p]) = Keys(current[p])
      BY <1>1, <3>1 DEF Flushed
    <3> QED
      BY <3>2 DEF Alerted, Settled
  <2>4. counted[p] = 0
    BY <1>1, <1>3, <2>3, FS_EmptySet DEF Counting
  <2>5. Cardinality(page[p]) \in Nat
    BY <1>3, FS_CardinalityType DEF Counting
  <2> QED
    BY <1>4, <2>2, <2>4, <2>5
<1>6. Matching(p)'
  BY <1>2 DEF Matching
<1>7. Counting(p)'
  BY <1>2, <1>3, <1>5, FS_EmptySet DEF Counting
<1> QED
  BY <1>6, <1>7

(* A closed session has counted nothing.                                   *)
LEMMA ForgetKeepsCounts ==
    ASSUME TypeOK, CountInv, NEW p \in Processor, Close(p), Forget(p)
    PROVE  Matching(p)' /\ Counting(p)'
<1>1. /\ pc'[p] = "idle" /\ page'[p] = {} /\ newAlerts'[p] = {} /\ current'[p] = {}
      /\ counted'[p] = 0 /\ errors'[p] = 0
  BY DEF Close, Forget, TypeOK, CountInv
<1>2. Matching(p)'
  BY <1>1 DEF Matching
<1>3. Settled(p)' = {}
  BY <1>1 DEF Settled
<1> QED
  BY <1>1, <1>2, <1>3, FS_EmptySet DEF Counting

Counts(p) ==
    \/ Start(p) \/ Uncounted(p) \/ CountAlerts(p) \/ CountErrors(p)
    \/ ReturnUncommitted(p) \/ ReturnNothing(p) \/ ReturnFailed(p) \/ End(p)

(* Each step touches the counters of its own session, which stay numbers.  *)
LEMMA CountersTyped ==
    ASSUME IInv, CountInv, NEW p \in Processor, Counts(p)
    PROVE  /\ counted' \in [Processor -> Nat] /\ errors' \in [Processor -> Nat]
           /\ \A q \in Processor \ {p} : counted'[q] = counted[q] /\ errors'[q] = errors[q]
<1> USE DEF CountInv
<1>1. CASE UNCHANGED <<counted, errors>>
  BY <1>1
<1>2. CASE Forget(p)
  BY <1>2 DEF Forget
<1>3. CASE CountAlerts(p)
  <2>1. PICK r \in current[p] :
           counted' = [counted EXCEPT ![p] = @ + Cardinality(Matched(p, r.key))]
    BY <1>3 DEF CountAlerts
  <2>2. matches[p] = {} /\ errors' = errors
    BY <1>3 DEF CountAlerts, FinishObservation
  <2>3. IsFiniteSet(newAlerts[p])
    BY DEF Counting
  <2>4. AlertsOf(p, r.key) = AlertsFor(p, r.key, Matched(p, r.key))
    <3>1. Matched(p, r.key) \ {} = Matched(p, r.key)
      OBVIOUS
    <3> QED
      BY <2>2, <3>1 DEF Matching
  <2>5. Cardinality(Matched(p, r.key)) = Cardinality(AlertsOf(p, r.key))
    BY <2>3, <2>4, MatchesOfAlerts
  <2>6. IsFiniteSet(AlertsOf(p, r.key))
    BY <2>3, FS_Subset DEF AlertsOf
  <2>7. Cardinality(Matched(p, r.key)) \in Nat
    BY <2>5, <2>6, FS_CardinalityType
  <2> QED
    BY <2>1, <2>2, <2>7
<1>4. CASE CountErrors(p)
  <2>1. IsFiniteSet(todo[p])
    <3>1. IsFiniteSet(page[p]) /\ todo[p] \subseteq page[p]
      BY DEF Counting, IInv, Working
    <3> QED
      BY <3>1, FS_Subset
  <2>2. Cardinality(todo[p]) \in Nat
    BY <2>1, FS_CardinalityType
  <2> QED
    BY <1>4, <2>2 DEF CountErrors
<1> QED
  BY <1>1, <1>2, <1>3, <1>4
  DEF Counts, Start, Uncounted, ReturnUncommitted, ReturnNothing, ReturnFailed, End

LEMMA CountsKept ==
    ASSUME IInv, CountInv, NEW p \in Processor, Counts(p)
    PROVE  CountInv'
<1>1. Matching(p)' /\ Counting(p)'
  <2>1. CASE ReturnNothing(p) \/ ReturnFailed(p) \/ End(p)
    <3>1. Close(p) /\ Forget(p)
      BY <2>1 DEF ReturnNothing, ReturnFailed, End, PollNothing, PollFails,
                  Commit, EndFailed, Abort
    <3> QED
      BY <3>1, ForgetKeepsCounts DEF IInv
  <2> QED
    BY <2>1, UncountedKeepsCounts, CountAlertsKeepsCounts, CountErrorsKeepsCounts DEF Counts
<1>2. ASSUME NEW q \in Processor \ {p} PROVE Matching(q)' /\ Counting(q)'
  <2>1. Same(q)
    BY CountedIsCycle, StepsAreLocal DEF IInv, Counts
  <2> QED
    BY <2>1, CountersTyped, CountsOfOthers
<1> QED
  BY <1>1, <1>2, CountersTyped DEF CountInv

LEMMA NextKeepsCounts == IInv /\ CountInv /\ [RNext]_rvars => CountInv'
<1> SUFFICES ASSUME IInv, CountInv, [RNext]_rvars PROVE CountInv'
  OBVIOUS
<1>1. CASE \E p \in Processor : Counts(p)
  BY <1>1, CountsKept
<1>2. CASE UNCHANGED <<session, counted, errors>>
  <2>1. \A q \in Processor : Same(q)
    BY <1>2 DEF session, Same
  <2>2. \A q \in Processor : Matching(q)' /\ Counting(q)'
    BY <1>2, <2>1, CountsOfOthers
  <2> QED
    BY <1>2, <2>2 DEF CountInv
<1>3. Others => UNCHANGED <<session, counted, errors>>
  BY DEF Others, RuleNext, Ingested, CreateRule, UpdateRule, DeleteRule
<1> QED
  BY <1>1, <1>2, <1>3 DEF RNext, Counts, rvars, vars

LEMMA InitCounts == RInit => CountInv
<1> SUFFICES ASSUME RInit PROVE CountInv
  OBVIOUS
<1>1. \A p \in Processor : Settled(p) = {}
  BY DEF RInit, Init, Settled
<1> QED
  BY <1>1, FS_EmptySet DEF RInit, Init, CountInv, Matching, Counting

(* What is returned is what was counted when it was returned, and neither  *)
(* the result nor the counters move before the session ends.               *)
LEMMA ReturnsKept ==
    ASSUME IInv, CountInv, ResultInv, NEW p \in Processor, Counts(p)
    PROVE  ResultInv'
<1> USE DEF IInv, TypeOK, ResultInv, Returned
<1>1. result' = [q \in Processor |-> result'[q]]
  BY DEF Counts, Start, Uncounted, CountAlerts, CountErrors, ReturnUncommitted,
         ReturnNothing, ReturnFailed, End, Return
<1>2. ASSUME NEW q \in Processor \ {p} PROVE Returned(q)'
  <2>1. Same(q) /\ counted'[q] = counted[q] /\ errors'[q] = errors[q]
    BY CountedIsCycle, StepsAreLocal, CountersTyped DEF Counts
  <2>2. result'[q] = result[q]
    BY DEF Counts, Start, Uncounted, CountAlerts, CountErrors, ReturnUncommitted,
           ReturnNothing, ReturnFailed, End, Return
  <2> QED
    BY <2>1, <2>2 DEF Same, Result
<1>3. Returned(p)'
  <2>1. CASE Start(p)
    BY <2>1 DEF Start, ReadWatermark
  <2>2. CASE Uncounted(p) \/ CountAlerts(p) \/ CountErrors(p)
    <3>1. /\ result'[p] = result[p]
          /\ pc[p] \notin {"committing", "idle"} /\ pc'[p] \notin {"committing", "idle"}
      BY <2>2
      DEF Uncounted, Poll, ListRules, SaveObservation, SaveAlert, CountAlerts,
          FinishObservation, CountErrors, ObservationRejected, AlertRejected, FlushBreaks,
          DeadlockVictim, WaitsFor, RollBack
    <3> QED
      BY <3>1
  <2>3. CASE ReturnUncommitted(p)
    <3>1. /\ result'[p] = {Result(p)} /\ pc'[p] = "committing"
          /\ page'[p] = page[p] /\ counted'[p] = counted[p] /\ errors'[p] = errors[p]
      BY <2>3 DEF ReturnUncommitted, Return, UpsertWatermark
    <3> QED
      BY <3>1 DEF Result
  <2>4. CASE ReturnNothing(p) \/ ReturnFailed(p) \/ End(p)
    BY <2>4 DEF ReturnNothing, ReturnFailed, End, PollNothing, PollFails, EndFailed,
                Commit, Abort, Close
  <2> QED
    BY <2>1, <2>2, <2>3, <2>4 DEF Counts
<1> QED
  BY <1>1, <1>2, <1>3

LEMMA NextKeepsReturns == IInv /\ CountInv /\ ResultInv /\ [RNext]_rvars => ResultInv'
<1> SUFFICES ASSUME IInv, CountInv, ResultInv, [RNext]_rvars PROVE ResultInv'
  OBVIOUS
<1>1. CASE \E p \in Processor : Counts(p)
  BY <1>1, ReturnsKept
<1>2. CASE UNCHANGED <<session, counted, errors, result>>
  BY <1>2 DEF ResultInv, Returned, Result, session
<1>3. Others => UNCHANGED <<session, counted, errors, result>>
  BY DEF Others, RuleNext, Ingested, CreateRule, UpdateRule, DeleteRule
<1> QED
  BY <1>1, <1>2, <1>3 DEF RNext, Counts, rvars, vars

LEMMA InitReturns == RInit => ResultInv
BY DEF RInit, Init, ResultInv, Returned

(* Counting changes nothing: what is proved of the cycles without counters *)
(* holds of the cycles with them.                                          *)
THEOREM CountingIsPassive == RSpec => Spec
<1>1. RInit => Init
  BY DEF RInit
<1> QED
  BY <1>1, CountsRefine, PTL DEF RSpec, Spec

(* The counters, and what has been returned of them, agree with what the   *)
(* sessions hold at every step.                                            *)
THEOREM CountsInvariant == RSpec => [](IInv /\ CountInv /\ ResultInv)
<1>1. RInit => IInv /\ CountInv /\ ResultInv
  BY InitInvariant, InitCounts, InitReturns DEF RInit
<1>2. (IInv /\ CountInv /\ ResultInv) /\ [RNext]_rvars => (IInv /\ CountInv /\ ResultInv)'
  BY NextKeepsInvariant, NextKeepsCounts, NextKeepsReturns, CountsRefine
<1> QED
  BY <1>1, <1>2, PTL DEF RSpec

(* What a result says of a commit.                                         *)
LEMMA DoneIsExact ==
    ASSUME IInv, CountInv, NEW p \in Processor, Commit(p)
    PROVE  /\ Cardinality(page[p]) = errors[p] + Cardinality(Processed' \ Processed)
           /\ counted[p] = Cardinality(alerts' \ alerts)
<1> USE DEF IInv
<1>1. pc[p] = "committing" /\ alerts' = alerts \cup newAlerts[p]
  BY DEF Commit
<1>2. IsFiniteSet(page[p]) /\ errors[p] = 0 /\ counted[p] = Cardinality(Settled(p))
  BY <1>1 DEF CountInv, Counting
<1>3. Cardinality(Keys(page[p])) = Cardinality(page[p])
  <2> DEFINE B == page[p]
             f == [r \in B |-> r.key]
  <2>1. \A r, q \in B : r.key = q.key => r = q
    BY DEF Working, RowsUnique
  <2>2. \A r \in B : r.key \in Keys(B)
    BY DEF Keys
  <2>3. \A o \in Keys(B) : \E r \in B : r.key = o
    BY DEF Keys
  <2> HIDE DEF B
  <2>4. f \in [B -> Keys(B)]
    BY <2>2
  <2>5. f \in Bijection(B, Keys(B))
    BY <2>1, <2>3, <2>4, Fun_IsBij
  <2>6. ExistsBijection(B, Keys(B))
    BY <2>5 DEF ExistsBijection
  <2> QED
    BY <1>2, <2>6, FS_Bijection DEF B
<1>4. Processed' \ Processed = Keys(page[p])
  BY CommitConsumesPage
<1>5. alerts' \ alerts = newAlerts[p]
  <2>1. \A a \in newAlerts[p] : copies[a.key] = 0
    BY DEF Alerted, Exclusive
  <2>2. \A a \in alerts : copies[a.key] # 0
    BY DEF NoOrphanAlert, Processed, TypeOK
  <2> QED
    BY <1>1, <2>1, <2>2
<1>6. Settled(p) = newAlerts[p]
  BY <1>1, SettledBetweenRows DEF Working
<1>7. Cardinality(page[p]) = 0 + Cardinality(Keys(page[p]))
  BY <1>2, <1>3, FS_CardinalityType
<1>8. Cardinality(Processed' \ Processed) = Cardinality(Keys(page[p]))
  BY <1>4, Zenon
<1>9. Cardinality(alerts' \ alerts) = Cardinality(Settled(p))
  BY <1>5, <1>6, Zenon
<1> QED
  BY <1>2, <1>7, <1>8, <1>9, Zenon

(* A result that tells of nothing, of a session without a COMMIT.          *)
LEMMA NothingIsExact ==
    ASSUME IInv, CountInv, NEW p \in Processor,
           ReturnNothing(p) \/ (ReturnFailed(p) /\ Returns(p))
    PROVE  /\ Cardinality(page[p]) = errors[p] + Cardinality(Processed' \ Processed)
           /\ counted[p] = Cardinality(alerts' \ alerts)
<1>1. copies' = copies /\ alerts' = alerts
  BY DEF ReturnNothing, ReturnFailed, PollNothing, PollFails, EndFailed, store
<1>2. Cardinality(page[p]) = errors[p] /\ counted[p] = 0
  <2>1. CASE pc[p] = "polling"
    <3>1. page[p] = {} /\ newAlerts[p] = {} /\ current[p] = {}
      BY <2>1, NothingFlushed DEF IInv, Working
    <3>2. Settled(p) = {}
      BY <3>1 DEF Settled
    <3> QED
      BY <2>1, <3>1, <3>2, FS_EmptySet DEF CountInv, Counting
  <2>2. CASE pc[p] = "failed" /\ newMark[p] = 0
    BY <2>2 DEF CountInv, Counting
  <2> QED
    BY <2>1, <2>2
    DEF ReturnNothing, ReturnFailed, Returns, PollNothing, PollFails, EndFailed
<1>3. Processed' \ Processed = {} /\ alerts' \ alerts = {}
  BY <1>1 DEF Processed
<1>4. errors[p] \in Nat
  BY DEF CountInv
<1>5. Cardinality(Processed' \ Processed) = Cardinality({})
  BY <1>3, Zenon
<1>6. Cardinality(alerts' \ alerts) = Cardinality({})
  BY <1>3, Zenon
<1>7. Cardinality({}) = 0
  BY FS_EmptySet
<1>8. errors[p] = errors[p] + 0
  BY <1>4
<1> QED
  BY <1>2, <1>5, <1>6, <1>7, <1>8, Zenon

LEMMA ResultTells ==
    ASSUME NEW p \in Processor,
           Cardinality(page[p]) = errors[p] + Cardinality(Processed' \ Processed),
           counted[p] = Cardinality(alerts' \ alerts)
    PROVE  \A r \in {Result(p)} : Tells(r)
<1>1. Result(p).observations = Cardinality(page[p]) /\ Result(p).alerts = counted[p]
        /\ Result(p).errors = errors[p]
  BY DEF Result
<1>2. Tells(Result(p))
  BY <1>1, Zenon DEF Tells
<1> QED
  BY <1>2

(* Every result that execute returns is exact or void: when its session    *)
(* ends, the observations it counts less its errors are the rows stored,   *)
(* and the alerts it counts are the alerts stored, or it was returned      *)
(* before a COMMIT that failed, and nothing is stored; and nothing is      *)
(* stored without such a result.  For every page, every set of rules and   *)
(* all that other cycles do, although the counters know nothing of the     *)
(* transaction.                                                            *)
THEOREM ReportsAreExact == RSpec => ReportExact
<1> DEFINE Exact(p) ==
             pc[p] # "idle" /\ pc'[p] = "idle" =>
                /\ \A r \in result'[p] : Tells(r) \/ (r \in result[p] /\ UNCHANGED store)
                /\ ~ UNCHANGED store => result'[p] # {}
<1>1. IInv /\ CountInv /\ ResultInv /\ [RNext]_rvars => [\A p \in Processor : Exact(p)]_rvars
  <2> SUFFICES ASSUME IInv, CountInv, ResultInv, RNext,
                      NEW p \in Processor, pc[p] # "idle", pc'[p] = "idle"
               PROVE  /\ \A r \in result'[p] :
                            Tells(r) \/ (r \in result[p] /\ UNCHANGED store)
                      /\ ~ UNCHANGED store => result'[p] # {}
    OBVIOUS
  <2>1. ReturnNothing(p) \/ ReturnFailed(p) \/ End(p)
    <3>1. CASE Others
      BY <3>1 DEF Others, RuleNext, Ingested, CreateRule, UpdateRule, DeleteRule, session
    <3>2. ASSUME NEW q \in Processor \ {p}, Counts(q) PROVE FALSE
      BY <3>2, CountedIsCycle, StepsAreLocal DEF Counts, IInv, Same
    <3>3. CASE Counts(p)
      BY <3>3
      DEF Counts, Start, ReadWatermark, Uncounted, Poll, ListRules, SaveObservation,
          SaveAlert, CountAlerts, FinishObservation, CountErrors, ObservationRejected,
          AlertRejected, FlushBreaks, DeadlockVictim, RollBack, ReturnUncommitted,
          UpsertWatermark, IInv, TypeOK
    <3> QED
      BY <3>1, <3>2, <3>3 DEF RNext, Counts
  <2>2. CASE ReturnNothing(p) \/ (ReturnFailed(p) /\ Returns(p))
    <3>1. result'[p] = {Result(p)} /\ UNCHANGED store
      BY <2>2 DEF ReturnNothing, ReturnFailed, Return, PollNothing, PollFails, EndFailed,
                  ResultInv
    <3> QED
      BY <2>2, <3>1, NothingIsExact, ResultTells
  <2>3. CASE (Abort(p) /\ End(p)) \/ (ReturnFailed(p) /\ ~ Returns(p))
    BY <2>3 DEF End, ReturnFailed, Abort, EndFailed
  <2>4. CASE Commit(p) /\ End(p)
    <3>1. result'[p] = {Result(p)}
      BY <2>4 DEF End, Commit, ResultInv, Returned
    <3> QED
      BY <2>4, <3>1, DoneIsExact, ResultTells
  <2> QED
    BY <2>1, <2>2, <2>3, <2>4 DEF End
<1> QED
  BY <1>1, CountsInvariant, PTL DEF RSpec, ReportExact

=============================================================================
