------------------------------- MODULE Rules -------------------------------
(***************************************************************************)
(* The rule endpoints of the processing-service over the table             *)
(* processing.processing_rules, with the processing cycles whose alerts    *)
(* refer to the rules.  PUT goes as in Locations, but DELETE removes the   *)
(* row, so that either may find the row gone: before its SELECT, or when   *)
(* its statement gets the row lock.  Of a cycle, only the foreign key of   *)
(* its alerts is seen: the INSERT takes a share lock on the rule, which    *)
(* holds off DELETE and not PUT, until the cycle ends.                     *)
(***************************************************************************)
EXTENDS RowUpdate

CONSTANTS
    Rule,       \* ids of rows of processing_rules
    Request,    \* sessions that serve PUT and DELETE
    Cycle       \* sessions that run ProcessObservationsUseCase.execute

VARIABLES
    created,    \* rule ids ever inserted
    live,       \* those with a committed row
    table,      \* their rows
    alerted,    \* rules that committed alerts refer to
    pending,    \* rules that a cycle's uncommitted alerts refer to
    pc,         \* where each request stands
    op,         \* "put" or "delete"
    place,      \* the rule it is about
    fields,     \* the fields named by the body of PUT
    read,       \* the rule as get_by_id found it
    loaded,     \* the rule as the SELECT of update or delete found it
    written     \* the row version PUT has flushed

store == <<created, live, table>>
references == <<alerted, pending>>
session == <<pc, op, place, fields, read, loaded, written>>
vars == <<store, references, session>>

Blank == [c \in Column |-> 0]

(* The fields of an empty body. *)
NoFields == [c \in {} |-> 0]

Init ==
    /\ created = {}
    /\ live = {}
    /\ table = [k \in Rule |-> Blank]
    /\ alerted = {}
    /\ pending = [c \in Cycle |-> {}]
    /\ pc = [q \in Request |-> "idle"]
    /\ op = [q \in Request |-> "put"]
    /\ place \in [Request -> Rule]
    /\ fields = [q \in Request |-> NoFields]
    /\ read = [q \in Request |-> Blank]
    /\ loaded = [q \in Request |-> Blank]
    /\ written = [q \in Request |-> Blank]

(* POST: one INSERT of a new id, seen at its commit. *)
Create(k) ==
    /\ k \notin created
    /\ created' = created \cup {k}
    /\ live' = live \cup {k}
    /\ \E r \in Row : table' = [table EXCEPT ![k] = r]
    /\ UNCHANGED <<references, session>>

Close(q) ==
    /\ pc' = [pc EXCEPT ![q] = "idle"]
    /\ op' = [op EXCEPT ![q] = "put"]
    /\ fields' = [fields EXCEPT ![q] = NoFields]
    /\ read' = [read EXCEPT ![q] = Blank]
    /\ loaded' = [loaded EXCEPT ![q] = Blank]
    /\ written' = [written EXCEPT ![q] = Blank]
    /\ UNCHANGED place

-----------------------------------------------------------------------------
(* PUT. *)

(* get_by_id, for the entity the body is merged into. *)
Get(q, k) ==
    /\ pc[q] = "idle"
    /\ k \in live
    /\ \E f \in Fields : fields' = [fields EXCEPT ![q] = f]
    /\ pc' = [pc EXCEPT ![q] = "read"]
    /\ place' = [place EXCEPT ![q] = k]
    /\ read' = [read EXCEPT ![q] = table[k]]
    /\ UNCHANGED <<store, references, op, loaded, written>>

(* The SELECT of update. *)
Select(q) ==
    /\ pc[q] = "read"
    /\ place[q] \in live
    /\ loaded' = [loaded EXCEPT ![q] = table[place[q]]]
    /\ pc' = [pc EXCEPT ![q] = "loaded"]
    /\ UNCHANGED <<store, references, op, place, fields, read, written>>

(* Seeded bug: update merges the entity, which inserts a row that is gone. *)
SelectMerges(q) ==
    /\ pc[q] = "read"
    /\ place[q] \notin live
    /\ live' = live \cup {place[q]}
    /\ table' = [table EXCEPT ![place[q]] = Over(fields[q], read[q])]
    /\ Close(q)
    /\ UNCHANGED <<created, references>>

(* scalar_one finds no row and raises: an error 500, not the 404 of the    *)
(* use case, and a rollback.                                               *)
SelectRaises(q) ==
    /\ pc[q] = "read"
    /\ place[q] \notin live
    /\ Close(q)
    /\ UNCHANGED <<store, references>>

(* Seeded bug: the SELECT of update and delete is FOR SHARE. *)
RowFreeShared(q) ==
    \A x \in Request \ {q} :
        ~(pc[x] \in {"loaded", "written", "deleted"} /\ place[x] = place[q])

(* PostgreSQL: no other open transaction has updated or deleted the row. *)
RowFree(q) ==
    \A x \in Request \ {q} :
        ~(pc[x] \in {"written", "deleted"} /\ place[x] = place[q])

(* Seeded bug: update(ProcessingRuleModel).values() with every attribute   *)
(* of the entity.                                                          *)
UpdateAll(q) == Over(fields[q], read[q])

Update(q) == Changes(loaded[q], Over(fields[q], read[q]))

(* The UPDATE of the changed columns of the newest committed row. *)
Flush(q) ==
    /\ pc[q] = "loaded" /\ op[q] = "put"
    /\ RowFree(q)
    /\ place[q] \in live
    /\ written' = [written EXCEPT ![q] = Over(Update(q), table[place[q]])]
    /\ pc' = [pc EXCEPT ![q] = "written"]
    /\ UNCHANGED <<store, references, op, place, fields, read, loaded>>

(* The UPDATE matches no row: StaleDataError, an error 500, a rollback. *)
FlushRaises(q) ==
    /\ pc[q] = "loaded" /\ op[q] = "put"
    /\ RowFree(q)
    /\ place[q] \notin live
    /\ Close(q)
    /\ UNCHANGED <<store, references>>

-----------------------------------------------------------------------------
(* DELETE. *)

(* The SELECT of delete. *)
SelectToDelete(q, k) ==
    /\ pc[q] = "idle"
    /\ k \in live
    /\ pc' = [pc EXCEPT ![q] = "loaded"]
    /\ op' = [op EXCEPT ![q] = "delete"]
    /\ place' = [place EXCEPT ![q] = k]
    /\ loaded' = [loaded EXCEPT ![q] = table[k]]
    /\ UNCHANGED <<store, references, fields, read, written>>

(* Seeded bug: the INSERT of an alert takes no lock on its rule. *)
UnreferencedSoFar(k) == k \notin alerted

(* No alert refers to the rule: DELETE waits for cycles with an            *)
(* uncommitted one, and a committed one breaks the foreign key.            *)
Unreferenced(k) == k \notin alerted /\ \A c \in Cycle : k \notin pending[c]

FlushDelete(q) ==
    /\ pc[q] = "loaded" /\ op[q] = "delete"
    /\ RowFree(q)
    /\ place[q] \in live
    /\ Unreferenced(place[q])
    /\ pc' = [pc EXCEPT ![q] = "deleted"]
    /\ UNCHANGED <<store, references, op, place, fields, read, loaded, written>>

(* IntegrityError: an error 500 and a rollback. *)
FlushDeleteRaises(q) ==
    /\ pc[q] = "loaded" /\ op[q] = "delete"
    /\ RowFree(q)
    /\ place[q] \in live \cap alerted
    /\ \A c \in Cycle : place[q] \notin pending[c]
    /\ Close(q)
    /\ UNCHANGED <<store, references>>

(* The DELETE matches no row, which SQLAlchemy only warns of: delete       *)
(* returns True all the same.                                              *)
FlushDeleteMisses(q) ==
    /\ pc[q] = "loaded" /\ op[q] = "delete"
    /\ RowFree(q)
    /\ place[q] \notin live
    /\ pc' = [pc EXCEPT ![q] = "deleted"]
    /\ UNCHANGED <<store, references, op, place, fields, read, loaded, written>>

-----------------------------------------------------------------------------
(* The ends of a request, and the cycles. *)

(* The id is unknown: 404. *)
NotFound(q) ==
    /\ pc[q] = "idle"
    /\ live # Rule
    /\ UNCHANGED vars

CommitPut(q) ==
    /\ pc[q] = "written"
    /\ table' = [table EXCEPT ![place[q]] = written[q]]
    /\ Close(q)
    /\ UNCHANGED <<created, live, references>>

CommitDelete(q) ==
    /\ pc[q] = "deleted"
    /\ live' = live \ {place[q]}
    /\ table' = [table EXCEPT ![place[q]] = Blank]
    /\ Close(q)
    /\ UNCHANGED <<created, references>>

(* An error, a cancelled request, a lost connection, the end of the        *)
(* process: rollback, anywhere.                                            *)
Abort(q) ==
    /\ pc[q] # "idle"
    /\ Close(q)
    /\ UNCHANGED <<store, references>>

(* _alert_repo.save: the foreign key is checked and share-locks the rule.  *)
(* A cycle that finds it gone rolls back (CycleRollsBack).                 *)
SaveAlert(c, k) ==
    /\ k \in live \ pending[c]
    /\ \A q \in Request : ~(pc[q] = "deleted" /\ place[q] = k)
    /\ pending' = [pending EXCEPT ![c] = @ \cup {k}]
    /\ UNCHANGED <<store, alerted, session>>

CycleCommits(c) ==
    /\ pending[c] # {}
    /\ alerted' = alerted \cup pending[c]
    /\ pending' = [pending EXCEPT ![c] = {}]
    /\ UNCHANGED <<store, session>>

CycleRollsBack(c) ==
    /\ pending[c] # {}
    /\ pending' = [pending EXCEPT ![c] = {}]
    /\ UNCHANGED <<store, alerted, session>>

Step(q) ==
    \/ Select(q) \/ SelectRaises(q) \/ Flush(q) \/ FlushRaises(q)
    \/ FlushDelete(q) \/ FlushDeleteRaises(q) \/ FlushDeleteMisses(q)
    \/ CommitPut(q) \/ CommitDelete(q)

CycleEnds(c) == CycleCommits(c) \/ CycleRollsBack(c)

Next ==
    \/ \E k \in Rule : Create(k)
    \/ \E q \in Request :
          \/ \E k \in Rule : Get(q, k) \/ SelectToDelete(q, k)
          \/ NotFound(q) \/ Step(q) \/ Abort(q)
    \/ \E c \in Cycle : CycleEnds(c) \/ \E k \in Rule : SaveAlert(c, k)

Spec == Init /\ [][Next]_vars

(* Requests and cycles that have begun go on; a statement that finds its   *)
(* row free again and again gets it.                                       *)
Fairness ==
    /\ \A q \in Request : SF_vars(Step(q))
    /\ \A c \in Cycle : WF_vars(CycleEnds(c))

LiveSpec == Spec /\ Fairness
-----------------------------------------------------------------------------
(* Properties. *)

(* The variables have their types. *)
TypeOK ==
    /\ created \subseteq Rule
    /\ live \subseteq created
    /\ table \in [Rule -> Row]
    /\ alerted \subseteq Rule
    /\ pending \in [Cycle -> SUBSET Rule]
    /\ pc \in [Request -> {"idle", "read", "loaded", "written", "deleted"}]
    /\ op \in [Request -> {"put", "delete"}]
    /\ place \in [Request -> Rule]
    /\ fields \in [Request -> Fields]
    /\ read \in [Request -> Row]
    /\ loaded \in [Request -> Row]
    /\ written \in [Request -> Row]

(* Alerts keep their rules: no DELETE gets past an alert, committed or     *)
(* not, whatever it saw when it began.                                     *)
AlertsKeepRules == \A k \in alerted \cup UNION {pending[c] : c \in Cycle} : k \in live

(* A rule that has been deleted does not come back, whatever PUTs were on  *)
(* their way.                                                              *)
DeletedStaysDeleted == [][live' \cap created \subseteq live]_vars

(* A column that a PUT does not name is at risk only between its two       *)
(* reads.                                                                  *)
UnnamedKept ==
    [][\A q \in Request, c \in Column :
          LET k == place[q]
          IN  CommitPut(q) /\ c \notin DOMAIN fields[q] /\ table'[k][c] # table[k][c]
                  => read[q][c] # loaded[q][c]]_vars

(* The severity score of a row, where the columns include severity, and    *)
(* what list_active finds of it: 0 of a rule that is not active.           *)
Severity(r) == IF "severity" \in Column /\ r["severity"] = 1 THEN 10 ELSE 2

ScoreOf(r) == IF r["is_active"] = 0 THEN 0 ELSE Severity(r)

(* The alerts that refer to the rules K, one observation standing for all. *)
AlertsAbout(K) == {[key |-> "observation", rule |-> k, severity |-> 2] : k \in K}

(* Processing has one step for each request about rules.  Of its variables *)
(* these steps read the rules and what alerts refer to.                    *)
Atomic == INSTANCE Processing
    WITH Obs <- {"observation"}, Time <- {}, Level <- {2, 10}, BatchLimit <- 1,
         Breaches <- [o \in {"observation"} |-> Rule],
         Processor <- Cycle, Scheduler <- CHOOSE c \in Cycle : TRUE,
         rule <- [k \in Rule |-> IF k \in live THEN ScoreOf(table[k]) ELSE 0],
         alerts <- AlertsAbout(alerted),
         newAlerts <- [c \in Cycle |-> AlertsAbout(pending[c])],
         rows <- {}, watermark <- 0, copies <- 0, score <- 0, pc <- 0, since <- 0,
         page <- 0, todo <- 0, current <- 0, snapshot <- 0, matches <- 0, staged <- 0,
         newMark <- 0

(* Several statements make a request, and others run between them; still   *)
(* whatever requests do to the rules is a sequence of the single steps     *)
(* that Processing takes them for: a new rule, an edit of one that is      *)
(* there, and a DELETE at a moment when no alert, committed or not, refers *)
(* to the rule.                                                            *)
EditsAreAtomic == [][Atomic!RuleNext]_(Atomic!rules)

(* A PUT ends, with an answer or an error, also when its rule is deleted   *)
(* under it.  (A DELETE may wait as long as new alerts of other cycles     *)
(* keep its rule locked.)                                                  *)
UpdateEnds ==
    \A q \in Request : pc[q] # "idle" /\ op[q] = "put" ~> pc[q] = "idle"
=============================================================================
