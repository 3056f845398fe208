------------------------- MODULE ProcessingReports -------------------------
(***************************************************************************)
(* Processing with what ProcessObservationsUseCase.execute counts while it *)
(* runs, and the ProcessResultDTO that it returns to POST /process and to  *)
(* the log of the background task.                                         *)
(*                                                                         *)
(* The counters are kept row by row, in a loop that catches the error of   *)
(* each row; the rows are stored by one transaction or not at all.  The    *)
(* result is returned, logged and perhaps sent BEFORE session.begin()      *)
(* commits: it announces a COMMIT, which may still fail.                   *)
(***************************************************************************)
EXTENDS ProcessingInvariant

VARIABLES
    counted,    \* total_alerts of each cycle
    errors,     \* the length of its errors
    result      \* what execute has returned, if it has, until the next cycle

rvars == <<vars, counted, errors, result>>

RInit ==
    /\ Init
    /\ counted = [p \in Processor |-> 0]
    /\ errors = [p \in Processor |-> 0]
    /\ result = [p \in Processor |-> {}]

Forget(p) ==
    /\ counted' = [counted EXCEPT ![p] = 0]
    /\ errors' = [errors EXCEPT ![p] = 0]

(* execute has evaluated the rules, and saved every match by now. *)
CountAlerts(p) ==
    /\ FinishObservation(p)
    /\ \E r \in current[p] :
          counted' = [counted EXCEPT ![p] = @ + Cardinality(Matched(p, r.key))]
    /\ UNCHANGED <<errors, result>>

(* The row whose flush failed and each row after it append a message. *)
CountErrors(p) ==
    /\ ObservationRejected(p) \/ AlertRejected(p) \/ FlushBreaks(p)
          \/ DeadlockVictim(p)
    /\ errors' = [errors EXCEPT ![p] = @ + Cardinality(todo[p])]
    /\ UNCHANGED <<counted, result>>

Result(p) ==
    [observations |-> Cardinality(page[p]), alerts |-> counted[p], errors |-> errors[p]]

Return(p) == result' = [result EXCEPT ![p] = {Result(p)}]

(* A cycle begins; its caller has the result of the last one.              *)
Start(p) ==
    /\ ReadWatermark(p)
    /\ result' = [result EXCEPT ![p] = {}]
    /\ UNCHANGED <<counted, errors>>

(* upsert is the last await of execute: it returns while the transaction   *)
(* is open, and the COMMIT comes next.                                     *)
ReturnUncommitted(p) ==
    /\ UpsertWatermark(p)
    /\ Return(p)
    /\ UNCHANGED <<counted, errors>>

(* Seeded bug: the watermark is not written when there were errors, so     *)
(* that nothing tells execute that the session has rolled back.            *)
ReturnsUnlessClean(p) == TRUE

(* Without new_watermark_ts the rolled-back session is not used again, and *)
(* execute returns; with it the upsert raises.                             *)
Returns(p) == newMark[p] = 0

ReturnFailed(p) ==
    /\ EndFailed(p)
    /\ IF Returns(p) THEN Return(p) ELSE UNCHANGED result
    /\ Forget(p)

(* No rows, or no answer: an empty result, and nothing to commit. *)
ReturnNothing(p) ==
    /\ PollNothing(p) \/ PollFails(p)
    /\ Return(p)
    /\ Forget(p)

(* The session ends: by its COMMIT (also one whose success its client does *)
(* not hear of), or without one, anywhere, after execute has returned too. *)
End(p) ==
    /\ Commit(p) \/ Abort(p)
    /\ Forget(p)
    /\ UNCHANGED result

(* The steps that count nothing. *)
Uncounted(p) ==
    /\ \/ Poll(p) \/ ListRules(p) \/ SaveObservation(p) \/ SaveAlert(p)
    /\ UNCHANGED <<counted, errors, result>>

Others ==
    /\ RuleNext \/ Ingested
    /\ UNCHANGED <<counted, errors, result>>

RNext ==
    \/ \E p \in Processor :
          \/ Start(p) \/ Uncounted(p) \/ CountAlerts(p) \/ CountErrors(p)
          \/ ReturnUncommitted(p) \/ ReturnNothing(p) \/ ReturnFailed(p) \/ End(p)
    \/ Others

RSpec == RInit /\ [][RNext]_rvars /\ CycleFairness

-----------------------------------------------------------------------------

(* The rows and alerts that become visible in this step are those the      *)
(* result r counts, less one row for each error it lists.                  *)
Tells(r) ==
    /\ r.observations = r.errors + Cardinality(Processed' \ Processed)
    /\ r.alerts = Cardinality(alerts' \ alerts)

(* When the session of a cycle ends, its result has told the truth about   *)
(* what the session leaves in the tables: all that the result counts, and  *)
(* no more, although the counters know nothing of the transaction; or, if  *)
(* it was returned before the COMMIT and the COMMIT failed, nothing at all.*)
(* So a result that was heard is exact or void, never right in part, and   *)
(* what is stored has been announced before, row by row.                   *)
ReportExact ==
    [][\A p \in Processor :
          pc[p] # "idle" /\ pc'[p] = "idle" =>
              /\ \A r \in result'[p] : Tells(r) \/ (r \in result[p] /\ UNCHANGED store)
              /\ ~ UNCHANGED store => result'[p] # {}]_rvars

=============================================================================
