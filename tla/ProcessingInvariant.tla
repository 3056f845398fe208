------------------------- MODULE ProcessingInvariant -------------------------
(***************************************************************************)
(* The inductive invariant of Processing: what holds between the tables    *)
(* and the uncommitted work of the sessions at every step, from which the  *)
(* safety properties of the tables follow.                                 *)
(***************************************************************************)
EXTENDS Processing

(* The ingestion-service stores an observation once. *)
RowsUnique == \A r, q \in rows : r.key = q.key => r = q

(* The rows a session has dealt with: its loop has finished them, or it is *)
(* saving their alerts.                                                    *)
Done(p) == (page[p] \ todo[p]) \cup current[p]

(* A session works on rows that are stored, and has a current row exactly  *)
(* while it saves alerts.                                                  *)
Working(p) ==
    /\ page[p] \subseteq rows
    /\ todo[p] \subseteq page[p]
    /\ current[p] \subseteq todo[p]
    /\ \A r, q \in current[p] : r = q
    /\ pc[p] = "alerting" => current[p] # {}
    /\ pc[p] # "alerting" => current[p] = {} /\ matches[p] = {}
    /\ pc[p] = "listing" => todo[p] = page[p]
    /\ pc[p] \in {"idle", "polling"} => page[p] = {}
    /\ pc[p] \in {"listing", "saving", "committing"} => page[p] # {}
    /\ pc[p] = "committing" => todo[p] = {}

(* What it has flushed is one processed row for each row dealt with, or    *)
(* nothing once the session has rolled back.                               *)
Flushed(p) ==
    /\ pc[p] # "failed" => Keys(staged[p]) = Keys(Done(p))
    /\ pc[p] = "failed" => staged[p] = {}
    /\ \A s, t \in staged[p] : s.key = t.key => s = t

(* Its watermark-to-be is the newest stamp of the rows finished.           *)
Marked(p) ==
    pc[p] # "failed" =>
        /\ \A r \in page[p] \ todo[p] : r.at <= newMark[p]
        /\ newMark[p] # 0 => \E r \in page[p] \ todo[p] : r.at = newMark[p]

(* Its alerts are about rows it has flushed, one for each rule, with the   *)
(* severity list_active found; their rules cannot be deleted.              *)
Alerted(p) ==
    \A a \in newAlerts[p] :
        /\ a.key \in Keys(staged[p])
        /\ a.rule \in live
        /\ a.severity = snapshot[p][a.rule]

(* Every match of a flushed row has its alert, or will have it before the  *)
(* loop leaves the row; the score of the row is the highest of them.       *)
Scored(p) ==
    \A s \in staged[p] :
        /\ \A a \in newAlerts[p] : a.key = s.key => a.severity <= s.score
        /\ \A k \in matches[p] :
              s.key \in Keys(current[p]) => snapshot[p][k] # 0 /\ snapshot[p][k] <= s.score
        /\ s.score # 0 =>
              \/ \E a \in newAlerts[p] : a.key = s.key /\ a.severity = s.score
              \/ /\ s.key \in Keys(current[p])
                 /\ \E k \in matches[p] : snapshot[p][k] = s.score

(* No two sessions hold, and no session holds and the table has, a         *)
(* processed row for one observation.                                      *)
Exclusive ==
    /\ \A p, q \in Processor : p # q => Keys(staged[p]) \cap Keys(staged[q]) = {}
    /\ \A p \in Processor : \A o \in Keys(staged[p]) : copies[o] = 0

(* The observations of the table are stored, and what is not processed has *)
(* left no trace.                                                          *)
Tables ==
    /\ Processed \subseteq Keys(rows)
    /\ \A o \in Obs : copies[o] = 0 => score[o] = 0

(* The inductive invariant. *)
IInv ==
    /\ TypeOK
    /\ RowsUnique
    /\ Exclusive
    /\ Tables
    /\ ExactlyOnce
    /\ WatermarkJustified
    /\ ScoreMatchesAlerts
    /\ NoOrphanAlert
    /\ \A p \in Processor :
          Working(p) /\ Flushed(p) /\ Marked(p) /\ Alerted(p) /\ Scored(p)

=============================================================================
