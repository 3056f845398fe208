--------------------------- MODULE ObservationLog ---------------------------
(***************************************************************************)
(* What the processing-service promises, whatever it does inside: it       *)
(* consumes published rows in batches.  A batch is visible at once, with   *)
(* all its alerts and with a mark that is the newest stamp of the batch;   *)
(* no observation is in two batches, and no alert is raised about an       *)
(* observation after the batch that consumed it.  Faults, overlapping      *)
(* cycles and retries do not appear here.                                  *)
(***************************************************************************)
EXTENDS Naturals

CONSTANTS Obs, Time

VARIABLES
    raw,     \* published rows
    mark,    \* the stamp from which the next batch is asked for
    done,    \* observations consumed
    raised   \* alerts

vars == <<raw, mark, done, raised>>

Init == raw = {} /\ mark = 0 /\ done = {} /\ raised = {}

(* Rows are published, never withdrawn. *)
Publish ==
    /\ raw \subseteq raw'
    /\ UNCHANGED <<mark, done, raised>>

(* The batch is the set of rows whose observations become done. *)
Batch == {r \in raw : r.key \in done' \ done}

Consume ==
    /\ done \subseteq done'
    /\ Batch # {}
    /\ done' \ done = {r.key : r \in Batch}
    /\ raised \subseteq raised'
    /\ \A a \in raised' \ raised : a.key \in done' \ done
    /\ mark' \in {r.at : r \in Batch}
    /\ \A r \in Batch : r.at <= mark'
    /\ raw' = raw

Next == Publish \/ Consume

Spec == Init /\ [][Next]_vars

=============================================================================
