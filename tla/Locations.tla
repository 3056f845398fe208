----------------------------- MODULE Locations -----------------------------
(***************************************************************************)
(* The location endpoints of the ingestion-service over the table          *)
(* ingestion.locations.  A request is one session and one READ COMMITTED   *)
(* transaction.  PUT reads the row twice: get_by_id for the entity it      *)
(* merges the body into, and again in the repository's update, which       *)
(* writes to the row the differences between that entity and the second    *)
(* reading.  DELETE reads twice as well, but only sets is_active.  No read *)
(* takes a lock.  updated_at always differs, so that every flush sends an  *)
(* UPDATE; it waits for the row lock and works on the newest committed     *)
(* row.                                                                    *)
(***************************************************************************)
EXTENDS RowUpdate

CONSTANTS
    Location,   \* ids of rows of locations
    Request     \* sessions that serve PUT and DELETE

VARIABLES
    registered, \* locations with a row; rows are never deleted
    table,      \* their committed rows
    pc,         \* where each request stands
    op,         \* "put" or "delete"
    place,      \* the location it is about
    fields,     \* the fields named by the body; is_active = 0 for DELETE
    read,       \* the row as get_by_id found it
    loaded,     \* the row as the repository's second SELECT found it
    written     \* the row version it has flushed

store == <<registered, table>>
session == <<pc, op, place, fields, read, loaded, written>>
vars == <<store, session>>

Blank == [c \in Column |-> 0]

(* What soft_delete sets. *)
Deactivation == [c \in {"is_active"} |-> 0]

Init ==
    /\ registered = {}
    /\ table = [l \in Location |-> Blank]
    /\ pc = [q \in Request |-> "idle"]
    /\ op = [q \in Request |-> "put"]
    /\ place \in [Request -> Location]
    /\ fields = [q \in Request |-> Deactivation]
    /\ read = [q \in Request |-> Blank]
    /\ loaded = [q \in Request |-> Blank]
    /\ written = [q \in Request |-> Blank]

(* POST: a new id, is_active by default.  One INSERT, seen at its commit. *)
Register(l) ==
    /\ l \notin registered
    /\ registered' = registered \cup {l}
    /\ \E r \in Row : r["is_active"] = 1 /\ table' = [table EXCEPT ![l] = r]
    /\ UNCHANGED session

(* The request is served and its session forgets everything. *)
Close(q) ==
    /\ pc' = [pc EXCEPT ![q] = "idle"]
    /\ op' = [op EXCEPT ![q] = "put"]
    /\ fields' = [fields EXCEPT ![q] = Deactivation]
    /\ read' = [read EXCEPT ![q] = Blank]
    /\ loaded' = [loaded EXCEPT ![q] = Blank]
    /\ written' = [written EXCEPT ![q] = Blank]
    /\ UNCHANGED place

(* get_by_id, for the entity a PUT is merged into, or to see that the      *)
(* location of a DELETE exists.                                            *)
Get(q, l, o, f) ==
    /\ pc[q] = "idle"
    /\ l \in registered
    /\ pc' = [pc EXCEPT ![q] = "read"]
    /\ op' = [op EXCEPT ![q] = o]
    /\ place' = [place EXCEPT ![q] = l]
    /\ fields' = [fields EXCEPT ![q] = f]
    /\ read' = [read EXCEPT ![q] = table[l]]
    /\ UNCHANGED <<store, loaded, written>>

BeginPut(q) == \E l \in Location, f \in Fields : Get(q, l, "put", f)
BeginDelete(q) == \E l \in Location : Get(q, l, "delete", Deactivation)

(* get_by_id finds no row: 404. *)
NotFound(q) ==
    /\ pc[q] = "idle"
    /\ registered # Location
    /\ UNCHANGED vars

(* The SELECT of update and soft_delete. *)
Select(q) ==
    /\ pc[q] = "read"
    /\ loaded' = [loaded EXCEPT ![q] = table[place[q]]]
    /\ pc' = [pc EXCEPT ![q] = "loaded"]
    /\ UNCHANGED <<store, op, place, fields, read, written>>

(* The attributes of the model when it is flushed: all of the entity's for *)
(* PUT, the loaded ones with is_active cleared for DELETE.                 *)
Assigned(q) == Over(fields[q], IF op[q] = "put" THEN read[q] ELSE loaded[q])

(* Seeded bug: the model of get_by_id is kept alive, so that the second    *)
(* SELECT returns it from the identity map as it was loaded first.         *)
UpdateOfFirst(q) == Changes(read[q], Assigned(q))

Update(q) == Changes(loaded[q], Assigned(q))

(* Seeded bug: the second SELECT is FOR SHARE. *)
RowFreeShared(q) ==
    \A x \in Request \ {q} : ~(pc[x] \in {"loaded", "written"} /\ place[x] = place[q])

(* PostgreSQL: no other open transaction has written the row. *)
RowFree(q) ==
    \A x \in Request \ {q} : ~(pc[x] = "written" /\ place[x] = place[q])

(* flush: the UPDATE gets the row lock and sets its columns of the newest  *)
(* committed row.                                                          *)
Flush(q) ==
    /\ pc[q] = "loaded"
    /\ RowFree(q)
    /\ written' = [written EXCEPT ![q] = Over(Update(q), table[place[q]])]
    /\ pc' = [pc EXCEPT ![q] = "written"]
    /\ UNCHANGED <<store, op, place, fields, read, loaded>>

(* session.begin() ends. *)
Commit(q) ==
    /\ pc[q] = "written"
    /\ table' = [table EXCEPT ![place[q]] = written[q]]
    /\ Close(q)
    /\ UNCHANGED registered

(* An error, a cancelled request, a lost connection or the end of the      *)
(* process: rollback, anywhere.                                            *)
Abort(q) ==
    /\ pc[q] # "idle"
    /\ Close(q)
    /\ UNCHANGED store

Step(q) == Select(q) \/ Flush(q) \/ Commit(q)

Next ==
    \/ \E l \in Location : Register(l)
    \/ \E q \in Request : BeginPut(q) \/ BeginDelete(q) \/ NotFound(q) \/ Step(q) \/ Abort(q)

Spec == Init /\ [][Next]_vars

(* A request that has begun goes on; waiting transactions get the row lock *)
(* in turn, so none is overtaken forever.                                  *)
Fairness == \A q \in Request : WF_vars(Select(q)) /\ SF_vars(Flush(q)) /\ WF_vars(Commit(q))

LiveSpec == Spec /\ Fairness
-----------------------------------------------------------------------------
(* Properties. *)

(* The variables have their types. *)
TypeOK ==
    /\ registered \subseteq Location
    /\ table \in [Location -> Row]
    /\ pc \in [Request -> {"idle", "read", "loaded", "written"}]
    /\ op \in [Request -> {"put", "delete"}]
    /\ place \in [Request -> Location]
    /\ fields \in [Request -> Fields]
    /\ read \in [Request -> Row]
    /\ loaded \in [Request -> Row]
    /\ written \in [Request -> Row]

(* A PUT that no other request overtook between its reads and its write    *)
(* changes exactly the columns it names, to the values it names.           *)
QuietUpdate ==
    [][\A q \in Request :
          LET l == place[q]
          IN  op[q] = "put" /\ Commit(q) /\ read[q] = loaded[q] /\ loaded[q] = table[l]
                  => \A c \in Column : table'[l][c] =
                        IF c \in DOMAIN fields[q] THEN fields[q][c] ELSE table[l][c]]_vars

(* A column that a request does not name is at risk only between its two   *)
(* reads: what others commit before the first or after the second is kept. *)
UnnamedKept ==
    [][\A q \in Request, c \in Column :
          LET l == place[q]
          IN  Commit(q) /\ c \notin DOMAIN fields[q] /\ table'[l][c] # table[l][c]
                  => op[q] = "put" /\ read[q][c] # loaded[q][c]]_vars

(* A column that a request names gets the value it names, whoever else     *)
(* writes to the row meanwhile; except where the second reading found that *)
(* value already, so that the UPDATE left the column out, and the row has  *)
(* changed since.                                                          *)
NamedTakesEffect ==
    [][\A q \in Request, c \in Column :
          LET l == place[q]
          IN  Commit(q) /\ c \in DOMAIN fields[q] /\ table'[l][c] # fields[q][c]
                  => loaded[q][c] = fields[q][c] /\ table[l][c] # loaded[q][c]]_vars

(* A PUT changes the fields that are sent and keeps the others.  Violated: *)
(* a column another request changed between the two reads is put back to   *)
(* what it was, is_active included, which undoes a soft delete.            *)
PartialUpdate ==
    [][\A q \in Request :
          op[q] = "put" /\ Commit(q) =>
              \A c \in Column \ DOMAIN fields[q] :
                  table'[place[q]][c] = table[place[q]][c]]_vars

(* A request ends: row locks are waited for one at a time, so requests     *)
(* cannot wait for each other in a circle.                                 *)
RequestEnds == \A q \in Request : pc[q] # "idle" ~> pc[q] = "idle"
=============================================================================
