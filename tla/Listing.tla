------------------------------ MODULE Listing ------------------------------
(***************************************************************************)
(* The three lists that a client may read page by page while rows are      *)
(* committed: alerts and processed observations, newest first by           *)
(* created_at and processed_at, and raw observations, oldest first by      *)
(* ingested_at.  A request runs two statements, list and count, each on a  *)
(* snapshot of its own (READ COMMITTED).  The column of the order is       *)
(* now(), the start of the transaction that stored the row: all rows of a  *)
(* cycle are tied, and a cycle that commits late puts its rows in the      *)
(* middle of the order.  The order of tied rows is another one in every    *)
(* query.  The client asks for pages of Limit, by offset, until one is not *)
(* full.  One table stands for each of the three; only alerts are          *)
(* acknowledged.                                                           *)
(***************************************************************************)
EXTENDS Naturals, FiniteSets

CONSTANTS
    Item,       \* ids of rows
    Chosen,     \* those a filter by severity or location selects
    Time,       \* stamps of the column of the order
    Since,      \* the since parameter
    Limit,      \* the limit parameter, 1 to 500
    MaxItems,   \* bound: rows one cycle commits
    Client      \* readers

ASSUME ItemAssumption == IsFiniteSet(Item)
ASSUME ChosenAssumption == Chosen \subseteq Item
ASSUME TimeAssumption == Time \subseteq Nat \ {0}
ASSUME LimitAssumption == Limit \in Nat \ {0}

(* The lists, with the filters each of them has. *)
Query ==
    ({"alerts"} \X {"all", "chosen", "acknowledged", "unacknowledged"})
        \cup ({"processed"} \X {"all", "chosen"})
        \cup ({"raw"} \X {"all", "chosen", "since"})

VARIABLES
    stamp,          \* stamp of a committed row, 0 of any other id
    acknowledged,   \* rows that are acknowledged
    pc,             \* where each reader stands
    query,          \* the list it reads, and what it filters by
    offset,         \* of the page it asks for
    items,          \* the page it was sent, before the total is known
    total,          \* the total of its last response
    expected,       \* what its query selected when it began
    seen            \* what it has been sent

table == <<stamp, acknowledged>>
reader == <<pc, query, offset, items, total, expected, seen>>
vars == <<table, reader>>

Init ==
    /\ stamp = [a \in Item |-> 0]
    /\ acknowledged = {}
    /\ pc = [c \in Client |-> "idle"]
    /\ query = [c \in Client |-> <<"alerts", "all">>]
    /\ offset = [c \in Client |-> 0]
    /\ items = [c \in Client |-> {}]
    /\ total = [c \in Client |-> 0]
    /\ expected = [c \in Client |-> {}]
    /\ seen = [c \in Client |-> {}]

Stored == {a \in Item : stamp[a] # 0}

(* The WHERE clause that list and count share. *)
Selected(q) ==
    CASE q[2] = "all" -> Stored
      [] q[2] = "chosen" -> Stored \cap Chosen
      [] q[2] = "acknowledged" -> Stored \cap acknowledged
      [] q[2] = "unacknowledged" -> Stored \ acknowledged
      [] q[2] = "since" -> {a \in Stored : stamp[a] > Since}

(* The ORDER BY clause: rows of A may come before rows of B. *)
Before(q, A, B) ==
    \A a \in A, b \in B : IF q[1] = "raw" THEN stamp[a] <= stamp[b]
                                          ELSE stamp[a] >= stamp[b]

LesserOf(m, n) == IF m < n THEN m ELSE n

(* Seeded bug: list has no ORDER BY. *)
PagesUnordered(q, o) ==
    LET R == Selected(q)
        rest == Cardinality(R) - LesserOf(o, Cardinality(R))
    IN  {B \in SUBSET R : Cardinality(B) = LesserOf(Limit, rest)}

(* ORDER BY, LIMIT Limit, OFFSET o: the page B comes after the o rows A,   *)
(* in some order that respects the stamps.                                 *)
Pages(q, o) ==
    LET R == Selected(q)
    IN  {B \in SUBSET R :
            \E A \in SUBSET (R \ B) :
                /\ Cardinality(A) = LesserOf(o, Cardinality(R))
                /\ Cardinality(B) = LesserOf(Limit, Cardinality(R) - Cardinality(A))
                /\ Before(q, A, R \ A) /\ Before(q, B, R \ (A \cup B))}

-----------------------------------------------------------------------------
(* The table. *)

(* A cycle commits its rows, with the stamp of its beginning. *)
CycleCommits ==
    /\ \E A \in SUBSET (Item \ Stored), t \in Time \ {stamp[a] : a \in Item} :
          /\ Cardinality(A) \in 1..MaxItems
          /\ stamp' = [a \in Item |-> IF a \in A THEN t ELSE stamp[a]]
    /\ UNCHANGED <<acknowledged, reader>>

(* PATCH .../acknowledge: what it writes does not depend on what its       *)
(* SELECT found, so that only its commit counts.                           *)
Acknowledge(a) ==
    /\ a \in Stored \ acknowledged
    /\ acknowledged' = acknowledged \cup {a}
    /\ UNCHANGED <<stamp, reader>>

-----------------------------------------------------------------------------
(* The reader. *)

Begin(c) ==
    /\ pc[c] = "idle"
    /\ \E q \in Query :
          /\ query' = [query EXCEPT ![c] = q]
          /\ expected' = [expected EXCEPT ![c] = Selected(q)]
    /\ pc' = [pc EXCEPT ![c] = "listing"]
    /\ offset' = [offset EXCEPT ![c] = 0]
    /\ total' = [total EXCEPT ![c] = 0]
    /\ seen' = [seen EXCEPT ![c] = {}]
    /\ UNCHANGED <<table, items>>

(* The first statement of a request. *)
List(c) ==
    /\ pc[c] = "listing"
    /\ \E B \in Pages(query[c], offset[c]) : items' = [items EXCEPT ![c] = B]
    /\ pc' = [pc EXCEPT ![c] = "counting"]
    /\ UNCHANGED <<table, query, offset, total, expected, seen>>

(* Seeded bug: count lacks "is not None", so that without a filter it asks *)
(* for acknowledged IS NULL.                                               *)
CountedUnguarded(q) ==
    IF q[1] = "alerts" /\ q[2] \in {"all", "chosen"} THEN {} ELSE Selected(q)

(* The rows count counts. *)
Counted(q) == Selected(q)

(* The second one, and the response. *)
Count(c) ==
    /\ pc[c] = "counting"
    /\ total' = [total EXCEPT ![c] = Cardinality(Counted(query[c]))]
    /\ pc' = [pc EXCEPT ![c] = "answered"]
    /\ UNCHANGED <<table, query, offset, items, expected, seen>>

(* The client takes the page; a full one makes it ask for the next. *)
Take(c) ==
    /\ pc[c] = "answered"
    /\ seen' = [seen EXCEPT ![c] = @ \cup items[c]]
    /\ items' = [items EXCEPT ![c] = {}]
    /\ IF Cardinality(items[c]) = Limit
       THEN /\ pc' = [pc EXCEPT ![c] = "listing"]
            /\ offset' = [offset EXCEPT ![c] = @ + Limit]
       ELSE /\ pc' = [pc EXCEPT ![c] = "done"]
            /\ UNCHANGED offset
    /\ UNCHANGED <<table, query, total, expected>>

Restart(c) ==
    /\ pc[c] = "done"
    /\ pc' = [pc EXCEPT ![c] = "idle"]
    /\ query' = [query EXCEPT ![c] = <<"alerts", "all">>]
    /\ offset' = [offset EXCEPT ![c] = 0]
    /\ total' = [total EXCEPT ![c] = 0]
    /\ expected' = [expected EXCEPT ![c] = {}]
    /\ seen' = [seen EXCEPT ![c] = {}]
    /\ UNCHANGED <<table, items>>

Next ==
    \/ CycleCommits
    \/ \E a \in Item : Acknowledge(a)
    \/ \E c \in Client : Begin(c) \/ List(c) \/ Count(c) \/ Take(c) \/ Restart(c)

Spec == Init /\ [][Next]_vars

-----------------------------------------------------------------------------
(* Properties. *)

(* The variables have their types. *)
TypeOK ==
    /\ stamp \in [Item -> {0} \cup Time]
    /\ acknowledged \subseteq Stored
    /\ pc \in [Client -> {"idle", "listing", "counting", "answered", "done"}]
    /\ query \in [Client -> Query]
    /\ offset \in [Client -> 0..Cardinality(Item)]
    /\ items \in [Client -> SUBSET Item]
    /\ total \in [Client -> 0..Cardinality(Item)]
    /\ expected \in [Client -> SUBSET Item]
    /\ seen \in [Client -> SUBSET Item]

(* The queries that a row, once selected, never leaves. *)
Growing == {q \in Query : q[2] # "unacknowledged"}

(* The total of a response is never less than the rows up to the end of    *)
(* its page, although it is counted later than the page is read.           *)
TotalCoversPage ==
    \A c \in Client :
        pc[c] = "answered" /\ query[c] \in Growing /\ items[c] # {} =>
            offset[c] + Cardinality(items[c]) <= total[c]

Tied(a) == \E b \in Stored \ {a} : stamp[b] = stamp[a]

(* Reading the pages in turn misses no row that was there at the start     *)
(* and has a stamp of its own, whatever is committed meanwhile: rows are   *)
(* only pushed towards later pages.  (Tied ones may be missed.)            *)
WalkComplete ==
    \A c \in Client :
        pc[c] = "done" /\ query[c] \in Growing =>
            \A a \in expected[c] \ seen[c] : Tied(a)
=============================================================================
