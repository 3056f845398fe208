-------------------------- MODULE Locations_proofs --------------------------
(***************************************************************************)
(* For every set of locations, columns and requests: a request changes     *)
(* columns it does not name only where its two reads differ, and sets      *)
(* those it names unless the row had their values and lost them.  Both     *)
(* rest on the row versions that open transactions hold: they fit the      *)
(* committed rows.                                                         *)
(***************************************************************************)
EXTENDS Locations, TLAPS

(* The row lock: two open transactions never hold versions of one row. *)
OneWriter ==
    \A q, x \in Request :
        pc[q] = "written" /\ pc[x] = "written" /\ place[q] = place[x] => q = x

(* Requests are about rows that exist: a new row disturbs none of them. *)
PlacesRegistered == \A q \in Request : pc[q] # "idle" => place[q] \in registered

(* A flushed UPDATE still fits the committed row when it commits: nobody   *)
(* commits to the row between the two.                                     *)
PendingFitsTable ==
    \A q \in Request :
        pc[q] = "written" => written[q] = Over(Update(q), table[place[q]])

LocationsInv == TypeOK /\ OneWriter /\ PlacesRegistered /\ PendingFitsTable

-----------------------------------------------------------------------------
(* Setting columns of a row gives a row: the merge of PUT and the UPDATE. *)
LEMMA OverType ==
    ASSUME NEW f \in Fields, NEW r \in Row
    PROVE  Over(f, r) \in Row
<1>1. PICK C \in SUBSET Column : f \in [C -> Value]
    BY DEF Fields
<1>2. ASSUME NEW c \in Column PROVE (IF c \in DOMAIN f THEN f[c] ELSE r[c]) \in Value
    BY <1>1 DEF Row
<1> QED
    BY <1>2 DEF Over, Row

(* The SET list of an UPDATE is a set of columns with their values. *)
LEMMA ChangesType ==
    ASSUME NEW r \in Row, NEW s \in Row
    PROVE  Changes(r, s) \in Fields
<1> DEFINE C == {x \in Column : s[x] # r[x]}
<1>1. Changes(r, s) \in [C -> Value]
    BY DEF Changes, Row
<1> QED
    BY <1>1 DEF Fields

(* The blank row and the fields of DELETE have their types. *)
LEMMA ConstantTypes == Blank \in Row /\ Deactivation \in Fields
<1>1. Blank \in Row
    BY DEF Blank, Row, Value
<1>2. Deactivation \in [{"is_active"} -> Value]
    BY DEF Deactivation, Value
<1> QED
    BY <1>1, <1>2, ColumnAssumption DEF Fields

(* The version a request flushes is a row. *)
LEMMA WrittenType ==
    ASSUME TypeOK, NEW q \in Request
    PROVE  Over(Update(q), table[place[q]]) \in Row
<1>1. fields[q] \in Fields /\ read[q] \in Row /\ loaded[q] \in Row /\ table[place[q]] \in Row
    BY DEF TypeOK
<1>2. Assigned(q) \in Row
    BY <1>1, OverType DEF Assigned
<1>3. Update(q) \in Fields
    BY <1>1, <1>2, ChangesType DEF Update
<1> QED
    BY <1>1, <1>3, OverType

-----------------------------------------------------------------------------
(* A request that ends leaves no version behind and disturbs no other. *)
LEMMA CloseFrame ==
    ASSUME TypeOK, NEW q \in Request, Close(q)
    PROVE  /\ pc'[q] = "idle"
           /\ place' = place
           /\ \A x \in Request \ {q} :
                /\ pc'[x] = pc[x] /\ op'[x] = op[x] /\ fields'[x] = fields[x]
                /\ read'[x] = read[x] /\ loaded'[x] = loaded[x]
                /\ written'[x] = written[x]
BY DEF TypeOK, Close

(* Every step keeps the types. *)
LEMMA TypeStep == TypeOK /\ [Next]_vars => TypeOK'
<1> SUFFICES ASSUME TypeOK, [Next]_vars PROVE TypeOK'
    OBVIOUS
<1>1. ASSUME NEW l \in Location, Register(l) PROVE TypeOK'
    BY <1>1 DEF TypeOK, Register, session
<1>2. ASSUME NEW q \in Request, NEW l \in Location, NEW o \in {"put", "delete"},
             NEW f \in Fields, Get(q, l, o, f)
      PROVE  TypeOK'
    BY <1>2 DEF TypeOK, Get, store
<1>3. ASSUME NEW q \in Request, Select(q) PROVE TypeOK'
    BY <1>3 DEF TypeOK, Select, store
<1>4. ASSUME NEW q \in Request, Flush(q) PROVE TypeOK'
    BY <1>4, WrittenType DEF TypeOK, Flush, store
<1>5. ASSUME NEW q \in Request, Commit(q) PROVE TypeOK'
    BY <1>5, ConstantTypes DEF TypeOK, Commit, Close
<1>6. ASSUME NEW q \in Request, Abort(q) PROVE TypeOK'
    BY <1>6, ConstantTypes DEF TypeOK, Abort, Close, store
<1>7. ASSUME UNCHANGED vars PROVE TypeOK'
    BY <1>7 DEF TypeOK, vars, store, session
<1> QED
    BY <1>1, <1>2, <1>3, <1>4, <1>5, <1>6, <1>7, ConstantTypes
    DEF Next, Step, BeginPut, BeginDelete, NotFound

(* Every step keeps the row locks apart. *)
LEMMA WriterStep == LocationsInv /\ [Next]_vars => OneWriter'
<1> SUFFICES ASSUME LocationsInv, [Next]_vars PROVE OneWriter'
    OBVIOUS
<1> USE DEF LocationsInv, OneWriter
<1>1. ASSUME NEW l \in Location, Register(l) PROVE OneWriter'
    BY <1>1 DEF Register, session
<1>2. ASSUME NEW q \in Request, NEW l \in Location, NEW o \in {"put", "delete"},
             NEW f \in Fields, Get(q, l, o, f)
      PROVE  OneWriter'
    BY <1>2 DEF TypeOK, Get
<1>3. ASSUME NEW q \in Request, Select(q) PROVE OneWriter'
    BY <1>3 DEF TypeOK, Select
<1>4. ASSUME NEW q \in Request, Flush(q) PROVE OneWriter'
    BY <1>4 DEF TypeOK, Flush, RowFree
<1>5. ASSUME NEW q \in Request, Commit(q) \/ Abort(q) PROVE OneWriter'
    BY <1>5, CloseFrame DEF Commit, Abort
<1>6. ASSUME UNCHANGED vars PROVE OneWriter'
    BY <1>6 DEF vars, session
<1> QED
    BY <1>1, <1>2, <1>3, <1>4, <1>5, <1>6, ConstantTypes
    DEF Next, Step, BeginPut, BeginDelete, NotFound

(* A request that stands still, over a row that stands still, still fits. *)
LEMMA FitsFrame ==
    ASSUME PendingFitsTable, NEW x \in Request, pc[x] = "written",
           op'[x] = op[x], place'[x] = place[x], fields'[x] = fields[x],
           read'[x] = read[x], loaded'[x] = loaded[x], written'[x] = written[x],
           table'[place[x]] = table[place[x]]
    PROVE  written'[x] = Over(Update(x), table[place[x]])'
BY DEF PendingFitsTable, Update, Assigned

(* Every step keeps the flushed versions fitting their rows. *)
LEMMA FitsStep == LocationsInv /\ [Next]_vars => PendingFitsTable'
<1> SUFFICES ASSUME LocationsInv, [Next]_vars,
                    NEW x \in Request, pc'[x] = "written"
             PROVE  written'[x] = Over(Update(x), table[place[x]])'
    BY DEF PendingFitsTable
<1> USE DEF LocationsInv
<1>1. ASSUME NEW l \in Location, Register(l)
      PROVE  written'[x] = Over(Update(x), table[place[x]])'
    <2>1. UNCHANGED session /\ pc[x] = "written"
        BY <1>1 DEF Register, session
    <2>2. place[x] # l /\ place[x] \in Location
        BY <1>1, <2>1 DEF Register, TypeOK, PlacesRegistered
    <2>3. table'[place[x]] = table[place[x]]
        BY <1>1, <2>2 DEF Register, TypeOK
    <2> QED
        BY <2>1, <2>3, FitsFrame DEF session
<1>2. ASSUME NEW q \in Request, NEW l \in Location, NEW o \in {"put", "delete"},
             NEW f \in Fields, Get(q, l, o, f)
      PROVE  written'[x] = Over(Update(x), table[place[x]])'
    <2>1. x # q /\ pc[x] = "written"
        BY <1>2 DEF Get, TypeOK
    <2> QED
        BY <1>2, <2>1, FitsFrame DEF Get, TypeOK, store
<1>3. ASSUME NEW q \in Request, Select(q)
      PROVE  written'[x] = Over(Update(x), table[place[x]])'
    <2>1. x # q /\ pc[x] = "written"
        BY <1>3 DEF Select, TypeOK
    <2> QED
        BY <1>3, <2>1, FitsFrame DEF Select, TypeOK, store
<1>4. ASSUME NEW q \in Request, Flush(q)
      PROVE  written'[x] = Over(Update(x), table[place[x]])'
    <2>1. CASE x = q
        BY <1>4, <2>1 DEF Flush, TypeOK, store, Update, Assigned
    <2>2. CASE x # q
        <3>1. pc[x] = "written"
            BY <1>4, <2>2 DEF Flush, TypeOK
        <3> QED
            BY <1>4, <2>2, <3>1, FitsFrame DEF Flush, TypeOK, store
    <2> QED
        BY <2>1, <2>2
<1>5. ASSUME NEW q \in Request, Commit(q)
      PROVE  written'[x] = Over(Update(x), table[place[x]])'
    <2>1. Close(q) /\ pc[q] = "written" /\ table' = [table EXCEPT ![place[q]] = written[q]]
        BY <1>5 DEF Commit
    <2>2. x # q
        BY <2>1, CloseFrame
    <2>3. pc[x] = "written" /\ place[x] # place[q] /\ place' = place
        BY <2>1, <2>2, CloseFrame DEF OneWriter
    <2>4. table'[place[x]] = table[place[x]]
        BY <2>1, <2>3 DEF TypeOK
    <2> QED
        BY <2>1, <2>2, <2>3, <2>4, CloseFrame, FitsFrame
<1>6. ASSUME NEW q \in Request, Abort(q)
      PROVE  written'[x] = Over(Update(x), table[place[x]])'
    <2>1. Close(q) /\ UNCHANGED table
        BY <1>6 DEF Abort, store
    <2>2. x # q /\ place' = place
        BY <2>1, CloseFrame
    <2>3. pc[x] = "written"
        BY <2>1, <2>2, CloseFrame
    <2> QED
        BY <2>1, <2>2, <2>3, CloseFrame, FitsFrame
<1>7. ASSUME UNCHANGED vars
      PROVE  written'[x] = Over(Update(x), table[place[x]])'
    BY <1>7, FitsFrame DEF vars, store, session
<1> QED
    BY <1>1, <1>2, <1>3, <1>4, <1>5, <1>6, <1>7, ConstantTypes
    DEF Next, Step, BeginPut, BeginDelete, NotFound

(* Every step keeps the requests at rows that exist. *)
LEMMA PlacesStep == LocationsInv /\ [Next]_vars => PlacesRegistered'
<1> SUFFICES ASSUME LocationsInv, [Next]_vars PROVE PlacesRegistered'
    OBVIOUS
<1> USE DEF LocationsInv, PlacesRegistered
<1>1. ASSUME NEW l \in Location, Register(l) PROVE PlacesRegistered'
    BY <1>1 DEF Register, session
<1>2. ASSUME NEW q \in Request, NEW l \in Location, NEW o \in {"put", "delete"},
             NEW f \in Fields, Get(q, l, o, f)
      PROVE  PlacesRegistered'
    BY <1>2 DEF TypeOK, Get, store
<1>3. ASSUME NEW q \in Request, Select(q) \/ Flush(q) PROVE PlacesRegistered'
    BY <1>3 DEF TypeOK, Select, Flush, store
<1>4. ASSUME NEW q \in Request, Commit(q) \/ Abort(q) PROVE PlacesRegistered'
    BY <1>4, CloseFrame DEF Commit, Abort, store
<1>5. ASSUME UNCHANGED vars PROVE PlacesRegistered'
    BY <1>5 DEF vars, store, session
<1> QED
    BY <1>1, <1>2, <1>3, <1>4, <1>5, ConstantTypes
    DEF Next, Step, BeginPut, BeginDelete, NotFound

-----------------------------------------------------------------------------
(* The inductive invariant of the location endpoints. *)
THEOREM LocationsInvariant == Spec => []LocationsInv
<1>1. Init => LocationsInv
    BY ConstantTypes DEF Init, LocationsInv, TypeOK, OneWriter, PlacesRegistered,
                         PendingFitsTable, Blank, Row, Value
<1>2. LocationsInv /\ [Next]_vars => LocationsInv'
    BY TypeStep, WriterStep, PlacesStep, FitsStep DEF LocationsInv
<1> QED
    BY <1>1, <1>2, PTL DEF Spec

(* Whatever requests do and whoever overtakes them, rows keep every column *)
(* and its values, and an update names columns of the table only.          *)
THEOREM LocationsTyped == Spec => []TypeOK
<1>1. LocationsInv => TypeOK
    BY DEF LocationsInv
<1> QED
    BY <1>1, LocationsInvariant, PTL

(* A commit changes a column that its request does not name only if the    *)
(* request is a PUT whose two reads differ in that column.                 *)
LEMMA CommitKeeps ==
    ASSUME LocationsInv, NEW q \in Request, Commit(q),
           NEW c \in Column, c \notin DOMAIN fields[q],
           table'[place[q]][c] # table[place[q]][c]
    PROVE  op[q] = "put" /\ read[q][c] # loaded[q][c]
<1> DEFINE l == place[q]
<1>1. table'[l] = Over(Update(q), table[l])
    BY DEF LocationsInv, PendingFitsTable, Commit, TypeOK
<1>2. c \in DOMAIN Update(q)
    BY <1>1 DEF Over
<1>3. Assigned(q)[c] # loaded[q][c]
    BY <1>2 DEF Update, Changes
<1>4. Assigned(q)[c] = IF op[q] = "put" THEN read[q][c] ELSE loaded[q][c]
    BY DEF Assigned, Over
<1> QED
    BY <1>3, <1>4

(* Only between its two reads can a PUT lose what others write. *)
THEOREM LossesAreConfined == Spec => UnnamedKept
<1>1. LocationsInv /\ [Next]_vars =>
        [\A q \in Request, c \in Column :
            LET l == place[q]
            IN  Commit(q) /\ c \notin DOMAIN fields[q] /\ table'[l][c] # table[l][c]
                    => op[q] = "put" /\ read[q][c] # loaded[q][c]]_vars
    BY CommitKeeps
<1> QED
    BY <1>1, LocationsInvariant, PTL DEF Spec, UnnamedKept

(* What a commit leaves of a column that its request names. *)
LEMMA CommitNames ==
    ASSUME LocationsInv, NEW q \in Request, Commit(q),
           NEW c \in Column, c \in DOMAIN fields[q],
           table'[place[q]][c] # fields[q][c]
    PROVE  loaded[q][c] = fields[q][c] /\ table[place[q]][c] # loaded[q][c]
<1> DEFINE l == place[q]
<1>1. table'[l] = Over(Update(q), table[l])
    BY DEF LocationsInv, PendingFitsTable, Commit, TypeOK
<1>2. Assigned(q)[c] = fields[q][c]
    BY DEF Assigned, Over
<1>3. CASE Assigned(q)[c] # loaded[q][c]
    BY <1>1, <1>2, <1>3 DEF Over, Update, Changes
<1>4. CASE Assigned(q)[c] = loaded[q][c]
    <2>1. table'[l][c] = table[l][c]
        BY <1>1, <1>4 DEF Over, Update, Changes
    <2> QED
        BY <1>2, <1>4, <2>1
<1> QED
    BY <1>3, <1>4

(* What a request names takes effect, unless the second reading hides that *)
(* there is anything to write.                                             *)
THEOREM NamedColumnsAreSet == Spec => NamedTakesEffect
<1>1. LocationsInv /\ [Next]_vars =>
        [\A q \in Request, c \in Column :
            LET l == place[q]
            IN  Commit(q) /\ c \in DOMAIN fields[q] /\ table'[l][c] # fields[q][c]
                    => loaded[q][c] = fields[q][c] /\ table[l][c] # loaded[q][c]]_vars
    BY CommitNames
<1> QED
    BY <1>1, LocationsInvariant, PTL DEF Spec, NamedTakesEffect

(* What the commit of an undisturbed PUT leaves of each column. *)
LEMMA CommitSets ==
    ASSUME LocationsInv, NEW q \in Request, Commit(q), op[q] = "put",
           read[q] = loaded[q], loaded[q] = table[place[q]], NEW c \in Column
    PROVE  table'[place[q]][c] =
              IF c \in DOMAIN fields[q] THEN fields[q][c] ELSE table[place[q]][c]
<1> DEFINE l == place[q]
<1>1. table'[l] = Over(Update(q), table[l])
    BY DEF LocationsInv, PendingFitsTable, Commit, TypeOK
<1>2. Assigned(q)[c] = IF c \in DOMAIN fields[q] THEN fields[q][c] ELSE table[l][c]
    BY DEF Assigned, Over
<1>3. CASE Assigned(q)[c] # loaded[q][c]
    BY <1>1, <1>2, <1>3 DEF Over, Update, Changes
<1>4. CASE Assigned(q)[c] = loaded[q][c]
    BY <1>1, <1>2, <1>4 DEF Over, Update, Changes
<1> QED
    BY <1>3, <1>4

(* An undisturbed PUT does exactly what its body says. *)
THEOREM QuietUpdatesAreExact == Spec => QuietUpdate
<1>1. LocationsInv /\ [Next]_vars =>
        [\A q \in Request :
            LET l == place[q]
            IN  op[q] = "put" /\ Commit(q) /\ read[q] = loaded[q] /\ loaded[q] = table[l]
                    => \A c \in Column : table'[l][c] =
                          IF c \in DOMAIN fields[q] THEN fields[q][c] ELSE table[l][c]]_vars
    BY CommitSets
<1> QED
    BY <1>1, LocationsInvariant, PTL DEF Spec, QuietUpdate
=============================================================================
