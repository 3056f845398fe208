---------------------------- MODULE Rules_proofs ----------------------------
(***************************************************************************)
(* For every set of rules, columns, requests and cycles: alerts keep their *)
(* rules, what is deleted stays so, a PUT loses only what others write     *)
(* between its reads, and requests change the rules in single steps.       *)
(***************************************************************************)
EXTENDS Rules, TLAPS

Holds(q) == pc[q] \in {"written", "deleted"}

(* The row lock: two open transactions never hold one rule. *)
OneHolder ==
    \A q, x \in Request : Holds(q) /\ Holds(x) /\ place[q] = place[x] => q = x

(* Requests are about rules that existed: a new rule is none of theirs. *)
PlacesCreated == \A q \in Request : pc[q] # "idle" => place[q] \in created

(* The share lock: what is being deleted has no alert, and gets none.  The *)
(* safety of DELETE is decided at its flush and takes effect at its        *)
(* commit; this is what holds in between.                                  *)
DeletionSafe == \A q \in Request : pc[q] = "deleted" => Unreferenced(place[q])

(* A PUT that has flushed will commit to a rule that is still there, and   *)
(* to the row it was flushed over.                                         *)
PendingFitsTable ==
    \A q \in Request :
        pc[q] = "written" =>
            /\ place[q] \in live
            /\ written[q] = Over(Update(q), table[place[q]])

RulesInv ==
    /\ TypeOK /\ OneHolder /\ PlacesCreated
    /\ PendingFitsTable /\ AlertsKeepRules /\ DeletionSafe

-----------------------------------------------------------------------------
(* Setting columns of a row gives a row: the merge of PUT and the UPDATE. *)
LEMMA OverType ==
    ASSUME NEW f \in Fields, NEW r \in Row
    PROVE  Over(f, r) \in Row
<1>1. PICK C \in SUBSET Column : f \in [C -> Value]
    BY DEF Fields
<1>2. ASSUME NEW c \in Column PROVE (IF c \in DOMAIN f THEN f[c] ELSE r[c]) \in Value
    BY <1>1 DEF Row
<1> QED
    BY <1>2 DEF Over, Row

(* The version a PUT flushes is a row. *)
LEMMA WrittenType ==
    ASSUME TypeOK, NEW q \in Request
    PROVE  Over(Update(q), table[place[q]]) \in Row
<1>1. fields[q] \in Fields /\ read[q] \in Row /\ loaded[q] \in Row /\ table[place[q]] \in Row
    BY DEF TypeOK
<1> DEFINE s == Over(fields[q], read[q])
           C == {x \in Column : s[x] # loaded[q][x]}
<1>2. s \in Row
    BY <1>1, OverType
<1>3. Changes(loaded[q], s) \in [C -> Value]
    BY <1>2 DEF Changes, Row
<1>4. Update(q) \in Fields
    BY <1>3 DEF Update, Fields
<1> QED
    BY <1>1, <1>4, OverType

(* The blank row and the empty body have their types. *)
LEMMA ConstantTypes == Blank \in Row /\ NoFields \in Fields
<1>1. Blank \in Row
    BY DEF Blank, Row, Value
<1>2. NoFields \in [{} -> Value]
    BY DEF NoFields
<1> QED
    BY <1>1, <1>2 DEF Fields

(* A request that ends holds nothing and disturbs no other. *)
LEMMA CloseFrame ==
    ASSUME TypeOK, NEW q \in Request, Close(q)
    PROVE  /\ pc'[q] = "idle"
           /\ place' = place
           /\ \A x \in Request \ {q} :
                /\ pc'[x] = pc[x] /\ op'[x] = op[x] /\ fields'[x] = fields[x]
                /\ read'[x] = read[x] /\ loaded'[x] = loaded[x]
                /\ written'[x] = written[x]
BY DEF TypeOK, Close

(* The steps that end a request without an effect. *)
LEMMA Failures ==
    ASSUME NEW q \in Request,
           SelectRaises(q) \/ FlushRaises(q) \/ FlushDeleteRaises(q) \/ Abort(q)
    PROVE  Close(q) /\ UNCHANGED <<store, references>>
BY DEF SelectRaises, FlushRaises, FlushDeleteRaises, Abort

(* What the steps that end a request without a commit have in common. *)
Failure(q) == Close(q) /\ UNCHANGED <<store, references>>

(* Every step keeps the types. *)
LEMMA TypeStep == TypeOK /\ [Next]_vars => TypeOK'
<1> SUFFICES ASSUME TypeOK, [Next]_vars PROVE TypeOK'
    OBVIOUS
<1>1. ASSUME NEW k \in Rule, Create(k) PROVE TypeOK'
    BY <1>1 DEF TypeOK, Create, references, session
<1>2. ASSUME NEW q \in Request, NEW k \in Rule, Get(q, k) PROVE TypeOK'
    BY <1>2 DEF TypeOK, Get, store, references
<1>3. ASSUME NEW q \in Request, NEW k \in Rule, SelectToDelete(q, k) PROVE TypeOK'
    BY <1>3 DEF TypeOK, SelectToDelete, store, references
<1>4. ASSUME NEW q \in Request, Select(q) PROVE TypeOK'
    BY <1>4 DEF TypeOK, Select, store, references
<1>5. ASSUME NEW q \in Request, Flush(q) PROVE TypeOK'
    BY <1>5, WrittenType DEF TypeOK, Flush, store, references
<1>6. ASSUME NEW q \in Request, FlushDelete(q) \/ FlushDeleteMisses(q) PROVE TypeOK'
    BY <1>6 DEF TypeOK, FlushDelete, FlushDeleteMisses, store, references
<1>7. ASSUME NEW q \in Request, Failure(q) PROVE TypeOK'
    BY <1>7, ConstantTypes DEF TypeOK, Failure, Close, store, references
<1>8. ASSUME NEW q \in Request, CommitPut(q) PROVE TypeOK'
    BY <1>8, ConstantTypes DEF TypeOK, CommitPut, Close, references
<1>9. ASSUME NEW q \in Request, CommitDelete(q) PROVE TypeOK'
    BY <1>9, ConstantTypes DEF TypeOK, CommitDelete, Close, references
<1>10. ASSUME NEW c \in Cycle, NEW k \in Rule, SaveAlert(c, k) PROVE TypeOK'
    BY <1>10 DEF TypeOK, SaveAlert, store, session
<1>11. ASSUME NEW c \in Cycle, CycleCommits(c) PROVE TypeOK'
    BY <1>11 DEF TypeOK, CycleCommits, store, session
<1>12. ASSUME NEW c \in Cycle, CycleRollsBack(c) PROVE TypeOK'
    BY <1>12 DEF TypeOK, CycleRollsBack, store, session
<1>13. ASSUME UNCHANGED vars PROVE TypeOK'
    BY <1>13 DEF TypeOK, vars, store, references, session
<1> QED
    BY <1>1, <1>2, <1>3, <1>4, <1>5, <1>6, <1>7, <1>8, <1>9, <1>10, <1>11,
       <1>12, <1>13, Failures
    DEF Next, Step, CycleEnds, NotFound, Failure

(* Every step keeps the row locks apart. *)
LEMMA HolderStep == RulesInv /\ [Next]_vars => OneHolder'
<1> SUFFICES ASSUME RulesInv, [Next]_vars PROVE OneHolder'
    OBVIOUS
<1> USE DEF RulesInv
<1>1. ASSUME NEW k \in Rule, Create(k) PROVE OneHolder'
    BY <1>1 DEF OneHolder, Holds, Create, session
<1>2. ASSUME NEW q \in Request, NEW k \in Rule, Get(q, k) PROVE OneHolder'
    BY <1>2 DEF OneHolder, Holds, TypeOK, Get
<1>3. ASSUME NEW q \in Request, NEW k \in Rule, SelectToDelete(q, k) PROVE OneHolder'
    BY <1>3 DEF OneHolder, Holds, TypeOK, SelectToDelete
<1>4. ASSUME NEW q \in Request, Select(q) PROVE OneHolder'
    BY <1>4 DEF OneHolder, Holds, TypeOK, Select
<1>5. ASSUME NEW q \in Request, Flush(q) PROVE OneHolder'
    BY <1>5 DEF OneHolder, Holds, TypeOK, Flush, RowFree
<1>6. ASSUME NEW q \in Request, FlushDelete(q) \/ FlushDeleteMisses(q) PROVE OneHolder'
    BY <1>6 DEF OneHolder, Holds, TypeOK, FlushDelete, FlushDeleteMisses, RowFree
<1>7. ASSUME NEW q \in Request, Failure(q) PROVE OneHolder'
    BY <1>7, CloseFrame DEF OneHolder, Holds, Failure
<1>8. ASSUME NEW q \in Request, CommitPut(q) PROVE OneHolder'
    BY <1>8, CloseFrame DEF OneHolder, Holds, CommitPut
<1>9. ASSUME NEW q \in Request, CommitDelete(q) PROVE OneHolder'
    BY <1>9, CloseFrame DEF OneHolder, Holds, CommitDelete
<1>10. ASSUME NEW c \in Cycle, NEW k \in Rule, SaveAlert(c, k) PROVE OneHolder'
    BY <1>10 DEF OneHolder, Holds, SaveAlert, session
<1>11. ASSUME NEW c \in Cycle, CycleCommits(c) PROVE OneHolder'
    BY <1>11 DEF OneHolder, Holds, CycleCommits, session
<1>12. ASSUME NEW c \in Cycle, CycleRollsBack(c) PROVE OneHolder'
    BY <1>12 DEF OneHolder, Holds, CycleRollsBack, session
<1>13. ASSUME UNCHANGED vars PROVE OneHolder'
    BY <1>13 DEF OneHolder, Holds, vars, session
<1> QED
    BY <1>1, <1>2, <1>3, <1>4, <1>5, <1>6, <1>7, <1>8, <1>9, <1>10, <1>11,
       <1>12, <1>13, Failures
    DEF Next, Step, CycleEnds, NotFound, Failure

(* Every step keeps the requests at rules that existed. *)
LEMMA PlacesStep == RulesInv /\ [Next]_vars => PlacesCreated'
<1> SUFFICES ASSUME RulesInv, [Next]_vars PROVE PlacesCreated'
    OBVIOUS
<1> USE DEF RulesInv
<1>1. ASSUME NEW k \in Rule, Create(k) PROVE PlacesCreated'
    BY <1>1 DEF PlacesCreated, Create, session
<1>2. ASSUME NEW q \in Request, NEW k \in Rule, Get(q, k) PROVE PlacesCreated'
    BY <1>2 DEF PlacesCreated, TypeOK, Get, store
<1>3. ASSUME NEW q \in Request, NEW k \in Rule, SelectToDelete(q, k) PROVE PlacesCreated'
    BY <1>3 DEF PlacesCreated, TypeOK, SelectToDelete, store
<1>4. ASSUME NEW q \in Request, Select(q) PROVE PlacesCreated'
    BY <1>4 DEF PlacesCreated, TypeOK, Select, store
<1>5. ASSUME NEW q \in Request, Flush(q) PROVE PlacesCreated'
    BY <1>5 DEF PlacesCreated, TypeOK, Flush, store
<1>6. ASSUME NEW q \in Request, FlushDelete(q) \/ FlushDeleteMisses(q) PROVE PlacesCreated'
    BY <1>6 DEF PlacesCreated, TypeOK, FlushDelete, FlushDeleteMisses, store
<1>7. ASSUME NEW q \in Request, Failure(q) PROVE PlacesCreated'
    BY <1>7, CloseFrame DEF PlacesCreated, Failure, store
<1>8. ASSUME NEW q \in Request, CommitPut(q) PROVE PlacesCreated'
    BY <1>8, CloseFrame DEF PlacesCreated, CommitPut
<1>9. ASSUME NEW q \in Request, CommitDelete(q) PROVE PlacesCreated'
    BY <1>9, CloseFrame DEF PlacesCreated, CommitDelete
<1>10. ASSUME NEW c \in Cycle, NEW k \in Rule, SaveAlert(c, k) PROVE PlacesCreated'
    BY <1>10 DEF PlacesCreated, SaveAlert, store, session
<1>11. ASSUME NEW c \in Cycle, CycleCommits(c) PROVE PlacesCreated'
    BY <1>11 DEF PlacesCreated, CycleCommits, store, session
<1>12. ASSUME NEW c \in Cycle, CycleRollsBack(c) PROVE PlacesCreated'
    BY <1>12 DEF PlacesCreated, CycleRollsBack, store, session
<1>13. ASSUME UNCHANGED vars PROVE PlacesCreated'
    BY <1>13 DEF PlacesCreated, vars, store, session
<1> QED
    BY <1>1, <1>2, <1>3, <1>4, <1>5, <1>6, <1>7, <1>8, <1>9, <1>10, <1>11,
       <1>12, <1>13, Failures
    DEF Next, Step, CycleEnds, NotFound, Failure

(* Every step keeps the rules of the alerts: a DELETE commits only where   *)
(* nothing refers to the rule.                                             *)
LEMMA AlertsStep == RulesInv /\ [Next]_vars => AlertsKeepRules'
<1> SUFFICES ASSUME RulesInv, [Next]_vars PROVE AlertsKeepRules'
    OBVIOUS
<1> USE DEF RulesInv
<1>1. ASSUME NEW k \in Rule, Create(k) PROVE AlertsKeepRules'
    BY <1>1 DEF AlertsKeepRules, Create, references
<1>2. ASSUME NEW q \in Request, NEW k \in Rule, Get(q, k) PROVE AlertsKeepRules'
    BY <1>2 DEF AlertsKeepRules, Get, store, references
<1>3. ASSUME NEW q \in Request, NEW k \in Rule, SelectToDelete(q, k) PROVE AlertsKeepRules'
    BY <1>3 DEF AlertsKeepRules, SelectToDelete, store, references
<1>4. ASSUME NEW q \in Request, Select(q) PROVE AlertsKeepRules'
    BY <1>4 DEF AlertsKeepRules, Select, store, references
<1>5. ASSUME NEW q \in Request, Flush(q) PROVE AlertsKeepRules'
    BY <1>5 DEF AlertsKeepRules, Flush, store, references
<1>6. ASSUME NEW q \in Request, FlushDelete(q) \/ FlushDeleteMisses(q) PROVE AlertsKeepRules'
    BY <1>6 DEF AlertsKeepRules, FlushDelete, FlushDeleteMisses, store, references
<1>7. ASSUME NEW q \in Request, Failure(q) PROVE AlertsKeepRules'
    BY <1>7 DEF AlertsKeepRules, Failure, store, references
<1>8. ASSUME NEW q \in Request, CommitPut(q) PROVE AlertsKeepRules'
    BY <1>8 DEF AlertsKeepRules, CommitPut, references
<1>9. ASSUME NEW q \in Request, CommitDelete(q) PROVE AlertsKeepRules'
    BY <1>9 DEF AlertsKeepRules, DeletionSafe, Unreferenced, CommitDelete, references
<1>10. ASSUME NEW c \in Cycle, NEW k \in Rule, SaveAlert(c, k) PROVE AlertsKeepRules'
    BY <1>10 DEF AlertsKeepRules, TypeOK, SaveAlert, store
<1>11. ASSUME NEW c \in Cycle, CycleCommits(c) PROVE AlertsKeepRules'
    BY <1>11 DEF AlertsKeepRules, TypeOK, CycleCommits, store
<1>12. ASSUME NEW c \in Cycle, CycleRollsBack(c) PROVE AlertsKeepRules'
    BY <1>12 DEF AlertsKeepRules, TypeOK, CycleRollsBack, store
<1>13. ASSUME UNCHANGED vars PROVE AlertsKeepRules'
    BY <1>13 DEF AlertsKeepRules, vars, store, references
<1> QED
    BY <1>1, <1>2, <1>3, <1>4, <1>5, <1>6, <1>7, <1>8, <1>9, <1>10, <1>11,
       <1>12, <1>13, Failures
    DEF Next, Step, CycleEnds, NotFound, Failure

(* Every step keeps what is being deleted free of alerts. *)
LEMMA DeletionStep == RulesInv /\ [Next]_vars => DeletionSafe'
<1> SUFFICES ASSUME RulesInv, [Next]_vars PROVE DeletionSafe'
    OBVIOUS
<1> USE DEF RulesInv
<1>1. ASSUME NEW k \in Rule, Create(k) PROVE DeletionSafe'
    BY <1>1 DEF DeletionSafe, Unreferenced, Create, references, session
<1>2. ASSUME NEW q \in Request, NEW k \in Rule, Get(q, k) PROVE DeletionSafe'
    BY <1>2 DEF DeletionSafe, Unreferenced, TypeOK, Get, references
<1>3. ASSUME NEW q \in Request, NEW k \in Rule, SelectToDelete(q, k) PROVE DeletionSafe'
    BY <1>3 DEF DeletionSafe, Unreferenced, TypeOK, SelectToDelete, references
<1>4. ASSUME NEW q \in Request, Select(q) PROVE DeletionSafe'
    BY <1>4 DEF DeletionSafe, Unreferenced, TypeOK, Select, references
<1>5. ASSUME NEW q \in Request, Flush(q) PROVE DeletionSafe'
    BY <1>5 DEF DeletionSafe, Unreferenced, TypeOK, Flush, references
<1>6. ASSUME NEW q \in Request, FlushDelete(q) \/ FlushDeleteMisses(q) PROVE DeletionSafe'
    BY <1>6 DEF DeletionSafe, Unreferenced, TypeOK, FlushDelete, FlushDeleteMisses,
                references, AlertsKeepRules
<1>7. ASSUME NEW q \in Request, Failure(q) PROVE DeletionSafe'
    BY <1>7, CloseFrame DEF DeletionSafe, Unreferenced, Failure, references
<1>8. ASSUME NEW q \in Request, CommitPut(q) PROVE DeletionSafe'
    BY <1>8, CloseFrame DEF DeletionSafe, Unreferenced, CommitPut, references
<1>9. ASSUME NEW q \in Request, CommitDelete(q) PROVE DeletionSafe'
    BY <1>9, CloseFrame DEF DeletionSafe, Unreferenced, CommitDelete, references
<1>10. ASSUME NEW c \in Cycle, NEW k \in Rule, SaveAlert(c, k) PROVE DeletionSafe'
    BY <1>10 DEF DeletionSafe, Unreferenced, TypeOK, SaveAlert, session
<1>11. ASSUME NEW c \in Cycle, CycleCommits(c) PROVE DeletionSafe'
    BY <1>11 DEF DeletionSafe, Unreferenced, TypeOK, CycleCommits, session
<1>12. ASSUME NEW c \in Cycle, CycleRollsBack(c) PROVE DeletionSafe'
    BY <1>12 DEF DeletionSafe, Unreferenced, TypeOK, CycleRollsBack, session
<1>13. ASSUME UNCHANGED vars PROVE DeletionSafe'
    BY <1>13 DEF DeletionSafe, Unreferenced, vars, references, session
<1> QED
    BY <1>1, <1>2, <1>3, <1>4, <1>5, <1>6, <1>7, <1>8, <1>9, <1>10, <1>11,
       <1>12, <1>13, Failures
    DEF Next, Step, CycleEnds, NotFound, Failure

(* A request that stands still, over a rule that stands still, still fits. *)
LEMMA FitsFrame ==
    ASSUME PendingFitsTable, NEW x \in Request, pc[x] = "written",
           place'[x] = place[x], fields'[x] = fields[x], read'[x] = read[x],
           loaded'[x] = loaded[x], written'[x] = written[x],
           place[x] \in live', table'[place[x]] = table[place[x]]
    PROVE  place'[x] \in live' /\ written'[x] = Over(Update(x), table[place[x]])'
BY DEF PendingFitsTable, Update

(* Every step keeps the flushed versions fitting their rules. *)
LEMMA FitsStep == RulesInv /\ [Next]_vars => PendingFitsTable'
<1> SUFFICES ASSUME RulesInv, [Next]_vars,
                    NEW x \in Request, pc'[x] = "written"
             PROVE  place'[x] \in live' /\ written'[x] = Over(Update(x), table[place[x]])'
    BY DEF PendingFitsTable
<1> USE DEF RulesInv
<1>1. ASSUME NEW k \in Rule, Create(k)
      PROVE  place'[x] \in live' /\ written'[x] = Over(Update(x), table[place[x]])'
    <2>1. UNCHANGED session /\ pc[x] = "written" /\ place[x] \in live
        BY <1>1 DEF Create, session, PendingFitsTable
    <2>2. place[x] # k /\ place[x] \in Rule
        BY <1>1, <2>1 DEF Create, TypeOK, PlacesCreated
    <2>3. table'[place[x]] = table[place[x]] /\ place[x] \in live'
        BY <1>1, <2>1, <2>2 DEF Create, TypeOK
    <2> QED
        BY <2>1, <2>3, FitsFrame DEF session
<1>2. ASSUME NEW q \in Request, NEW k \in Rule, Get(q, k)
      PROVE  place'[x] \in live' /\ written'[x] = Over(Update(x), table[place[x]])'
    <2>1. x # q /\ pc[x] = "written" /\ place[x] \in live
        BY <1>2 DEF Get, TypeOK, store, PendingFitsTable
    <2> QED
        BY <1>2, <2>1, FitsFrame DEF Get, TypeOK, store
<1>3. ASSUME NEW q \in Request, NEW k \in Rule, SelectToDelete(q, k)
      PROVE  place'[x] \in live' /\ written'[x] = Over(Update(x), table[place[x]])'
    <2>1. x # q /\ pc[x] = "written" /\ place[x] \in live
        BY <1>3 DEF SelectToDelete, TypeOK, store, PendingFitsTable
    <2> QED
        BY <1>3, <2>1, FitsFrame DEF SelectToDelete, TypeOK, store
<1>4. ASSUME NEW q \in Request, Select(q)
      PROVE  place'[x] \in live' /\ written'[x] = Over(Update(x), table[place[x]])'
    <2>1. x # q /\ pc[x] = "written" /\ place[x] \in live
        BY <1>4 DEF Select, TypeOK, store, PendingFitsTable
    <2> QED
        BY <1>4, <2>1, FitsFrame DEF Select, TypeOK, store
<1>5. ASSUME NEW q \in Request, Flush(q)
      PROVE  place'[x] \in live' /\ written'[x] = Over(Update(x), table[place[x]])'
    <2>1. CASE x = q
        BY <1>5, <2>1 DEF Flush, TypeOK, store, Update
    <2>2. CASE x # q
        <3>1. pc[x] = "written" /\ place[x] \in live
            BY <1>5, <2>2 DEF Flush, TypeOK, PendingFitsTable
        <3> QED
            BY <1>5, <2>2, <3>1, FitsFrame DEF Flush, TypeOK, store
    <2> QED
        BY <2>1, <2>2
<1>6. ASSUME NEW q \in Request, FlushDelete(q) \/ FlushDeleteMisses(q)
      PROVE  place'[x] \in live' /\ written'[x] = Over(Update(x), table[place[x]])'
    <2>1. x # q /\ pc[x] = "written" /\ place[x] \in live
        BY <1>6 DEF FlushDelete, FlushDeleteMisses, TypeOK, store, PendingFitsTable
    <2> QED
        BY <1>6, <2>1, FitsFrame DEF FlushDelete, FlushDeleteMisses, TypeOK, store
<1>7. ASSUME NEW q \in Request, Failure(q)
      PROVE  place'[x] \in live' /\ written'[x] = Over(Update(x), table[place[x]])'
    <2>1. Close(q) /\ UNCHANGED <<live, table>>
        BY <1>7 DEF Failure, store
    <2>2. x # q /\ place' = place
        BY <2>1, CloseFrame
    <2>3. pc[x] = "written" /\ place[x] \in live
        BY <2>1, <2>2, CloseFrame DEF PendingFitsTable
    <2> QED
        BY <2>1, <2>2, <2>3, CloseFrame, FitsFrame
<1>8. ASSUME NEW q \in Request, CommitPut(q)
      PROVE  place'[x] \in live' /\ written'[x] = Over(Update(x), table[place[x]])'
    <2>1. Close(q) /\ Holds(q) /\ place[q] \in Rule
        BY <1>8 DEF CommitPut, Holds, TypeOK
    <2>2. x # q /\ place' = place
        BY <2>1, CloseFrame
    <2>3. pc[x] = "written" /\ place[x] \in live
        BY <2>1, <2>2, CloseFrame DEF PendingFitsTable
    <2>4. place[x] # place[q]
        BY <2>1, <2>2, <2>3 DEF OneHolder, Holds
    <2>5. place[x] \in live' /\ table'[place[x]] = table[place[x]]
        BY <1>8, <2>3, <2>4 DEF CommitPut, TypeOK
    <2> QED
        BY <2>2, <2>3, <2>5, <2>1, CloseFrame, FitsFrame
<1>9. ASSUME NEW q \in Request, CommitDelete(q)
      PROVE  place'[x] \in live' /\ written'[x] = Over(Update(x), table[place[x]])'
    <2>1. Close(q) /\ Holds(q) /\ place[q] \in Rule
        BY <1>9 DEF CommitDelete, Holds, TypeOK
    <2>2. x # q /\ place' = place
        BY <2>1, CloseFrame
    <2>3. pc[x] = "written" /\ place[x] \in live
        BY <2>1, <2>2, CloseFrame DEF PendingFitsTable
    <2>4. place[x] # place[q]
        BY <2>1, <2>2, <2>3 DEF OneHolder, Holds
    <2>5. place[x] \in live' /\ table'[place[x]] = table[place[x]]
        BY <1>9, <2>3, <2>4 DEF CommitDelete, TypeOK
    <2> QED
        BY <2>2, <2>3, <2>5, <2>1, CloseFrame, FitsFrame
<1>10. ASSUME NEW c \in Cycle, NEW k \in Rule, SaveAlert(c, k)
      PROVE  place'[x] \in live' /\ written'[x] = Over(Update(x), table[place[x]])'
    BY <1>10, FitsFrame DEF SaveAlert, store, session, PendingFitsTable
<1>11. ASSUME NEW c \in Cycle, CycleEnds(c)
      PROVE  place'[x] \in live' /\ written'[x] = Over(Update(x), table[place[x]])'
    BY <1>11, FitsFrame DEF CycleEnds, CycleCommits, CycleRollsBack, store, session,
                            PendingFitsTable
<1>12. ASSUME UNCHANGED vars
      PROVE  place'[x] \in live' /\ written'[x] = Over(Update(x), table[place[x]])'
    BY <1>12, FitsFrame DEF vars, store, session, PendingFitsTable
<1> QED
    BY <1>1, <1>2, <1>3, <1>4, <1>5, <1>6, <1>7, <1>8, <1>9, <1>10, <1>11, <1>12, Failures
    DEF Next, Step, NotFound, Failure

-----------------------------------------------------------------------------
(* The inductive invariant of the rule endpoints and the cycles around     *)
(* them.                                                                   *)
THEOREM RulesInvariant == Spec => []RulesInv
<1>1. Init => RulesInv
    BY ConstantTypes DEF Init, RulesInv, TypeOK, OneHolder, Holds, PlacesCreated,
                         PendingFitsTable, AlertsKeepRules, DeletionSafe
<1>2. RulesInv /\ [Next]_vars => RulesInv'
    BY TypeStep, HolderStep, PlacesStep, FitsStep, AlertsStep, DeletionStep DEF RulesInv
<1> QED
    BY <1>1, <1>2, PTL DEF Spec

(* Whatever requests and cycles do, rules with a row were inserted, and    *)
(* rows keep every column and its values.                                  *)
THEOREM RulesTyped == Spec => []TypeOK
<1>1. RulesInv => TypeOK
    BY DEF RulesInv
<1> QED
    BY <1>1, RulesInvariant, PTL

(* No alert, committed or not, ever loses its rule to a DELETE. *)
THEOREM RulesOfAlertsStay == Spec => []AlertsKeepRules
<1>1. RulesInv => AlertsKeepRules
    BY DEF RulesInv
<1> QED
    BY <1>1, RulesInvariant, PTL

(* A rule that has been deleted does not come back. *)
THEOREM NoResurrection == Spec => DeletedStaysDeleted
<1>1. [Next]_vars => [live' \cap created \subseteq live]_vars
    BY DEF Next, Step, CycleEnds, NotFound, Create, Get, Select, SelectRaises, Flush,
           FlushRaises, SelectToDelete, FlushDelete, FlushDeleteRaises,
           FlushDeleteMisses, CommitPut, CommitDelete, Abort, SaveAlert,
           CycleCommits, CycleRollsBack, store
<1> QED
    BY <1>1, PTL DEF Spec, DeletedStaysDeleted

(* A commit changes a column that its PUT does not name only if the two    *)
(* reads of the PUT differ in that column.                                 *)
LEMMA CommitKeeps ==
    ASSUME RulesInv, NEW q \in Request, CommitPut(q),
           NEW c \in Column, c \notin DOMAIN fields[q],
           table'[place[q]][c] # table[place[q]][c]
    PROVE  read[q][c] # loaded[q][c]
<1> DEFINE k == place[q]
<1>1. table'[k] = Over(Update(q), table[k])
    BY DEF RulesInv, PendingFitsTable, CommitPut, TypeOK
<1>2. c \in DOMAIN Update(q)
    BY <1>1 DEF Over
<1>3. Over(fields[q], read[q])[c] # loaded[q][c]
    BY <1>2 DEF Update, Changes
<1>4. Over(fields[q], read[q])[c] = read[q][c]
    BY DEF Over
<1> QED
    BY <1>3, <1>4

(* Only between its two reads can a PUT of a rule lose what others write.  *)
THEOREM RuleLossesAreConfined == Spec => UnnamedKept
<1>1. RulesInv /\ [Next]_vars =>
        [\A q \in Request, c \in Column :
            LET k == place[q]
            IN  CommitPut(q) /\ c \notin DOMAIN fields[q] /\ table'[k][c] # table[k][c]
                    => read[q][c] # loaded[q][c]]_vars
    BY CommitKeeps
<1> QED
    BY <1>1, RulesInvariant, PTL DEF Spec, UnnamedKept

-----------------------------------------------------------------------------
(* Requests implement the single steps of Processing.                      *)

(* Processing's rule, of this module's table.                              *)
Scores == [k \in Rule |-> IF k \in live THEN ScoreOf(table[k]) ELSE 0]

LEMMA ScoreType == \A r : ScoreOf(r) \in Atomic!Score
BY DEF ScoreOf, Severity, Atomic!Score

(* What a step says of the rules and of alerts, in Processing's terms.     *)
LEMMA AlertsAboutRules ==
    ASSUME NEW K, NEW k
    PROVE  (\A a \in AlertsAbout(K) : a.rule # k) <=> k \notin K
<1>1. \A j \in K : [key |-> "observation", rule |-> j, severity |-> 2] \in AlertsAbout(K)
    BY DEF AlertsAbout
<1>2. \A a \in AlertsAbout(K) : a.rule \in K
    BY DEF AlertsAbout
<1> QED
    BY <1>1, <1>2

(* The parts of Processing that this module has no counterpart of are      *)
(* constants, and stay.                                                    *)
LEMMA CreateIsAtomic ==
    ASSUME TypeOK, NEW k \in Rule, Create(k)
    PROVE  Atomic!RuleNext
<1>1. PICK r \in Row : table' = [table EXCEPT ![k] = r]
    BY DEF Create
<1>2. /\ k \notin created /\ created' = created \cup {k} /\ live' = live \cup {k}
      /\ alerted' = alerted /\ pending' = pending
    BY DEF Create, references
<1>3. Scores' = [Scores EXCEPT ![k] = ScoreOf(r)]
    BY <1>1, <1>2 DEF Scores, TypeOK
<1>4. Atomic!CreateRule(k, ScoreOf(r))
    BY <1>2, <1>3 DEF Atomic!CreateRule, Atomic!store, Atomic!session, Scores
<1> QED
    BY <1>4, ScoreType DEF Atomic!RuleNext

LEMMA PutIsAtomic ==
    ASSUME RulesInv, NEW q \in Request, CommitPut(q)
    PROVE  Atomic!RuleNext \/ UNCHANGED Atomic!rules
<1>0. PICK k \in Rule, s \in Atomic!Score : k = place[q] /\ s = ScoreOf(written[q])
    BY ScoreType DEF RulesInv, TypeOK
<1>1. /\ k \in Rule /\ k \in live
      /\ created' = created /\ live' = live /\ alerted' = alerted /\ pending' = pending
      /\ table' = [table EXCEPT ![k] = written[q]]
    BY <1>0 DEF RulesInv, TypeOK, PendingFitsTable, CommitPut, references
<1>2. Scores' = [Scores EXCEPT ![k] = s]
    BY <1>0, <1>1 DEF Scores, RulesInv, TypeOK
<1>3. CASE Scores[k] = s
    <2>1. Scores' = Scores
        BY <1>2, <1>3 DEF Scores
    <2> QED
        BY <1>1, <2>1 DEF Atomic!rules, Scores
<1>4. CASE Scores[k] # s
    <2>1. Atomic!UpdateRule(k, s)
        BY <1>1, <1>2, <1>4 DEF Atomic!UpdateRule, Atomic!store, Atomic!session, Scores
    <2> QED
        BY <2>1 DEF Atomic!RuleNext
<1> QED
    BY <1>3, <1>4

LEMMA DeleteIsAtomic ==
    ASSUME RulesInv, NEW q \in Request, CommitDelete(q)
    PROVE  Atomic!RuleNext \/ UNCHANGED Atomic!rules
<1>0. PICK k \in Rule : k = place[q]
    BY DEF RulesInv, TypeOK
<1>1. /\ k \in Rule
      /\ created' = created /\ live' = live \ {k}
      /\ alerted' = alerted /\ pending' = pending
      /\ table' = [table EXCEPT ![k] = Blank]
    BY <1>0 DEF RulesInv, TypeOK, CommitDelete, references
<1>2. Scores' = [Scores EXCEPT ![k] = 0]
    BY <1>1 DEF Scores, RulesInv, TypeOK
<1>3. CASE k \notin live
    <2>1. Scores' = Scores /\ live' = live
        BY <1>1, <1>2, <1>3 DEF Scores
    <2> QED
        BY <1>1, <2>1 DEF Atomic!rules, Scores
<1>4. CASE k \in live
    <2>1. k \notin alerted /\ \A c \in Cycle : k \notin pending[c]
        BY <1>0 DEF RulesInv, DeletionSafe, Unreferenced, CommitDelete
    <2>2. \A a \in AlertsAbout(alerted) : a.rule # k
        BY <2>1, AlertsAboutRules
    <2>3. \A c \in Cycle : \A a \in AlertsAbout(pending[c]) : a.rule # k
        BY <2>1, AlertsAboutRules
    <2>4. Atomic!DeleteRule(k)
        BY <1>1, <1>2, <1>4, <2>2, <2>3
        DEF Atomic!DeleteRule, Atomic!store, Atomic!session, Scores
    <2> QED
        BY <2>4 DEF Atomic!RuleNext
<1> QED
    BY <1>3, <1>4

(* Whatever requests and cycles do between the statements of each other,   *)
(* the rules change in the single steps that Processing takes requests     *)
(* for.                                                                    *)
THEOREM RequestsAreAtomic == Spec => EditsAreAtomic
<1>1. RulesInv /\ [Next]_vars => [Atomic!RuleNext]_(Atomic!rules)
  <2> SUFFICES ASSUME RulesInv, [Next]_vars
               PROVE  Atomic!RuleNext \/ UNCHANGED Atomic!rules
      OBVIOUS
  <2>1. UNCHANGED store => UNCHANGED Atomic!rules
      BY DEF store, Atomic!rules
  <2>2. CASE \E k \in Rule : Create(k)
      BY <2>2, CreateIsAtomic DEF RulesInv
  <2>3. CASE \E q \in Request : CommitPut(q) \/ CommitDelete(q)
      BY <2>3, PutIsAtomic, DeleteIsAtomic
  <2>4. CASE UNCHANGED store
      BY <2>1, <2>4
  <2> QED
      BY <2>2, <2>3, <2>4
      DEF Next, Step, CycleEnds, NotFound, Get, Select, SelectRaises, Flush, FlushRaises,
          SelectToDelete, FlushDelete, FlushDeleteRaises, FlushDeleteMisses, Abort,
          SaveAlert, CycleCommits, CycleRollsBack, vars
<1> QED
    BY <1>1, RulesInvariant, PTL DEF Spec, EditsAreAtomic
=============================================================================
