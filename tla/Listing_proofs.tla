--------------------------- MODULE Listing_proofs ---------------------------
(***************************************************************************)
(* What a client of the lists may rely on, for any number of rows and      *)
(* readers, any page size, filter and order of commits: the total of a     *)
(* response covers its page, and a walk over the pages misses no row that  *)
(* has a stamp of its own.                                                 *)
(***************************************************************************)
EXTENDS Listing, FiniteSetTheorems, TLAPS

(* b comes before a in every order that respects the stamps. *)
Precedes(q, b, a) == IF q[1] = "raw" THEN stamp[b] < stamp[a] ELSE stamp[b] > stamp[a]

(* The rows that no page can show after a. *)
Ahead(q, a) == {b \in Selected(q) : Precedes(q, b, a)}

(* The walk from offset o on will still meet a. *)
Reachable(q, o, a) == Tied(a) \/ o <= Cardinality(Ahead(q, a))

(* A page that has been read lies within the rows. *)
PageFits(c) ==
    /\ Cardinality(items[c]) <= Limit
    /\ pc[c] \notin {"counting", "answered"} => items[c] = {}
    /\ items[c] # {} => offset[c] + Cardinality(items[c]) <= Cardinality(Item)
    /\ pc[c] = "counting" /\ query[c] \in Growing /\ items[c] # {} =>
          offset[c] + Cardinality(items[c]) <= Cardinality(Selected(query[c]))
    /\ pc[c] = "answered" /\ query[c] \in Growing /\ items[c] # {} =>
          offset[c] + Cardinality(items[c]) <= total[c]

(* What the reader waits for and has not been sent is on a later page. *)
WalkGoesOn(c) ==
    query[c] \in Growing =>
        /\ expected[c] \subseteq Selected(query[c])
        /\ pc[c] = "listing" =>
              \A a \in expected[c] \ seen[c] : Reachable(query[c], offset[c], a)
        /\ pc[c] \in {"counting", "answered"} =>
              \A a \in expected[c] \ (seen[c] \cup items[c]) :
                  \/ Tied(a)
                  \/ /\ Cardinality(items[c]) = Limit
                     /\ Reachable(query[c], offset[c] + Limit, a)
        /\ pc[c] = "done" => \A a \in expected[c] \ seen[c] : Tied(a)

ListingInv ==
    /\ TypeOK
    /\ \A c \in Client : PageFits(c) /\ WalkGoesOn(c)

-----------------------------------------------------------------------------
(* The rows. *)

LEMMA LesserNat == \A m, n \in Nat : LesserOf(m, n) \in Nat /\ LesserOf(m, n) <= m
BY DEF LesserOf

LEMMA RowsTyped ==
    ASSUME TypeOK
    PROVE  /\ Stored \subseteq Item
           /\ \A a \in Stored : stamp[a] \in Nat
BY TimeAssumption DEF TypeOK, Stored

LEMMA SelectedStored ==
    ASSUME NEW q \in Query
    PROVE  Selected(q) \subseteq Stored
BY DEF Selected, Query

(* Sets of rows can be counted. *)
LEMMA RowsFinite ==
    ASSUME TypeOK, NEW q \in Query, NEW S, S \subseteq Selected(q)
    PROVE  /\ IsFiniteSet(S)
           /\ Cardinality(S) \in Nat
           /\ Cardinality(S) <= Cardinality(Selected(q))
           /\ Cardinality(S) <= Cardinality(Item)
           /\ Cardinality(Selected(q)) \in Nat
           /\ Cardinality(Item) \in Nat
<1>1. Selected(q) \subseteq Item /\ S \subseteq Item
  BY SelectedStored, RowsTyped
<1>2. IsFiniteSet(Selected(q)) /\ IsFiniteSet(S)
  BY <1>1, ItemAssumption, FS_Subset
<1>3. Cardinality(S) <= Cardinality(Selected(q))
  BY <1>2, FS_Subset
<1>4. Cardinality(S) <= Cardinality(Item)
  BY <1>1, ItemAssumption, FS_Subset
<1> QED
  BY <1>2, <1>3, <1>4, ItemAssumption, FS_CardinalityType

(* A row that is selected is not ahead of itself. *)
LEMMA AheadProper ==
    ASSUME TypeOK, NEW q \in Query, NEW a \in Selected(q)
    PROVE  /\ Ahead(q, a) \subseteq Selected(q) \ {a}
           /\ Cardinality(Ahead(q, a)) \in Nat
           /\ Cardinality(Ahead(q, a)) < Cardinality(Selected(q))
<1>1. stamp[a] \in Nat
  BY SelectedStored, RowsTyped
<1>2. Ahead(q, a) \subseteq Selected(q) \ {a}
  BY <1>1 DEF Ahead, Precedes
<1>3. /\ IsFiniteSet(Ahead(q, a)) /\ Cardinality(Ahead(q, a)) \in Nat
      /\ Cardinality(Ahead(q, a)) <= Cardinality(Selected(q))
      /\ IsFiniteSet(Selected(q)) /\ Cardinality(Selected(q)) \in Nat
  BY <1>2, RowsFinite
<1>4. Cardinality(Ahead(q, a)) # Cardinality(Selected(q))
  BY <1>2, <1>3, FS_Subset
<1> QED
  BY <1>2, <1>3, <1>4

-----------------------------------------------------------------------------
(* One page. *)

(* B is a page, A the rows before it. *)
Parts(q, o, A, B) ==
    /\ A \subseteq Selected(q) \ B /\ B \subseteq Selected(q)
    /\ IsFiniteSet(A) /\ IsFiniteSet(B)
    /\ Cardinality(A) = LesserOf(o, Cardinality(Selected(q)))
    /\ Cardinality(B) = LesserOf(Limit, Cardinality(Selected(q)) - Cardinality(A))
    /\ Cardinality(A \cup B) = Cardinality(A) + Cardinality(B)
    /\ Before(q, A, Selected(q) \ A)
    /\ Before(q, B, Selected(q) \ (A \cup B))

LEMMA PageParts ==
    ASSUME TypeOK, NEW q \in Query, NEW o \in Nat, NEW B \in Pages(q, o)
    PROVE  \E A : Parts(q, o, A, B)
<1> DEFINE R == Selected(q)
<1>1. B \subseteq R
  BY DEF Pages
<1>2. PICK A \in SUBSET (R \ B) :
        /\ Cardinality(A) = LesserOf(o, Cardinality(R))
        /\ Cardinality(B) = LesserOf(Limit, Cardinality(R) - Cardinality(A))
        /\ Before(q, A, R \ A) /\ Before(q, B, R \ (A \cup B))
  BY DEF Pages
<1>3. IsFiniteSet(A) /\ IsFiniteSet(B) /\ Cardinality(A) \in Nat /\ Cardinality(B) \in Nat
  BY <1>1, <1>2, RowsFinite
<1>4. A \cap B = {}
  BY <1>2
<1>5. Cardinality(A \cup B) = Cardinality(A) + Cardinality(B) - Cardinality(A \cap B)
  BY <1>3, FS_Union
<1>6. Cardinality(A \cup B) = Cardinality(A) + Cardinality(B)
  BY <1>3, <1>4, <1>5, FS_EmptySet
<1> QED
  BY <1>1, <1>2, <1>3, <1>6 DEF Parts

(* A page holds at most Limit rows, and lies within the rows selected. *)
LEMMA PageWithin ==
    ASSUME TypeOK, NEW q \in Query, NEW o \in Nat, NEW B \in Pages(q, o)
    PROVE  /\ B \subseteq Item
           /\ Cardinality(B) \in Nat /\ Cardinality(B) <= Limit
           /\ B # {} => /\ o + Cardinality(B) <= Cardinality(Selected(q))
                        /\ o + Cardinality(B) <= Cardinality(Item)
<1>1. PICK A : Parts(q, o, A, B)
  BY PageParts
<1> USE DEF Parts
<1> DEFINE R == Selected(q)
<1>2. /\ Cardinality(R) \in Nat /\ Cardinality(A) \in Nat /\ Cardinality(B) \in Nat
      /\ Cardinality(A \cup B) <= Cardinality(R)
      /\ Cardinality(R) <= Cardinality(Item) /\ Cardinality(Item) \in Nat
  BY <1>1, RowsFinite
<1>3. Cardinality(B) <= Limit
  BY <1>1, <1>2, LimitAssumption DEF LesserOf
<1>4. ASSUME B # {} PROVE o + Cardinality(B) <= Cardinality(R)
  <2>1. Cardinality(B) # 0
    BY <1>1, <1>4, FS_EmptySet
  <2>2. Cardinality(A) # Cardinality(R)
    BY <1>1, <1>2, <2>1
  <2>3. Cardinality(A) = o
    BY <1>1, <1>2, <2>2 DEF LesserOf
  <2> QED
    BY <1>1, <1>2, <2>3
<1>5. B \subseteq Item
  BY <1>1, SelectedStored, RowsTyped
<1> QED
  BY <1>2, <1>3, <1>4, <1>5

(* If the page from o on leaves out a row that is not tied, and that was   *)
(* not before o, then the page is full and the row is not before its end.  *)
LEMMA PageMissesNothing ==
    ASSUME TypeOK, NEW q \in Query, NEW o \in Nat, NEW B \in Pages(q, o),
           NEW a \in Selected(q) \ B, ~ Tied(a), o <= Cardinality(Ahead(q, a))
    PROVE  Cardinality(B) = Limit /\ o + Limit <= Cardinality(Ahead(q, a))
<1>1. PICK A : Parts(q, o, A, B)
  BY PageParts
<1> USE DEF Parts
<1> DEFINE R == Selected(q)
<1>2. /\ Cardinality(R) \in Nat /\ Cardinality(B) \in Nat
      /\ IsFiniteSet(Ahead(q, a)) /\ Cardinality(Ahead(q, a)) \in Nat
      /\ Cardinality(Ahead(q, a)) < Cardinality(R)
  BY <1>1, AheadProper, RowsFinite DEF Ahead
<1>3. Cardinality(A) = o
  BY <1>1, <1>2 DEF LesserOf
<1>4. \A x \in R : stamp[x] \in Nat
  BY SelectedStored, RowsTyped
<1>5. a \notin A
  <2> SUFFICES ASSUME a \in A PROVE FALSE
    OBVIOUS
  <2>1. Ahead(q, a) \subseteq A \ {a}
    BY <1>1, <1>4, AheadProper DEF Ahead, Before, Precedes
  <2>2. IsFiniteSet(A \ {a}) /\ Cardinality(A \ {a}) = Cardinality(A) - 1
    BY <1>1, FS_RemoveElement
  <2>3. Cardinality(Ahead(q, a)) <= Cardinality(A \ {a})
    BY <2>1, <2>2, FS_Subset
  <2> QED
    BY <1>2, <1>3, <2>2, <2>3
<1>6. A \cup B \subseteq Ahead(q, a)
  <2> SUFFICES ASSUME NEW x \in A \cup B PROVE Precedes(q, x, a)
    BY <1>1 DEF Ahead
  <2>1. a \in R \ (A \cup B) /\ x \in R /\ x # a
    BY <1>1, <1>5
  <2>2. IF q[1] = "raw" THEN stamp[x] <= stamp[a] ELSE stamp[x] >= stamp[a]
    BY <1>1, <2>1 DEF Before
  <2>3. stamp[x] # stamp[a]
    BY <2>1, SelectedStored DEF Tied
  <2> QED
    BY <1>4, <2>1, <2>2, <2>3 DEF Precedes
<1>7. o + Cardinality(B) <= Cardinality(Ahead(q, a))
  BY <1>1, <1>2, <1>3, <1>6, FS_Subset
<1>8. Cardinality(B) = Limit
  BY <1>1, <1>2, <1>3, <1>7, LimitAssumption DEF LesserOf
<1> QED
  BY <1>7, <1>8

-----------------------------------------------------------------------------
(* The steps of the table. *)

(* Committed rows and acknowledgements stay, and keep their stamps. *)
Grows ==
    /\ Stored \subseteq Stored' /\ acknowledged \subseteq acknowledged'
    /\ \A a \in Stored : stamp'[a] = stamp[a]

LEMMA TableGrows ==
    ASSUME TypeOK, CycleCommits \/ \E a \in Item : Acknowledge(a)
    PROVE  TypeOK' /\ Grows /\ UNCHANGED reader
<1>1. CASE CycleCommits
  <2>1. PICK A \in SUBSET (Item \ Stored), t \in Time :
           stamp' = [a \in Item |-> IF a \in A THEN t ELSE stamp[a]]
    BY <1>1 DEF CycleCommits
  <2>2. UNCHANGED <<acknowledged, reader>>
    BY <1>1 DEF CycleCommits
  <2>3. stamp' \in [Item -> {0} \cup Time]
    BY <2>1 DEF TypeOK
  <2>4. /\ \A a \in Stored : stamp'[a] = stamp[a]
        /\ Stored \subseteq Stored'
    BY <2>1, <2>2 DEF Stored
  <2> QED
    BY <2>2, <2>3, <2>4 DEF TypeOK, Grows, reader
<1>2. ASSUME NEW a \in Item, Acknowledge(a) PROVE TypeOK' /\ Grows /\ UNCHANGED reader
  BY <1>2 DEF Acknowledge, TypeOK, Grows, Stored, reader
<1> QED
  BY <1>1, <1>2

(* What a query of the growing ones selects it selects from then on, and   *)
(* what is ahead of a row or tied with it stays so.                        *)
LEMMA SelectedGrows ==
    ASSUME TypeOK, TypeOK', Grows, NEW q \in Growing
    PROVE  /\ Selected(q) \subseteq Selected(q)'
           /\ Cardinality(Selected(q)) <= Cardinality(Selected(q)')
           /\ \A a \in Selected(q), o \in Nat : Reachable(q, o, a) => Reachable(q, o, a)'
           /\ \A a \in Selected(q) : Tied(a) => Tied(a)'
<1>1. q \in Query
  BY DEF Growing
<1>2. Selected(q) \subseteq Selected(q)'
  BY <1>1 DEF Growing, Query, Selected, Grows, Stored
<1>3. Cardinality(Selected(q)) <= Cardinality(Selected(q)')
  <2>1. Selected(q)' \subseteq Item
    BY <1>1, SelectedStored DEF Stored, Selected, Query
  <2>2. IsFiniteSet(Selected(q)')
    BY <2>1, ItemAssumption, FS_Subset
  <2> QED
    BY <1>2, <2>2, FS_Subset
<1>4. ASSUME NEW a \in Selected(q), Tied(a) PROVE Tied(a)'
  BY <1>1, <1>4, SelectedStored DEF Tied, Grows
<1>5. ASSUME NEW a \in Selected(q), NEW o \in Nat, o <= Cardinality(Ahead(q, a))
      PROVE  o <= Cardinality(Ahead(q, a)')
  <2>1. Ahead(q, a) \subseteq Ahead(q, a)'
    BY <1>1, <1>2, SelectedStored DEF Ahead, Precedes, Grows
  <2>2. Ahead(q, a)' \subseteq Item
    BY <1>1 DEF Ahead, Selected, Query, Stored
  <2>3. IsFiniteSet(Ahead(q, a)') /\ IsFiniteSet(Ahead(q, a))
    BY <2>1, <2>2, ItemAssumption, FS_Subset
  <2>4. Cardinality(Ahead(q, a)) \in Nat /\ Cardinality(Ahead(q, a)') \in Nat
        /\ Cardinality(Ahead(q, a)) <= Cardinality(Ahead(q, a)')
    BY <2>1, <2>3, FS_Subset, FS_CardinalityType
  <2> QED
    BY <1>5, <2>4
<1> QED
  BY <1>2, <1>3, <1>4, <1>5 DEF Reachable

(* Whatever is committed, every reader goes on as it was. *)
LEMMA TableKeeps ==
    ASSUME ListingInv, TypeOK', Grows, UNCHANGED reader, NEW c \in Client
    PROVE  PageFits(c)' /\ WalkGoesOn(c)'
<1>1. PageFits(c) /\ WalkGoesOn(c) /\ TypeOK
  BY DEF ListingInv
<1>2. UNCHANGED <<pc, query, offset, items, total, expected, seen>>
  BY DEF reader
<1>3. query[c] \in Query /\ offset[c] \in Nat /\ offset[c] + Limit \in Nat
  BY <1>1, LimitAssumption, RowsFinite DEF TypeOK
<1>4. PageFits(c)'
  <2>1. PICK q : q = query[c]
    OBVIOUS
  <2>2. CASE q \in Growing
    <3>1. Cardinality(Selected(q)) <= Cardinality(Selected(q)')
      BY <1>1, <2>2, SelectedGrows
    <3>2. /\ Cardinality(Selected(q)) \in Nat /\ Cardinality(items[c]) \in Nat
          /\ Cardinality(Selected(q)') \in Nat
      <4>1. items[c] \subseteq Item /\ Selected(q) \subseteq Item /\ Selected(q)' \subseteq Item
        BY <1>1, <1>3, <2>1, SelectedStored DEF TypeOK, Stored, Selected, Query
      <4> QED
        BY <4>1, ItemAssumption, FS_Subset, FS_CardinalityType
    <3> QED
      BY <1>1, <1>2, <1>3, <2>1, <3>1, <3>2 DEF PageFits
  <2>3. CASE q \notin Growing
    BY <1>1, <1>2, <2>1, <2>3 DEF PageFits, Growing, Query
  <2> QED
    BY <2>2, <2>3
<1>5. WalkGoesOn(c)'
  BY <1>1, <1>2, <1>3, SelectedGrows DEF WalkGoesOn, Growing
<1> QED
  BY <1>4, <1>5

-----------------------------------------------------------------------------
(* The steps of a reader. *)

LEMMA TableSame ==
    ASSUME UNCHANGED table
    PROVE  \A q : /\ Selected(q)' = Selected(q)
                  /\ \A a : Tied(a)' = Tied(a)
                  /\ \A o, a : Reachable(q, o, a)' = Reachable(q, o, a)
<1>1. stamp' = stamp /\ acknowledged' = acknowledged /\ Stored' = Stored
  BY DEF table, Stored
<1>2. \A q : Selected(q)' = Selected(q)
  BY <1>1 DEF Selected
<1>3. \A a : Tied(a)' = Tied(a)
  BY <1>1 DEF Tied
<1>4. \A q, a : Ahead(q, a)' = Ahead(q, a)
  BY <1>1, <1>2 DEF Ahead, Precedes
<1> QED
  BY <1>2, <1>3, <1>4 DEF Reachable

(* A reader does nothing to another one. *)
LEMMA OthersKeep ==
    ASSUME ListingInv, UNCHANGED table, NEW d \in Client,
           <<pc[d], query[d], offset[d], items[d], total[d], expected[d], seen[d]>>'
              = <<pc[d], query[d], offset[d], items[d], total[d], expected[d], seen[d]>>
    PROVE  PageFits(d)' /\ WalkGoesOn(d)'
<1>1. PageFits(d) /\ WalkGoesOn(d)
  BY DEF ListingInv
<1>2. PageFits(d)'
  BY <1>1, TableSame DEF PageFits
<1>3. WalkGoesOn(d)'
  BY <1>1, TableSame DEF WalkGoesOn
<1> QED
  BY <1>2, <1>3

LEMMA EmptyPage == Cardinality({}) = 0 /\ 0 <= Limit
BY FS_EmptySet, LimitAssumption

LEMMA BeginKeeps ==
    ASSUME ListingInv, NEW c \in Client, Begin(c)
    PROVE  ListingInv'
<1>1. PICK q \in Query :
        /\ query' = [query EXCEPT ![c] = q]
        /\ expected' = [expected EXCEPT ![c] = Selected(q)]
  BY DEF Begin
<1>2. TypeOK /\ UNCHANGED table /\ items[c] = {}
  BY DEF Begin, ListingInv, PageFits
<1>3. Selected(q) \subseteq Item
  BY <1>2, SelectedStored, RowsTyped
<1>4. Cardinality(Item) \in Nat
  BY <1>2, RowsFinite
<1>5. TypeOK'
  BY <1>1, <1>2, <1>3, <1>4 DEF Begin, TypeOK, table, Stored
<1>6. PageFits(c)'
  BY <1>2, EmptyPage DEF Begin, PageFits, TypeOK
<1>7. WalkGoesOn(c)'
  <2>1. \A a \in Selected(q) : Reachable(q, 0, a)
    BY <1>2, AheadProper DEF Reachable
  <2> QED
    BY <1>1, <1>2, <2>1, TableSame DEF Begin, WalkGoesOn, TypeOK
<1>8. ASSUME NEW d \in Client, d # c PROVE PageFits(d)' /\ WalkGoesOn(d)'
  BY <1>1, <1>2, <1>8, OthersKeep DEF Begin, TypeOK
<1> QED
  BY <1>5, <1>6, <1>7, <1>8 DEF ListingInv

LEMMA ListKeeps ==
    ASSUME ListingInv, NEW c \in Client, List(c)
    PROVE  ListingInv'
<1>1. PICK q, o : q = query[c] /\ o = offset[c]
  OBVIOUS
<1>2. PICK B \in Pages(q, o) : items' = [items EXCEPT ![c] = B]
  BY <1>1 DEF List
<1>3. TypeOK /\ UNCHANGED table /\ WalkGoesOn(c)
  BY DEF List, ListingInv
<1>4. q \in Query /\ o \in Nat
  BY <1>1, <1>3, RowsFinite DEF TypeOK
<1>5. /\ B \subseteq Item
      /\ Cardinality(B) \in Nat /\ Cardinality(B) <= Limit
      /\ B # {} => /\ o + Cardinality(B) <= Cardinality(Selected(q))
                   /\ o + Cardinality(B) <= Cardinality(Item)
  BY <1>2, <1>3, <1>4, PageWithin
<1>6. TypeOK'
  BY <1>2, <1>3, <1>5 DEF List, TypeOK, table, Stored
<1>7. PageFits(c)'
  BY <1>1, <1>2, <1>3, <1>5, TableSame DEF List, PageFits, TypeOK
<1>8. WalkGoesOn(c)'
  <2> SUFFICES ASSUME q \in Growing PROVE WalkGoesOn(c)'
    BY <1>1 DEF List, WalkGoesOn, TypeOK
  <2>1. /\ expected[c] \subseteq Selected(q)
        /\ \A a \in expected[c] \ seen[c] : Reachable(q, o, a)
    BY <1>1, <1>3 DEF List, WalkGoesOn
  <2>2. ASSUME NEW a \in expected[c] \ (seen[c] \cup B), ~ Tied(a)
        PROVE  Cardinality(B) = Limit /\ Reachable(q, o + Limit, a)
    BY <1>2, <1>3, <1>4, <2>1, <2>2, PageMissesNothing DEF Reachable
  <2> QED
    BY <1>1, <1>2, <1>3, <2>1, <2>2, TableSame DEF List, WalkGoesOn, TypeOK
<1>9. ASSUME NEW d \in Client, d # c PROVE PageFits(d)' /\ WalkGoesOn(d)'
  BY <1>2, <1>3, <1>9, OthersKeep DEF List, TypeOK
<1> QED
  BY <1>6, <1>7, <1>8, <1>9 DEF ListingInv

LEMMA CountKeeps ==
    ASSUME ListingInv, NEW c \in Client, Count(c)
    PROVE  ListingInv'
<1>1. TypeOK /\ UNCHANGED table /\ PageFits(c) /\ WalkGoesOn(c)
  BY DEF Count, ListingInv
<1>2. query[c] \in Query
  BY <1>1 DEF TypeOK
<1>3. total' = [total EXCEPT ![c] = Cardinality(Selected(query[c]))]
  BY DEF Count, Counted
<1>4. Cardinality(Selected(query[c])) \in 0..Cardinality(Item)
  BY <1>1, <1>2, RowsFinite
<1>5. TypeOK'
  BY <1>1, <1>3, <1>4 DEF Count, TypeOK, table, Stored
<1>6. PageFits(c)'
  BY <1>1, <1>3 DEF Count, PageFits, TypeOK
<1>7. WalkGoesOn(c)'
  BY <1>1, TableSame DEF Count, WalkGoesOn, TypeOK
<1>8. ASSUME NEW d \in Client, d # c PROVE PageFits(d)' /\ WalkGoesOn(d)'
  BY <1>1, <1>8, OthersKeep DEF Count, TypeOK
<1> QED
  BY <1>5, <1>6, <1>7, <1>8 DEF ListingInv

LEMMA TakeKeeps ==
    ASSUME ListingInv, NEW c \in Client, Take(c)
    PROVE  ListingInv'
<1>1. TypeOK /\ UNCHANGED table /\ PageFits(c) /\ WalkGoesOn(c)
  BY DEF Take, ListingInv
<1>2. items[c] \subseteq Item /\ offset[c] \in Nat /\ Cardinality(Item) \in Nat
  BY <1>1, ItemAssumption, FS_CardinalityType DEF TypeOK
<1>3. ASSUME Cardinality(items[c]) = Limit
      PROVE  offset[c] + Limit \in 0..Cardinality(Item)
  <2>1. items[c] # {}
    BY <1>3, LimitAssumption, FS_EmptySet
  <2> QED
    BY <1>1, <1>2, <1>3, <2>1, LimitAssumption DEF PageFits
<1>4. TypeOK'
  <2>1. seen' \in [Client -> SUBSET Item] /\ items' \in [Client -> SUBSET Item]
    BY <1>1, <1>2 DEF Take, TypeOK
  <2>2. offset' \in [Client -> 0..Cardinality(Item)]
        /\ pc' \in [Client -> {"idle", "listing", "counting", "answered", "done"}]
    BY <1>1, <1>3 DEF Take, TypeOK
  <2> QED
    BY <1>1, <2>1, <2>2 DEF Take, TypeOK, table, Stored
<1>5. PageFits(c)'
  BY <1>1, EmptyPage DEF Take, PageFits, TypeOK
<1>6. WalkGoesOn(c)'
  <2>1. /\ seen'[c] = seen[c] \cup items[c]
        /\ UNCHANGED <<query, expected>> /\ pc[c] = "answered"
    BY <1>1 DEF Take, TypeOK
  <2>2. CASE Cardinality(items[c]) = Limit
    <3>1. pc'[c] = "listing" /\ offset'[c] = offset[c] + Limit
      BY <1>1, <2>2 DEF Take, TypeOK
    <3> QED
      BY <1>1, <2>1, <3>1, TableSame DEF WalkGoesOn, Reachable
  <2>3. CASE Cardinality(items[c]) # Limit
    <3>1. pc'[c] = "done"
      BY <1>1, <2>3 DEF Take, TypeOK
    <3> QED
      BY <1>1, <2>1, <2>3, <3>1, TableSame DEF WalkGoesOn
  <2> QED
    BY <2>2, <2>3
<1>7. ASSUME NEW d \in Client, d # c PROVE PageFits(d)' /\ WalkGoesOn(d)'
  BY <1>1, <1>7, OthersKeep DEF Take, TypeOK
<1> QED
  BY <1>4, <1>5, <1>6, <1>7 DEF ListingInv

LEMMA RestartKeeps ==
    ASSUME ListingInv, NEW c \in Client, Restart(c)
    PROVE  ListingInv'
<1>1. TypeOK /\ UNCHANGED table /\ PageFits(c)
  BY DEF Restart, ListingInv
<1>2. items[c] = {} /\ Cardinality(Item) \in Nat
  BY <1>1, ItemAssumption, FS_CardinalityType DEF Restart, PageFits
<1>3. TypeOK'
  BY <1>1, <1>2 DEF Restart, TypeOK, table, Stored, Query
<1>4. PageFits(c)' /\ WalkGoesOn(c)'
  BY <1>1, <1>2, EmptyPage DEF Restart, PageFits, WalkGoesOn, TypeOK
<1>5. ASSUME NEW d \in Client, d # c PROVE PageFits(d)' /\ WalkGoesOn(d)'
  BY <1>1, <1>5, OthersKeep DEF Restart, TypeOK
<1> QED
  BY <1>3, <1>4, <1>5 DEF ListingInv

-----------------------------------------------------------------------------
(* The theorems. *)

LEMMA ListingInit == Init => ListingInv
<1> SUFFICES ASSUME Init PROVE ListingInv
  OBVIOUS
<1>1. Cardinality(Item) \in Nat
  BY ItemAssumption, FS_CardinalityType
<1>2. TypeOK
  BY <1>1 DEF Init, TypeOK, Stored, Query
<1>3. \A c \in Client : PageFits(c) /\ WalkGoesOn(c)
  BY EmptyPage DEF Init, PageFits, WalkGoesOn
<1> QED
  BY <1>2, <1>3 DEF ListingInv

LEMMA ListingStep == ListingInv /\ [Next]_vars => ListingInv'
<1> SUFFICES ASSUME ListingInv, [Next]_vars PROVE ListingInv'
  OBVIOUS
<1>1. CASE CycleCommits \/ \E a \in Item : Acknowledge(a)
  <2>1. TypeOK' /\ Grows /\ UNCHANGED reader
    BY <1>1, TableGrows DEF ListingInv
  <2> QED
    BY <2>1, TableKeeps DEF ListingInv
<1>2. ASSUME NEW c \in Client, Begin(c) \/ List(c) \/ Count(c) \/ Take(c) \/ Restart(c)
      PROVE  ListingInv'
  BY <1>2, BeginKeeps, ListKeeps, CountKeeps, TakeKeeps, RestartKeeps
<1>3. CASE UNCHANGED vars
  <2>1. TypeOK' /\ UNCHANGED table
    BY <1>3 DEF vars, table, reader, ListingInv, TypeOK, Stored
  <2>2. \A d \in Client : PageFits(d)' /\ WalkGoesOn(d)'
    BY <1>3, <2>1, OthersKeep DEF vars, reader
  <2> QED
    BY <2>1, <2>2 DEF ListingInv
<1> QED
  BY <1>1, <1>2, <1>3 DEF Next

(* The pages that have been read, the totals and what is still to come, at *)
(* every step.                                                             *)
THEOREM ListingInvariant == Spec => []ListingInv
BY ListingInit, ListingStep, PTL DEF Spec

(* The type invariant. *)
THEOREM ListingTyped == Spec => []TypeOK
<1>1. ListingInv => TypeOK
  BY DEF ListingInv
<1> QED
  BY <1>1, ListingInvariant, PTL

(* A response never says fewer rows than its client has been shown: list   *)
(* and count are two statements, and rows are only added between them.     *)
THEOREM TotalsCover == Spec => []TotalCoversPage
<1>1. ListingInv => TotalCoversPage
  BY DEF ListingInv, PageFits, TotalCoversPage
<1> QED
  BY <1>1, ListingInvariant, PTL

(* A walk over the pages by offset misses no row with a stamp of its own,  *)
(* although rows are committed in the middle of it.                        *)
THEOREM WalksAreComplete == Spec => []WalkComplete
<1>1. ListingInv => WalkComplete
  BY DEF ListingInv, WalkGoesOn, WalkComplete
<1> QED
  BY <1>1, ListingInvariant, PTL
=============================================================================
