----------------------------- MODULE RowUpdate -----------------------------
(***************************************************************************)
(* What PUT does to the columns of a row, in both services: the fields the *)
(* body names are set on the entity, the entity is copied onto the loaded  *)
(* model attribute by attribute, and the flush sends an UPDATE with the    *)
(* attributes whose value differs from the loaded one.                     *)
(***************************************************************************)
EXTENDS Naturals

CONSTANT Column     \* the columns a PUT can set

ASSUME ColumnAssumption == "is_active" \in Column

Value == 0..1       \* two values of a column; of is_active, FALSE and TRUE

Row == [Column -> Value]

(* The fields of an update DTO that are not None, with their values. *)
Fields == UNION {[C -> Value] : C \in SUBSET Column}

(* Seeded bug: a field is copied "if dto.field", so never a false one. *)
OverIfTrue(f, r) ==
    [c \in Column |-> IF c \in DOMAIN f /\ f[c] = 1 THEN f[c] ELSE r[c]]

(* A row with some of its columns set. *)
Over(f, r) == [c \in Column |-> IF c \in DOMAIN f THEN f[c] ELSE r[c]]

(* Seeded bug: the UPDATE names every column. *)
EveryColumn(r, s) == s

(* The SET list of the UPDATE, for a model loaded as r and assigned s. *)
Changes(r, s) == [c \in {x \in Column : s[x] # r[x]} |-> s[c]]
=============================================================================
