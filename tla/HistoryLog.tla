----------------------------- MODULE HistoryLog -----------------------------
(***************************************************************************)
(* What binder's history promises a reader of the Changeset and Change     *)
(* tables (docs/models.md, section History): every committed mutation of a *)
(* tracked row is one changeset, which holds, for every field that got     *)
(* another value, the value before and the value after.                    *)
(*                                                                         *)
(* rows[r][f] is the committed value of field f of row r; a row that does  *)
(* not exist has None in its pk.  log holds the committed Change records,  *)
(* each with the id of its changeset: the views order changesets by id.    *)
(***************************************************************************)
EXTENDS Integers

CONSTANTS Row,     \* the primary keys of one tracked model
          Field,   \* the tracked concrete fields, "pk" among them
          Datum,   \* what a field can hold
          None,    \* the null value
          Id       \* the ids of changesets

(* What a module that instantiates this one must make true.                *)
ProperConstants == /\ "pk" \in Field
                   /\ None \notin Datum
                   /\ Id \subseteq Nat /\ 0 \in Id

VARIABLES rows, log

logVars == <<rows, log>>

Contents == Datum \cup {None}
RowState == [Field -> Contents]

Exists(s) == s["pk"] # None

Change == [id : Id, row : Row, field : Field, before : Contents, after : Contents]

LogTypeOK == /\ rows \in [Row -> RowState]
             /\ log \subseteq Change

-----------------------------------------------------------------------------

(* A row that was there when the log began came from one changeset, 0.     *)
Creation(r) == {[id |-> 0, row |-> r, field |-> f, before |-> None, after |-> rows[r][f]]
                  : f \in Field}

LogInit == /\ rows \in [Row -> RowState]
           /\ log = UNION {Creation(r) : r \in {q \in Row : Exists(rows[q])}}
           /\ \A r \in Row : ~Exists(rows[r]) => rows[r] = [f \in Field |-> None]

(* One committed transaction on row r: new contents, and a changeset newer *)
(* than every changeset of that row with the changes of the fields F.      *)
Record(r, F, id) ==
  /\ \A e \in log : e.row = r => e.id < id
  /\ rows'[r] \in RowState
  /\ \A f \in Field \ F : rows'[r][f] = rows[r][f]
  /\ rows' = [rows EXCEPT ![r] = rows'[r]]
  /\ log' = log \cup {[id |-> id, row |-> r, field |-> f,
                       before |-> rows[r][f], after |-> rows'[r][f]] : f \in F}

LogNext == \E r \in Row, F \in SUBSET Field, id \in Id : Record(r, F, id)

LogSpec == LogInit /\ [][LogNext]_logVars

-----------------------------------------------------------------------------

SameKey(d, e) == d.row = e.row /\ d.field = e.field

Newest(e) == \A d \in log : SameKey(d, e) => d.id <= e.id

(* Replaying the changes of a row in changeset order gives the row: the    *)
(* newest change of a field has the value the field holds in the database. *)
NewestIsCurrent == \A e \in log : Newest(e) => e.after = rows[e.row][e.field]

Precedes(d, e) == /\ SameKey(d, e)
                  /\ d.id < e.id
                  /\ \A c \in log : SameKey(c, d) => c.id <= d.id \/ e.id <= c.id

(* The changes of a field form a chain: a change starts from the value the *)
(* previous changeset left, so the history view shows no jump.             *)
Chained == \A d, e \in log : Precedes(d, e) => e.before = d.after

(* Nothing is missing: a field no change speaks of holds null.             *)
Accounted == \A r \in Row, f \in Field :
               (\A e \in log : ~(e.row = r /\ e.field = f)) => rows[r][f] = None
=============================================================================
