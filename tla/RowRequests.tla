----------------------------- MODULE RowRequests -----------------------------
(***************************************************************************)
(* Worker threads serving CRUD requests on the rows of models that keep    *)
(* history, with and without a field deleted (of which a row that has none *)
(* holds null here): binder/views.py (dispatch, post, put, delete,            *)
(* dispatch_file_field), binder/history.py (the transaction each thread    *)
(* keeps in a threading.local) and the signal handlers of binder/models.py.*)
(*                                                                         *)
(* The database is PostgreSQL at READ COMMITTED, the level Django uses: a  *)
(* statement sees what was committed before it, and UPDATE, DELETE and     *)
(* SELECT FOR UPDATE wait for the row lock, kept to the end of the         *)
(* transaction.  What a transaction wrote stays in obj until DbCommit.     *)
(***************************************************************************)
EXTENDS Integers, FiniteSets

CONSTANTS Thread,        \* worker threads
          Row,           \* primary keys the database sequence can hand out
          Value,         \* contents of a name or of a file field
          None,          \* null
          NewInstance,   \* history.NewInstanceField
          NoThread,      \* the row is not locked
          Kinds,         \* the handlers the API exposes
          SoftRow,       \* the rows of a model that has a field deleted
          InitialRows,   \* rows earlier requests created
          MaxId          \* bound: the changeset ids handed out

AllKinds == {"post", "put", "delete", "undelete", "upload"}

Field == {"pk", "name", "doc", "deleted"}
Datum == Value \cup {"present", "live", "deleted"}
Id == 0..MaxId

ASSUME RowRequestsAssumption ==
  /\ SoftRow \subseteq Row
  /\ Kinds \subseteq AllKinds
  /\ InitialRows \subseteq Row
  /\ MaxId \in Nat
  /\ NoThread \notin Thread
  /\ None \notin Datum /\ NewInstance \notin Datum \cup {None}

VARIABLES rows,      \* committed rows
          log,       \* committed Change records
          nextId,    \* the sequence of Changeset.id
          fresh,     \* primary keys the sequence has not handed out
          lock,      \* row locks
          pc,        \* where the request of a thread is
          req,       \* the request a thread serves
          obj,       \* the model instance in memory
          loaded,    \* obj._history: what the instance was loaded with
          started,   \* _Transaction.started
          changes,   \* _Transaction.changes
          staged     \* Change records written and not yet committed

vars == <<rows, log, nextId, fresh, lock, pc, req, obj, loaded, started, changes, staged>>

Log == INSTANCE HistoryLog

-----------------------------------------------------------------------------

RowState == Log!RowState
Exists(s) == Log!Exists(s)
Blank == [f \in Field |-> None]

(* What a request assigns to the instance: a PUT or POST a name, an upload *)
(* a file (the DELETE of the file: null), DELETE and POST on a pk the      *)
(* deleted flag.  A hard delete takes the pk; what else the row held no    *)
(* longer matters, and is left as it was.                                  *)
Assigns(q) ==
  \/ q.kind \in {"post", "put"} /\ q.field = "name" /\ q.val \in Value
  \/ q.kind = "upload" /\ q.field = "doc" /\ q.val \in Value \cup {None}
  \/ q.kind = "delete" /\ q.row \in SoftRow /\ q.field = "deleted" /\ q.val = "deleted"
  \/ q.kind = "delete" /\ q.row \notin SoftRow /\ q.field = "pk" /\ q.val = None
  \/ q.kind = "undelete" /\ q.row \in SoftRow /\ q.field = "deleted" /\ q.val = "live"

Request == {q \in [kind : Kinds, row : Row, field : Field, val : Datum \cup {None}] : Assigns(q)}
NoRequest == [kind |-> "none"]

Edited(s, q) == [s EXCEPT ![q.field] = q.val]

Recorded == [row : Row, field : Field, old : Datum \cup {None, NewInstance},
             new : Datum \cup {None}]

TypeOK ==
  /\ rows \in [Row -> RowState] /\ log \subseteq Log!Change
  /\ nextId \in 1..(MaxId + 1)
  /\ fresh \subseteq Row
  /\ lock \in [Row -> Thread \cup {NoThread}]
  /\ pc \in [Thread -> {"idle", "read", "lock", "save", "history", "commit"}]
  /\ req \in [Thread -> Request \cup {NoRequest}]
  /\ \A t \in Thread : pc[t] # "idle" => req[t] \in Request
  /\ obj \in [Thread -> RowState]
  /\ loaded \in [Thread -> [Field -> Datum \cup {None, NewInstance}]]
  /\ started \in [Thread -> BOOLEAN]
  /\ changes \in [Thread -> SUBSET Recorded]
  /\ staged \in [Thread -> SUBSET Log!Change]

(* self.model(): only defaults, and what the request assigns.              *)
NewRow(r, v) == [Blank EXCEPT !["pk"] = "present", !["name"] = v,
                              !["deleted"] = IF r \in SoftRow THEN "live" ELSE None]

Init ==
  /\ \E v \in Value : rows = [r \in Row |-> IF r \in InitialRows THEN NewRow(r, v) ELSE Blank]
  /\ log = UNION {Log!Creation(r) : r \in InitialRows}
  /\ nextId = 1
  /\ fresh = Row \ InitialRows
  /\ lock = [r \in Row |-> NoThread]
  /\ pc = [t \in Thread |-> "idle"]
  /\ req = [t \in Thread |-> NoRequest]
  /\ obj = [t \in Thread |-> Blank]
  /\ loaded = [t \in Thread |-> Blank]
  /\ started = [t \in Thread |-> FALSE]
  /\ changes = [t \in Thread |-> {}]
  /\ staged = [t \in Thread |-> {}]

-----------------------------------------------------------------------------

(* Bound of the model: a request begins only if the ids up to MaxId allow  *)
(* every running request a changeset.                                      *)
WithinBound == nextId + Cardinality({t \in Thread : pc[t] # "idle"}) <= MaxId

(* history.atomic.__enter__: _Transaction.start() raises if the thread has *)
(* an open transaction, else forgets whatever changes there were.          *)
Start(t) == /\ ~started[t]
            /\ started' = [started EXCEPT ![t] = TRUE]
            /\ changes' = [changes EXCEPT ![t] = {}]

(* A request for an existing key: PUT, DELETE, POST on a pk, file field.   *)
Begin(t) ==
  /\ pc[t] = "idle" /\ WithinBound
  /\ Start(t)
  /\ \E q \in Request : q.kind # "post" /\ req' = [req EXCEPT ![t] = q]
  /\ pc' = [pc EXCEPT ![t] = "read"]
  /\ UNCHANGED <<rows, log, nextId, fresh, lock, obj, loaded, staged>>

(* post: self.model() has only defaults, its _history is NewInstanceField  *)
(* throughout.  The INSERT will take the next primary key.                 *)
BeginPost(t) ==
  /\ pc[t] = "idle" /\ WithinBound
  /\ Start(t)
  /\ \E q \in Request :
       /\ q.kind = "post" /\ q.row \in fresh
       /\ req' = [req EXCEPT ![t] = q]
       /\ fresh' = fresh \ {q.row}
       /\ obj' = [obj EXCEPT ![t] = NewRow(q.row, q.val)]
  /\ loaded' = [loaded EXCEPT ![t] = [f \in Field |-> NewInstance]]
  /\ pc' = [pc EXCEPT ![t] = "save"]
  /\ UNCHANGED <<rows, log, nextId, lock, staged>>

(* get_queryset(request).get(pk): the permission check, without a lock.    *)
(* dispatch_file_field goes on with this instance.                         *)
Read(t) ==
  /\ pc[t] = "read" /\ Exists(rows[req[t].row])
  /\ IF req[t].kind = "upload"
     THEN /\ obj' = [obj EXCEPT ![t] = rows[req[t].row]]
          /\ loaded' = [loaded EXCEPT ![t] = rows[req[t].row]]
          /\ pc' = [pc EXCEPT ![t] = "save"]
     ELSE /\ pc' = [pc EXCEPT ![t] = "lock"]
          /\ UNCHANGED <<obj, loaded>>
  /\ UNCHANGED <<rows, log, nextId, fresh, lock, req, started, changes, staged>>

(* Mutant: get(pk) without select_for_update().                            *)
GetUnlocked(t) ==
  /\ pc[t] = "lock" /\ Exists(rows[req[t].row])
  /\ obj' = [obj EXCEPT ![t] = rows[req[t].row]]
  /\ loaded' = [loaded EXCEPT ![t] = rows[req[t].row]]
  /\ pc' = [pc EXCEPT ![t] = "save"]
  /\ UNCHANGED <<rows, log, nextId, fresh, lock, req, started, changes, staged>>

(* select_for_update().get(pk): waits for the row, then loads it again.    *)
Lock(t) ==
  /\ pc[t] = "lock" /\ lock[req[t].row] = NoThread /\ Exists(rows[req[t].row])
  /\ lock' = [lock EXCEPT ![req[t].row] = t]
  /\ obj' = [obj EXCEPT ![t] = rows[req[t].row]]
  /\ loaded' = [loaded EXCEPT ![t] = rows[req[t].row]]
  /\ pc' = [pc EXCEPT ![t] = "save"]
  /\ UNCHANGED <<rows, log, nextId, fresh, req, started, changes, staged>>

(* Mutant: the deleted flag is not looked at.                              *)
RefusedNever(t) == FALSE

(* BinderIsDeleted and BinderIsNotDeleted.                                 *)
Refused(t) ==
  \/ req[t].kind \in {"put", "delete"} /\ req[t].row \in SoftRow /\ obj[t]["deleted"] = "deleted"
  \/ req[t].kind = "undelete" /\ obj[t]["deleted"] = "live"
  \/ req[t].kind = "upload" /\ req[t].val = None /\ obj[t]["doc"] = None

(* history_obj_post_save: every field that differs from obj._history.      *)
Differences(r, old, new) ==
  {[row |-> r, field |-> f, old |-> old[f], new |-> new[f]] :
     f \in {g \in Field : old[g] # new[g]}}

(* obj.save(): an UPDATE (or INSERT) of all fields, whatever the row holds *)
(* by now, and if the row is gone an INSERT brings it back.                *)
Save(t) ==
  /\ pc[t] = "save" /\ ~Refused(t) /\ lock[req[t].row] \in {NoThread, t}
  /\ lock' = [lock EXCEPT ![req[t].row] = t]
  /\ obj' = [obj EXCEPT ![t] = Edited(@, req[t])]
  /\ changes' = [changes EXCEPT
                   ![t] = @ \cup Differences(req[t].row, loaded[t], Edited(obj[t], req[t]))]
  /\ pc' = [pc EXCEPT ![t] = "history"]
  /\ UNCHANGED <<rows, log, nextId, fresh, req, loaded, started, staged>>

(* history._commit: drops the non-changes; if any change is left, saves a  *)
(* Changeset and its Change records; then stop().                          *)
Kept(t) == {c \in changes[t] : c.old # c.new}

Before(old) == IF old = NewInstance THEN None ELSE old

HistoryCommit(t) ==
  /\ pc[t] = "history" /\ nextId <= MaxId
  /\ staged' = [staged EXCEPT ![t] =
       {[id |-> nextId, row |-> c.row, field |-> c.field,
         before |-> Before(c.old), after |-> c.new] : c \in Kept(t)}]
  /\ nextId' = IF Kept(t) = {} THEN nextId ELSE nextId + 1
  /\ started' = [started EXCEPT ![t] = FALSE]
  /\ changes' = [changes EXCEPT ![t] = {}]
  /\ pc' = [pc EXCEPT ![t] = "commit"]
  /\ UNCHANGED <<rows, log, fresh, lock, req, obj, loaded>>

(* The end of the transaction, for better or worse: locks go, the thread   *)
(* is free.                                                                *)
Finish(t) ==
  /\ lock' = [r \in Row |-> IF lock[r] = t THEN NoThread ELSE lock[r]]
  /\ pc' = [pc EXCEPT ![t] = "idle"]
  /\ req' = [req EXCEPT ![t] = NoRequest]
  /\ obj' = [obj EXCEPT ![t] = Blank]
  /\ loaded' = [loaded EXCEPT ![t] = Blank]
  /\ staged' = [staged EXCEPT ![t] = {}]

(* transaction.atomic ends without an exception.                           *)
DbCommit(t) ==
  /\ pc[t] = "commit"
  /\ rows' = [rows EXCEPT ![req[t].row] = obj[t]]
  /\ log' = log \cup staged[t]
  /\ Finish(t)
  /\ UNCHANGED <<nextId, fresh, started, changes>>

(* Mutant: no transaction.atomic, what was saved stays saved.              *)
RollbackAutocommit(t) ==
  /\ rows' = IF pc[t] \in {"history", "commit"}
             THEN [rows EXCEPT ![req[t].row] = obj[t]] ELSE rows
  /\ Finish(t) /\ UNCHANGED <<log, nextId, fresh>>

Rollback(t) == Finish(t) /\ UNCHANGED <<rows, log, nextId, fresh>>

(* history.atomic.__exit__ with an exception: _abort() is stop(), and the  *)
(* ExitStack rolls the database back.                                      *)
Stop(t) == /\ started' = [started EXCEPT ![t] = FALSE]
           /\ changes' = [changes EXCEPT ![t] = {}]

(* The row is not there: BinderNotFound, or DoesNotExist in delete.        *)
NotFound(t) ==
  /\ \/ pc[t] = "read"
     \/ pc[t] = "lock" /\ lock[req[t].row] = NoThread
  /\ ~Exists(rows[req[t].row])
  /\ Stop(t) /\ Rollback(t)

Refuse(t) == pc[t] = "save" /\ Refused(t) /\ Stop(t) /\ Rollback(t)

(* Any other exception while the thread runs: a permission, a validation   *)
(* error of full_clean, an error of the serialisation of the answer.       *)
Abort(t) == pc[t] \in {"read", "save", "history"} /\ Stop(t) /\ Rollback(t)

(* _commit raises: the Changeset or a Change cannot be saved, or a         *)
(* receiver of transaction_commit raises.  Nobody calls stop().            *)
HistoryCommitFails(t) ==
  /\ pc[t] = "history" /\ nextId <= MaxId
  /\ Kept(t) # {}
  /\ nextId' = nextId + 1
  /\ changes' = [changes EXCEPT ![t] = Kept(t)]
  /\ Finish(t)
  /\ UNCHANGED <<rows, log, fresh, started>>

(* COMMIT itself fails; history has already stopped.                       *)
DbCommitFails(t) ==
  pc[t] = "commit" /\ Rollback(t) /\ UNCHANGED <<started, changes>>

(* The worker process dies and is replaced: PostgreSQL rolls back, the     *)
(* new thread has a fresh _Transaction.                                    *)
Crash(t) == (pc[t] # "idle" \/ started[t]) /\ Stop(t) /\ Rollback(t)

Progress(t) == \/ Read(t) \/ Lock(t) \/ Save(t) \/ HistoryCommit(t) \/ DbCommit(t)
               \/ NotFound(t) \/ Refuse(t)

Failure(t) == \/ Abort(t) \/ HistoryCommitFails(t) \/ DbCommitFails(t) \/ Crash(t)

Next == \E t \in Thread : Begin(t) \/ BeginPost(t) \/ Progress(t) \/ Failure(t)

Spec == Init /\ [][Next]_vars

-----------------------------------------------------------------------------

(* The handlers that load the row they save under its lock.                *)
LockedKinds == {"post", "put", "delete", "undelete"}

(* The log explains the database, whatever interleaves, fails or crashes.  *)
HistoryImplemented == Log!LogSpec
NewestIsCurrent == Log!NewestIsCurrent
Chained == Log!Chained
Accounted == Log!Accounted

(* A soft-deleted row is out of reach: the only thing that may ever happen *)
(* to it is that it comes back exactly as it was (BinderIsDeleted in put,  *)
(* delete and soft_delete).                                                *)
DeletedRowsFrozen ==
  [][\A r \in Row :
       LET s == rows[r] IN
         r \in SoftRow /\ s["deleted"] = "deleted" /\ rows'[r] # s
           => rows'[r] = [s EXCEPT !["deleted"] = "live"]]_rows

(* A transaction that commits changes in the row only what its request     *)
(* asks for: a concurrent, committed change of another field survives.     *)
NoLostUpdate ==
  [][\A t \in Thread, r \in Row :
       rows'[r] # rows[r] /\ DbCommit(t)
         => r = req[t].row /\ (Exists(rows[r]) => rows'[r] = Edited(rows[r], req[t]))]_vars

(* A primary key that was hard-deleted stays gone.                         *)
GoneForGood ==
  [][\A r \in Row : ~Exists(rows[r]) /\ Exists(rows'[r])
       => \A e \in log : e.row # r]_vars

(* dispatch never meets the RuntimeError of _Transaction.start(): between  *)
(* requests a thread has no open transaction.                              *)
StartFindsNoOpenTransaction == \A t \in Thread : pc[t] = "idle" => ~started[t]
=============================================================================
