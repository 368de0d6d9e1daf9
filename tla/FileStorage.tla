----------------------------- MODULE FileStorage -----------------------------
(***************************************************************************)
(* The files behind the file fields of a model: binder/views.py,           *)
(* _store_field for a FileField and dispatch_file_field.                   *)
(*                                                                         *)
(* A row holds names of files; the storage holds the files and knows of no *)
(* transactions.  A new file is written while the row is saved, the file   *)
(* it replaces is deleted by a callback that transaction.on_commit runs    *)
(* after the commit.  A storage gives a new file any name that is free at  *)
(* that moment, the name of a file that was deleted too.                   *)
(***************************************************************************)
EXTENDS FiniteSets

CONSTANTS Thread,     \* worker threads
          Row,        \* rows of the model
          FileField,  \* its file fields
          Name,       \* bound: names the storage can give
          None,       \* an empty field
          New,        \* a file that was assigned and not written yet
          NoThread,   \* the row is not locked
          Kinds,      \* the handlers the API exposes
          Overlap     \* uploads may meet other requests on their row

ASSUME FileStorageAssumption ==
  /\ Kinds \subseteq {"put", "upload"}
  /\ Overlap \in BOOLEAN
  /\ NoThread \notin Thread
  /\ None \notin Name /\ New \notin Name \cup {None}

VARIABLES rows,    \* committed rows
          disk,    \* the names of the files in the storage
          lock,    \* row locks
          pc,      \* where the request of a thread is
          req,     \* the request a thread serves
          obj,     \* the model instance in memory
          hooks,   \* old files it will delete after the commit
          wrote,   \* files it has written
          litter   \* files that failing requests left behind

vars == <<rows, disk, lock, pc, req, obj, hooks, wrote, litter>>

-----------------------------------------------------------------------------

(* A PUT sends a file or null for some fields (a path stands for a copy of *)
(* the file it names), an upload or DELETE of a file is for one.           *)
Payload == UNION {[F -> {New, None}] : F \in SUBSET FileField \ {{}}}

Request == {q \in [kind : Kinds, row : Row, sends : Payload] :
              q.kind = "upload" => \E f \in FileField : DOMAIN q.sends = {f}}
NoRequest == [kind |-> "none"]

Blank == [f \in FileField |-> None]

Referenced == {rows[r][f] : r \in Row, f \in FileField} \ {None}

TypeOK ==
  /\ rows \in [Row -> [FileField -> Name \cup {None}]]
  /\ disk \subseteq Name
  /\ lock \in [Row -> Thread \cup {NoThread}]
  /\ pc \in [Thread -> {"idle", "load", "store", "save", "commit", "hooks"}]
  /\ req \in [Thread -> Request \cup {NoRequest}]
  /\ \A t \in Thread : pc[t] # "idle" => req[t] \in Request
  /\ obj \in [Thread -> [FileField -> Name \cup {None, New}]]
  /\ \A t \in Thread : pc[t] \in {"store", "commit"} => obj[t] \in [FileField -> Name \cup {None}]
  /\ hooks \in [Thread -> SUBSET Name]
  /\ wrote \in [Thread -> SUBSET Name]
  /\ litter \subseteq Name

(* No two fields share a file, and the storage holds those and no others.  *)
Unshared == \A r, s \in Row, f, g \in FileField :
              rows[r][f] = rows[s][g] /\ rows[r][f] # None => r = s /\ f = g

Init ==
  /\ rows \in [Row -> [FileField -> Name \cup {None}]]
  /\ Unshared
  /\ disk = Referenced
  /\ lock = [r \in Row |-> NoThread]
  /\ pc = [t \in Thread |-> "idle"]
  /\ req = [t \in Thread |-> NoRequest]
  /\ obj = [t \in Thread |-> Blank]
  /\ hooks = [t \in Thread |-> {}]
  /\ wrote = [t \in Thread |-> {}]
  /\ litter = {}

-----------------------------------------------------------------------------

(* With q among them, no upload meets another request on its row.          *)
Undisturbed(q) ==
  \A t \in Thread : pc[t] # "idle" /\ req[t].row = q.row => req[t].kind = "put" /\ q.kind = "put"

Begin(t) ==
  /\ pc[t] = "idle"
  /\ \E q \in Request : /\ Overlap \/ Undisturbed(q)
                        /\ req' = [req EXCEPT ![t] = q]
  /\ pc' = [pc EXCEPT ![t] = "load"]
  /\ UNCHANGED <<rows, disk, lock, obj, hooks, wrote, litter>>

(* put: select_for_update().get(pk); dispatch_file_field: get(pk).         *)
Load(t) ==
  /\ pc[t] = "load"
  /\ IF req[t].kind = "put"
     THEN lock[req[t].row] = NoThread /\ lock' = [lock EXCEPT ![req[t].row] = t]
     ELSE UNCHANGED lock
  /\ obj' = [obj EXCEPT ![t] = rows[req[t].row]]
  /\ pc' = [pc EXCEPT ![t] = "store"]
  /\ UNCHANGED <<rows, disk, req, hooks, wrote, litter>>

(* DELETE of a file that is not there: BinderIsDeleted.                    *)
Refused(t) ==
  req[t].kind = "upload" /\ \E f \in DOMAIN req[t].sends :
                              req[t].sends[f] = None /\ obj[t][f] = None

Assigned(t) ==
  [f \in FileField |-> IF f \in DOMAIN req[t].sends THEN req[t].sends[f] ELSE obj[t][f]]

(* The files the assigned fields hold by now.                              *)
Replaced(t) == {obj[t][f] : f \in DOMAIN req[t].sends} \ {None}

(* Mutant: the old file is not deleted on commit but at once.              *)
StoreDeletes(t) ==
  /\ pc[t] = "store" /\ ~Refused(t)
  /\ disk' = disk \ Replaced(t)
  /\ obj' = [obj EXCEPT ![t] = Assigned(t)]
  /\ pc' = [pc EXCEPT ![t] = "save"]
  /\ UNCHANGED <<rows, lock, req, hooks, wrote, litter>>

(* _store_field for each field: registers the deletion of the old file.    *)
Store(t) ==
  /\ pc[t] = "store" /\ ~Refused(t)
  /\ hooks' = [hooks EXCEPT ![t] = Replaced(t)]
  /\ obj' = [obj EXCEPT ![t] = Assigned(t)]
  /\ pc' = [pc EXCEPT ![t] = "save"]
  /\ UNCHANGED <<rows, disk, lock, req, wrote, litter>>

(* Mutant: a storage that writes over files.                               *)
WriteFileOver(t) ==
  /\ pc[t] = "save"
  /\ \E f \in FileField, n \in Name :
       /\ obj[t][f] = New
       /\ disk' = disk \cup {n}
       /\ obj' = [obj EXCEPT ![t][f] = n]
       /\ wrote' = [wrote EXCEPT ![t] = @ \cup {n}]
  /\ UNCHANGED <<rows, lock, pc, req, hooks, litter>>

(* obj.save(), pre_save of a field: the file gets a free name.             *)
WriteFile(t) ==
  /\ pc[t] = "save"
  /\ \E f \in FileField, n \in Name \ disk :
       /\ obj[t][f] = New
       /\ disk' = disk \cup {n}
       /\ obj' = [obj EXCEPT ![t][f] = n]
       /\ wrote' = [wrote EXCEPT ![t] = @ \cup {n}]
  /\ UNCHANGED <<rows, lock, pc, req, hooks, litter>>

(* obj.save(): the UPDATE of all fields waits for the row lock.            *)
Update(t) ==
  /\ pc[t] = "save" /\ \A f \in FileField : obj[t][f] # New
  /\ lock[req[t].row] \in {NoThread, t}
  /\ lock' = [lock EXCEPT ![req[t].row] = t]
  /\ pc' = [pc EXCEPT ![t] = "commit"]
  /\ UNCHANGED <<rows, disk, req, obj, hooks, wrote, litter>>

Unlocked(t) == [r \in Row |-> IF lock[r] = t THEN NoThread ELSE lock[r]]

Commit(t) ==
  /\ pc[t] = "commit"
  /\ rows' = [rows EXCEPT ![req[t].row] = obj[t]]
  /\ lock' = Unlocked(t)
  /\ wrote' = [wrote EXCEPT ![t] = {}]
  /\ pc' = [pc EXCEPT ![t] = "hooks"]
  /\ UNCHANGED <<disk, req, obj, hooks, litter>>

(* delete_old_file, a callback of the committed transaction.               *)
DeleteOldFile(t) ==
  /\ pc[t] = "hooks"
  /\ \E n \in hooks[t] : /\ disk' = disk \ {n}
                         /\ hooks' = [hooks EXCEPT ![t] = @ \ {n}]
  /\ UNCHANGED <<rows, lock, pc, req, obj, wrote, litter>>

Finish(t) ==
  /\ pc' = [pc EXCEPT ![t] = "idle"]
  /\ req' = [req EXCEPT ![t] = NoRequest]
  /\ obj' = [obj EXCEPT ![t] = Blank]
  /\ hooks' = [hooks EXCEPT ![t] = {}]
  /\ wrote' = [wrote EXCEPT ![t] = {}]

(* Mutant: the response does not wait for the callbacks.                   *)
RespondEarly(t) ==
  pc[t] = "hooks" /\ Finish(t) /\ UNCHANGED <<rows, disk, lock, litter>>

Respond(t) ==
  /\ pc[t] = "hooks" /\ hooks[t] = {}
  /\ Finish(t)
  /\ UNCHANGED <<rows, disk, lock, litter>>

Refuse(t) ==
  /\ pc[t] = "store" /\ Refused(t)
  /\ Finish(t)
  /\ UNCHANGED <<rows, disk, lock, litter>>

(* An exception or the death of the worker: the database rolls back what   *)
(* is not committed and forgets the callbacks, the storage keeps its files.*)
Fail(t) ==
  /\ pc[t] # "idle"
  /\ lock' = Unlocked(t)
  /\ litter' = litter \cup wrote[t] \cup IF pc[t] = "hooks" THEN hooks[t] ELSE {}
  /\ Finish(t)
  /\ UNCHANGED <<rows, disk>>

Next == \E t \in Thread :
          \/ Begin(t) \/ Load(t) \/ Store(t) \/ WriteFile(t) \/ Update(t) \/ Commit(t)
          \/ DeleteOldFile(t) \/ Respond(t) \/ Refuse(t) \/ Fail(t)

Spec == Init /\ [][Next]_vars

-----------------------------------------------------------------------------

(* "Expected file {} not found" and "a record in the db but the file is    *)
(* missing from disk" do not happen: the file of every field exists.       *)
FilesExist == Referenced \subseteq disk

(* A file that no field refers to is on its way to be one, on its way to   *)
(* be deleted, or the mess of a request that failed.                       *)
NothingLeaks ==
  disk \subseteq Referenced \cup litter \cup UNION {hooks[t] \cup wrote[t] : t \in Thread}
=============================================================================
