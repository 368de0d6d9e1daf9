---------------------------- MODULE RelationHistory ----------------------------
(***************************************************************************)
(* The history of relations: a zoo has contacts (many to many, through a   *)
(* model) and children (the reverse side of a foreign key that it has in   *)
(* include_reverse_relations).  What was recorded is the difference of two *)
(* sets: the old one is read when the relation is about to change, the new *)
(* one when history commits.  The view of a zoo's history goes back from   *)
(* the contacts of today and puts the sets together again.                 *)
(*                                                                         *)
(* The database is PostgreSQL at READ COMMITTED: every query sees what was *)
(* committed before it, and what its own transaction wrote.                *)
(***************************************************************************)
EXTENDS Integers, FiniteSets

CONSTANTS Thread, Zoo, Contact, Child,
          None,      \* no parent; the NULL of a join without rows
          Absent,    \* a child that was deleted
          NoThread,
          Raw,       \* a change that is shown as it is stored
          Families,  \* what is asked, and the rows there are
          Apart,     \* whether requests on children overlap no other such request
          MaxId      \* bound: the changesets of a behaviour

ASSUME RelationHistoryAssumption ==
  /\ Zoo \subseteq Nat /\ Contact \subseteq Nat
  /\ Zoo \cap Child = {} /\ None \notin Zoo \cup Contact /\ Absent \notin Zoo /\ NoThread \notin Thread
  /\ \A f \in Families :
       /\ \A q \in f.asks : \/ q.kind = "put" /\ DOMAIN q.want \subseteq Zoo
                               /\ \A z \in DOMAIN q.want : q.want[z] \subseteq Contact
                            \/ q.kind = "move" /\ q.child \in Child /\ q.to \in Zoo \cup {None}
                            \/ q.kind = "drop" /\ q.child \in Child
       /\ f.contacts \subseteq [Zoo -> SUBSET Contact]
       /\ f.parents \subseteq [Child -> Zoo \cup {None}]

VARIABLES contacts,  \* committed contacts of each zoo
          parent,    \* committed foreign key of each child
          lock,      \* row locks of zoos and children
          req,       \* the request each thread serves, and what it has written
          changes,   \* _Transaction.changes: the old value of each relation
          log,       \* committed Change records
          nextId,    \* the sequence of Changeset.id
          asks,      \* what clients may ask in this behaviour
          view       \* the request for a zoo's history

vars == <<contacts, parent, lock, req, changes, log, nextId, asks, view>>

-----------------------------------------------------------------------------

Idle == [phase |-> "idle"]
NoView == [phase |-> "none"]

Relations == {"contacts", "children"} \X Zoo

(* What a transaction wrote, over what is committed.                       *)
Over(wrote, base) == [x \in DOMAIN wrote \cup DOMAIN base |-> IF x \in DOMAIN wrote THEN wrote[x] ELSE base[x]]
Only(x, value) == [y \in {x} |-> value]

(* binder_serialize_m2m_field: the ids of one relation.                    *)
Serialized(rel, con, par) ==
  IF rel[1] = "contacts" THEN con[rel[2]] ELSE {c \in Child : par[c] = rel[2]}
Committed(rel) == Serialized(rel, contacts, parent)
Seen(t, rel) == Serialized(rel, Over(req[t].contacts, contacts), Over(req[t].parent, parent))

Init == \E f \in Families :
  /\ asks = f.asks
  /\ contacts \in f.contacts /\ parent \in f.parents
  /\ lock = [r \in Zoo \cup Child |-> NoThread]
  /\ req = [t \in Thread |-> Idle]
  /\ changes = [t \in Thread |-> << >>]
  /\ log = {} /\ nextId = 1
  /\ view = NoView

(* A PUT of a zoo or a multi-put says what contacts some zoos shall have,  *)
(* a PUT of a child who its parent is; a DELETE of a child says Absent.    *)
OnChildren(q) == q.kind # "put"
Begin(t) ==
  /\ req[t] = Idle
  /\ nextId + Cardinality({s \in Thread : req[s] # Idle}) <= MaxId
  /\ \E q \in asks :
       /\ Apart /\ OnChildren(q) =>
            \A s \in Thread : req[s] # Idle => ~OnChildren(req[s].ask)
       /\ req' = [req EXCEPT ![t] = [phase |-> "save", ask |-> q, contacts |-> << >>, parent |-> << >>]]
  /\ UNCHANGED <<contacts, parent, lock, changes, log, nextId, asks, view>>

(* The end of the transaction: history's and the database's.               *)
End(t) == /\ req' = [req EXCEPT ![t] = Idle]
          /\ changes' = [changes EXCEPT ![t] = << >>]
          /\ lock' = [r \in DOMAIN lock |-> IF lock[r] = t THEN NoThread ELSE lock[r]]

Fail(t) == /\ req[t] # Idle /\ End(t)
           /\ UNCHANGED <<contacts, parent, log, nextId, asks, view>>

(* select_for_update, of one row after the other is saved; a child that is *)
(* gone is not found.                                                      *)
Targets(q) == IF q.kind = "put" THEN DOMAIN q.want ELSE {q.child}
Stored(t) == DOMAIN req[t].contacts \cup DOMAIN req[t].parent
Lock(t, r) ==
  /\ req[t].phase = "save" /\ r \in Targets(req[t].ask) /\ lock[r] = NoThread
  /\ \A s \in Targets(req[t].ask) : lock[s] = t => s \in Stored(t)
  /\ r \in Child => parent[r] # Absent
  /\ lock' = [lock EXCEPT ![r] = t]
  /\ UNCHANGED <<contacts, parent, req, changes, log, nextId, asks, view>>

-----------------------------------------------------------------------------

(* history.change with DeferredM2M: the first change reads the old value.  *)
Change(t, rels) == changes' = [changes EXCEPT ![t] = Over(@, [rel \in rels |-> Seen(t, rel)])]

(* _store_m2m_field: m2m_changed is sent only if something will change.    *)
SetContacts(t, z) ==
  /\ req[t].phase = "save" /\ req[t].ask.kind = "put"
  /\ z \in DOMAIN req[t].ask.want \ DOMAIN req[t].contacts /\ lock[z] = t
  /\ LET rel == <<"contacts", z>>
     IN Change(t, IF req[t].ask.want[z] = Seen(t, rel) THEN {} ELSE {rel})
  /\ req' = [req EXCEPT ![t].contacts = Over(Only(z, req[t].ask.want[z]), @)]
  /\ UNCHANGED <<contacts, parent, lock, log, nextId, asks, view>>

(* Mutant: only the new parent is told.                                    *)
NewParentOnly(old, new) == {new}

(* history_obj_reverse_relation_pre_save: the old parent is what is in the *)
(* database now.                                                           *)
Parents(old, new) == {old, new}

SaveChild(t) ==
  /\ req[t].phase = "save" /\ req[t].ask.kind = "move"
  /\ lock[req[t].ask.child] = t /\ req[t].parent = << >>
  /\ LET c == req[t].ask.child
     IN /\ Change(t, {<<"children", z>> : z \in Parents(parent[c], req[t].ask.to) \ {None}})
        /\ req' = [req EXCEPT ![t].parent = Only(c, req[t].ask.to)]
  /\ UNCHANGED <<contacts, parent, lock, log, nextId, asks, view>>

(* history_obj_reverse_relation_pre_delete.                                *)
DeleteChild(t) ==
  /\ req[t].phase = "save" /\ req[t].ask.kind = "drop"
  /\ lock[req[t].ask.child] = t /\ req[t].parent = << >>
  /\ LET c == req[t].ask.child
     IN /\ Change(t, {<<"children", z>> : z \in {parent[c]} \ {None}})
        /\ req' = [req EXCEPT ![t].parent = Only(c, Absent)]
  /\ UNCHANGED <<contacts, parent, lock, log, nextId, asks, view>>

-----------------------------------------------------------------------------

(* history._commit: the new values are read, what did not change after all *)
(* is dropped, and the rest becomes a changeset.                           *)
Kept(t) == {rel \in DOMAIN changes[t] : changes[t][rel] # Seen(t, rel)}
Records(t) == {[id |-> nextId, rel |-> rel, removed |-> changes[t][rel] \ Seen(t, rel),
                added |-> Seen(t, rel) \ changes[t][rel]] : rel \in Kept(t)}

HistoryCommit(t) ==
  /\ req[t].phase = "save" /\ Stored(t) = Targets(req[t].ask)
  /\ req' = [req EXCEPT ![t] = [phase |-> "commit", ask |-> @.ask, contacts |-> @.contacts,
                              parent |-> @.parent, records |-> Records(t)]]
  /\ nextId' = IF Kept(t) = {} THEN nextId ELSE nextId + 1
  /\ changes' = [changes EXCEPT ![t] = << >>]
  /\ UNCHANGED <<contacts, parent, lock, log, asks, view>>

(* The record also remembers, for the properties, what the relation was    *)
(* right before and right after the commit.                                *)
DbCommit(t) ==
  /\ req[t].phase = "commit"
  /\ contacts' = Over(req[t].contacts, contacts)
  /\ parent' = Over(req[t].parent, parent)
  /\ log' = log \cup {[id |-> r.id, rel |-> r.rel, removed |-> r.removed, added |-> r.added,
                       was |-> Committed(r.rel), is |-> Seen(t, r.rel)] : r \in req[t].records}
  /\ view' = IF view.phase = "list" /\ view.zoo \in DOMAIN req[t].contacts
             THEN [view EXCEPT !.late = TRUE] ELSE view
  /\ End(t)
  /\ UNCHANGED <<nextId, asks>>

-----------------------------------------------------------------------------

(* view_history: the changesets that have a change of the zoo, and of      *)
(* these the changes of contacts, those of other zoos too.                 *)
ViewHistory(z) ==
  /\ view = NoView
  /\ LET ids == {r.id : r \in {l \in log : l.rel[2] = z}}
     IN view' = [phase |-> "list", zoo |-> z, late |-> FALSE, today |-> {},
                 todo |-> {r \in log : r.id \in ids /\ r.rel[1] = "contacts"},
                 tracker |-> {}, shown |-> {}]
  /\ UNCHANGED <<contacts, parent, lock, req, changes, log, nextId, asks>>

(* The newest changeset first, and in it by the primary key.               *)
Newer(r, s) == r.id > s.id \/ (r.id = s.id /\ r.rel[2] < s.rel[2])

(* ids.sort() and the names, here how often each id is named: None and an  *)
(* id cannot be compared.                                                  *)
Shown(tracker, more) ==
  LET ids == tracker \cup more
  IN IF None \in ids /\ ids # {None} THEN Raw
     ELSE [id \in ids |-> IF id \in tracker \cap more THEN 2 ELSE 1]

(* format_field_for_history: tracker is the set of ids after the change,   *)
(* and what was added is taken from it, id by id; one that it lacks is a   *)
(* KeyError.                                                               *)
FormatAfter(tracker, added) ==
  LET missing == added \ tracker
  IN [tracker |-> tracker \ {id \in added : \A m \in missing : id < m},
      shown |-> IF missing = {} THEN Shown(tracker, {}) ELSE Raw]

(* Mutant: what was removed is shown, and then forgotten.                  *)
BeforeForgetful(tracker, removed) ==
  [tracker |-> tracker, shown |-> Shown(tracker, removed)]

(* What was removed is put in, and is named a second time if it was there. *)
FormatBefore(tracker, removed) ==
  [tracker |-> tracker \cup removed, shown |-> Shown(tracker, removed)]

(* The contacts of today are read when the first change is formatted, by a *)
(* join that has one row of NULL if there are none.                        *)
Today(z) == IF contacts[z] = {} THEN {None} ELSE contacts[z]

FormatChange(r) ==
  /\ view.phase \in {"list", "format"}
  /\ r \in view.todo /\ \A s \in view.todo \ {r} : Newer(r, s)
  /\ LET first == view.phase = "list"
         after == FormatAfter(IF first THEN Today(view.zoo) ELSE view.tracker, r.added)
         before == FormatBefore(after.tracker, r.removed)
     IN view' = [view EXCEPT !.phase = "format",
                             !.today = IF first THEN contacts[view.zoo] ELSE @,
                             !.todo = @ \ {r},
                             !.tracker = before.tracker,
                             !.shown = @ \cup {[record |-> r, after |-> after.shown, before |-> before.shown]}]
  /\ UNCHANGED <<contacts, parent, lock, req, changes, log, nextId, asks>>

Respond ==
  /\ view.phase \in {"list", "format"} /\ view.todo = {} /\ view' = NoView
  /\ UNCHANGED <<contacts, parent, lock, req, changes, log, nextId, asks>>

-----------------------------------------------------------------------------

Next == \/ \E t \in Thread : \/ Begin(t) \/ Fail(t) \/ SaveChild(t) \/ DeleteChild(t)
                             \/ HistoryCommit(t) \/ DbCommit(t)
                             \/ \E z \in Zoo : SetContacts(t, z)
                             \/ \E r \in Zoo \cup Child : Lock(t, r)
        \/ \E z \in Zoo : ViewHistory(z)
        \/ \E r \in log : FormatChange(r)
        \/ Respond

Spec == Init /\ [][Next]_vars

-----------------------------------------------------------------------------

(* A relation of a zoo changes only together with a record that says which *)
(* ids were removed and which were added, no more and no less, and nothing *)
(* is recorded of a relation that does not change: whoever else changes    *)
(* contacts at the same time, and as long as requests on children do not   *)
(* overlap (the old children are read long before the commit).             *)
RelationChangesRecorded == [][
  \A rel \in Relations :
    LET old == Committed(rel)
        new == Committed(rel)'
        recorded == {r \in log' \ log : r.rel = rel}
    IN IF old = new THEN recorded = {}
       ELSE /\ Cardinality(recorded) = 1
            /\ \A r \in recorded : r.removed = old \ new /\ r.added = new \ old]_<<contacts, parent, log>>

(* The history of a zoo shows for every change of its contacts the whole   *)
(* set before it and the whole set after it, each id once.                 *)
Once(ids) == [id \in ids |-> 1]
Right(entry) == entry.before = Once(entry.record.was) /\ entry.after = Once(entry.record.is)
Mine == {entry \in view.shown : entry.record.rel[2] = view.zoo}
Answered == view.phase = "format" /\ view.todo = {}
ViewAlwaysRight == Answered /\ ~view.late => \A entry \in Mine : Right(entry)

(* It does if the zoo has contacts today, if the changesets that are shown *)
(* changed the contacts of no other zoo, and if none was committed between *)
(* the list of changesets and the read of the contacts.                    *)
ViewRight ==
  Answered /\ ~view.late /\ view.today # {} /\ Mine = view.shown => \A entry \in Mine : Right(entry)
=============================================================================
