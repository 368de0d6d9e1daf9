---------------------------- MODULE ScopedRequests ----------------------------
(***************************************************************************)
(* Requests to a PermissionView: what the permissions and scopes of their  *)
(* users let them see and change while other requests change the rows.     *)
(*                                                                         *)
(* A row is the set of facts that scopes ask about.  A scope of adding,    *)
(* changing or deleting holds when its fact does (the methods              *)
(* _scope_change_own and so on belong to the project); a scope of viewing  *)
(* is a Q object, of which only what matches it is known here: SmartQ is   *)
(* what the runs use.  PUT and DELETE find their row through the view      *)
(* scope without a lock and read it again with one; a multi-put locks its  *)
(* rows without the view scope; an upload never locks before it saves.     *)
(***************************************************************************)
EXTENDS Naturals, FiniteSets, SequencesExt

CONSTANTS Thread, Pk, InitialRows,
          Users,       \* of each user: superuser, and its groups
          Definition,  \* BINDER_PERMISSION: of each group its <<permission, scope>> pairs
          NoScope,     \* None in the place of a scope
          Fact,        \* what scopes may ask of a row
          Payloads,    \* the facts that a body gives a row
          Families,    \* who asks for what, the view scopes and the table
          Tree,        \* the Q objects that view scopes may return
          Everything,  \* the Q object of the scope "all"
          Satisfies(_, _),  \* does a row with these facts match a Q object?
          Joined(_),        \* smart_q_or, on a sequence of Q objects
          NoThread, Absent

VARIABLES rows,    \* the committed rows
          fresh,   \* the primary keys that were never used
          lock,    \* the thread that has locked a row
          serving, \* the request each thread is serving
          views,   \* _scope_view_<name>
          filter,  \* what they come to for each user
          kinds    \* the <<user, kind>> pairs of this behaviour

given == <<views, filter, kinds>>
scopedVars == <<rows, fresh, lock, serving, given>>

-----------------------------------------------------------------------------

(* _parse_permissions: everybody has the group "default".                  *)
Permissions(u) == UNION {Definition[g] : g \in Users[u].groups \cup {"default"}}

(* _require_model_perm: is there a permission, and which scopes has it?    *)
HasPerm(u, perm) == Users[u].superuser \/ \E p \in Permissions(u) : p[1] = perm
Scopes(u, perm) ==
  IF Users[u].superuser THEN {"all"}
  ELSE {p[2] : p \in {p \in Permissions(u) : p[1] = perm}} \ {NoScope}

(* A view has a _scope_view_<name> for each scope that permissions name.   *)
ViewScopes == (UNION {Scopes(u, "view") : u \in DOMAIN Users}) \ {"all"}
Table == [Pk -> {Absent} \cup SUBSET Fact]
ASSUME ScopedAssumption ==
  /\ NoThread \notin Thread
  /\ \A facts \in SUBSET Fact : facts # Absent
  /\ Payloads \subseteq SUBSET Fact
  /\ \A f \in Families : f.tables \subseteq Table /\ f.views \subseteq [ViewScopes -> Tree]
  /\ Everything \in Tree
  /\ \A u \in DOMAIN Users : IsFiniteSet(Scopes(u, "view"))

(* scope_add, scope_change and scope_delete, on the instance they get.     *)
Allowed(u, perm, facts) ==
  HasPerm(u, perm) /\ \E s \in Scopes(u, perm) : s = "all" \/ s \in facts

(* scope_view: the filter that get_queryset puts on every query.           *)
ViewQ(s) == IF s = "all" THEN Everything ELSE views[s]
ViewFilter(u) == LET scopes == SetToSeq(Scopes(u, "view"))
                 IN Joined([i \in DOMAIN scopes |-> ViewQ(scopes[i])])
Exists(r) == rows[r] # Absent
Visible(u) == {r \in Pk : /\ HasPerm(u, "view")
                           /\ Exists(r) /\ Satisfies(filter[u], rows[r])}

-----------------------------------------------------------------------------

NoRequest == [phase |-> "idle"]
Empty == [r \in {} |-> {}]
With(f, r, facts) == [x \in DOMAIN f \cup {r} |-> IF x = r THEN facts ELSE f[x]]

(* What the handler asks first, before it looks for the row.               *)
Upfront == [put |-> {"change"}, post |-> {"add"}, delete |-> {"delete"},
            multi |-> {}, upload |-> {}, history |-> {}, list |-> {}]
FirstPhase == [put |-> "find", post |-> "store", delete |-> "find", multi |-> "lock",
               upload |-> "find", history |-> "find", list |-> "find"]
Targets(kind) ==
  IF kind = "list" THEN {{}}
  ELSE IF kind = "multi" THEN {T \in SUBSET Pk : Cardinality(T) = 2}
  ELSE IF kind = "post" THEN {{r} : r \in fresh}
  ELSE {{r} : r \in Pk \ fresh}

ScopedInit == \E f \in Families :
  /\ kinds = f.kinds
  /\ views \in f.views
  /\ filter = [u \in DOMAIN Users |-> ViewFilter(u)]
  /\ rows \in f.tables
  /\ fresh = Pk \ InitialRows
  /\ lock = [r \in Pk |-> NoThread]
  /\ serving = [t \in Thread |-> NoRequest]

Bodies(kind) == IF kind \in {"put", "post", "multi"} THEN Payloads ELSE {{}}

Begin(t, u, kind) ==
  /\ serving[t] = NoRequest
  /\ <<u, kind>> \in kinds
  /\ \A perm \in Upfront[kind] : HasPerm(u, perm)
  /\ \E T \in Targets(kind), facts \in Bodies(kind) :
       /\ serving' = [serving EXCEPT ![t] = [phase |-> FirstPhase[kind], user |-> u, kind |-> kind,
                                     targets |-> T, facts |-> facts,
                                     obj |-> Empty, written |-> Empty]]
       /\ fresh' = fresh \ IF kind = "post" THEN T ELSE {}
  /\ UNCHANGED <<rows, lock, given>>

(* Without a commit: the transaction is rolled back, its locks are free.   *)
End(t) == /\ serving' = [serving EXCEPT ![t] = NoRequest]
          /\ lock' = [r \in Pk |-> IF lock[r] = t THEN NoThread ELSE lock[r]]
          /\ UNCHANGED <<rows, fresh, given>>

Answer(t, ids) == /\ serving' = [serving EXCEPT ![t] = [phase |-> "answer", user |-> serving[t].user, shown |-> ids]]
                  /\ UNCHANGED <<rows, fresh, lock, given>>

(* The instance a queryset gives: a copy of the row as it is committed.    *)
Load(t, r, phase) == serving' = [serving EXCEPT ![t].obj = With(@, r, rows[r]), ![t].phase = phase]

(* get: one query, and its rows are the answer.                            *)
List(t) == /\ serving[t].phase = "find" /\ serving[t].kind = "list"
           /\ HasPerm(serving[t].user, "view")
           /\ Answer(t, Visible(serving[t].user))

(* Mutant: the instance that was found is the one that is used.            *)
FindOnce(t, r) == /\ serving[t].phase = "find" /\ r \in serving[t].targets
                  /\ r \in Visible(serving[t].user)
                  /\ serving[t].kind # "history"
                  /\ Load(t, r, "store")
                  /\ UNCHANGED <<rows, fresh, lock, given>>

(* self.get_queryset(request).get(pk): an upload keeps the instance, PUT   *)
(* and DELETE only the key; the history of a row is shown to who sees it.  *)
Find(t, r) ==
  /\ serving[t].phase = "find" /\ r \in serving[t].targets
  /\ r \in Visible(serving[t].user)
  /\ \/ /\ serving[t].kind = "history" /\ Answer(t, {r})
     \/ /\ serving[t].kind = "upload" /\ Load(t, r, "store")
        /\ UNCHANGED <<rows, fresh, lock, given>>
     \/ /\ serving[t].kind \in {"put", "delete"}
        /\ serving' = [serving EXCEPT ![t].phase = "lock"]
        /\ UNCHANGED <<rows, fresh, lock, given>>

Unlocked(t) == serving[t].targets \ DOMAIN serving[t].obj

(* select_for_update: one row after the other, in the order of the scan.   *)
Lock(t, r) ==
  /\ serving[t].phase = "lock" /\ r \in Unlocked(t)
  /\ lock[r] = NoThread /\ Exists(r)
  /\ lock' = [lock EXCEPT ![r] = t]
  /\ Load(t, r, IF Unlocked(t) = {r} THEN "store" ELSE "lock")
  /\ UNCHANGED <<rows, fresh, given>>

NotFound(t) == \/ /\ serving[t].phase = "find" /\ ~(serving[t].targets \subseteq Visible(serving[t].user))
                  /\ End(t)
               \/ /\ serving[t].phase = "find" /\ ~HasPerm(serving[t].user, "view")
                  /\ End(t)
               \/ /\ serving[t].phase = "lock" /\ \E r \in Unlocked(t) : lock[r] = NoThread /\ ~Exists(r)
                  /\ End(t)

ScopeOf == [put |-> "change", multi |-> "change", upload |-> "change", delete |-> "delete", post |-> "add"]

(* A new row is judged by its values, another by its instance.             *)
InScope(t, r) == Allowed(serving[t].user, ScopeOf[serving[t].kind],
                         IF serving[t].kind = "post" THEN serving[t].facts ELSE serving[t].obj[r])

(* What the save writes: an upload the fields of the instance it has.      *)
Saved(t, r) == IF serving[t].kind = "delete" THEN Absent
               ELSE IF serving[t].kind = "upload" THEN serving[t].obj[r] ELSE serving[t].facts

Pending(t) == serving[t].targets \ DOMAIN serving[t].written

(* _store and delete_obj of PermissionView, for one object.  The write     *)
(* waits for the row if this request has not locked it.                    *)
Store(t, r) ==
  /\ serving[t].phase = "store" /\ r \in Pending(t)
  /\ lock[r] \in {t, NoThread}
  /\ InScope(t, r)
  /\ serving' = [serving EXCEPT ![t].written = With(@, r, Saved(t, r))]
  /\ lock' = [lock EXCEPT ![r] = t]
  /\ UNCHANGED <<rows, fresh, given>>

(* ScopingError: the whole request is undone.                              *)
OutOfScope(t) == /\ serving[t].phase = "store" /\ \E r \in Pending(t) : ~InScope(t, r)
                 /\ End(t)

(* A validation error, or anything else that goes wrong.                   *)
Fail(t) == serving[t].phase \in {"find", "lock", "store"} /\ End(t)

Commit(t) ==
  /\ serving[t].phase = "store" /\ Pending(t) = {}
  /\ rows' = [r \in Pk |-> IF r \in serving[t].targets THEN serving[t].written[r] ELSE rows[r]]
  /\ serving' = [serving EXCEPT ![t] = NoRequest]
  /\ lock' = [r \in Pk |-> IF lock[r] = t THEN NoThread ELSE lock[r]]
  /\ UNCHANGED <<fresh, given>>

Respond(t) == /\ serving[t].phase = "answer" /\ End(t)

(* Mutant: nothing watches for two requests that wait for each other.      *)
NeverDetected(t) == FALSE /\ End(t)

(* PostgreSQL sees that two transactions wait for each other and fails one.*)
Waits(t, s) == /\ serving[t].phase = "lock"
               /\ \A r \in Unlocked(t) : lock[r] = s
DeadlockDetected(t) == /\ \E s \in Thread \ {t} : Waits(t, s) /\ Waits(s, t)
                       /\ End(t)

Step(t) == \/ List(t) \/ NotFound(t) \/ OutOfScope(t) \/ Commit(t) \/ Respond(t)
           \/ DeadlockDetected(t)
           \/ \E r \in Pk : Find(t, r) \/ Lock(t, r) \/ Store(t, r)

ScopedNext == \E t \in Thread :
          Step(t) \/ Fail(t) \/ \E u \in DOMAIN Users, kind \in DOMAIN Upfront : Begin(t, u, kind)

(* A worker runs its handler on, PostgreSQL gives a free row to those who  *)
(* wait for it in their order.                                             *)
ScopedSpec == /\ ScopedInit /\ [][ScopedNext]_scopedVars
              /\ \A t \in Thread : WF_scopedVars(Step(t))
              /\ \A t \in Thread : SF_scopedVars(\E r \in Pk : Lock(t, r) \/ Store(t, r))

-----------------------------------------------------------------------------

(* A row of which a request locks and reads the state is changed, added or *)
(* deleted only if a scope of its user allows it for the row as it is      *)
(* right before the commit, whatever was committed since the row was found.*)
(* An upload is left out: it judges the instance it read without a lock.   *)
ChangedInScope == [][
  \A r \in Pk : rows'[r] # rows[r] =>
    \E t \in Thread :
      /\ serving[t] # NoRequest /\ serving'[t] = NoRequest /\ r \in serving[t].targets
      /\ \/ serving[t].kind = "upload"
         \/ serving[t].kind \in {"put", "multi"} /\ Allowed(serving[t].user, "change", rows[r])
         \/ serving[t].kind = "delete" /\ Allowed(serving[t].user, "delete", rows[r])
         \/ serving[t].kind = "post" /\ Allowed(serving[t].user, "add", rows'[r])]_scopedVars

(* An answer shows the rows that match at least one view scope of its user *)
(* as they are at that moment; a list shows all of them.  smart_q_or may   *)
(* leave out what it likes, but never change which rows these are.         *)
ShownInScope == [][
  \A t \in Thread : (serving'[t] # serving[t] /\ serving'[t].phase = "answer") =>
    LET u == serving[t].user
        matching == {r \in Pk : /\ Exists(r) /\ HasPerm(u, "view")
                                 /\ \E s \in Scopes(u, "view") : Satisfies(ViewQ(s), rows[r])}
    IN /\ serving'[t].shown \subseteq matching
       /\ serving[t].kind = "list" => serving'[t].shown = matching]_scopedVars

(* Every request ends, two multi-puts that wait for each other too.        *)
RequestsEnd == \A t \in Thread : serving[t] # NoRequest ~> serving[t] = NoRequest
=============================================================================
