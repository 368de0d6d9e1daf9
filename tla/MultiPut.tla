------------------------------- MODULE MultiPut -------------------------------
(***************************************************************************)
(* One multi-put (ModelView.multi_put of binder/views.py) on two related   *)
(* models: a child has a foreign key owner to parent, which the parent     *)
(* shows as the reverse relation kids, and a foreign key mate to child.    *)
(*                                                                         *)
(* The request is one transaction.  It calculates the order of its         *)
(* objects, loads and locks all the existing ones, saves them in order,    *)
(* then does its deletions.  Saving a parent with kids writes children     *)
(* through fresh instances (_store_m2m_field); saving a child writes the   *)
(* instance that was loaded when the rows were locked.                     *)
(***************************************************************************)
EXTENDS Integers, FiniteSets, Sequences

CONSTANTS NameRank,      \* order of the names of the two models
          None,          \* null
          Absent,        \* the field is not in the payload
          Parents,       \* how many parents there are: their keys are 1..Parents
          Children,      \* how many primary keys of child were handed out
          Made,          \* made-up ids, negative
          Families       \* bound: what a payload may hold, one of several sets

Key(m) == (IF m = "parent" THEN 1..Parents ELSE 1..Children) \cup Made
Object == {o \in [model : {"parent", "child"}, id : 1..(Parents + Children) \cup Made] :
             o.id \in Key(o.model)}

ParentPk == 1..(Parents + Cardinality(Made))
ChildPk == 1..(Children + Cardinality(Made))

ASSUME MultiPutAssumption ==
  /\ Parents \in Nat /\ Children \in Nat
  /\ IsFiniteSet(Made) /\ \A n \in Made : n \in Int /\ n < 0
  /\ NameRank \in [{"parent", "child"} -> Int]
  /\ None \notin Int /\ Absent \notin Int \cup {None} /\ \A S \in SUBSET Key("child") : S # Absent
  /\ \A F \in Families : /\ F.objects \subseteq Object
                         /\ F.kids \subseteq {Absent} \cup SUBSET Key("child")
                         /\ F.owners \subseteq {Absent, None} \cup Key("parent")
                         /\ F.mates \subseteq {Absent, None} \cup Key("child")
                         /\ F.deletions \subseteq SUBSET Key("child")
                         /\ F.schema \in [nullable : BOOLEAN, softDelete : BOOLEAN]

VARIABLES schema,        \* may owner be null, and has child a field deleted?
          committed,     \* the rows of child before the request
          rows,          \* as the transaction sees them
          parents,       \* primary keys of parent
          objects,       \* the payload: object -> values
          deletions,     \* with_deletions of child
          deletedIds,    \* the part of it that was done
          given, dependencies, ordered, outcome,   \* of LayeredOrder
          next,          \* the place in ordered_objects
          locked,        \* locked_objects: the children as loaded
          newIds,        \* new_id_map
          errors,        \* objects with a validation error
          changes,       \* history: (child, field) -> first old, last new
          phase, result

order == <<given, dependencies, ordered, outcome>>
database == <<schema, committed, rows, parents>>
vars == <<database, objects, deletions, deletedIds, order, next, locked, newIds, errors, changes,
          phase, result>>

Order == INSTANCE LayeredOrder

-----------------------------------------------------------------------------

Row == [here : BOOLEAN, owner : ParentPk \cup {None}, mate : ChildPk \cup {None},
        deleted : BOOLEAN]
FieldOfRow == {"here", "owner", "mate", "deleted"}
Blank == [here |-> FALSE, owner |-> None, mate |-> None, deleted |-> FALSE]

(* Rows that the constraints of the database allow.                        *)
InitialRow == {r \in Row : /\ r.here \/ r = Blank
                           /\ r.here => (schema.nullable \/ r.owner # None)
                           /\ r.owner \in 1..Parents \cup {None}
                           /\ r.mate = None
                           /\ r.deleted => schema.softDelete}

Values(F, m) == IF m = "parent" THEN [kids : F.kids] ELSE [owner : F.owners, mate : F.mates]

Init ==
  /\ \E F \in Families : \E S \in SUBSET F.objects :
       /\ schema = F.schema
       /\ committed \in {r \in [ChildPk -> InitialRow] : \A c \in ChildPk : c > Children => ~r[c].here}
       /\ \E P \in [{o \in S : o.model = "parent"} -> Values(F, "parent")],
            C \in [{o \in S : o.model = "child"} -> Values(F, "child")] :
           objects = [o \in S |-> IF o.model = "parent" THEN P[o] ELSE C[o]]
       /\ deletions \in F.deletions
  /\ rows = committed
  /\ parents = 1..Parents
  /\ given = << >> /\ dependencies = << >> /\ ordered = << >> /\ outcome = "running"
  /\ next = 1 /\ deletedIds = {} /\ locked = << >> /\ newIds = << >> /\ errors = {} /\ changes = << >>
  /\ phase = "parse" /\ result = "none"

End(res) == /\ phase' = "end"
            /\ result' = res

(* An exception: the transaction is rolled back.                           *)
Refuse(res) ==
  /\ End(res)
  /\ rows' = committed
  /\ UNCHANGED <<schema, committed, parents, objects, deletions, deletedIds, order, next, locked, newIds,
                 errors, changes>>

-----------------------------------------------------------------------------

Parent(id) == [model |-> "parent", id |-> id]
Child(id) == [model |-> "child", id |-> id]

(* The parents of the payload that list the child o.                       *)
Claiming(objs, o) == {p \in DOMAIN objs : /\ p.model = "parent" /\ objs[p].kids # Absent
                                          /\ o.id \in objs[p].kids}

(* _multi_put_convert_backref_to_forwardref: a child that is itself in the *)
(* payload gets the parent that lists it as its owner, the last of them in *)
(* the order of the payload.                                               *)
ForwardRefs(objs, place) ==
  [o \in DOMAIN objs |->
     IF o.model = "child" /\ Claiming(objs, o) # {}
     THEN [objs[o] EXCEPT !.owner =
             (CHOOSE p \in Claiming(objs, o) :
                \A q \in Claiming(objs, o) : place[q] <= place[p]).id]
     ELSE objs[o]]

Places(S) == {f \in [S -> 1..Cardinality(S)] : \A o, p \in S : f[o] = f[p] => o = p}

(* What the foreign keys of an object refer to, null and absent ones left  *)
(* out.  The dependencies are those in the payload, except to itself.      *)
References(o, v) ==
  IF o.model = "parent" THEN {}
  ELSE {Parent(n) : n \in {v.owner} \ {Absent, None}}
         \cup {Child(n) : n \in {v.mate} \ {Absent, None}}

(* Mutant: a reference to the own model is no dependency.                  *)
DependenciesOther(objs) ==
  [o \in DOMAIN objs |->
     {r \in References(o, objs[o]) \cap DOMAIN objs : r.model # o.model}]

Dependencies(objs) ==
  [o \in DOMAIN objs |-> (References(o, objs[o]) \cap DOMAIN objs) \ {o}]

(* "with.{} refers to unspecified {}[{}]"                                  *)
Unspecified(objs) == \E o \in DOMAIN objs : \E r \in References(o, objs[o]) :
                       r.id < 0 /\ r \notin DOMAIN objs

Calculate ==
  /\ phase = "parse"
  /\ \E place \in Places({o \in DOMAIN objects : o.model = "parent"}) :
       /\ objects' = ForwardRefs(objects, place)
       /\ ~Unspecified(objects')
       /\ given' = Dependencies(objects')
       /\ dependencies' = given'
  /\ phase' = "order"
  /\ UNCHANGED <<database, deletions, deletedIds, ordered, outcome, next, locked, newIds, errors, changes,
                 result>>

RefuseUnspecified ==
  /\ phase = "parse"
  /\ \E place \in Places({o \in DOMAIN objects : o.model = "parent"}) :
       Unspecified(ForwardRefs(objects, place))
  /\ Refuse("refused")

OrderObjects ==
  /\ phase = "order" /\ Order!OrderNext
  /\ UNCHANGED <<database, objects, deletions, deletedIds, next, locked, newIds, errors, changes, phase,
                 result>>

RefuseCycle == phase = "order" /\ outcome = "cyclic" /\ Refuse("refused")

(* One query per model locks and loads the objects that exist.             *)
LockObjects ==
  /\ phase = "order" /\ outcome = "ordered"
  /\ locked' = [c \in {n \in 1..Children : Child(n) \in DOMAIN objects /\ rows[n].here} |-> rows[c]]
  /\ phase' = "save"
  /\ UNCHANGED <<database, objects, deletions, deletedIds, order, next, newIds, errors, changes, result>>

-----------------------------------------------------------------------------

(* history.change: the first old value of a field stays, the last new one  *)
(* is kept.  was is what the saved instances were loaded with.             *)
Changed(was, now) == {k \in ChildPk \X FieldOfRow : was[k[1]][k[2]] # now[k[1]][k[2]]}

(* Mutant: the last old value is kept instead of the first.                *)
RecordedLast(was, now) ==
  [k \in DOMAIN changes \cup Changed(was, now) |->
     IF k \in Changed(was, now) THEN [old |-> was[k[1]][k[2]], new |-> now[k[1]][k[2]]]
     ELSE changes[k]]

Recorded(was, now) ==
  [k \in DOMAIN changes \cup Changed(was, now) |->
     [old |-> IF k \in DOMAIN changes THEN changes[k].old ELSE was[k[1]][k[2]],
      new |-> IF k \in Changed(was, now) THEN now[k[1]][k[2]] ELSE changes[k].new]]

HandedOut(m) == (IF m = "parent" THEN 1..Parents ELSE 1..Children)
                  \cup {newIds[o] : o \in {q \in DOMAIN newIds : q.model = m}}

(* The sequence of a primary key hands out no key twice.                   *)
NextPk(m) == CHOOSE n \in (IF m = "parent" THEN ParentPk ELSE ChildPk) : n \notin HandedOut(m)

(* The object whose turn it is in ordered_objects.                         *)
Turn(o) == phase = "save" /\ next <= Len(ordered) /\ o = ordered[next]

(* new_id_map gets the primary key of a new object, or None if it was not  *)
(* valid; the loop goes on either way.                                     *)
Answered(o, pk) ==
  /\ next' = next + 1
  /\ newIds' = IF o.id < 0 THEN [q \in DOMAIN newIds \cup {o} |-> IF q = o THEN pk ELSE newIds[q]]
                           ELSE newIds
  /\ UNCHANGED <<schema, committed, objects, deletions, deletedIds, order, locked, phase, result>>

(* Mutant: no check for deleted objects.                                   *)
EditableDeleted(o) ==
  o.id > 0 => IF o.model = "parent" THEN o.id \in parents ELSE o.id \in DOMAIN locked

(* BinderNotFound and BinderIsDeleted.                                     *)
Editable(o) ==
  o.id > 0 => IF o.model = "parent" THEN o.id \in parents
              ELSE o.id \in DOMAIN locked /\ ~locked[o.id].deleted

(* A made-up id stands for the object that was saved under it.             *)
Known(m, id) == id \in Made => [model |-> m, id |-> id] \in DOMAIN newIds
Real(m, id) == IF id \in Made THEN newIds[[model |-> m, id |-> id]] ELSE id

AllKnown(o) == o.model = "child" => Known("parent", objects[o].owner) /\ Known("child", objects[o].mate)

Assign(old, m, sent) == IF sent = Absent THEN old ELSE Real(m, sent)

(* The instance: a new one, or the one loaded when the rows were locked.   *)
Instance(o) == IF o.id < 0 THEN [Blank EXCEPT !.here = TRUE] ELSE locked[o.id]

Assigned(o) == [Instance(o) EXCEPT !.owner = Assign(@, "parent", objects[o].owner),
                                   !.mate = Assign(@, "child", objects[o].mate)]

(* full_clean: owner is there if it must be, and foreign keys refer to rows.*)
Valid(r) == /\ ~schema.nullable => r.owner # None
            /\ r.owner \in parents \cup {None}
            /\ r.mate # None => rows[r.mate].here

SaveChild(o) ==
  /\ Turn(o) /\ o.model = "child" /\ Editable(o) /\ AllKnown(o) /\ Valid(Assigned(o))
  /\ LET pk == IF o.id < 0 THEN NextPk("child") ELSE o.id
         loaded == IF o.id < 0 THEN Blank ELSE locked[pk]
     IN /\ rows' = [rows EXCEPT ![pk] = Assigned(o)]
        /\ changes' = Recorded([rows EXCEPT ![pk] = loaded], rows')
        /\ Answered(o, pk)
  /\ UNCHANGED <<parents, errors>>

(* _store_m2m_field for a reverse foreign key: the children that are no    *)
(* longer listed lose their owner or, if owner cannot be null, are         *)
(* deleted; soft-deleted ones are left alone.  The new ones get the owner. *)
Removed(pk, kids) ==
  {c \in ChildPk : rows[c].here /\ rows[c].owner = pk /\ c \notin kids /\ ~rows[c].deleted}
Added(pk, kids) == {c \in kids : c > 0 /\ rows[c].here /\ rows[c].owner # pk}

Deleted(r) == IF schema.softDelete THEN [r EXCEPT !.deleted = TRUE] ELSE [r EXCEPT !.here = FALSE]

(* Mutant: the children that are no longer listed keep their owner.        *)
WithKidsAdded(pk, kids) ==
  [c \in ChildPk |-> IF c \in Added(pk, kids) THEN [rows[c] EXCEPT !.owner = pk] ELSE rows[c]]

WithKids(pk, kids) ==
  [c \in ChildPk |->
     IF c \in Added(pk, kids) THEN [rows[c] EXCEPT !.owner = pk]
     ELSE IF c \notin Removed(pk, kids) THEN rows[c]
     ELSE IF schema.nullable THEN [rows[c] EXCEPT !.owner = None]
     ELSE Deleted(rows[c])]

SaveParent(o) ==
  /\ Turn(o) /\ o.model = "parent" /\ Editable(o)
  /\ LET pk == IF o.id < 0 THEN NextPk("parent") ELSE o.id
     IN /\ parents' = parents \cup {pk}
        /\ rows' = IF objects[o].kids = Absent THEN rows ELSE WithKids(pk, objects[o].kids)
        /\ Answered(o, pk)
  /\ changes' = Recorded(rows, rows')
  /\ errors' \in {errors, errors \cup IF objects[o].kids = Absent THEN {} ELSE {o}}

(* BinderValidationError from _store, before the row is written.           *)
Invalid(o) ==
  /\ Turn(o) /\ Editable(o) /\ AllKnown(o)
  /\ errors' = errors \cup {o}
  /\ Answered(o, None)
  /\ UNCHANGED <<rows, parents, changes>>

RefuseObject(o) == Turn(o) /\ ~Editable(o) /\ Refuse("refused")

(* new_id_map[...] of a made-up id nobody has saved.                       *)
LookupFails(o) == Turn(o) /\ Editable(o) /\ ~AllKnown(o) /\ Refuse("KeyError")

(* Mutant: a validation error of an object does not end the request.       *)
SavedAllAnyway ==
  /\ phase = "save" /\ next > Len(ordered)
  /\ phase' = "delete"
  /\ UNCHANGED <<database, objects, deletions, deletedIds, order, next, locked, newIds, errors,
                 changes, result>>

SavedAll ==
  /\ phase = "save" /\ next > Len(ordered)
  /\ IF errors # {} THEN Refuse("refused")
     ELSE /\ phase' = "delete"
          /\ UNCHANGED <<database, objects, deletions, deletedIds, order, next, locked, newIds, errors,
                         changes, result>>

-----------------------------------------------------------------------------

(* Mutant: new_id_map[...] instead of new_id_map.pop(...).                 *)
DeleteKeepsId(n) ==
  /\ phase = "delete" /\ n \in deletions \ deletedIds
  /\ Known("child", n) /\ rows[Real("child", n)].here /\ ~rows[Real("child", n)].deleted
  /\ rows' = [rows EXCEPT ![Real("child", n)] = Deleted(@)]
  /\ changes' = Recorded(rows, rows')
  /\ deletedIds' = deletedIds \cup {n}
  /\ UNCHANGED <<schema, committed, parents, objects, deletions, order, next, locked, newIds, errors, phase,
                 result>>

(* _multi_put_deletions: a deleted new object leaves new_id_map.           *)
Delete(n) ==
  /\ phase = "delete" /\ n \in deletions \ deletedIds
  /\ Known("child", n) /\ rows[Real("child", n)].here /\ ~rows[Real("child", n)].deleted
  /\ rows' = [rows EXCEPT ![Real("child", n)] = Deleted(@)]
  /\ changes' = Recorded(rows, rows')
  /\ newIds' = [o \in DOMAIN newIds \ {Child(n)} |-> newIds[o]]
  /\ deletedIds' = deletedIds \cup {n}
  /\ UNCHANGED <<schema, committed, parents, objects, deletions, order, next, locked, errors, phase, result>>

RefuseDeletion(n) ==
  /\ phase = "delete" /\ n \in deletions \ deletedIds
  /\ Known("child", n) => LET r == rows[Real("child", n)] IN ~r.here \/ r.deleted
  /\ Refuse("refused")

Commit ==
  /\ phase = "delete" /\ deletedIds = deletions
  /\ End("ok")
  /\ UNCHANGED <<database, objects, deletions, deletedIds, order, next, locked, newIds, errors, changes>>

SaveNext == \E o \in Object : \/ SaveChild(o) \/ SaveParent(o) \/ Invalid(o)
                              \/ RefuseObject(o) \/ LookupFails(o)

DeleteNext == \E n \in Key("child") : Delete(n) \/ RefuseDeletion(n)

Next == \/ Calculate \/ RefuseUnspecified \/ OrderObjects \/ RefuseCycle \/ LockObjects
        \/ SaveNext \/ SavedAll \/ DeleteNext \/ Commit

Spec == Init /\ [][Next]_vars

-----------------------------------------------------------------------------

Pk(o) == IF o.id < 0 THEN newIds[o] ELSE o.id

(* The children of which the payload says two things: the child is an      *)
(* object of its own, and a parent drops it from its kids, or lists it     *)
(* although another parent got it.                                         *)
SaidTwice(c) ==
  /\ Child(c) \in DOMAIN objects
  /\ \E p \in DOMAIN objects :
       /\ p.model = "parent" /\ objects[p].kids # Absent
       /\ IF c \in objects[p].kids THEN objects[Child(c)].owner # p.id
                                   ELSE committed[c].owner = p.id

HistoryOf(c) ==
  \A f \in FieldOfRow :
    IF <<c, f>> \in DOMAIN changes
    THEN changes[<<c, f>>] = [old |-> committed[c][f], new |-> rows[c][f]]
    ELSE rows[c][f] = committed[c][f]

(* The history of the request holds, for each field of each child, exactly *)
(* what the request did to it (_commit drops old = new), however often the *)
(* child was saved on the way.                                             *)
HistoryRight == result = "ok" => \A c \in ChildPk : ~SaidTwice(c) => HistoryOf(c)

(* The idmap of the answer has every new object but the children that the *)
(* payload deletes again, and nothing else; each has a row of its own that *)
(* was not there before.                                                   *)
IdMapRight ==
  result = "ok" =>
    /\ DOMAIN newIds = {o \in DOMAIN objects : o.id < 0 /\ ~(o.model = "child" /\ o.id \in deletions)}
    /\ \A o, q \in DOMAIN newIds : newIds[o] = newIds[q] /\ o.model = q.model => o = q
    /\ \A o \in DOMAIN newIds :
         IF o.model = "parent" THEN newIds[o] \in parents \ 1..Parents
         ELSE LET c == newIds[o] IN c \in ChildPk /\ rows[c].here /\ ~rows[c].deleted /\ ~committed[c].here

(* A child ends with the owner and the mate its object asks for, made-up   *)
(* ids replaced, and never with null for an object that was not valid.     *)
ReferencesStored ==
  result = "ok" =>
    \A o \in DOMAIN objects : o.model = "child" /\ (o.id < 0 => o \in DOMAIN newIds) =>
      LET r == rows[Pk(o)] v == objects[o] IN
        /\ Pk(o) \in ChildPk
        /\ v.owner # Absent => r.owner = Real("parent", v.owner) /\ (r.owner = None => v.owner = None)
        /\ v.mate # Absent /\ Known("child", v.mate) =>
             r.mate = Real("child", v.mate) /\ (r.mate = None => v.mate = None)

(* A parent ends with the kids it lists: those only it lists are its own,  *)
(* and those it dropped are not.                                           *)
KidsStored ==
  result = "ok" =>
    \A p \in DOMAIN objects : p.model = "parent" /\ objects[p].kids # Absent =>
      /\ \A k \in objects[p].kids :
           /\ Claiming(objects, Child(k)) = {p}
           /\ IF k < 0 THEN Child(k) \in DOMAIN newIds ELSE committed[k].here
           => rows[Pk(Child(k))].owner = Pk(p)
      /\ \A c \in 1..Children \ objects[p].kids :
           /\ committed[c].here /\ ~committed[c].deleted /\ committed[c].owner = p.id
           /\ ~SaidTwice(c)
           => ~(rows[c].here /\ ~rows[c].deleted /\ rows[c].owner = Pk(p))

(* A soft-deleted child stays deleted and as it was, but that a parent may *)
(* take it over by listing it.                                             *)
DeletedKept ==
  result = "ok" =>
    \A c \in 1..Children : committed[c].deleted =>
      rows[c] = [committed[c] EXCEPT !.owner = rows[c].owner]
      /\ (Claiming(objects, Child(c)) = {} => rows[c] = committed[c])

(* Lookups in new_id_map succeed, for the order puts an object after those *)
(* it refers to; but the dependency on itself was left out of the order.   *)
KeyErrorOnlyForItself ==
  result = "KeyError" => \E o \in DOMAIN objects : o.id < 0 /\ o \in References(o, objects[o])
=============================================================================
