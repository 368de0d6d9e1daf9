---------------------------- MODULE MultiPutProofs ----------------------------
(***************************************************************************)
(* What a multi-put writes is what its payload asks for, with any payload, *)
(* any number of rows and of new objects.                                  *)
(***************************************************************************)
EXTENDS MultiPut, TLAPS, FiniteSetTheorems, WellFoundedInduction

OrderP == INSTANCE LayeredOrderProofs

Done == {ordered[i] : i \in 1..(next - 1)}

Saving == phase \in {"save", "delete"} \/ result = "ok"
Planned == phase \in {"order", "save", "delete"} \/ result \in {"ok", "KeyError"}

NewKey(m) == IF m = "parent" THEN ParentPk \ 1..Parents ELSE ChildPk \ 1..Children

ValuesOf(o) ==
  IF o.model = "parent" THEN [kids : {Absent} \cup SUBSET Key("child")]
  ELSE [owner : {Absent, None} \cup Key("parent"), mate : {Absent, None} \cup Key("child")]

TypeOK ==
  /\ schema \in [nullable : BOOLEAN, softDelete : BOOLEAN]
  /\ committed \in [ChildPk -> Row] /\ rows \in [ChildPk -> Row]
  /\ parents \subseteq ParentPk
  /\ DOMAIN objects \subseteq Object /\ \A o \in DOMAIN objects : objects[o] \in ValuesOf(o)
  /\ deletions \subseteq Key("child")
  /\ next \in Nat \ {0}
  /\ DOMAIN newIds \subseteq {o \in DOMAIN objects : o.id < 0}
  /\ \A o \in DOMAIN newIds : newIds[o] \in {None} \cup NewKey(o.model)
  /\ errors \subseteq DOMAIN objects
  /\ DOMAIN changes \subseteq ChildPk \X FieldOfRow
  /\ phase \in {"parse", "order", "save", "delete", "end"}
  /\ result \in {"none", "refused", "KeyError", "ok"} /\ (result = "none" <=> phase # "end")

(* What nothing but the request's start makes.                             *)
StartInv ==
  /\ phase = "parse" => ordered = << >> /\ outcome = "running"
  /\ \A c \in ChildPk : /\ c > Children => committed[c] = Blank
                        /\ committed[c].owner \in 1..Parents \cup {None}
  /\ phase \in {"parse", "order"} =>
       /\ rows = committed /\ parents = 1..Parents /\ changes = << >>
       /\ newIds = << >> /\ errors = {} /\ next = 1

(* A child that a parent lists has one of its parents for its owner.       *)
Claimed == \A o \in DOMAIN objects : o.model = "child" /\ Claiming(objects, o) # {} =>
             Parent(objects[o].owner) \in Claiming(objects, o)

PlanInv == Planned => given = Dependencies(objects) /\ ~Unspecified(objects) /\ Claimed

(* Where the loop over ordered_objects is.                                 *)
LoopInv ==
  Saving =>
    /\ outcome = "ordered" /\ next <= Len(ordered) + 1
    /\ phase # "save" => next > Len(ordered) /\ errors = {}
    /\ DOMAIN locked \subseteq 1..Children
    /\ \A c \in DOMAIN locked : locked[c] = committed[c] /\ locked[c].here

(* new_id_map has every new object that was saved, under a key of its own. *)
IdsInv ==
  Saving =>
    /\ DOMAIN newIds \subseteq Done
    /\ \A o \in Done : o.id < 0 /\ (phase = "save" \/ o.model = "parent") => o \in DOMAIN newIds
    /\ \A o \in DOMAIN newIds : newIds[o] = None => o \in errors
    /\ \A o, q \in DOMAIN newIds : newIds[o] = newIds[q] /\ newIds[o] # None /\ o.model = q.model => o = q
    /\ \A o \in DOMAIN newIds : o.model = "parent" /\ newIds[o] # None => newIds[o] \in parents
    /\ phase = "save" => \A c \in ChildPk \ HandedOut("child") : rows[c] = Blank

(* Only with_deletions takes an object out of new_id_map again.            *)
DoneIdsInv ==
  /\ phase \in {"parse", "order", "save"} => deletedIds = {}
  /\ result = "ok" => deletedIds = deletions
  /\ Saving => \A o \in Done : o.id < 0 =>
       (o \in DOMAIN newIds <=> ~(o.model = "child" /\ o.id \in deletedIds))

(* What a child that was saved holds.                                      *)
Stored(o) ==
  LET r == rows[Pk(o)] v == objects[o] IN
    /\ v.owner # Absent => Known("parent", v.owner) /\ r.owner = Real("parent", v.owner)
    /\ v.mate # Absent /\ Known("child", v.mate) => r.mate = Real("child", v.mate)
    /\ phase = "save" => Known("child", v.mate)
    /\ o.id < 0 => r.here /\ ~r.deleted /\ (v.owner = Absent => r.owner = None)

StoredInv ==
  Saving => \A o \in Done \ errors : o.model = "child" /\ (o.id < 0 => o \in DOMAIN newIds) => Stored(o)

DeletedInv ==
  \A c \in 1..Children : committed[c].deleted =>
    /\ rows[c] = [committed[c] EXCEPT !.owner = rows[c].owner]
    /\ Claiming(objects, Child(c)) = {} => rows[c] = committed[c]

(* A child that is yet to be saved is as it was, or has the owner that its *)
(* save will give it already.                                              *)
Unsaved(c) ==
  LET v == objects[Child(c)] IN
    \/ rows[c] = committed[c]
    \/ /\ v.owner \in Key("parent") /\ Parent(v.owner) \in Done /\ Known("parent", v.owner)
       /\ rows[c] = [committed[c] EXCEPT !.owner = Real("parent", v.owner)]

HistoryInv ==
  Saving => \A c \in ChildPk : ~SaidTwice(c) =>
    /\ HistoryOf(c)
    /\ phase = "save" /\ Child(c) \in DOMAIN objects \ Done => Unsaved(c)

(* Nothing is deleted while objects are saved, if a child can be left      *)
(* without an owner or be deleted softly.                                  *)
Lenient == schema.nullable \/ schema.softDelete
HereInv == phase = "save" /\ Lenient => \A c \in ChildPk : committed[c].here => rows[c].here

KidsOf(p) ==
  LET kids == objects[p].kids IN
    /\ Lenient =>
         \A k \in kids : /\ k > 0 /\ Child(k) \notin DOMAIN objects
                         /\ Claiming(objects, Child(k)) = {p} /\ committed[k].here
                         => rows[k].owner = Pk(p)
    /\ \A c \in 1..Children \ kids :
         Child(c) \notin DOMAIN objects
           => ~(rows[c].here /\ ~rows[c].deleted /\ rows[c].owner = Pk(p))

KidsInv ==
  Saving => \A p \in Done \ errors : p.model = "parent" /\ objects[p].kids # Absent => KidsOf(p)

-----------------------------------------------------------------------------

(* The objects are finitely many, and their ids are integers.              *)
LEMMA OrderConstants == OrderP!LayeredOrderAssumption
<1>1. IsFiniteSet(Made) /\ Parents + Children \in Nat
  BY MultiPutAssumption
<1> DEFINE Ids == 1..(Parents + Children) \cup Made
           All == {"parent", "child"} \X Ids
           f == [x \in All |-> [model |-> x[1], id |-> x[2]]]
           Recs == [model : {"parent", "child"}, id : Ids]
<1>2. IsFiniteSet(1..(Parents + Children))
  BY <1>1, FS_Interval
<1>3. IsFiniteSet(Ids)
  BY <1>1, <1>2, FS_Union
<1>4. IsFiniteSet({"parent", "child"})
  <2>1. IsFiniteSet({"parent"})
    BY FS_Singleton
  <2>2. IsFiniteSet({"parent"} \cup {"child"})
    BY <2>1, FS_AddElement
  <2>3. {"parent", "child"} = {"parent"} \cup {"child"}
    OBVIOUS
  <2> QED BY <2>2, <2>3
<1>5. IsFiniteSet(All)
  BY <1>3, <1>4, FS_Product
<1>6. f \in Surjection(All, Recs)
  <2>1. f \in [All -> Recs]
    OBVIOUS
  <2>2. ASSUME NEW r \in Recs PROVE \E x \in All : f[x] = r
    <3>1. <<r.model, r.id>> \in All /\ r = [model |-> r.model, id |-> r.id]
      OBVIOUS
    <3> WITNESS <<r.model, r.id>> \in All
    <3> QED BY <3>1
  <2> QED BY <2>1, <2>2 DEF Surjection
<1>7. IsFiniteSet(Recs)
  BY <1>5, <1>6, FS_Surjection
<1>8. Object \subseteq Recs
  BY DEF Object
<1>9. IsFiniteSet(Object)
  BY <1>7, <1>8, FS_Subset
<1>10. \A o \in Object : /\ o = [model |-> o.model, id |-> o.id]
                         /\ o.id \in Int /\ NameRank[o.model] \in Int
  <2> SUFFICES ASSUME NEW o \in Object
               PROVE  /\ o = [model |-> o.model, id |-> o.id]
                      /\ o.id \in Int /\ NameRank[o.model] \in Int
    OBVIOUS
  <2>1. o.id \in 1..(Parents + Children) \/ o.id \in Made
    BY <1>8
  <2>2. o.id \in Int
    BY <2>1, <1>1, MultiPutAssumption
  <2>3. o.model \in {"parent", "child"}
    BY <1>8
  <2>4. NameRank[o.model] \in Int
    BY <2>3, MultiPutAssumption
  <2> QED BY <1>8, <2>2, <2>4
<1> QED
  BY <1>9, <1>10 DEF OrderP!LayeredOrderAssumption, OrderP!IsFiniteSet, IsFiniteSet

(* LayeredOrder is here twice, as Order and with its theorems as OrderP.   *)
LEMMA SameOrder == [Order!OrderNext]_order => [OrderP!OrderNext]_(OrderP!orderVars)
<1>1. \A B : Order!Cardinality(B) = OrderP!Cardinality(B)
  BY DEF Order!Cardinality, OrderP!Cardinality
<1>2. \A B : Order!Sortings(B) = OrderP!Sortings(B)
  BY <1>1 DEF Order!Sortings, OrderP!Sortings, Order!Before, OrderP!Before,
    Order!Sign, OrderP!Sign, Order!Abs, OrderP!Abs
<1>3. Order!Layer = OrderP!Layer
  BY DEF Order!Layer, OrderP!Layer
<1>4. \A g, B : Order!Without(g, B) = OrderP!Without(g, B)
  BY DEF Order!Without, OrderP!Without
<1>5. Order!AppendLayer => OrderP!AppendLayer
  BY <1>2, <1>3, <1>4 DEF Order!AppendLayer, OrderP!AppendLayer
<1> QED
  BY <1>3, <1>5 DEF Order!OrderNext, OrderP!OrderNext, order, OrderP!orderVars,
    Order!ReportCycle, OrderP!ReportCycle, Order!ReturnOrdered, OrderP!ReturnOrdered

LEMMA OrderStep ==
  ASSUME OrderP!OrderInv, [Order!OrderNext]_order
  PROVE  OrderP!OrderInv'
BY OrderConstants, SameOrder, OrderP!StepInv

-----------------------------------------------------------------------------

(* The keys of rows, made-up ids, null and the absence of a field are      *)
(* never mistaken for each other.                                          *)
LEMMA Names ==
  /\ None \notin Int /\ Absent \notin Int /\ Absent # None
  /\ \A n \in Made : n \in Int /\ n < 0
  /\ Parents \in Nat /\ Children \in Nat /\ Cardinality(Made) \in Nat
  /\ None \notin ParentPk /\ None \notin ChildPk
  /\ \A S \in SUBSET Key("child") : S # Absent
  /\ \A n \in Key("parent") : n \in Int /\ (n < 0 <=> n \in Made) /\ (n > 0 <=> n \in 1..Parents)
  /\ \A n \in Key("child") : n \in Int /\ (n < 0 <=> n \in Made) /\ (n > 0 <=> n \in 1..Children)
  /\ 1..Parents \subseteq ParentPk /\ 1..Children \subseteq ChildPk
<1>1. Parents \in Nat /\ Children \in Nat /\ IsFiniteSet(Made)
  BY MultiPutAssumption
<1>2. Cardinality(Made) \in Nat
  BY <1>1, FS_CardinalityType
<1>3. \A n \in Made : n \in Int /\ n < 0
  BY MultiPutAssumption
<1>4. None \notin Int /\ Absent \notin Int /\ Absent # None /\ \A S \in SUBSET Key("child") : S # Absent
  BY MultiPutAssumption
<1>5. /\ 1..Parents \subseteq ParentPk /\ 1..Children \subseteq ChildPk
      /\ None \notin ParentPk /\ None \notin ChildPk
  BY <1>1, <1>2, <1>4 DEF ParentPk, ChildPk
<1>6. \A n \in Key("parent") : n \in Int /\ (n < 0 <=> n \in Made) /\ (n > 0 <=> n \in 1..Parents)
  BY <1>1, <1>3 DEF Key
<1>7. \A n \in Key("child") : n \in Int /\ (n < 0 <=> n \in Made) /\ (n > 0 <=> n \in 1..Children)
  BY <1>1, <1>3 DEF Key
<1> QED BY <1>1, <1>2, <1>3, <1>4, <1>5, <1>6, <1>7

(* An object is its model and its id.                                      *)
LEMMA Objects ==
  /\ \A o \in Object : /\ o.model \in {"parent", "child"} /\ o.id \in Key(o.model)
                       /\ o = [model |-> o.model, id |-> o.id]
                       /\ o.model = "parent" => o = Parent(o.id)
                       /\ o.model = "child" => o = Child(o.id)
  /\ \A n : Parent(n).model = "parent" /\ Parent(n).id = n
            /\ Child(n).model = "child" /\ Child(n).id = n
  /\ \A n \in Key("parent") : Parent(n) \in Object
  /\ \A n \in Key("child") : Child(n) \in Object
<1>1. \A o \in Object : /\ o.model \in {"parent", "child"} /\ o.id \in Key(o.model)
                        /\ o = [model |-> o.model, id |-> o.id]
  BY DEF Object
<1>2. \A n \in Key("parent") : Parent(n) \in Object
  BY Names DEF Object, Parent, Key
<1>3. \A n \in Key("child") : Child(n) \in Object
  BY Names DEF Object, Child, Key
<1> QED BY <1>1, <1>2, <1>3 DEF Parent, Child

(* There is a new key left for each new object.                            *)
LEMMA KeyLeft ==
  ASSUME TypeOK, NEW o \in Object, o.id < 0, o \notin DOMAIN newIds
  PROVE  NextPk(o.model) \in NewKey(o.model) /\ NextPk(o.model) \notin HandedOut(o.model)
<1> DEFINE m == o.model
           low == IF m = "parent" THEN Parents ELSE Children
           size == Cardinality(Made)
           T == Made \ {o.id}
           New == {newIds[q] : q \in {r \in DOMAIN newIds : r.model = m}}
<1>1. low \in Nat /\ size \in Nat /\ IsFiniteSet(Made) /\ o.id \in Made
  BY Names, Objects, MultiPutAssumption
<1>2. NewKey(m) = (low + 1)..(low + size)
  <2>1. NewKey(m) = (1..(low + size)) \ (1..low)
    BY DEF NewKey, ParentPk, ChildPk
  <2> HIDE DEF low, size
  <2> QED BY <1>1, <2>1
<1>3. IsFiniteSet(NewKey(m)) /\ Cardinality(NewKey(m)) = size
  <2> HIDE DEF low, size
  <2>1. low + 1 \in Int /\ low + size \in Int
    BY <1>1
  <2>2. PICK a \in Int, b \in Int : a = low + 1 /\ b = low + size
    BY <2>1
  <2>3. IsFiniteSet(a..b) /\ Cardinality(a..b) = IF a > b THEN 0 ELSE b - a + 1
    BY FS_Interval
  <2>4. Cardinality(a..b) = size
    BY <1>1, <2>2, <2>3
  <2>5. NewKey(m) = a..b
    BY <1>2, <2>2
  <2> QED BY <2>3, <2>4, <2>5
<1>4. IsFiniteSet(T) /\ Cardinality(T) < size
  <2>1. IsFiniteSet(Made \ {o.id}) /\ Cardinality(Made \ {o.id}) = Cardinality(Made) - 1
    BY <1>1, FS_RemoveElement
  <2> QED BY <1>1, <2>1
<1>5. \E n \in NewKey(m) : n \notin New
  <2> SUFFICES ASSUME \A n \in NewKey(m) : \E q \in DOMAIN newIds : q.model = m /\ newIds[q] = n
               PROVE  FALSE
    OBVIOUS
  <2> DEFINE of(n) == CHOOSE q \in DOMAIN newIds : q.model = m /\ newIds[q] = n
             f == [n \in NewKey(m) |-> of(n).id]
  <2>1. \A n \in NewKey(m) : of(n) \in DOMAIN newIds /\ of(n).model = m /\ newIds[of(n)] = n
    OBVIOUS
  <2>2. \A q \in DOMAIN newIds : q \in Object /\ q.id < 0
    BY DEF TypeOK
  <2>3. ASSUME NEW q \in DOMAIN newIds, q.model = m PROVE q.id \in T
    <3>1. q.id \in Made
      BY <2>2, <2>3, Names, Objects
    <3>2. q.id = o.id => q = o
      BY <2>2, <2>3, Objects
    <3> QED BY <3>1, <3>2
  <2>4. f \in [NewKey(m) -> T]
    BY <2>1, <2>3
  <2> HIDE DEF f, T
  <2>5. PICK x, y \in NewKey(m) : x # y /\ f[x] = f[y]
    BY <1>3, <1>4, <2>4, FS_PigeonHole
  <2>6. of(x).id = of(y).id
    BY <2>5 DEF f
  <2>7. of(x) = of(y)
    BY <2>1, <2>2, <2>6, Objects
  <2> QED BY <2>1, <2>5, <2>7
<1>6. \E n \in (IF m = "parent" THEN ParentPk ELSE ChildPk) : n \notin HandedOut(m)
  BY <1>5 DEF NewKey, HandedOut
<1>7. /\ NextPk(m) \in (IF m = "parent" THEN ParentPk ELSE ChildPk)
      /\ NextPk(m) \notin HandedOut(m)
  BY <1>6 DEF NextPk
<1> QED BY <1>7 DEF NewKey, HandedOut

-----------------------------------------------------------------------------

IInv == /\ TypeOK /\ OrderP!OrderInv
        /\ StartInv /\ PlanInv /\ LoopInv /\ IdsInv /\ DoneIdsInv /\ StoredInv
        /\ DeletedInv /\ HistoryInv /\ HereInv /\ KidsInv /\ KeyErrorOnlyForItself

(* What the loop over ordered_objects knows of the object whose turn it is:*)
(* those it depends on have been saved and, if it depends on none, only    *)
(* others that depend on none.                                             *)
LEMMA TurnFacts ==
  ASSUME IInv, NEW o, Turn(o)
  PROVE  /\ o \in DOMAIN objects /\ o \in Object /\ o \notin Done /\ o \notin DOMAIN newIds
         /\ next \in DOMAIN ordered /\ Done \subseteq DOMAIN objects
         /\ DOMAIN objects = DOMAIN given /\ given = Dependencies(objects)
         /\ ~Unspecified(objects) /\ Claimed /\ phase = "save" /\ Saving
         /\ given[o] \subseteq Done
         /\ given[o] = {} => \A d \in Done : given[d] = {}
<1>1. phase = "save" /\ next \in Nat \ {0} /\ next <= Len(ordered) /\ o = ordered[next]
  BY DEF Turn, IInv, TypeOK
<1>2. Saving /\ Planned
  BY <1>1 DEF Saving, Planned
<1>3. given = Dependencies(objects) /\ ~Unspecified(objects) /\ Claimed
  BY <1>2 DEF IInv, PlanInv
<1>4. DOMAIN given = DOMAIN objects
  BY <1>3 DEF Dependencies
<1>5. outcome = "ordered" /\ DOMAIN newIds \subseteq Done
  BY <1>2 DEF IInv, LoopInv, IdsInv
<1>6. /\ ordered \in Seq(Object) /\ OrderP!DependenciesFirst /\ OrderP!NoRepeat
      /\ OrderP!RootsFirst /\ OrderP!Listed = DOMAIN objects
  BY <1>4, <1>5 DEF IInv, OrderP!OrderInv, OrderP!Outcomes, OrderP!Split
<1>7. DOMAIN ordered = 1..Len(ordered) /\ Len(ordered) \in Nat
  BY <1>6
<1>8. next \in DOMAIN ordered
  BY <1>1, <1>7
<1>9. o \in DOMAIN objects /\ o \in Object
  BY <1>1, <1>6, <1>8 DEF OrderP!Listed, IInv, TypeOK
<1>10. 1..(next - 1) \subseteq DOMAIN ordered
  BY <1>1, <1>7
<1>11. Done \subseteq DOMAIN objects
  BY <1>6, <1>10 DEF Done, OrderP!Listed
<1>12. o \notin Done
  <2> SUFFICES ASSUME NEW i \in 1..(next - 1), ordered[i] = o PROVE FALSE
    BY DEF Done
  <2> QED BY <1>1, <1>6, <1>8, <1>10 DEF OrderP!NoRepeat
<1>13. given[o] \subseteq Done
  BY <1>1, <1>6, <1>8 DEF OrderP!DependenciesFirst, Done
<1>14. ASSUME given[o] = {}, NEW d \in Done PROVE given[d] = {}
  <2>1. PICK i \in 1..(next - 1) : ordered[i] = d
    BY DEF Done
  <2>2. i \in DOMAIN ordered /\ ~(next < i)
    BY <1>1, <1>10, <2>1
  <2> QED BY <1>1, <1>6, <1>8, <1>14, <2>1, <2>2 DEF OrderP!RootsFirst
<1> QED
  BY <1>1, <1>2, <1>3, <1>4, <1>5, <1>8, <1>9, <1>11, <1>12, <1>13, <1>14

(* What an answer adds.                                                    *)
LEMMA AnswerFacts ==
  ASSUME IInv, NEW o, Turn(o), NEW pk, Answered(o, pk)
  PROVE  /\ Done' = Done \cup {o} /\ next' = next + 1 /\ next' \in Nat \ {0}
         /\ phase' = "save" /\ result' = "none" /\ Saving'
         /\ DOMAIN newIds' = DOMAIN newIds \cup (IF o.id < 0 THEN {o} ELSE {})
         /\ \A q \in DOMAIN newIds : newIds'[q] = newIds[q]
         /\ o.id < 0 => newIds'[o] = pk
         /\ UNCHANGED <<schema, committed, objects, deletions, deletedIds, order, locked>>
         /\ next' <= Len(ordered) + 1
<1> USE TurnFacts
<1>1. /\ next' = next + 1 /\ UNCHANGED <<schema, committed, objects, deletions, deletedIds, order, locked, phase, result>>
  BY DEF Answered
<1>2. next \in Nat \ {0} /\ result = "none" /\ next <= Len(ordered) /\ o = ordered[next] /\ Len(ordered) \in Nat
  BY DEF IInv, TypeOK, Turn, OrderP!OrderInv
<1>3. 1..(next' - 1) = 1..(next - 1) \cup {next}
  BY <1>1, <1>2
<1>4. ordered' = ordered
  BY <1>1 DEF order
<1>5. Done' = Done \cup {o}
  BY <1>2, <1>3, <1>4 DEF Done
<1>6. CASE o.id < 0
  <2>1. newIds' = [q \in DOMAIN newIds \cup {o} |-> IF q = o THEN pk ELSE newIds[q]]
    BY <1>6 DEF Answered
  <2> QED BY <1>1, <1>2, <1>5, <1>6, <2>1 DEF Saving
<1>7. CASE ~(o.id < 0)
  <2>1. newIds' = newIds
    BY <1>7 DEF Answered
  <2> QED BY <1>1, <1>2, <1>5, <1>7, <2>1 DEF Saving
<1> QED BY <1>6, <1>7

(* The types of what was answered.                                         *)
LEMMA AnswerType ==
  ASSUME IInv, NEW o, Turn(o), NEW pk, Answered(o, pk),
         o.id < 0 => pk \in {None} \cup NewKey(o.model),
         rows' \in [ChildPk -> Row], parents' \subseteq ParentPk,
         errors' \subseteq DOMAIN objects, DOMAIN changes' \subseteq ChildPk \X FieldOfRow
  PROVE  TypeOK'
<1> USE TurnFacts, AnswerFacts
<1>1. ASSUME NEW q \in DOMAIN newIds' PROVE newIds'[q] \in {None} \cup NewKey(q.model) /\ q \in DOMAIN objects /\ q.id < 0
  <2>1. CASE q \in DOMAIN newIds
    BY <2>1 DEF IInv, TypeOK
  <2>2. CASE q \notin DOMAIN newIds
    BY <1>1, <2>2
  <2> QED BY <2>1, <2>2
<1>2. TypeOK
  BY DEF IInv
<1>3. DOMAIN newIds' \subseteq {q \in DOMAIN objects' : q.id < 0}
      /\ \A q \in DOMAIN newIds' : newIds'[q] \in {None} \cup NewKey(q.model)
  BY <1>1
<1> QED BY <1>2, <1>3 DEF TypeOK

LEMMA RecordedType ==
  ASSUME NEW was, NEW now, DOMAIN changes \subseteq ChildPk \X FieldOfRow
  PROVE  DOMAIN Recorded(was, now) \subseteq ChildPk \X FieldOfRow
BY DEF Recorded, Changed

(* A made-up id that is known stands for a key for good.                   *)
LEMMA RealType ==
  ASSUME TypeOK, NEW o \in DOMAIN objects, o.model = "child", AllKnown(o)
  PROVE  /\ objects[o].owner \in {Absent, None} \cup Key("parent")
         /\ objects[o].mate \in {Absent, None} \cup Key("child")
         /\ objects[o].owner # Absent => Real("parent", objects[o].owner) \in ParentPk \cup {None}
         /\ objects[o].mate # Absent => Real("child", objects[o].mate) \in ChildPk \cup {None}
<1>1. /\ objects[o].owner \in {Absent, None} \cup Key("parent")
      /\ objects[o].mate \in {Absent, None} \cup Key("child")
  BY DEF TypeOK, ValuesOf
<1>2. objects[o].owner # Absent => Real("parent", objects[o].owner) \in ParentPk \cup {None}
  <2>1. CASE objects[o].owner \in Made
    <3>1. Parent(objects[o].owner) \in DOMAIN newIds
      BY <2>1 DEF AllKnown, Known, Parent
    <3> QED BY <2>1, <3>1 DEF TypeOK, NewKey, Real, Parent
  <2>2. CASE objects[o].owner \notin Made
    <3>1. objects[o].owner \in Key("parent") => objects[o].owner \in 1..Parents
      BY <2>2 DEF Key
    <3> QED BY <1>1, <2>2, <3>1, Names DEF Real
  <2> QED BY <2>1, <2>2
<1>3. objects[o].mate # Absent => Real("child", objects[o].mate) \in ChildPk \cup {None}
  <2>1. CASE objects[o].mate \in Made
    <3>1. Child(objects[o].mate) \in DOMAIN newIds
      BY <2>1 DEF AllKnown, Known, Child
    <3> QED BY <2>1, <3>1 DEF TypeOK, NewKey, Real, Child
  <2>2. CASE objects[o].mate \notin Made
    <3>1. objects[o].mate \in Key("child") => objects[o].mate \in 1..Children
      BY <2>2 DEF Key
    <3> QED BY <1>1, <2>2, <3>1, Names DEF Real
  <2> QED BY <2>1, <2>2
<1> QED BY <1>1, <1>2, <1>3

(* The row that a save of a child writes, and under which key.             *)
ChildKey(o) == IF o.id < 0 THEN NextPk("child") ELSE o.id
ChildWas(o) == IF o.id < 0 THEN Blank ELSE committed[o.id]
ChildRow(o) ==
  [here |-> TRUE,
   owner |-> IF objects[o].owner = Absent THEN ChildWas(o).owner ELSE Real("parent", objects[o].owner),
   mate |-> IF objects[o].mate = Absent THEN ChildWas(o).mate ELSE Real("child", objects[o].mate),
   deleted |-> FALSE]

LEMMA SaveChildFacts ==
  ASSUME IInv, NEW o, SaveChild(o)
  PROVE  /\ Turn(o) /\ o.model = "child" /\ AllKnown(o) /\ Answered(o, ChildKey(o))
         /\ ChildKey(o) \in ChildPk
         /\ o.id < 0 => ChildKey(o) \in NewKey("child") /\ ChildKey(o) \notin HandedOut("child")
         /\ ~(o.id < 0) => o.id \in 1..Children /\ committed[o.id].here /\ ~committed[o.id].deleted
                           /\ locked[o.id] = committed[o.id]
         /\ ChildRow(o) \in Row /\ rows' = [rows EXCEPT ![ChildKey(o)] = ChildRow(o)]
         /\ \A c \in ChildPk : rows'[c] = IF c = ChildKey(o) THEN ChildRow(o) ELSE rows[c]
         /\ changes' = Recorded([rows EXCEPT ![ChildKey(o)] = ChildWas(o)], rows')
         /\ UNCHANGED <<parents, errors>>
<1>1. Turn(o) /\ o.model = "child" /\ AllKnown(o) /\ Answered(o, ChildKey(o)) /\ Editable(o)
  BY DEF SaveChild, ChildKey
<1>2. o \in DOMAIN objects /\ o \in Object /\ o \notin DOMAIN newIds /\ Saving /\ TypeOK
  BY <1>1, TurnFacts DEF IInv
<1>3. o.id \in Key("child")
  BY <1>1, <1>2, Objects
<1>4. ASSUME o.id < 0
      PROVE  ChildKey(o) \in NewKey("child") /\ ChildKey(o) \notin HandedOut("child")
  BY <1>1, <1>2, <1>4, KeyLeft DEF ChildKey
<1>5. ASSUME ~(o.id < 0)
      PROVE  /\ o.id \in 1..Children /\ committed[o.id].here /\ ~committed[o.id].deleted
             /\ locked[o.id] = committed[o.id]
  <2>1. o.id > 0
    <3>1. o.id \in Int /\ (o.id \in 1..Children \/ o.id \in Made)
      BY <1>3, Names DEF Key
    <3> QED BY <1>5, <3>1, Names
  <2>2. o.id \in DOMAIN locked /\ ~locked[o.id].deleted
    BY <1>1, <2>1 DEF Editable
  <2>3. o.id \in 1..Children
    BY <1>3, <2>1, Names
  <2> QED BY <1>2, <2>2, <2>3 DEF IInv, LoopInv
<1>6. ChildKey(o) \in ChildPk
  BY <1>4, <1>5, Names DEF ChildKey, NewKey
<1> DEFINE v == objects[o]
<1>7. ChildWas(o) \in Row
  BY <1>2, <1>5, Names DEF ChildWas, TypeOK, Row, Blank
<1>8. ChildRow(o) \in Row
  BY <1>1, <1>2, <1>7, RealType DEF ChildRow, Row
<1>9. /\ Instance(o) = [here |-> TRUE, owner |-> ChildWas(o).owner, mate |-> ChildWas(o).mate, deleted |-> FALSE]
      /\ Instance(o) \in Row 
  <2>1. CASE o.id < 0
    BY <1>7, <2>1 DEF ChildWas, Instance, Row, Blank
  <2>2. CASE ~(o.id < 0)
    BY <1>5, <1>7, <2>2 DEF ChildWas, Instance, Row
  <2> QED BY <2>1, <2>2
<1>10. Assigned(o) = ChildRow(o)
  <2>1. PICK i : i = Instance(o)
    OBVIOUS
  <2>2. PICK a : a = Assign(ChildWas(o).owner, "parent", v.owner)
    OBVIOUS
  <2>3. PICK b : b = Assign(ChildWas(o).mate, "child", v.mate)
    OBVIOUS
  <2>4. PICK h : h = TRUE
    OBVIOUS
  <2>5. PICK d : d = FALSE
    OBVIOUS
  <2>6. PICK p : p = ChildWas(o).owner
    OBVIOUS
  <2>7. PICK m : m = ChildWas(o).mate
    OBVIOUS
  <2>8. i = [here |-> h, owner |-> p, mate |-> m, deleted |-> d]
    BY <1>9, <2>1, <2>4, <2>5, <2>6, <2>7
  <2>9. [i EXCEPT !.owner = a, !.mate = b] = [here |-> h, owner |-> a, mate |-> b, deleted |-> d]
    <3>1. PICK q : q = [i EXCEPT !.owner = a]
      OBVIOUS
    <3>2. q = [here |-> h, owner |-> a, mate |-> m, deleted |-> d]
      BY <2>8, <3>1
    <3>3. [q EXCEPT !.mate = b] = [here |-> h, owner |-> a, mate |-> b, deleted |-> d]
      BY <3>2
    <3> QED BY <3>1, <3>3
  <2>10. Assigned(o) = [i EXCEPT !.owner = a, !.mate = b]
    BY <2>1, <2>2, <2>3, <2>6, <2>7, <2>8 DEF Assigned
  <2> QED BY <2>2, <2>3, <2>4, <2>5, <2>9, <2>10 DEF Assign, ChildRow
<1>11. rows' = [rows EXCEPT ![ChildKey(o)] = ChildRow(o)]
  BY <1>10 DEF SaveChild, ChildKey
<1>12. changes' = Recorded([rows EXCEPT ![ChildKey(o)] = ChildWas(o)], rows') /\ UNCHANGED <<parents, errors>>
  BY <1>5 DEF SaveChild, ChildKey, ChildWas
<1>13. \A c \in ChildPk : rows'[c] = IF c = ChildKey(o) THEN ChildRow(o) ELSE rows[c]
  <2>1. rows \in [ChildPk -> Row]
    BY <1>2 DEF TypeOK
  <2> QED BY <1>11, <2>1
<1> QED BY <1>1, <1>4, <1>5, <1>6, <1>8, <1>11, <1>12, <1>13

(* What the save of a parent does to each child.                           *)
ParentKey(o) == IF o.id < 0 THEN NextPk("parent") ELSE o.id

Unlisted(o, c) ==
  /\ objects[o].kids # Absent /\ c \in Removed(ParentKey(o), objects[o].kids)
  /\ rows'[c] = IF schema.nullable THEN [rows[c] EXCEPT !.owner = None] ELSE Deleted(rows[c])

Taken(o, c) ==
  /\ objects[o].kids # Absent /\ c \in Added(ParentKey(o), objects[o].kids)
  /\ rows'[c] = [rows[c] EXCEPT !.owner = ParentKey(o)]

Untouched(o, c) ==
  /\ objects[o].kids = Absent \/ c \notin Added(ParentKey(o), objects[o].kids)
                                             \cup Removed(ParentKey(o), objects[o].kids)
  /\ rows'[c] = rows[c]

LEMMA SaveParentFacts ==
  ASSUME IInv, NEW o, SaveParent(o)
  PROVE  /\ Turn(o) /\ o.model = "parent" /\ Answered(o, ParentKey(o))
         /\ ParentKey(o) \in ParentPk
         /\ o.id < 0 => ParentKey(o) \in NewKey("parent") /\ ParentKey(o) \notin HandedOut("parent")
         /\ ~(o.id < 0) => o.id \in 1..Parents
         /\ objects[o].kids # Absent => objects[o].kids \in SUBSET Key("child")
         /\ rows' \in [ChildPk -> Row]
         /\ \A c \in ChildPk : Untouched(o, c) \/ Taken(o, c) \/ Unlisted(o, c)
         /\ changes' = Recorded(rows, rows')
         /\ parents' = parents \cup {ParentKey(o)}
         /\ errors \subseteq errors' /\ errors' \subseteq errors \cup {o}
<1>1. Turn(o) /\ o.model = "parent" /\ Editable(o) /\ Answered(o, ParentKey(o))
  BY DEF SaveParent, ParentKey
<1>2. o \in DOMAIN objects /\ o \in Object /\ o \notin DOMAIN newIds /\ Saving /\ TypeOK
  BY <1>1, TurnFacts DEF IInv
<1>3. o.id \in Key("parent")
  BY <1>1, <1>2, Objects
<1>4. ASSUME o.id < 0
      PROVE  ParentKey(o) \in NewKey("parent") /\ ParentKey(o) \notin HandedOut("parent")
  BY <1>1, <1>2, <1>4, KeyLeft DEF ParentKey
<1>5. ASSUME ~(o.id < 0) PROVE o.id \in 1..Parents
  BY <1>3, <1>5, Names DEF Key
<1>6. ParentKey(o) \in ParentPk
  BY <1>4, <1>5, Names DEF ParentKey, NewKey
<1>7. objects[o].kids # Absent => objects[o].kids \in SUBSET Key("child")
  BY <1>1, <1>2 DEF TypeOK, ValuesOf
<1>8. rows \in [ChildPk -> Row]
  BY <1>2 DEF TypeOK
<1>9. rows' = IF objects[o].kids = Absent THEN rows ELSE WithKids(ParentKey(o), objects[o].kids)
  BY DEF SaveParent, ParentKey
<1>10. ASSUME NEW c \in ChildPk PROVE Untouched(o, c) \/ Taken(o, c) \/ Unlisted(o, c)
  BY <1>9 DEF Untouched, Taken, Unlisted, WithKids
<1>11. rows' \in [ChildPk -> Row]
  <2>1. rows' = [c \in ChildPk |-> rows'[c]]
    BY <1>8, <1>9 DEF WithKids
  <2>2. ASSUME NEW c \in ChildPk PROVE rows'[c] \in Row
    <3>1. rows[c] \in Row
      BY <1>8
    <3>2. CASE Untouched(o, c)
      BY <3>1, <3>2 DEF Untouched
    <3>3. CASE Taken(o, c)
      BY <3>1, <3>3, <1>6 DEF Taken, Row
    <3>4. CASE Unlisted(o, c)
      BY <3>1, <3>4 DEF Unlisted, Row, Deleted
    <3> QED BY <1>10, <3>2, <3>3, <3>4
  <2> QED BY <2>1, <2>2
<1>12. /\ changes' = Recorded(rows, rows') /\ parents' = parents \cup {ParentKey(o)}
       /\ errors \subseteq errors' /\ errors' \subseteq errors \cup {o}
  BY DEF SaveParent, ParentKey
<1> QED BY <1>1, <1>4, <1>5, <1>6, <1>7, <1>10, <1>11, <1>12

LEMMA InvalidFacts ==
  ASSUME IInv, NEW o, Invalid(o)
  PROVE  /\ Turn(o) /\ Answered(o, None) /\ errors' = errors \cup {o}
         /\ UNCHANGED <<rows, parents, changes>>
BY DEF Invalid

(* One object of the loop was answered: a child was saved, a parent, or    *)
(* neither.                                                                *)
Saved(o, pk) ==
  \/ SaveChild(o) /\ pk = ChildKey(o)
  \/ SaveParent(o) /\ pk = ParentKey(o)
  \/ Invalid(o) /\ pk = None

LEMMA SavedFacts ==
  ASSUME IInv, NEW o, NEW pk, Saved(o, pk)
  PROVE  /\ Turn(o) /\ Answered(o, pk)
         /\ o.id < 0 => pk \in {None} \cup NewKey(o.model) /\ (pk # None => pk \notin HandedOut(o.model))
         /\ pk = None => o \in errors'
         /\ errors \subseteq errors' /\ errors' \subseteq errors \cup {o}
         /\ parents \subseteq parents' /\ parents' \subseteq ParentPk
         /\ o.model = "parent" /\ pk # None => pk \in parents'
         /\ rows' \in [ChildPk -> Row]
         /\ DOMAIN changes' \subseteq ChildPk \X FieldOfRow
<1>1. TypeOK
  BY DEF IInv
<1>2. CASE SaveChild(o) /\ pk = ChildKey(o)
  <2>1. rows' \in [ChildPk -> Row]
    BY <1>1, <1>2, SaveChildFacts DEF TypeOK
  <2>2. DOMAIN changes' \subseteq ChildPk \X FieldOfRow
    <3>1. PICK was, now : changes' = Recorded(was, now)
      BY <1>2, SaveChildFacts
    <3> QED BY <1>1, <3>1, RecordedType DEF TypeOK
  <2>3. pk \in ChildPk /\ None \notin ChildPk
    BY <1>2, SaveChildFacts, Names
  <2> QED BY <1>1, <1>2, <2>1, <2>2, <2>3, SaveChildFacts DEF TypeOK
<1>3. CASE SaveParent(o) /\ pk = ParentKey(o)
  <2>1. DOMAIN changes' \subseteq ChildPk \X FieldOfRow
    BY <1>1, <1>3, SaveParentFacts, RecordedType DEF TypeOK
  <2>2. pk \in ParentPk /\ None \notin ParentPk
    BY <1>3, SaveParentFacts, Names
  <2> QED BY <1>1, <1>3, <2>1, <2>2, SaveParentFacts DEF TypeOK
<1>4. CASE Invalid(o) /\ pk = None
  BY <1>1, <1>4, InvalidFacts DEF TypeOK
<1> QED BY <1>2, <1>3, <1>4 DEF Saved

LEMMA SavedType ==
  ASSUME IInv, NEW o, NEW pk, Saved(o, pk)
  PROVE  TypeOK'
<1>1. errors' \subseteq DOMAIN objects
  BY SavedFacts, TurnFacts DEF IInv, TypeOK
<1> QED BY <1>1, SavedFacts, AnswerType

(* What has been answered stays answered.                                  *)
LEMMA RealStays ==
  ASSUME IInv, NEW o, Turn(o), NEW pk, Answered(o, pk)
  PROVE  /\ \A m, n : Known(m, n) => Known(m, n)' /\ Real(m, n)' = Real(m, n)
         /\ \A q : ~(q.id < 0) \/ q \in DOMAIN newIds => Pk(q)' = Pk(q)
         /\ Pk(o)' = IF o.id < 0 THEN pk ELSE o.id
<1>1. ASSUME NEW m, NEW n, Known(m, n) PROVE Known(m, n)' /\ Real(m, n)' = Real(m, n)
  BY <1>1, AnswerFacts DEF Known, Real
<1> QED BY <1>1, AnswerFacts DEF Pk

(* Which keys are taken after an answer.                                   *)
LEMMA HandedOutThen ==
  ASSUME IInv, NEW o, Turn(o), NEW pk, Answered(o, pk), NEW m
  PROVE  HandedOut(m)' = HandedOut(m) \cup (IF o.id < 0 /\ o.model = m THEN {pk} ELSE {})
<1> DEFINE old == {q \in DOMAIN newIds : q.model = m}
           new == IF o.id < 0 /\ o.model = m THEN {o} ELSE {}
<1>1. {q \in DOMAIN newIds' : q.model = m} = old \cup new
  <2>1. DOMAIN newIds' = DOMAIN newIds \cup (IF o.id < 0 THEN {o} ELSE {})
    BY AnswerFacts
  <2> QED BY <2>1
<1>2. \A q \in old : newIds'[q] = newIds[q]
  BY AnswerFacts
<1>3. \A q \in new : newIds'[q] = pk
  BY AnswerFacts
<1>4. {newIds'[q] : q \in old \cup new} = {newIds[q] : q \in old} \cup {pk : q \in new}
  BY <1>2, <1>3
<1>5. {pk : q \in new} = IF o.id < 0 /\ o.model = m THEN {pk} ELSE {}
  OBVIOUS
<1> HIDE DEF old, new
<1>6. HandedOut(m) = (IF m = "parent" THEN 1..Parents ELSE 1..Children) \cup {newIds[q] : q \in old}
  BY DEF HandedOut, old
<1>7. HandedOut(m)' = (IF m = "parent" THEN 1..Parents ELSE 1..Children)
                        \cup {newIds'[q] : q \in old \cup new}
  BY <1>1 DEF HandedOut
<1> QED BY <1>4, <1>5, <1>6, <1>7

-----------------------------------------------------------------------------

(* An answer in the loop keeps the invariant, part by part.                *)

LEMMA SavedPlace ==
  ASSUME IInv, NEW o, NEW pk, Saved(o, pk)
  PROVE  /\ OrderP!OrderInv' /\ StartInv' /\ PlanInv' /\ LoopInv' /\ KeyErrorOnlyForItself'
<1>1. Turn(o) /\ Answered(o, pk)
  BY SavedFacts
<1>2. /\ phase = "save" /\ phase' = "save" /\ result' = "none" /\ Saving /\ Saving'
      /\ UNCHANGED <<schema, committed, objects, deletions, deletedIds, order, locked>>
      /\ next' <= Len(ordered) + 1
  BY <1>1, TurnFacts, AnswerFacts
<1>3. OrderP!OrderInv'
  BY <1>2, OrderStep DEF IInv
<1>4. StartInv'
  BY <1>2 DEF IInv, StartInv
<1>5. PlanInv'
  <2>1. given' = given /\ objects' = objects
    BY <1>2 DEF order
  <2> QED BY <1>1, <1>2, <2>1, TurnFacts DEF PlanInv, Claimed, Claiming, Unspecified
<1>6. LoopInv'
  BY <1>2 DEF IInv, LoopInv, order
<1>7. KeyErrorOnlyForItself'
  BY <1>2 DEF KeyErrorOnlyForItself
<1> QED BY <1>3, <1>4, <1>5, <1>6, <1>7

(* The key of what is saved now is not that of something saved before.     *)
LEMMA KeyApart ==
  ASSUME IInv, NEW o, NEW pk, Saved(o, pk), pk # None,
         NEW q \in Done \ errors, q.model = o.model, q.id < 0 => q \in DOMAIN newIds
  PROVE  /\ Pk(q) # pk /\ Pk(q) \in HandedOut(o.model) /\ Pk(q) # None
         /\ ~(o.id < 0) => pk = o.id
<1>1. Turn(o)
  BY SavedFacts
<1>2. /\ o \in DOMAIN objects /\ o \in Object /\ q \in DOMAIN objects /\ q \in Object /\ q # o
      /\ o \notin DOMAIN newIds /\ Saving /\ TypeOK /\ IdsInv
  BY <1>1, TurnFacts DEF IInv, TypeOK
<1>3. o.id \in Key(o.model) /\ q.id \in Key(o.model)
  BY <1>2, Objects
<1>4. q.id < 0 => newIds[q] # None /\ newIds[q] \in NewKey(o.model)
  BY <1>2 DEF IdsInv, TypeOK
<1>5. ~(o.id < 0) => pk = o.id
  BY DEF Saved, ChildKey, ParentKey
<1>6. ~(q.id < 0) => q.id \in (IF o.model = "parent" THEN 1..Parents ELSE 1..Children)
  BY <1>3, Names DEF Key
<1>7. ~(o.id < 0) => o.id \in (IF o.model = "parent" THEN 1..Parents ELSE 1..Children)
  BY <1>3, Names DEF Key
<1>8. Pk(q) \in HandedOut(o.model) /\ Pk(q) # None
  <2>1. CASE q.id < 0
    BY <1>2, <1>4, <2>1 DEF Pk, HandedOut
  <2>2. CASE ~(q.id < 0)
    BY <1>6, <2>2, Names DEF Pk, HandedOut
  <2> QED BY <2>1, <2>2
<1>9. Pk(q) # pk
  <2>1. CASE o.id < 0
    BY <1>8, <2>1, SavedFacts
  <2>2. CASE ~(o.id < 0) /\ q.id < 0
    BY <1>4, <1>5, <1>7, <2>2 DEF Pk, NewKey
  <2>3. CASE ~(o.id < 0) /\ ~(q.id < 0)
    BY <1>2, <1>5, <2>3, Objects DEF Pk
  <2> QED BY <2>1, <2>2, <2>3
<1> QED BY <1>5, <1>8, <1>9

LEMMA SavedIds ==
  ASSUME IInv, NEW o, NEW pk, Saved(o, pk)
  PROVE  IdsInv'
<1>1. Turn(o) /\ Answered(o, pk)
  BY SavedFacts
<1>2. Saving /\ phase = "save" /\ phase' = "save" /\ IdsInv /\ TypeOK /\ o \notin DOMAIN newIds
  BY <1>1, TurnFacts, AnswerFacts DEF IInv
<1>3. /\ Done' = Done \cup {o}
      /\ DOMAIN newIds' = DOMAIN newIds \cup (IF o.id < 0 THEN {o} ELSE {})
      /\ \A q \in DOMAIN newIds : newIds'[q] = newIds[q]
      /\ o.id < 0 => newIds'[o] = pk
  BY <1>1, AnswerFacts
<1>4. /\ DOMAIN newIds' \subseteq Done'
      /\ \A q \in Done' : q.id < 0 /\ (phase' = "save" \/ q.model = "parent") => q \in DOMAIN newIds'
  BY <1>2, <1>3 DEF IdsInv
<1>5. \A q \in DOMAIN newIds' : newIds'[q] = None => q \in errors'
  <2> SUFFICES ASSUME NEW q \in DOMAIN newIds', newIds'[q] = None PROVE q \in errors'
    OBVIOUS
  <2>1. CASE q \in DOMAIN newIds
    BY <1>2, <1>3, <2>1, SavedFacts DEF IdsInv
  <2>2. CASE q \notin DOMAIN newIds
    BY <1>3, <2>2, SavedFacts
  <2> QED BY <2>1, <2>2
<1>6. ASSUME NEW q \in DOMAIN newIds', NEW r \in DOMAIN newIds',
             newIds'[q] = newIds'[r], newIds'[q] # None, q.model = r.model
      PROVE  q = r
  <2>1. ASSUME NEW s \in DOMAIN newIds, s.model = o.model, o.id < 0
        PROVE  newIds[s] # pk \/ pk = None
    <3>1. newIds[s] \in HandedOut(o.model)
      BY <2>1 DEF HandedOut
    <3> QED BY <2>1, <3>1, SavedFacts
  <2>2. CASE q \in DOMAIN newIds /\ r \in DOMAIN newIds
    BY <1>2, <1>3, <1>6, <2>2 DEF IdsInv
  <2>3. CASE q \in DOMAIN newIds /\ r \notin DOMAIN newIds
    BY <1>3, <1>6, <2>1, <2>3
  <2>4. CASE q \notin DOMAIN newIds /\ r \in DOMAIN newIds
    BY <1>3, <1>6, <2>1, <2>4
  <2>5. CASE q \notin DOMAIN newIds /\ r \notin DOMAIN newIds
    BY <1>3, <2>5
  <2> QED BY <2>2, <2>3, <2>4, <2>5
<1>7. \A q \in DOMAIN newIds' : q.model = "parent" /\ newIds'[q] # None => newIds'[q] \in parents'
  <2> SUFFICES ASSUME NEW q \in DOMAIN newIds', q.model = "parent", newIds'[q] # None
               PROVE  newIds'[q] \in parents'
    OBVIOUS
  <2>1. CASE q \in DOMAIN newIds
    BY <1>2, <1>3, <2>1, SavedFacts DEF IdsInv
  <2>2. CASE q \notin DOMAIN newIds
    BY <1>3, <2>2, SavedFacts
  <2> QED BY <2>1, <2>2
<1>8. ASSUME NEW c \in ChildPk \ HandedOut("child")' PROVE rows'[c] = Blank
  <2>1. HandedOut("child")' = HandedOut("child") \cup (IF o.id < 0 /\ o.model = "child" THEN {pk} ELSE {})
    BY <1>1, HandedOutThen
  <2>2. c \notin HandedOut("child") /\ rows[c] = Blank
    BY <1>2, <1>8, <2>1 DEF IdsInv
  <2>3. CASE SaveChild(o) /\ pk = ChildKey(o)
    <3>1. 1..Children \subseteq HandedOut("child")
      BY DEF HandedOut
    <3>2. c # ChildKey(o)
      BY <1>8, <2>1, <2>2, <2>3, <3>1, SaveChildFacts DEF ChildKey
    <3> QED BY <1>8, <2>2, <2>3, <3>2, SaveChildFacts
  <2>4. CASE SaveParent(o)
    <3>1. ~rows[c].here
      BY <2>2 DEF Blank
    <3>2. Untouched(o, c)
      BY <1>8, <2>4, <3>1, SaveParentFacts DEF Taken, Unlisted, Added, Removed
    <3> QED BY <2>2, <3>2 DEF Untouched
  <2>5. CASE Invalid(o)
    BY <2>2, <2>5, InvalidFacts
  <2> QED BY <2>3, <2>4, <2>5 DEF Saved
<1> QED BY <1>2, <1>4, <1>5, <1>6, <1>7, <1>8 DEF IdsInv

LEMMA SavedDoneIds ==
  ASSUME IInv, NEW o, NEW pk, Saved(o, pk)
  PROVE  DoneIdsInv'
<1>1. Turn(o) /\ Answered(o, pk) /\ IdsInv'
  BY SavedFacts, SavedIds
<1>2. /\ phase' = "save" /\ result' = "none" /\ Saving' /\ deletedIds' = deletedIds
  BY <1>1, AnswerFacts
<1>3. deletedIds = {}
  BY <1>1, TurnFacts DEF IInv, DoneIdsInv
<1> QED BY <1>1, <1>2, <1>3 DEF IdsInv, DoneIdsInv

(* A child with an owner in the payload depends on it, a parent on none.   *)
LEMMA OwnerIsAwaited ==
  ASSUME given = Dependencies(objects), DOMAIN objects \subseteq Object,
         NEW q \in DOMAIN objects, q.model = "child", Parent(objects[q].owner) \in DOMAIN objects
  PROVE  Parent(objects[q].owner) \in given[q]
<1>1. objects[q].owner \in Key("parent")
  BY Objects
<1>2. objects[q].owner # Absent /\ objects[q].owner # None
  BY <1>1, Names
<1>3. Parent(objects[q].owner) \in References(q, objects[q])
  BY <1>2 DEF References
<1>4. Parent(objects[q].owner) # q
  BY Objects
<1> QED BY <1>3, <1>4 DEF Dependencies

LEMMA ParentsWaitForNone ==
  ASSUME given = Dependencies(objects), NEW p \in DOMAIN objects, p.model = "parent"
  PROVE  given[p] = {}
BY DEF Dependencies, References

(* Who has the parent that is being saved for an owner refers to it.       *)
LEMMA RealIs ==
  ASSUME IInv, NEW o, SaveParent(o), NEW a \in {None} \cup Key("parent"),
         Known("parent", a), Real("parent", a) = ParentKey(o)
  PROVE  a = o.id /\ Parent(a) = o
<1>1. /\ Turn(o) /\ o.model = "parent" /\ ParentKey(o) \in ParentPk
      /\ o.id < 0 => ParentKey(o) \in NewKey("parent") /\ ParentKey(o) \notin HandedOut("parent")
      /\ ~(o.id < 0) => o.id \in 1..Parents
  BY SaveParentFacts
<1>2. o \in Object /\ TypeOK
  BY <1>1, TurnFacts DEF IInv
<1>3. a # None
  <2>1. Real("parent", None) = None /\ None \notin ParentPk
    BY Names DEF Real
  <2> QED BY <1>1, <2>1
<1>4. a = o.id
  <2>1. CASE a \in Made
    <3>1. Parent(a) \in DOMAIN newIds /\ newIds[Parent(a)] = ParentKey(o)
      BY <2>1 DEF Known, Real, Parent
    <3>2. ParentKey(o) \in NewKey("parent") \cup {None} /\ ParentKey(o) \in HandedOut("parent")
      BY <1>2, <3>1, Objects DEF TypeOK, HandedOut
    <3>3. ~(o.id < 0)
      BY <1>1, <3>2
    <3>4. ParentKey(o) \in 1..Parents
      BY <1>1, <3>3 DEF ParentKey
    <3> QED BY <1>1, <3>2, <3>4, Names DEF NewKey
  <2>2. CASE a \notin Made
    <3>1. a = ParentKey(o) /\ a \in 1..Parents
      BY <1>3, <2>2 DEF Real, Key
    <3>2. 1..Parents \subseteq HandedOut("parent")
      BY DEF HandedOut
    <3> QED BY <1>1, <3>1, <3>2 DEF ParentKey
  <2> QED BY <2>1, <2>2
<1> QED BY <1>1, <1>2, <1>4, Objects

(* The save of a parent leaves alone what was stored for a child.          *)
LEMMA ParentSparesStored ==
  ASSUME IInv, NEW o, SaveParent(o), NEW q \in Done \ errors, q.model = "child",
         q.id < 0 => q \in DOMAIN newIds, Stored(q), Pk(q) \in ChildPk
  PROVE  /\ rows'[Pk(q)].mate = rows[Pk(q)].mate
         /\ q.id < 0 \/ objects[q].owner # Absent => rows'[Pk(q)] = rows[Pk(q)]
<1> DEFINE c == Pk(q)
<1>1. Untouched(o, c) \/ Taken(o, c) \/ Unlisted(o, c)
  BY SaveParentFacts
<1>2. /\ Turn(o) /\ o.model = "parent" /\ ParentKey(o) \in ParentPk
      /\ objects[o].kids # Absent => objects[o].kids \in SUBSET Key("child")
  BY SaveParentFacts
<1>3. /\ o \in DOMAIN objects /\ q \in DOMAIN objects /\ given = Dependencies(objects)
      /\ DOMAIN objects \subseteq Object /\ Claimed /\ TypeOK
      /\ given[o] = {} => given[q] = {}
  BY <1>2, TurnFacts DEF IInv, TypeOK
<1>4. given[q] = {}
  BY <1>2, <1>3, ParentsWaitForNone
<1>5. rows[c] \in Row
  BY <1>3 DEF TypeOK
<1>6. Parent(objects[q].owner) \notin DOMAIN objects
  BY <1>3, <1>4, OwnerIsAwaited
<1>7. CASE Untouched(o, c)
  BY <1>7 DEF Untouched
<1>8. CASE Taken(o, c)
  <2>1. c \in objects[o].kids /\ c > 0 /\ objects[o].kids # Absent
    BY <1>8 DEF Taken, Added
  <2>2. c \in 1..Children
    BY <1>2, <2>1, Names
  <2>3. ~(q.id < 0)
    <3>1. q.id < 0 => c \in {None} \cup NewKey("child")
      BY <1>3 DEF Pk, TypeOK
    <3> QED BY <2>2, <3>1, Names DEF NewKey
  <2>4. q.id = c
    BY <2>3 DEF Pk
  <2>5. o \in Claiming(objects, q)
    BY <1>2, <1>3, <2>1, <2>4 DEF Claiming
  <2>6. Parent(objects[q].owner) \in DOMAIN objects
    BY <1>3, <2>5 DEF Claimed, Claiming
  <2> QED BY <1>6, <2>6
<1>9. CASE Unlisted(o, c)
  <2>1. rows[c].owner = ParentKey(o)
    BY <1>9 DEF Unlisted, Removed
  <2>2. rows'[c].mate = rows[c].mate
    BY <1>5, <1>9 DEF Unlisted, Deleted, Row
  <2>3. ASSUME objects[q].owner # Absent PROVE FALSE
    <3>1. Known("parent", objects[q].owner) /\ rows[c].owner = Real("parent", objects[q].owner)
      BY <2>3 DEF Stored
    <3>2. objects[q].owner \in {None} \cup Key("parent")
      BY <1>3, <2>3 DEF TypeOK, ValuesOf
    <3>3. Parent(objects[q].owner) = o
      BY <2>1, <3>1, <3>2, RealIs
    <3> QED BY <1>3, <1>6, <3>3
  <2>4. ASSUME q.id < 0, objects[q].owner = Absent PROVE FALSE
    <3>1. rows[c].owner = None
      BY <2>4 DEF Stored
    <3> QED BY <1>2, <2>1, <3>1, Names
  <2> QED BY <2>2, <2>3, <2>4
<1> QED BY <1>1, <1>7, <1>8, <1>9

LEMMA SavedStored ==
  ASSUME IInv, NEW o, NEW pk, Saved(o, pk)
  PROVE  StoredInv'
<1>1. Turn(o) /\ Answered(o, pk)
  BY SavedFacts
<1>2. /\ Saving /\ phase = "save" /\ phase' = "save" /\ StoredInv /\ IdsInv /\ TypeOK
      /\ o \notin DOMAIN newIds /\ o \in DOMAIN objects /\ Done \subseteq DOMAIN objects
      /\ Done' = Done \cup {o} /\ objects' = objects
      /\ DOMAIN newIds' = DOMAIN newIds \cup (IF o.id < 0 THEN {o} ELSE {})
  BY <1>1, TurnFacts, AnswerFacts DEF IInv
<1> SUFFICES ASSUME NEW q \in Done' \ errors', q.model = "child", q.id < 0 => q \in DOMAIN newIds'
             PROVE  Stored(q)'
  BY DEF StoredInv
<1>3. CASE q = o
  <2>1. SaveChild(o) /\ pk = ChildKey(o)
    BY <1>3, SavedFacts, SaveParentFacts, InvalidFacts DEF Saved
  <2>2. AllKnown(o) /\ o.model = "child" /\ ChildKey(o) \in ChildPk
        /\ rows'[ChildKey(o)] = ChildRow(o)
    BY <2>1, SaveChildFacts
  <2>3. Pk(o)' = ChildKey(o)
    BY <1>1, <2>1, RealStays DEF ChildKey
  <2>4. Known("parent", objects[o].owner) /\ Known("child", objects[o].mate)
    BY <2>2 DEF AllKnown
  <2>5. /\ Known("parent", objects[o].owner)' /\ Known("child", objects[o].mate)'
        /\ Real("parent", objects[o].owner)' = Real("parent", objects[o].owner)
        /\ Real("child", objects[o].mate)' = Real("child", objects[o].mate)
    BY <1>1, <1>2, <2>4, RealStays
  <2> DEFINE r == ChildRow(o)
  <2>6. /\ objects[o].owner # Absent => r.owner = Real("parent", objects[o].owner)
        /\ objects[o].mate # Absent => r.mate = Real("child", objects[o].mate)
        /\ r.here /\ ~r.deleted
        /\ o.id < 0 /\ objects[o].owner = Absent => r.owner = None
    BY DEF ChildRow, ChildWas, Blank
  <2> QED BY <1>2, <1>3, <2>2, <2>3, <2>5, <2>6 DEF Stored
<1>4. CASE q # o
  <2>1. q \in Done \ errors /\ (q.id < 0 => q \in DOMAIN newIds)
    BY <1>2, <1>4, SavedFacts
  <2>2. Stored(q) /\ q \in DOMAIN objects
    BY <1>2, <2>1 DEF StoredInv
  <2>3. Pk(q)' = Pk(q)
    BY <1>1, <2>1, RealStays
  <2>4. Pk(q) \in ChildPk
    <3>1. CASE q.id < 0
      BY <1>2, <2>1, <3>1 DEF Pk, IdsInv, TypeOK, NewKey
    <3>2. CASE ~(q.id < 0)
      <4>1. q.id \in Key("child")
        BY <1>2, <2>2, Objects DEF TypeOK
      <4> QED BY <3>2, <4>1, Names DEF Pk, Key
    <3> QED BY <3>1, <3>2
  <2>5. /\ rows'[Pk(q)].mate = rows[Pk(q)].mate
        /\ q.id < 0 \/ objects[q].owner # Absent => rows'[Pk(q)] = rows[Pk(q)]
    <3>1. CASE SaveChild(o) /\ pk = ChildKey(o)
      <4>1. o.model = "child" /\ pk \in ChildPk /\ None \notin ChildPk
        BY <3>1, SaveChildFacts, Names
      <4>2. Pk(q) # ChildKey(o)
        BY <2>1, <3>1, <4>1, KeyApart
      <4> QED BY <2>4, <3>1, <4>2, SaveChildFacts
    <3>2. CASE SaveParent(o)
      BY <2>1, <2>2, <2>4, <3>2, ParentSparesStored
    <3>3. CASE Invalid(o)
      BY <3>3, InvalidFacts
    <3> QED BY <3>1, <3>2, <3>3 DEF Saved
  <2>6. /\ objects[q].owner # Absent => Known("parent", objects[q].owner)'
             /\ Real("parent", objects[q].owner)' = Real("parent", objects[q].owner)
        /\ Known("child", objects[q].mate) /\ Known("child", objects[q].mate)'
        /\ Real("child", objects[q].mate)' = Real("child", objects[q].mate)
    <3>1. Known("child", objects[q].mate) /\ (objects[q].owner # Absent => Known("parent", objects[q].owner))
      BY <1>2, <2>2 DEF Stored
    <3> QED BY <1>1, <1>2, <3>1, RealStays
  <2> QED BY <1>2, <2>2, <2>3, <2>5, <2>6 DEF Stored
<1> QED BY <1>3, <1>4

LEMMA SavedDeleted ==
  ASSUME IInv, NEW o, NEW pk, Saved(o, pk)
  PROVE  DeletedInv'
<1>1. Turn(o) /\ Answered(o, pk)
  BY SavedFacts
<1>2. committed' = committed /\ objects' = objects /\ DeletedInv /\ TypeOK /\ o \in DOMAIN objects
  BY <1>1, TurnFacts, AnswerFacts DEF IInv
<1> SUFFICES ASSUME NEW c \in 1..Children, committed[c].deleted
             PROVE  /\ rows'[c] = [committed[c] EXCEPT !.owner = rows'[c].owner]
                    /\ Claiming(objects, Child(c)) = {} => rows'[c] = committed[c]
  BY <1>2 DEF DeletedInv, Claiming
<1>3. /\ rows[c] = [committed[c] EXCEPT !.owner = rows[c].owner]
      /\ Claiming(objects, Child(c)) = {} => rows[c] = committed[c]
  BY <1>2 DEF DeletedInv
<1>4. c \in ChildPk /\ committed[c] \in Row
  BY <1>2, Names DEF TypeOK
<1>5. CASE SaveChild(o) /\ pk = ChildKey(o)
  <2>1. c # ChildKey(o)
    BY <1>5, SaveChildFacts DEF ChildKey, NewKey
  <2>2. rows'[c] = rows[c]
    BY <1>4, <1>5, <2>1, SaveChildFacts
  <2> QED BY <1>3, <2>2
<1>6. CASE SaveParent(o)
  <2>1. o.model = "parent" /\ (Untouched(o, c) \/ Taken(o, c) \/ Unlisted(o, c))
    BY <1>4, <1>6, SaveParentFacts
  <2>2. CASE Untouched(o, c)
    BY <1>3, <2>2 DEF Untouched
  <2>3. CASE Taken(o, c)
    <3>1. o \in Claiming(objects, Child(c))
      BY <1>2, <2>1, <2>3, Objects DEF Taken, Added, Claiming
    <3>2. rows'[c] = [rows[c] EXCEPT !.owner = ParentKey(o)]
      BY <2>3 DEF Taken
    <3>3. rows'[c] = [committed[c] EXCEPT !.owner = rows'[c].owner]
      BY <1>3, <1>4, <3>2 DEF Row
    <3> QED BY <3>1, <3>3
  <2>4. CASE Unlisted(o, c)
    BY <1>3, <1>4, <2>4 DEF Unlisted, Removed, Row
  <2> QED BY <2>1, <2>2, <2>3, <2>4
<1>7. CASE Invalid(o)
  BY <1>3, <1>7, InvalidFacts
<1> QED BY <1>5, <1>6, <1>7 DEF Saved

LEMMA SavedHere ==
  ASSUME IInv, NEW o, NEW pk, Saved(o, pk)
  PROVE  HereInv'
<1>1. Turn(o) /\ Answered(o, pk)
  BY SavedFacts
<1>2. committed' = committed /\ schema' = schema /\ phase = "save" /\ HereInv /\ TypeOK
  BY <1>1, TurnFacts, AnswerFacts DEF IInv
<1> SUFFICES ASSUME Lenient, NEW c \in ChildPk, committed[c].here PROVE rows'[c].here
  BY <1>2 DEF HereInv, Lenient
<1>3. rows[c].here /\ rows[c] \in Row
  BY <1>2 DEF HereInv, TypeOK
<1>4. CASE SaveChild(o) /\ pk = ChildKey(o)
  <2>1. ChildRow(o).here
    BY DEF ChildRow
  <2> QED BY <1>3, <1>4, <2>1, SaveChildFacts
<1>5. CASE SaveParent(o)
  <2>1. Untouched(o, c) \/ Taken(o, c) \/ Unlisted(o, c)
    BY <1>5, SaveParentFacts
  <2> QED BY <1>3, <2>1 DEF Untouched, Taken, Unlisted, Deleted, Lenient, Row
<1>6. CASE Invalid(o)
  BY <1>3, <1>6, InvalidFacts
<1> QED BY <1>4, <1>5, <1>6 DEF Saved

(* The history of a child stays right if what was saved is what the row    *)
(* was, or else was what the request began with and is not changed back.   *)
LEMMA HistoryStep ==
  ASSUME TypeOK, NEW c \in ChildPk, HistoryOf(c), committed' = committed, NEW was,
         changes' = Recorded(was, rows'),
         \A f \in FieldOfRow : \/ was[c][f] = rows[c][f]
                               \/ was[c][f] = committed[c][f] /\ rows'[c][f] = rows[c][f]
  PROVE  HistoryOf(c)'
<1> SUFFICES ASSUME NEW f \in FieldOfRow
             PROVE  IF <<c, f>> \in DOMAIN changes'
                    THEN changes'[<<c, f>>] = [old |-> committed[c][f], new |-> rows'[c][f]]
                    ELSE rows'[c][f] = committed[c][f]
  BY DEF HistoryOf
<1> DEFINE k == <<c, f>>
<1>1. k \in ChildPk \X FieldOfRow /\ k[1] = c /\ k[2] = f
  OBVIOUS
<1>2. IF k \in DOMAIN changes THEN changes[k] = [old |-> committed[c][f], new |-> rows[c][f]]
      ELSE rows[c][f] = committed[c][f]
  BY DEF HistoryOf
<1>3. k \in Changed(was, rows') <=> was[c][f] # rows'[c][f]
  BY <1>1 DEF Changed
<1>4. /\ DOMAIN changes' = DOMAIN changes \cup Changed(was, rows')
      /\ k \in DOMAIN changes' =>
           changes'[k] = [old |-> IF k \in DOMAIN changes THEN changes[k].old ELSE was[k[1]][k[2]],
                          new |-> IF k \in Changed(was, rows') THEN rows'[k[1]][k[2]] ELSE changes[k].new]
  BY DEF Recorded
<1>5. was[c][f] = rows[c][f] \/ (was[c][f] = committed[c][f] /\ rows'[c][f] = rows[c][f])
  OBVIOUS
<1> HIDE DEF k
<1>6. CASE k \in DOMAIN changes
  BY <1>1, <1>2, <1>3, <1>4, <1>5, <1>6 DEF k
<1>7. CASE k \notin DOMAIN changes /\ k \in Changed(was, rows')
  BY <1>1, <1>2, <1>3, <1>4, <1>5, <1>7 DEF k
<1>8. CASE k \notin DOMAIN changes /\ k \notin Changed(was, rows')
  BY <1>1, <1>2, <1>3, <1>4, <1>5, <1>8 DEF k
<1> QED BY <1>6, <1>7, <1>8

LEMMA SavedUnsaved ==
  ASSUME IInv, NEW o, NEW pk, Saved(o, pk), NEW c \in ChildPk, ~SaidTwice(c),
         Child(c) \in DOMAIN objects \ Done, Child(c) # o, Unsaved(c)
  PROVE  Unsaved(c)'
<1> DEFINE v == objects[Child(c)]
<1>1. Turn(o) /\ Answered(o, pk)
  BY SavedFacts
<1>2. /\ committed' = committed /\ objects' = objects /\ StartInv /\ TypeOK /\ o \in DOMAIN objects
      /\ Done' = Done \cup {o} /\ o \notin Done /\ o \in Object
  BY <1>1, TurnFacts, AnswerFacts DEF IInv
<1>3. /\ committed[c] \in Row /\ rows[c] \in Row /\ Child(c) \in Object
      /\ v.owner \in {Absent, None} \cup Key("parent")
      /\ committed[c].owner \in 1..Parents \cup {None}
  <2>1. Child(c) \in Object /\ Child(c).model = "child" /\ Child(c) \in DOMAIN objects
    BY <1>2, Objects DEF TypeOK
  <2>2. v \in ValuesOf(Child(c))
    BY <1>2, <2>1 DEF TypeOK
  <2>3. v.owner \in {Absent, None} \cup Key("parent")
    BY <2>1, <2>2 DEF ValuesOf
  <2>4. committed[c].owner \in 1..Parents \cup {None}
    <3>1. StartInv
      BY DEF IInv
    <3> QED BY <3>1 DEF StartInv
  <2> QED BY <1>2, <2>1, <2>3, <2>4 DEF TypeOK
<1>4. Known("parent", v.owner) => Known("parent", v.owner)' /\ Real("parent", v.owner)' = Real("parent", v.owner)
  BY <1>1, <1>2, RealStays
<1>5. CASE rows'[c] = rows[c]
  BY <1>2, <1>4, <1>5 DEF Unsaved
<1>6. CASE SaveChild(o) /\ pk = ChildKey(o)
  <2>1. c # ChildKey(o)
    <3>1. c \in 1..Children
      BY <1>3, Objects, Names DEF Key, ChildPk
    <3>2. o.model = "child" /\ c # o.id
      <4>1. o.model = "child"
        BY <1>6, SaveChildFacts
      <4> QED BY <1>2, <4>1, Objects
    <3> QED BY <1>6, <3>1, <3>2, SaveChildFacts DEF ChildKey, NewKey
  <2> QED BY <1>5, <1>6, <2>1, SaveChildFacts
<1>7. CASE SaveParent(o) /\ pk = ParentKey(o)
  <2>1. /\ o.model = "parent" /\ ParentKey(o) \in ParentPk /\ pk = ParentKey(o)
        /\ o.id < 0 => ParentKey(o) \in NewKey("parent")
        /\ Untouched(o, c) \/ Taken(o, c) \/ Unlisted(o, c)
    BY <1>7, SaveParentFacts
  <2>2. CASE Untouched(o, c)
    BY <1>5, <2>2 DEF Untouched
  <2>3. CASE Taken(o, c)
    <3>1. objects[o].kids # Absent /\ c \in objects[o].kids /\ rows'[c] = [rows[c] EXCEPT !.owner = ParentKey(o)]
      BY <2>3 DEF Taken, Added
    <3>2. v.owner = o.id
      BY <1>2, <2>1, <3>1 DEF SaidTwice
    <3>3. Parent(v.owner) = o /\ v.owner \in Key("parent")
      BY <1>2, <2>1, <3>2, Objects
    <3>4. o.id < 0 <=> o.id \in Made
      BY <3>2, <3>3, Names
    <3>5. o.id < 0 => o \in DOMAIN newIds' /\ newIds'[o] = pk
      BY <1>1, AnswerFacts
    <3>6. Known("parent", v.owner)' /\ Real("parent", v.owner)' = ParentKey(o)
      BY <1>2, <2>1, <3>2, <3>3, <3>4, <3>5 DEF Known, Real, Parent, ParentKey
    <3>7. rows'[c] = [committed[c] EXCEPT !.owner = ParentKey(o)]
      BY <1>3, <3>1 DEF Unsaved, Row
    <3> QED BY <1>2, <3>3, <3>6, <3>7 DEF Unsaved
  <2>4. CASE Unlisted(o, c)
    <3>1. /\ objects[o].kids # Absent /\ c \notin objects[o].kids /\ rows[c].owner = ParentKey(o)
      BY <2>4 DEF Unlisted, Removed
    <3>2. committed[c].owner # o.id
      BY <1>2, <2>1, <3>1 DEF SaidTwice
    <3>3. rows[c] # committed[c]
      BY <1>3, <2>1, <3>1, <3>2, Names DEF ParentKey, NewKey
    <3>4. /\ v.owner \in Key("parent") /\ Parent(v.owner) \in Done /\ Known("parent", v.owner)
          /\ rows[c] = [committed[c] EXCEPT !.owner = Real("parent", v.owner)]
      BY <3>3 DEF Unsaved
    <3>5. rows[c].owner = Real("parent", v.owner)
      BY <1>3, <3>4 DEF Row
    <3>6. Parent(v.owner) = o
      BY <1>7, <3>1, <3>4, <3>5, RealIs
    <3> QED BY <1>2, <3>4, <3>6
  <2> QED BY <2>1, <2>2, <2>3, <2>4
<1>8. CASE Invalid(o)
  BY <1>5, <1>8, InvalidFacts
<1> QED BY <1>6, <1>7, <1>8 DEF Saved

LEMMA SavedHistory ==
  ASSUME IInv, NEW o, NEW pk, Saved(o, pk)
  PROVE  HistoryInv'
<1>1. Turn(o) /\ Answered(o, pk)
  BY SavedFacts
<1>2. /\ committed' = committed /\ objects' = objects /\ HistoryInv /\ IdsInv /\ TypeOK /\ StartInv
      /\ Done' = Done \cup {o} /\ o \in DOMAIN objects /\ o \notin Done /\ o \in Object
      /\ Saving /\ phase = "save"
  BY <1>1, TurnFacts, AnswerFacts DEF IInv
<1> SUFFICES ASSUME NEW c \in ChildPk, ~SaidTwice(c)
             PROVE  HistoryOf(c)' /\ (Child(c) \in DOMAIN objects \ Done' => Unsaved(c)')
  BY <1>2 DEF HistoryInv, SaidTwice
<1>3. HistoryOf(c) /\ (Child(c) \in DOMAIN objects \ Done => Unsaved(c))
  BY <1>2 DEF HistoryInv
<1>4. Child(c) \in DOMAIN objects \ Done' => Unsaved(c)'
  BY <1>2, <1>3, SavedUnsaved
<1>5. CASE SaveChild(o) /\ pk = ChildKey(o)
  <2> DEFINE was == [rows EXCEPT ![ChildKey(o)] = ChildWas(o)]
  <2>1. rows \in [ChildPk -> Row] /\ committed[c] \in Row /\ ChildKey(o) \in ChildPk
    BY <1>2, <1>5, SaveChildFacts DEF TypeOK
  <2>2. was[c] = IF c = ChildKey(o) THEN ChildWas(o) ELSE rows[c]
    BY <2>1
  <2>3. changes' = Recorded(was, rows')
    BY <1>5, SaveChildFacts
  <2>4. ASSUME NEW f \in FieldOfRow
        PROVE  was[c][f] = rows[c][f] \/ (was[c][f] = committed[c][f] /\ rows'[c][f] = rows[c][f])
    <3>1. CASE c # ChildKey(o)
      BY <2>2, <3>1
    <3>2. CASE c = ChildKey(o) /\ o.id < 0
      <4>1. c \notin HandedOut("child") /\ was[c] = Blank
        BY <1>5, <2>2, <3>2, SaveChildFacts DEF ChildWas
      <4>2. rows[c] = Blank
        BY <1>2, <4>1 DEF IdsInv
      <4> QED BY <4>1, <4>2
    <3>3. CASE c = ChildKey(o) /\ ~(o.id < 0)
      <4>1. c = o.id /\ was[c] = committed[c] /\ rows'[c] = ChildRow(o) /\ o.model = "child"
        BY <1>5, <2>2, <3>3, SaveChildFacts DEF ChildWas, ChildKey
      <4>2. Child(c) = o
        BY <1>2, <4>1, Objects
      <4>3. Unsaved(c)
        BY <1>2, <1>3, <4>2
      <4>4. CASE rows[c] = committed[c]
        BY <4>1, <4>4
      <4>5. CASE rows[c] # committed[c]
        <5>1. /\ objects[o].owner \in Key("parent")
              /\ rows[c] = [committed[c] EXCEPT !.owner = Real("parent", objects[o].owner)]
          BY <4>2, <4>3, <4>5 DEF Unsaved
        <5>2. objects[o].owner # Absent
          BY <5>1, Names
        <5>3. rows'[c].owner = Real("parent", objects[o].owner)
          BY <4>1, <5>2 DEF ChildRow
        <5>4. CASE f = "owner"
          BY <2>1, <4>1, <5>1, <5>3, <5>4 DEF Row
        <5>5. CASE f # "owner"
          BY <2>1, <4>1, <5>1, <5>5 DEF Row, FieldOfRow
        <5> QED BY <5>4, <5>5
      <4> QED BY <4>4, <4>5
    <3> QED BY <3>1, <3>2, <3>3
  <2> HIDE DEF was
  <2> QED BY <1>2, <1>3, <1>4, <2>3, <2>4, HistoryStep
<1>6. CASE SaveParent(o)
  <2>1. changes' = Recorded(rows, rows')
    BY <1>6, SaveParentFacts
  <2> QED BY <1>2, <1>3, <1>4, <2>1, HistoryStep
<1>7. CASE Invalid(o)
  BY <1>2, <1>3, <1>4, <1>7, InvalidFacts DEF HistoryOf
<1> QED BY <1>5, <1>6, <1>7 DEF Saved

LEMMA SavedKids ==
  ASSUME IInv, NEW o, NEW pk, Saved(o, pk)
  PROVE  KidsInv'
<1>1. Turn(o) /\ Answered(o, pk)
  BY SavedFacts
<1>2. /\ committed' = committed /\ objects' = objects /\ schema' = schema
      /\ KidsInv /\ HereInv /\ IdsInv /\ TypeOK
      /\ Done' = Done \cup {o} /\ o \in DOMAIN objects /\ o \notin Done /\ o \in Object
      /\ Saving /\ phase = "save" /\ Done \subseteq DOMAIN objects
  BY <1>1, TurnFacts, AnswerFacts DEF IInv
<1> SUFFICES ASSUME NEW p \in Done' \ errors', p.model = "parent", objects[p].kids # Absent
             PROVE  KidsOf(p)'
  BY <1>2 DEF KidsInv
<1> DEFINE kids == objects[p].kids
           Own(k) == /\ k > 0 /\ Child(k) \notin DOMAIN objects
                     /\ Claiming(objects, Child(k)) = {p} /\ committed[k].here
<1>3. kids \in SUBSET Key("child")
  BY <1>2 DEF TypeOK, ValuesOf
<1>4. \A k \in kids : k > 0 => k \in 1..Children /\ k \in ChildPk
  BY <1>3, Names
<1>5. \A c \in 1..Children : c \in ChildPk /\ rows[c] \in Row
  BY <1>2, Names DEF TypeOK
<1> SUFFICES /\ Lenient => \A k \in kids : Own(k) => rows'[k].owner = Pk(p)'
             /\ \A c \in 1..Children \ kids :
                  Child(c) \notin DOMAIN objects =>
                    ~(rows'[c].here /\ ~rows'[c].deleted /\ rows'[c].owner = Pk(p)')
  BY <1>2 DEF KidsOf, Lenient, Claiming
<1>6. CASE p = o
  <2>1. SaveParent(o) /\ pk = ParentKey(o)
    BY <1>6, SavedFacts, SaveChildFacts, InvalidFacts DEF Saved
  <2>2. Pk(p)' = ParentKey(o) /\ ParentKey(o) \in ParentPk /\ None \notin ParentPk
    BY <1>1, <1>6, <2>1, RealStays, SaveParentFacts, Names DEF ParentKey
  <2>3. ASSUME Lenient, NEW k \in kids, Own(k) PROVE rows'[k].owner = ParentKey(o)
    <3>1. rows[k].here /\ rows[k] \in Row /\ k \in ChildPk
      BY <1>2, <1>4, <1>5, <2>3 DEF HereInv
    <3>2. Untouched(o, k) \/ Taken(o, k) \/ Unlisted(o, k)
      BY <2>1, <3>1, SaveParentFacts
    <3>3. CASE Untouched(o, k)
      BY <1>6, <2>3, <3>1, <3>3 DEF Untouched, Added
    <3>4. CASE Taken(o, k)
      BY <3>1, <3>4 DEF Taken, Row
    <3>5. CASE Unlisted(o, k)
      BY <1>6, <3>5 DEF Unlisted, Removed
    <3> QED BY <3>2, <3>3, <3>4, <3>5
  <2>4. ASSUME NEW c \in 1..Children \ kids
        PROVE  ~(rows'[c].here /\ ~rows'[c].deleted /\ rows'[c].owner = ParentKey(o))
    <3>1. c \in ChildPk /\ rows[c] \in Row
      BY <1>5
    <3>2. Untouched(o, c) \/ Taken(o, c) \/ Unlisted(o, c)
      BY <2>1, <3>1, SaveParentFacts
    <3>3. CASE Untouched(o, c)
      BY <1>6, <3>1, <3>3 DEF Untouched, Removed
    <3>4. CASE Taken(o, c)
      BY <1>6, <3>4 DEF Taken, Added
    <3>5. CASE Unlisted(o, c)
      BY <2>2, <3>1, <3>5 DEF Unlisted, Deleted, Row
    <3> QED BY <3>2, <3>3, <3>4, <3>5
  <2> QED BY <2>2, <2>3, <2>4
<1>7. CASE p # o
  <2>1. p \in Done \ errors
    BY <1>2, <1>7, SavedFacts
  <2>2. p.id < 0 => p \in DOMAIN newIds /\ newIds[p] # None
    BY <1>2, <2>1 DEF IdsInv
  <2>3. Pk(p)' = Pk(p)
    BY <1>1, <2>2, RealStays
  <2>4. /\ Lenient => \A k \in kids : Own(k) => rows[k].owner = Pk(p)
        /\ \A c \in 1..Children \ kids :
             Child(c) \notin DOMAIN objects => ~(rows[c].here /\ ~rows[c].deleted /\ rows[c].owner = Pk(p))
    BY <1>2, <2>1 DEF KidsInv, KidsOf
  <2>5. CASE SaveChild(o) /\ pk = ChildKey(o)
    <3>1. ASSUME NEW c \in 1..Children, Child(c) \notin DOMAIN objects PROVE rows'[c] = rows[c]
      <4>1. c # ChildKey(o)
        <5>1. o.model = "child"
          BY <2>5, SaveChildFacts
        <5>2. c # o.id
          BY <1>2, <3>1, <5>1, Objects
        <5> QED BY <2>5, <5>2, SaveChildFacts DEF ChildKey, NewKey
      <4> QED BY <1>5, <2>5, <4>1, SaveChildFacts
    <3> QED BY <1>4, <2>3, <2>4, <3>1
  <2>6. CASE SaveParent(o)
    <3>1. o.model = "parent" /\ ParentKey(o) \in ParentPk /\ None \notin ParentPk
      BY <2>6, SaveParentFacts, Names
    <3>2. Saved(o, ParentKey(o))
      BY <2>6 DEF Saved
    <3>3. Pk(p) # ParentKey(o) /\ Pk(p) # None
      BY <2>1, <2>2, <3>1, <3>2, KeyApart
    <3>4. ASSUME Lenient, NEW k \in kids, Own(k) PROVE rows'[k].owner = Pk(p)
      <4>1. rows[k].owner = Pk(p) /\ k \in ChildPk
        BY <1>4, <2>4, <3>4
      <4>2. Untouched(o, k) \/ Taken(o, k) \/ Unlisted(o, k)
        BY <2>6, <4>1, SaveParentFacts
      <4>3. ~Taken(o, k)
        <5>1. Taken(o, k) => o \in Claiming(objects, Child(k))
          BY <1>2, <3>1, Objects DEF Taken, Added, Claiming
        <5> QED BY <1>7, <3>4, <5>1
      <4>4. ~Unlisted(o, k)
        BY <3>3, <4>1 DEF Unlisted, Removed
      <4> QED BY <4>1, <4>2, <4>3, <4>4 DEF Untouched
    <3>5. ASSUME NEW c \in 1..Children \ kids, Child(c) \notin DOMAIN objects
          PROVE  ~(rows'[c].here /\ ~rows'[c].deleted /\ rows'[c].owner = Pk(p))
      <4>1. /\ c \in ChildPk /\ rows[c] \in Row
            /\ ~(rows[c].here /\ ~rows[c].deleted /\ rows[c].owner = Pk(p))
        BY <1>5, <2>4, <3>5
      <4>2. Untouched(o, c) \/ Taken(o, c) \/ Unlisted(o, c)
        BY <2>6, <4>1, SaveParentFacts
      <4>3. CASE Untouched(o, c)
        BY <4>1, <4>3 DEF Untouched
      <4>4. CASE Taken(o, c)
        BY <3>3, <4>1, <4>4 DEF Taken, Row
      <4>5. CASE Unlisted(o, c)
        BY <3>3, <4>1, <4>5 DEF Unlisted, Deleted, Row
      <4> QED BY <4>2, <4>3, <4>4, <4>5
    <3> QED BY <2>3, <3>4, <3>5
  <2>7. CASE Invalid(o)
    BY <2>3, <2>4, <2>7, InvalidFacts
  <2> QED BY <2>5, <2>6, <2>7 DEF Saved
<1> QED BY <1>6, <1>7

LEMMA SavedInv ==
  ASSUME IInv, NEW o, NEW pk, Saved(o, pk)
  PROVE  IInv'
BY SavedType, SavedPlace, SavedIds, SavedDoneIds, SavedStored, SavedDeleted, SavedHistory, SavedHere, SavedKids
DEF IInv

-----------------------------------------------------------------------------

(* A request that is refused leaves its rows as they were.                 *)
LEMMA RefuseInv ==
  ASSUME IInv, NEW res \in {"refused", "KeyError"}, Refuse(res),
         res = "KeyError" => Planned /\ \E o \in DOMAIN objects : o.id < 0 /\ o \in References(o, objects[o])
  PROVE  IInv'
<1>1. /\ phase' = "end" /\ result' = res /\ rows' = committed
      /\ UNCHANGED <<schema, committed, parents, objects, deletions, deletedIds, order, next, locked, newIds, errors,
                     changes>>
  BY DEF Refuse, End
<1>2. ~Saving' /\ TypeOK /\ StartInv
  BY <1>1 DEF Saving, IInv
<1>3. TypeOK'
  BY <1>1, <1>2 DEF TypeOK
<1>4. OrderP!OrderInv'
  BY <1>1, OrderStep DEF IInv
<1>5. StartInv' /\ LoopInv' /\ IdsInv' /\ DoneIdsInv' /\ StoredInv' /\ HistoryInv' /\ HereInv' /\ KidsInv'
  BY <1>1, <1>2 DEF StartInv, LoopInv, IdsInv, DoneIdsInv, StoredInv, HistoryInv, HereInv, KidsInv
<1>6. PlanInv'
  <2>1. Planned' => Planned
    BY <1>1 DEF Planned
  <2> QED BY <1>1, <2>1 DEF IInv, PlanInv, Claimed, Claiming, Unspecified, order
<1>7. DeletedInv'
  <2>1. \A c \in 1..Children : committed[c] \in Row
    BY <1>2, Names DEF TypeOK
  <2>2. \A c \in 1..Children : committed[c] = [committed[c] EXCEPT !.owner = committed[c].owner]
    BY <2>1 DEF Row
  <2> QED BY <1>1, <2>2 DEF DeletedInv
<1>8. KeyErrorOnlyForItself'
  BY <1>1 DEF KeyErrorOnlyForItself
<1> QED BY <1>3, <1>4, <1>5, <1>6, <1>7, <1>8 DEF IInv

(* An id that is not found in new_id_map is that of the object itself.     *)
LEMMA LookupInv ==
  ASSUME IInv, NEW o, LookupFails(o)
  PROVE  IInv'
<1>1. Turn(o) /\ ~AllKnown(o) /\ Refuse("KeyError")
  BY DEF LookupFails
<1>2. /\ o \in DOMAIN objects /\ given = Dependencies(objects) /\ ~Unspecified(objects)
      /\ given[o] \subseteq Done /\ phase = "save" /\ Saving /\ TypeOK /\ IdsInv
  BY <1>1, TurnFacts DEF IInv
<1>3. o.model = "child" /\ (~Known("parent", objects[o].owner) \/ ~Known("child", objects[o].mate))
  BY <1>1 DEF AllKnown
<1> DEFINE v == objects[o]
<1>4. PICK r : r \in References(o, v) /\ r.id < 0 /\ r \notin DOMAIN newIds
  <2>1. CASE ~Known("parent", v.owner)
    <3>1. v.owner \in Made /\ Parent(v.owner) \notin DOMAIN newIds
      BY <2>1 DEF Known, Parent
    <3>2. Parent(v.owner) \in References(o, v) /\ Parent(v.owner).id < 0
      BY <1>3, <3>1, Names, Objects DEF References
    <3> QED BY <3>1, <3>2
  <2>2. CASE ~Known("child", v.mate)
    <3>1. v.mate \in Made /\ Child(v.mate) \notin DOMAIN newIds
      BY <2>2 DEF Known, Child
    <3>2. Child(v.mate) \in References(o, v) /\ Child(v.mate).id < 0
      BY <1>3, <3>1, Names, Objects DEF References
    <3> QED BY <3>1, <3>2
  <2> QED BY <1>3, <2>1, <2>2
<1>5. r \in DOMAIN objects
  BY <1>2, <1>4 DEF Unspecified
<1>6. r = o
  <2>1. r # o => r \in given[o]
    BY <1>2, <1>4, <1>5 DEF Dependencies
  <2> QED BY <1>2, <1>4, <2>1 DEF IdsInv
<1>7. Planned
  BY <1>2 DEF Planned
<1> QED BY <1>1, <1>2, <1>4, <1>6, <1>7, RefuseInv

-----------------------------------------------------------------------------

LEMMA InitIInv == Init => IInv
<1> SUFFICES ASSUME Init PROVE IInv
  OBVIOUS
<1>1. PICK F \in Families, S \in SUBSET Object :
        /\ S \subseteq F.objects /\ schema = F.schema
        /\ committed \in {r \in [ChildPk -> InitialRow] : \A c \in ChildPk : c > Children => ~r[c].here}
        /\ \E P \in [{o \in S : o.model = "parent"} -> Values(F, "parent")],
              C \in [{o \in S : o.model = "child"} -> Values(F, "child")] :
             objects = [o \in S |-> IF o.model = "parent" THEN P[o] ELSE C[o]]
        /\ deletions \in F.deletions
  BY MultiPutAssumption DEF Init
<1>2. /\ F.kids \subseteq {Absent} \cup SUBSET Key("child")
      /\ F.owners \subseteq {Absent, None} \cup Key("parent")
      /\ F.mates \subseteq {Absent, None} \cup Key("child")
      /\ F.deletions \subseteq SUBSET Key("child")
      /\ F.schema \in [nullable : BOOLEAN, softDelete : BOOLEAN]
  BY MultiPutAssumption
<1>3. DOMAIN objects = S /\ \A o \in S : objects[o] \in ValuesOf(o)
  <2>1. PICK P \in [{o \in S : o.model = "parent"} -> Values(F, "parent")],
             C \in [{o \in S : o.model = "child"} -> Values(F, "child")] :
               objects = [o \in S |-> IF o.model = "parent" THEN P[o] ELSE C[o]]
    BY <1>1
  <2>2. ASSUME NEW o \in S PROVE objects[o] \in ValuesOf(o)
    <3>1. CASE o.model = "parent"
      <4>1. objects[o] \in [kids : F.kids]
        BY <2>1, <3>1 DEF Values
      <4> QED BY <1>2, <3>1, <4>1 DEF ValuesOf
    <3>2. CASE o.model # "parent"
      <4>1. o.model = "child"
        BY <3>2, Objects
      <4>2. objects[o] \in [owner : F.owners, mate : F.mates]
        BY <2>1, <4>1 DEF Values
      <4> QED BY <1>2, <4>1, <4>2 DEF ValuesOf
    <3> QED BY <3>1, <3>2
  <2> QED BY <2>1, <2>2
<1>4. /\ rows = committed /\ parents = 1..Parents /\ given = << >> /\ dependencies = << >>
      /\ ordered = << >> /\ outcome = "running" /\ next = 1 /\ locked = << >> /\ newIds = << >>
      /\ errors = {} /\ changes = << >> /\ phase = "parse" /\ result = "none" /\ deletedIds = {}
  BY DEF Init
<1>5. committed \in [ChildPk -> Row]
      /\ \A c \in ChildPk : /\ committed[c].here \/ committed[c] = Blank
                            /\ committed[c].owner \in 1..Parents \cup {None}
                            /\ c > Children => ~committed[c].here
  BY <1>1 DEF InitialRow
<1>6. TypeOK
  BY <1>1, <1>2, <1>3, <1>4, <1>5, Names DEF TypeOK
<1>7. StartInv
  BY <1>4, <1>5 DEF StartInv
<1>8. OrderP!OrderInv
  <2>1. OrderP!OrderInit
    <3>1. << >> \in [{} -> SUBSET {}]
      OBVIOUS
    <3> QED BY <1>4, <3>1 DEF OrderP!OrderInit, OrderP!IsGraph
  <2> QED BY <2>1, OrderConstants, OrderP!InitInv
<1>9. DeletedInv
  <2>1. \A c \in 1..Children : committed[c] \in Row
    BY <1>5, Names
  <2>2. \A c \in 1..Children : committed[c] = [committed[c] EXCEPT !.owner = committed[c].owner]
    BY <2>1 DEF Row
  <2> QED BY <1>4, <2>2 DEF DeletedInv
<1>10. ~Saving /\ ~Planned /\ phase # "save" /\ result # "KeyError"
  BY <1>4 DEF Saving, Planned
<1>11. DoneIdsInv
  BY <1>4, <1>10 DEF DoneIdsInv
<1> QED
  BY <1>6, <1>7, <1>8, <1>9, <1>10, <1>11
  DEF IInv, PlanInv, LoopInv, IdsInv, StoredInv, HistoryInv, HereInv, KidsInv, KeyErrorOnlyForItself

-----------------------------------------------------------------------------

(* The last parent in the payload that lists a child is one of those.      *)
LEMMA LastClaiming ==
  ASSUME DOMAIN objects \subseteq Object, NEW o \in DOMAIN objects,
         NEW place \in Places({p \in DOMAIN objects : p.model = "parent"}), Claiming(objects, o) # {}
  PROVE  (CHOOSE p \in Claiming(objects, o) : \A q \in Claiming(objects, o) : place[q] <= place[p])
           \in Claiming(objects, o)
<1> DEFINE P == {p \in DOMAIN objects : p.model = "parent"}
           n == Cardinality(P)
           C == Claiming(objects, o)
           Late == {n - place[p] : p \in C}
<1>1. IsFiniteSet(P) /\ n \in Nat
  <2>1. IsFiniteSet(Object)
    BY OrderConstants DEF OrderP!LayeredOrderAssumption, OrderP!IsFiniteSet, IsFiniteSet
  <2>2. IsFiniteSet(P)
    BY <2>1, FS_Subset
  <2> QED BY <2>2, FS_CardinalityType
<1>2. C \subseteq P /\ C # {}
  BY DEF Claiming
<1>3. \A p \in C : place[p] \in 1..n
  BY <1>2 DEF Places
<1> HIDE DEF P, n, C
<1>4. Late \subseteq Nat /\ Late # {}
  BY <1>1, <1>2, <1>3
<1>5. PICK x \in Late : \A y \in Late : ~(<<y, x>> \in OpToRel(<, Nat))
  BY <1>4, NatLessThanWellFounded, WFMin
<1>6. \A y \in Late : ~(y < x)
  BY <1>4, <1>5 DEF OpToRel
<1>7. PICK p \in C : x = n - place[p]
  BY <1>5
<1>8. \A q \in C : place[q] <= place[p]
  <2> SUFFICES ASSUME NEW q \in C PROVE place[q] <= place[p]
    OBVIOUS
  <2>1. n - place[q] \in Late
    OBVIOUS
  <2>2. ~(n - place[q] < n - place[p])
    BY <1>6, <1>7, <2>1
  <2> QED BY <1>1, <1>3, <2>2
<1> QED BY <1>7, <1>8 DEF C

LEMMA CalculateInv ==
  ASSUME IInv, Calculate
  PROVE  IInv'
<1>1. /\ phase = "parse" /\ phase' = "order" /\ result' = result
      /\ UNCHANGED <<database, deletions, deletedIds, ordered, outcome, next, locked, newIds, errors, changes>>
  BY DEF Calculate
<1>2. PICK place \in Places({o \in DOMAIN objects : o.model = "parent"}) :
        /\ ~Unspecified(ForwardRefs(objects, place)) /\ objects' = ForwardRefs(objects, place)
        /\ given' = Dependencies(objects') /\ dependencies' = Dependencies(objects')
  BY DEF Calculate
<1>3. TypeOK /\ StartInv /\ OrderP!OrderInv
  BY DEF IInv
<1>4. rows = committed /\ parents = 1..Parents /\ changes = << >> /\ newIds = << >> /\ errors = {} /\ next = 1
  BY <1>1, <1>3 DEF StartInv
<1>5. DOMAIN objects \subseteq Object /\ DOMAIN objects' = DOMAIN objects
  BY <1>2, <1>3 DEF TypeOK, ForwardRefs
<1> DEFINE last(o) == CHOOSE p \in Claiming(objects, o) : \A q \in Claiming(objects, o) : place[q] <= place[p]
<1>6. \A o \in DOMAIN objects :
        objects'[o] = IF o.model = "child" /\ Claiming(objects, o) # {}
                      THEN [objects[o] EXCEPT !.owner = last(o).id] ELSE objects[o]
  BY <1>2 DEF ForwardRefs
<1>7. \A o \in DOMAIN objects : Claiming(objects, o) # {} =>
        last(o) \in Claiming(objects, o) /\ last(o) \in DOMAIN objects /\ last(o).model = "parent"
  BY <1>5, LastClaiming DEF Claiming
<1>8. \A o : Claiming(objects, o)' = Claiming(objects, o)
  <2>1. \A p \in DOMAIN objects : p.model = "parent" => objects'[p] = objects[p]
    BY <1>6
  <2> QED BY <1>5, <2>1 DEF Claiming
<1>9. ASSUME NEW o \in DOMAIN objects PROVE objects'[o] \in ValuesOf(o)
  <2>1. objects[o] \in ValuesOf(o)
    BY <1>3 DEF TypeOK
  <2>2. CASE o.model = "child" /\ Claiming(objects, o) # {}
    <3>1. last(o).id \in Key("parent")
      BY <1>5, <1>7, <2>2, Objects
    <3> HIDE DEF last
    <3>2. objects'[o] = [objects[o] EXCEPT !.owner = last(o).id]
      BY <1>6, <2>2
    <3> QED BY <2>1, <2>2, <3>1, <3>2 DEF ValuesOf
  <2>3. CASE ~(o.model = "child" /\ Claiming(objects, o) # {})
    BY <1>6, <2>1, <2>3
  <2> QED BY <2>2, <2>3
<1>10. TypeOK'
  BY <1>1, <1>3, <1>4, <1>5, <1>9 DEF TypeOK, database
<1>11. StartInv'
  BY <1>1, <1>3, <1>4 DEF StartInv, database
<1>12. Claimed'
  <2> SUFFICES ASSUME NEW o \in DOMAIN objects, o.model = "child", Claiming(objects, o) # {}
               PROVE  Parent(objects'[o].owner) \in Claiming(objects, o)
    BY <1>5, <1>8 DEF Claimed
  <2>1. objects[o] \in ValuesOf(o)
    BY <1>3 DEF TypeOK
  <2>2. last(o) \in Claiming(objects, o) /\ Parent(last(o).id) = last(o)
    BY <1>5, <1>7, Objects
  <2> HIDE DEF last
  <2>3. objects'[o].owner = last(o).id
    BY <1>6, <2>1 DEF ValuesOf
  <2> QED BY <2>2, <2>3
<1>13. PlanInv'
  <2>1. ~Unspecified(objects)'
    BY <1>2 DEF Unspecified
  <2>2. given' = Dependencies(objects)'
    BY <1>2 DEF Dependencies, References
  <2> QED BY <1>12, <2>1, <2>2 DEF PlanInv
<1>14. OrderP!OrderInv'
  <2> DEFINE g == given'
  <2>1. /\ DOMAIN g = DOMAIN objects /\ dependencies' = g /\ g = [o \in DOMAIN objects |-> g[o]]
        /\ \A o \in DOMAIN objects : g[o] \subseteq DOMAIN objects /\ o \notin g[o]
    BY <1>2, <1>5 DEF Dependencies
  <2>2. OrderP!IsGraph(g)
    <3> HIDE DEF g
    <3> QED BY <1>5, <2>1 DEF OrderP!IsGraph
  <2>3. outcome' = "running" /\ ordered' = << >>
    BY <1>1, <1>3 DEF StartInv
  <2> QED
    BY <2>1, <2>2, <2>3
    DEF OrderP!OrderInv, OrderP!Split, OrderP!Waiting, OrderP!NoRepeat, OrderP!RootsFirst,
      OrderP!DependenciesFirst, OrderP!Outcomes, OrderP!Listed, OrderP!IsGraph
<1>15. DeletedInv'
  <2>1. \A c \in 1..Children : committed[c] \in Row
    BY <1>3, Names DEF TypeOK
  <2>2. \A c \in 1..Children : committed[c] = [committed[c] EXCEPT !.owner = committed[c].owner]
    BY <2>1 DEF Row
  <2> QED BY <1>1, <1>4, <2>2 DEF DeletedInv, database
<1>16. ~Saving' /\ phase' # "save" /\ result' # "KeyError"
  BY <1>1, <1>3 DEF Saving, TypeOK
<1>17. DoneIdsInv'
  BY <1>1, <1>3, <1>16 DEF IInv, DoneIdsInv, TypeOK
<1> QED
  BY <1>10, <1>11, <1>13, <1>14, <1>15, <1>16, <1>17
  DEF IInv, LoopInv, IdsInv, StoredInv, HistoryInv, HereInv, KidsInv, KeyErrorOnlyForItself

LEMMA OrderObjectsInv ==
  ASSUME IInv, OrderObjects
  PROVE  IInv'
<1>1. /\ phase = "order" /\ Order!OrderNext
      /\ UNCHANGED <<database, objects, deletions, deletedIds, next, locked, newIds, errors, changes, phase, result>>
  BY DEF OrderObjects
<1>2. OrderP!OrderInv'
  BY <1>1, OrderStep DEF IInv
<1>3. given' = given
  BY <1>1 DEF Order!OrderNext, Order!AppendLayer, Order!ReportCycle, Order!ReturnOrdered
<1>4. TypeOK'
  BY <1>1 DEF IInv, TypeOK, database
<1>5. StartInv'
  BY <1>1 DEF IInv, StartInv, database
<1>6. PlanInv'
  BY <1>1, <1>3 DEF IInv, PlanInv, Planned, Claimed, Claiming, Unspecified
<1>7. DeletedInv'
  BY <1>1 DEF IInv, DeletedInv, database, Claiming
<1>8. ~Saving' /\ phase' # "save" /\ result' # "KeyError"
  BY <1>1 DEF IInv, TypeOK, Saving
<1>9. DoneIdsInv'
  BY <1>1, <1>8 DEF IInv, DoneIdsInv, TypeOK
<1> QED
  BY <1>2, <1>4, <1>5, <1>6, <1>7, <1>8, <1>9
  DEF IInv, LoopInv, IdsInv, StoredInv, HistoryInv, HereInv, KidsInv, KeyErrorOnlyForItself

(* The rows that the loop begins with.                                     *)
LEMMA LockObjectsInv ==
  ASSUME IInv, LockObjects
  PROVE  IInv'
<1>1. /\ phase = "order" /\ outcome = "ordered" /\ phase' = "save" /\ result' = result
      /\ locked' = [c \in {n \in 1..Children : Child(n) \in DOMAIN objects /\ rows[n].here} |-> rows[c]]
      /\ UNCHANGED <<database, objects, deletions, deletedIds, order, next, newIds, errors, changes>>
  BY DEF LockObjects
<1>2. TypeOK /\ StartInv /\ OrderP!OrderInv /\ PlanInv
  BY DEF IInv
<1>3. rows = committed /\ parents = 1..Parents /\ changes = << >> /\ newIds = << >> /\ errors = {} /\ next = 1
  BY <1>1, <1>2 DEF StartInv
<1>4. Done' = {}
  BY <1>1, <1>3 DEF Done
<1>5. TypeOK'
  BY <1>1, <1>2 DEF TypeOK, database
<1>6. OrderP!OrderInv'
  BY <1>1, <1>2, OrderStep
<1>7. StartInv'
  BY <1>1, <1>2 DEF StartInv, database
<1>8. PlanInv'
  BY <1>1, <1>2 DEF PlanInv, Planned, Claimed, Claiming, Unspecified, order
<1>9. LoopInv'
  <2>1. ordered \in Seq(Object)
    BY <1>2 DEF OrderP!OrderInv
  <2>2. next <= Len(ordered) + 1
    BY <1>3, <2>1
  <2> QED BY <1>1, <1>3, <2>2 DEF LoopInv, database, order
<1>10. IdsInv'
  <2>1. ASSUME NEW c \in ChildPk \ HandedOut("child")' PROVE rows'[c] = Blank
    <3>1. c \notin 1..Children
      BY <2>1 DEF HandedOut
    <3>2. c > Children
      BY <2>1, <3>1, Names DEF ChildPk
    <3> QED BY <1>1, <1>2, <1>3, <2>1, <3>2 DEF StartInv, database
  <2> QED BY <1>1, <1>3, <1>4, <2>1 DEF IdsInv
<1>11. StoredInv' /\ KidsInv'
  BY <1>4 DEF StoredInv, KidsInv
<1>12. DeletedInv'
  BY <1>1 DEF IInv, DeletedInv, database, Claiming
<1>13. HereInv'
  BY <1>1, <1>3 DEF HereInv, database
<1>14. HistoryInv'
  <2> SUFFICES ASSUME NEW c \in ChildPk PROVE HistoryOf(c)' /\ Unsaved(c)'
    BY DEF HistoryInv
  <2>1. rows' = committed' /\ changes' = << >>
    BY <1>1, <1>3 DEF database
  <2> QED BY <2>1 DEF HistoryOf, Unsaved
<1>15. KeyErrorOnlyForItself'
  BY <1>1, <1>2 DEF KeyErrorOnlyForItself, TypeOK
<1>16. DoneIdsInv'
  BY <1>1, <1>2, <1>4 DEF IInv, DoneIdsInv, TypeOK
<1> QED
  BY <1>5, <1>6, <1>7, <1>8, <1>9, <1>10, <1>11, <1>12, <1>13, <1>14, <1>15, <1>16 DEF IInv

LEMMA SavedAllInv ==
  ASSUME IInv, SavedAll
  PROVE  IInv'
<1>1. CASE errors # {}
  <2>1. Refuse("refused")
    BY <1>1 DEF SavedAll
  <2> QED BY <2>1, RefuseInv
<1>2. CASE errors = {}
  <2>1. /\ phase = "save" /\ phase' = "delete" /\ next > Len(ordered)
        /\ UNCHANGED <<database, objects, deletions, deletedIds, order, next, locked, newIds, errors, changes, result>>
    BY <1>2 DEF SavedAll
  <2>2. Saving /\ Saving' /\ Planned
    BY <2>1 DEF Saving, Planned
  <2>3. OrderP!OrderInv'
    BY <2>1, OrderStep DEF IInv
  <2>4. TypeOK' /\ StartInv'
    BY <2>1 DEF IInv, TypeOK, StartInv, database
  <2>5. PlanInv'
    BY <2>1, <2>2 DEF IInv, PlanInv, Claimed, Claiming, Unspecified, order
  <2>6. LoopInv'
    BY <1>2, <2>1, <2>2 DEF IInv, LoopInv, database, order
  <2>7. Done' = Done
    BY <2>1 DEF Done, order
  <2>8. IdsInv'
    BY <2>1, <2>2, <2>7 DEF IInv, IdsInv, database
  <2>9. StoredInv'
    <3>1. ASSUME NEW q, Stored(q) PROVE Stored(q)'
      BY <2>1, <3>1 DEF Stored, Pk, Known, Real, database
    <3> QED BY <2>1, <2>2, <2>7, <3>1 DEF IInv, StoredInv
  <2>10. DeletedInv'
    BY <2>1 DEF IInv, DeletedInv, database, Claiming
  <2>11. HistoryInv' /\ HereInv'
    BY <2>1, <2>2 DEF IInv, HistoryInv, HereInv, HistoryOf, SaidTwice, database
  <2>12. KidsInv'
    BY <2>1, <2>2, <2>7 DEF IInv, KidsInv, KidsOf, Lenient, Claiming, Pk, database
  <2>13. KeyErrorOnlyForItself'
    BY <2>1 DEF IInv, KeyErrorOnlyForItself
  <2>14. DoneIdsInv'
    BY <2>1, <2>2, <2>7 DEF IInv, TypeOK, IdsInv, DoneIdsInv
  <2> QED
    BY <2>3, <2>4, <2>5, <2>6, <2>8, <2>9, <2>10, <2>11, <2>12, <2>13, <2>14 DEF IInv
<1> QED BY <1>1, <1>2

LEMMA CommitInv ==
  ASSUME IInv, Commit
  PROVE  IInv'
<1>1. /\ phase = "delete" /\ phase' = "end" /\ result' = "ok" /\ deletedIds = deletions
      /\ UNCHANGED <<database, objects, deletions, deletedIds, order, next, locked, newIds, errors, changes>>
  BY DEF Commit, End
<1>2. Saving /\ Saving' /\ Planned
  BY <1>1 DEF Saving, Planned
<1>3. OrderP!OrderInv'
  BY <1>1, OrderStep DEF IInv
<1>4. TypeOK' /\ StartInv'
  BY <1>1 DEF IInv, TypeOK, StartInv, database
<1>5. PlanInv'
  BY <1>1, <1>2 DEF IInv, PlanInv, Claimed, Claiming, Unspecified, order
<1>6. LoopInv'
  BY <1>1, <1>2 DEF IInv, LoopInv, database, order
<1>7. Done' = Done
  BY <1>1 DEF Done, order
<1>8. IdsInv'
  BY <1>1, <1>2, <1>7 DEF IInv, IdsInv, database
<1>9. StoredInv'
  <2>1. ASSUME NEW q, Stored(q) PROVE Stored(q)'
    BY <1>1, <2>1 DEF Stored, Pk, Known, Real, database
  <2> QED BY <1>1, <1>2, <1>7, <2>1 DEF IInv, StoredInv
<1>10. DeletedInv'
  BY <1>1 DEF IInv, DeletedInv, database, Claiming
<1>11. HistoryInv' /\ HereInv'
  BY <1>1, <1>2 DEF IInv, HistoryInv, HereInv, HistoryOf, SaidTwice, database
<1>12. KidsInv'
  BY <1>1, <1>2, <1>7 DEF IInv, KidsInv, KidsOf, Lenient, Claiming, Pk, database
<1>13. KeyErrorOnlyForItself'
  BY <1>1 DEF KeyErrorOnlyForItself
<1>14. DoneIdsInv'
  BY <1>1, <1>2, <1>7 DEF IInv, DoneIdsInv
<1> QED
  BY <1>3, <1>4, <1>5, <1>6, <1>8, <1>9, <1>10, <1>11, <1>12, <1>13, <1>14 DEF IInv


(* Once the loop is over, all objects of the payload were answered.        *)
LEMMA SavingFacts ==
  ASSUME IInv, Saving
  PROVE  /\ TypeOK /\ StartInv /\ LoopInv /\ IdsInv
         /\ given = Dependencies(objects) /\ Claimed
         /\ Done \subseteq DOMAIN objects
         /\ phase # "save" => errors = {} /\ Done = DOMAIN objects
<1>1. Planned /\ TypeOK /\ StartInv /\ LoopInv /\ IdsInv
  BY DEF Planned, Saving, IInv
<1>2. given = Dependencies(objects) /\ Claimed
  BY <1>1 DEF IInv, PlanInv
<1>3. outcome = "ordered" /\ next <= Len(ordered) + 1 /\ next \in Nat \ {0}
  BY <1>1 DEF LoopInv, TypeOK
<1>4. DOMAIN given = DOMAIN objects
  BY <1>2 DEF Dependencies
<1>5. ordered \in Seq(Object) /\ OrderP!Listed = DOMAIN objects
  BY <1>3, <1>4 DEF IInv, OrderP!OrderInv, OrderP!Outcomes, OrderP!Split
<1>6. DOMAIN ordered = 1..Len(ordered) /\ Len(ordered) \in Nat
  BY <1>5
<1>7. 1..(next - 1) \subseteq DOMAIN ordered
  BY <1>3, <1>6
<1>8. Done \subseteq DOMAIN objects
  BY <1>5, <1>7 DEF Done, OrderP!Listed
<1>9. ASSUME phase # "save" PROVE errors = {} /\ Done = DOMAIN objects
  <2>1. errors = {} /\ next > Len(ordered)
    BY <1>1, <1>9 DEF LoopInv
  <2>2. 1..(next - 1) = DOMAIN ordered
    BY <1>3, <1>6, <2>1
  <2> QED BY <1>5, <2>1, <2>2 DEF Done, OrderP!Listed
<1> QED BY <1>1, <1>2, <1>8, <1>9

(* A deletion takes one row away and leaves what its keys refer to.        *)
LEMMA DeleteFacts ==
  ASSUME IInv, NEW n \in Key("child"), Delete(n)
  PROVE  LET pk == Real("child", n) IN
         /\ phase = "delete" /\ n \in deletions /\ Known("child", n)
         /\ pk \in ChildPk /\ ~rows[pk].deleted
         /\ n \in Made => Child(n) \in DOMAIN newIds /\ pk = newIds[Child(n)]
         /\ ~(n \in Made) => pk \in 1..Children
         /\ rows' \in [ChildPk -> Row]
         /\ \A c \in ChildPk : /\ c # pk => rows'[c] = rows[c]
                               /\ rows'[c].owner = rows[c].owner /\ rows'[c].mate = rows[c].mate
                               /\ rows'[c].here => rows[c].here
                               /\ ~rows'[c].deleted => ~rows[c].deleted
<1> DEFINE pk == Real("child", n)
<1>1. /\ phase = "delete" /\ n \in deletions /\ Known("child", n) /\ ~rows[pk].deleted
      /\ rows' = [rows EXCEPT ![pk] = Deleted(rows[pk])]
  BY DEF Delete
<1>2. TypeOK /\ LoopInv /\ IdsInv /\ Saving
  BY <1>1 DEF IInv, Saving
<1>3. n \in Made => Child(n) \in DOMAIN newIds /\ pk = newIds[Child(n)]
  BY <1>1 DEF Known, Real, Child
<1>4. n \in Made => newIds[Child(n)] \in ChildPk
  <2>1. errors = {}
    BY <1>1, <1>2 DEF LoopInv
  <2> QED BY <1>2, <1>3, <2>1, Objects DEF IdsInv, TypeOK, NewKey
<1>5. ~(n \in Made) => pk \in 1..Children
  BY DEF Real, Key
<1>6. pk \in ChildPk
  BY <1>3, <1>4, <1>5, Names
<1> HIDE DEF pk
<1>7. rows \in [ChildPk -> Row] /\ rows[pk] \in Row
  BY <1>2, <1>6 DEF TypeOK
<1>8. PICK r \in Row : r = rows[pk]
  BY <1>7
<1>9. /\ Deleted(r) \in Row /\ Deleted(r).owner = r.owner /\ Deleted(r).mate = r.mate
      /\ Deleted(r).here => r.here
      /\ ~Deleted(r).deleted => ~r.deleted
  <2>1. PICK h \in BOOLEAN, d \in BOOLEAN, a \in ParentPk \cup {None}, b \in ChildPk \cup {None} :
          r = [here |-> h, owner |-> a, mate |-> b, deleted |-> d]
    BY DEF Row
  <2>2. PICK f \in BOOLEAN, t \in BOOLEAN : ~f /\ t /\ f = FALSE /\ t = TRUE
    OBVIOUS
  <2>3. Deleted(r) = IF schema.softDelete THEN [r EXCEPT !.deleted = t] ELSE [r EXCEPT !.here = f]
    BY <2>2 DEF Deleted
  <2>4. CASE schema.softDelete
    <3>1. Deleted(r) = [r EXCEPT !.deleted = t]
      BY <2>3, <2>4
    <3> QED BY <2>2, <3>1 DEF Row
  <2>5. CASE ~schema.softDelete
    <3>1. Deleted(r) = [r EXCEPT !.here = f]
      BY <2>3, <2>5
    <3> QED BY <2>2, <3>1 DEF Row
  <2> QED BY <2>4, <2>5
<1>10. rows' = [rows EXCEPT ![pk] = Deleted(r)]
  BY <1>1, <1>8
<1>11. rows' \in [ChildPk -> Row]
  BY <1>6, <1>7, <1>9, <1>10
<1>12. \A c \in ChildPk : rows'[c] = IF c = pk THEN Deleted(r) ELSE rows[c]
  BY <1>7, <1>10
<1> QED
  BY <1>1, <1>3, <1>5, <1>6, <1>8, <1>9, <1>11, <1>12 DEF pk

LEMMA DeleteInv ==
  ASSUME IInv, NEW n \in Key("child"), Delete(n)
  PROVE  IInv'
<1>1. PICK pk \in ChildPk :
        /\ phase = "delete" /\ n \in deletions /\ Known("child", n) /\ ~rows[pk].deleted
        /\ n \in Made => Child(n) \in DOMAIN newIds /\ pk = newIds[Child(n)]
        /\ ~(n \in Made) => pk \in 1..Children
        /\ rows' \in [ChildPk -> Row]
        /\ \A c \in ChildPk : /\ c # pk => rows'[c] = rows[c]
                              /\ rows'[c].owner = rows[c].owner /\ rows'[c].mate = rows[c].mate
                              /\ rows'[c].here => rows[c].here
                              /\ ~rows'[c].deleted => ~rows[c].deleted
  BY DeleteFacts
<1>2. /\ changes' = Recorded(rows, rows') /\ deletedIds' = deletedIds \cup {n}
      /\ newIds' = [o \in DOMAIN newIds \ {Child(n)} |-> newIds[o]]
      /\ UNCHANGED <<schema, committed, parents, objects, deletions, order, next, locked, errors, phase, result>>
  BY DEF Delete
<1>3. /\ Saving /\ Saving' /\ Planned /\ phase' = "delete" /\ Done' = Done
      /\ TypeOK /\ StartInv /\ IdsInv /\ LoopInv /\ errors = {}
  <2>1. Saving /\ Saving' /\ Planned
    BY <1>1, <1>2 DEF Saving, Planned
  <2>2. Done' = Done
    BY <1>2 DEF Done, order
  <2>3. TypeOK /\ StartInv /\ IdsInv /\ LoopInv
    BY DEF IInv
  <2> QED BY <1>1, <1>2, <2>1, <2>2, <2>3 DEF LoopInv
<1>4. /\ DOMAIN newIds' = DOMAIN newIds \ {Child(n)} /\ Child(n).model = "child"
      /\ \A o \in DOMAIN newIds' : newIds'[o] = newIds[o]
  BY <1>2, Objects
<1>5. /\ \A m, i : Known(m, i)' => Known(m, i) /\ Real(m, i)' = Real(m, i)
      /\ \A q : ~(q.id < 0) \/ q \in DOMAIN newIds' => Pk(q)' = Pk(q)
      /\ \A i : Known("parent", i) => Known("parent", i)'
  <2>1. ASSUME NEW m, NEW i, Known(m, i)' PROVE Known(m, i) /\ Real(m, i)' = Real(m, i)
    BY <1>4, <2>1 DEF Known, Real
  <2>2. ASSUME NEW q, ~(q.id < 0) \/ q \in DOMAIN newIds' PROVE Pk(q)' = Pk(q)
    BY <1>4, <2>2 DEF Pk
  <2>3. ASSUME NEW i, Known("parent", i) PROVE Known("parent", i)'
    <3>1. Parent(i) # Child(n)
      BY Objects
    <3> QED BY <1>4, <2>3, <3>1 DEF Known, Parent
  <2> QED BY <2>1, <2>2, <2>3
<1>6. TypeOK'
  BY <1>1, <1>2, <1>3, <1>4, RecordedType DEF TypeOK
<1>7. OrderP!OrderInv'
  BY <1>2, OrderStep DEF IInv
<1>8. StartInv' /\ LoopInv'
  BY <1>1, <1>2, <1>3 DEF StartInv, LoopInv, order
<1>9. PlanInv'
  BY <1>2, <1>3 DEF IInv, PlanInv, Claimed, Claiming, Unspecified, order
<1>10. IdsInv'
  <2>1. \A q \in Done' : q.id < 0 /\ q.model = "parent" => q \in DOMAIN newIds'
    BY <1>3, <1>4 DEF IdsInv
  <2>2. \A o \in DOMAIN newIds' : o.model = "parent" /\ newIds'[o] # None => newIds'[o] \in parents'
    BY <1>2, <1>3, <1>4 DEF IdsInv
  <2>3. \A o, q \in DOMAIN newIds' :
          newIds'[o] = newIds'[q] /\ newIds'[o] # None /\ o.model = q.model => o = q
    BY <1>3, <1>4 DEF IdsInv
  <2>4. \A o \in DOMAIN newIds' : newIds'[o] = None => o \in errors'
    BY <1>2, <1>3, <1>4 DEF IdsInv
  <2>5. DOMAIN newIds' \subseteq Done' /\ phase' # "save"
    BY <1>3, <1>4 DEF IdsInv
  <2> QED BY <2>1, <2>2, <2>3, <2>4, <2>5 DEF IdsInv
<1>11. StoredInv'
  <2> SUFFICES ASSUME NEW q \in Done, q.model = "child", q.id < 0 => q \in DOMAIN newIds'
               PROVE  Stored(q)'
    BY <1>2, <1>3 DEF StoredInv
  <2>1. Stored(q) /\ Pk(q)' = Pk(q) /\ q \in Object /\ q \in DOMAIN objects
    <3>1. q.id < 0 => q \in DOMAIN newIds
      BY <1>4
    <3>2. q \in Done \ errors
      BY <1>3
    <3>3. Stored(q)
      BY <1>3, <3>1, <3>2 DEF IInv, StoredInv
    <3>4. q \in DOMAIN objects
      BY <1>3, SavingFacts
    <3> QED BY <1>3, <1>5, <3>3, <3>4, Objects DEF TypeOK
  <2>2. Pk(q) \in ChildPk
    <3>1. CASE q.id < 0
      BY <1>3, <1>4, <2>1, <3>1 DEF Pk, TypeOK, IdsInv, NewKey
    <3>2. CASE ~(q.id < 0)
      <4>1. q.id \in Key("child") /\ q.id \notin Made
        BY <2>1, <3>2, Objects, Names
      <4> QED BY <3>2, <4>1, Names DEF Pk, Key
    <3> QED BY <3>1, <3>2
  <2>3. q.id < 0 => Pk(q) # pk
    <3> SUFFICES ASSUME q.id < 0 PROVE newIds[q] # pk
      BY DEF Pk
    <3>1. q \in DOMAIN newIds /\ q # Child(n) /\ newIds[q] \in NewKey("child") /\ newIds[q] # None
      BY <1>3, <1>4 DEF TypeOK, IdsInv
    <3>2. CASE n \in Made
      BY <1>1, <1>3, <1>4, <3>1, <3>2 DEF IdsInv
    <3>3. CASE ~(n \in Made)
      BY <1>1, <3>1, <3>3 DEF NewKey
    <3> QED BY <3>2, <3>3
  <2>4. /\ rows'[Pk(q)].owner = rows[Pk(q)].owner /\ rows'[Pk(q)].mate = rows[Pk(q)].mate
        /\ q.id < 0 => rows'[Pk(q)] = rows[Pk(q)]
    BY <1>1, <2>2, <2>3
  <2> DEFINE v == objects[q]
  <2>5. v.owner # Absent => Known("parent", v.owner)' /\ rows'[Pk(q)].owner = Real("parent", v.owner)'
    BY <1>2, <1>5, <2>1, <2>4 DEF Stored
  <2>6. v.mate # Absent /\ Known("child", v.mate)' => rows'[Pk(q)].mate = Real("child", v.mate)'
    BY <1>2, <1>5, <2>1, <2>4 DEF Stored
  <2>7. q.id < 0 => /\ rows'[Pk(q)].here /\ ~rows'[Pk(q)].deleted
                    /\ v.owner = Absent => rows'[Pk(q)].owner = None
    BY <2>1, <2>4 DEF Stored
  <2> QED BY <1>2, <1>3, <2>1, <2>5, <2>6, <2>7 DEF Stored
<1>12. DeletedInv'
  <2> SUFFICES ASSUME NEW c \in 1..Children, committed[c].deleted
               PROVE  /\ rows'[c] = [committed[c] EXCEPT !.owner = rows'[c].owner]
                      /\ Claiming(objects, Child(c)) = {} => rows'[c] = committed[c]
    BY <1>2 DEF DeletedInv, Claiming
  <2>1. /\ rows[c] = [committed[c] EXCEPT !.owner = rows[c].owner]
        /\ Claiming(objects, Child(c)) = {} => rows[c] = committed[c]
    BY DEF IInv, DeletedInv
  <2>2. c \in ChildPk /\ committed[c] \in Row
    BY <1>3, Names DEF TypeOK
  <2>3. rows[c].deleted = committed[c].deleted
    <3>1. PICK a : rows[c] = [committed[c] EXCEPT !.owner = a]
      BY <2>1
    <3> QED BY <2>2, <3>1 DEF Row
  <2>4. c # pk
    BY <1>1, <2>3
  <2> QED BY <1>1, <2>1, <2>2, <2>4
<1>13. HistoryInv'
  <2> SUFFICES ASSUME NEW c \in ChildPk, ~SaidTwice(c) PROVE HistoryOf(c)'
    BY <1>2, <1>3 DEF HistoryInv, SaidTwice
  <2>1. HistoryOf(c)
    BY <1>3 DEF IInv, HistoryInv
  <2> QED BY <1>2, <1>3, <2>1, HistoryStep
<1>14. HereInv' /\ KeyErrorOnlyForItself'
  BY <1>1, <1>2, <1>3 DEF HereInv, KeyErrorOnlyForItself, TypeOK
<1>15. KidsInv'
  <2> SUFFICES ASSUME NEW p \in Done \ errors, p.model = "parent", objects[p].kids # Absent
               PROVE  KidsOf(p)'
    BY <1>2, <1>3 DEF KidsInv
  <2>1. KidsOf(p) /\ p \in DOMAIN objects
    <3>1. p \in DOMAIN objects
      BY <1>3, SavingFacts
    <3> QED BY <1>3, <3>1 DEF IInv, KidsInv
  <2>2. Pk(p)' = Pk(p)
    BY <1>3, <1>4, <1>5 DEF IdsInv
  <2>3. objects[p].kids \in SUBSET Key("child")
    <3>1. objects[p] \in ValuesOf(p)
      BY <1>3, <2>1 DEF TypeOK
    <3> QED BY <3>1 DEF ValuesOf
  <2>4. \A k \in objects[p].kids : k > 0 => k \in ChildPk
    BY <2>3, Names
  <2>5. \A c \in 1..Children : c \in ChildPk
    BY Names
  <2> QED BY <1>1, <1>2, <2>1, <2>2, <2>4, <2>5 DEF KidsOf, Lenient, Claiming
<1>16. DoneIdsInv'
  <2>1. result' # "ok"
    BY <1>2, <1>3, <1>1 DEF TypeOK
  <2>2. ASSUME NEW o \in Done, o.id < 0
        PROVE  o \in DOMAIN newIds' <=> ~(o.model = "child" /\ o.id \in deletedIds')
    <3>1. o \in DOMAIN newIds <=> ~(o.model = "child" /\ o.id \in deletedIds)
      BY <1>3, <2>2 DEF IInv, DoneIdsInv
    <3>2. o \in Object
      BY <1>3, SavingFacts DEF TypeOK
    <3>3. o = Child(n) <=> o.model = "child" /\ o.id = n
      BY <3>2, Objects
    <3> QED BY <1>2, <1>4, <3>1, <3>3
  <2> QED BY <1>3, <2>1, <2>2 DEF DoneIdsInv
<1> QED
  BY <1>6, <1>7, <1>8, <1>9, <1>10, <1>11, <1>12, <1>13, <1>14, <1>15, <1>16 DEF IInv

-----------------------------------------------------------------------------

LEMMA StutterInv ==
  ASSUME IInv, UNCHANGED vars
  PROVE  IInv'
<1>1. UNCHANGED <<schema, committed, rows, parents, objects, deletions, deletedIds, order, next, locked, newIds, errors,
                  changes, phase, result>>
  BY DEF vars, database
<1>2. UNCHANGED <<given, dependencies, ordered, outcome>>
  BY <1>1 DEF order
<1>3. OrderP!OrderInv'
  BY <1>1, OrderStep DEF IInv
<1>4. TypeOK' /\ StartInv'
  BY <1>1, <1>2 DEF IInv, TypeOK, StartInv
<1>5. Saving' = Saving /\ Planned' = Planned /\ Done' = Done
  BY <1>1, <1>2 DEF Saving, Planned, Done
<1>6. PlanInv' /\ LoopInv' /\ IdsInv'
  BY <1>1, <1>2, <1>5
  DEF IInv, PlanInv, Claimed, Claiming, Unspecified, Dependencies, LoopInv, IdsInv, HandedOut
<1>7. StoredInv'
  <2>1. ASSUME NEW q, Stored(q) PROVE Stored(q)'
    BY <1>1, <2>1 DEF Stored, Pk, Known, Real
  <2> QED BY <1>1, <1>5, <2>1 DEF IInv, StoredInv
<1>8. DeletedInv'
  BY <1>1 DEF IInv, DeletedInv, Claiming
<1>9. HistoryInv' /\ HereInv'
  <2>1. ASSUME NEW c, Unsaved(c) PROVE Unsaved(c)'
    BY <1>1, <1>5, <2>1 DEF Unsaved, Known, Real
  <2>2. \A c : HistoryOf(c)' = HistoryOf(c) /\ SaidTwice(c)' = SaidTwice(c)
    BY <1>1 DEF HistoryOf, SaidTwice
  <2> QED BY <1>1, <1>5, <2>1, <2>2 DEF IInv, HistoryInv, HereInv, Lenient
<1>10. KidsInv'
  BY <1>1, <1>5 DEF IInv, KidsInv, KidsOf, Lenient, Claiming, Pk
<1>11. KeyErrorOnlyForItself'
  BY <1>1 DEF IInv, KeyErrorOnlyForItself
<1>12. DoneIdsInv'
  BY <1>1, <1>5 DEF IInv, DoneIdsInv
<1> QED
  BY <1>3, <1>4, <1>6, <1>7, <1>8, <1>9, <1>10, <1>11, <1>12 DEF IInv

(* Every step of the request, refused or not, keeps the invariant.         *)
LEMMA NextInv ==
  ASSUME IInv, [Next]_vars
  PROVE  IInv'
<1>1. CASE Calculate
  BY <1>1, CalculateInv
<1>2. CASE RefuseUnspecified \/ RefuseCycle
  <2>1. Refuse("refused")
    BY <1>2 DEF RefuseUnspecified, RefuseCycle
  <2> QED BY <2>1, RefuseInv
<1>3. CASE OrderObjects
  BY <1>3, OrderObjectsInv
<1>4. CASE LockObjects
  BY <1>4, LockObjectsInv
<1>5. CASE SaveNext
  <2>1. PICK o \in Object : SaveChild(o) \/ SaveParent(o) \/ Invalid(o) \/ RefuseObject(o) \/ LookupFails(o)
    BY <1>5 DEF SaveNext
  <2>2. CASE SaveChild(o)
    <3>1. Saved(o, ChildKey(o))
      BY <2>2 DEF Saved
    <3> QED BY <3>1, SavedInv
  <2>3. CASE SaveParent(o)
    <3>1. Saved(o, ParentKey(o))
      BY <2>3 DEF Saved
    <3> QED BY <3>1, SavedInv
  <2>4. CASE Invalid(o)
    <3>1. Saved(o, None)
      BY <2>4 DEF Saved
    <3> QED BY <3>1, SavedInv
  <2>5. CASE RefuseObject(o)
    <3>1. Refuse("refused")
      BY <2>5 DEF RefuseObject
    <3> QED BY <3>1, RefuseInv
  <2>6. CASE LookupFails(o)
    BY <2>6, LookupInv
  <2> QED BY <2>1, <2>2, <2>3, <2>4, <2>5, <2>6
<1>6. CASE SavedAll
  BY <1>6, SavedAllInv
<1>7. CASE DeleteNext
  <2>1. PICK n \in Key("child") : Delete(n) \/ RefuseDeletion(n)
    BY <1>7 DEF DeleteNext
  <2>2. CASE Delete(n)
    BY <2>2, DeleteInv
  <2>3. CASE RefuseDeletion(n)
    <3>1. Refuse("refused")
      BY <2>3 DEF RefuseDeletion
    <3> QED BY <3>1, RefuseInv
  <2> QED BY <2>1, <2>2, <2>3
<1>8. CASE Commit
  BY <1>8, CommitInv
<1>9. CASE UNCHANGED vars
  BY <1>9, StutterInv
<1> QED
  BY <1>1, <1>2, <1>3, <1>4, <1>5, <1>6, <1>7, <1>8, <1>9 DEF Next

LEMMA Invariant == Spec => []IInv
<1>1. Init => IInv
  BY InitIInv
<1>2. IInv /\ [Next]_vars => IInv'
  BY NextInv
<1> QED BY <1>1, <1>2, PTL DEF Spec

(* No step changes what the model of the child allows.                     *)
LEMMA SchemaStays ==
  ASSUME [Next]_vars
  PROVE  Lenient' = Lenient
<1>1. schema' = schema
  <2>1. \A res : Refuse(res) => schema' = schema
    BY DEF Refuse
  <2>2. \A o, pk : Answered(o, pk) => schema' = schema
    BY DEF Answered
  <2>3. CASE Calculate \/ RefuseUnspecified \/ OrderObjects \/ RefuseCycle \/ LockObjects
    BY <2>1, <2>3
    DEF Calculate, RefuseUnspecified, OrderObjects, RefuseCycle, LockObjects, database
  <2>4. CASE SaveNext
    BY <2>1, <2>2, <2>4 DEF SaveNext, SaveChild, SaveParent, Invalid, RefuseObject, LookupFails
  <2>5. CASE SavedAll \/ DeleteNext \/ Commit
    BY <2>1, <2>5 DEF SavedAll, DeleteNext, Delete, RefuseDeletion, Commit, database
  <2>6. CASE UNCHANGED vars
    BY <2>6 DEF vars, database
  <2> QED BY <2>3, <2>4, <2>5, <2>6 DEF Next
<1> QED BY <1>1 DEF Lenient

-----------------------------------------------------------------------------

(* How a request ends that is answered without an error.                   *)
LEMMA EndFacts ==
  ASSUME IInv, result = "ok"
  PROVE  /\ Saving /\ phase # "save" /\ errors = {} /\ Done = DOMAIN objects
         /\ TypeOK /\ StartInv /\ IdsInv /\ Claimed
         /\ \A o \in DOMAIN objects : o.model = "child" /\ (o.id < 0 => o \in DOMAIN newIds) => Stored(o)
         /\ \A p \in DOMAIN objects : p.model = "parent" /\ objects[p].kids # Absent => KidsOf(p)
         /\ \A c \in ChildPk : ~SaidTwice(c) => HistoryOf(c)
<1>1. Saving /\ phase # "save"
  BY DEF Saving, IInv, TypeOK
<1>2. errors = {} /\ Done = DOMAIN objects /\ TypeOK /\ StartInv /\ IdsInv /\ Claimed
  BY <1>1, SavingFacts
<1>3. \A o \in DOMAIN objects : o.model = "child" /\ (o.id < 0 => o \in DOMAIN newIds) => Stored(o)
  BY <1>1, <1>2 DEF IInv, StoredInv
<1>4. \A p \in DOMAIN objects : p.model = "parent" /\ objects[p].kids # Absent => KidsOf(p)
  BY <1>1, <1>2 DEF IInv, KidsInv
<1>5. \A c \in ChildPk : ~SaidTwice(c) => HistoryOf(c)
  BY <1>1 DEF IInv, HistoryInv
<1> QED BY <1>1, <1>2, <1>3, <1>4, <1>5

LEMMA IdMapHolds == IInv => IdMapRight
<1> SUFFICES ASSUME IInv, result = "ok" PROVE IdMapRight
  BY DEF IdMapRight
<1>1. /\ phase # "save" /\ errors = {} /\ Done = DOMAIN objects /\ TypeOK /\ StartInv /\ IdsInv /\ Saving
      /\ \A o \in DOMAIN objects : o.model = "child" /\ (o.id < 0 => o \in DOMAIN newIds) => Stored(o)
  BY EndFacts
<1>2. DOMAIN newIds = {o \in DOMAIN objects : o.id < 0 /\ ~(o.model = "child" /\ o.id \in deletions)}
  <2>1. \A o \in Done : o.id < 0 => (o \in DOMAIN newIds <=> ~(o.model = "child" /\ o.id \in deletions))
    BY <1>1 DEF IInv, DoneIdsInv
  <2>2. DOMAIN newIds \subseteq {o \in DOMAIN objects : o.id < 0}
    BY <1>1 DEF TypeOK
  <2> QED BY <1>1, <2>1, <2>2
<1>3. \A o \in DOMAIN newIds : /\ newIds[o] \in NewKey(o.model) /\ newIds[o] # None
                               /\ o \in DOMAIN objects /\ o.id < 0
  BY <1>1 DEF TypeOK, IdsInv
<1>4. \A o, q \in DOMAIN newIds : newIds[o] = newIds[q] /\ o.model = q.model => o = q
  BY <1>1, <1>3 DEF IdsInv
<1>5. ASSUME NEW o \in DOMAIN newIds, o.model = "parent" PROVE newIds[o] \in parents \ 1..Parents
  BY <1>1, <1>3, <1>5 DEF IdsInv, NewKey
<1>6. ASSUME NEW o \in DOMAIN newIds, o.model # "parent"
      PROVE  /\ newIds[o] \in ChildPk
             /\ rows[newIds[o]].here /\ ~rows[newIds[o]].deleted
             /\ ~committed[newIds[o]].here
  <2>1. o.model = "child" /\ o.id < 0
    BY <1>1, <1>3, <1>6, Objects DEF TypeOK
  <2>2. Stored(o)
    BY <1>1, <1>3, <2>1
  <2>3. rows[newIds[o]].here /\ ~rows[newIds[o]].deleted
    BY <2>1, <2>2 DEF Stored, Pk
  <2>4. newIds[o] \in ChildPk \ 1..Children
    BY <1>3, <2>1 DEF NewKey
  <2>5. newIds[o] > Children
    BY <2>4, Names DEF ChildPk
  <2>6. committed[newIds[o]] = Blank
    BY <1>1, <2>4, <2>5 DEF StartInv
  <2> QED BY <2>3, <2>4, <2>6 DEF Blank
<1> QED BY <1>2, <1>4, <1>5, <1>6 DEF IdMapRight

LEMMA KidsHold == IInv /\ Lenient => KidsStored
<1> SUFFICES ASSUME IInv, Lenient, result = "ok",
                    NEW p \in DOMAIN objects, p.model = "parent", objects[p].kids # Absent
             PROVE  /\ \A k \in objects[p].kids :
                         /\ Claiming(objects, Child(k)) = {p}
                         /\ IF k < 0 THEN Child(k) \in DOMAIN newIds ELSE committed[k].here
                         => rows[Pk(Child(k))].owner = Pk(p)
                    /\ \A c \in 1..Children \ objects[p].kids :
                         /\ committed[c].here /\ ~committed[c].deleted /\ committed[c].owner = p.id
                         /\ ~SaidTwice(c)
                         => ~(rows[c].here /\ ~rows[c].deleted /\ rows[c].owner = Pk(p))
  BY DEF KidsStored
<1>1. TypeOK /\ IdsInv /\ Claimed /\ KidsOf(p) /\ Saving
      /\ \A o \in DOMAIN objects : o.model = "child" /\ (o.id < 0 => o \in DOMAIN newIds) => Stored(o)
  BY EndFacts
<1>2. objects[p].kids \in SUBSET Key("child") /\ p \in Object /\ p.id \in Key("parent")
  <2>1. objects[p] \in ValuesOf(p)
    BY <1>1 DEF TypeOK
  <2>2. p \in Object
    BY <1>1 DEF TypeOK
  <2> QED BY <2>1, <2>2, Objects DEF ValuesOf
<1>3. ASSUME NEW k \in objects[p].kids, Claiming(objects, Child(k)) = {p},
             IF k < 0 THEN Child(k) \in DOMAIN newIds ELSE committed[k].here
      PROVE  rows[Pk(Child(k))].owner = Pk(p)
  <2>1. k \in Key("child") /\ k \in Int /\ (k < 0 \/ k > 0)
    <3>1. k \in Key("child")
      BY <1>2
    <3> QED BY <3>1, Names DEF Key
  <2>2. Child(k).model = "child" /\ Child(k).id = k
    BY Objects
  <2>3. CASE Child(k) \in DOMAIN objects
    <3>1. Parent(objects[Child(k)].owner) = p
      BY <1>1, <1>3, <2>2, <2>3 DEF Claimed
    <3>2. objects[Child(k)].owner = p.id
      BY <3>1, Objects
    <3>3. p.id # Absent
      BY <1>2, Names
    <3>4. Stored(Child(k))
      BY <1>1, <1>3, <2>2, <2>3
    <3>5. rows[Pk(Child(k))].owner = Real("parent", p.id)
      BY <3>2, <3>3, <3>4 DEF Stored
    <3>6. Real("parent", p.id) = Pk(p)
      <4>1. p = Parent(p.id) /\ (p.id < 0 <=> p.id \in Made)
        BY <1>2, Objects, Names
      <4> QED BY <4>1 DEF Real, Pk, Parent
    <3> QED BY <3>5, <3>6
  <2>4. CASE Child(k) \notin DOMAIN objects
    <3>1. ~(k < 0)
      BY <1>1, <1>3, <2>4 DEF TypeOK
    <3>2. k > 0 /\ committed[k].here
      BY <1>3, <2>1, <3>1
    <3>3. rows[k].owner = Pk(p)
      BY <1>1, <1>3, <2>4, <3>2 DEF KidsOf
    <3>4. Pk(Child(k)) = k
      BY <2>2, <3>1 DEF Pk
    <3> QED BY <3>3, <3>4
  <2> QED BY <2>3, <2>4
<1>4. ASSUME NEW c \in 1..Children \ objects[p].kids, committed[c].owner = p.id, ~SaidTwice(c)
      PROVE  ~(rows[c].here /\ ~rows[c].deleted /\ rows[c].owner = Pk(p))
  <2>1. Child(c) \notin DOMAIN objects
    BY <1>4 DEF SaidTwice
  <2> QED BY <1>1, <1>4, <2>1 DEF KidsOf
<1> QED BY <1>3, <1>4

-----------------------------------------------------------------------------

(* The variables of a multi-put hold values of their kinds: the keys that  *)
(* are handed out to new objects (django's save) are not those of rows     *)
(* that were there, and new_id_map and the errors are about objects of the *)
(* payload.                                                                *)
THEOREM TypeCorrect == Spec => []TypeOK
<1>1. IInv => TypeOK
  BY DEF IInv
<1> QED BY Invariant, <1>1, PTL

(* The history of a multi-put holds what the request did to each child     *)
(* (history.change), however often _store and _store_m2m_field saved it.   *)
THEOREM HistoryIsRight == Spec => []HistoryRight
<1>1. IInv => HistoryRight
  <2> SUFFICES ASSUME IInv, result = "ok" PROVE \A c \in ChildPk : ~SaidTwice(c) => HistoryOf(c)
    BY DEF HistoryRight
  <2> QED BY EndFacts
<1> QED BY Invariant, <1>1, PTL

(* The idmap of the answer (_multi_put_save_objects and                    *)
(* _multi_put_deletions) has exactly the new objects that the payload does *)
(* not delete again, each with a row of its own that was not there before. *)
THEOREM IdMapIsRight == Spec => []IdMapRight
BY Invariant, IdMapHolds, PTL

(* Every child ends with the owner and the mate that its object asks for   *)
(* (_multi_put_save_objects), made-up ids replaced, by null for none of    *)
(* them: a request with an object that is not valid is refused.            *)
THEOREM ReferencesAreStored == Spec => []ReferencesStored
<1>1. IInv => ReferencesStored
  <2> SUFFICES ASSUME IInv, result = "ok",
                      NEW o \in DOMAIN objects, o.model = "child", o.id < 0 => o \in DOMAIN newIds
               PROVE  LET r == rows[Pk(o)] v == objects[o] IN
                        /\ Pk(o) \in ChildPk
                        /\ v.owner # Absent =>
                             r.owner = Real("parent", v.owner) /\ (r.owner = None => v.owner = None)
                        /\ v.mate # Absent /\ Known("child", v.mate) =>
                             r.mate = Real("child", v.mate) /\ (r.mate = None => v.mate = None)
    BY DEF ReferencesStored
  <2>1. Stored(o) /\ TypeOK /\ IdsInv /\ Saving /\ errors = {}
    BY EndFacts
  <2>2. \A q \in DOMAIN newIds : newIds[q] # None /\ newIds[q] \in NewKey(q.model)
    BY <2>1 DEF TypeOK, IdsInv
  <2>3. Pk(o) \in ChildPk
    <3>1. CASE o.id < 0
      BY <2>2, <3>1 DEF Pk, NewKey
    <3>2. CASE ~(o.id < 0)
      <4>1. o.id \in Key("child") /\ o.id \notin Made
        BY <2>1, <3>2, Objects, Names DEF TypeOK
      <4> QED BY <3>2, <4>1, Names DEF Pk, Key
    <3> QED BY <3>1, <3>2
  <2>4. \A m, i : Known(m, i) /\ Real(m, i) = None => i = None
    BY <2>2 DEF Known, Real
  <2> QED BY <2>1, <2>3, <2>4 DEF Stored
<1> QED BY Invariant, <1>1, PTL

(* A soft-deleted child is not changed by a multi-put (the check for       *)
(* deleted objects of _store, and the filter of _store_m2m_field), but     *)
(* that a parent may take it over.                                         *)
THEOREM DeletedStays == Spec => []DeletedKept
<1>1. IInv => DeletedKept
  BY DEF IInv, DeletedInv, DeletedKept
<1> QED BY Invariant, <1>1, PTL

(* A made-up id is found in new_id_map whenever it is looked up, unless it *)
(* is that of the very object that refers to it: the order of              *)
(* _multi_put_order_objects suffices.                                      *)
THEOREM OnlyItselfIsMissing == Spec => []KeyErrorOnlyForItself
<1>1. IInv => KeyErrorOnlyForItself
  BY DEF IInv
<1> QED BY Invariant, <1>1, PTL

(* The parents end with the kids that they list, if a child may be without *)
(* an owner or is deleted softly.  If neither, _store_m2m_field deletes a  *)
(* child that moves to a parent that is saved later.                       *)
THEOREM KidsAreStored ==
  ASSUME \A F \in Families : F.schema.nullable \/ F.schema.softDelete
  PROVE  Spec => []KidsStored
<1>1. Init => Lenient
  BY DEF Init, Lenient
<1>2. Lenient /\ [Next]_vars => Lenient'
  BY SchemaStays
<1>3. IInv /\ Lenient => KidsStored
  BY KidsHold
<1> QED BY <1>1, <1>2, <1>3, Invariant, PTL DEF Spec
=============================================================================
