---------------------------- MODULE RelationsProofs ----------------------------
(***************************************************************************)
(* Relations between objects: the order in which a multi-put saves them    *)
(* because of their relations, and what the history records of a relation. *)
(*                                                                         *)
(* The order.  The loop of _multi_put_order_dependencies, which changes    *)
(* the dict it works from while it goes, lists whole layers: for every     *)
(* graph and every order of the dict it implements LayeredOrder.           *)
(*                                                                         *)
(* The history.  What is recorded of a relation is what happens to it, for *)
(* any number of threads, zoos and children, as long as requests on        *)
(* children do not overlap.  The argument: until it commits, a request has *)
(* the committed value of each relation that it changes in its changes,    *)
(* because nobody else can commit to that relation.                        *)
(***************************************************************************)
EXTENDS MultiPutOrder, RelationHistory, SequenceTheorems, FiniteSetTheorems, TLAPS

LayersP == INSTANCE LayeredOrderProofs
             WITH dependencies <- IF looping THEN copy ELSE dependencies

(* In the middle of a pass this_batch holds the entries visited so far     *)
(* that wait for nothing, and dependencies is the copy without them.       *)
PassInv ==
  looping => /\ outcome = "running"
             /\ todo \subseteq DOMAIN copy /\ DOMAIN copy # {}
             /\ batch = {o \in DOMAIN copy \ todo : copy[o] = {}}
             /\ dependencies = Without(copy, batch)

(* copy and dependencies are functions on the objects that wait.           *)
GraphInv ==
  /\ dependencies = [o \in DOMAIN dependencies |-> dependencies[o]]
  /\ DOMAIN dependencies \subseteq Object /\ DOMAIN copy \subseteq Object
  /\ copy = [o \in DOMAIN copy |-> copy[o]]

PassIInv == PassInv /\ GraphInv

-----------------------------------------------------------------------------

LEMMA InitPass == LoopInit => PassIInv
BY DEF LoopInit, OrderInit, PassIInv, PassInv, GraphInv, IsGraph

(* Taking out some objects, then more, is taking out both.                 *)
LEMMA WithoutBoth ==
  ASSUME NEW g, NEW B, NEW C
  PROVE  Without(Without(g, B), C) = Without(g, B \cup C)
<1>1. (DOMAIN g \ B) \ C = DOMAIN g \ (B \cup C)
  OBVIOUS
<1>2. ASSUME NEW p \in DOMAIN g \ (B \cup C)
      PROVE  (g[p] \ B) \ C = g[p] \ (B \cup C)
  OBVIOUS
<1>3. Without(Without(g, B), C)
        = [p \in (DOMAIN g \ B) \ C |-> (g[p] \ B) \ C]
  BY DEF Without
<1> QED BY <1>1, <1>2, <1>3 DEF Without

LEMMA VisitPass ==
  ASSUME PassIInv, NEW o \in Object, Visit(o)
  PROVE  PassIInv'
<1> USE DEF PassIInv, PassInv, GraphInv
<1>1. /\ looping /\ looping' = looping /\ o \in todo /\ todo' = todo \ {o}
      /\ copy' = copy /\ outcome' = outcome
      /\ o \in DOMAIN copy
  BY DEF Visit
<1>2. CASE copy[o] = {}
  <2>1. batch' = batch \cup {o} /\ dependencies' = Without(dependencies, {o})
    BY <1>2 DEF Visit
  <2>2. dependencies' = Without(copy, batch')
    <3>1. dependencies = Without(copy, batch)
      BY <1>1
    <3>2. PICK C : C = {o}
      OBVIOUS
    <3>3. Without(Without(copy, batch), C) = Without(copy, batch \cup C)
      BY WithoutBoth
    <3> QED BY <2>1, <3>1, <3>2, <3>3
  <2>3. batch' = {p \in DOMAIN copy \ todo' : copy[p] = {}}
    BY <1>1, <1>2, <2>1
  <2>4. dependencies' = [p \in DOMAIN dependencies' |-> dependencies'[p]]
    BY <2>2 DEF Without
  <2>5. DOMAIN dependencies' \subseteq Object
    BY <2>2 DEF Without
  <2> QED BY <1>1, <2>2, <2>3, <2>4, <2>5
<1>3. CASE copy[o] # {}
  <2>1. batch' = batch /\ dependencies' = dependencies
    BY <1>3 DEF Visit
  <2> QED BY <1>1, <1>3, <2>1
<1> QED BY <1>2, <1>3

LEMMA StepPass ==
  ASSUME PassIInv, [LoopNext]_loopVars
  PROVE  PassIInv'
<1>1. CASE BeginPass
  <2>1. dependencies = Without(dependencies, {})
    BY DEF Without, PassIInv, GraphInv
  <2> QED BY <1>1, <2>1 DEF BeginPass, PassIInv, PassInv, GraphInv, orderVars
<1>2. CASE \E o \in Object : Visit(o)
  BY <1>2, VisitPass
<1>3. CASE EndPass
  BY <1>3 DEF EndPass, PassIInv, PassInv, GraphInv
<1>4. CASE NoProgress
  BY <1>4 DEF NoProgress, PassIInv, PassInv, GraphInv
<1>5. CASE Return
  BY <1>5 DEF Return, PassIInv, PassInv, GraphInv
<1>6. CASE UNCHANGED loopVars
  BY <1>6 DEF loopVars, PassIInv, PassInv, GraphInv, Without
<1> QED BY <1>1, <1>2, <1>3, <1>4, <1>5, <1>6 DEF LoopNext

-----------------------------------------------------------------------------

(* LayeredOrder is here three times, extended, as Layers and, with its     *)
(* theorems, as LayersP; the prover has to be told that they agree.        *)
LEMMA SameSortings ==
  ASSUME NEW B
  PROVE  Layers!Sortings(B) = Sortings(B) /\ LayersP!Sortings(B) = Sortings(B)
<1>1. Layers!Cardinality(B) = Cardinality(B) /\ LayersP!Cardinality(B) = Cardinality(B)
  BY DEF Layers!Cardinality, LayersP!Cardinality, Cardinality
<1> QED
  BY <1>1 DEF Layers!Sortings, LayersP!Sortings, Sortings, Layers!Before, LayersP!Before, Before,
    Layers!Sign, LayersP!Sign, Sign, Layers!Abs, LayersP!Abs, Abs

LEMMA SameSpec == Layers!OrderSpec => LayersP!OrderSpec
<1>1. Layers!OrderInit => LayersP!OrderInit
  BY DEF Layers!OrderInit, LayersP!OrderInit, Layers!IsGraph, LayersP!IsGraph
<1>2. Layers!AppendLayer => LayersP!AppendLayer
  <2>1. Layers!Layer = LayersP!Layer
    BY DEF Layers!Layer, LayersP!Layer
  <2>2. Layers!Sortings(Layers!Layer) = LayersP!Sortings(LayersP!Layer)
    BY <2>1, SameSortings
  <2>3. \A g, B : Layers!Without(g, B) = LayersP!Without(g, B)
    BY DEF Layers!Without, LayersP!Without
  <2> QED BY <2>1, <2>2, <2>3 DEF Layers!AppendLayer, LayersP!AppendLayer
<1>3. [Layers!OrderNext]_(Layers!orderVars) => [LayersP!OrderNext]_(LayersP!orderVars)
  BY <1>2 DEF Layers!OrderNext, LayersP!OrderNext, Layers!orderVars, LayersP!orderVars,
    Layers!ReportCycle, LayersP!ReportCycle, Layers!ReturnOrdered, LayersP!ReturnOrdered,
    Layers!Layer, LayersP!Layer
<1> QED BY <1>1, <1>3, PTL DEF Layers!OrderSpec, LayersP!OrderSpec

(* One step of the loop is one step of the layers, or none.                *)
LEMMA StepLayers ==
  ASSUME PassIInv, [LoopNext]_loopVars
  PROVE  [Layers!OrderNext]_(Layers!orderVars)
<1> DEFINE abs == IF looping THEN copy ELSE dependencies
<1> USE DEF PassIInv
<1>1. CASE BeginPass
  BY <1>1 DEF BeginPass, Layers!orderVars, orderVars
<1>2. CASE \E o \in Object : Visit(o)
  BY <1>2 DEF Visit, Layers!orderVars
<1>3. CASE EndPass
  <2>1. looping /\ ~looping' /\ todo = {} /\ batch # {} /\ dependencies' = dependencies
    BY <1>3 DEF EndPass
  <2>2. batch = Layers!Layer
    BY <2>1 DEF Layers!Layer, PassInv
  <2>3. abs' = Without(abs, Layers!Layer)
    BY <2>1, <2>2 DEF PassInv
  <2>4. \E s \in Sortings(batch) : ordered' = ordered \o s
    BY <1>3 DEF EndPass
  <2>5. Layers!AppendLayer
    BY <1>3, <2>1, <2>2, <2>3, <2>4, SameSortings
    DEF EndPass, PassInv, Layers!AppendLayer, Layers!Without, Without
  <2> QED BY <2>5 DEF Layers!OrderNext
<1>4. CASE NoProgress
  <2>1. Layers!Layer = {} /\ DOMAIN abs # {} /\ abs' = dependencies' /\ outcome = "running"
    BY <1>4 DEF NoProgress, PassInv, Layers!Layer
  <2>2. dependencies = copy
    <3>1. dependencies = Without(copy, {})
      BY <1>4 DEF NoProgress, PassInv
    <3> QED BY <3>1 DEF Without, GraphInv
  <2>3. Layers!ReportCycle
    BY <1>4, <2>1, <2>2 DEF NoProgress, Layers!ReportCycle
  <2> QED BY <2>3 DEF Layers!OrderNext
<1>5. CASE Return
  BY <1>5 DEF Return, Layers!OrderNext, Layers!ReturnOrdered
<1>6. CASE UNCHANGED loopVars
  BY <1>6 DEF loopVars, Layers!orderVars
<1> QED BY <1>1, <1>2, <1>3, <1>4, <1>5, <1>6 DEF LoopNext

(* For every request: the loop over the changing dict lists whole layers,  *)
(* as the comment above _multi_put_order_dependencies says.                *)
THEOREM LayersAreImplemented == LoopSpec => LayersImplemented
<1>1. LoopInit => Layers!OrderInit
  BY DEF LoopInit, OrderInit, Layers!OrderInit, IsGraph, Layers!IsGraph
<1>2. LoopSpec => []PassIInv
  BY InitPass, StepPass, PTL DEF LoopSpec
<1>3. QED
  BY <1>1, <1>2, StepLayers, PTL DEF LoopSpec, LayersImplemented, Layers!OrderSpec

(* So the loop itself lists every object once and after its dependencies,  *)
(* and raises "Cyclic dependencies?" only for a cycle.                     *)
THEOREM LoopIsSound == LoopSpec => [](DependenciesFirst /\ EachOnce /\ RefusedForCycle)
<1>0. LayersP!LayeredOrderAssumption
  BY LayeredOrderAssumption
  DEF LayersP!LayeredOrderAssumption, LayersP!IsFiniteSet, IsFiniteSet
<1>1. LayersP!OrderSpec => [](LayersP!DependenciesFirst /\ LayersP!EachOnce
                              /\ LayersP!RefusedForCycle)
  BY <1>0, LayersP!OrderIsSound
<1>2. LayersP!DependenciesFirst /\ LayersP!EachOnce /\ LayersP!RefusedForCycle
        => DependenciesFirst /\ EachOnce /\ RefusedForCycle
  BY DEF LayersP!DependenciesFirst, DependenciesFirst, LayersP!EachOnce, EachOnce,
    LayersP!RefusedForCycle, RefusedForCycle
<1> QED
  BY <1>1, <1>2, SameSpec, LayersAreImplemented, PTL DEF LayersImplemented

-----------------------------------------------------------------------------

(* The history of relations.                                               *)
Busy(t) == req[t].phase \in {"save", "commit"}

AskOK(q) == \/ q.kind = "put" /\ DOMAIN q.want \subseteq Zoo
               /\ \A z \in DOMAIN q.want : q.want[z] \subseteq Contact
            \/ q.kind = "move" /\ q.child \in Child /\ q.to \in Zoo \cup {None}
            \/ q.kind = "drop" /\ q.child \in Child

(* A request in the two phases of its life.                                *)
Request(t) ==
  \/ req[t] = Idle /\ changes[t] = << >>
  \/ \E q, con, par : req[t] = [phase |-> "save", ask |-> q, contacts |-> con, parent |-> par]
  \/ \E q, con, par, recs :
       /\ req[t] = [phase |-> "commit", ask |-> q, contacts |-> con, parent |-> par, records |-> recs]
       /\ changes[t] = << >>

RequestsOK ==
  /\ DOMAIN contacts = Zoo /\ DOMAIN parent = Child
  /\ DOMAIN lock = Zoo \cup Child /\ DOMAIN req = Thread /\ DOMAIN changes = Thread
  /\ \A q \in asks : AskOK(q)
  /\ \A t \in Thread : Request(t)

(* What a request has written, it holds the lock of; a child is written    *)
(* only by requests on children, of which there is one.                    *)
HoldsOK(t) ==
  Busy(t) =>
    /\ AskOK(req[t].ask)
    /\ \A z \in DOMAIN req[t].contacts : z \in Zoo /\ lock[z] = t
    /\ DOMAIN req[t].parent \subseteq Child
    /\ ~OnChildren(req[t].ask) => req[t].parent = << >>
    /\ \A rel \in DOMAIN changes[t] :
         \/ rel[1] = "contacts" /\ rel[2] \in DOMAIN req[t].contacts
         \/ rel[1] = "children" /\ OnChildren(req[t].ask)
OneOnChildren ==
  \A s, t \in Thread : Busy(s) /\ Busy(t) /\ OnChildren(req[s].ask) /\ OnChildren(req[t].ask) => s = t

(* The old values are those of the database, and no other relation has     *)
(* been changed.                                                           *)
ChangesRight(t) ==
  req[t].phase = "save" => \A rel \in Relations :
    IF rel \in DOMAIN changes[t] THEN changes[t][rel] = Committed(rel) ELSE Seen(t, rel) = Committed(rel)

RecordsOf(t, rel) == {r \in req[t].records : r.rel = rel}
RecordsRight(t) ==
  req[t].phase = "commit" => \A rel \in Relations :
    IF Seen(t, rel) = Committed(rel) THEN RecordsOf(t, rel) = {}
    ELSE \E r : /\ RecordsOf(t, rel) = {r} /\ r.removed = Committed(rel) \ Seen(t, rel)
                /\ r.added = Seen(t, rel) \ Committed(rel)

(* A changeset's id is in no other record.                                 *)
IdsFresh ==
  /\ nextId \in Nat
  /\ \A l \in log : l.id \in Nat /\ l.id < nextId
  /\ \A t \in Thread : req[t].phase = "commit" =>
       \A r \in req[t].records : /\ r.id \in Nat /\ r.id < nextId
                                 /\ \A l \in log : l.id # r.id
                                 /\ \A s \in Thread \ {t} : req[s].phase = "commit" =>
                                      \A p \in req[s].records : p.id # r.id

HistInv == /\ RequestsOK /\ OneOnChildren /\ IdsFresh
           /\ \A t \in Thread : HoldsOK(t) /\ ChangesRight(t) /\ RecordsRight(t)

-----------------------------------------------------------------------------

(* What a relation is for a transaction that has written something.        *)
LEMMA SerializedOver ==
  ASSUME NEW wc, NEW wp, NEW con, NEW par, DOMAIN con = Zoo, DOMAIN par = Child
  PROVE  /\ \A z \in Zoo : Serialized(<<"contacts", z>>, Over(wc, con), Over(wp, par))
                             = IF z \in DOMAIN wc THEN wc[z] ELSE con[z]
         /\ \A z \in Zoo : Serialized(<<"children", z>>, Over(wc, con), Over(wp, par))
                             = {c \in Child : (IF c \in DOMAIN wp THEN wp[c] ELSE par[c]) = z}
         /\ \A z \in Zoo : Serialized(<<"contacts", z>>, con, par) = con[z]
         /\ \A z \in Zoo : Serialized(<<"children", z>>, con, par) = {c \in Child : par[c] = z}
<1>1. ASSUME NEW z \in Zoo
      PROVE  Over(wc, con)[z] = IF z \in DOMAIN wc THEN wc[z] ELSE con[z]
  BY DEF Over
<1>2. ASSUME NEW c \in Child
      PROVE  Over(wp, par)[c] = IF c \in DOMAIN wp THEN wp[c] ELSE par[c]
  BY DEF Over
<1> QED BY <1>1, <1>2 DEF Serialized

LEMMA SameChildren ==
  ASSUME DOMAIN contacts = Zoo, DOMAIN parent = Child, NEW wc, NEW wp, NEW z \in Zoo,
         \A c \in Child : (IF c \in DOMAIN wp THEN wp[c] ELSE parent[c]) = z <=> parent[c] = z
  PROVE  Serialized(<<"children", z>>, Over(wc, contacts), Over(wp, parent)) = Committed(<<"children", z>>)
<1>1. {c \in Child : (IF c \in DOMAIN wp THEN wp[c] ELSE parent[c]) = z} = {c \in Child : parent[c] = z}
  OBVIOUS
<1>2. Serialized(<<"children", z>>, Over(wc, contacts), Over(wp, parent))
        = {c \in Child : (IF c \in DOMAIN wp THEN wp[c] ELSE parent[c]) = z}
  BY SerializedOver
<1>3. Serialized(<<"children", z>>, contacts, parent) = {c \in Child : parent[c] = z}
  BY SerializedOver
<1> QED BY <1>1, <1>2, <1>3 DEF Committed

LEMMA NothingWritten == DOMAIN << >> = {}
OBVIOUS

LEMMA RelationsAre ==
  \A rel \in Relations : \E z \in Zoo : rel = <<"contacts", z>> \/ rel = <<"children", z>>
BY DEF Relations

LEMMA Phases ==
  ASSUME RequestsOK, NEW t \in Thread
  PROVE  /\ req[t].phase \in {"idle", "save", "commit"}
         /\ req[t] = Idle <=> req[t].phase = "idle"
         /\ ~Busy(t) <=> req[t] = Idle
         /\ req[t].phase # "save" => changes[t] = << >>
<1>1. Request(t)
  BY DEF RequestsOK
<1>2. CASE req[t] = Idle /\ changes[t] = << >>
  BY <1>2 DEF Idle, Busy
<1>3. CASE \E q, con, par : req[t] = [phase |-> "save", ask |-> q, contacts |-> con, parent |-> par]
  BY <1>3 DEF Idle, Busy
<1>4. CASE \E q, con, par, recs :
       /\ req[t] = [phase |-> "commit", ask |-> q, contacts |-> con, parent |-> par, records |-> recs]
       /\ changes[t] = << >>
  BY <1>4 DEF Idle, Busy
<1> QED BY <1>1, <1>2, <1>3, <1>4 DEF Request

LEMMA SavingRequest ==
  ASSUME NEW t, NEW q, NEW con, NEW par,
         req'[t] = [phase |-> "save", ask |-> q, contacts |-> con, parent |-> par]
  PROVE  Request(t)'
<1>1. \E p, c, d : req'[t] = [phase |-> "save", ask |-> p, contacts |-> c, parent |-> d]
  BY Zenon
<1> QED BY <1>1, Zenon DEF Request

LEMMA CommittingRequest ==
  ASSUME NEW t, NEW q, NEW con, NEW par, NEW recs, changes'[t] = << >>,
         req'[t] = [phase |-> "commit", ask |-> q, contacts |-> con, parent |-> par, records |-> recs]
  PROVE  Request(t)'
<1>1. \E p, c, d, r :
        req'[t] = [phase |-> "commit", ask |-> p, contacts |-> c, parent |-> d, records |-> r]
  BY Zenon
<1> QED BY <1>1, Zenon DEF Request

LEMMA InitHist == Init => HistInv
<1> SUFFICES ASSUME Init PROVE HistInv
  OBVIOUS
<1>1. PICK f \in Families : asks = f.asks /\ contacts \in f.contacts /\ parent \in f.parents
  BY DEF Init
<1>2. /\ lock = [r \in Zoo \cup Child |-> NoThread] /\ req = [t \in Thread |-> Idle]
      /\ changes = [t \in Thread |-> << >>] /\ log = {} /\ nextId = 1
  BY DEF Init
<1>3. DOMAIN contacts = Zoo /\ DOMAIN parent = Child /\ \A q \in asks : AskOK(q)
  BY <1>1, RelationHistoryAssumption DEF AskOK
<1>4. RequestsOK
  BY <1>2, <1>3 DEF RequestsOK, Request
<1>5. \A t \in Thread : ~Busy(t) /\ req[t].phase = "idle"
  BY <1>2 DEF Busy, Idle
<1> QED
  BY <1>2, <1>4, <1>5 DEF HistInv, OneOnChildren, IdsFresh, HoldsOK, ChangesRight, RecordsRight

-----------------------------------------------------------------------------

(* A step that commits nothing and leaves a thread alone keeps its part.   *)
LEMMA Frame ==
  ASSUME NEW s \in Thread, HoldsOK(s), ChangesRight(s), RecordsRight(s),
         req'[s] = req[s], changes'[s] = changes[s], contacts' = contacts, parent' = parent,
         Busy(s) => \A z \in DOMAIN req[s].contacts : lock[z] = s => lock'[z] = s
  PROVE  HoldsOK(s)' /\ ChangesRight(s)' /\ RecordsRight(s)'
<1>1. \A rel : Seen(s, rel)' = Seen(s, rel) /\ Committed(rel)' = Committed(rel)
  BY DEF Seen, Committed
<1>2. HoldsOK(s)'
  BY DEF HoldsOK, Busy
<1>3. ChangesRight(s)'
  BY <1>1 DEF ChangesRight
<1>4. RecordsRight(s)'
  BY <1>1 DEF RecordsRight, RecordsOf
<1> QED BY <1>2, <1>3, <1>4

(* A step of one thread that commits nothing and logs nothing keeps the    *)
(* invariant if its own part is right.                                     *)
LEMMA OwnStep ==
  ASSUME HistInv, NEW t \in Thread,
         DOMAIN req' = Thread, DOMAIN changes' = Thread, DOMAIN lock' = DOMAIN lock,
         \A s \in Thread \ {t} : req'[s] = req[s] /\ changes'[s] = changes[s],
         UNCHANGED <<contacts, parent, log, asks>>,
         \A r \in Zoo \cup Child : \A s \in Thread \ {t} : lock[r] = s => lock'[r] = s,
         Request(t)', HoldsOK(t)', ChangesRight(t)', RecordsRight(t)',
         Busy(t)' => \A s \in Thread \ {t} : Busy(s) => ~(OnChildren(req[s].ask) /\ OnChildren(req'[t].ask)),
         nextId' \in Nat, nextId <= nextId',
         req'[t].phase = "commit" => \A r \in req'[t].records : r.id \in Nat /\ nextId <= r.id /\ r.id < nextId'
  PROVE  HistInv'
<1>1. \A s \in Thread \ {t} : Request(s)'
  BY DEF HistInv, RequestsOK, Request
<1>2. RequestsOK'
  BY <1>1 DEF HistInv, RequestsOK
<1>3. ASSUME NEW s \in Thread \ {t} PROVE HoldsOK(s)' /\ ChangesRight(s)' /\ RecordsRight(s)'
  BY <1>3, Frame DEF HistInv, HoldsOK
<1>4. OneOnChildren'
  BY DEF HistInv, OneOnChildren, Busy
<1>5. IdsFresh'
  <2>1. nextId \in Nat /\ \A l \in log : l.id \in Nat /\ l.id < nextId
    BY DEF HistInv, IdsFresh
  <2> QED BY <2>1 DEF HistInv, IdsFresh
<1> QED BY <1>2, <1>3, <1>4, <1>5 DEF HistInv

LEMMA BeginHist ==
  ASSUME Apart, HistInv, NEW t \in Thread, Begin(t)
  PROVE  HistInv'
<1>1. PICK q \in asks :
        /\ OnChildren(q) => \A s \in Thread : req[s] # Idle => ~OnChildren(req[s].ask)
        /\ req' = [req EXCEPT ![t] = [phase |-> "save", ask |-> q, contacts |-> << >>, parent |-> << >>]]
  BY DEF Begin
<1>2. req[t] = Idle /\ UNCHANGED <<contacts, parent, lock, changes, log, nextId, asks>>
  BY DEF Begin
<1>3. RequestsOK /\ nextId \in Nat
  BY DEF HistInv, IdsFresh
<1>4. DOMAIN req = Thread /\ AskOK(q) /\ changes[t] = << >>
  BY <1>2, <1>3, Phases, <1>1 DEF RequestsOK, Idle
<1>5. PICK new : /\ new = [phase |-> "save", ask |-> q, contacts |-> << >>, parent |-> << >>]
                 /\ req' = [req EXCEPT ![t] = new]
  BY <1>1
<1>6. req'[t] = new /\ \A s \in Thread \ {t} : req'[s] = req[s]
  BY <1>4, <1>5
<1>7. req'[t].phase = "save" /\ req'[t].ask = q /\ req'[t].contacts = << >> /\ req'[t].parent = << >>
  BY <1>5, <1>6
<1>8. Request(t)'
  BY <1>5, <1>6, SavingRequest
<1>9. HoldsOK(t)'
  BY <1>2, <1>4, <1>7, NothingWritten DEF HoldsOK
<1>10. ChangesRight(t)'
  <2> SUFFICES ASSUME NEW rel \in Relations PROVE Seen(t, rel)' = Committed(rel)
    BY <1>2, <1>4 DEF ChangesRight, Committed
  <2>1. DOMAIN contacts = Zoo /\ DOMAIN parent = Child
    BY <1>3 DEF RequestsOK
  <2>2. Seen(t, rel)' = Serialized(rel, Over(<< >>, contacts), Over(<< >>, parent))
    BY <1>2, <1>7 DEF Seen
  <2>3. PICK z \in Zoo : rel = <<"contacts", z>> \/ rel = <<"children", z>>
    BY RelationsAre
  <2>4. CASE rel = <<"contacts", z>>
    BY <2>1, <2>2, <2>4, SerializedOver, NothingWritten DEF Committed
  <2>5. CASE rel = <<"children", z>>
    BY <2>1, <2>2, <2>5, SameChildren, NothingWritten
  <2> QED BY <2>3, <2>4, <2>5
<1>11. RecordsRight(t)'
  BY <1>7 DEF RecordsRight
<1>12. \A s \in Thread \ {t} : Busy(s) => ~(OnChildren(req[s].ask) /\ OnChildren(q))
  BY <1>1, <1>3, Phases
<1> QED
  BY <1>2, <1>3, <1>4, <1>5, <1>6, <1>7, <1>8, <1>9, <1>10, <1>11, <1>12, OwnStep DEF RequestsOK

(* The end of a request, whatever became of it, for its thread.            *)
LEMMA EndIsIdle ==
  ASSUME RequestsOK, NEW t \in Thread, End(t)
  PROVE  /\ req'[t] = Idle /\ changes'[t] = << >>
         /\ DOMAIN req' = Thread /\ DOMAIN changes' = Thread /\ DOMAIN lock' = DOMAIN lock
         /\ \A s \in Thread \ {t} : req'[s] = req[s] /\ changes'[s] = changes[s]
         /\ \A r \in Zoo \cup Child : \A s \in Thread \ {t} : lock[r] = s => lock'[r] = s
         /\ Request(t)' /\ HoldsOK(t)' /\ ChangesRight(t)' /\ RecordsRight(t)' /\ ~Busy(t)'
<1>1. /\ req' = [req EXCEPT ![t] = Idle] /\ changes' = [changes EXCEPT ![t] = << >>]
      /\ lock' = [r \in DOMAIN lock |-> IF lock[r] = t THEN NoThread ELSE lock[r]]
  BY DEF End
<1>2. DOMAIN req = Thread /\ DOMAIN changes = Thread /\ DOMAIN lock = Zoo \cup Child
  BY DEF RequestsOK
<1>3. req'[t] = Idle /\ changes'[t] = << >>
  BY <1>1, <1>2
<1>4. req'[t].phase = "idle"
  BY <1>3 DEF Idle
<1>5. \A r \in Zoo \cup Child : \A s \in Thread \ {t} : lock[r] = s => lock'[r] = s
  BY <1>1, <1>2
<1> QED
  BY <1>1, <1>2, <1>3, <1>4, <1>5 DEF Request, HoldsOK, ChangesRight, RecordsRight, Busy

LEMMA FailHist ==
  ASSUME HistInv, NEW t \in Thread, Fail(t)
  PROVE  HistInv'
<1>1. End(t) /\ UNCHANGED <<contacts, parent, log, nextId, asks>> /\ RequestsOK /\ nextId \in Nat
  BY DEF Fail, HistInv, IdsFresh
<1>2. req'[t].phase = "idle"
  BY <1>1, EndIsIdle DEF Idle
<1> QED BY <1>1, <1>2, EndIsIdle, OwnStep

LEMMA LockHist ==
  ASSUME HistInv, NEW t \in Thread, NEW r \in Zoo \cup Child, Lock(t, r)
  PROVE  HistInv'
<1>1. /\ lock[r] = NoThread /\ req[t].phase = "save" /\ lock' = [lock EXCEPT ![r] = t]
      /\ UNCHANGED <<contacts, parent, req, changes, log, nextId, asks>>
  BY DEF Lock
<1>2. RequestsOK /\ nextId \in Nat /\ HoldsOK(t) /\ ChangesRight(t) /\ RecordsRight(t) /\ Request(t)
  BY DEF HistInv, IdsFresh, RequestsOK
<1>3. \A x \in Zoo \cup Child : \A s \in Thread : lock[x] = s => lock'[x] = s
  BY <1>1, <1>2, RelationHistoryAssumption DEF RequestsOK
<1>4. HoldsOK(t)' /\ ChangesRight(t)' /\ RecordsRight(t)'
  BY <1>1, <1>2, <1>3, Frame DEF HoldsOK
<1>5. Request(t)'
  BY <1>1, <1>2 DEF Request
<1>6. Busy(t) /\ \A s \in Thread \ {t} : Busy(s) => ~(OnChildren(req[s].ask) /\ OnChildren(req[t].ask))
  BY <1>1 DEF HistInv, OneOnChildren, Busy
<1> QED BY <1>1, <1>2, <1>3, <1>4, <1>5, <1>6, OwnStep DEF RequestsOK

-----------------------------------------------------------------------------

(* A save: the thread writes one row more, after it has noted the old      *)
(* values of the relations that this changes.                              *)
WriteOK(t, con, par, rels) ==
  /\ DOMAIN req[t].contacts \subseteq DOMAIN con
  /\ \A z \in DOMAIN con : z \in Zoo /\ lock[z] = t
  /\ DOMAIN par \subseteq Child
  /\ ~OnChildren(req[t].ask) => par = << >>
  /\ \A rel \in rels : /\ \/ rel[1] = "contacts" /\ rel[2] \in DOMAIN con
                          \/ rel[1] = "children" /\ OnChildren(req[t].ask)
                       /\ rel \in Relations => Seen(t, rel) = Committed(rel)
  /\ \A rel \in Relations \ rels :
       Seen(t, rel) = Committed(rel)
         => Serialized(rel, Over(con, contacts), Over(par, parent)) = Committed(rel)

LEMMA WriteHist ==
  ASSUME HistInv, NEW t \in Thread, req[t].phase = "save", NEW con, NEW par, NEW rels,
         WriteOK(t, con, par, rels), Change(t, rels),
         req'[t] = [phase |-> "save", ask |-> req[t].ask, contacts |-> con, parent |-> par],
         DOMAIN req' = Thread, \A s \in Thread \ {t} : req'[s] = req[s],
         UNCHANGED <<contacts, parent, lock, log, nextId, asks>>
  PROVE  HistInv'
<1>0. /\ DOMAIN req[t].contacts \subseteq DOMAIN con
      /\ \A z \in DOMAIN con : z \in Zoo /\ lock[z] = t
      /\ DOMAIN par \subseteq Child
      /\ ~OnChildren(req[t].ask) => par = << >>
      /\ \A rel \in rels : /\ \/ rel[1] = "contacts" /\ rel[2] \in DOMAIN con
                              \/ rel[1] = "children" /\ OnChildren(req[t].ask)
                           /\ rel \in Relations => Seen(t, rel) = Committed(rel)
      /\ \A rel \in Relations \ rels :
           Seen(t, rel) = Committed(rel)
             => Serialized(rel, Over(con, contacts), Over(par, parent)) = Committed(rel)
  BY DEF WriteOK
<1>1. RequestsOK /\ nextId \in Nat /\ HoldsOK(t) /\ ChangesRight(t) /\ Request(t)
  BY DEF HistInv, IdsFresh, RequestsOK
<1>2. DOMAIN req = Thread /\ DOMAIN changes = Thread
  BY <1>1 DEF RequestsOK
<1>7. req'[t].phase = "save" /\ req'[t].ask = req[t].ask /\ req'[t].contacts = con /\ req'[t].parent = par
  OBVIOUS
<1>8. PICK old : old = [rel \in rels |-> Seen(t, rel)]
  OBVIOUS
<1>9. changes' = [changes EXCEPT ![t] = Over(changes[t], old)]
  BY <1>8 DEF Change
<1>10. /\ changes'[t] = Over(changes[t], old)
       /\ DOMAIN changes' = Thread /\ \A s \in Thread \ {t} : changes'[s] = changes[s]
  BY <1>2, <1>9
<1>11. /\ DOMAIN changes'[t] = DOMAIN changes[t] \cup rels
       /\ \A rel \in DOMAIN changes[t] : changes'[t][rel] = changes[t][rel]
       /\ \A rel \in rels \ DOMAIN changes[t] : changes'[t][rel] = Seen(t, rel)
  BY <1>8, <1>10 DEF Over
<1>12. Request(t)'
  BY SavingRequest
<1>13. HoldsOK(t)'
  <2>1. Busy(t)
    BY DEF Busy
  <2> QED BY <1>0, <1>1, <1>7, <1>11, <2>1 DEF HoldsOK
<1>14. ChangesRight(t)'
  <2> SUFFICES ASSUME NEW rel \in Relations
               PROVE  IF rel \in DOMAIN changes'[t] THEN changes'[t][rel] = Committed(rel)
                      ELSE Serialized(rel, Over(con, contacts), Over(par, parent)) = Committed(rel)
    BY <1>7 DEF ChangesRight, Seen, Committed
  <2>1. IF rel \in DOMAIN changes[t] THEN changes[t][rel] = Committed(rel) ELSE Seen(t, rel) = Committed(rel)
    BY <1>1 DEF ChangesRight
  <2> QED BY <1>0, <1>11, <2>1
<1>15. RecordsRight(t)'
  BY <1>7 DEF RecordsRight
<1>16. Busy(t) /\ \A s \in Thread \ {t} : Busy(s) => ~(OnChildren(req[s].ask) /\ OnChildren(req[t].ask))
  BY DEF HistInv, OneOnChildren, Busy
<1> QED
  BY <1>1, <1>7, <1>10, <1>12, <1>13, <1>14, <1>15, <1>16, OwnStep

(* One field of a request that is being saved.                             *)
LEMMA Written ==
  ASSUME RequestsOK, NEW t \in Thread, req[t].phase = "save", NEW x
  PROVE  /\ req' = [req EXCEPT ![t].contacts = x] =>
              /\ req'[t] = [phase |-> "save", ask |-> req[t].ask, contacts |-> x, parent |-> req[t].parent]
              /\ DOMAIN req' = Thread /\ \A s \in Thread \ {t} : req'[s] = req[s]
         /\ req' = [req EXCEPT ![t].parent = x] =>
              /\ req'[t] = [phase |-> "save", ask |-> req[t].ask, contacts |-> req[t].contacts, parent |-> x]
              /\ DOMAIN req' = Thread /\ \A s \in Thread \ {t} : req'[s] = req[s]
<1>1. DOMAIN req = Thread /\ Request(t)
  BY DEF RequestsOK
<1>2. PICK q, c, p : req[t] = [phase |-> "save", ask |-> q, contacts |-> c, parent |-> p]
  BY <1>1 DEF Request, Idle
<1>3. /\ [req[t] EXCEPT !.contacts = x]
            = [phase |-> "save", ask |-> req[t].ask, contacts |-> x, parent |-> req[t].parent]
      /\ [req[t] EXCEPT !.parent = x]
            = [phase |-> "save", ask |-> req[t].ask, contacts |-> req[t].contacts, parent |-> x]
  BY <1>2
<1>4. PICK a, b : a = [req[t] EXCEPT !.contacts = x] /\ b = [req[t] EXCEPT !.parent = x]
  OBVIOUS
<1>5. req' = [req EXCEPT ![t].contacts = x] => req' = [req EXCEPT ![t] = a]
  BY <1>4
<1>6. req' = [req EXCEPT ![t].parent = x] => req' = [req EXCEPT ![t] = b]
  BY <1>4
<1>7. req' = [req EXCEPT ![t] = a] =>
        req'[t] = a /\ DOMAIN req' = Thread /\ \A s \in Thread \ {t} : req'[s] = req[s]
  BY <1>1
<1>8. req' = [req EXCEPT ![t] = b] =>
        req'[t] = b /\ DOMAIN req' = Thread /\ \A s \in Thread \ {t} : req'[s] = req[s]
  BY <1>1
<1> QED BY <1>3, <1>4, <1>5, <1>6, <1>7, <1>8

LEMMA SetContactsHist ==
  ASSUME HistInv, NEW t \in Thread, NEW z \in Zoo, SetContacts(t, z)
  PROVE  HistInv'
<1> DEFINE want == req[t].ask.want[z]
           mine == <<"contacts", z>>
           con == Over(Only(z, want), req[t].contacts)
           rels == IF want = Seen(t, mine) THEN {} ELSE {mine}
<1>1. /\ req[t].phase = "save" /\ req[t].ask.kind = "put" /\ z \notin DOMAIN req[t].contacts /\ lock[z] = t
      /\ Change(t, rels) /\ req' = [req EXCEPT ![t].contacts = con]
      /\ UNCHANGED <<contacts, parent, lock, log, nextId, asks>>
  BY DEF SetContacts
<1>2. RequestsOK /\ HoldsOK(t) /\ Busy(t) /\ DOMAIN contacts = Zoo /\ DOMAIN parent = Child
  BY <1>1 DEF HistInv, RequestsOK, Busy
<1>3. DOMAIN con = DOMAIN req[t].contacts \cup {z} /\ con[z] = want
      /\ \A y \in DOMAIN req[t].contacts : con[y] = req[t].contacts[y]
  BY <1>1 DEF Over, Only
<1>4. Seen(t, mine) = contacts[z] /\ Committed(mine) = contacts[z]
  BY <1>1, <1>2, SerializedOver DEF Seen, Committed
<1> HIDE DEF con, want
<1>0. PICK par : par = req[t].parent
  OBVIOUS
<1>5. /\ req'[t] = [phase |-> "save", ask |-> req[t].ask, contacts |-> con, parent |-> par]
      /\ DOMAIN req' = Thread /\ \A s \in Thread \ {t} : req'[s] = req[s]
  BY <1>0, <1>1, <1>2, Written
<1>6. \A y \in DOMAIN con : y \in Zoo /\ lock[y] = t
  BY <1>1, <1>2, <1>3 DEF HoldsOK
<1>7. DOMAIN par \subseteq Child /\ (~OnChildren(req[t].ask) => par = << >>)
  BY <1>0, <1>2 DEF HoldsOK
<1>8. \A rel \in rels : /\ rel[1] = "contacts" /\ rel[2] \in DOMAIN con
                        /\ Seen(t, rel) = Committed(rel)
  BY <1>3, <1>4
<1>9. ASSUME NEW rel \in Relations \ rels, Seen(t, rel) = Committed(rel)
      PROVE  Serialized(rel, Over(con, contacts), Over(par, parent)) = Committed(rel)
  <2>1. PICK y \in Zoo : rel = <<"contacts", y>> \/ rel = <<"children", y>>
    BY RelationsAre
  <2>2. CASE rel = <<"contacts", y>> /\ y = z
    <3>1. want = contacts[z]
      BY <1>4, <1>9, <2>2
    <3> QED BY <1>2, <1>3, <1>4, <2>2, <3>1, SerializedOver
  <2>3. CASE rel = <<"contacts", y>> /\ y # z
    <3>1. Serialized(rel, Over(con, contacts), Over(par, parent)) = Seen(t, rel)
      BY <1>0, <1>2, <1>3, <2>3, SerializedOver DEF Seen
    <3> QED BY <1>9, <3>1
  <2>4. CASE rel = <<"children", y>>
    <3>1. rel[1] = "children"
      BY <2>4
    <3>2. Serialized(rel, Over(con, contacts), Over(par, parent)) = Seen(t, rel)
      BY <1>0, <3>1 DEF Seen, Serialized
    <3> QED BY <1>9, <3>2
  <2> QED BY <2>1, <2>2, <2>3, <2>4
<1>10. PICK rs, co : rs = rels /\ co = con
  OBVIOUS
<1>11. WriteOK(t, co, par, rs)
  BY <1>1, <1>3, <1>6, <1>7, <1>8, <1>9, <1>10 DEF WriteOK
<1>12. /\ req'[t] = [phase |-> "save", ask |-> req[t].ask, contacts |-> co, parent |-> par]
       /\ Change(t, rs) /\ req[t].phase = "save" /\ UNCHANGED <<contacts, parent, lock, log, nextId, asks>>
       /\ DOMAIN req' = Thread /\ \A s \in Thread \ {t} : req'[s] = req[s]
  BY <1>1, <1>5, <1>10
<1> QED BY <1>11, <1>12, WriteHist

(* The relations of a child's old parent and of its new one are those that *)
(* a save or a deletion of it changes.                                     *)
LEMMA ChildHist ==
  ASSUME HistInv, NEW t \in Thread, NEW c \in Child, NEW to,
         req[t].phase = "save", OnChildren(req[t].ask), req[t].parent = << >>,
         NEW rels, rels \subseteq {<<"children", z>> : z \in {parent[c], to}},
         \A z \in {parent[c], to} : <<"children", z>> \in Relations => <<"children", z>> \in rels,
         Change(t, rels), req' = [req EXCEPT ![t].parent = Only(c, to)],
         UNCHANGED <<contacts, parent, lock, log, nextId, asks>>
  PROVE  HistInv'
<1>1. RequestsOK /\ HoldsOK(t) /\ Busy(t) /\ DOMAIN contacts = Zoo /\ DOMAIN parent = Child
  BY DEF HistInv, RequestsOK, Busy
<1>2. DOMAIN Only(c, to) = {c} /\ Only(c, to)[c] = to
  BY DEF Only
<1>3. PICK par : par = Only(c, to)
  OBVIOUS
<1>4. /\ req'[t] = [phase |-> "save", ask |-> req[t].ask, contacts |-> req[t].contacts, parent |-> par]
      /\ DOMAIN req' = Thread /\ \A s \in Thread \ {t} : req'[s] = req[s]
  BY <1>1, <1>3, Written
<1>5. \A z \in DOMAIN req[t].contacts : z \in Zoo /\ lock[z] = t
  BY <1>1 DEF HoldsOK
<1>6. ASSUME NEW z \in Zoo
      PROVE  Seen(t, <<"children", z>>) = Committed(<<"children", z>>)
  BY <1>1, SameChildren, NothingWritten DEF Seen
<1>7. \A rel \in rels : /\ rel[1] = "children"
                        /\ rel \in Relations => Seen(t, rel) = Committed(rel)
  BY <1>6, RelationsAre
<1>8. ASSUME NEW rel \in Relations \ rels, Seen(t, rel) = Committed(rel)
      PROVE  Serialized(rel, Over(req[t].contacts, contacts), Over(par, parent)) = Committed(rel)
  <2>1. PICK y \in Zoo : rel = <<"contacts", y>> \/ rel = <<"children", y>>
    BY RelationsAre
  <2>2. CASE rel = <<"contacts", y>>
    <3>1. Serialized(rel, Over(req[t].contacts, contacts), Over(par, parent)) = Seen(t, rel)
      BY <1>1, <2>2, SerializedOver DEF Seen
    <3> QED BY <1>8, <3>1
  <2>3. CASE rel = <<"children", y>>
    <3>1. y # parent[c] /\ y # to
      BY <1>8, <2>3
    <3>2. \A d \in Child : (IF d \in DOMAIN par THEN par[d] ELSE parent[d]) = y <=> parent[d] = y
      BY <1>2, <1>3, <3>1
    <3> QED BY <1>1, <2>3, <3>2, SameChildren
  <2> QED BY <2>1, <2>2, <2>3
<1>9. DOMAIN par \subseteq Child
  BY <1>2, <1>3
<1>10. PICK co : co = req[t].contacts
  OBVIOUS
<1>11. WriteOK(t, co, par, rels)
  BY <1>5, <1>7, <1>8, <1>9, <1>10 DEF WriteOK
<1>12. /\ req'[t] = [phase |-> "save", ask |-> req[t].ask, contacts |-> co, parent |-> par]
       /\ DOMAIN req' = Thread /\ \A s \in Thread \ {t} : req'[s] = req[s]
  BY <1>4, <1>10
<1> QED BY <1>11, <1>12, WriteHist

LEMMA SaveChildHist ==
  ASSUME HistInv, NEW t \in Thread, SaveChild(t) \/ DeleteChild(t)
  PROVE  HistInv'
<1>1. RequestsOK /\ HoldsOK(t) /\ DOMAIN parent = Child
  BY DEF HistInv, RequestsOK
<1>2. AskOK(req[t].ask) /\ req[t].phase = "save" /\ OnChildren(req[t].ask) /\ req[t].parent = << >>
  BY <1>1 DEF SaveChild, DeleteChild, HoldsOK, Busy, OnChildren
<1>3. PICK c : c = req[t].ask.child
  OBVIOUS
<1>4. c \in Child
  BY <1>2, <1>3 DEF AskOK, OnChildren
<1>5. CASE SaveChild(t)
  <2>1. PICK to : to = req[t].ask.to
    OBVIOUS
  <2>2. PICK rels : rels = {<<"children", z>> : z \in Parents(parent[c], to) \ {None}}
    OBVIOUS
  <2>3. /\ Change(t, rels) /\ req' = [req EXCEPT ![t].parent = Only(c, to)]
        /\ UNCHANGED <<contacts, parent, lock, log, nextId, asks>>
    BY <1>3, <1>5, <2>1, <2>2 DEF SaveChild
  <2>4. rels \subseteq {<<"children", z>> : z \in {parent[c], to}}
    BY <2>2 DEF Parents
  <2>5. \A z \in {parent[c], to} : <<"children", z>> \in Relations => <<"children", z>> \in rels
    BY <2>2, RelationHistoryAssumption DEF Parents, Relations
  <2> QED BY <1>2, <1>4, <2>3, <2>4, <2>5, ChildHist
<1>6. CASE DeleteChild(t)
  <2>1. PICK rels : rels = {<<"children", z>> : z \in {parent[c]} \ {None}}
    OBVIOUS
  <2>2. /\ Change(t, rels) /\ req' = [req EXCEPT ![t].parent = Only(c, Absent)]
        /\ UNCHANGED <<contacts, parent, lock, log, nextId, asks>>
    BY <1>3, <1>6, <2>1 DEF DeleteChild
  <2>3. rels \subseteq {<<"children", z>> : z \in {parent[c], Absent}}
    BY <2>1
  <2>4. \A z \in {parent[c], Absent} : <<"children", z>> \in Relations => <<"children", z>> \in rels
    BY <2>1, RelationHistoryAssumption DEF Relations
  <2> QED BY <1>2, <1>4, <2>2, <2>3, <2>4, ChildHist
<1> QED BY <1>5, <1>6

-----------------------------------------------------------------------------

(* History's commit: of the relations that a transaction has changed those *)
(* are recorded that it sees other than they were.                         *)
LEMMA HistoryCommitHist ==
  ASSUME HistInv, NEW t \in Thread, HistoryCommit(t)
  PROVE  HistInv'
<1>1. /\ req[t].phase = "save" /\ changes' = [changes EXCEPT ![t] = << >>]
      /\ nextId' = IF Kept(t) = {} THEN nextId ELSE nextId + 1
      /\ UNCHANGED <<contacts, parent, lock, log, asks>>
  BY DEF HistoryCommit
<1>2. /\ RequestsOK /\ nextId \in Nat /\ HoldsOK(t) /\ ChangesRight(t) /\ Busy(t)
      /\ DOMAIN req = Thread /\ DOMAIN changes = Thread
  BY <1>1 DEF HistInv, IdsFresh, RequestsOK, Busy
<1>3. PICK recs : recs = Records(t)
  OBVIOUS
<1>4. PICK new : new = [phase |-> "commit", ask |-> req[t].ask, contacts |-> req[t].contacts,
                        parent |-> req[t].parent, records |-> recs]
  OBVIOUS
<1>5. req' = [req EXCEPT ![t] = new]
  BY <1>2, <1>3, <1>4 DEF HistoryCommit
<1>6. req'[t] = new /\ DOMAIN req' = Thread /\ \A s \in Thread \ {t} : req'[s] = req[s]
  BY <1>2, <1>5
<1>7. /\ req'[t].phase = "commit" /\ req'[t].ask = req[t].ask /\ req'[t].contacts = req[t].contacts
      /\ req'[t].parent = req[t].parent /\ req'[t].records = recs
  BY <1>4, <1>6
<1>8. changes'[t] = << >> /\ DOMAIN changes' = Thread /\ \A s \in Thread \ {t} : changes'[s] = changes[s]
  BY <1>1, <1>2
<1>9. Request(t)'
  BY <1>4, <1>6, <1>8, CommittingRequest
<1>10. HoldsOK(t)'
  BY <1>1, <1>2, <1>7, <1>8, NothingWritten DEF HoldsOK
<1>11. ChangesRight(t)'
  BY <1>7 DEF ChangesRight
<1>12. RecordsRight(t)'
  <2> SUFFICES ASSUME NEW rel \in Relations
               PROVE  IF Seen(t, rel) = Committed(rel) THEN {r \in recs : r.rel = rel} = {}
                      ELSE \E r : /\ {x \in recs : x.rel = rel} = {r}
                                  /\ r.removed = Committed(rel) \ Seen(t, rel)
                                  /\ r.added = Seen(t, rel) \ Committed(rel)
    <3>1. \A rel \in Relations : Seen(t, rel)' = Seen(t, rel) /\ Committed(rel)' = Committed(rel)
      BY <1>1, <1>7 DEF Seen, Committed
    <3>2. \A rel : RecordsOf(t, rel)' = {r \in recs : r.rel = rel}
      BY <1>7 DEF RecordsOf
    <3> QED BY <3>1, <3>2 DEF RecordsRight
  <2>1. IF rel \in DOMAIN changes[t] THEN changes[t][rel] = Committed(rel) ELSE Seen(t, rel) = Committed(rel)
    BY <1>1, <1>2 DEF ChangesRight
  <2>2. \A r \in recs : r.rel \in Kept(t)
    BY <1>3 DEF Records
  <2>3. CASE Seen(t, rel) = Committed(rel)
    BY <2>1, <2>2, <2>3 DEF Kept
  <2>4. CASE Seen(t, rel) # Committed(rel)
    <3>1. rel \in Kept(t) /\ changes[t][rel] = Committed(rel)
      BY <2>1, <2>4 DEF Kept
    <3>2. PICK r : r = [id |-> nextId, rel |-> rel, removed |-> changes[t][rel] \ Seen(t, rel),
                        added |-> Seen(t, rel) \ changes[t][rel]]
      OBVIOUS
    <3>3. r \in recs
      BY <1>3, <3>1, <3>2 DEF Records
    <3>4. ASSUME NEW x \in recs, x.rel = rel PROVE x = r
      <4>1. PICK k \in Kept(t) :
              x = [id |-> nextId, rel |-> k, removed |-> changes[t][k] \ Seen(t, k),
                   added |-> Seen(t, k) \ changes[t][k]]
        BY <1>3 DEF Records
      <4>2. k = rel
        BY <3>4, <4>1
      <4> QED BY <3>2, <4>1, <4>2
    <3>5. /\ r.rel = rel /\ r.removed = Committed(rel) \ Seen(t, rel)
          /\ r.added = Seen(t, rel) \ Committed(rel)
      BY <3>1, <3>2
    <3>6. {x \in recs : x.rel = rel} = {r}
      BY <3>3, <3>4, <3>5
    <3> QED BY <2>4, <3>5, <3>6
  <2> QED BY <2>3, <2>4
<1>13. \A r \in recs : r.id = nextId /\ nextId' = nextId + 1
  BY <1>1, <1>3 DEF Records
<1>14. nextId' \in Nat /\ nextId <= nextId' /\ \A r \in recs : r.id \in Nat /\ nextId <= r.id /\ r.id < nextId'
  BY <1>1, <1>2, <1>13
<1>15. \A s \in Thread \ {t} : Busy(s) => ~(OnChildren(req[s].ask) /\ OnChildren(req[t].ask))
  BY <1>2 DEF HistInv, OneOnChildren
<1> QED
  BY <1>1, <1>2, <1>6, <1>7, <1>8, <1>9, <1>10, <1>11, <1>12, <1>14, <1>15, OwnStep

-----------------------------------------------------------------------------

(* The commit: what a transaction saw is what everybody sees; a relation   *)
(* that another thread has changed is not affected, or it is one that the  *)
(* other thread sees as it is committed, before and after.                 *)
LEMMA CommitShows ==
  ASSUME HistInv, NEW t \in Thread, DbCommit(t), NEW rel \in Relations
  PROVE  Committed(rel)' = Seen(t, rel)
BY DEF DbCommit, Committed, Seen

LEMMA CommitOther ==
  ASSUME HistInv, NEW t \in Thread, DbCommit(t), NEW s \in Thread \ {t}, Busy(s), NEW rel \in Relations
  PROVE  \/ Seen(s, rel)' = Seen(s, rel) /\ Committed(rel)' = Committed(rel)
         \/ /\ Seen(s, rel) = Committed(rel) /\ Seen(s, rel)' = Committed(rel)'
            /\ rel \notin DOMAIN changes[s]
<1>1. /\ req[t].phase = "commit" /\ End(t) /\ RequestsOK /\ HoldsOK(t) /\ HoldsOK(s)
      /\ contacts' = Over(req[t].contacts, contacts) /\ parent' = Over(req[t].parent, parent)
  BY DEF DbCommit, HistInv
<1>2. Busy(t) /\ req'[s] = req[s] /\ DOMAIN contacts = Zoo /\ DOMAIN parent = Child
  BY <1>1, EndIsIdle DEF Busy, RequestsOK
<1>3. DOMAIN contacts' = Zoo /\ DOMAIN parent' = Child
  BY <1>1, <1>2 DEF HoldsOK, Over
<1>4. PICK z \in Zoo : rel = <<"contacts", z>> \/ rel = <<"children", z>>
  BY RelationsAre
<1>5. CASE rel = <<"contacts", z>>
  <2>1. /\ Seen(s, rel) = IF z \in DOMAIN req[s].contacts THEN req[s].contacts[z] ELSE contacts[z]
        /\ Committed(rel) = contacts[z]
    BY <1>2, <1>5, SerializedOver DEF Seen, Committed
  <2>2. /\ Seen(s, rel)' = IF z \in DOMAIN req[s].contacts THEN req[s].contacts[z] ELSE contacts'[z]
        /\ Committed(rel)' = contacts'[z]
    <3>1. \A wc, wp, con, par : DOMAIN con = Zoo /\ DOMAIN par = Child =>
            /\ Serialized(rel, Over(wc, con), Over(wp, par)) = IF z \in DOMAIN wc THEN wc[z] ELSE con[z]
            /\ Serialized(rel, con, par) = con[z]
      BY <1>5, SerializedOver
    <3> QED BY <1>2, <1>3, <3>1 DEF Seen, Committed
  <2>3. CASE z \in DOMAIN req[s].contacts
    <3>1. z \notin DOMAIN req[t].contacts
      BY <1>1, <1>2, <2>3 DEF HoldsOK
    <3>2. contacts'[z] = contacts[z]
      BY <1>1, <1>2, <3>1 DEF Over
    <3> QED BY <2>1, <2>2, <3>2
  <2>4. CASE z \notin DOMAIN req[s].contacts
    <3>1. rel \notin DOMAIN changes[s]
      BY <1>1, <1>5, <2>4 DEF HoldsOK
    <3> QED BY <2>1, <2>2, <2>4, <3>1
  <2> QED BY <2>3, <2>4
<1>6. CASE rel = <<"children", z>>
  <2>1. CASE OnChildren(req[s].ask)
    <3>1. req[t].parent = << >>
      BY <1>1, <1>2, <2>1 DEF HoldsOK, HistInv, OneOnChildren
    <3>2. \A c \in Child : parent'[c] = parent[c]
      BY <1>1, <1>2, <3>1, NothingWritten DEF Over
    <3>3. \A c \in Child : Over(req[s].parent, parent')[c] = Over(req[s].parent, parent)[c]
      BY <1>2, <1>3, <3>2 DEF Over
    <3>4. Committed(rel)' = Committed(rel)
      BY <1>6, <3>2 DEF Committed, Serialized
    <3>5. Seen(s, rel)' = Seen(s, rel)
      BY <1>2, <1>6, <3>3 DEF Seen, Serialized
    <3> QED BY <3>4, <3>5
  <2>2. CASE ~OnChildren(req[s].ask)
    <3>1. req[s].parent = << >> /\ rel \notin DOMAIN changes[s]
      BY <1>1, <1>6, <2>2 DEF HoldsOK
    <3>2. \A c \in Child : Over(req[s].parent, parent)[c] = parent[c]
                          /\ Over(req[s].parent, parent')[c] = parent'[c]
      BY <1>2, <1>3, <3>1, NothingWritten DEF Over
    <3>3. Seen(s, rel) = Committed(rel)
      BY <1>6, <3>2 DEF Seen, Committed, Serialized
    <3>4. Seen(s, rel)' = Committed(rel)'
      BY <1>2, <1>6, <3>2 DEF Seen, Committed, Serialized
    <3> QED BY <3>1, <3>3, <3>4
  <2> QED BY <2>1, <2>2
<1> QED BY <1>4, <1>5, <1>6

LEMMA DbCommitHist ==
  ASSUME HistInv, NEW t \in Thread, DbCommit(t)
  PROVE  HistInv'
<1>1. /\ req[t].phase = "commit" /\ End(t) /\ UNCHANGED <<nextId, asks>>
      /\ contacts' = Over(req[t].contacts, contacts) /\ parent' = Over(req[t].parent, parent)
  BY DEF DbCommit
<1>2. RequestsOK /\ HoldsOK(t) /\ Busy(t) /\ DOMAIN contacts = Zoo /\ DOMAIN parent = Child
  BY <1>1 DEF HistInv, RequestsOK, Busy
<1>3. DOMAIN contacts' = Zoo /\ DOMAIN parent' = Child
  BY <1>1, <1>2 DEF HoldsOK, Over
<1>4. /\ req'[t].phase = "idle" /\ changes'[t] = << >>
      /\ DOMAIN req' = Thread /\ DOMAIN changes' = Thread /\ DOMAIN lock' = Zoo \cup Child
      /\ \A s \in Thread \ {t} : req'[s] = req[s] /\ changes'[s] = changes[s]
      /\ \A r \in Zoo \cup Child : \A s \in Thread \ {t} : lock[r] = s => lock'[r] = s
      /\ Request(t)' /\ HoldsOK(t)' /\ ChangesRight(t)' /\ RecordsRight(t)' /\ ~Busy(t)'
  <2>1. req'[t] = Idle /\ DOMAIN lock = Zoo \cup Child
    BY <1>1, <1>2, EndIsIdle DEF RequestsOK
  <2>2. req'[t].phase = "idle"
    BY <2>1 DEF Idle
  <2> QED BY <1>1, <1>2, <2>1, <2>2, EndIsIdle
<1>5. RequestsOK'
  <2>1. \A s \in Thread \ {t} : Request(s)'
    BY <1>2, <1>4 DEF RequestsOK, Request
  <2> QED BY <1>1, <1>2, <1>3, <1>4, <2>1 DEF RequestsOK
<1>6. ASSUME NEW s \in Thread \ {t}
      PROVE  HoldsOK(s)' /\ ChangesRight(s)' /\ RecordsRight(s)'
  <2>1. HoldsOK(s) /\ ChangesRight(s) /\ RecordsRight(s) /\ req'[s] = req[s] /\ changes'[s] = changes[s]
    BY <1>4 DEF HistInv
  <2>2. HoldsOK(s)'
    BY <1>4, <2>1 DEF HoldsOK, Busy
  <2>3. ChangesRight(s)'
    <3>1. req[s].phase = "save" => Busy(s)
      BY DEF Busy
    <3> QED BY <2>1, <3>1, CommitOther DEF ChangesRight
  <2>4. RecordsRight(s)'
    <3>1. req[s].phase = "commit" => Busy(s)
      BY DEF Busy
    <3>2. \A rel : RecordsOf(s, rel)' = RecordsOf(s, rel)
      BY <2>1 DEF RecordsOf
    <3> QED BY <2>1, <3>1, <3>2, CommitOther DEF RecordsRight
  <2> QED BY <2>2, <2>3, <2>4
<1>7. OneOnChildren'
  BY <1>4 DEF HistInv, OneOnChildren, Busy
<1>8. IdsFresh'
  <2>1. nextId' \in Nat /\ nextId' = nextId /\ IdsFresh
    BY <1>1 DEF HistInv, IdsFresh
  <2>2. \A l \in log' : l \in log \/ \E r \in req[t].records : l.id = r.id
    BY DEF DbCommit
  <2>3. \A l \in log' : l.id \in Nat /\ l.id < nextId'
    BY <1>1, <2>1, <2>2 DEF IdsFresh
  <2>4. ASSUME NEW s \in Thread, req'[s].phase = "commit", NEW r \in req'[s].records
        PROVE  /\ r.id \in Nat /\ r.id < nextId' /\ \A l \in log' : l.id # r.id
               /\ \A u \in Thread \ {s} : req'[u].phase = "commit" => \A p \in req'[u].records : p.id # r.id
    <3>1. s # t /\ req'[s] = req[s]
      BY <1>4, <2>4
    <3>2. /\ r.id \in Nat /\ r.id < nextId /\ \A l \in log : l.id # r.id
          /\ \A u \in Thread \ {s} : req[u].phase = "commit" => \A p \in req[u].records : p.id # r.id
      BY <2>1, <2>4, <3>1 DEF IdsFresh
    <3>3. \A l \in log' : l.id # r.id
      BY <1>1, <2>2, <3>1, <3>2
    <3>4. \A u \in Thread \ {s} : req'[u].phase = "commit" => u # t /\ req'[u] = req[u]
      BY <1>4
    <3> QED BY <2>1, <3>2, <3>3, <3>4
  <2> QED BY <2>1, <2>3, <2>4 DEF IdsFresh
<1> QED BY <1>4, <1>5, <1>6, <1>7, <1>8 DEF HistInv

-----------------------------------------------------------------------------

LEMMA OthersLeaveIt ==
  (\E z \in Zoo : ViewHistory(z)) \/ (\E r \in log : FormatChange(r)) \/ Respond
    => UNCHANGED <<contacts, parent, lock, req, changes, log, nextId, asks>>
BY DEF ViewHistory, FormatChange, Respond

LEMMA StutterHist ==
  HistInv /\ UNCHANGED <<contacts, parent, lock, req, changes, log, nextId, asks>> => HistInv'
<1> SUFFICES ASSUME HistInv, UNCHANGED <<contacts, parent, lock, req, changes, log, nextId, asks>>
             PROVE  HistInv'
  OBVIOUS
<1>1. \A t, rel : Seen(t, rel)' = Seen(t, rel) /\ Committed(rel)' = Committed(rel)
  BY DEF Seen, Committed
<1>2. RequestsOK' /\ OneOnChildren' /\ IdsFresh'
  BY DEF HistInv, RequestsOK, Request, OneOnChildren, Busy, IdsFresh
<1>3. \A t \in Thread : HoldsOK(t)'
  BY DEF HistInv, HoldsOK, Busy
<1>4. \A t \in Thread : ChangesRight(t)' /\ RecordsRight(t)'
  BY <1>1 DEF HistInv, ChangesRight, RecordsRight, RecordsOf
<1> QED BY <1>2, <1>3, <1>4 DEF HistInv

LEMMA NextHist ==
  ASSUME Apart
  PROVE  HistInv /\ [Next]_vars => HistInv'
<1> SUFFICES ASSUME HistInv, [Next]_vars PROVE HistInv'
  OBVIOUS
<1>1. ASSUME NEW t \in Thread, Begin(t) PROVE HistInv'
  BY <1>1, BeginHist
<1>2. ASSUME NEW t \in Thread, Fail(t) PROVE HistInv'
  BY <1>2, FailHist
<1>3. ASSUME NEW t \in Thread, SaveChild(t) \/ DeleteChild(t) PROVE HistInv'
  BY <1>3, SaveChildHist
<1>4. ASSUME NEW t \in Thread, HistoryCommit(t) PROVE HistInv'
  BY <1>4, HistoryCommitHist
<1>5. ASSUME NEW t \in Thread, DbCommit(t) PROVE HistInv'
  BY <1>5, DbCommitHist
<1>6. ASSUME NEW t \in Thread, NEW z \in Zoo, SetContacts(t, z) PROVE HistInv'
  BY <1>6, SetContactsHist
<1>7. ASSUME NEW t \in Thread, NEW r \in Zoo \cup Child, Lock(t, r) PROVE HistInv'
  BY <1>7, LockHist
<1>8. CASE (\E z \in Zoo : ViewHistory(z)) \/ (\E r \in log : FormatChange(r)) \/ Respond
  BY <1>8, OthersLeaveIt, StutterHist
<1>9. CASE UNCHANGED vars
  BY <1>9, StutterHist DEF vars
<1> QED BY <1>1, <1>2, <1>3, <1>4, <1>5, <1>6, <1>7, <1>8, <1>9 DEF Next

(* What one step does to the committed relations and to the log.           *)
Recorded ==
  \A rel \in Relations :
    LET old == Committed(rel)
        new == Committed(rel)'
        recorded == {r \in log' \ log : r.rel = rel}
    IN IF old = new THEN recorded = {}
       ELSE /\ Cardinality(recorded) = 1
            /\ \A r \in recorded : r.removed = old \ new /\ r.added = new \ old

LEMMA DbCommitRecords ==
  ASSUME HistInv, NEW t \in Thread, DbCommit(t)
  PROVE  Recorded
<1> SUFFICES ASSUME NEW rel \in Relations
             PROVE  LET recorded == {r \in log' \ log : r.rel = rel}
                    IN IF Committed(rel) = Seen(t, rel) THEN recorded = {}
                       ELSE /\ Cardinality(recorded) = 1
                            /\ \A r \in recorded : /\ r.removed = Committed(rel) \ Seen(t, rel)
                                                   /\ r.added = Seen(t, rel) \ Committed(rel)
  BY CommitShows DEF Recorded
<1> DEFINE Logged(r) == [id |-> r.id, rel |-> r.rel, removed |-> r.removed, added |-> r.added,
                         was |-> Committed(r.rel), is |-> Seen(t, r.rel)]
           recorded == {r \in log' \ log : r.rel = rel}
<1>1. log' = log \cup {Logged(r) : r \in req[t].records} /\ req[t].phase = "commit"
  BY DEF DbCommit
<1>2. \A r : /\ Logged(r).id = r.id /\ Logged(r).rel = r.rel
             /\ Logged(r).removed = r.removed /\ Logged(r).added = r.added
  OBVIOUS
<1> HIDE DEF Logged
<1>3. \A r \in req[t].records : Logged(r) \notin log
  BY <1>1, <1>2 DEF HistInv, IdsFresh
<1>4. recorded = {Logged(r) : r \in RecordsOf(t, rel)}
  BY <1>1, <1>2, <1>3 DEF RecordsOf
<1>5. IF Seen(t, rel) = Committed(rel) THEN RecordsOf(t, rel) = {}
      ELSE \E r : /\ RecordsOf(t, rel) = {r} /\ r.removed = Committed(rel) \ Seen(t, rel)
                  /\ r.added = Seen(t, rel) \ Committed(rel)
  BY <1>1 DEF HistInv, RecordsRight
<1>6. CASE Seen(t, rel) = Committed(rel)
  BY <1>4, <1>5, <1>6
<1>7. CASE Seen(t, rel) # Committed(rel)
  <2>1. PICK r : /\ RecordsOf(t, rel) = {r} /\ r.removed = Committed(rel) \ Seen(t, rel)
                 /\ r.added = Seen(t, rel) \ Committed(rel)
    BY <1>5, <1>7
  <2>2. recorded = {Logged(r)}
    BY <1>4, <2>1
  <2>3. Cardinality(recorded) = 1
    BY <2>2, FS_Singleton
  <2> QED BY <1>2, <1>7, <2>1, <2>2, <2>3
<1> QED BY <1>6, <1>7

LEMMA OthersCommitNothing ==
  ASSUME [Next]_vars, ~\E t \in Thread : DbCommit(t)
  PROVE  UNCHANGED <<contacts, parent, log>>
BY DEF Next, vars, Begin, Fail, SaveChild, DeleteChild, HistoryCommit, SetContacts, Lock,
       ViewHistory, FormatChange, Respond

(* Requests that change contacts may overlap as they like: a relation      *)
(* changes only together with one record that says exactly what changed,   *)
(* and nothing is recorded of one that does not change.                    *)
THEOREM RelationsAreRecorded == ASSUME Apart PROVE Spec => RelationChangesRecorded
<1>1. Init => HistInv
  BY InitHist
<1>2. HistInv /\ [Next]_vars => HistInv'
  BY NextHist
<1>3. HistInv /\ [Next]_vars => [Recorded]_<<contacts, parent, log>>
  BY DbCommitRecords, OthersCommitNothing
<1> QED BY <1>1, <1>2, <1>3, PTL DEF Spec, RelationChangesRecorded, Recorded

-----------------------------------------------------------------------------

(* The records of one zoo's contacts, and two that follow one another.     *)
Of(z) == {r \in log : r.rel = <<"contacts", z>>}
Follows(s, r, z) == r.id < s.id /\ \A q \in Of(z) : ~(r.id < q.id /\ q.id < s.id)

(* They are a chain that ends with the contacts of now: each says what was *)
(* removed and added between two sets, the first of which is the second of *)
(* the record before it.                                                   *)
ChainOK(z) ==
  /\ contacts[z] \subseteq Contact
  /\ \A r \in Of(z) : /\ r.was \subseteq Contact /\ r.is \subseteq Contact
                      /\ r.removed = r.was \ r.is /\ r.added = r.is \ r.was
                      /\ (\A q \in Of(z) : q.id <= r.id) => r.is = contacts[z]
                      /\ \A s \in Of(z) : /\ r.id = s.id => r = s
                                          /\ Follows(s, r, z) => s.was = r.is

(* What a request is about to add to a chain comes after it.               *)
ThreadOK(t) ==
  /\ Busy(t) => \A z \in DOMAIN req[t].contacts : req[t].contacts[z] \subseteq Contact
  /\ \A rel \in DOMAIN changes[t] : rel[1] = "contacts" => rel \in Relations
  /\ req[t].phase = "commit" => \A p \in req[t].records : p.rel[1] = "contacts" =>
       /\ p.rel \in Relations /\ p.rel[2] \in DOMAIN req[t].contacts
       /\ \A l \in log : l.rel = p.rel => l.id < p.id

LogInv == /\ \A z \in Zoo : ChainOK(z)
          /\ \A l \in log : l.rel[1] = "contacts" => l.rel \in Relations
          /\ \A t \in Thread : ThreadOK(t)

LEMMA InitLog == Init => LogInv
<1> SUFFICES ASSUME Init PROVE LogInv
  OBVIOUS
<1>1. PICK f \in Families : contacts \in f.contacts
  BY DEF Init
<1>2. req = [t \in Thread |-> Idle] /\ changes = [t \in Thread |-> << >>] /\ log = {}
  BY DEF Init
<1>3. \A z \in Zoo : contacts[z] \subseteq Contact
  BY <1>1, RelationHistoryAssumption
<1>4. \A t \in Thread : ThreadOK(t)
  BY <1>2, NothingWritten DEF ThreadOK, Busy, Idle
<1> QED BY <1>2, <1>3, <1>4 DEF LogInv, ChainOK, Of

(* A step that commits nothing keeps the chains, and what it is about to   *)
(* add if its own part is right.                                           *)
LEMMA ChainKeeps ==
  ASSUME NEW z, ChainOK(z), contacts'[z] = contacts[z], Of(z)' = Of(z)
  PROVE  ChainOK(z)'
BY DEF ChainOK, Follows

LEMMA OwnLog ==
  ASSUME LogInv, NEW t \in Thread, UNCHANGED <<contacts, log>>, ThreadOK(t)',
         \A s \in Thread \ {t} : req'[s] = req[s] /\ changes'[s] = changes[s]
  PROVE  LogInv'
<1>1. \A z \in Zoo : ChainOK(z)'
  BY ChainKeeps DEF LogInv, Of
<1>2. \A s \in Thread \ {t} : ThreadOK(s)'
  BY DEF LogInv, ThreadOK, Busy
<1> QED BY <1>1, <1>2 DEF LogInv

LEMMA EndLog ==
  ASSUME RequestsOK, NEW t \in Thread, End(t)
  PROVE  ThreadOK(t)'
<1>1. req'[t] = Idle /\ changes'[t] = << >>
  BY EndIsIdle
<1> QED BY <1>1, NothingWritten DEF ThreadOK, Busy, Idle

LEMMA BeginLog ==
  ASSUME HistInv, LogInv, NEW t \in Thread, Begin(t)
  PROVE  LogInv'
<1>1. /\ req[t] = Idle /\ UNCHANGED <<contacts, changes, log>> /\ RequestsOK /\ DOMAIN req = Thread
  BY DEF Begin, HistInv, RequestsOK
<1>2. PICK new : /\ new.phase = "save" /\ new.contacts = << >>
                 /\ req' = [req EXCEPT ![t] = new]
  BY DEF Begin
<1>3. ThreadOK(t)'
  BY <1>1, <1>2, NothingWritten DEF LogInv, ThreadOK
<1> QED BY <1>1, <1>2, <1>3, OwnLog

(* Relations that a request has changed are its own and the given ones.    *)
LEMMA ChangeDomain ==
  ASSUME RequestsOK, NEW t \in Thread, NEW rels, Change(t, rels)
  PROVE  /\ DOMAIN changes'[t] = DOMAIN changes[t] \cup rels
         /\ \A s \in Thread \ {t} : changes'[s] = changes[s]
<1>1. changes' = [changes EXCEPT ![t] = Over(@, [rel \in rels |-> Seen(t, rel)])] /\ DOMAIN changes = Thread
  BY DEF Change, RequestsOK
<1>2. PICK c : c = Over(changes[t], [rel \in rels |-> Seen(t, rel)])
  OBVIOUS
<1>3. DOMAIN c = DOMAIN changes[t] \cup rels
  BY <1>2 DEF Over
<1>4. changes' = [changes EXCEPT ![t] = c]
  BY <1>1, <1>2
<1> QED BY <1>1, <1>3, <1>4

LEMMA SetContactsLog ==
  ASSUME HistInv, LogInv, NEW t \in Thread, NEW z \in Zoo, SetContacts(t, z)
  PROVE  LogInv'
<1> DEFINE want == req[t].ask.want[z]
           con == Over(Only(z, want), req[t].contacts)
           rels == IF want = Seen(t, <<"contacts", z>>) THEN {} ELSE {<<"contacts", z>>}
<1>1. /\ req[t].phase = "save" /\ req[t].ask.kind = "put" /\ z \in DOMAIN req[t].ask.want
      /\ Change(t, rels) /\ req' = [req EXCEPT ![t].contacts = con]
      /\ UNCHANGED <<contacts, log>>
  BY DEF SetContacts
<1>2. RequestsOK /\ HoldsOK(t) /\ Busy(t) /\ ThreadOK(t)
  BY <1>1 DEF HistInv, LogInv, Busy
<1>3. want \subseteq Contact
  BY <1>1, <1>2 DEF HoldsOK, AskOK
<1>4. /\ DOMAIN con = DOMAIN req[t].contacts \cup {z} /\ con[z] \in {want, req[t].contacts[z]}
      /\ \A y \in DOMAIN req[t].contacts : y # z => con[y] = req[t].contacts[y]
      /\ z \in DOMAIN req[t].contacts \/ con[z] = want
  BY DEF Over, Only
<1>5. rels \subseteq Relations
  BY DEF Relations
<1> HIDE DEF con, want, rels
<1>6. \A y \in DOMAIN con : con[y] \subseteq Contact
  <2>1. \A y \in DOMAIN req[t].contacts : req[t].contacts[y] \subseteq Contact
    BY <1>2 DEF ThreadOK
  <2> SUFFICES ASSUME NEW y \in DOMAIN con PROVE con[y] \subseteq Contact
    OBVIOUS
  <2>2. con[y] = want \/ (y \in DOMAIN req[t].contacts /\ con[y] = req[t].contacts[y])
    BY <1>4
  <2> QED BY <1>3, <2>1, <2>2
<1>7. PICK co, par : co = con /\ par = req[t].parent
  OBVIOUS
<1>8. /\ req'[t] = [phase |-> "save", ask |-> req[t].ask, contacts |-> co, parent |-> par]
      /\ \A s \in Thread \ {t} : req'[s] = req[s]
  BY <1>1, <1>2, <1>7, Written
<1>9. /\ DOMAIN changes'[t] = DOMAIN changes[t] \cup rels
      /\ \A s \in Thread \ {t} : changes'[s] = changes[s]
  BY <1>1, <1>2, ChangeDomain
<1>10. req'[t].phase = "save" /\ req'[t].contacts = co
  BY <1>8
<1>11. ThreadOK(t)'
  BY <1>2, <1>5, <1>6, <1>7, <1>9, <1>10 DEF ThreadOK
<1> QED BY <1>1, <1>8, <1>9, <1>11, OwnLog

LEMMA ChildLog ==
  ASSUME HistInv, LogInv, NEW t \in Thread, SaveChild(t) \/ DeleteChild(t)
  PROVE  LogInv'
<1>1. PICK rels, par : /\ \A rel \in rels : rel[1] = "children"
                       /\ Change(t, rels) /\ req' = [req EXCEPT ![t].parent = par]
  <2>1. CASE SaveChild(t)
    <3>1. PICK rels : rels = {<<"children", z>> : z \in Parents(parent[req[t].ask.child], req[t].ask.to) \ {None}}
      OBVIOUS
    <3>2. /\ Change(t, rels)
          /\ req' = [req EXCEPT ![t].parent = Only(req[t].ask.child, req[t].ask.to)]
      BY <2>1, <3>1 DEF SaveChild
    <3>3. \A rel \in rels : rel[1] = "children"
      BY <3>1
    <3> QED BY <3>2, <3>3
  <2>2. CASE DeleteChild(t)
    <3>1. PICK rels : rels = {<<"children", z>> : z \in {parent[req[t].ask.child]} \ {None}}
      OBVIOUS
    <3>2. /\ Change(t, rels)
          /\ req' = [req EXCEPT ![t].parent = Only(req[t].ask.child, Absent)]
      BY <2>2, <3>1 DEF DeleteChild
    <3>3. \A rel \in rels : rel[1] = "children"
      BY <3>1
    <3> QED BY <3>2, <3>3
  <2> QED BY <2>1, <2>2
<1>2. /\ UNCHANGED <<contacts, log>> /\ req[t].phase = "save" /\ RequestsOK /\ ThreadOK(t) /\ Busy(t)
  BY DEF SaveChild, DeleteChild, HistInv, LogInv, Busy
<1>3. PICK co : co = req[t].contacts
  OBVIOUS
<1>4. /\ req'[t] = [phase |-> "save", ask |-> req[t].ask, contacts |-> co, parent |-> par]
      /\ \A s \in Thread \ {t} : req'[s] = req[s]
  BY <1>1, <1>2, <1>3, Written
<1>5. /\ DOMAIN changes'[t] = DOMAIN changes[t] \cup rels
      /\ \A s \in Thread \ {t} : changes'[s] = changes[s]
  BY <1>1, <1>2, ChangeDomain
<1>6. req'[t].phase = "save" /\ req'[t].contacts = req[t].contacts
  BY <1>3, <1>4
<1>7. ThreadOK(t)'
  BY <1>1, <1>2, <1>5, <1>6 DEF ThreadOK
<1> QED BY <1>2, <1>4, <1>5, <1>7, OwnLog

LEMMA HistoryCommitLog ==
  ASSUME HistInv, LogInv, NEW t \in Thread, HistoryCommit(t)
  PROVE  LogInv'
<1>1. /\ req[t].phase = "save" /\ changes' = [changes EXCEPT ![t] = << >>]
      /\ UNCHANGED <<contacts, log>>
  BY DEF HistoryCommit
<1>2. /\ RequestsOK /\ HoldsOK(t) /\ Busy(t) /\ ThreadOK(t) /\ DOMAIN req = Thread /\ DOMAIN changes = Thread
      /\ \A l \in log : l.id < nextId
  BY <1>1 DEF HistInv, IdsFresh, RequestsOK, Busy, LogInv
<1>3. PICK recs : recs = Records(t)
  OBVIOUS
<1>4. PICK new : new = [phase |-> "commit", ask |-> req[t].ask, contacts |-> req[t].contacts,
                        parent |-> req[t].parent, records |-> recs]
  OBVIOUS
<1>5. req' = [req EXCEPT ![t] = new]
  BY <1>2, <1>3, <1>4 DEF HistoryCommit
<1>6. /\ req'[t].phase = "commit" /\ req'[t].contacts = req[t].contacts /\ req'[t].records = recs
      /\ \A s \in Thread \ {t} : req'[s] = req[s]
  BY <1>2, <1>4, <1>5
<1>7. changes'[t] = << >> /\ \A s \in Thread \ {t} : changes'[s] = changes[s]
  BY <1>1, <1>2
<1>8. \A p \in recs : p.rel \in DOMAIN changes[t] /\ p.id = nextId
  BY <1>3 DEF Records, Kept
<1>9. ASSUME NEW p \in recs, p.rel[1] = "contacts"
      PROVE  /\ p.rel \in Relations /\ p.rel[2] \in DOMAIN req[t].contacts
             /\ \A l \in log : l.rel = p.rel => l.id < p.id
  BY <1>2, <1>8, <1>9 DEF HoldsOK, ThreadOK
<1>10. ThreadOK(t)'
  BY <1>1, <1>2, <1>6, <1>7, <1>9, NothingWritten DEF ThreadOK
<1> QED BY <1>1, <1>6, <1>7, <1>10, OwnLog

-----------------------------------------------------------------------------

(* The commit puts one record at the end of the chain of every zoo whose   *)
(* contacts it changes, and none in another.                               *)
LEMMA DbCommitChain ==
  ASSUME HistInv, LogInv, NEW t \in Thread, DbCommit(t), NEW z \in Zoo
  PROVE  \/ contacts'[z] = contacts[z] /\ Of(z)' = Of(z)
         \/ /\ z \in DOMAIN req[t].contacts /\ contacts'[z] \subseteq Contact
            /\ \E new : /\ Of(z)' = Of(z) \cup {new} /\ new \notin Of(z)
                        /\ new.was = contacts[z] /\ new.is = contacts'[z]
                        /\ new.removed = new.was \ new.is /\ new.added = new.is \ new.was
                        /\ \A l \in Of(z) : l.id < new.id
<1> DEFINE rel == <<"contacts", z>>
           Logged(r) == [id |-> r.id, rel |-> r.rel, removed |-> r.removed, added |-> r.added,
                         was |-> Committed(r.rel), is |-> Seen(t, r.rel)]
<1>0. rel \in Relations /\ rel[1] = "contacts" /\ rel[2] = z
  BY DEF Relations
<1>1. /\ log' = log \cup {Logged(r) : r \in req[t].records} /\ req[t].phase = "commit"
      /\ contacts' = Over(req[t].contacts, contacts)
  BY DEF DbCommit
<1>2. RequestsOK /\ HoldsOK(t) /\ Busy(t) /\ ThreadOK(t) /\ DOMAIN contacts = Zoo /\ DOMAIN parent = Child
  BY <1>1 DEF HistInv, LogInv, RequestsOK, Busy
<1>3. Committed(rel) = contacts[z] /\ Seen(t, rel) = contacts'[z]
  <2>1. /\ Seen(t, rel) = IF z \in DOMAIN req[t].contacts THEN req[t].contacts[z] ELSE contacts[z]
        /\ Committed(rel) = contacts[z]
    BY <1>2, SerializedOver DEF Seen, Committed
  <2>2. contacts'[z] = IF z \in DOMAIN req[t].contacts THEN req[t].contacts[z] ELSE contacts[z]
    BY <1>1, <1>2 DEF Over
  <2> QED BY <2>1, <2>2
<1>4. \A r : /\ Logged(r).id = r.id /\ Logged(r).rel = r.rel
             /\ Logged(r).removed = r.removed /\ Logged(r).added = r.added
             /\ Logged(r).was = Committed(r.rel) /\ Logged(r).is = Seen(t, r.rel)
  OBVIOUS
<1>5. /\ Of(z) = {l \in log : l.rel = rel}
      /\ Of(z)' = {l \in log' : l.rel = rel}
  BY DEF Of
<1>6. IF Seen(t, rel) = Committed(rel) THEN RecordsOf(t, rel) = {}
      ELSE \E r : /\ RecordsOf(t, rel) = {r} /\ r.removed = Committed(rel) \ Seen(t, rel)
                  /\ r.added = Seen(t, rel) \ Committed(rel)
  BY <1>0, <1>1 DEF HistInv, RecordsRight
<1>7. RecordsOf(t, rel) = {r \in req[t].records : r.rel = rel}
  BY DEF RecordsOf
<1> HIDE DEF Logged, rel
<1>8. Of(z)' = Of(z) \cup {Logged(r) : r \in RecordsOf(t, rel)}
  BY <1>1, <1>4, <1>5, <1>7
<1>9. CASE Seen(t, rel) = Committed(rel)
  BY <1>3, <1>6, <1>8, <1>9
<1>10. CASE Seen(t, rel) # Committed(rel)
  <2>1. PICK r : /\ RecordsOf(t, rel) = {r} /\ r.removed = Committed(rel) \ Seen(t, rel)
                 /\ r.added = Seen(t, rel) \ Committed(rel)
    BY <1>6, <1>10
  <2>2. r \in req[t].records /\ r.rel = rel
    BY <1>7, <2>1
  <2>3. PICK new : new = Logged(r)
    OBVIOUS
  <2>4. /\ new.was = contacts[z] /\ new.is = contacts'[z] /\ new.id = r.id
        /\ new.removed = new.was \ new.is /\ new.added = new.is \ new.was
    BY <1>3, <1>4, <2>1, <2>2, <2>3
  <2>5. z \in DOMAIN req[t].contacts /\ \A l \in log : l.rel = rel => l.id < r.id
    BY <1>0, <1>1, <1>2, <2>2 DEF ThreadOK
  <2>6. contacts'[z] \subseteq Contact
    <3>1. contacts'[z] = req[t].contacts[z]
      BY <1>1, <1>2, <2>5 DEF Over
    <3> QED BY <1>2, <2>5, <3>1 DEF ThreadOK
  <2>7. Of(z)' = Of(z) \cup {new}
    BY <1>8, <2>1, <2>3
  <2>8. \A l \in Of(z) : l.id < new.id /\ l.id \in Nat
    BY <1>5, <2>4, <2>5 DEF HistInv, IdsFresh
  <2>9. new \notin Of(z)
    BY <2>8
  <2> QED BY <2>4, <2>5, <2>6, <2>7, <2>8, <2>9
<1> QED BY <1>9, <1>10

LEMMA DbCommitLog ==
  ASSUME HistInv, LogInv, NEW t \in Thread, DbCommit(t)
  PROVE  LogInv'
<1>1. /\ req[t].phase = "commit" /\ End(t) /\ RequestsOK /\ HoldsOK(t) /\ ThreadOK(t) /\ Busy(t)
  BY DEF DbCommit, HistInv, LogInv, Busy
<1>2. ASSUME NEW l \in log' PROVE l \in log \/ \E p \in req[t].records : l.rel = p.rel /\ l.id = p.id
  BY <1>2 DEF DbCommit
<1>3. \A l \in log' : l.rel[1] = "contacts" => l.rel \in Relations
  BY <1>1, <1>2 DEF LogInv, ThreadOK
<1>4. ThreadOK(t)'
  BY <1>1, EndLog
<1>5. ASSUME NEW s \in Thread \ {t} PROVE ThreadOK(s)'
  <2>1. req'[s] = req[s] /\ changes'[s] = changes[s] /\ ThreadOK(s) /\ HoldsOK(s)
    BY <1>1, EndIsIdle DEF LogInv, HistInv
  <2>2. ASSUME req[s].phase = "commit", NEW p \in req[s].records, p.rel[1] = "contacts"
        PROVE  \A l \in log' : l.rel = p.rel => l.id < p.id
    <3> SUFFICES ASSUME NEW l \in log', l.rel = p.rel PROVE l.id < p.id
      OBVIOUS
    <3>1. Busy(s) /\ p.rel[2] \in DOMAIN req[s].contacts /\ (l \in log => l.id < p.id)
      BY <2>1, <2>2 DEF ThreadOK, Busy
    <3>2. ASSUME NEW q \in req[t].records, l.rel = q.rel PROVE FALSE
      <4>1. q.rel[2] \in DOMAIN req[t].contacts /\ q.rel = p.rel
        BY <1>1, <2>2, <3>2 DEF ThreadOK
      <4> QED BY <1>1, <2>1, <3>1, <4>1 DEF HoldsOK
    <3> QED BY <1>2, <3>1, <3>2
  <2> QED BY <2>1, <2>2 DEF ThreadOK, Busy
<1>6. ASSUME NEW z \in Zoo PROVE ChainOK(z)'
  <2>1. ChainOK(z)
    BY DEF LogInv
  <2>2. CASE contacts'[z] = contacts[z] /\ Of(z)' = Of(z)
    BY <2>1, <2>2, ChainKeeps
  <2>3. ASSUME NEW new, Of(z)' = Of(z) \cup {new}, new \notin Of(z),
               new.was = contacts[z], new.is = contacts'[z], contacts'[z] \subseteq Contact,
               new.removed = new.was \ new.is, new.added = new.is \ new.was,
               \A l \in Of(z) : l.id < new.id
        PROVE  ChainOK(z)'
    <3>1. ASSUME NEW r \in Of(z)'
          PROVE  /\ r.was \subseteq Contact /\ r.is \subseteq Contact
                 /\ r.removed = r.was \ r.is /\ r.added = r.is \ r.was
      BY <2>1, <2>3 DEF ChainOK
    <3>2. \A r \in Of(z)' : r.id \in Nat
      <4>1. \A l \in log' : l.id \in Nat
        BY DbCommitHist DEF HistInv, IdsFresh
      <4> QED BY <4>1 DEF Of
    <3>3. ASSUME NEW r \in Of(z)', \A q \in Of(z)' : q.id <= r.id PROVE r.is = contacts'[z]
      BY <2>3, <3>2, <3>3
    <3>4. ASSUME NEW r \in Of(z)', NEW s \in Of(z)', r.id = s.id PROVE r = s
      BY <2>1, <2>3, <3>2, <3>4 DEF ChainOK
    <3>5. ASSUME NEW r \in Of(z)', NEW s \in Of(z)', Follows(s, r, z)' PROVE s.was = r.is
      <4>1. r.id < s.id /\ \A q \in Of(z)' : ~(r.id < q.id /\ q.id < s.id)
        BY <3>5 DEF Follows
      <4>2. r \in Of(z)
        BY <2>3, <3>2, <4>1
      <4>3. CASE s = new
        <5>1. \A q \in Of(z) : q.id <= r.id
          BY <2>3, <3>2, <4>1, <4>3
        <5> QED BY <2>1, <2>3, <4>2, <4>3, <5>1 DEF ChainOK
      <4>4. CASE s # new
        BY <2>1, <2>3, <4>1, <4>2, <4>4 DEF ChainOK, Follows
      <4> QED BY <4>3, <4>4
    <3> QED BY <2>3, <3>1, <3>3, <3>4, <3>5 DEF ChainOK
  <2> QED BY <2>2, <2>3, DbCommitChain
<1> QED BY <1>3, <1>4, <1>5, <1>6 DEF LogInv

LEMMA NextLog == HistInv /\ LogInv /\ [Next]_vars => LogInv'
<1> SUFFICES ASSUME HistInv, LogInv, [Next]_vars PROVE LogInv'
  OBVIOUS
<1>1. ASSUME NEW t \in Thread, Begin(t) PROVE LogInv'
  BY <1>1, BeginLog
<1>2. ASSUME NEW t \in Thread, Fail(t) PROVE LogInv'
  <2>1. End(t) /\ UNCHANGED <<contacts, log>> /\ RequestsOK
    BY <1>2 DEF Fail, HistInv
  <2> QED BY <2>1, EndLog, EndIsIdle, OwnLog
<1>3. ASSUME NEW t \in Thread, SaveChild(t) \/ DeleteChild(t) PROVE LogInv'
  BY <1>3, ChildLog
<1>4. ASSUME NEW t \in Thread, HistoryCommit(t) PROVE LogInv'
  BY <1>4, HistoryCommitLog
<1>5. ASSUME NEW t \in Thread, DbCommit(t) PROVE LogInv'
  BY <1>5, DbCommitLog
<1>6. ASSUME NEW t \in Thread, NEW z \in Zoo, SetContacts(t, z) PROVE LogInv'
  BY <1>6, SetContactsLog
<1>7. ASSUME UNCHANGED <<contacts, req, changes, log>> PROVE LogInv'
  <2>1. \A z \in Zoo : ChainOK(z)'
    BY <1>7, ChainKeeps DEF LogInv, Of
  <2>2. \A t \in Thread : ThreadOK(t)'
    BY <1>7 DEF LogInv, ThreadOK, Busy
  <2> QED BY <1>7, <2>1, <2>2 DEF LogInv
<1>8. ASSUME NEW t \in Thread, NEW r \in Zoo \cup Child, Lock(t, r) PROVE LogInv'
  BY <1>7, <1>8 DEF Lock
<1>9. CASE (\E z \in Zoo : ViewHistory(z)) \/ (\E r \in log : FormatChange(r)) \/ Respond
  BY <1>7, <1>9, OthersLeaveIt
<1>10. CASE UNCHANGED vars
  BY <1>7, <1>10 DEF vars
<1> QED BY <1>1, <1>2, <1>3, <1>4, <1>5, <1>6, <1>8, <1>9, <1>10 DEF Next

-----------------------------------------------------------------------------

(* The view goes back along the chain: what it has not shown yet is older  *)
(* than what it has, and its tracker is the set after the newest of these. *)
ViewTypeOK ==
  /\ view.phase \in {"list", "format"} /\ view.zoo \in Zoo /\ view.todo \subseteq log
  /\ view = [phase |-> view.phase, zoo |-> view.zoo, late |-> view.late, today |-> view.today,
             todo |-> view.todo, tracker |-> view.tracker, shown |-> view.shown]
  /\ \A r \in view.todo : r.rel[1] = "contacts"
  /\ \A entry \in view.shown : entry.record.rel[1] = "contacts"
BackOK == \A q \in Of(view.zoo) \ view.todo, r \in Of(view.zoo) \cap view.todo : r.id < q.id
ListOK == view.phase = "list" => view.shown = {} /\ (~view.late => Of(view.zoo) \subseteq view.todo)
TrackerOK ==
  view.phase = "format" /\ ~view.late /\ view.today # {} /\ Mine = view.shown =>
    /\ \A entry \in view.shown : Right(entry)
    /\ \A r \in Of(view.zoo) \cap view.todo :
         (\A s \in Of(view.zoo) \cap view.todo : s.id <= r.id) => r.is = view.tracker
ViewOK == view # NoView => ViewTypeOK /\ BackOK /\ ListOK /\ TrackerOK

(* One change, from a tracker that is the set after it.                    *)
LEMMA FormatsRight ==
  ASSUME NEW was, NEW is, was \subseteq Contact, is \subseteq Contact
  PROVE  LET after == FormatAfter(is, is \ was)
             before == FormatBefore(after.tracker, was \ is)
         IN after.shown = Once(is) /\ before.shown = Once(was) /\ before.tracker = was
<1> DEFINE after == FormatAfter(is, is \ was)
           before == FormatBefore(after.tracker, was \ is)
<1>1. None \notin is \cup was
  BY RelationHistoryAssumption
<1>2. (is \ was) \ is = {}
  OBVIOUS
<1>3. after = [tracker |-> is \ {id \in is \ was : \A m \in {} : id < m}, shown |-> Shown(is, {})]
  BY <1>2 DEF FormatAfter
<1>4. after.tracker = is \cap was /\ after.shown = Shown(is, {})
  <2>1. {id \in is \ was : \A m \in {} : id < m} = is \ was
    OBVIOUS
  <2>2. is \ (is \ was) = is \cap was
    OBVIOUS
  <2> QED BY <1>3, <2>1, <2>2
<1>5. before = [tracker |-> (is \cap was) \cup (was \ is), shown |-> Shown(is \cap was, was \ is)]
  BY <1>4 DEF FormatBefore
<1>6. /\ (is \cap was) \cup (was \ is) = was /\ (is \cap was) \cap (was \ is) = {}
      /\ is \cup {} = is /\ is \cap {} = {}
  OBVIOUS
<1>7. Shown(is, {}) = Once(is)
  BY <1>1, <1>6 DEF Shown, Once
<1>8. Shown(is \cap was, was \ is) = Once(was)
  BY <1>1, <1>6 DEF Shown, Once
<1> QED BY <1>4, <1>5, <1>6, <1>7, <1>8

LEMMA FormatView ==
  ASSUME HistInv, LogInv, ViewOK, NEW r \in log, FormatChange(r)
  PROVE  ViewOK'
<1>0. PICK z : z = view.zoo
  OBVIOUS
<1> DEFINE first == view.phase = "list"
           tracker == IF first THEN Today(view.zoo) ELSE view.tracker
           after == FormatAfter(tracker, r.added)
           before == FormatBefore(after.tracker, r.removed)
           entry == [record |-> r, after |-> after.shown, before |-> before.shown]
<1>1. /\ view.phase \in {"list", "format"} /\ r \in view.todo /\ \A s \in view.todo \ {r} : Newer(r, s)
      /\ UNCHANGED <<contacts, log>>
  BY DEF FormatChange
<1>2. view # NoView
  BY <1>1 DEF NoView
<1>3. ViewTypeOK /\ BackOK /\ ListOK /\ TrackerOK
  BY <1>2 DEF ViewOK
<1>4. /\ view'.phase = "format" /\ view'.zoo = z /\ view'.late = view.late
      /\ view'.today = (IF first THEN contacts[view.zoo] ELSE view.today)
      /\ view'.todo = view.todo \ {r} /\ view'.tracker = before.tracker
      /\ view'.shown = view.shown \cup {entry}
      /\ view' = [phase |-> view'.phase, zoo |-> view'.zoo, late |-> view'.late, today |-> view'.today,
                  todo |-> view'.todo, tracker |-> view'.tracker, shown |-> view'.shown]
  <2>1. view = [phase |-> view.phase, zoo |-> view.zoo, late |-> view.late, today |-> view.today,
                todo |-> view.todo, tracker |-> view.tracker, shown |-> view.shown]
    BY <1>3 DEF ViewTypeOK
  <2>2. view' = [view EXCEPT !.phase = "format",
                             !.today = IF first THEN contacts[view.zoo] ELSE @,
                             !.todo = @ \ {r},
                             !.tracker = before.tracker,
                             !.shown = @ \cup {entry}]
    BY DEF FormatChange
  <2> HIDE DEF first, before, entry
  <2> QED BY <1>0, <2>1, <2>2
<1>5. Of(z)' = Of(z) /\ z \in Zoo /\ z \in Nat /\ r.rel[1] = "contacts" /\ entry.record = r
  BY <1>0, <1>1, <1>3, RelationHistoryAssumption DEF Of, ViewTypeOK
<1> HIDE DEF tracker, after, before, entry
<1>6. \A s \in Of(z) : s.id \in Nat
  BY DEF HistInv, IdsFresh, Of
<1>7. ViewTypeOK'
  BY <1>1, <1>3, <1>4, <1>5 DEF ViewTypeOK
<1>8. \A s \in Of(z) \cap (view.todo \ {r}) : r \in Of(z) => s.id < r.id
  <2> SUFFICES ASSUME NEW s \in Of(z) \cap (view.todo \ {r}), r \in Of(z) PROVE s.id < r.id
    OBVIOUS
  <2>1. Newer(r, s) /\ r.rel[2] = z /\ s.rel[2] = z
    BY <1>1 DEF Of
  <2> QED BY <1>5, <1>6, <2>1 DEF Newer
<1>9. BackOK'
  BY <1>0, <1>3, <1>4, <1>5, <1>6, <1>8 DEF BackOK
<1>10. ListOK'
  BY <1>4 DEF ListOK
<1>11. ASSUME ~view'.late, view'.today # {}, Mine' = view'.shown
       PROVE  /\ \A e \in view'.shown : Right(e)'
              /\ \A s \in Of(z) \cap (view.todo \ {r}) :
                   (\A q \in Of(z) \cap (view.todo \ {r}) : q.id <= s.id) => s.is = before.tracker
  <2>1. \A e \in view.shown : e.record.rel[2] = z
    BY <1>0, <1>4, <1>11 DEF Mine
  <2>2. r \in Of(z)
    <3>1. entry \in view'.shown
      BY <1>4
    <3>2. r.rel[2] = z
      BY <1>0, <1>4, <1>5, <1>11, <3>1 DEF Mine
    <3>3. r.rel \in Relations
      BY <1>5 DEF LogInv
    <3>4. r.rel = <<"contacts", z>>
      BY <1>5, <3>2, <3>3, RelationsAre
    <3> QED BY <3>4 DEF Of
  <2>3. ChainOK(z)
    BY <1>5 DEF LogInv
  <2>4. r.is = tracker /\ \A e \in view.shown : Right(e)
    <3>1. CASE first
      <4>1. Of(z) \subseteq view.todo /\ view.shown = {}
        BY <1>0, <1>3, <1>4, <1>11, <3>1 DEF ListOK
      <4>2. \A q \in Of(z) : q.id <= r.id
        BY <1>6, <1>8, <2>2, <4>1
      <4>3. r.is = contacts[z]
        BY <2>2, <2>3, <4>2 DEF ChainOK
      <4>4. contacts[z] # {}
        BY <1>0, <1>4, <1>11, <3>1
      <4> QED BY <1>0, <3>1, <4>1, <4>3, <4>4 DEF tracker, Today
    <3>2. CASE ~first
      <4>1. view.phase = "format" /\ ~view.late /\ view.today # {} /\ Mine = view.shown
        BY <1>0, <1>1, <1>4, <1>11, <2>1, <3>2 DEF Mine
      <4>2. \A s \in Of(z) \cap view.todo : s.id <= r.id
        BY <1>6, <1>8, <2>2
      <4> QED BY <1>0, <1>1, <1>3, <2>2, <3>2, <4>1, <4>2 DEF TrackerOK, tracker
    <3> QED BY <3>1, <3>2
  <2>5. /\ r.was \subseteq Contact /\ r.is \subseteq Contact
        /\ r.removed = r.was \ r.is /\ r.added = r.is \ r.was
    BY <2>2, <2>3 DEF ChainOK
  <2>6. after.shown = Once(r.is) /\ before.shown = Once(r.was) /\ before.tracker = r.was
    <3>1. after = FormatAfter(r.is, r.is \ r.was) /\ before = FormatBefore(after.tracker, r.was \ r.is)
      BY <2>4, <2>5 DEF after, before
    <3> QED BY <2>5, <3>1, FormatsRight
  <2>7. Right(entry)
    BY <2>6 DEF Right, entry
  <2>8. ASSUME NEW s \in Of(z) \cap (view.todo \ {r}),
               \A q \in Of(z) \cap (view.todo \ {r}) : q.id <= s.id
        PROVE  s.is = r.was
    <3>1. s.id < r.id /\ s \in Of(z)
      BY <1>8, <2>2, <2>8
    <3>2. ASSUME NEW q \in Of(z), s.id < q.id, q.id < r.id PROVE FALSE
      <4>1. CASE q \in view.todo
        BY <1>6, <2>2, <2>8, <3>1, <3>2, <4>1
      <4>2. CASE q \notin view.todo
        BY <1>0, <1>1, <1>3, <1>6, <2>2, <3>2, <4>2 DEF BackOK
      <4> QED BY <4>1, <4>2
    <3> QED BY <2>2, <2>3, <3>1, <3>2 DEF ChainOK, Follows
  <2>9. \A e : Right(e)' <=> Right(e)
    BY DEF Right, Once
  <2> QED BY <1>0, <1>4, <2>4, <2>6, <2>7, <2>8, <2>9
<1>12. TrackerOK'
  BY <1>0, <1>4, <1>5, <1>11 DEF TrackerOK
<1> QED BY <1>7, <1>9, <1>10, <1>12 DEF ViewOK

(* A commit adds to a chain at its end, where the view is past.            *)
LEMMA DbCommitView ==
  ASSUME HistInv, LogInv, ViewOK, NEW t \in Thread, DbCommit(t)
  PROVE  ViewOK'
<1> SUFFICES ASSUME view' # NoView PROVE ViewOK'
  BY DEF ViewOK
<1>1. /\ log \subseteq log'
      /\ view' = (IF view.phase = "list" /\ view.zoo \in DOMAIN req[t].contacts
                  THEN [view EXCEPT !.late = TRUE] ELSE view)
  BY DEF DbCommit
<1>2. view # NoView
  BY <1>1 DEF NoView
<1>3. ViewTypeOK /\ BackOK /\ ListOK /\ TrackerOK
  BY <1>2 DEF ViewOK
<1>4. /\ view'.phase = view.phase /\ view'.zoo = view.zoo /\ view'.today = view.today
      /\ view'.todo = view.todo /\ view'.tracker = view.tracker /\ view'.shown = view.shown
      /\ view' = [phase |-> view'.phase, zoo |-> view'.zoo, late |-> view'.late, today |-> view'.today,
                  todo |-> view'.todo, tracker |-> view'.tracker, shown |-> view'.shown]
      /\ view.phase = "list" /\ ~view'.late => ~view.late /\ view.zoo \notin DOMAIN req[t].contacts
      /\ view.phase = "format" => view'.late = view.late
  <2>1. view = [phase |-> view.phase, zoo |-> view.zoo, late |-> view.late, today |-> view.today,
                todo |-> view.todo, tracker |-> view.tracker, shown |-> view.shown]
    BY <1>3 DEF ViewTypeOK
  <2>2. CASE view' = view
    BY <1>1, <2>1, <2>2
  <2>3. CASE view' = [view EXCEPT !.late = TRUE] /\ view.phase = "list"
    BY <2>1, <2>3
  <2> QED BY <1>1, <2>2, <2>3
<1>0. PICK z : z = view.zoo
  OBVIOUS
<1>5. z \in Zoo /\ view.todo \subseteq log
  BY <1>0, <1>3 DEF ViewTypeOK
<1>6. \/ Of(z)' = Of(z)
      \/ /\ z \in DOMAIN req[t].contacts
         /\ \E new : /\ Of(z)' = Of(z) \cup {new} /\ new \notin Of(z)
                     /\ \A l \in Of(z) : l.id < new.id
  BY <1>5, DbCommitChain, Zenon
<1>7. Of(z)' \cap view.todo = Of(z) \cap view.todo
  BY <1>5, <1>6 DEF Of
<1>8. ViewTypeOK'
  BY <1>1, <1>3, <1>4 DEF ViewTypeOK
<1>9. BackOK'
  BY <1>0, <1>3, <1>4, <1>6, <1>7 DEF BackOK
<1>10. ListOK'
  BY <1>0, <1>3, <1>4, <1>6 DEF ListOK
<1>11. TrackerOK'
  <2>1. Mine' = Mine /\ \A e : Right(e)' <=> Right(e)
    BY <1>4 DEF Mine, Right, Once
  <2> QED BY <1>0, <1>3, <1>4, <1>7, <2>1 DEF TrackerOK
<1> QED BY <1>8, <1>9, <1>10, <1>11 DEF ViewOK

LEMMA SameView == ViewOK /\ UNCHANGED <<log, view>> => ViewOK'
BY DEF ViewOK, ViewTypeOK, BackOK, ListOK, TrackerOK, Of, Mine, Right, Once

LEMMA ListView ==
  ASSUME NEW z \in Zoo, ViewHistory(z)
  PROVE  ViewOK'
<1>1. PICK those : those = {r \in log : r.id \in {s.id : s \in {l \in log : l.rel[2] = z}} /\ r.rel[1] = "contacts"}
  OBVIOUS
<1>2. view' = [phase |-> "list", zoo |-> z, late |-> FALSE, today |-> {},
               todo |-> those, tracker |-> {}, shown |-> {}] /\ log' = log
  BY <1>1 DEF ViewHistory
<1>3. those \subseteq log /\ \A r \in those : r.rel[1] = "contacts"
  BY <1>1
<1>4. \A r \in log : r.rel = <<"contacts", z>> => r \in those
  BY <1>1
<1> HIDE <1>1
<1>5. ViewTypeOK'
  BY <1>2, <1>3 DEF ViewTypeOK
<1>6. BackOK' /\ ListOK' /\ TrackerOK'
  BY <1>2, <1>4 DEF BackOK, ListOK, TrackerOK, Of
<1> QED BY <1>5, <1>6 DEF ViewOK

LEMMA NextView == HistInv /\ LogInv /\ ViewOK /\ [Next]_vars => ViewOK'
<1> SUFFICES ASSUME HistInv, LogInv, ViewOK, [Next]_vars PROVE ViewOK'
  OBVIOUS
<1>1. ASSUME NEW t \in Thread, DbCommit(t) PROVE ViewOK'
  BY <1>1, DbCommitView
<1>2. ASSUME NEW z \in Zoo, ViewHistory(z) PROVE ViewOK'
  BY <1>2, ListView
<1>3. ASSUME NEW r \in log, FormatChange(r) PROVE ViewOK'
  BY <1>3, FormatView
<1>4. CASE Respond
  BY <1>4 DEF Respond, ViewOK
<1>5. CASE UNCHANGED <<log, view>>
  BY <1>5, SameView
<1>6. ASSUME NEW t \in Thread,
             \/ Begin(t) \/ Fail(t) \/ SaveChild(t) \/ DeleteChild(t) \/ HistoryCommit(t)
             \/ \E z \in Zoo : SetContacts(t, z)
             \/ \E r \in Zoo \cup Child : Lock(t, r)
      PROVE  UNCHANGED <<log, view>>
  BY <1>6 DEF Begin, Fail, SaveChild, DeleteChild, HistoryCommit, SetContacts, Lock
<1>7. CASE UNCHANGED vars
  BY <1>5, <1>7 DEF vars
<1> QED BY <1>1, <1>2, <1>3, <1>4, <1>5, <1>6, <1>7 DEF Next

(* The history of a zoo that has contacts today, of changesets that        *)
(* changed no other zoo's, shows the set before and the set after every    *)
(* change, whatever requests run beside the view: its tracker goes back    *)
(* along the chain of records, which each request extends under the lock   *)
(* of the zoo.                                                             *)
THEOREM ViewIsRight == ASSUME Apart PROVE Spec => []ViewRight
<1>1. Init => HistInv /\ LogInv /\ ViewOK
  BY InitHist, InitLog DEF Init, ViewOK
<1>2. HistInv /\ LogInv /\ ViewOK /\ [Next]_vars => HistInv' /\ LogInv' /\ ViewOK'
  BY NextHist, NextLog, NextView
<1>3. ViewOK => ViewRight
  <2> SUFFICES ASSUME ViewOK, Answered, ~view.late, view.today # {}, Mine = view.shown
               PROVE  \A entry \in Mine : Right(entry)
    BY DEF ViewRight
  <2>1. view # NoView
    BY DEF Answered, NoView
  <2> QED BY <2>1 DEF ViewOK, TrackerOK, Answered
<1> QED BY <1>1, <1>2, <1>3, PTL DEF Spec
=============================================================================
