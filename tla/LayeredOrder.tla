----------------------------- MODULE LayeredOrder -----------------------------
(***************************************************************************)
(* The order in which a multi-put saves its objects, as the comment above  *)
(* _multi_put_order_dependencies promises it: "sort the objects by         *)
(* dependency (and within dependency layer by model/id)".                  *)
(*                                                                         *)
(* A layer holds the objects whose dependencies are all in earlier layers. *)
(* A step appends one whole layer, or reports that none is left to append. *)
(***************************************************************************)
EXTENDS Integers, FiniteSets, Sequences

CONSTANTS Object,     \* (model, id) pairs, as records; a made-up id is negative
          NameRank    \* the place of each model in the order of __name__

ASSUME LayeredOrderAssumption ==
  /\ IsFiniteSet(Object)
  /\ \A o \in Object : /\ o = [model |-> o.model, id |-> o.id]
                       /\ o.id \in Int /\ NameRank[o.model] \in Int

VARIABLES given,         \* what _multi_put_calculate_dependencies returned
          dependencies,  \* what is left of it
          ordered,       \* ordered_objects
          outcome        \* "running", then "ordered" or "cyclic"

orderVars == <<given, dependencies, ordered, outcome>>

-----------------------------------------------------------------------------

Sign(n) == IF n > 0 THEN 1 ELSE IF n < 0 THEN -1 ELSE 0
Abs(n) == IF n < 0 THEN -n ELSE n

(* The sort key (model.__name__, sign(id), abs(id)), compared as a tuple.  *)
Before(o, p) ==
  \/ NameRank[o.model] < NameRank[p.model]
  \/ /\ NameRank[o.model] = NameRank[p.model]
     /\ \/ Sign(o.id) < Sign(p.id)
        \/ Sign(o.id) = Sign(p.id) /\ Abs(o.id) < Abs(p.id)

(* sorted(batch): every element once, none before one that it follows.     *)
Sortings(batch) ==
  {s \in [1..Cardinality(batch) -> batch] :
     /\ \A o \in batch : \E i \in DOMAIN s : s[i] = o
     /\ \A i, j \in DOMAIN s : i < j => s[i] # s[j] /\ ~Before(s[j], s[i])}

(* Dependencies are objects of the request, and never the object itself.   *)
IsGraph(g) == /\ DOMAIN g \subseteq Object
              /\ g \in [DOMAIN g -> SUBSET DOMAIN g]
              /\ \A o \in DOMAIN g : o \notin g[o]

(* Mutant: what is done stays a dependency of the others.                  *)
WithoutKeys(deps, done) == [o \in DOMAIN deps \ done |-> deps[o]]

Without(deps, done) == [o \in DOMAIN deps \ done |-> deps[o] \ done]

Layer == {o \in DOMAIN dependencies : dependencies[o] = {}}

OrderInit == /\ \E S \in SUBSET Object : given \in [S -> SUBSET S]
             /\ IsGraph(given)
             /\ dependencies = given
             /\ ordered = << >>
             /\ outcome = "running"

AppendLayer ==
  /\ outcome = "running" /\ Layer # {}
  /\ \E s \in Sortings(Layer) : ordered' = ordered \o s
  /\ dependencies' = Without(dependencies, Layer)
  /\ UNCHANGED <<given, outcome>>

ReportCycle ==
  /\ outcome = "running" /\ DOMAIN dependencies # {} /\ Layer = {}
  /\ outcome' = "cyclic"
  /\ UNCHANGED <<given, dependencies, ordered>>

ReturnOrdered ==
  /\ outcome = "running" /\ DOMAIN dependencies = {}
  /\ outcome' = "ordered"
  /\ UNCHANGED <<given, dependencies, ordered>>

OrderNext == AppendLayer \/ ReportCycle \/ ReturnOrdered

OrderSpec == OrderInit /\ [][OrderNext]_orderVars

-----------------------------------------------------------------------------

(* Whatever is in ordered comes after everything it depends on: a foreign  *)
(* key to a made-up id is only met when that object has its real id.       *)
DependenciesFirst ==
  \A i \in DOMAIN ordered : \A d \in given[ordered[i]] : \E j \in 1..(i - 1) : ordered[j] = d

(* Every object of the request is saved once: none lost, none twice.       *)
EachOnce ==
  /\ \A i, j \in DOMAIN ordered : ordered[i] = ordered[j] => i = j
  /\ outcome = "ordered" => {ordered[i] : i \in DOMAIN ordered} = DOMAIN given

(* A request is refused only for a real cycle: objects each of which       *)
(* depends on one of them.                                                 *)
RefusedForCycle ==
  outcome = "cyclic" =>
    \E S \in SUBSET DOMAIN given : S # {} /\ \A o \in S : given[o] \cap S # {}
=============================================================================
