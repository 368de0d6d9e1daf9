--------------------------- MODULE LayeredOrderProofs ---------------------------
(***************************************************************************)
(* Whatever the objects of a request depend on, LayeredOrder lists each of *)
(* them once, after its dependencies, and refuses only a cycle.            *)
(***************************************************************************)
EXTENDS LayeredOrder, TLAPS, FiniteSetTheorems, SequenceTheorems

Listed == {ordered[i] : i \in DOMAIN ordered}

(* Nothing is both listed and still to be listed.                          *)
Split == /\ DOMAIN dependencies \subseteq DOMAIN given
         /\ Listed = DOMAIN given \ DOMAIN dependencies

(* What an object still waits for are its dependencies not listed yet.     *)
Waiting == \A o \in DOMAIN dependencies : dependencies[o] = given[o] \ Listed

NoRepeat == \A i, j \in DOMAIN ordered : ordered[i] = ordered[j] => i = j

Outcomes == /\ outcome = "ordered" => DOMAIN dependencies = {}
            /\ outcome = "cyclic" => DOMAIN dependencies # {} /\ Layer = {}

(* Objects that depend on nothing are the first layer.                     *)
RootsFirst ==
  /\ \A i, j \in DOMAIN ordered : given[ordered[i]] # {} /\ given[ordered[j]] = {} => j < i
  /\ ordered # << >> => \A o \in DOMAIN given : given[o] = {} => o \in Listed

(* The inductive invariant: what is listed and what waits divide the       *)
(* objects, and the waiting ones miss only one another.                    *)
OrderInv == /\ IsGraph(given) /\ IsGraph(dependencies)
            /\ ordered \in Seq(Object)
            /\ Split /\ Waiting /\ NoRepeat /\ RootsFirst
            /\ DependenciesFirst
            /\ Outcomes

-----------------------------------------------------------------------------

(* A sorted batch is a sequence that holds each element of it once.        *)
LEMMA SortingIsSequence ==
  ASSUME NEW B, IsFiniteSet(B), NEW s \in Sortings(B)
  PROVE  /\ s \in Seq(B)
         /\ {s[i] : i \in DOMAIN s} = B
         /\ \A i, j \in DOMAIN s : s[i] = s[j] => i = j
<1>1. Cardinality(B) \in Nat
  BY FS_CardinalityType
<1>2. s \in [1..Cardinality(B) -> B]
  BY DEF Sortings
<1>3. s \in Seq(B)
  BY <1>1, <1>2, SeqDef
<1>4. {s[i] : i \in DOMAIN s} = B
  BY <1>2 DEF Sortings
<1>5. \A i, j \in DOMAIN s : s[i] = s[j] => i = j
  <2> SUFFICES ASSUME NEW i \in DOMAIN s, NEW j \in DOMAIN s, s[i] = s[j], i # j
               PROVE  FALSE
    OBVIOUS
  <2>1. i \in Int /\ j \in Int
    BY <1>1, <1>2
  <2>2. i < j \/ j < i
    BY <2>1
  <2> QED BY <2>2 DEF Sortings
<1> QED BY <1>3, <1>4, <1>5

(* Where the elements of p \o q are.                                       *)
LEMMA Concatenation ==
  ASSUME NEW S, NEW p \in Seq(S), NEW q \in Seq(S)
  PROVE  /\ p \o q \in Seq(S)
         /\ DOMAIN p = 1..Len(p) /\ DOMAIN q = 1..Len(q)
         /\ Len(p) \in Nat /\ Len(q) \in Nat
         /\ DOMAIN (p \o q) = 1..(Len(p) + Len(q))
         /\ \A i \in 1..Len(p) : (p \o q)[i] = p[i]
         /\ \A i \in 1..Len(q) : (p \o q)[Len(p) + i] = q[i]
         /\ \A i \in (Len(p) + 1)..(Len(p) + Len(q)) : i - Len(p) \in 1..Len(q)
OBVIOUS

-----------------------------------------------------------------------------

LEMMA InitInv == OrderInit => OrderInv
<1> SUFFICES ASSUME OrderInit PROVE OrderInv
  OBVIOUS
<1>1. ordered \in Seq(Object) /\ DOMAIN ordered = {}
  BY DEF OrderInit
<1>2. Listed = {}
  BY <1>1 DEF Listed
<1> QED
  BY <1>1, <1>2 DEF OrderInit, OrderInv, IsGraph, Split, Waiting, NoRepeat, RootsFirst,
    Outcomes, DependenciesFirst

LEMMA AppendLayerInv ==
  ASSUME OrderInv, AppendLayer
  PROVE  OrderInv'
<1> USE DEF OrderInv
<1> DEFINE D == DOMAIN dependencies
<1>1. Layer \subseteq D /\ Layer \subseteq Object /\ D \subseteq Object
  BY DEF Layer, IsGraph
<1>2. IsFiniteSet(Layer)
  BY <1>1, LayeredOrderAssumption, FS_Subset
<1>3. PICK s \in Sortings(Layer) : ordered' = ordered \o s
  BY DEF AppendLayer
<1>4. /\ s \in Seq(Layer)
      /\ {s[i] : i \in DOMAIN s} = Layer
      /\ \A i, j \in DOMAIN s : s[i] = s[j] => i = j
  BY <1>2, SortingIsSequence
<1>5. s \in Seq(Object)
  BY <1>1, <1>4
<1>6. /\ ordered' \in Seq(Object)
      /\ DOMAIN ordered = 1..Len(ordered) /\ DOMAIN s = 1..Len(s)
      /\ Len(ordered) \in Nat /\ Len(s) \in Nat
      /\ DOMAIN ordered' = 1..(Len(ordered) + Len(s))
      /\ \A i \in 1..Len(ordered) : ordered'[i] = ordered[i]
      /\ \A i \in 1..Len(s) : ordered'[Len(ordered) + i] = s[i]
      /\ \A i \in (Len(ordered) + 1)..(Len(ordered) + Len(s)) :
           i - Len(ordered) \in 1..Len(s)
  BY <1>3, <1>5, Concatenation
<1>7. \A i \in DOMAIN ordered' :
        \/ i \in DOMAIN ordered /\ ordered'[i] = ordered[i]
        \/ i - Len(ordered) \in DOMAIN s /\ i > Len(ordered)
             /\ ordered'[i] = s[i - Len(ordered)]
  <2> SUFFICES ASSUME NEW i \in DOMAIN ordered', i \notin DOMAIN ordered
               PROVE  /\ i - Len(ordered) \in DOMAIN s /\ i > Len(ordered)
                      /\ ordered'[i] = s[i - Len(ordered)]
    BY <1>6
  <2>1. i \in (Len(ordered) + 1)..(Len(ordered) + Len(s))
    BY <1>6
  <2>2. i - Len(ordered) \in 1..Len(s)
    BY <1>6, <2>1
  <2>3. Len(ordered) + (i - Len(ordered)) = i
    BY <1>6, <2>1
  <2> QED BY <1>6, <2>1, <2>2, <2>3
<1>8. Listed' = Listed \cup Layer
  <2>1. ASSUME NEW o \in Listed' PROVE o \in Listed \cup Layer
    BY <1>4, <1>7 DEF Listed
  <2>2. ASSUME NEW o \in Listed PROVE o \in Listed'
    <3>1. PICK i \in DOMAIN ordered : o = ordered[i]
      BY DEF Listed
    <3>2. i \in DOMAIN ordered' /\ o = ordered'[i]
      BY <1>6, <3>1
    <3> QED BY <3>2 DEF Listed
  <2>3. ASSUME NEW o \in Layer PROVE o \in Listed'
    <3>1. PICK i \in DOMAIN s : o = s[i]
      BY <1>4
    <3>2. Len(ordered) + i \in DOMAIN ordered' /\ o = ordered'[Len(ordered) + i]
      BY <1>6, <3>1
    <3> QED BY <3>2 DEF Listed
  <2> QED BY <2>1, <2>2, <2>3
<1>9. /\ DOMAIN dependencies' = D \ Layer
      /\ \A o \in D \ Layer : dependencies'[o] = dependencies[o] \ Layer
      /\ given' = given /\ outcome' = outcome /\ outcome = "running"
  BY DEF AppendLayer, Without
<1>10. IsGraph(given)' /\ IsGraph(dependencies)'
  <2>1. dependencies' = [o \in D \ Layer |-> dependencies[o] \ Layer]
    BY DEF AppendLayer, Without
  <2>2. ASSUME NEW o \in D \ Layer
        PROVE  dependencies[o] \ Layer \subseteq D \ Layer /\ o \notin dependencies[o]
    BY DEF IsGraph
  <2> QED BY <1>9, <2>1, <2>2 DEF IsGraph
<1>11. Split'
  BY <1>1, <1>8, <1>9 DEF Split
<1>12. Waiting'
  BY <1>8, <1>9 DEF Waiting
<1>13. NoRepeat'
  <2> SUFFICES ASSUME NEW i \in DOMAIN ordered', NEW j \in DOMAIN ordered',
                      ordered'[i] = ordered'[j]
               PROVE  i = j
    BY DEF NoRepeat
  <2>1. ASSUME NEW k \in DOMAIN ordered PROVE ordered[k] \notin Layer
    BY <1>1 DEF Split, Listed
  <2>2. ASSUME NEW k \in DOMAIN s PROVE s[k] \in Layer
    BY <1>4
  <2>3. i \in Int /\ j \in Int
    BY <1>6
  <2>4. CASE i \in DOMAIN ordered /\ j \in DOMAIN ordered
    BY <1>6, <2>4 DEF NoRepeat
  <2>5. CASE i \notin DOMAIN ordered /\ j \notin DOMAIN ordered
    <3>1. i - Len(ordered) = j - Len(ordered)
      BY <1>4, <1>7, <2>5
    <3> QED BY <1>6, <2>3, <3>1
  <2>6. CASE i \in DOMAIN ordered /\ j \notin DOMAIN ordered
    BY <1>6, <1>7, <2>1, <2>2, <2>6
  <2>7. CASE i \notin DOMAIN ordered /\ j \in DOMAIN ordered
    BY <1>6, <1>7, <2>1, <2>2, <2>7
  <2> QED BY <2>4, <2>5, <2>6, <2>7
<1>14. DependenciesFirst'
  <2> SUFFICES ASSUME NEW i \in DOMAIN ordered', NEW d \in given[ordered'[i]]
               PROVE  \E j \in 1..(i - 1) : ordered'[j] = d
    BY <1>9 DEF DependenciesFirst
  <2>1. CASE i \in DOMAIN ordered
    <3>1. ordered'[i] = ordered[i]
      BY <1>6, <2>1
    <3>2. PICK j \in 1..(i - 1) : ordered[j] = d
      BY <2>1, <3>1 DEF DependenciesFirst
    <3>3. j \in 1..Len(ordered)
      BY <1>6, <2>1
    <3> QED BY <1>6, <3>2, <3>3
  <2>2. CASE i \notin DOMAIN ordered
    <3>1. ordered'[i] \in Layer /\ i > Len(ordered) /\ i \in Int
      BY <1>4, <1>6, <1>7, <2>2
    <3>2. dependencies[ordered'[i]] = {}
      BY <3>1 DEF Layer
    <3>3. d \in Listed
      BY <1>1, <3>1, <3>2 DEF Waiting
    <3>4. PICK j \in DOMAIN ordered : ordered[j] = d
      BY <3>3 DEF Listed
    <3>5. j \in 1..(i - 1) /\ ordered'[j] = d
      BY <1>6, <3>1, <3>4
    <3> QED BY <3>5
  <2> QED BY <2>1, <2>2
<1>15. Outcomes'
  BY <1>9 DEF Outcomes
<1>16. RootsFirst'
  <2>1. CASE ordered = << >>
    <3>1. Len(ordered) = 0 /\ Listed = {}
      BY <2>1 DEF Listed
    <3>2. D = DOMAIN given /\ \A o \in D : dependencies[o] = given[o]
      BY <3>1 DEF Split, Waiting
    <3>3. Layer = {o \in DOMAIN given : given[o] = {}}
      BY <3>2 DEF Layer
    <3>4. \A i \in DOMAIN ordered' : ordered'[i] \in Layer
      BY <1>4, <1>6, <1>7, <3>1
    <3> QED BY <1>8, <1>9, <3>3, <3>4 DEF RootsFirst
  <2>2. CASE ordered # << >>
    <3>1. \A o \in DOMAIN given : given[o] = {} => o \in Listed
      BY <2>2 DEF RootsFirst
    <3>2. \A o \in Layer : o \in DOMAIN given /\ o \notin Listed /\ given[o] # {}
      BY <1>1, <3>1 DEF Split
    <3>3. ASSUME NEW i \in DOMAIN ordered', NEW j \in DOMAIN ordered',
                 given[ordered'[i]] # {}, given[ordered'[j]] = {}
          PROVE  j < i
      <4>1. j \in DOMAIN ordered /\ ordered'[j] = ordered[j]
        BY <1>4, <1>7, <3>2, <3>3
      <4>2. CASE i \in DOMAIN ordered
        BY <1>6, <3>3, <4>1, <4>2 DEF RootsFirst
      <4>3. CASE i \notin DOMAIN ordered
        BY <1>6, <4>1, <4>3
      <4> QED BY <4>2, <4>3
    <3> QED BY <1>8, <1>9, <3>1, <3>3 DEF RootsFirst
  <2> QED BY <2>1, <2>2
<1> QED BY <1>6, <1>10, <1>11, <1>12, <1>13, <1>14, <1>15, <1>16

LEMMA StepInv ==
  ASSUME OrderInv, [OrderNext]_orderVars
  PROVE  OrderInv'
<1>1. CASE AppendLayer
  BY <1>1, AppendLayerInv
<1>2. CASE ReportCycle
  BY <1>2 DEF ReportCycle, OrderInv, IsGraph, Split, Listed, Waiting, NoRepeat,
    RootsFirst, DependenciesFirst, Outcomes, Layer
<1>3. CASE ReturnOrdered
  BY <1>3 DEF ReturnOrdered, OrderInv, IsGraph, Split, Listed, Waiting, NoRepeat,
    RootsFirst, DependenciesFirst, Outcomes, Layer
<1>4. CASE UNCHANGED orderVars
  BY <1>4 DEF orderVars, OrderInv, IsGraph, Split, Listed, Waiting, NoRepeat,
    RootsFirst, DependenciesFirst, Outcomes, Layer
<1> QED BY <1>1, <1>2, <1>3, <1>4 DEF OrderNext

(* The invariant gives what the order promises.                            *)
LEMMA InvPromise ==
  ASSUME OrderInv
  PROVE  DependenciesFirst /\ EachOnce /\ RefusedForCycle
<1> USE DEF OrderInv
<1>1. EachOnce
  BY DEF EachOnce, NoRepeat, Outcomes, Split, Listed
<1>2. ASSUME outcome = "cyclic"
      PROVE  \E S \in SUBSET DOMAIN given : S # {} /\ \A o \in S : given[o] \cap S # {}
  <2>1. DOMAIN dependencies \in SUBSET DOMAIN given /\ DOMAIN dependencies # {}
    BY <1>2 DEF Split, Outcomes
  <2>2. ASSUME NEW o \in DOMAIN dependencies
        PROVE  given[o] \cap DOMAIN dependencies # {}
    <3>1. dependencies[o] # {}
      BY <1>2 DEF Outcomes, Layer
    <3>2. dependencies[o] \subseteq DOMAIN dependencies
      BY DEF IsGraph
    <3>3. dependencies[o] \subseteq given[o]
      BY DEF Waiting
    <3> QED BY <3>1, <3>2, <3>3
  <2> QED BY <2>1, <2>2
<1> QED BY <1>1, <1>2 DEF RefusedForCycle

(* For every set of objects and every graph of dependencies between them,  *)
(* the order lists each object once and after its dependencies, and only a *)
(* cycle is refused (_multi_put_order_dependencies).                       *)
THEOREM OrderIsSound == OrderSpec => [](DependenciesFirst /\ EachOnce /\ RefusedForCycle)
<1>1. OrderSpec => []OrderInv
  BY InitInv, StepInv, PTL DEF OrderSpec
<1> QED BY <1>1, InvPromise, PTL
=============================================================================
