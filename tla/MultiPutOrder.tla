---------------------------- MODULE MultiPutOrder ----------------------------
(***************************************************************************)
(* ModelView._multi_put_order_dependencies of binder/views.py, one step    *)
(* per turn of its inner loop.  The loop runs over a copy of the           *)
(* dependencies while its body takes entries out of the original: "careful *)
(* ... without the deep copy this leads to nasty surprises".               *)
(***************************************************************************)
EXTENDS LayeredOrder

VARIABLES copy,      \* what the inner loop iterates over
          todo,      \* the entries of copy it has not come to
          batch,     \* this_batch
          looping    \* whether the inner loop runs

loopVars == <<given, dependencies, ordered, outcome, copy, todo, batch, looping>>

TypeOK ==
  /\ IsGraph(given)
  /\ IsGraph(dependencies) /\ DOMAIN dependencies \subseteq DOMAIN given
  /\ ordered \in Seq(DOMAIN given)
  /\ outcome \in {"running", "ordered", "cyclic"}
  /\ IsGraph(copy) /\ DOMAIN copy \subseteq DOMAIN given
  /\ todo \subseteq DOMAIN copy /\ batch \subseteq DOMAIN copy
  /\ looping \in BOOLEAN

LoopInit == /\ OrderInit
            /\ copy = given
            /\ todo = {} /\ batch = {}
            /\ looping = FALSE

(* while dependencies: this_batch = []                                     *)
BeginPass ==
  /\ outcome = "running" /\ ~looping /\ DOMAIN dependencies # {}
  /\ copy' = dependencies
  /\ todo' = DOMAIN dependencies
  /\ batch' = {}
  /\ looping' = TRUE
  /\ UNCHANGED orderVars

(* Mutant: the loop looks at the live dependencies instead of the copy.    *)
VisitLive(o) ==
  /\ looping /\ o \in todo
  /\ todo' = todo \ {o}
  /\ IF dependencies[o] = {}
     THEN /\ batch' = batch \cup {o}
          /\ dependencies' = Without(dependencies, {o})
     ELSE UNCHANGED <<batch, dependencies>>
  /\ UNCHANGED <<given, ordered, outcome, copy, looping>>

(* One turn of the inner loop.  The order of a dict is the order in which  *)
(* the client listed the objects: any.                                     *)
Visit(o) ==
  /\ looping /\ o \in todo
  /\ todo' = todo \ {o}
  /\ IF copy[o] = {}
     THEN /\ batch' = batch \cup {o}
          /\ dependencies' = Without(dependencies, {o})
     ELSE UNCHANGED <<batch, dependencies>>
  /\ UNCHANGED <<given, ordered, outcome, copy, looping>>

(* ordered_objects += sorted(this_batch, key=...)                          *)
EndPass ==
  /\ looping /\ todo = {} /\ batch # {}
  /\ \E s \in Sortings(batch) : ordered' = ordered \o s
  /\ looping' = FALSE
  /\ UNCHANGED <<given, dependencies, outcome, copy, todo, batch>>

(* Mutant: an empty batch is not noticed.                                  *)
NoProgressUnseen ==
  /\ looping /\ todo = {} /\ batch = {}
  /\ looping' = FALSE
  /\ UNCHANGED <<given, dependencies, ordered, outcome, copy, todo, batch>>

(* "No progress in dependency resolution! Cyclic dependencies?"            *)
NoProgress ==
  /\ looping /\ todo = {} /\ batch = {}
  /\ outcome' = "cyclic"
  /\ looping' = FALSE
  /\ UNCHANGED <<given, dependencies, ordered, copy, todo, batch>>

Return ==
  /\ outcome = "running" /\ ~looping /\ DOMAIN dependencies = {}
  /\ outcome' = "ordered"
  /\ UNCHANGED <<given, dependencies, ordered, copy, todo, batch, looping>>

LoopNext == BeginPass \/ (\E o \in Object : Visit(o)) \/ EndPass \/ NoProgress \/ Return

LoopSpec == LoopInit /\ [][LoopNext]_loopVars

(* The function runs to its end.                                           *)
FairSpec == LoopSpec /\ WF_loopVars(LoopNext)

-----------------------------------------------------------------------------

(* While the loop runs the layers still see the dependencies it began with.*)
Layers == INSTANCE LayeredOrder
            WITH dependencies <- IF looping THEN copy ELSE dependencies

(* The loop appends whole layers: an object whose last dependency is in    *)
(* this batch waits for the next one.                                      *)
LayersImplemented == Layers!OrderSpec

(* The while loop ends, whatever the graph.                                *)
OrderingEnds == <>(outcome # "running")
=============================================================================
