---------------------------- MODULE AnnotationSets ----------------------------
(***************************************************************************)
(* The loop of _get_withs that makes of the ids of each set of annotations *)
(* disjoint groups, so that every object is fetched once, with all the     *)
(* annotations that any path to it asks for.                               *)
(***************************************************************************)
EXTENDS Naturals, Sequences, FiniteSets

CONSTANTS Id, Annotation, NoGroup

ASSUME GroupAssumption == NoGroup \notin [ann : SUBSET Annotation, ids : SUBSET Id]

VARIABLES todo,   \* to_add: groups that are still to be placed
          cur,    \* the group that was popped last, until it is placed
          visit,  \* the keys of annotation_ids it has still to be compared with
          pool,   \* annotation_ids: the ids of each set of annotations
          asked   \* what to_add was at first

mvars == <<todo, cur, visit, pool, asked>>

Group == [ann : SUBSET Annotation, ids : SUBSET Id]
But(p, key, ids) ==
  [k \in {k \in DOMAIN p : k # key \/ p[k] # ids} |-> IF k = key THEN p[k] \ ids ELSE p[k]]

Start(groups) ==
  /\ todo' = groups /\ asked' = groups
  /\ cur' = NoGroup /\ visit' = {} /\ pool' = [k \in {} |-> {}]

Pop == /\ cur = NoGroup /\ todo # << >>
       /\ cur' = todo[Len(todo)] /\ todo' = SubSeq(todo, 1, Len(todo) - 1)
       /\ visit' = DOMAIN pool
       /\ UNCHANGED <<pool, asked>>

(* The group that was popped is compared with one of the pool: the ids     *)
(* they share leave both, and go back to todo as the given groups.         *)
Compare(key, groups, left) ==
  /\ cur # NoGroup /\ cur.ids # {} /\ key \in visit
  /\ visit' = visit \ {key}
  /\ todo' = todo \o groups
  /\ pool' = But(pool, key, pool[key] \cap cur.ids)
  /\ cur' = [cur EXCEPT !.ids = left]
  /\ UNCHANGED asked
Shared(key, annotations) ==
  IF pool[key] \cap cur.ids = {} THEN << >>
  ELSE <<[ann |-> annotations, ids |-> pool[key] \cap cur.ids]>>

(* Mutants: the shared ids are thrown away; they keep only the annotations *)
(* of the popped group; they stay in the popped group.                     *)
VisitDropping(key) == Compare(key, << >>, cur.ids \ pool[key])
VisitNarrow(key) == Compare(key, Shared(key, cur.ann), cur.ids \ pool[key])
VisitForever(key) == Compare(key, Shared(key, key \cup cur.ann), cur.ids)

Visit(key) == Compare(key, Shared(key, key \cup cur.ann), cur.ids \ pool[key])

(* What is left of the group is added to the groups.                       *)
Place == /\ cur # NoGroup /\ (visit = {} \/ cur.ids = {})
         /\ cur' = NoGroup /\ visit' = {}
         /\ pool' = IF cur.ids = {} THEN pool
                    ELSE [k \in DOMAIN pool \cup {cur.ann} |->
                            IF k # cur.ann THEN pool[k]
                            ELSE cur.ids \cup IF k \in DOMAIN pool THEN pool[k] ELSE {}]
         /\ UNCHANGED <<todo, asked>>

Merge == Pop \/ Place \/ \E key \in SUBSET Annotation : Visit(key)

Merged == cur = NoGroup /\ todo = << >>

MergeSpec == /\ \E groups \in Seq(Group) :
                  /\ todo = groups /\ asked = groups
                  /\ cur = NoGroup /\ visit = {} /\ pool = [k \in {} |-> {}]
             /\ [][Merge]_mvars

-----------------------------------------------------------------------------

(* What is asked of an id: the annotations of all groups that it is in.    *)
Wanted(id) == UNION {asked[i].ann : i \in {i \in DOMAIN asked : id \in asked[i].ids}}
Ids == UNION {asked[i].ids : i \in DOMAIN asked}

(* When the loop ends, every id of a group is in exactly one group of the  *)
(* outcome, that of all the annotations that were asked for it.            *)
MergedExactly ==
  Merged => \A id \in Id :
    {key \in DOMAIN pool : id \in pool[key]} = IF id \in Ids THEN {Wanted(id)} ELSE {}
=============================================================================
