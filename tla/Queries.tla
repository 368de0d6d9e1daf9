------------------------------- MODULE Queries --------------------------------
(***************************************************************************)
(* GET requests to a view: a client reads a list page by page while others *)
(* change the rows, and the objects that a GET is asked to include (with). *)
(*                                                                         *)
(* Every query sees what is committed when it runs.  The view is that of   *)
(* model "top"; a with is a sequence of relations, and a relation has one  *)
(* name in all models.  A path's parents are queried before it; this is    *)
(* all that is kept of the order of the recursion of _get_with_ids.        *)
(***************************************************************************)
EXTENDS AnnotationSets, Pages, FiniteSetsExt, SequencesExt

CONSTANTS Pk,         \* primary keys of the rows of the list
          Families,   \* what is asked, of which tables, and what others do
          Target,     \* the model that a relation leads to
          Relations,  \* the relations that objects of a model show by themselves
          Defaults,   \* the default annotations of a model
          Joins,      \* the joins that an annotation needs
          Absent, MaxChanges

VARIABLES ask,      \* what the client asks for
          table,    \* the committed rows of the view's model
          others,   \* the ids of the other models that exist
          link,     \* <<relation, id, id>>
          client,   \* what it has listed, and where it is
          get,      \* the GET that is being served
          changed,  \* the rows that somebody has changed
          slipped   \* did the row that a page starts from move?

(* What a row holds in the fields that a request orders by.                *)
Ordered(q, row) == \A i \in DOMAIN Order(q) : row[Order(q)[i].field] \in {None} \cup Int

(* The order of the model has a field in which no two rows are equal, as   *)
(* that of BinderModel; one that has none makes no pages to rely on.  A    *)
(* page has at least one row.                                              *)
ASSUME QueriesAssumption ==
  /\ IsFiniteSet(Pk) /\ Pk \subseteq Int /\ None \notin Int
  /\ MetaOrdering \in Seq(Keys) /\ \E i \in DOMAIN MetaOrdering : MetaOrdering[i].field = "pk"
  /\ IsFiniteSet(Annotation) /\ \A rel \in DOMAIN Target : Defaults[Target[rel]] \subseteq Annotation
  /\ \A f \in Families : \A q \in f.asks :
       /\ q.order \in Seq(Keys) /\ q.limit \in {None} \cup (Nat \ {0})
       /\ \A h \in q.filters \cup (IF q.stat = None THEN {} ELSE q.stat.filters) :
            h.not \in BOOLEAN /\ h.all \in BOOLEAN
       /\ \A row \in q.writes \ {Absent} : Ordered(q, row)
       /\ q.withs \in Seq(Seq(DOMAIN Target) \ {<< >>})
       /\ \A w \in DOMAIN q.where : q.where[w] \subseteq Id
       /\ \A rows \in f.tables :
            /\ rows = [pk \in Pk |-> rows[pk]]
            /\ \A pk \in Pk : rows[pk] # Absent => rows[pk].pk = pk /\ Ordered(q, rows[pk])

dbvars == <<table, others, link>>
vars == <<ask, table, others, link, client, get, changed, slipped, mvars>>

-----------------------------------------------------------------------------

(* withs_to_nested_set, and the parents of every path.  field_results has  *)
(* the paths in the order in which they are named, each after its parent.  *)
Paths(withs) == UNION {{SubSeq(w, 1, n) : n \in 1..Len(w)} : w \in ToSet(withs)}
First(withs, prefix) == Min({i \in DOMAIN withs : IsPrefix(prefix, withs[i])})
Earlier(withs, v, w) ==
  \/ IsStrictPrefix(v, w)
  \/ \E n \in 1..Len(v) :
       /\ n <= Len(w) /\ SubSeq(v, 1, n - 1) = SubSeq(w, 1, n - 1) /\ v[n] # w[n]
       /\ First(withs, SubSeq(v, 1, n)) < First(withs, SubSeq(w, 1, n))
Soonest(paths) == {w \in paths : \A v \in paths : ~Earlier(ask.withs, v, w)}

(* _follow_related.                                                        *)
ModelOf(path) == Target[path[Len(path)]]

(* _parse_include_annotations: names are added and taken away one by one, *)
(* so that the last one that names an annotation decides on it.            *)
Included(includes, path, model) ==
  LET mine == {i \in DOMAIN includes : includes[i].path = path}
      Naming(a) == {i \in mine : a \in IF includes[i].name = "*" THEN Defaults[model] ELSE {includes[i].name}}
  IN IF mine = {} THEN Defaults[model]
     ELSE {a \in Annotation : \E i \in Naming(a) : \A j \in Naming(a) : j >= i => ~includes[j].minus}
Annotations(path) == Included(ask.includes, path, ModelOf(path))

Image(f) == UNION {f[pk] : pk \in DOMAIN f}
Put(f, key, value) == [k \in DOMAIN f \cup {key} |-> IF k = key THEN value ELSE f[k]]
Updated(f, g) == [k \in DOMAIN f \cup DOMAIN g |-> IF k \in DOMAIN g THEN g[k] ELSE f[k]]

-----------------------------------------------------------------------------

NoGet == [phase |-> "none"]
Init == \E f \in Families :
  /\ ask \in f.asks
  /\ table \in f.tables /\ link \in f.links /\ others = f.others
  /\ client = [listed |-> << >>, last |-> None, offset |-> 0, phase |-> "ready"]
  /\ get = NoGet
  /\ changed = {} /\ slipped = FALSE
  /\ todo = << >> /\ asked = << >> /\ cur = NoGroup /\ visit = {} /\ pool = [k \in {} |-> {}]

Exists(pk) == table[pk] # Absent
Orderings(S) == {s \in SetToSeqs(S) :
                   \A i, j \in DOMAIN s : i < j => ~Precedes(Order(ask), table[s[j]], table[s[i]])}

(* get: the rows of the list.                                              *)
Candidates == {pk \in Pk : /\ Exists(pk) /\ Passes(ask, table[pk])
                           /\ client.last = None \/ After(Order(ask), table[pk], table[client.last])}
Query ==
  /\ client.phase = "ready" /\ ask.stat = None
  /\ client.last # None => Exists(client.last)
  /\ \E s \in Orderings(Candidates) :
       LET page == Paginate(s, ask.limit, client.offset)
       IN /\ client' = [client EXCEPT !.listed = @ \o page, !.phase = "waiting",
                                      !.last = IF ask.after /\ page # << >> THEN page[Len(page)] ELSE @,
                                      !.offset = IF ask.after \/ ask.limit = None THEN @ ELSE @ + ask.limit]
          /\ get' = [phase |-> "ids", data |-> ToSet(page), found |-> [w \in {} |-> {}], out |-> {}]
  /\ UNCHANGED <<ask, dbvars, changed, slipped, mvars>>

(* stats_view: no order, no pages.                                         *)
StatsView ==
  /\ client.phase = "ready" /\ ask.stat # None
  /\ \E result \in StatResults({table[pk] : pk \in Candidates}, ask.stat) :
       get' = [phase |-> "stat", value |-> result.value, other |-> result.other]
  /\ client' = [client EXCEPT !.phase = "done"]
  /\ UNCHANGED <<ask, dbvars, changed, slipped, mvars>>

(* _after_expr: the row to start from is gone.                             *)
BadAfter ==
  /\ client.phase = "ready" /\ client.last # None /\ ~Exists(client.last)
  /\ client' = [client EXCEPT !.phase = "failed"]
  /\ UNCHANGED <<ask, dbvars, get, changed, slipped, mvars>>

(* _get_with_ids: the ids of one relation of the objects of a path, those  *)
(* that pass its where.                                                    *)
Where(path) == IF path \in DOMAIN ask.where THEN ask.where[path] ELSE Id
FindIds(path) ==
  /\ get.phase = "ids" /\ path \in Paths(ask.withs) \ DOMAIN get.found
  /\ Len(path) > 1 => Front(path) \in DOMAIN get.found
  /\ LET parents == IF Len(path) = 1 THEN get.data ELSE Image(get.found[Front(path)])
         Related(pk) == {id \in Where(path) : <<path[Len(path)], pk, id>> \in link}
     IN get' = [get EXCEPT !.found = Put(@, path, [pk \in parents |-> Related(pk)])]
  /\ UNCHANGED <<ask, dbvars, client, changed, slipped, mvars>>

Rest(w, v) == SubSeq(v, Len(w) + 1, Len(v))

(* Mutant: the last path's ids are all that is kept.                       *)
JoinLast(v) == [get EXCEPT !.of = Put(@, <<ModelOf(get.path), Rest(get.path, v)>>, v), !.rest = @ \ {v}]

(* What _get_withs makes of the paths one by one: the ids of each model by *)
(* their annotations, and for each model its relations, whose ids are those*)
(* of the first path for an object that more than one leads to.  A later   *)
(* path's own ids are changed by this too, as the dicts are the same.      *)
JoinRest(v) ==
  LET key == <<ModelOf(get.path), Rest(get.path, v)>>
  IN [get EXCEPT !.dicts[v] = IF key \in DOMAIN get.of THEN Updated(@, get.dicts[get.of[key]]) ELSE @,
                 !.of = Put(@, key, v), !.rest = @ \ {v}]

StartJoin ==
  /\ get.phase = "ids" /\ DOMAIN get.found = Paths(ask.withs)
  /\ get' = [phase |-> "join", data |-> get.data, found |-> get.found, out |-> {}, left |-> Paths(ask.withs),
             path |-> << >>, rest |-> {}, dicts |-> get.found, flat |-> [k \in {} |-> {}], of |-> [k \in {} |-> << >>],
             model |-> None, models |-> {}, fetched |-> {}]
  /\ UNCHANGED <<ask, dbvars, client, changed, slipped, mvars>>

JoinPath(w) ==
  /\ get.phase = "join" /\ get.rest = {} /\ w \in Soonest(get.left)
  /\ LET key == [model |-> ModelOf(w), ann |-> Annotations(w)]
         earlier == IF key \in DOMAIN get.flat THEN get.flat[key] ELSE {}
     IN get' = [get EXCEPT !.flat = Put(@, key, earlier \cup Image(get.dicts[w])), !.left = @ \ {w},
                           !.path = w, !.rest = {v \in Paths(ask.withs) : IsStrictPrefix(w, v)}]
  /\ UNCHANGED <<ask, dbvars, client, changed, slipped, mvars>>

JoinNext(v) ==
  /\ get.phase = "join" /\ v \in Soonest(get.rest)
  /\ get' = JoinRest(v)
  /\ UNCHANGED <<ask, dbvars, client, changed, slipped, mvars>>

(* The models one by one.                                                  *)
AllJoined == get.phase = "join" /\ get.left = {} /\ get.rest = {}
ModelsLeft == {k.model : k \in DOMAIN get.flat} \ get.models
NextModel(m) ==
  /\ AllJoined /\ m \in ModelsLeft
  /\ get' = [get EXCEPT !.phase = "merge", !.model = m, !.models = @ \cup {m}, !.fetched = {}]
  /\ \E keys \in SetToSeqs({k \in DOMAIN get.flat : k.model = m}) :
       Start([i \in DOMAIN keys |-> [ann |-> keys[i].ann, ids |-> get.flat[keys[i]]]])
  /\ UNCHANGED <<ask, dbvars, client, changed, slipped>>

MergeStep == /\ get.phase = "merge" /\ Merge
             /\ UNCHANGED <<ask, dbvars, client, get, changed, slipped>>

-----------------------------------------------------------------------------

(* _get_objs: an annotation that needs no joins goes with the objects, the *)
(* others are spread over as few queries as their joins allow.  Which of   *)
(* two queries that do its joins it goes with makes no difference here.    *)
Spread(a, queries) ==
  LET wide == {q \in queries : Joins[a] \subseteq q.joins}
      narrow == {q \in queries : q.joins \subseteq Joins[a]}
      first == CHOOSE q \in wide : TRUE
  IN IF wide # {} THEN (queries \ {first}) \cup {[first EXCEPT !.ann = @ \cup {a}]}
     ELSE (queries \ narrow) \cup {[joins |-> Joins[a], ann |-> {a} \cup UNION {q.ann : q \in narrow}]}
Given(annotations) ==
  LET apart == {a \in annotations : Joins[a] # {}}
  IN (annotations \ apart) \cup UNION {q.ann : q \in FoldSet(Spread, {}, apart)}

(* The relations an object shows: its own, and in their place those that   *)
(* were found for the with's of its model (_annotate_obj_with_related_withs)*)
Own(rel, id) == {to \in Id : <<rel, id, to>> \in link}
WithsOf(model) == {rel \in DOMAIN Target : <<model, <<rel>>>> \in DOMAIN get.of}
Listed(model, rel, id) ==
  LET dict == get.dicts[get.of[<<model, <<rel>>>>]] IN IF id \in DOMAIN dict THEN dict[id] ELSE {}
Shown(model, id) ==
  [rel \in Relations[model] \cup WithsOf(model) |->
     IF rel \in WithsOf(model) THEN Listed(model, rel, id) ELSE Own(rel, id)]

Fetch(key) ==
  /\ get.phase = "merge" /\ Merged /\ key \in DOMAIN pool \ get.fetched
  /\ get' = [get EXCEPT !.fetched = @ \cup {key},
                        !.out = @ \cup {[model |-> get.model, id |-> id, ann |-> Given(key),
                                         shown |-> Shown(get.model, id)] : id \in pool[key] \cap others[get.model]}]
  /\ UNCHANGED <<ask, dbvars, client, changed, slipped, mvars>>

ModelDone == /\ get.phase = "merge" /\ Merged /\ get.fetched = DOMAIN pool
             /\ get' = [get EXCEPT !.phase = "join"]
             /\ UNCHANGED <<ask, dbvars, client, changed, slipped, mvars>>

(* The response; a client asks for pages until one is empty.               *)
Answer ==
  /\ AllJoined /\ ModelsLeft = {}
  /\ get' = [get EXCEPT !.phase = "done"]
  /\ client' = [client EXCEPT !.phase = IF get.data = {} \/ ask.limit = None THEN "done" ELSE "ready"]
  /\ UNCHANGED <<ask, dbvars, changed, slipped, mvars>>

-----------------------------------------------------------------------------

(* What other requests do in the meantime.                                 *)
Write(pk, row) ==
  /\ client.phase \in {"ready", "waiting"}
  /\ row # table[pk] /\ (row # Absent => row.pk = pk)
  /\ Cardinality(changed) < MaxChanges /\ pk \notin changed
  /\ table' = [table EXCEPT ![pk] = row]
  /\ changed' = changed \cup {pk}
  /\ slipped' = (slipped \/ pk = client.last)
  /\ UNCHANGED <<ask, others, link, client, get, mvars>>

Vanish(model, id) ==
  /\ client.phase = "waiting" /\ ask.removals /\ id \in others[model] /\ Cardinality(changed) < MaxChanges
  /\ others' = [others EXCEPT ![model] = @ \ {id}]
  /\ link' = {l \in link : l[3] # id \/ Target[l[1]] # model}
  /\ changed' = changed \cup {<<model, id>>}
  /\ UNCHANGED <<ask, table, client, get, slipped, mvars>>

Serve == \/ Query \/ StatsView \/ BadAfter \/ StartJoin \/ MergeStep \/ ModelDone \/ Answer
         \/ \E path \in Paths(ask.withs) : FindIds(path) \/ JoinPath(path) \/ JoinNext(path)
         \/ \E m \in DOMAIN others : NextModel(m)
         \/ \E key \in SUBSET Annotation : Fetch(key)

Next == \/ Serve
        \/ \E pk \in Pk, row \in ask.writes : Write(pk, row)
        \/ \E m \in DOMAIN others, id \in Id : Vanish(m, id)

(* A handler runs on, and a client goes on to the end of its list.         *)
Spec == Init /\ [][Next]_vars /\ WF_vars(Serve)

-----------------------------------------------------------------------------

Count(pk) == Cardinality({i \in DOMAIN client.listed : client.listed[i] = pk})
Plain(filter, row) ==
  filter.not # IF filter.all THEN filter.heads \subseteq row.facts ELSE filter.heads \cap row.facts # {}
Belongs(pk) == /\ Exists(pk) /\ PassesDeleted(ask.deleted, table[pk])
               /\ \A f \in ask.filters : Plain(f, table[pk])
               /\ Found(ask.search, table[pk])

(* A client that has read all pages has seen every row that nobody changed *)
(* once if the row belongs to the list and never if it does not, and in    *)
(* the order that was asked for: with after as long as the row a page      *)
(* starts from stays as it is, with offset if nothing changes.             *)
PagesComplete ==
  (client.phase = "done" /\ get.phase = "done" /\ ~slipped /\ (ask.after \/ changed = {})) =>
    /\ \A pk \in Pk \ changed : Count(pk) = IF Belongs(pk) THEN 1 ELSE 0
    /\ \A i, j \in DOMAIN client.listed :
         (i < j /\ {client.listed[i], client.listed[j]} \cap changed = {}) =>
           ~Precedes(Order(ask), table[client.listed[j]], table[client.listed[i]])

(* The groups of a stat and what it puts together add up to the rows that  *)
(* it counts, each row in its group, and a minimum never hides one group   *)
(* alone: it would have a name.                                            *)
StatKeepsTotal ==
  get.phase = "stat" =>
    LET counted == {pk \in Pk : /\ Belongs(pk) /\ table[pk][ask.stat.field] # None
                                /\ \A f \in ask.stat.filters : Plain(f, table[pk])}
        hidden == {table[pk][ask.stat.field] : pk \in counted} \ DOMAIN get.value
    IN /\ Total(get.value) + get.other = Cardinality(counted)
       /\ \A v \in DOMAIN get.value :
            get.value[v] = Cardinality({pk \in counted : table[pk][ask.stat.field] = v})
       /\ ask.stat.min # None => Cardinality(hidden) # 1

(* Whatever id an answer lists for a relation of with, the object itself   *)
(* is in the answer exactly once, unless it was removed after the ids were *)
(* read.                                                                   *)
Lists == UNION ({[model : {ModelOf(w)}, id : Image(get.dicts[w])] : w \in {w \in Paths(ask.withs) : Len(w) = 1}}
                \cup {UNION {[model : {Target[rel]}, id : o.shown[rel]] : rel \in WithsOf(o.model)} : o \in get.out})
ListedIncluded ==
  get.phase = "done" => \A l \in Lists : l.id \in others[l.model] =>
    Cardinality({o \in get.out : o.model = l.model /\ o.id = l.id}) = 1

(* An object carries the annotations that were asked for any of the paths  *)
(* that lead to it, and no others.                                         *)
AnnotationsRight ==
  get.phase = "done" => \A o \in get.out :
    o.ann = UNION {Annotations(w) : w \in {w \in Paths(ask.withs) :
                                             ModelOf(w) = o.model /\ o.id \in Image(get.dicts[w])}}

(* An object that a path leads to shows all it has in a relation that the  *)
(* path goes on with, whichever other paths lead to it too.                *)
Quiet == DOMAIN ask.where = {} /\ changed = {}
RelationsComplete ==
  (get.phase = "done" /\ Quiet) => \A w \in Paths(ask.withs), o \in get.out :
    (o.model = ModelOf(w) /\ o.id \in Image(get.found[w])) =>
      \A rel \in DOMAIN Target : Append(w, rel) \in Paths(ask.withs) => o.shown[rel] = Own(rel, o.id)

(* Every list comes to its end, however ids and annotations overlap.       *)
ListsEnd == <>(client.phase \in {"done", "failed"})
=============================================================================
