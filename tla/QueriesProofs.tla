--------------------------- MODULE QueriesProofs ----------------------------
(***************************************************************************)
(* Proofs about the GETs of Queries: what a client that reads page by page *)
(* has seen, what the groups of a stat add up to, and what an answer with  *)
(* withs includes.  Each has its own inductive invariant, as the three     *)
(* share nothing but the request: PagesInv, StatInv and WithInv, the last  *)
(* of which rests on that of the loop over to_add, MergeInv.               *)
(*                                                                         *)
(* A fold over a finite set is the least of its kind of equation: that it  *)
(* has a solution, and that all solutions have a property, is shown by a   *)
(* smallest set for which it would be otherwise.                           *)
(***************************************************************************)
EXTENDS Queries, SequenceTheorems, FiniteSetTheorems, TLAPS

(* Numbers, finite sets and folds.                                         *)
LEMMA LeastNat ==
  ASSUME NEW N \in SUBSET Nat, N # {}
  PROVE  \E n \in N : \A m \in N : n <= m
<1>1. IsWellFoundedOn(OpToRel(<, Nat), Nat)
  BY NatLessThanWellFounded
<1>2. \E x \in N : \A y \in N : ~(<<y, x>> \in OpToRel(<, Nat))
  BY <1>1, WFMin, Zenon
<1>3. \A x, y \in Nat : <<y, x>> \in OpToRel(<, Nat) <=> y < x
  BY DEF OpToRel
<1>4. \E x \in N : \A y \in N : ~(y < x)
  BY <1>2, <1>3, Zenon
<1> QED BY <1>4

LEMMA SmallestSet ==
  ASSUME NEW S, IsFiniteSet(S), NEW B \in SUBSET SUBSET S, B # {}
  PROVE  \E t \in B : \A u \in B : Cardinality(t) <= Cardinality(u)
<1> DEFINE N == {Cardinality(t) : t \in B}
<1>1. N \in SUBSET Nat /\ N # {}
  BY FS_Subset, FS_CardinalityType
<1> HIDE DEF N
<1>2. PICK n \in N : \A m \in N : n <= m
  BY <1>1, LeastNat
<1> QED BY <1>2 DEF N

(* What holds of the empty set, and is kept as an element is added, holds  *)
(* of every finite set.                                                    *)
LEMMA FoldKeeps ==
  ASSUME NEW S, IsFiniteSet(S), NEW g, NEW Good, g[{}] \in Good[{}],
         \A t \in (SUBSET S) \ {{}} : \E x \in t : g[t \ {x}] \in Good[t \ {x}] => g[t] \in Good[t]
  PROVE  \A t \in SUBSET S : g[t] \in Good[t]
<1> DEFINE B == {t \in SUBSET S : g[t] \notin Good[t]}
<1>1. SUFFICES ASSUME B # {} PROVE FALSE
  OBVIOUS
<1>2. B \in SUBSET SUBSET S
  OBVIOUS
<1>3. PICK t \in B : \A u \in B : Cardinality(t) <= Cardinality(u)
  <2> HIDE DEF B
  <2> QED BY <1>1, <1>2, SmallestSet
<1>4. t # {} /\ t \in SUBSET S
  OBVIOUS
<1>5. PICK x \in t : g[t \ {x}] \in Good[t \ {x}] => g[t] \in Good[t]
  BY <1>4
<1>6. t \ {x} \in B
  BY <1>4, <1>5
<1>7. Cardinality(t) \in Nat /\ Cardinality(t \ {x}) = Cardinality(t) - 1
  BY <1>4, FS_Subset, FS_CardinalityType, FS_RemoveElement
<1>8. Cardinality(t) <= Cardinality(t \ {x})
  BY <1>3, <1>6
<1> QED BY <1>7, <1>8

Folds(S, V, base, h, c) ==
  \E g \in [SUBSET S -> V] :
    g = [t \in SUBSET S |-> IF t = {} THEN base ELSE h[<<c[t], g[t \ {c[t]}]>>]]
Folds1(S, base, h, c, g, t) == g[t] = IF t = {} THEN base ELSE h[<<c[t], g[t \ {c[t]}]>>]

LEMMA FoldExists ==
  ASSUME NEW S, IsFiniteSet(S), NEW V, NEW base \in V, NEW h \in [S \X V -> V],
         NEW c, \A t \in (SUBSET S) \ {{}} : c[t] \in t
  PROVE  Folds(S, V, base, h, c)
<1> DEFINE Up(n) == \E g \in [SUBSET S -> V] : \A t \in SUBSET S : Cardinality(t) <= n => Folds1(S, base, h, c, g, t)
           N == {n \in Nat : ~Up(n)}
<1>0. \A t \in SUBSET S : Cardinality(t) \in Nat /\ (Cardinality(t) = 0 <=> t = {})
  BY FS_Subset, FS_CardinalityType, FS_EmptySet
<1>1. N = {}
  <2>1. SUFFICES ASSUME N # {} PROVE FALSE
    OBVIOUS
  <2>2. N \in SUBSET Nat
    OBVIOUS
  <2>3. PICK n \in N : \A m \in N : n <= m
    <3> HIDE DEF N
    <3> QED BY <2>1, <2>2, LeastNat
  <2>4. n \in Nat /\ ~Up(n)
    OBVIOUS
  <2>5. n # 0
    <3> DEFINE g == [t \in SUBSET S |-> base]
    <3>1. g \in [SUBSET S -> V]
      OBVIOUS
    <3>2. \A t \in SUBSET S : Cardinality(t) <= 0 => Folds1(S, base, h, c, g, t)
      BY <1>0 DEF Folds1
    <3> HIDE DEF g
    <3> QED BY <2>4, <3>1, <3>2
  <2>6. n - 1 \in Nat /\ Up(n - 1)
    <3> HIDE DEF Up
    <3>1. n - 1 \in Nat /\ ~(n <= n - 1)
      BY <2>4, <2>5
    <3>2. n - 1 \notin N
      BY <2>3, <3>1
    <3> QED BY <3>1, <3>2
  <2>7. PICK f \in [SUBSET S -> V] : \A t \in SUBSET S : Cardinality(t) <= n - 1 => Folds1(S, base, h, c, f, t)
    BY <2>6
  <2> DEFINE g == [t \in SUBSET S |-> IF t = {} THEN base ELSE h[<<c[t], f[t \ {c[t]}]>>]]
  <2>8. ASSUME NEW t \in SUBSET S, t # {}
        PROVE  c[t] \in S /\ t \ {c[t]} \in SUBSET S /\ Cardinality(t \ {c[t]}) = Cardinality(t) - 1
    <3>1. c[t] \in t
      BY <2>8
    <3>2. IsFiniteSet(t)
      BY FS_Subset
    <3>3. PICK x \in t : x = c[t]
      BY <3>1
    <3>4. Cardinality(t \ {x}) = Cardinality(t) - 1
      BY <3>2, FS_RemoveElement
    <3> QED BY <3>1, <3>3, <3>4
  <2>9. g \in [SUBSET S -> V]
    BY <2>8
  <2>10. ASSUME NEW t \in SUBSET S, Cardinality(t) <= n
         PROVE  Folds1(S, base, h, c, g, t)
    <3>1. CASE t = {}
      BY <3>1 DEF Folds1
    <3>2. CASE t # {}
      <4>1. /\ t \ {c[t]} \in SUBSET S /\ Cardinality(t \ {c[t]}) <= n - 1
        BY <1>0, <2>4, <2>8, <2>10, <3>2
      <4>2. Folds1(S, base, h, c, f, t \ {c[t]})
        BY <2>7, <4>1
      <4>3. g[t \ {c[t]}] = f[t \ {c[t]}]
        BY <4>1, <4>2 DEF Folds1
      <4> QED BY <3>2, <4>3 DEF Folds1
    <3> QED BY <3>1, <3>2
  <2> HIDE DEF g
  <2> QED BY <2>4, <2>9, <2>10
<1>2. Cardinality(S) \in Nat
  BY FS_CardinalityType
<1>3. PICK g \in [SUBSET S -> V] : \A t \in SUBSET S : Cardinality(t) <= Cardinality(S) => Folds1(S, base, h, c, g, t)
  BY <1>1, <1>2
<1>4. \A t \in SUBSET S : Folds1(S, base, h, c, g, t)
  BY <1>3, FS_Subset
<1>5. g = [t \in SUBSET S |-> IF t = {} THEN base ELSE h[<<c[t], g[t \ {c[t]}]>>]]
  <2>1. g = [t \in SUBSET S |-> g[t]]
    OBVIOUS
  <2>2. \A t \in SUBSET S : g[t] = IF t = {} THEN base ELSE h[<<c[t], g[t \ {c[t]}]>>]
    BY <1>4 DEF Folds1
  <2> QED BY <2>1, <2>2, Zenon
<1> QED BY <1>5 DEF Folds

LEMMA ImageFinite ==
  ASSUME NEW S, IsFiniteSet(S), NEW f
  PROVE  IsFiniteSet({f[x] : x \in S})
<1> DEFINE T == {f[x] : x \in S}
<1>1. [x \in S |-> f[x]] \in Surjection(S, T)
  BY DEF Surjection
<1> QED BY <1>1, FS_Surjection

(* A sequence of a finite set names all of it, each once.                  *)
LEMMA SeqsNameAll ==
  ASSUME NEW S, IsFiniteSet(S), NEW s \in SetToSeqs(S)
  PROVE  /\ s \in Seq(S) /\ \A x \in S : \E i \in DOMAIN s : s[i] = x
         /\ \A i, j \in DOMAIN s : i # j => s[i] # s[j]
<1> DEFINE n == Cardinality(S)
<1>1. n \in Nat
  BY FS_CardinalityType
<1>2. s \in [1..n -> S] /\ \A i, j \in 1..n : i # j => s[i] # s[j]
  BY DEF SetToSeqs
<1>3. s \in Injection(1..n, S)
  BY <1>2 DEF Injection, IsInjective
<1>4. Cardinality(1..n) = n
  BY <1>1, FS_Interval
<1>5. s \in Surjection(1..n, S)
  BY <1>1, <1>3, <1>4, FS_Injection
<1>6. \A x \in S : \E i \in 1..n : s[i] = x
  BY <1>5 DEF Surjection
<1> QED BY <1>1, <1>2, <1>6

-----------------------------------------------------------------------------

(* The merge of the sets of annotations.                                   *)
Shape == /\ todo \in Seq(Group) /\ asked \in Seq(Group)
         /\ cur \in Group \cup {NoGroup}
         /\ DOMAIN pool \subseteq SUBSET Annotation
         /\ pool = [k \in DOMAIN pool |-> pool[k]]
         /\ \A k \in DOMAIN pool : pool[k] \subseteq Id
         /\ visit \subseteq DOMAIN pool

(* Where an id is with exactly these annotations.                          *)
InTodo(id, ann) == \E i \in DOMAIN todo : todo[i].ann = ann /\ id \in todo[i].ids
InCur(id, ann) == cur # NoGroup /\ cur.ann = ann /\ id \in cur.ids
InPool(id, ann) == ann \in DOMAIN pool /\ id \in pool[ann]
Carried(id, ann) == InTodo(id, ann) \/ InCur(id, ann) \/ InPool(id, ann)

Has(id) == \E ann \in SUBSET Annotation : Carried(id, ann)
HasWith(id, a) == \E ann \in SUBSET Annotation : Carried(id, ann) /\ a \in ann

Conserved == \A id \in Id : /\ id \in Ids <=> Has(id)
                            /\ \A a \in Annotation : a \in Wanted(id) <=> HasWith(id, a)

Disjoint == \A k, l \in DOMAIN pool : k # l => pool[k] \cap pool[l] = {}
Passed == cur # NoGroup => \A k \in DOMAIN pool \ visit : pool[k] \cap cur.ids = {}

MergeInv == Shape /\ Conserved /\ Disjoint /\ Passed

-----------------------------------------------------------------------------

LEMMA GroupsAreGroups ==
  ASSUME NEW groups \in Seq(Group)
  PROVE  \A i \in DOMAIN groups : groups[i] \in Group /\ groups[i].ann \in SUBSET Annotation
<1>1. \A i \in DOMAIN groups : groups[i] \in Group
  <2>1. DOMAIN groups = 1..Len(groups)
    BY LenProperties
  <2> QED BY <2>1, ElementOfSeq
<1> QED BY <1>1 DEF Group

(* What the loop is given is what is carried at first.                     *)
LEMMA StartsRight ==
  ASSUME NEW groups \in Seq(Group), todo = groups, asked = groups,
         cur = NoGroup, visit = {}, pool = [k \in {} |-> {}]
  PROVE  MergeInv
<1>1. Shape
  BY DEF Shape
<1>2. \A id \in Id : \A ann : Carried(id, ann) <=> InTodo(id, ann)
  BY DEF Carried, InCur, InPool
<1>3. \A i \in DOMAIN asked : asked[i].ann \in SUBSET Annotation
  BY GroupsAreGroups
<1>4. Conserved
  <2> SUFFICES ASSUME NEW id \in Id
               PROVE  /\ id \in Ids <=> Has(id)
                      /\ \A a \in Annotation : a \in Wanted(id) <=> HasWith(id, a)
    BY DEF Conserved
  <2>1. id \in Ids <=> \E i \in DOMAIN asked : id \in asked[i].ids
    BY DEF Ids
  <2>2. Has(id) <=> \E i \in DOMAIN todo : id \in todo[i].ids
    <3>1. Has(id) <=> \E ann \in SUBSET Annotation : InTodo(id, ann)
      BY <1>2 DEF Has
    <3>2. ASSUME NEW i \in DOMAIN todo, id \in todo[i].ids PROVE InTodo(id, todo[i].ann)
      BY <3>2 DEF InTodo
    <3> QED BY <1>3, <3>1, <3>2 DEF InTodo
  <2>3. ASSUME NEW a \in Annotation
        PROVE  a \in Wanted(id) <=> HasWith(id, a)
    <3>1. a \in Wanted(id) <=> \E i \in DOMAIN asked : id \in asked[i].ids /\ a \in asked[i].ann
      BY DEF Wanted
    <3>2. HasWith(id, a) <=> \E i \in DOMAIN todo : id \in todo[i].ids /\ a \in todo[i].ann
      BY <1>2, <1>3 DEF HasWith, InTodo
    <3> QED BY <3>1, <3>2
  <2> QED BY <2>1, <2>2, <2>3
<1>5. Disjoint /\ Passed
  BY DEF Disjoint, Passed
<1> QED BY <1>1, <1>4, <1>5 DEF MergeInv

(* A step that leaves to each id the sets of annotations it is carried     *)
(* with conserves the annotations.                                         *)
LEMMA SameCarried ==
  ASSUME Conserved, UNCHANGED asked,
         \A id \in Id : \A ann \in SUBSET Annotation : Carried(id, ann)' <=> Carried(id, ann)
  PROVE  Conserved'
BY DEF Conserved, Has, HasWith, Ids, Wanted

-----------------------------------------------------------------------------

LEMMA PopKeeps == ASSUME MergeInv, Pop PROVE MergeInv'
<1> USE GroupAssumption
<1> DEFINE n == Len(todo)
<1>1. todo \in Seq(Group) /\ n \in Nat \ {0} /\ DOMAIN todo = 1..n
  BY EmptySeq, LenProperties DEF MergeInv, Shape, Pop
<1>2. /\ todo' \in Seq(Group) /\ DOMAIN todo' = 1..(n - 1)
      /\ \A i \in 1..(n - 1) : todo'[i] = todo[i]
  <2>1. todo' = SubSeq(todo, 1, n - 1)
    BY DEF Pop
  <2>2. todo' \in Seq(Group) /\ Len(todo') = n - 1
    BY <1>1, <2>1, SubSeqProperties
  <2>3. \A i \in 1..(n - 1) : todo'[i] = todo[i]
    BY <1>1, <2>1, SubSeqProperties
  <2> QED BY <2>2, <2>3, LenProperties
<1>3. cur = NoGroup /\ cur' = todo[n] /\ todo[n] \in Group
  BY <1>1 DEF Pop
<1>4. cur' # NoGroup
  BY <1>3 DEF Group
<1>5. Shape'
  BY <1>2, <1>3 DEF MergeInv, Shape, Pop
<1>6. Conserved'
  <2>1. ASSUME NEW id \in Id, NEW ann \in SUBSET Annotation
        PROVE  Carried(id, ann)' <=> Carried(id, ann)
    <3>1. InPool(id, ann)' <=> InPool(id, ann)
      BY DEF InPool, Pop
    <3>2. InCur(id, ann)' <=> todo[n].ann = ann /\ id \in todo[n].ids
      BY <1>3, <1>4 DEF InCur
    <3>3. InTodo(id, ann)' <=> \E i \in 1..(n - 1) : todo[i].ann = ann /\ id \in todo[i].ids
      BY <1>2 DEF InTodo
    <3>4. InTodo(id, ann) <=> \E i \in 1..n : todo[i].ann = ann /\ id \in todo[i].ids
      BY <1>1 DEF InTodo
    <3>5. ~InCur(id, ann)
      BY <1>3 DEF InCur
    <3>6. \A i : i \in 1..n <=> i \in 1..(n - 1) \/ i = n
      BY <1>1
    <3> QED BY <3>1, <3>2, <3>3, <3>4, <3>5, <3>6 DEF Carried
  <2> QED BY <2>1, SameCarried DEF MergeInv, Pop
<1>7. Disjoint' /\ Passed'
  BY DEF MergeInv, Disjoint, Passed, Pop
<1> QED BY <1>5, <1>6, <1>7 DEF MergeInv

-----------------------------------------------------------------------------

(* What a comparison does to the pool, and to the groups that are left.    *)
LEMMA VisitPool ==
  ASSUME MergeInv, NEW key \in SUBSET Annotation, Visit(key)
  PROVE  /\ DOMAIN pool' \subseteq DOMAIN pool
         /\ \A k \in DOMAIN pool' : k # key => pool'[k] = pool[k]
         /\ key \in DOMAIN pool' => pool'[key] = pool[key] \ cur.ids
         /\ \A k \in DOMAIN pool \ DOMAIN pool' : k = key /\ pool[k] \subseteq cur.ids
         /\ pool' = [k \in DOMAIN pool' |-> pool'[k]]
<1>1. key \in DOMAIN pool
  BY DEF MergeInv, Shape, Visit, Compare
<1>2. pool' = But(pool, key, pool[key] \cap cur.ids)
  BY DEF Visit, Compare
<1>3. DOMAIN pool' = {k \in DOMAIN pool : k # key \/ pool[k] # pool[key] \cap cur.ids}
  BY <1>2 DEF But
<1>4. \A k \in DOMAIN pool' : pool'[k] = IF k = key THEN pool[k] \ (pool[key] \cap cur.ids) ELSE pool[k]
  BY <1>2, <1>3 DEF But
<1>5. pool' = [k \in DOMAIN pool' |-> pool'[k]]
  BY <1>2 DEF But
<1> QED BY <1>1, <1>3, <1>4, <1>5

LEMMA VisitTodo ==
  ASSUME MergeInv, NEW key \in SUBSET Annotation, Visit(key)
  PROVE  /\ todo' \in Seq(Group)
         /\ cur' = [ann |-> cur.ann, ids |-> cur.ids \ pool[key]]
         /\ cur \in Group /\ cur' \in Group /\ key \in DOMAIN pool
         /\ \A id, ann : InTodo(id, ann)' <=>
              InTodo(id, ann) \/ (id \in pool[key] \cap cur.ids /\ ann = key \cup cur.ann)
<1>1. /\ cur \in Group /\ key \in DOMAIN pool /\ pool[key] \subseteq Id /\ todo \in Seq(Group)
      /\ cur' = [cur EXCEPT !.ids = cur.ids \ pool[key]]
      /\ todo' = todo \o Shared(key, key \cup cur.ann)
  BY DEF MergeInv, Shape, Visit, Compare
<1>2. cur' = [ann |-> cur.ann, ids |-> cur.ids \ pool[key]] /\ cur' \in Group
  BY <1>1 DEF Group
<1>3. CASE pool[key] \cap cur.ids = {}
  <2>1. todo' = todo \o << >>
    BY <1>1, <1>3 DEF Shared
  <2>2. todo' = todo
    BY <1>1, <2>1, ConcatEmptySeq
  <2> QED BY <1>1, <1>2, <1>3, <2>2 DEF InTodo
<1>4. CASE pool[key] \cap cur.ids # {}
  <2> DEFINE g == [ann |-> key \cup cur.ann, ids |-> pool[key] \cap cur.ids]
             n == Len(todo)
  <2>1. g \in Group
    BY <1>1 DEF Group
  <2>2. todo' = Append(todo, g)
    <3>1. todo' = todo \o <<g>>
      BY <1>1, <1>4 DEF Shared
    <3> QED BY <3>1, <1>1, <2>1, AppendIsConcat
  <2>3. /\ n \in Nat /\ DOMAIN todo = 1..n /\ todo' \in Seq(Group) /\ DOMAIN todo' = 1..(n + 1)
        /\ \A i \in 1..n : todo'[i] = todo[i]
        /\ todo'[n + 1] = g
    <3>0. todo \in Seq(Group) /\ g \in Group
      BY <1>1, <2>1
    <3> HIDE DEF g
    <3>1. n \in Nat /\ DOMAIN todo = 1..n
      BY <1>1, LenProperties
    <3>2. todo' \in Seq(Group) /\ Len(todo') = n + 1
      BY <3>0, <2>2, AppendProperties
    <3>3. DOMAIN todo' = 1..(n + 1)
      BY <3>2, LenProperties
    <3>4. \A i \in 1..n : todo'[i] = todo[i]
      BY <3>0, <2>2, AppendProperties
    <3>5. todo'[n + 1] = g
      BY <3>0, <2>2, AppendProperties
    <3> QED BY <3>1, <3>2, <3>3, <3>4, <3>5
  <2>4. ASSUME NEW id, NEW ann
        PROVE  InTodo(id, ann)' <=> InTodo(id, ann) \/ (id \in pool[key] \cap cur.ids /\ ann = key \cup cur.ann)
    <3>1. InTodo(id, ann)' <=> \E i \in 1..(n + 1) : todo'[i].ann = ann /\ id \in todo'[i].ids
      BY <2>3 DEF InTodo
    <3>2. \A i : i \in 1..(n + 1) <=> i \in 1..n \/ i = n + 1
      BY <2>3
    <3>3. InTodo(id, ann) <=> \E i \in 1..n : todo[i].ann = ann /\ id \in todo[i].ids
      BY <2>3 DEF InTodo
    <3>4. g.ann = key \cup cur.ann /\ g.ids = pool[key] \cap cur.ids
      OBVIOUS
    <3> HIDE DEF g
    <3> QED BY <2>3, <3>1, <3>2, <3>3, <3>4
  <2> QED BY <1>1, <1>2, <2>3, <2>4
<1> QED BY <1>3, <1>4

LEMMA VisitKeeps ==
  ASSUME MergeInv, NEW key \in SUBSET Annotation, Visit(key)
  PROVE  MergeInv'
<1> USE GroupAssumption
<1>1. visit' = visit \ {key} /\ UNCHANGED asked /\ cur # NoGroup
  BY DEF Visit, Compare
<1>2. /\ cur.ann \in SUBSET Annotation /\ cur.ids \in SUBSET Id
      /\ cur' # NoGroup /\ cur'.ann = cur.ann /\ cur'.ids = cur.ids \ pool[key]
  BY VisitTodo DEF Group
<1>3. visit' \subseteq DOMAIN pool'
  BY <1>1, VisitPool DEF MergeInv, Shape
<1>4. Shape'
  BY <1>1, <1>3, VisitPool, VisitTodo DEF MergeInv, Shape
<1>5. Disjoint'
  BY VisitPool DEF MergeInv, Disjoint
<1>6. Passed'
  <2> SUFFICES ASSUME NEW k \in DOMAIN pool' \ visit' PROVE pool'[k] \cap cur'.ids = {}
    BY DEF Passed
  <2>1. CASE k = key
    BY <1>2, <2>1, VisitPool
  <2>2. CASE k # key
    BY <1>1, <1>2, <2>2, VisitPool DEF MergeInv, Passed
  <2> QED BY <2>1, <2>2
<1>7. Conserved'
  <2> DEFINE S == pool[key] \cap cur.ids
  <2>1. ASSUME NEW id \in Id, NEW ann \in SUBSET Annotation
        PROVE  /\ InTodo(id, ann)' <=> InTodo(id, ann) \/ (id \in S /\ ann = key \cup cur.ann)
               /\ InCur(id, ann)' <=> InCur(id, ann) /\ id \notin S
               /\ InPool(id, ann)' <=> InPool(id, ann) /\ (ann = key => id \notin S)
    <3>1. InTodo(id, ann)' <=> InTodo(id, ann) \/ (id \in S /\ ann = key \cup cur.ann)
      BY VisitTodo
    <3>2. InCur(id, ann)' <=> InCur(id, ann) /\ id \notin S
      BY <1>1, <1>2 DEF InCur
    <3>3. InPool(id, ann)' <=> InPool(id, ann) /\ (ann = key => id \notin S)
      <4>1. InPool(id, ann)' <=> ann \in DOMAIN pool' /\ id \in pool'[ann]
        BY DEF InPool
      <4>2. CASE ann = key
        BY <4>1, <4>2, VisitPool, VisitTodo DEF InPool
      <4>3. CASE ann # key
        BY <4>1, <4>3, VisitPool DEF InPool
      <4> QED BY <4>2, <4>3
    <3> QED BY <3>1, <3>2, <3>3
  <2>2. ASSUME NEW id \in S
        PROVE  /\ InCur(id, cur.ann) /\ InPool(id, key)
               /\ \A ann : ann = key \cup cur.ann => InTodo(id, ann)'
    BY <1>1, VisitTodo DEF InCur, InPool
  <2>3. key \cup cur.ann \in SUBSET Annotation
    BY <1>2
  <2>4. \A id \in Id, ann \in SUBSET Annotation : InCur(id, ann) => ann = cur.ann
    BY DEF InCur
  <2>5. ASSUME NEW id \in Id PROVE Has(id)' <=> Has(id)
    <3>1. CASE id \in S
      BY <1>2, <2>2, <2>3, <3>1 DEF Has, Carried
    <3>2. CASE id \notin S
      BY <2>1, <3>2 DEF Has, Carried
    <3> QED BY <3>1, <3>2
  <2>6. ASSUME NEW id \in Id, NEW a \in Annotation PROVE HasWith(id, a)' <=> HasWith(id, a)
    <3>1. CASE id \in S
      <4>1. ASSUME NEW ann \in SUBSET Annotation, Carried(id, ann), a \in ann
            PROVE  HasWith(id, a)'
        <5>1. CASE InTodo(id, ann)
          BY <2>1, <4>1, <5>1 DEF HasWith, Carried
        <5>2. CASE InCur(id, ann)
          <6>1. a \in key \cup cur.ann
            BY <2>4, <4>1, <5>2
          <6> QED BY <2>2, <2>3, <3>1, <6>1 DEF HasWith, Carried
        <5>3. CASE InPool(id, ann) /\ ann = key
          <6>1. a \in key \cup cur.ann
            BY <4>1, <5>3
          <6> QED BY <2>2, <2>3, <3>1, <6>1 DEF HasWith, Carried
        <5>4. CASE InPool(id, ann) /\ ann # key
          BY <2>1, <4>1, <5>4 DEF HasWith, Carried
        <5> QED BY <4>1, <5>1, <5>2, <5>3, <5>4 DEF Carried
      <4>2. ASSUME NEW ann \in SUBSET Annotation, Carried(id, ann)', a \in ann
            PROVE  HasWith(id, a)
        <5>1. CASE Carried(id, ann)
          BY <4>2, <5>1 DEF HasWith
        <5>2. CASE ann = key \cup cur.ann
          BY <1>2, <2>2, <3>1, <4>2, <5>2 DEF HasWith, Carried
        <5> QED BY <2>1, <4>2, <5>1, <5>2 DEF Carried
      <4> QED BY <4>1, <4>2 DEF HasWith
    <3>2. CASE id \notin S
      BY <2>1, <3>2 DEF HasWith, Carried
    <3> QED BY <3>1, <3>2
  <2> QED BY <1>1, <2>5, <2>6 DEF MergeInv, Conserved, Ids, Wanted
<1> QED BY <1>4, <1>5, <1>6, <1>7 DEF MergeInv

-----------------------------------------------------------------------------

LEMMA PlaceKeeps == ASSUME MergeInv, Place PROVE MergeInv'
<1> USE GroupAssumption
<1>1. /\ cur # NoGroup /\ cur \in Group /\ cur' = NoGroup /\ visit' = {} /\ UNCHANGED <<todo, asked>>
      /\ cur.ann \in SUBSET Annotation /\ cur.ids \in SUBSET Id
  BY DEF MergeInv, Shape, Place, Group
<1>2. CASE cur.ids = {}
  <2>1. pool' = pool
    BY <1>2 DEF Place
  <2>2. Shape' /\ Disjoint' /\ Passed'
    BY <1>1, <2>1 DEF MergeInv, Shape, Disjoint, Passed
  <2>3. ASSUME NEW id \in Id, NEW ann \in SUBSET Annotation
        PROVE  Carried(id, ann)' <=> Carried(id, ann)
    BY <1>1, <1>2, <2>1 DEF Carried, InTodo, InCur, InPool
  <2> QED BY <1>1, <2>2, <2>3, SameCarried DEF MergeInv
<1>3. CASE cur.ids # {}
  <2> DEFINE Old(k) == IF k \in DOMAIN pool THEN pool[k] ELSE {}
  <2>1. pool' = [k \in DOMAIN pool \cup {cur.ann} |->
                   IF k # cur.ann THEN pool[k] ELSE cur.ids \cup Old(k)]
    BY <1>3 DEF Place
  <2>2. /\ DOMAIN pool' = DOMAIN pool \cup {cur.ann}
        /\ \A k \in DOMAIN pool : k # cur.ann => pool'[k] = pool[k]
        /\ pool'[cur.ann] = cur.ids \cup Old(cur.ann)
        /\ pool' = [k \in DOMAIN pool' |-> pool'[k]]
    BY <2>1
  <2>3. visit = {}
    BY <1>3 DEF Place
  <2>4. \A k \in DOMAIN pool : pool[k] \cap cur.ids = {}
    BY <1>1, <2>3 DEF MergeInv, Passed
  <2>5. Shape'
    BY <1>1, <2>2 DEF MergeInv, Shape
  <2>6. Disjoint' /\ Passed'
    BY <1>1, <2>2, <2>4 DEF MergeInv, Disjoint, Passed
  <2>7. ASSUME NEW id \in Id, NEW ann \in SUBSET Annotation
        PROVE  Carried(id, ann)' <=> Carried(id, ann)
    <3>1. InTodo(id, ann)' <=> InTodo(id, ann)
      BY <1>1 DEF InTodo
    <3>2. InPool(id, ann)' <=> InPool(id, ann) \/ InCur(id, ann)
      BY <1>1, <2>2 DEF InPool, InCur
    <3>3. ~InCur(id, ann)'
      BY <1>1 DEF InCur
    <3> QED BY <3>1, <3>2, <3>3 DEF Carried
  <2> QED BY <1>1, <2>5, <2>6, <2>7, SameCarried DEF MergeInv
<1> QED BY <1>2, <1>3

(* The invariant gives what the loop promises when it ends.                *)
LEMMA ThenExact == ASSUME MergeInv PROVE MergedExactly
<1> SUFFICES ASSUME Merged, NEW id \in Id
             PROVE  {key \in DOMAIN pool : id \in pool[key]} = IF id \in Ids THEN {Wanted(id)} ELSE {}
  BY DEF MergedExactly
<1> DEFINE Placed == {key \in DOMAIN pool : id \in pool[key]}
<1>1. \A ann \in SUBSET Annotation : Carried(id, ann) <=> ann \in Placed
  <2>1. DOMAIN todo = {} /\ cur = NoGroup
    BY DEF Merged
  <2> QED BY <2>1 DEF Carried, InTodo, InCur, InPool
<1>2. Placed \subseteq SUBSET Annotation
  BY DEF MergeInv, Shape
<1>3. \A k, l \in Placed : k = l
  BY DEF MergeInv, Disjoint
<1>4. id \in Ids <=> Placed # {}
  BY <1>1, <1>2 DEF MergeInv, Conserved, Has
<1>5. ASSUME NEW k \in Placed PROVE Wanted(id) = k
  <2>1. Wanted(id) \subseteq Annotation
    <3>1. asked \in Seq(Group)
      BY DEF MergeInv, Shape
    <3> QED BY <3>1, GroupsAreGroups DEF Wanted
  <2>2. \A a \in Annotation : a \in Wanted(id) <=> \E l \in Placed : a \in l
    BY <1>1, <1>2 DEF MergeInv, Conserved, HasWith
  <2> QED BY <1>2, <1>3, <2>1, <2>2
<1>6. CASE id \in Ids
  <2>1. PICK k \in Placed : TRUE
    BY <1>4, <1>6
  <2> QED BY <1>3, <1>5, <1>6, <2>1
<1>7. CASE id \notin Ids
  BY <1>4, <1>7
<1> QED BY <1>6, <1>7

-----------------------------------------------------------------------------

(* The loop is given groups.                                               *)
Begun == \E groups \in Seq(Group) :
           /\ todo = groups /\ asked = groups
           /\ cur = NoGroup /\ visit = {} /\ pool = [k \in {} |-> {}]

LEMMA BegunRight == Begun => MergeInv
BY StartsRight DEF Begun

LEMMA BegunNext == Begun' => MergeInv'
BY BegunRight, PTL

LEMMA MergeSame == ASSUME MergeInv, UNCHANGED mvars PROVE MergeInv'
<1>1. UNCHANGED <<todo, cur, visit, pool, asked>>
  BY DEF mvars
<1>2. Shape' /\ Disjoint' /\ Passed'
  BY <1>1 DEF MergeInv, Shape, Disjoint, Passed
<1>3. \A id \in Id : \A ann \in SUBSET Annotation : Carried(id, ann)' <=> Carried(id, ann)
  BY <1>1 DEF Carried, InTodo, InCur, InPool
<1> QED BY <1>1, <1>2, <1>3, SameCarried DEF MergeInv

LEMMA MergeKeeps == ASSUME MergeInv, Merge PROVE MergeInv' /\ UNCHANGED asked /\ ~Merged
<1>1. MergeInv'
  BY PopKeeps, PlaceKeeps, VisitKeeps DEF Merge
<1> QED BY <1>1 DEF Merge, Pop, Place, Visit, Compare, Merged

(* _get_withs: when the loop over to_add ends, every id of a group is in   *)
(* exactly one group of annotation_ids, that of all the annotations asked  *)
(* for it, however the groups that were given overlap.                     *)
THEOREM MergeIsExact == MergeSpec => []MergedExactly
<1>1. MergeInv /\ [Merge]_mvars => MergeInv'
  BY MergeKeeps, MergeSame
<1> QED BY <1>1, BegunRight, ThenExact, PTL DEF MergeSpec, Begun

-----------------------------------------------------------------------------

(* The pages that a client reads.  What it has been given (AfterPages,     *)
(* OffsetPages) is what comes before the place it is at; a row that moves  *)
(* is in changed, unless it is the one that the place is named by: then it *)
(* has slipped.                                                            *)
Reading == client.phase \in {"waiting", "done"} /\ get.phase \in {"ids", "join", "merge", "done"}
ReadAll == Reading /\ (get.data = {} \/ ask.limit = None)

AskOK == /\ ask.order \in Seq(Keys) /\ ask.limit \in {None} \cup (Nat \ {0})
         /\ \A h \in ask.filters : h.not \in BOOLEAN /\ h.all \in BOOLEAN
         /\ \A row \in ask.writes \ {Absent} : Ordered(ask, row)
TableOK == /\ DOMAIN table = Pk
           /\ \A pk \in Pk : Exists(pk) => table[pk].pk = pk /\ Ordered(ask, table[pk])
ClientOK == /\ client = [listed |-> client.listed, last |-> client.last, offset |-> client.offset, phase |-> client.phase]
            /\ client.listed \in Seq(Pk) /\ client.last \in Pk \cup {None} /\ client.offset \in Nat
            /\ (client.offset = 0 \/ ~ask.after) /\ (client.last = None \/ ask.after)
GetOK == /\ get.phase \in {"none", "ids", "join", "merge", "done"}
         /\ get.phase # "none" => {"phase", "data"} \subseteq DOMAIN get
         /\ get.phase \in {"ids", "join", "merge"} => client.phase = "waiting"
         /\ client.phase = "done" => ReadAll

PagesOK == AskOK /\ TableOK /\ ClientOK /\ GetOK

Comes(p, q) == Precedes(Order(ask), table[p], table[q])
IsListed(pk) == \E i \in DOMAIN client.listed : client.listed[i] = pk
InOrderOfList == \A i, j \in DOMAIN client.listed :
  i < j /\ client.listed[i] \notin changed /\ client.listed[j] \notin changed => Comes(client.listed[i], client.listed[j])

Behind(pk) == client.last # None /\ (pk = client.last \/ Comes(pk, client.last))
AfterPages == /\ IF client.last = None THEN client.listed = << >> ELSE Exists(client.last)
              /\ \A pk \in Pk \ changed : IsListed(pk) <=> Belongs(pk) /\ Behind(pk)
              /\ InOrderOfList
              /\ ReadAll => \A pk \in Pk \ changed : Belongs(pk) => Behind(pk)

Rank(pk) == Cardinality({q \in Pk : Belongs(q) /\ Comes(q, pk)})
Reached(pk) == IF ask.limit = None THEN client.phase # "ready" ELSE Rank(pk) < client.offset
OffsetPages == /\ \A pk \in Pk : IsListed(pk) <=> Belongs(pk) /\ Reached(pk)
               /\ InOrderOfList
               /\ ReadAll => \A pk \in Pk : Belongs(pk) => Reached(pk)

PagesInv == IF ask.stat # None THEN get.phase \in {"none", "stat"}
        ELSE PagesOK /\ (ask.after /\ ~slipped => AfterPages) /\ (~ask.after /\ changed = {} => OffsetPages)

-----------------------------------------------------------------------------

Value == {None} \cup Int
Less(key, a, b) == a # b /\ Before(key, a, b)

LEMMA LessOrder ==
  ASSUME NEW key \in Keys, NEW a \in Value, NEW b \in Value, NEW c \in Value
  PROVE  /\ a # b => Less(key, a, b) \/ Less(key, b, a)
         /\ ~(Less(key, a, b) /\ Less(key, b, a))
         /\ Less(key, a, b) /\ Less(key, b, c) => Less(key, a, c)
         /\ a # b => (Verdict(key, a, b) <=> Before(key, b, a))
<1>0. None \notin Int
  BY QueriesAssumption
<1>1. CASE a \in Int /\ b \in Int /\ c \in Int
  BY <1>0, <1>1 DEF Less, Before, Verdict
<1>2. CASE a = None \/ b = None \/ c = None
  <2>1. CASE NullsLast(key)
    BY <1>0, <1>2, <2>1 DEF Less, Before, Verdict, Value
  <2>2. CASE ~NullsLast(key)
    BY <1>0, <1>2, <2>2 DEF Less, Before, Verdict, Value
  <2> QED BY <2>1, <2>2
<1> QED BY <1>1, <1>2 DEF Value

(* A row that an order applies to.                                         *)
Fits(order, row) == \A i \in DOMAIN order : row[order[i].field] \in Value
At(order, row, i) == row[order[i].field]
Agree(order, a, b, i) == \A j \in 1..(i - 1) : At(order, a, j) = At(order, b, j)

LEMMA PrecedesAt ==
  ASSUME NEW order, NEW a, NEW b
  PROVE  /\ Precedes(order, a, b) <=>
            \E i \in DOMAIN order : Less(order[i], At(order, a, i), At(order, b, i)) /\ Agree(order, a, b, i)
         /\ (order \in Seq(Keys) /\ Fits(order, a) /\ Fits(order, b)) =>
              (After(order, a, b) <=> Precedes(order, b, a))
<1>1. Precedes(order, a, b) <=>
            \E i \in DOMAIN order : Less(order[i], At(order, a, i), At(order, b, i)) /\ Agree(order, a, b, i)
  BY DEF Precedes, Less, At, Agree
<1>2. ASSUME order \in Seq(Keys), Fits(order, a), Fits(order, b)
      PROVE  After(order, a, b) <=> Precedes(order, b, a)
  <2>1. ASSUME NEW i \in DOMAIN order, At(order, a, i) # At(order, b, i)
        PROVE  Verdict(order[i], At(order, a, i), At(order, b, i)) <=> Before(order[i], At(order, b, i), At(order, a, i))
    <3>1. order[i] \in Keys /\ At(order, a, i) \in Value /\ At(order, b, i) \in Value
      BY <1>2 DEF Fits, At
    <3> QED BY <2>1, <3>1, LessOrder
  <2> QED BY <2>1 DEF After, Precedes, At
<1> QED BY <1>1, <1>2

LEMMA PrecedesOrder ==
  ASSUME NEW order \in Seq(Keys), NEW a, NEW b, NEW c, Fits(order, a), Fits(order, b), Fits(order, c)
  PROVE  /\ ~(Precedes(order, a, b) /\ Precedes(order, b, a))
         /\ Precedes(order, a, b) /\ Precedes(order, b, c) => Precedes(order, a, c)
<1>1. \A i \in DOMAIN order : /\ order[i] \in Keys
                              /\ At(order, a, i) \in Value /\ At(order, b, i) \in Value /\ At(order, c, i) \in Value
  BY DEF Fits, At
<1>2. DOMAIN order = 1..Len(order) /\ Len(order) \in Nat
  OBVIOUS
<1>3. ASSUME NEW x, Fits(order, x), Precedes(order, a, b), Precedes(order, b, x)
      PROVE  \E i \in DOMAIN order : Less(order[i], At(order, a, i), At(order, x, i)) /\ Agree(order, a, x, i)
  <2>0. \A i \in DOMAIN order : At(order, x, i) \in Value
    BY <1>3 DEF Fits, At
  <2>1. PICK i \in DOMAIN order : Less(order[i], At(order, a, i), At(order, b, i)) /\ Agree(order, a, b, i)
    BY <1>3, PrecedesAt
  <2>2. PICK j \in DOMAIN order : Less(order[j], At(order, b, j), At(order, x, j)) /\ Agree(order, b, x, j)
    BY <1>3, PrecedesAt
  <2>3. CASE i < j
    BY <1>2, <2>1, <2>2, <2>3 DEF Agree
  <2>4. CASE j < i
    BY <1>2, <2>1, <2>2, <2>4 DEF Agree
  <2>5. CASE i = j
    <3>1. Less(order[i], At(order, a, i), At(order, x, i))
      BY <1>1, <2>0, <2>1, <2>2, <2>5, LessOrder
    <3>2. Agree(order, a, x, i)
      BY <2>1, <2>2, <2>5 DEF Agree
    <3> QED BY <3>1, <3>2
  <2> QED BY <1>2, <2>3, <2>4, <2>5
<1>4. ~(Precedes(order, a, b) /\ Precedes(order, b, a))
  BY <1>3 DEF Less
<1>5. Precedes(order, a, b) /\ Precedes(order, b, c) => Precedes(order, a, c)
  BY <1>3, PrecedesAt
<1> QED BY <1>4, <1>5

LEMMA PrecedesTotal ==
  ASSUME NEW order \in Seq(Keys), NEW a, NEW b, Fits(order, a), Fits(order, b),
         NEW k \in DOMAIN order, At(order, a, k) # At(order, b, k)
  PROVE  Precedes(order, a, b) \/ Precedes(order, b, a)
<1> DEFINE Apart == {i \in DOMAIN order : At(order, a, i) # At(order, b, i)}
<1>0. DOMAIN order = 1..Len(order) /\ Len(order) \in Nat
  OBVIOUS
<1>1. PICK i \in Apart : \A j \in Apart : i <= j
  <2>1. Apart \in SUBSET Nat /\ Apart # {}
    BY <1>0
  <2> HIDE DEF Apart
  <2> QED BY <2>1, LeastNat
<1>2. Agree(order, a, b, i) /\ Agree(order, b, a, i)
  BY <1>0, <1>1 DEF Agree
<1>3. order[i] \in Keys /\ At(order, a, i) \in Value /\ At(order, b, i) \in Value
  BY DEF Fits, At
<1>4. Less(order[i], At(order, a, i), At(order, b, i)) \/ Less(order[i], At(order, b, i), At(order, a, i))
  BY <1>3, LessOrder
<1> QED BY <1>2, <1>4, PrecedesAt

-----------------------------------------------------------------------------

LEMMA OrderOK ==
  ASSUME AskOK, TableOK
  PROVE  /\ Order(ask) \in Seq(Keys)
         /\ \A p \in Pk : Exists(p) => Fits(Order(ask), table[p])
         /\ \E k \in DOMAIN Order(ask) : \A p \in Pk : Exists(p) => At(Order(ask), table[p], k) = p
<1> DEFINE order == ask.order \o MetaOrdering
           n == Len(ask.order)
<1>1. ask.order \in Seq(Keys) /\ MetaOrdering \in Seq(Keys)
  BY QueriesAssumption DEF AskOK
<1>2. order \in Seq(Keys)
  BY <1>1, ConcatProperties
<1>3. PICK i \in DOMAIN MetaOrdering : MetaOrdering[i].field = "pk"
  BY QueriesAssumption
<1>4. i + n \in DOMAIN order /\ order[i + n] = MetaOrdering[i]
  BY <1>1, <1>3, ConcatProperties
<1>5. \A p \in Pk : Exists(p) => table[p].pk = p /\ Ordered(ask, table[p])
  BY DEF TableOK
<1>6. \A p \in Pk : Exists(p) => At(order, table[p], i + n) = p
  BY <1>3, <1>4, <1>5 DEF At
<1> QED BY <1>2, <1>4, <1>5, <1>6 DEF Order, Ordered, Fits, Value

LEMMA ComesOrder ==
  ASSUME AskOK, TableOK, NEW p \in Pk, NEW q \in Pk, NEW r \in Pk, Exists(p), Exists(q), Exists(r)
  PROVE  /\ ~(Comes(p, q) /\ Comes(q, p))
         /\ Comes(p, q) /\ Comes(q, r) => Comes(p, r)
         /\ p # q => Comes(p, q) \/ Comes(q, p)
         /\ After(Order(ask), table[p], table[q]) <=> Comes(q, p)
<1> DEFINE order == Order(ask)
<1>1. order \in Seq(Keys) /\ Fits(order, table[p]) /\ Fits(order, table[q]) /\ Fits(order, table[r])
  BY OrderOK
<1>2. ASSUME p # q
      PROVE  \E k \in DOMAIN order : At(order, table[p], k) # At(order, table[q], k)
  BY <1>2, OrderOK
<1> HIDE DEF order
<1>3. ~(Precedes(order, table[p], table[q]) /\ Precedes(order, table[q], table[p]))
  BY <1>1, PrecedesOrder
<1>4. Precedes(order, table[p], table[q]) /\ Precedes(order, table[q], table[r]) => Precedes(order, table[p], table[r])
  BY <1>1, PrecedesOrder
<1>5. p # q => Precedes(order, table[p], table[q]) \/ Precedes(order, table[q], table[p])
  BY <1>1, <1>2, PrecedesTotal
<1>6. After(order, table[p], table[q]) <=> Precedes(order, table[q], table[p])
  BY <1>1, PrecedesAt
<1> QED BY <1>3, <1>4, <1>5, <1>6 DEF Comes, order

LEMMA MatchesPlain ==
  ASSUME NEW f, NEW row, f.not \in BOOLEAN, f.all \in BOOLEAN
  PROVE  Matches(f, row) <=> Plain(f, row)
<1>1. CASE f.not = TRUE /\ f.all = TRUE
  BY <1>1 DEF Matches, Plain
<1>2. CASE f.not = TRUE /\ f.all = FALSE
  BY <1>2 DEF Matches, Plain
<1>3. CASE f.not = FALSE /\ f.all = TRUE
  BY <1>3 DEF Matches, Plain
<1>4. CASE f.not = FALSE /\ f.all = FALSE
  BY <1>4 DEF Matches, Plain
<1> QED BY <1>1, <1>2, <1>3, <1>4

LEMMA PassesBelongs ==
  ASSUME AskOK, NEW p \in Pk
  PROVE  Belongs(p) <=> Exists(p) /\ Passes(ask, table[p])
<1>1. \A f \in ask.filters : Matches(f, table[p]) <=> Plain(f, table[p])
  BY MatchesPlain DEF AskOK
<1> QED BY <1>1 DEF Belongs, Passes

LEMMA CandidatesAre ==
  ASSUME AskOK, TableOK, ClientOK, client.last = None \/ Exists(client.last)
  PROVE  Candidates = {p \in Pk : Belongs(p) /\ (client.last = None \/ Comes(client.last, p))}
<1>1. client.last \in Pk \cup {None}
  BY DEF ClientOK
<1>2. ASSUME NEW p \in Pk, Exists(p), client.last # None
      PROVE  After(Order(ask), table[p], table[client.last]) <=> Comes(client.last, p)
  <2>1. client.last \in Pk /\ Exists(client.last)
    BY <1>1, <1>2
  <2> QED BY <1>2, <2>1, ComesOrder
<1>3. \A p \in Pk : Belongs(p) => Exists(p)
  BY DEF Belongs
<1> QED BY <1>2, <1>3, PassesBelongs DEF Candidates

(* An ordering of C names each row of C once, and in order.                *)
Sorted(s, C) == /\ s \in Seq(C)
                /\ \A p \in C : \E i \in DOMAIN s : s[i] = p
                /\ \A i, j \in DOMAIN s : i < j => s[i] # s[j] /\ Comes(s[i], s[j])

LEMMA OrderingSorted ==
  ASSUME AskOK, TableOK, NEW C \in SUBSET Pk, \A p \in C : Exists(p), NEW s \in Orderings(C)
  PROVE  Sorted(s, C)
<1>1. IsFiniteSet(C) /\ s \in SetToSeqs(C)
  BY QueriesAssumption, FS_Subset DEF Orderings
<1>2. s \in Seq(C) /\ (\A p \in C : \E i \in DOMAIN s : s[i] = p)
      /\ \A i, j \in DOMAIN s : i # j => s[i] # s[j]
  BY <1>1, SeqsNameAll
<1>3. \A i, j \in DOMAIN s : i < j => ~Precedes(Order(ask), table[s[j]], table[s[i]])
  BY DEF Orderings
<1>9. ASSUME NEW i \in DOMAIN s, NEW j \in DOMAIN s, i < j
      PROVE  s[i] # s[j] /\ Comes(s[i], s[j])
  <2>1. i # j /\ s[i] \in C /\ s[j] \in C
    BY <1>2, <1>9
  <2>2. s[i] \in Pk /\ s[j] \in Pk /\ Exists(s[i]) /\ Exists(s[j]) /\ s[i] # s[j]
    BY <1>2, <2>1
  <2>3. ~Comes(s[j], s[i])
    BY <1>3, <1>9 DEF Comes
  <2> QED BY <2>2, <2>3, ComesOrder
<1> QED BY <1>2, <1>9 DEF Sorted

Listing == {p \in Pk : Belongs(p)}

LEMMA RankOfNth ==
  ASSUME AskOK, TableOK, NEW s, Sorted(s, Listing), NEW k \in DOMAIN s
  PROVE  Rank(s[k]) = k - 1
<1> DEFINE before == {q \in Pk : Belongs(q) /\ Comes(q, s[k])}
           f == [i \in 1..(k - 1) |-> s[i]]
<1>1. /\ DOMAIN s = 1..Len(s) /\ Len(s) \in Nat /\ k \in Nat /\ k >= 1 /\ k <= Len(s)
      /\ \A i \in DOMAIN s : s[i] \in Listing
  BY DEF Sorted
<1>2. \A i \in DOMAIN s : s[i] \in Pk /\ Belongs(s[i]) /\ Exists(s[i])
  BY <1>1 DEF Listing, Belongs
<1>3. \A i \in 1..(k - 1) : i \in DOMAIN s /\ s[i] \in before
  BY <1>1, <1>2 DEF Sorted
<1>4. ASSUME NEW q \in before
      PROVE  \E i \in 1..(k - 1) : s[i] = q
  <2>1. q \in Listing /\ Exists(q)
    BY <1>4 DEF Listing, Belongs
  <2>2. PICK i \in DOMAIN s : s[i] = q
    BY <2>1 DEF Sorted
  <2>3. ~Comes(s[k], q)
    BY <1>2, <1>4, <2>1, ComesOrder
  <2>4. ~(k < i)
    BY <2>2, <2>3 DEF Sorted
  <2>5. i # k
    BY <1>2, <1>4, <2>2, ComesOrder
  <2> QED BY <1>1, <2>2, <2>4, <2>5
<1>5. \A i, j \in 1..(k - 1) : i # j => s[i] # s[j]
  <2> TAKE i, j \in 1..(k - 1)
  <2>1. i \in DOMAIN s /\ j \in DOMAIN s /\ i \in Int /\ j \in Int
    BY <1>1
  <2> QED BY <2>1 DEF Sorted
<1>6. f \in Bijection(1..(k - 1), before)
  <2> HIDE DEF before
  <2> QED BY <1>3, <1>4, <1>5 DEF Bijection, Injection, Surjection, IsInjective
<1>7. IsFiniteSet(1..(k - 1)) /\ Cardinality(1..(k - 1)) = k - 1
  <2>1. k - 1 \in Int /\ 1 \in Int
    BY <1>1
  <2>2. IsFiniteSet(1..(k - 1)) /\ Cardinality(1..(k - 1)) = IF 1 > k - 1 THEN 0 ELSE (k - 1) - 1 + 1
    BY <2>1, FS_Interval, Zenon
  <2> QED BY <1>1, <2>2
<1>8. ExistsBijection(1..(k - 1), before)
  BY <1>6 DEF ExistsBijection
<1>9. Cardinality(before) = k - 1
  BY <1>7, <1>8, FS_Bijection
<1> QED BY <1>9 DEF Rank

Least(a, b) == IF a < b THEN a ELSE b

Span(s, limit, offset, page, from, to) ==
  /\ to <= Len(s)
  /\ limit = None => from = 0 /\ to = Len(s)
  /\ limit # None => from = offset /\ limit \in Nat /\ limit > 0 /\ to = Least(offset + limit, Len(s))
  /\ page \in Seq(Pk)
  /\ DOMAIN page = 1..(to - from)
  /\ \A i \in 1..(to - from) : page[i] = s[from + i] /\ from + i \in DOMAIN s

LEMMA PageOf ==
  ASSUME NEW s \in Seq(Pk), NEW limit \in {None} \cup (Nat \ {0}), NEW offset \in Nat
  PROVE  \E from, to \in Nat : Span(s, limit, offset, Paginate(s, limit, offset), from, to)
<1>1. CASE limit = None
  <2>1. WITNESS 0 \in Nat, Len(s) \in Nat
  <2> QED BY <1>1 DEF Paginate, Span
<1>2. CASE limit # None
  <2> DEFINE to == Least(offset + limit, Len(s))
             page == SubSeq(s, offset + 1, to)
  <2>1. limit \in Nat /\ limit > 0 /\ Len(s) \in Nat /\ to \in Nat /\ to <= Len(s) /\ DOMAIN s = 1..Len(s)
    BY <1>2 DEF Least
  <2>2. Paginate(s, limit, offset) = page
    BY <1>2 DEF Paginate, Least
  <2>3. \A i \in (offset + 1)..to : s[i] \in Pk
    BY <2>1
  <2> HIDE DEF to
  <2>4. /\ page \in Seq(Pk) /\ Len(page) = IF offset + 1 <= to THEN to - (offset + 1) + 1 ELSE 0
        /\ \A i \in 1..(to - (offset + 1) + 1) : page[i] = s[offset + 1 + i - 1]
    BY <2>1, <2>3, SubSeqProperties
  <2> HIDE DEF page
  <2>5. DOMAIN page = 1..(to - offset)
    BY <2>1, <2>4
  <2>6. \A i \in 1..(to - offset) : page[i] = s[offset + i] /\ offset + i \in DOMAIN s
    <3> TAKE i \in 1..(to - offset)
    <3>1. i \in 1..(to - (offset + 1) + 1) /\ offset + 1 + i - 1 = offset + i
      BY <2>1
    <3> QED BY <2>1, <2>4, <3>1
  <2>7. to = Least(offset + limit, Len(s))
    BY DEF to
  <2>8. offset \in Nat /\ to \in Nat
    BY <2>1
  <2> USE <2>8
  <2> WITNESS offset \in Nat, to \in Nat
  <2> QED BY <1>2, <2>1, <2>2, <2>4, <2>5, <2>6, <2>7 DEF Span
<1> QED BY <1>1, <1>2

-----------------------------------------------------------------------------

LEMMA SameRows ==
  ASSUME UNCHANGED <<ask, table>>
  PROVE  /\ AskOK' <=> AskOK
         /\ TableOK' <=> TableOK
         /\ \A p : (Exists(p)' <=> Exists(p)) /\ (Belongs(p)' <=> Belongs(p))
         /\ \A p, q : Comes(p, q)' <=> Comes(p, q)
         /\ \A p : Rank(p)' = Rank(p)
<1>1. AskOK' <=> AskOK
  BY DEF AskOK
<1>2. \A p : Exists(p)' <=> Exists(p)
  BY DEF Exists
<1>3. TableOK' <=> TableOK
  BY DEF TableOK, Exists
<1>4. \A p : Belongs(p)' <=> Belongs(p)
  BY DEF Belongs, Exists
<1>5. \A p, q : Comes(p, q)' <=> Comes(p, q)
  BY DEF Comes, Order
<1>6. \A p : Rank(p)' = Rank(p)
  BY <1>4, <1>5 DEF Rank
<1> QED BY <1>1, <1>2, <1>3, <1>4, <1>5, <1>6

LEMMA SameAfter ==
  ASSUME AfterPages, UNCHANGED <<ask, table, client.listed, client.last>>, changed \subseteq changed', ReadAll' => ReadAll
  PROVE  AfterPages'
<1>1. \A p : /\ Exists(p)' <=> Exists(p)
             /\ Belongs(p)' <=> Belongs(p)
             /\ Behind(p)' <=> Behind(p)
             /\ IsListed(p)' <=> IsListed(p)
  BY SameRows DEF Behind, IsListed
<1>2. IF client.last' = None THEN client.listed' = << >> ELSE Exists(client.last)'
  BY <1>1 DEF AfterPages
<1>3. InOrderOfList'
  BY SameRows DEF AfterPages, InOrderOfList
<1>4. \A p \in Pk \ changed' : p \in Pk \ changed
  OBVIOUS
<1>5. \A p \in Pk \ changed' : IsListed(p)' <=> Belongs(p)' /\ Behind(p)'
  BY <1>1, <1>4 DEF AfterPages
<1>6. ReadAll' => \A p \in Pk \ changed' : Belongs(p)' => Behind(p)'
  BY <1>1, <1>4 DEF AfterPages
<1> QED BY <1>2, <1>3, <1>5, <1>6 DEF AfterPages

LEMMA SameOffset ==
  ASSUME OffsetPages, UNCHANGED <<ask, table, client.listed, client.offset>>, changed \subseteq changed',
         ask.limit = None => (client.phase' = "ready" <=> client.phase = "ready"),
         ReadAll' => ReadAll
  PROVE  OffsetPages'
<1>1. \A p : /\ Belongs(p)' <=> Belongs(p)
             /\ Reached(p)' <=> Reached(p)
             /\ IsListed(p)' <=> IsListed(p)
  BY SameRows DEF Reached, IsListed
<1>2. InOrderOfList'
  BY SameRows DEF OffsetPages, InOrderOfList
<1> QED BY <1>1, <1>2 DEF OffsetPages

-----------------------------------------------------------------------------

(* A query has added the rows from + 1 to to of a sorted list.             *)
Turned(s, from, to) ==
  /\ client.phase = "ready" /\ client.phase' = "waiting" /\ get.phase' = "ids"
  /\ Sorted(s, Candidates) /\ from \in Nat /\ to \in Nat /\ to <= Len(s)
  /\ IF ask.limit = None THEN from = 0 /\ to = Len(s)
     ELSE ask.limit \in Nat /\ ask.limit > 0 /\ from = client.offset /\ to = Least(client.offset + ask.limit, Len(s))
  /\ client.listed' \in Seq(Pk)
  /\ DOMAIN client.listed' = 1..(Len(client.listed) + (IF from < to THEN to - from ELSE 0))
  /\ \A i \in DOMAIN client.listed : client.listed'[i] = client.listed[i]
  /\ \A i \in 1..(to - from) : client.listed'[Len(client.listed) + i] = s[from + i] /\ from + i \in DOMAIN s
  /\ client.last' = IF ask.after /\ from < to THEN s[to] ELSE client.last
  /\ client.offset' = IF ask.after \/ ask.limit = None THEN client.offset ELSE client.offset + ask.limit
  /\ get.data' = {} <=> ~(from < to)
  /\ UNCHANGED <<ask, table, changed, slipped>>

LEMMA Appended ==
  ASSUME NEW a \in Seq(Pk), NEW b \in Seq(Pk), NEW n \in Int, DOMAIN b = 1..n
  PROVE  /\ a \o b \in Seq(Pk)
         /\ DOMAIN (a \o b) = 1..(Len(a) + (IF n > 0 THEN n ELSE 0))
         /\ \A i \in DOMAIN a : (a \o b)[i] = a[i]
         /\ \A i \in 1..n : (a \o b)[Len(a) + i] = b[i]
<1>1. /\ a \o b \in Seq(Pk) /\ Len(a \o b) = Len(a) + Len(b)
      /\ \A i \in 1..(Len(a) + Len(b)) : (a \o b)[i] = IF i <= Len(a) THEN a[i] ELSE b[i - Len(a)]
  BY ConcatProperties
<1>2. Len(b) = IF n > 0 THEN n ELSE 0
  OBVIOUS
<1>3. DOMAIN (a \o b) = 1..(Len(a) + Len(b))
  BY <1>1
<1>4. Len(a) \in Nat /\ Len(b) \in Nat /\ DOMAIN a = 1..Len(a)
  OBVIOUS
<1>5. \A i \in DOMAIN a : (a \o b)[i] = a[i]
  BY <1>1, <1>4
<1>6. ASSUME NEW i \in 1..n
      PROVE  (a \o b)[Len(a) + i] = b[i]
  <2>1. Len(b) = n
    BY <1>2
  <2>2. Len(a) + i \in 1..(Len(a) + Len(b)) /\ ~(Len(a) + i <= Len(a)) /\ Len(a) + i - Len(a) = i
    BY <1>4, <2>1
  <2> QED BY <1>1, <2>2
<1> QED BY <1>1, <1>2, <1>3, <1>5, <1>6

LEMMA QueryTurns ==
  ASSUME PagesOK, Query
  PROVE  (\E s, from, to : Turned(s, from, to)) /\ PagesOK'
<1> DEFINE Page(s) == Paginate(s, ask.limit, client.offset)
<1>1. PICK s \in Orderings(Candidates) :
        /\ client' = [client EXCEPT !.listed = @ \o Page(s), !.phase = "waiting",
                                    !.last = IF ask.after /\ Page(s) # << >> THEN Page(s)[Len(Page(s))] ELSE @,
                                    !.offset = IF ask.after \/ ask.limit = None THEN @ ELSE @ + ask.limit]
        /\ get' = [phase |-> "ids", data |-> ToSet(Page(s)), found |-> [w \in {} |-> {}], out |-> {}]
  BY DEF Query
<1>2. /\ client.phase = "ready" /\ UNCHANGED <<ask, table, changed, slipped>>
      /\ client.last = None \/ Exists(client.last)
  BY DEF Query, dbvars
<1>3. AskOK /\ TableOK /\ ClientOK /\ GetOK
  BY DEF PagesOK
<1>4. Candidates \subseteq Pk /\ \A p \in Candidates : Exists(p)
  BY DEF Candidates
<1>5. Sorted(s, Candidates)
  BY <1>3, <1>4, OrderingSorted
<1>6. s \in Seq(Pk)
  BY <1>4, <1>5 DEF Sorted
<1>7. ask.limit \in {None} \cup (Nat \ {0}) /\ client.offset \in Nat /\ client.listed \in Seq(Pk)
  BY <1>3 DEF AskOK, ClientOK
<1> DEFINE page == Page(s)
<1>8. PICK from, to \in Nat : Span(s, ask.limit, client.offset, page, from, to)
  BY <1>6, <1>7, PageOf
<1>9. /\ client'.listed = client.listed \o page /\ client'.phase = "waiting"
      /\ client'.last = IF ask.after /\ page # << >> THEN page[Len(page)] ELSE client.last
      /\ client'.offset = IF ask.after \/ ask.limit = None THEN client.offset ELSE client.offset + ask.limit
      /\ client' = [listed |-> client'.listed, last |-> client'.last, offset |-> client'.offset, phase |-> client'.phase]
  <2> HIDE DEF Page
  <2>1. client = [listed |-> client.listed, last |-> client.last, offset |-> client.offset, phase |-> client.phase]
    BY <1>3 DEF ClientOK
  <2> QED BY <1>1, <2>1
<1>10. get'.phase = "ids" /\ get'.data = {page[i] : i \in DOMAIN page} /\ {"phase", "data"} \subseteq DOMAIN get'
  <2> HIDE DEF Page
  <2> QED BY <1>1 DEF ToSet
<1> HIDE DEF Page, page
<1>11. Len(page) = IF from < to THEN to - from ELSE 0
  BY <1>8 DEF Span
<1>12. page # << >> <=> from < to
  BY <1>8, <1>11 DEF Span
<1>13. from < to => page[Len(page)] = s[to] /\ page[Len(page)] \in Candidates
  <2> SUFFICES ASSUME from < to
               PROVE  page[Len(page)] = s[to] /\ page[Len(page)] \in Candidates
    OBVIOUS
  <2>1. Len(page) = to - from /\ to - from \in 1..(to - from) /\ from + (to - from) = to
    BY <1>8, <1>11 DEF Span
  <2>2. page[to - from] = s[from + (to - from)] /\ from + (to - from) \in DOMAIN s
    BY <1>8, <2>1 DEF Span
  <2> QED BY <1>5, <2>1, <2>2 DEF Sorted
<1>14. /\ client.listed' \in Seq(Pk)
       /\ DOMAIN client.listed' = 1..(Len(client.listed) + (IF from < to THEN to - from ELSE 0))
       /\ \A i \in DOMAIN client.listed : client.listed'[i] = client.listed[i]
       /\ \A i \in 1..(to - from) : client.listed'[Len(client.listed) + i] = page[i]
  <2>1. client.listed' = client.listed \o page
    BY <1>9
  <2>2. page \in Seq(Pk) /\ to - from \in Int /\ DOMAIN page = 1..(to - from)
    BY <1>8 DEF Span
  <2>3. (IF to - from > 0 THEN to - from ELSE 0) = (IF from < to THEN to - from ELSE 0)
    BY <1>8
  <2>4. /\ client.listed \o page \in Seq(Pk)
        /\ DOMAIN (client.listed \o page) = 1..(Len(client.listed) + (IF to - from > 0 THEN to - from ELSE 0))
        /\ \A i \in DOMAIN client.listed : (client.listed \o page)[i] = client.listed[i]
        /\ \A i \in 1..(to - from) : (client.listed \o page)[Len(client.listed) + i] = page[i]
    <3>1. client.listed \in Seq(Pk)
      BY <1>7
    <3> QED BY ONLY <3>1, <2>2, Appended, Zenon
  <2> QED BY <2>1, <2>3, <2>4
<1>15. Turned(s, from, to)
  <2>1. get.data' = {} <=> ~(from < to)
    <3>1. DOMAIN page = 1..(to - from) /\ from \in Int /\ to \in Int
      BY <1>8 DEF Span
    <3>2. DOMAIN page = {} <=> ~(from < to)
      BY ONLY <3>1
    <3> QED BY <1>10, <3>2
  <2>2. client.last' = IF ask.after /\ from < to THEN s[to] ELSE client.last
    BY <1>9, <1>12, <1>13
  <2>3. \A i \in 1..(to - from) : client.listed'[Len(client.listed) + i] = s[from + i] /\ from + i \in DOMAIN s
    BY <1>8, <1>14 DEF Span
  <2> QED BY <1>2, <1>5, <1>8, <1>9, <1>10, <1>14, <2>1, <2>2, <2>3 DEF Turned, Span
<1>16. AskOK' /\ TableOK'
  BY <1>2, <1>3, SameRows
<1>17. ClientOK'
  BY <1>2, <1>3, <1>4, <1>7, <1>9, <1>12, <1>13, <1>14 DEF ClientOK
<1>18. GetOK'
  BY <1>9, <1>10 DEF GetOK
<1> QED BY <1>15, <1>16, <1>17, <1>18 DEF PagesOK

LEMMA TurnedTail ==
  ASSUME PagesOK, NEW s, NEW from, NEW to, Turned(s, from, to), NEW i \in DOMAIN client.listed', i \notin DOMAIN client.listed
  PROVE  \E k \in (from + 1)..to : client.listed'[i] = s[k] /\ i = Len(client.listed) + k - from
<1>1. /\ from \in Nat /\ to \in Nat /\ Len(client.listed) \in Nat /\ DOMAIN client.listed = 1..Len(client.listed)
  BY DEF Turned, PagesOK, ClientOK
<1>2. i - Len(client.listed) \in 1..(to - from) /\ i = Len(client.listed) + (i - Len(client.listed))
  BY <1>1 DEF Turned
<1>3. client.listed'[i] = s[from + (i - Len(client.listed))]
  BY <1>2 DEF Turned
<1>4. /\ from + (i - Len(client.listed)) \in (from + 1)..to
      /\ i = Len(client.listed) + (from + (i - Len(client.listed))) - from
  BY <1>1, <1>2
<1> QED BY <1>3, <1>4

LEMMA TurnedLists ==
  ASSUME PagesOK, NEW s, NEW from, NEW to, Turned(s, from, to), client.last = None \/ Exists(client.last)
  PROVE  /\ \A p : IsListed(p)' <=> IsListed(p) \/ \E k \in (from + 1)..to : s[k] = p
         /\ \A k \in (from + 1)..to : k \in DOMAIN s
         /\ \A k \in DOMAIN s : k \in Nat /\ k >= 1 /\ k <= Len(s) /\ s[k] \in Pk /\ Belongs(s[k]) /\ Exists(s[k])
         /\ DOMAIN s = 1..Len(s) /\ Len(s) \in Nat
         /\ \A i, j \in DOMAIN s : i < j => s[i] # s[j] /\ Comes(s[i], s[j])
<1>1. /\ from \in Nat /\ to \in Nat /\ Len(client.listed) \in Nat /\ DOMAIN client.listed = 1..Len(client.listed)
  BY DEF Turned, PagesOK, ClientOK
<1>0. DOMAIN client.listed' = 1..(Len(client.listed) + (IF from < to THEN to - from ELSE 0))
  BY DEF Turned
<1>2. s \in Seq(Candidates) /\ \A p \in Candidates : p \in Pk /\ Belongs(p) /\ Exists(p)
  BY CandidatesAre DEF Turned, Sorted, PagesOK, Belongs
<1>3. DOMAIN s = 1..Len(s) /\ Len(s) \in Nat /\ \A k \in DOMAIN s : s[k] \in Candidates
  BY <1>2
<1>4. \A k \in (from + 1)..to : k \in DOMAIN s
  <2>1. to <= Len(s)
    BY DEF Turned
  <2> QED BY ONLY <1>1, <1>3, <2>1
<1>5. ASSUME NEW p
      PROVE  IsListed(p)' <=> IsListed(p) \/ \E k \in (from + 1)..to : s[k] = p
  <2>1. ASSUME NEW i \in DOMAIN client.listed', client.listed'[i] = p
        PROVE  IsListed(p) \/ \E k \in (from + 1)..to : s[k] = p
    <3>1. CASE i \in DOMAIN client.listed
      BY <2>1, <3>1 DEF Turned, IsListed
    <3>2. CASE i \notin DOMAIN client.listed
      <4>1. \E k \in (from + 1)..to : client.listed'[i] = s[k]
        BY <2>1, <3>2, TurnedTail
      <4> QED BY <2>1, <4>1
    <3> QED BY <3>1, <3>2
  <2>2. ASSUME NEW i \in DOMAIN client.listed, client.listed[i] = p
        PROVE  IsListed(p)'
    <3>1. i \in DOMAIN client.listed'
      BY ONLY <1>0, <1>1, <2>2
    <3> QED BY <2>2, <3>1 DEF Turned, IsListed
  <2>3. ASSUME NEW k \in (from + 1)..to, s[k] = p
        PROVE  IsListed(p)'
    <3>1. k - from \in 1..(to - from) /\ from + (k - from) = k /\ from < to
      BY <1>1, <2>3
    <3>2. client.listed'[Len(client.listed) + (k - from)] = s[from + (k - from)]
      BY <3>1 DEF Turned
    <3>3. Len(client.listed) + (k - from) \in DOMAIN client.listed'
      BY <1>1, <3>1 DEF Turned
    <3> QED BY <2>3, <3>1, <3>2, <3>3 DEF IsListed
  <2> QED BY <2>1, <2>2, <2>3 DEF IsListed
<1>6. \A k \in DOMAIN s : k \in Nat /\ k >= 1 /\ k <= Len(s) /\ s[k] \in Pk /\ Belongs(s[k]) /\ Exists(s[k])
  BY <1>2, <1>3
<1>7. \A i, j \in DOMAIN s : i < j => s[i] # s[j] /\ Comes(s[i], s[j])
  BY DEF Turned, Sorted
<1> QED BY <1>3, <1>4, <1>5, <1>6, <1>7

LEMMA TurnedInOrder ==
  ASSUME PagesOK, NEW s, NEW from, NEW to, Turned(s, from, to), client.last = None \/ Exists(client.last), InOrderOfList,
         \A p \in Pk \ changed, k \in (from + 1)..to : IsListed(p) => Comes(p, s[k])
  PROVE  InOrderOfList'
<1>1. /\ from \in Nat /\ to \in Nat /\ Len(client.listed) \in Nat /\ DOMAIN client.listed = 1..Len(client.listed)
      /\ \A i \in DOMAIN client.listed : client.listed[i] \in Pk
      /\ changed' = changed
  BY DEF Turned, PagesOK, ClientOK
<1>2. ASSUME NEW i \in DOMAIN client.listed', i \notin DOMAIN client.listed
      PROVE  \E k \in (from + 1)..to : client.listed'[i] = s[k] /\ i = Len(client.listed) + k - from
  BY <1>2, TurnedTail
<1>3. ASSUME NEW i \in DOMAIN client.listed', NEW j \in DOMAIN client.listed', i < j,
             client.listed'[i] \notin changed, client.listed'[j] \notin changed
      PROVE  Comes(client.listed'[i], client.listed'[j])
  <2>1. CASE j \in DOMAIN client.listed
    <3>1. i \in DOMAIN client.listed
      BY <1>1, <1>3, <2>1 DEF Turned
    <3> QED BY <1>3, <2>1, <3>1 DEF Turned, InOrderOfList
  <2>2. CASE j \notin DOMAIN client.listed /\ i \in DOMAIN client.listed
    <3>1. PICK k \in (from + 1)..to : client.listed'[j] = s[k]
      BY <1>2, <2>2
    <3>2. client.listed'[i] = client.listed[i]
      BY <2>2 DEF Turned
    <3>3. client.listed[i] \in Pk \ changed /\ IsListed(client.listed[i])
      BY <1>1, <1>3, <2>2, <3>2 DEF IsListed
    <3> QED BY <3>1, <3>2, <3>3
  <2>3. CASE j \notin DOMAIN client.listed /\ i \notin DOMAIN client.listed
    <3>1. PICK k \in (from + 1)..to : client.listed'[j] = s[k] /\ j = Len(client.listed) + k - from
      BY <1>2, <2>3
    <3>2. PICK l \in (from + 1)..to : client.listed'[i] = s[l] /\ i = Len(client.listed) + l - from
      BY <1>2, <2>3
    <3>3. l < k
      BY <1>1, <1>3, <3>1, <3>2
    <3>4. k \in DOMAIN s /\ l \in DOMAIN s
      BY TurnedLists
    <3> QED BY <3>1, <3>2, <3>3, <3>4, TurnedLists
  <2> QED BY <2>1, <2>2, <2>3
<1>4. UNCHANGED <<ask, table>>
  BY DEF Turned
<1> QED BY <1>1, <1>3, <1>4, SameRows DEF InOrderOfList

LEMMA QueryAfter ==
  ASSUME PagesOK, AfterPages, ask.after, NEW s, NEW from, NEW to, Turned(s, from, to)
  PROVE  AfterPages'
<1>1. client.last = None \/ Exists(client.last)
  BY DEF AfterPages
<1>2. client.last \in Pk \cup {None} /\ client.offset = 0 /\ AskOK /\ TableOK /\ None \notin Pk
  BY QueriesAssumption DEF PagesOK, ClientOK
<1>3. /\ from = 0 /\ to \in Nat /\ to <= Len(s) /\ Len(s) \in Nat
      /\ to = 0 => Len(s) = 0
      /\ ask.limit = None => to = Len(s)
  BY <1>1, <1>2, TurnedLists DEF Turned, Least
<1>4. Candidates = {p \in Pk : Belongs(p) /\ (client.last = None \/ Comes(client.last, p))}
  BY <1>1, CandidatesAre DEF PagesOK
<1>5. \A p \in Candidates : \E k \in DOMAIN s : s[k] = p
  BY DEF Turned, Sorted
<1>6. \A k \in DOMAIN s : s[k] \in Candidates
  BY DEF Turned, Sorted
<1>7. \A p \in Pk : Belongs(p) => Exists(p)
  BY DEF Belongs
<1>8. /\ client.last' = IF to > 0 THEN s[to] ELSE client.last
      /\ changed' = changed /\ UNCHANGED <<ask, table>>
  BY <1>3 DEF Turned
<1>9. to > 0 => to \in DOMAIN s /\ s[to] \in Pk /\ Belongs(s[to]) /\ Exists(s[to])
  BY <1>1, <1>3, TurnedLists
(* The rows up to the last one of the page are those up to the old last    *)
(* one and those of the page.                                              *)
<1>10. ASSUME NEW p \in Pk, Belongs(p)
       PROVE  Behind(p)' <=> Behind(p) \/ \E k \in 1..to : s[k] = p
  <2>1. CASE to = 0
    <3>1. Behind(p)' <=> Behind(p)
      BY <1>8, <2>1, SameRows DEF Behind
    <3> QED BY <2>1, <3>1
  <2>2. CASE to > 0
    <3>1. Behind(p)' <=> p = s[to] \/ Comes(p, s[to])
      <4>1. s[to] # None
        BY <1>2, <1>9, <2>2
      <4> QED BY <1>8, <2>2, <4>1, SameRows DEF Behind
    <3>2. ASSUME Behind(p)
          PROVE  Comes(p, s[to])
      <4>1. client.last # None /\ (p = client.last \/ Comes(p, client.last)) /\ client.last \in Pk /\ Exists(client.last)
        BY <1>1, <1>2, <3>2 DEF Behind
      <4>2. Comes(client.last, s[to])
        BY <1>4, <1>6, <1>9, <2>2, <4>1
      <4> QED BY <1>2, <1>7, <1>9, <1>10, <2>2, <4>1, <4>2, ComesOrder
    <3>3. ASSUME NEW k \in 1..to, s[k] = p
          PROVE  p = s[to] \/ Comes(p, s[to])
      <4>1. k \in DOMAIN s /\ to \in DOMAIN s /\ (k = to \/ k < to)
        BY <1>1, <1>3, <1>9, <2>2, TurnedLists
      <4> QED BY <1>1, <3>3, <4>1, TurnedLists
    <3>4. ASSUME ~Behind(p), p = s[to] \/ Comes(p, s[to])
          PROVE  \E k \in 1..to : s[k] = p
      <4>1. p \in Candidates
        <5>1. CASE client.last = None
          BY <1>4, <1>10, <5>1
        <5>2. CASE client.last # None
          <6>1. client.last \in Pk /\ Exists(client.last) /\ p # client.last /\ ~Comes(p, client.last) /\ Exists(p)
            BY <1>1, <1>2, <1>7, <1>10, <3>4, <5>2 DEF Behind
          <6>2. Comes(client.last, p)
            BY <1>2, <6>1, ComesOrder
          <6> QED BY <1>4, <1>10, <6>2
        <5> QED BY <5>1, <5>2
      <4>2. PICK k \in DOMAIN s : s[k] = p
        BY <1>5, <4>1
      <4>3. k \in Nat /\ k >= 1
        BY <1>1, TurnedLists
      <4>4. ~(to < k)
        <5> SUFFICES ASSUME to < k
                     PROVE  FALSE
          OBVIOUS
        <5>1. s[to] # p /\ Comes(s[to], p)
          BY <1>1, <1>9, <2>2, <4>2, TurnedLists
        <5> QED BY <1>2, <1>7, <1>9, <1>10, <2>2, <3>4, <5>1, ComesOrder
      <4> QED BY <1>3, <4>2, <4>3, <4>4
    <3> QED BY <3>1, <3>2, <3>3, <3>4
  <2> QED BY <1>3, <2>1, <2>2
<1>11. \A p \in Pk : Belongs(p)' <=> Belongs(p)
  BY <1>8, SameRows
<1>12. \A p : IsListed(p)' <=> IsListed(p) \/ \E k \in 1..to : s[k] = p
  BY <1>1, <1>3, TurnedLists
<1>13. \A k \in 1..to : k \in DOMAIN s /\ s[k] \in Pk /\ Belongs(s[k])
  BY <1>1, <1>3, TurnedLists
<1>14. \A p \in Pk \ changed : IsListed(p) <=> Belongs(p) /\ Behind(p)
  BY DEF AfterPages
<1>15. ASSUME NEW p \in Pk \ changed'
       PROVE  IsListed(p)' <=> Belongs(p)' /\ Behind(p)'
  BY <1>8, <1>10, <1>11, <1>12, <1>13, <1>14
<1>16. IF client.last' = None THEN client.listed' = << >> ELSE Exists(client.last)'
  <2>1. CASE to > 0
    <3>1. client.last' \in Pk /\ Exists(client.last)'
      BY <1>8, <1>9, <2>1 DEF Exists
    <3> QED BY <1>2, <3>1
  <2>2. CASE to = 0
    <3>1. client.last' = client.last
      BY <1>8, <2>2
    <3>2. client.last = None => client.listed' = << >>
      <4>1. client.listed' \in Seq(Pk) /\ DOMAIN client.listed' = 1..Len(client.listed)
        BY <1>3, <2>2 DEF Turned, PagesOK, ClientOK
      <4>2. client.last = None => client.listed = << >>
        BY DEF AfterPages
      <4> QED BY <4>1, <4>2
    <3> QED BY <1>1, <1>8, <3>1, <3>2 DEF Exists
  <2> QED BY <1>3, <2>1, <2>2
<1>17. InOrderOfList'
  <2>1. ASSUME NEW p \in Pk \ changed, NEW k \in (from + 1)..to, IsListed(p)
        PROVE  Comes(p, s[k])
    <3>1. Belongs(p) /\ Exists(p) /\ client.last # None /\ (p = client.last \/ Comes(p, client.last))
      BY <1>7, <1>14, <2>1 DEF Behind
    <3>2. k \in DOMAIN s /\ s[k] \in Pk /\ Exists(s[k]) /\ Comes(client.last, s[k])
      BY <1>1, <1>4, <1>6, <3>1, TurnedLists
    <3>3. client.last \in Pk /\ Exists(client.last)
      BY <1>1, <1>2, <3>1
    <3> QED BY <1>2, <3>1, <3>2, <3>3, ComesOrder
  <2> QED BY <1>1, <2>1, TurnedInOrder DEF AfterPages
<1>18. ASSUME ReadAll', NEW p \in Pk \ changed', Belongs(p)'
       PROVE  Behind(p)'
  <2>1. to = Len(s)
    BY <1>3, <1>8, <1>18 DEF ReadAll, Turned
  <2>2. p \in Pk /\ Belongs(p)
    BY <1>11, <1>18
  <2>3. CASE Behind(p)
    BY <1>10, <2>2, <2>3
  <2>4. CASE p \in Candidates
    <3>1. PICK k \in DOMAIN s : s[k] = p
      BY <1>5, <2>4
    <3>2. k \in 1..to
      BY <1>1, <2>1, TurnedLists
    <3> QED BY <1>10, <2>2, <3>1, <3>2
  <2>5. CASE ~Behind(p) /\ p \notin Candidates
    <3>1. client.last # None /\ p # client.last /\ ~Comes(p, client.last) /\ ~Comes(client.last, p)
      BY <1>4, <2>2, <2>5 DEF Behind
    <3> QED BY <1>1, <1>2, <1>7, <2>2, <3>1, ComesOrder
  <2> QED BY <2>3, <2>4, <2>5
<1> QED BY <1>15, <1>16, <1>17, <1>18 DEF AfterPages

LEMMA QueryOffset ==
  ASSUME PagesOK, OffsetPages, ~ask.after, changed = {}, NEW s, NEW from, NEW to, Turned(s, from, to)
  PROVE  OffsetPages'
<1>1. client.last = None /\ client.offset \in Nat /\ AskOK /\ TableOK
  BY DEF PagesOK, ClientOK
<1>2. Candidates = Listing
  BY <1>1, CandidatesAre DEF PagesOK, Listing
<1>3. Sorted(s, Listing)
  BY <1>2 DEF Turned
<1>4. /\ \A p : IsListed(p)' <=> IsListed(p) \/ \E k \in (from + 1)..to : s[k] = p
      /\ \A k \in (from + 1)..to : k \in DOMAIN s
      /\ \A k \in DOMAIN s : k \in Nat /\ k >= 1 /\ k <= Len(s) /\ s[k] \in Pk /\ Belongs(s[k])
      /\ Len(s) \in Nat
  BY <1>1, TurnedLists
<1>5. \A i, j \in DOMAIN s : i < j => Comes(s[i], s[j])
  BY <1>1, TurnedLists
<1>6. /\ from \in Nat /\ to \in Nat /\ to <= Len(s)
      /\ client.phase = "ready" /\ client.phase' # "ready" /\ UNCHANGED <<ask, table>> /\ changed' = changed
  BY DEF Turned
<1>7. ASSUME NEW p \in Pk, Belongs(p)
      PROVE  \E k \in DOMAIN s : s[k] = p /\ Rank(p) = k - 1
  <2>1. p \in Listing
    BY <1>7 DEF Listing
  <2>2. PICK k \in DOMAIN s : s[k] = p
    BY <1>3, <2>1 DEF Sorted
  <2> QED BY <1>1, <1>3, <2>2, RankOfNth
(* The page has the rows of the next ranks.                                *)
<1>8. ASSUME NEW p \in Pk, Belongs(p)
      PROVE  Reached(p)' <=> Reached(p) \/ \E k \in (from + 1)..to : s[k] = p
  <2>1. PICK n \in DOMAIN s : s[n] = p /\ Rank(p) = n - 1
    BY <1>7, <1>8
  <2>2. n \in Nat /\ n >= 1 /\ n <= Len(s)
    BY <1>4
  <2>3. ASSUME NEW k \in (from + 1)..to, s[k] = p
        PROVE  k = n
    <3>1. k \in DOMAIN s
      BY <1>4
    <3>2. Rank(s[k]) = k - 1
      BY <1>1, <1>3, <3>1, RankOfNth
    <3>3. k \in Nat
      BY <1>4, <3>1
    <3> QED BY <2>1, <2>2, <2>3, <3>2, <3>3
  <2>4. (\E k \in (from + 1)..to : s[k] = p) <=> n >= from + 1 /\ n <= to
    <3>1. n >= from + 1 /\ n <= to => n \in (from + 1)..to
      BY <1>6, <2>2
    <3>2. n \in (from + 1)..to => n >= from + 1 /\ n <= to
      BY <1>6, <2>2
    <3> QED BY <2>1, <2>3, <3>1, <3>2
  <2>5. Rank(p)' = Rank(p) /\ ask' = ask
    BY <1>6, SameRows
  <2>6. CASE ask.limit = None
    <3>1. from = 0 /\ to = Len(s)
      BY <2>6 DEF Turned
    <3>2. Reached(p)'
      BY <1>6, <2>5, <2>6 DEF Reached
    <3>3. n >= from + 1 /\ n <= to
      BY <2>2, <3>1
    <3> QED BY <2>4, <3>2, <3>3
  <2>7. CASE ask.limit # None
    <3>1. /\ from = client.offset /\ to = Least(client.offset + ask.limit, Len(s))
          /\ client.offset' = client.offset + ask.limit /\ ask.limit \in Nat
      BY <2>7 DEF Turned
    <3>2. Reached(p) <=> n - 1 < client.offset
      BY <2>1, <2>7 DEF Reached
    <3>3. Reached(p)' <=> n - 1 < client.offset + ask.limit
      BY <2>1, <2>5, <2>7, <3>1 DEF Reached
    <3> QED BY <1>1, <2>2, <2>4, <3>1, <3>2, <3>3 DEF Least
  <2> QED BY <2>6, <2>7
<1>9. \A p \in Pk : Belongs(p)' <=> Belongs(p)
  BY <1>6, SameRows
<1>10. \A p \in Pk : IsListed(p) <=> Belongs(p) /\ Reached(p)
  BY DEF OffsetPages
<1>11. ASSUME NEW p \in Pk
       PROVE  IsListed(p)' <=> Belongs(p)' /\ Reached(p)'
  <2>1. \A k \in (from + 1)..to : Belongs(s[k])
    BY <1>4
  <2> QED BY <1>4, <1>8, <1>9, <1>10, <2>1
<1>12. InOrderOfList'
  <2>1. ASSUME NEW p \in Pk \ changed, NEW k \in (from + 1)..to, IsListed(p)
        PROVE  Comes(p, s[k])
    <3>1. Belongs(p) /\ Reached(p)
      BY <1>10, <2>1
    <3>2. PICK n \in DOMAIN s : s[n] = p /\ Rank(p) = n - 1
      BY <1>7, <3>1
    <3>3. ask.limit # None /\ Rank(p) < client.offset /\ from = client.offset
      BY <1>6, <3>1 DEF Reached, Turned
    <3>4. n \in Nat /\ k \in DOMAIN s /\ k \in Nat
      BY <1>4
    <3>5. n < k
      BY <1>1, <1>6, <3>2, <3>3, <3>4
    <3> QED BY <1>5, <3>2, <3>4, <3>5
  <2> QED BY <1>1, <2>1, TurnedInOrder DEF OffsetPages
<1>13. ASSUME ReadAll', NEW p \in Pk, Belongs(p)'
       PROVE  Reached(p)'
  <2>1. PICK n \in DOMAIN s : s[n] = p /\ Rank(p) = n - 1
    BY <1>7, <1>9, <1>13
  <2>2. n \in Nat /\ n >= 1 /\ n <= Len(s)
    BY <1>4
  <2>3. Rank(p)' = Rank(p) /\ ask' = ask
    BY <1>6, SameRows
  <2>4. CASE ask.limit = None
    BY <1>6, <2>3, <2>4 DEF Reached
  <2>5. CASE ask.limit # None
    <3>1. ~(from < to)
      BY <1>6, <1>13, <2>5 DEF ReadAll, Turned
    <3>2. /\ from = client.offset /\ to = Least(client.offset + ask.limit, Len(s))
          /\ client.offset' = client.offset + ask.limit /\ ask.limit \in Nat /\ ask.limit > 0
      BY <2>5 DEF Turned
    <3>3. Len(s) <= client.offset
      BY <1>1, <1>4, <3>1, <3>2 DEF Least
    <3>4. Rank(p)' < client.offset'
      BY <1>1, <1>4, <2>1, <2>2, <2>3, <3>2, <3>3
    <3> QED BY <2>3, <2>5, <3>4 DEF Reached
  <2> QED BY <2>4, <2>5
<1> QED BY <1>11, <1>12, <1>13 DEF OffsetPages

-----------------------------------------------------------------------------

LEMMA QueriesStart == Init => PagesInv
<1> SUFFICES ASSUME Init
             PROVE  PagesInv
  OBVIOUS
<1>1. PICK f \in Families : ask \in f.asks /\ table \in f.tables
  BY DEF Init
<1>2. /\ client = [listed |-> << >>, last |-> None, offset |-> 0, phase |-> "ready"]
      /\ get = [phase |-> "none"] /\ changed = {} /\ slipped = FALSE
  BY DEF Init, NoGet
<1>3. AskOK
  BY <1>1, QueriesAssumption DEF AskOK
<1>4. TableOK
  BY <1>1, QueriesAssumption DEF TableOK, Exists
<1>5. ClientOK
  BY <1>2 DEF ClientOK
<1>6. GetOK
  BY <1>2 DEF GetOK, ReadAll, Reading
<1>7. InOrderOfList /\ \A p : ~IsListed(p)
  BY <1>2 DEF InOrderOfList, IsListed
<1>8. ~ReadAll
  BY <1>2 DEF ReadAll, Reading
<1>9. AfterPages
  BY <1>2, <1>7, <1>8 DEF AfterPages, Behind
<1>10. \A p : ~Reached(p)
  <2> TAKE p
  <2> DEFINE first == {q \in Pk : Belongs(q) /\ Comes(q, p)}
  <2>1. Cardinality(first) \in Nat
    BY QueriesAssumption, FS_Subset, FS_CardinalityType
  <2> QED BY <1>2, <2>1 DEF Reached, Rank
<1>11. OffsetPages
  BY <1>7, <1>8, <1>10 DEF OffsetPages
<1> QED BY <1>2, <1>3, <1>4, <1>5, <1>6, <1>9, <1>11 DEF PagesInv, PagesOK

LEMMA QueriesKept ==
  ASSUME PagesInv, UNCHANGED <<ask, table, client.listed, client.last, client.offset>>, changed \subseteq changed', slipped' = slipped,
         ask.stat = None => /\ ClientOK' /\ GetOK'
                            /\ ReadAll' => ReadAll
                            /\ ~ask.after /\ ask.limit = None => (client.phase' = "ready" <=> client.phase = "ready"),
         ask.stat # None => get'.phase \in {"none", "stat"}
  PROVE  PagesInv'
<1>1. CASE ask.stat # None
  BY <1>1 DEF PagesInv
<1>2. CASE ask.stat = None
  <2>0. PagesOK /\ (ask.after /\ ~slipped => AfterPages) /\ (~ask.after /\ changed = {} => OffsetPages)
    BY <1>2 DEF PagesInv
  <2>1. PagesOK'
    BY <1>2, <2>0, SameRows DEF PagesOK
  <2>2. ASSUME ask'.after, ~slipped'
        PROVE  AfterPages'
    <3>1. AfterPages
      BY <2>0, <2>2
    <3> QED BY <1>2, <3>1, SameAfter
  <2>3. ASSUME ~ask'.after, changed' = {}
        PROVE  OffsetPages'
    <3>1. ~ask.after /\ OffsetPages
      BY <2>0, <2>3
    <3> QED BY <1>2, <3>1, SameOffset
  <2>4. ask'.stat = None
    BY <1>2
  <2> QED BY <2>1, <2>2, <2>3, <2>4 DEF PagesInv
<1> QED BY <1>1, <1>2

Reads == \/ StartJoin \/ MergeStep \/ ModelDone
         \/ \E path \in Paths(ask.withs) : FindIds(path) \/ JoinPath(path) \/ JoinNext(path)
         \/ \E m \in DOMAIN others : NextModel(m)
         \/ \E key \in SUBSET Annotation : Fetch(key)

LEMMA ReadsKeep ==
  ASSUME PagesInv, Reads
  PROVE  /\ UNCHANGED <<ask, table, client, changed, slipped>>
         /\ get.phase \in {"ids", "join", "merge"}
         /\ {"phase", "data"} \subseteq DOMAIN get => /\ get'.phase \in {"ids", "join", "merge"} /\ get'.data = get.data
                                                    /\ {"phase", "data"} \subseteq DOMAIN get'
<1>1. CASE StartJoin
  BY <1>1 DEF StartJoin, dbvars
<1>2. CASE \E path \in Paths(ask.withs) : JoinPath(path) \/ JoinNext(path)
  BY <1>2 DEF JoinPath, JoinNext, JoinRest, dbvars
<1>3. CASE MergeStep
  BY <1>3 DEF MergeStep, dbvars
<1>4. CASE ModelDone
  BY <1>4 DEF ModelDone, dbvars
<1>5. CASE \E path \in Paths(ask.withs) : FindIds(path)
  BY <1>5 DEF FindIds, dbvars
<1>6. CASE \E m \in DOMAIN others : NextModel(m)
  BY <1>6 DEF NextModel, dbvars, AllJoined
<1>7. CASE \E key \in SUBSET Annotation : Fetch(key)
  BY <1>7 DEF Fetch, dbvars
<1> QED BY <1>1, <1>2, <1>3, <1>4, <1>5, <1>6, <1>7 DEF Reads

LEMMA ReadsStep == PagesInv /\ Reads => PagesInv'
<1> SUFFICES ASSUME PagesInv, Reads
             PROVE  PagesInv'
  OBVIOUS
<1>1. UNCHANGED <<ask, table, client, changed, slipped>> /\ get.phase \in {"ids", "join", "merge"}
  BY ReadsKeep
<1>2. ask.stat = None /\ PagesOK
  BY <1>1 DEF PagesInv
<1>3. {"phase", "data"} \subseteq DOMAIN get /\ client.phase = "waiting"
  BY <1>1, <1>2 DEF PagesOK, GetOK
<1>4. /\ get'.phase \in {"ids", "join", "merge"} /\ get'.data = get.data
      /\ {"phase", "data"} \subseteq DOMAIN get'
  BY <1>3, ReadsKeep
<1>5. ReadAll' => ReadAll
  BY <1>1, <1>3, <1>4 DEF ReadAll, Reading
<1>6. GetOK'
  BY <1>1, <1>3, <1>4 DEF GetOK
<1>7. ClientOK'
  BY <1>1, <1>2 DEF PagesOK, ClientOK
<1> QED BY <1>1, <1>2, <1>5, <1>6, <1>7, QueriesKept

LEMMA WriteTable ==
  ASSUME AskOK, TableOK, NEW pk \in Pk, NEW row \in ask.writes, Write(pk, row)
  PROVE  /\ AskOK' /\ TableOK'
         /\ \A p \in Pk : table'[p] = IF p = pk THEN row ELSE table[p]
<1>1. ask' = ask /\ table' = [table EXCEPT ![pk] = row] /\ (row # Absent => row.pk = pk)
  BY DEF Write
<1>2. AskOK'
  BY <1>1 DEF AskOK
<1>3. \A p \in Pk : table'[p] = IF p = pk THEN row ELSE table[p]
  BY <1>1 DEF TableOK
<1>4. DOMAIN table' = Pk
  BY <1>1 DEF TableOK
<1>5. row # Absent => Ordered(ask, row)
  BY DEF AskOK
<1>6. ASSUME NEW p \in Pk, Exists(p)'
      PROVE  table'[p].pk = p /\ Ordered(ask', table'[p])
  <2>1. CASE p = pk
    BY <1>1, <1>3, <1>5, <1>6, <2>1 DEF Exists
  <2>2. CASE p # pk
    BY <1>1, <1>3, <1>6, <2>2 DEF Exists, TableOK
  <2> QED BY <2>1, <2>2
<1> QED BY <1>2, <1>3, <1>4, <1>6 DEF TableOK

LEMMA WriteStep == PagesInv /\ (\E pk \in Pk, row \in ask.writes : Write(pk, row)) => PagesInv'
<1> SUFFICES ASSUME PagesInv, NEW pk \in Pk, NEW row \in ask.writes, Write(pk, row)
             PROVE  PagesInv'
  OBVIOUS
<1>1. /\ UNCHANGED <<ask, client, get>> /\ pk \notin changed /\ changed' = changed \cup {pk}
      /\ table' = [table EXCEPT ![pk] = row] /\ slipped' = (slipped \/ pk = client.last)
      /\ row # Absent => row.pk = pk
  BY DEF Write
<1>2. CASE ask.stat # None
  BY <1>1, <1>2 DEF PagesInv
<1>3. CASE ask.stat = None
  <2>1. AskOK /\ TableOK /\ ClientOK /\ GetOK
    BY <1>3 DEF PagesInv, PagesOK
  <2>2. AskOK' /\ TableOK'
    BY <2>1, WriteTable
  <2>3. \A p \in Pk : table'[p] = IF p = pk THEN row ELSE table[p]
    BY <2>1, WriteTable
  <2>5. ClientOK' /\ GetOK'
    BY <1>1, <2>1 DEF ClientOK, GetOK, ReadAll, Reading
  <2>6. ASSUME ask.after, ~slipped'
        PROVE  AfterPages'
    <3>1. AfterPages /\ pk # client.last
      BY <1>1, <1>3, <2>6 DEF PagesInv
    <3>2. \A p \in Pk \ {pk} : (Exists(p)' <=> Exists(p)) /\ (Belongs(p)' <=> Belongs(p))
      BY <1>1, <2>3 DEF Exists, Belongs
    <3>3. \A p, q \in Pk \ {pk} : Comes(p, q)' <=> Comes(p, q)
      BY <1>1, <2>3 DEF Comes, Order
    <3>4. client.last = None \/ client.last \in Pk \ {pk}
      BY <2>1, <3>1 DEF ClientOK
    <3>5. ASSUME NEW p \in Pk \ changed'
          PROVE  /\ p \in Pk \ {pk} /\ p \in Pk \ changed
                 /\ Behind(p)' <=> Behind(p)
                 /\ IsListed(p)' <=> IsListed(p)
      <4>1. p \in Pk \ {pk} /\ p \in Pk \ changed
        BY <1>1
      <4>2. Behind(p)' <=> Behind(p)
        BY <1>1, <3>3, <3>4, <4>1 DEF Behind
      <4>3. IsListed(p)' <=> IsListed(p)
        BY <1>1 DEF IsListed
      <4> QED BY <4>1, <4>2, <4>3
    <3>6. InOrderOfList'
      <4>1. ASSUME NEW i \in DOMAIN client.listed, NEW j \in DOMAIN client.listed, i < j,
                   client.listed[i] \notin changed', client.listed[j] \notin changed'
            PROVE  Comes(client.listed[i], client.listed[j])'
        <5>1. client.listed[i] \in Pk \ {pk} /\ client.listed[j] \in Pk \ {pk}
          BY <1>1, <2>1, <4>1 DEF ClientOK
        <5>2. Comes(client.listed[i], client.listed[j])
          BY <1>1, <3>1, <4>1 DEF AfterPages, InOrderOfList
        <5> DEFINE p == client.listed[i]
                   q == client.listed[j]
        <5>3. Precedes(Order(ask'), table'[p], table'[q]) <=> Precedes(Order(ask), table[p], table[q])
          BY <1>1, <2>3, <5>1
        <5> QED BY <1>1, <5>2, <5>3 DEF Comes
      <4> QED BY <1>1, <4>1 DEF InOrderOfList
    <3>7. IF client.last' = None THEN client.listed' = << >> ELSE Exists(client.last)'
      <4>1. client.last # None => table'[client.last] = table[client.last]
        BY <2>3, <3>4
      <4> QED BY <1>1, <3>1, <4>1 DEF AfterPages, Exists
    <3>8. ReadAll' <=> ReadAll
      BY <1>1 DEF ReadAll, Reading
    <3>9. \A p \in Pk \ changed' : IsListed(p)' <=> Belongs(p)' /\ Behind(p)'
      BY <3>1, <3>2, <3>5 DEF AfterPages
    <3>10. ReadAll' => \A p \in Pk \ changed' : Belongs(p)' => Behind(p)'
      BY <3>1, <3>2, <3>5, <3>8 DEF AfterPages
    <3> QED BY <3>6, <3>7, <3>9, <3>10 DEF AfterPages
  <2> QED BY <1>1, <1>3, <2>2, <2>5, <2>6 DEF PagesInv, PagesOK
<1> QED BY <1>2, <1>3

LEMMA QueriesStep == PagesInv /\ [Next]_vars => PagesInv'
<1> SUFFICES ASSUME PagesInv, [Next]_vars
             PROVE  PagesInv'
  OBVIOUS
<1>1. CASE Query
  <2>1. ask.stat = None /\ PagesOK
    BY <1>1 DEF Query, PagesInv
  <2>2. PagesOK' /\ \E s, from, to : Turned(s, from, to)
    BY <1>1, <2>1, QueryTurns
  <2>3. PICK s, from, to : Turned(s, from, to)
    BY <2>2
  <2>4. UNCHANGED <<ask, changed, slipped>>
    BY <2>3 DEF Turned
  <2>5. ask.after /\ ~slipped => AfterPages'
    BY <2>1, <2>3, QueryAfter DEF PagesInv
  <2>6. ~ask.after /\ changed = {} => OffsetPages'
    BY <2>1, <2>3, QueryOffset DEF PagesInv
  <2> QED BY <2>1, <2>2, <2>4, <2>5, <2>6 DEF PagesInv
<1>2. CASE StatsView
  BY <1>2 DEF StatsView, PagesInv
<1>3. CASE BadAfter
  <2>1. /\ UNCHANGED <<ask, table, get, changed, slipped>> /\ client' = [client EXCEPT !.phase = "failed"]
        /\ client.phase = "ready"
    BY <1>3 DEF BadAfter, dbvars
  <2>2. CASE ask.stat # None
    BY <2>1, <2>2 DEF PagesInv
  <2>3. CASE ask.stat = None
    <3>1. ClientOK /\ GetOK /\ client.last # None
      BY <1>3, <2>3 DEF PagesInv, PagesOK, BadAfter
    <3>2. /\ client'.listed = client.listed /\ client'.last = client.last /\ client'.offset = client.offset
          /\ client'.phase = "failed" /\ ClientOK'
      BY <2>1, <3>1 DEF ClientOK
    <3>3. GetOK' /\ ~ReadAll'
      BY <2>1, <3>1, <3>2 DEF GetOK, ReadAll, Reading
    <3>4. ask.after
      BY <3>1 DEF ClientOK
    <3> QED BY <2>1, <2>3, <3>2, <3>3, <3>4, QueriesKept
  <2> QED BY <2>2, <2>3
<1>4. CASE Answer
  <2>1. /\ UNCHANGED <<ask, table, changed, slipped>> /\ get' = [get EXCEPT !.phase = "done"] /\ get.phase = "join"
        /\ client' = [client EXCEPT !.phase = IF get.data = {} \/ ask.limit = None THEN "done" ELSE "ready"]
    BY <1>4 DEF Answer, AllJoined, dbvars
  <2>2. ask.stat = None /\ ClientOK /\ GetOK
    BY <2>1 DEF PagesInv, PagesOK
  <2>3. client.phase = "waiting" /\ {"phase", "data"} \subseteq DOMAIN get
    BY <2>1, <2>2 DEF GetOK
  <2>4. get'.phase = "done" /\ get'.data = get.data /\ {"phase", "data"} \subseteq DOMAIN get'
    BY <2>1, <2>3
  <2>5. /\ client'.listed = client.listed /\ client'.last = client.last /\ client'.offset = client.offset
        /\ client'.phase = IF get.data = {} \/ ask.limit = None THEN "done" ELSE "ready"
        /\ ClientOK'
    BY <2>1, <2>2 DEF ClientOK
  <2>6. GetOK' /\ (ReadAll' => ReadAll)
    BY <2>1, <2>3, <2>4, <2>5 DEF GetOK, ReadAll, Reading
  <2>7. ask.limit = None => (client.phase' = "ready" <=> client.phase = "ready")
    BY <2>3, <2>5
  <2> QED BY <2>1, <2>2, <2>5, <2>6, <2>7, QueriesKept
<1>5. CASE Reads
  BY <1>5, ReadsStep
<1>6. CASE \E pk \in Pk, row \in ask.writes : Write(pk, row)
  BY <1>6, WriteStep
<1>7. CASE \E m \in DOMAIN others, id \in Id : Vanish(m, id)
  <2>1. UNCHANGED <<ask, table, client, get, slipped>> /\ changed \subseteq changed'
    BY <1>7 DEF Vanish
  <2>2. ask.stat = None => ClientOK' /\ GetOK' /\ (ReadAll' => ReadAll)
    BY <2>1 DEF PagesInv, PagesOK, ClientOK, GetOK, ReadAll, Reading
  <2>3. ask.stat # None => get'.phase \in {"none", "stat"}
    BY <2>1 DEF PagesInv
  <2> QED BY <2>1, <2>2, <2>3, QueriesKept
<1>8. CASE UNCHANGED vars
  <2>1. UNCHANGED <<ask, table, client, get, slipped, changed>>
    BY <1>8 DEF vars
  <2>2. ask.stat = None => ClientOK' /\ GetOK' /\ (ReadAll' => ReadAll)
    BY <2>1 DEF PagesInv, PagesOK, ClientOK, GetOK, ReadAll, Reading
  <2>3. ask.stat # None => get'.phase \in {"none", "stat"}
    BY <2>1 DEF PagesInv
  <2> QED BY <2>1, <2>2, <2>3, QueriesKept
<1> QED BY <1>1, <1>2, <1>3, <1>4, <1>5, <1>6, <1>7, <1>8 DEF Next, Serve, Reads

LEMMA ReadPages == PagesInv => PagesComplete
<1> SUFFICES ASSUME PagesInv, client.phase = "done", get.phase = "done", ~slipped, ask.after \/ changed = {}
             PROVE  /\ \A pk \in Pk \ changed : Count(pk) = IF Belongs(pk) THEN 1 ELSE 0
                    /\ \A i, j \in DOMAIN client.listed :
                         (i < j /\ {client.listed[i], client.listed[j]} \cap changed = {}) =>
                           ~Precedes(Order(ask), table[client.listed[j]], table[client.listed[i]])
  BY DEF PagesComplete
<1>1. PagesOK /\ (ask.after => AfterPages) /\ (~ask.after => OffsetPages)
  BY DEF PagesInv
<1>2. AskOK /\ TableOK /\ client.listed \in Seq(Pk) /\ ReadAll
  BY <1>1 DEF PagesOK, ClientOK, GetOK
<1>3. \A p \in Pk \ changed : IsListed(p) <=> Belongs(p)
  <2>1. CASE ask.after
    BY <1>1, <1>2, <2>1 DEF AfterPages
  <2>2. CASE ~ask.after
    BY <1>1, <1>2, <2>2 DEF OffsetPages
  <2> QED BY <2>1, <2>2
<1>4. InOrderOfList
  BY <1>1 DEF AfterPages, OffsetPages
<1>5. DOMAIN client.listed = 1..Len(client.listed) /\ Len(client.listed) \in Nat
  BY <1>2
<1>6. ASSUME NEW i \in DOMAIN client.listed, NEW j \in DOMAIN client.listed, i < j,
             client.listed[i] \notin changed, client.listed[j] \notin changed
      PROVE  /\ client.listed[i] # client.listed[j]
             /\ ~Precedes(Order(ask), table[client.listed[j]], table[client.listed[i]])
  <2> DEFINE p == client.listed[i]
             q == client.listed[j]
  <2>1. Comes(p, q)
    BY <1>4, <1>6 DEF InOrderOfList
  <2>2. p \in Pk /\ q \in Pk /\ IsListed(p) /\ IsListed(q)
    BY <1>2, <1>6 DEF IsListed
  <2>3. Exists(p) /\ Exists(q)
    BY <1>3, <1>6, <2>2 DEF Belongs
  <2> HIDE DEF p, q
  <2>4. ~Comes(q, p) /\ p # q
    BY <1>2, <2>1, <2>2, <2>3, ComesOrder
  <2> QED BY <2>4 DEF Comes, p, q
<1>7. ASSUME NEW p \in Pk \ changed
      PROVE  Count(p) = IF Belongs(p) THEN 1 ELSE 0
  <2> DEFINE places == {i \in DOMAIN client.listed : client.listed[i] = p}
  <2>1. CASE ~Belongs(p)
    <3>1. places = {}
      BY <1>3, <1>7, <2>1 DEF IsListed
    <3> QED BY <2>1, <3>1, FS_EmptySet DEF Count
  <2>2. CASE Belongs(p)
    <3>1. PICK i \in DOMAIN client.listed : client.listed[i] = p
      BY <1>3, <1>7, <2>2 DEF IsListed
    <3>2. ASSUME NEW j \in DOMAIN client.listed, client.listed[j] = p
          PROVE  j = i
      <4>1. ~(i < j) /\ ~(j < i)
        BY <1>6, <1>7, <3>1, <3>2
      <4> QED BY <1>5, <4>1
    <3>3. places = {i}
      BY <3>1, <3>2
    <3> QED BY <2>2, <3>3, FS_Singleton DEF Count
  <2> QED BY <2>1, <2>2
<1>8. ASSUME NEW i \in DOMAIN client.listed, NEW j \in DOMAIN client.listed, i < j,
             {client.listed[i], client.listed[j]} \cap changed = {}
      PROVE  ~Precedes(Order(ask), table[client.listed[j]], table[client.listed[i]])
  BY <1>6, <1>8
<1> QED BY <1>7, <1>8

(* get and _after_expr: a client that has read to the end has seen every   *)
(* row that nobody changed once if it belongs to the list, in order, and   *)
(* no other.                                                               *)
THEOREM PagesAreComplete == Spec => []PagesComplete
<1>1. Init => PagesInv
  BY QueriesStart
<1>2. PagesInv /\ [Next]_vars => PagesInv'
  BY QueriesStep
<1>3. PagesInv => PagesComplete
  BY ReadPages
<1> QED BY <1>1, <1>2, <1>3, PTL DEF Spec

-----------------------------------------------------------------------------

(* Stats: the groups of a tally are disjoint sets of the rows counted.     *)
AddsUp(S, f) ==
  \E g \in [SUBSET S -> Nat] :
    /\ Total(f) = g[S] /\ g[{}] = 0
    /\ \A t \in (SUBSET S) \ {{}} : \E x \in t : g[t] = f[x] + g[t \ {x}]

LEMMA TotalFolds == ASSUME NEW S, IsFiniteSet(S), NEW f \in [S -> Nat] PROVE AddsUp(S, f)
<1> DEFINE c == [t \in SUBSET S |-> CHOOSE x \in t : TRUE]
           h == [p \in S \X Nat |-> f[p[1]] + p[2]]
           Eqn(iter) == iter = [t \in SUBSET DOMAIN f |-> IF t = {} THEN 0
                                  ELSE f[CHOOSE x \in t : TRUE] + iter[t \ {CHOOSE x \in t : TRUE}]]
           g == CHOOSE iter : Eqn(iter)
<1>1. Total(f) = g[S]
  BY Zenon DEF Total, FoldFunction, FoldFunctionOnSet, MapThenFoldSet
<1>2. \A t \in (SUBSET S) \ {{}} : c[t] \in t /\ c[t] \in S /\ c[t] = CHOOSE x \in t : TRUE
  OBVIOUS
<1>3. h \in [S \X Nat -> Nat]
  OBVIOUS
<1>4. \E i : Eqn(i) /\ i \in [SUBSET S -> Nat]
  <2>1. PICK i \in [SUBSET S -> Nat] : i = [t \in SUBSET S |-> IF t = {} THEN 0 ELSE h[<<c[t], i[t \ {c[t]}]>>]]
    <3>1. \A t \in (SUBSET S) \ {{}} : c[t] \in t
      BY <1>2
    <3>2. 0 \in Nat
      OBVIOUS
    <3> HIDE DEF c, h
    <3>3. Folds(S, Nat, 0, h, c)
      BY <1>3, <3>1, <3>2, FoldExists
    <3> QED BY <3>3 DEF Folds
  <2>2. \A t \in (SUBSET S) \ {{}} : h[<<c[t], i[t \ {c[t]}]>>] = f[CHOOSE x \in t : TRUE] + i[t \ {CHOOSE x \in t : TRUE}]
    <3> SUFFICES ASSUME NEW t \in (SUBSET S) \ {{}}
                 PROVE  h[<<c[t], i[t \ {c[t]}]>>] = f[c[t]] + i[t \ {c[t]}]
      BY <1>2
    <3>1. c[t] \in S /\ t \ {c[t]} \in SUBSET S
      BY <1>2
    <3> HIDE DEF c
    <3>2. <<c[t], i[t \ {c[t]}]>> \in S \X Nat
      BY <3>1
    <3> QED BY <3>2
  <2>3. i = [t \in SUBSET S |-> IF t = {} THEN 0 ELSE f[CHOOSE x \in t : TRUE] + i[t \ {CHOOSE x \in t : TRUE}]]
    <3> HIDE DEF h, c
    <3> QED BY <2>1, <2>2
  <2> QED BY <2>3
<1>5. Eqn(g)
  <2> HIDE DEF Eqn
  <2> QED BY <1>4
<1>6. DOMAIN f = S
  OBVIOUS
<1>7. g = [t \in SUBSET S |-> IF t = {} THEN 0 ELSE f[CHOOSE x \in t : TRUE] + g[t \ {CHOOSE x \in t : TRUE}]]
  <2> HIDE DEF g
  <2> QED BY <1>5, <1>6
<1> HIDE DEF g, Eqn
<1>8. g[{}] = 0 /\ \A t \in (SUBSET S) \ {{}} : \E x \in t : g[t] = f[x] + g[t \ {x}]
  BY <1>2, <1>7
<1>9. g \in [SUBSET S -> Nat]
  <2> DEFINE Good == [t \in SUBSET S |-> Nat]
  <2>1. \A t \in (SUBSET S) \ {{}} : \E x \in t : g[t \ {x}] \in Good[t \ {x}] => g[t] \in Good[t]
    <3> SUFFICES ASSUME NEW t \in (SUBSET S) \ {{}}
                 PROVE  \E x \in t : g[t \ {x}] \in Good[t \ {x}] => g[t] \in Good[t]
      OBVIOUS
    <3>1. PICK x \in t : g[t] = f[x] + g[t \ {x}]
      BY <1>8
    <3>2. f[x] \in Nat /\ t \ {x} \in SUBSET S
      OBVIOUS
    <3>3. Good[t] = Nat /\ Good[t \ {x}] = Nat
      BY <3>2
    <3> HIDE DEF Good
    <3>4. g[t \ {x}] \in Good[t \ {x}] => g[t] \in Good[t]
      BY <3>1, <3>2, <3>3
    <3> QED BY <3>4
  <2>2. g[{}] \in Good[{}]
    BY <1>8
  <2>3. \A t \in SUBSET S : Good[t] = Nat
    OBVIOUS
  <2> HIDE DEF Good
  <2>4. \A t \in SUBSET S : g[t] \in Good[t]
    BY <2>1, <2>2, FoldKeeps
  <2> QED BY <1>7, <2>3, <2>4
<1> QED BY <1>1, <1>8, <1>9, Zenon DEF AddsUp

LEMMA TotalCounts ==
  ASSUME NEW S, IsFiniteSet(S), NEW W, IsFiniteSet(W), NEW G \in [S -> SUBSET W], NEW f,
         f = [v \in S |-> Cardinality(G[v])],
         \A u, v \in S : u # v => G[u] \cap G[v] = {}
  PROVE  Total(f) = Cardinality(UNION {G[v] : v \in S})
<1> DEFINE U(t) == UNION {G[v] : v \in t}
           Good == [t \in SUBSET S |-> {Cardinality(U(t))}]
<1>1. \A X \in SUBSET W : IsFiniteSet(X) /\ Cardinality(X) \in Nat
  BY FS_Subset, FS_CardinalityType
<1>2. f \in [S -> Nat]
  BY <1>1
<1>3. PICK g \in [SUBSET S -> Nat] :
           /\ Total(f) = g[S] /\ g[{}] = 0
           /\ \A t \in (SUBSET S) \ {{}} : \E x \in t : g[t] = f[x] + g[t \ {x}]
  <2>1. AddsUp(S, f)
    BY <1>2, TotalFolds
  <2> QED BY <2>1 DEF AddsUp
<1>4. \A t \in (SUBSET S) \ {{}} : \E x \in t : g[t \ {x}] \in Good[t \ {x}] => g[t] \in Good[t]
  <2> SUFFICES ASSUME NEW t \in (SUBSET S) \ {{}}
               PROVE  \E x \in t : g[t \ {x}] \in Good[t \ {x}] => g[t] \in Good[t]
    OBVIOUS
  <2>1. PICK x \in t : g[t] = f[x] + g[t \ {x}]
    BY <1>3
  <2>2. SUFFICES ASSUME g[t \ {x}] \in Good[t \ {x}]
                 PROVE  g[t] \in Good[t]
    OBVIOUS
  <2>3. g[t \ {x}] = Cardinality(U(t \ {x})) /\ f[x] = Cardinality(G[x])
    BY <2>2
  <2>4. U(t) = G[x] \cup U(t \ {x}) /\ G[x] \cap U(t \ {x}) = {}
    OBVIOUS
  <2>5. G[x] \in SUBSET W /\ U(t \ {x}) \in SUBSET W
    OBVIOUS
  <2> HIDE DEF U
  <2>6. Cardinality(U(t)) = Cardinality(G[x]) + Cardinality(U(t \ {x}))
    <3>1. Cardinality(G[x] \cup U(t \ {x}))
            = Cardinality(G[x]) + Cardinality(U(t \ {x})) - Cardinality(G[x] \cap U(t \ {x}))
      BY <1>1, <2>5, FS_Union
    <3>2. Cardinality(G[x] \cap U(t \ {x})) = 0
      BY <2>4, FS_EmptySet
    <3>3. Cardinality(U(t)) = Cardinality(G[x] \cup U(t \ {x}))
      BY <2>4
    <3>4. Cardinality(G[x]) \in Nat /\ Cardinality(U(t \ {x})) \in Nat
      BY <1>1, <2>5
    <3> QED BY ONLY <3>1, <3>2, <3>3, <3>4
  <2> QED BY <2>1, <2>3, <2>6
<1>5. g[{}] \in Good[{}]
  <2>1. U({}) = {}
    OBVIOUS
  <2> HIDE DEF U
  <2> QED BY <1>3, <2>1, FS_EmptySet
<1>6. Good[S] = {Cardinality(U(S))}
  OBVIOUS
<1> HIDE DEF Good
<1>7. g[S] \in Good[S]
  BY <1>4, <1>5, FoldKeeps
<1> QED BY <1>3, <1>6, <1>7

SplitRight(S, G, tally, shown) ==
  /\ Split(tally, shown).value = [v \in shown |-> tally[v]]
  /\ Total(Split(tally, shown).value) + Split(tally, shown).other = Cardinality(UNION {G[v] : v \in S})

LEMMA SplitAddsUp ==
  ASSUME NEW S, IsFiniteSet(S), NEW W, IsFiniteSet(W), NEW G \in [S -> SUBSET W], NEW tally,
         tally = [v \in S |-> Cardinality(G[v])],
         \A u, v \in S : u # v => G[u] \cap G[v] = {}, NEW shown \in SUBSET S
  PROVE  SplitRight(S, G, tally, shown)
<1> DEFINE rest == S \ shown
           U(T) == UNION {G[v] : v \in T}
           Of(T) == [v \in T |-> G[v]]
           Part(T) == [v \in T |-> Cardinality(Of(T)[v])]
<1>1. ASSUME NEW T \in SUBSET S
      PROVE  /\ Total(Part(T)) = Cardinality(U(T)) /\ Part(T) = Restrict(tally, T)
  <2>1. Of(T) \in [T -> SUBSET W] /\ IsFiniteSet(T)
    BY FS_Subset
  <2>2. \A u, v \in T : u # v => Of(T)[u] \cap Of(T)[v] = {}
    OBVIOUS
  <2>3. UNION {Of(T)[v] : v \in T} = U(T)
    OBVIOUS
  <2>4. Part(T) = Restrict(tally, T)
    BY DEF Restrict
  <2>5. PICK P : P = Part(T) /\ P = [v \in T |-> Cardinality(Of(T)[v])]
    OBVIOUS
  <2> HIDE DEF Of, Part
  <2>6. Total(P) = Cardinality(UNION {Of(T)[v] : v \in T})
    BY <2>1, <2>2, <2>5, TotalCounts
  <2> QED BY <2>3, <2>4, <2>5, <2>6
<1>2. DOMAIN tally = S
  OBVIOUS
<1>3. /\ Split(tally, shown).value = Restrict(tally, shown)
      /\ Split(tally, shown).other = Total(Restrict(tally, rest))
  BY <1>2 DEF Split
<1>4. /\ Total(Restrict(tally, shown)) = Cardinality(U(shown))
      /\ Total(Restrict(tally, rest)) = Cardinality(U(rest))
  BY <1>1
<1>5. U(S) = U(shown) \cup U(rest) /\ U(shown) \cap U(rest) = {} /\ U(shown) \in SUBSET W /\ U(rest) \in SUBSET W
  OBVIOUS
<1> HIDE DEF U
<1>6. \A X \in SUBSET W : IsFiniteSet(X) /\ Cardinality(X) \in Nat
  BY FS_Subset, FS_CardinalityType
<1>7. Cardinality(U(shown) \cup U(rest)) = Cardinality(U(shown)) + Cardinality(U(rest)) - Cardinality(U(shown) \cap U(rest))
  BY <1>5, <1>6, FS_Union
<1>8. Cardinality(U(shown) \cap U(rest)) = 0
  BY <1>5, FS_EmptySet
<1>9. Cardinality(U(S)) = Cardinality(U(shown) \cup U(rest))
  BY <1>5
<1>10. Cardinality(U(shown)) \in Nat /\ Cardinality(U(rest)) \in Nat
  BY <1>5, <1>6
<1>11. Cardinality(U(shown)) + Cardinality(U(rest)) = Cardinality(U(S))
  BY ONLY <1>7, <1>8, <1>9, <1>10
<1>12. Split(tally, shown).value = [v \in shown |-> tally[v]]
  BY <1>3 DEF Restrict
<1>13. U(S) = UNION {G[v] : v \in S}
  BY DEF U
<1> QED BY <1>3, <1>4, <1>11, <1>12, <1>13 DEF SplitRight

Counted == {pk \in Pk : /\ Belongs(pk) /\ table[pk][ask.stat.field] # None
                        /\ \A f \in ask.stat.filters : Plain(f, table[pk])}
Alike(v) == {pk \in Counted : table[pk][ask.stat.field] = v}
StatAskOK == ask.stat # None => \A h \in ask.stat.filters : h.not \in BOOLEAN /\ h.all \in BOOLEAN

LEMMA TallyGroups ==
  ASSUME AskOK, StatAskOK, TableOK, ask.stat # None, client.last = None
  PROVE  LET rows == {table[pk] : pk \in Candidates}
             values == {table[pk][ask.stat.field] : pk \in Counted}
         IN Tally({r \in rows : \A f \in ask.stat.filters : Matches(f, r)}, ask.stat.field)
              = [v \in values |-> Cardinality(Alike(v))]
<1> DEFINE field == ask.stat.field
           rows == {table[pk] : pk \in Candidates}
           values == {table[pk][field] : pk \in Counted}
           R == {r \in rows : \A f \in ask.stat.filters : Matches(f, r)}
           Same(v) == {r \in R : r[field] = v}
<1>1. Candidates = {pk \in Pk : Belongs(pk)}
  BY PassesBelongs DEF Candidates, Belongs
<1>2. \A pk \in Pk : Belongs(pk) => table[pk].pk = pk
  BY DEF TableOK, Belongs
<1>3. \A f \in ask.stat.filters : \A row : Matches(f, row) <=> Plain(f, row)
  BY MatchesPlain DEF StatAskOK
<1>4. {r[field] : r \in R} \ {None} = values
  <2>1. ASSUME NEW r \in R, r[field] # None
        PROVE  r[field] \in values
    BY <1>1, <1>3, <2>1 DEF Counted
  <2>2. ASSUME NEW pk \in Counted
        PROVE  table[pk] \in R /\ table[pk][field] # None
    BY <1>1, <1>3, <2>2 DEF Counted
  <2> HIDE DEF R
  <2> QED BY <2>1, <2>2
<1>5. ASSUME NEW v \in values
      PROVE  Cardinality(Same(v)) = Cardinality(Alike(v))
  <2> DEFINE h == [pk \in Alike(v) |-> table[pk]]
  <2>1. v # None
    BY DEF Counted
  <2>2. \A pk \in Alike(v) : table[pk] \in Same(v) /\ table[pk].pk = pk
    BY <1>1, <1>2, <1>3 DEF Alike, Counted
  <2>3. \A r \in Same(v) : \E pk \in Alike(v) : r = table[pk]
    BY <1>1, <1>3, <2>1 DEF Alike, Counted
  <2> HIDE DEF Same
  <2>4. h \in Bijection(Alike(v), Same(v))
    BY <2>2, <2>3 DEF Bijection, Injection, Surjection, IsInjective
  <2>5. IsFiniteSet(Alike(v))
    <3>1. Alike(v) \in SUBSET Pk
      BY DEF Alike, Counted
    <3> QED BY <3>1, QueriesAssumption, FS_Subset
  <2> QED BY <2>4, <2>5, FS_Bijection DEF ExistsBijection
<1>6. Tally(R, field) = [v \in {r[field] : r \in R} \ {None} |-> Cardinality(Same(v))]
  BY DEF Tally
<1> HIDE DEF R, Same, values
<1>7. Tally(R, field) = [v \in values |-> Cardinality(Alike(v))]
  BY <1>4, <1>5, <1>6
<1> QED BY <1>7 DEF R, values

StatRight(result) ==
  /\ Total(result.value) + result.other = Cardinality(Counted)
  /\ \A v \in DOMAIN result.value : result.value[v] = Cardinality(Alike(v))
  /\ ask.stat.min # None => Cardinality({table[pk][ask.stat.field] : pk \in Counted} \ DOMAIN result.value) # 1

LEMMA ResultsRight ==
  ASSUME AskOK, StatAskOK, TableOK, ask.stat # None, client.last = None,
         NEW result \in StatResults({table[pk] : pk \in Candidates}, ask.stat)
  PROVE  StatRight(result)
<1> DEFINE field == ask.stat.field
           rows == {table[pk] : pk \in Candidates}
           values == {table[pk][field] : pk \in Counted}
           G == [v \in values |-> Alike(v)]
           tally == Tally({r \in rows : \A f \in ask.stat.filters : Matches(f, r)}, field)
           small == {v \in DOMAIN tally : 100 * tally[v] < ask.stat.min * Total(tally)}
<1>0. /\ ask.stat.min # None => result = AtLeast(tally, ask.stat.min)
      /\ ask.stat.min = None => \E shown \in SUBSET DOMAIN tally : result = Split(tally, shown)
  BY DEF StatResults, Largest
<1>1. tally = [v \in values |-> Cardinality(Alike(v))]
  BY TallyGroups
<1> HIDE DEF tally
<1>2. Counted \in SUBSET Pk /\ IsFiniteSet(Counted) /\ IsFiniteSet(Pk)
  <2>1. Counted \in SUBSET Pk
    BY DEF Counted
  <2> QED BY <2>1, QueriesAssumption, FS_Subset
<1>3. IsFiniteSet(values)
  <2> DEFINE h == [pk \in Counted |-> table[pk][field]]
  <2>1. h \in Surjection(Counted, values)
    BY DEF Surjection
  <2> HIDE DEF h, values
  <2> QED BY <1>2, <2>1, FS_Surjection
<1>4. G \in [values -> SUBSET Counted] /\ \A u, v \in values : u # v => G[u] \cap G[v] = {}
  BY DEF Alike
<1>5. UNION {G[v] : v \in values} = Counted
  <2>1. \A v \in values : G[v] = Alike(v) /\ Alike(v) \subseteq Counted
    BY DEF Alike
  <2>2. \A pk \in Counted : table[pk][field] \in values /\ pk \in Alike(table[pk][field])
    BY DEF Alike
  <2> HIDE DEF G, values
  <2> QED BY <2>1, <2>2
<1>6. tally = [v \in values |-> Cardinality(G[v])]
  BY <1>1
<1>7. \A v \in values : tally[v] = Cardinality(Alike(v))
  BY <1>1
<1>8. DOMAIN tally = values
  BY <1>1
<1> HIDE DEF G, values
<1>9. Total(tally) = Cardinality(Counted)
  BY <1>2, <1>3, <1>4, <1>5, <1>6, TotalCounts
<1>10. ASSUME NEW shown \in SUBSET values
       PROVE  /\ DOMAIN Split(tally, shown).value = shown
              /\ \A v \in shown : Split(tally, shown).value[v] = Cardinality(Alike(v))
              /\ Total(Split(tally, shown).value) + Split(tally, shown).other = Cardinality(Counted)
  <2>1. SplitRight(values, G, tally, shown)
    BY <1>2, <1>3, <1>4, <1>6, SplitAddsUp
  <2> QED BY <1>5, <1>7, <2>1 DEF SplitRight
<1>11. CASE ask.stat.min = None
  BY <1>0, <1>8, <1>10, <1>11 DEF StatRight
<1>12. CASE ask.stat.min # None
  <2>1. IsFiniteSet(small) /\ Cardinality(small) \in Nat /\ small \in SUBSET values
    BY <1>3, <1>8, FS_Subset, FS_CardinalityType
  <2>2. result = IF Cardinality(small) > 1 THEN Split(tally, values \ small) ELSE [value |-> tally, other |-> 0]
    BY <1>0, <1>8, <1>12 DEF AtLeast
  <2>3. CASE Cardinality(small) > 1
    <3>1. result = Split(tally, values \ small) /\ values \ small \in SUBSET values
      BY <2>2, <2>3
    <3>2. DOMAIN result.value = values \ small /\ values \ (values \ small) = small
      BY <1>10, <2>1, <3>1
    <3>3. Cardinality(small) # 1
      BY <2>1, <2>3
    <3> HIDE DEF small
    <3> QED BY <1>10, <3>1, <3>2, <3>3 DEF StatRight, values
  <2>4. CASE ~(Cardinality(small) > 1)
    <3>1. result = [value |-> tally, other |-> 0]
      BY <2>2, <2>4
    <3>2. Total(result.value) + result.other = Cardinality(Counted)
      <4>1. Cardinality(Counted) \in Nat
        BY <1>2, FS_CardinalityType
      <4> QED BY <1>9, <3>1, <4>1
    <3>3. Cardinality(values \ DOMAIN result.value) # 1
      <4>1. values \ DOMAIN result.value = {}
        BY <1>8, <3>1
      <4> QED BY <4>1, FS_EmptySet
    <3> QED BY <1>7, <1>8, <3>1, <3>2, <3>3 DEF StatRight, values
  <2> QED BY <2>3, <2>4
<1> QED BY <1>11, <1>12

StatOK == /\ get.phase \in {"none", "stat"} /\ client.phase \in {"ready", "done"}
          /\ AskOK /\ StatAskOK /\ TableOK /\ ClientOK /\ client.last = None
          /\ get.phase = "stat" => client.phase = "done" /\ StatRight([value |-> get.value, other |-> get.other])
StatInv == ask.stat # None => StatOK

LEMMA StatStart == Init => StatInv
<1> SUFFICES ASSUME Init
             PROVE  StatInv
  OBVIOUS
<1>1. PICK f \in Families : ask \in f.asks /\ table \in f.tables
  BY DEF Init
<1>2. /\ client = [listed |-> << >>, last |-> None, offset |-> 0, phase |-> "ready"]
      /\ get = [phase |-> "none"]
  BY DEF Init, NoGet
<1>3. AskOK /\ StatAskOK
  BY <1>1, QueriesAssumption DEF AskOK, StatAskOK
<1>4. TableOK
  BY <1>1, QueriesAssumption DEF TableOK, Exists
<1>5. ClientOK
  BY <1>2 DEF ClientOK
<1> QED BY <1>2, <1>3, <1>4, <1>5 DEF StatInv, StatOK

LEMMA StatStep == StatInv /\ [Next]_vars => StatInv'
<1> SUFFICES ASSUME StatInv, [Next]_vars, ask'.stat # None
             PROVE  StatOK'
  BY DEF StatInv
<1>1. ask' = ask
  BY DEF Next, Serve, Query, StatsView, BadAfter, StartJoin, MergeStep, ModelDone, Answer, FindIds, JoinPath, JoinNext,
         NextModel, Fetch, Write, Vanish, vars
<1>2. StatOK /\ ask.stat # None
  BY <1>1 DEF StatInv
<1>3. CASE StatsView
  <2>1. PICK result \in StatResults({table[pk] : pk \in Candidates}, ask.stat) :
          get' = [phase |-> "stat", value |-> result.value, other |-> result.other]
    BY <1>3 DEF StatsView
  <2>2. StatRight(result)
    BY <1>2, <2>1, ResultsRight DEF StatOK
  <2>3. UNCHANGED <<ask, table>> /\ client' = [client EXCEPT !.phase = "done"]
    BY <1>3 DEF StatsView, dbvars
  <2>4. StatRight([value |-> get.value, other |-> get.other])'
    <3>1. Counted' = Counted /\ \A v : Alike(v)' = Alike(v)
      BY <2>3, SameRows DEF Counted, Alike
    <3> QED BY <2>1, <2>2, <2>3, <3>1 DEF StatRight
  <2>5. AskOK' /\ StatAskOK' /\ TableOK' /\ ClientOK' /\ client'.last = None /\ client'.phase = "done"
    BY <1>2, <2>3, SameRows DEF StatOK, StatAskOK, ClientOK
  <2> QED BY <2>1, <2>4, <2>5 DEF StatOK
<1>4. ASSUME NEW pk \in Pk, NEW row \in ask.writes, Write(pk, row)
      PROVE  StatOK'
  <2>1. UNCHANGED <<ask, client, get>> /\ client.phase = "ready"
    BY <1>2, <1>4 DEF Write, StatOK
  <2>2. AskOK' /\ TableOK'
    BY <1>2, <1>4, WriteTable DEF StatOK
  <2> QED BY <1>2, <2>1, <2>2 DEF StatOK, StatAskOK, ClientOK
<1>5. CASE UNCHANGED vars
  <2>1. UNCHANGED <<ask, table, client, get>>
    BY <1>5 DEF vars
  <2>2. Counted' = Counted /\ \A v : Alike(v)' = Alike(v)
    BY <2>1, SameRows DEF Counted, Alike
  <2> QED BY <1>2, <2>1, <2>2, SameRows DEF StatOK, StatAskOK, ClientOK, StatRight
<1>6. ~(Query \/ BadAfter \/ StartJoin \/ MergeStep \/ ModelDone \/ Answer)
  BY <1>2 DEF StatOK, Query, BadAfter, StartJoin, MergeStep, ModelDone, Answer, AllJoined
<1>7. /\ \A path : ~(FindIds(path) \/ JoinPath(path) \/ JoinNext(path))
      /\ \A m, id : ~Vanish(m, id)
  BY <1>2 DEF StatOK, FindIds, JoinPath, JoinNext, Vanish
<1>8. /\ \A m : ~NextModel(m)
      /\ \A key : ~Fetch(key)
  BY <1>2 DEF StatOK, NextModel, AllJoined, Fetch
<1> QED BY <1>3, <1>4, <1>5, <1>6, <1>7, <1>8 DEF Next, Serve

LEMMA ReadStat == PagesInv /\ StatInv => StatKeepsTotal
<1> SUFFICES ASSUME PagesInv, StatInv, get.phase = "stat"
             PROVE  StatKeepsTotal
  BY DEF StatKeepsTotal
<1>1. ask.stat # None
  BY DEF PagesInv, PagesOK, GetOK
<1>2. StatRight([value |-> get.value, other |-> get.other])
  BY <1>1 DEF StatInv, StatOK
<1> QED BY <1>2 DEF StatRight, StatKeepsTotal, Counted, Alike

(* stats_view: the groups of a stat and what it puts together are the rows *)
(* that it counts.                                                         *)
THEOREM StatsAddUp == Spec => []StatKeepsTotal
<1>1. Init => PagesInv /\ StatInv
  BY QueriesStart, StatStart
<1>2. PagesInv /\ StatInv /\ [Next]_vars => PagesInv' /\ StatInv'
  BY QueriesStep, StatStep
<1>3. PagesInv /\ StatInv => StatKeepsTotal
  BY ReadStat
<1> QED BY <1>1, <1>2, <1>3, PTL DEF Spec

-----------------------------------------------------------------------------

(* The queries that annotations are spread over.                           *)
Bundles == SUBSET [joins : {Joins[a] : a \in Annotation}, ann : SUBSET Annotation]
Spreads(queries) == UNION {q.ann : q \in queries}

LEMMA SpreadAdds ==
  ASSUME NEW a \in Annotation, NEW queries \in Bundles
  PROVE  Spread(a, queries) \in Bundles /\ Spreads(Spread(a, queries)) = Spreads(queries) \cup {a}
<1> DEFINE wide == {q \in queries : Joins[a] \subseteq q.joins}
           narrow == {q \in queries : q.joins \subseteq Joins[a]}
           first == CHOOSE q \in wide : TRUE
           wider == [first EXCEPT !.ann = @ \cup {a}]
           new == [joins |-> Joins[a], ann |-> {a} \cup UNION {q.ann : q \in narrow}]
<1>1. CASE wide # {}
  <2>1. first \in queries
    BY <1>1
  <2>2. Spread(a, queries) = (queries \ {first}) \cup {wider}
    BY <1>1 DEF Spread
  <2> HIDE DEF first
  <2>3. wider \in [joins : {Joins[b] : b \in Annotation}, ann : SUBSET Annotation] /\ wider.ann = first.ann \cup {a}
    BY <2>1 DEF Bundles
  <2> HIDE DEF wider
  <2> QED BY <2>1, <2>2, <2>3 DEF Bundles, Spreads
<1>2. CASE wide = {}
  <2>1. Spread(a, queries) = (queries \ narrow) \cup {new}
    BY <1>2 DEF Spread
  <2>2. /\ new \in [joins : {Joins[b] : b \in Annotation}, ann : SUBSET Annotation]
        /\ new.ann = {a} \cup UNION {q.ann : q \in narrow} /\ narrow \subseteq queries
    BY DEF Bundles
  <2> HIDE DEF new, narrow
  <2> QED BY <2>1, <2>2 DEF Bundles, Spreads
<1> QED BY <1>1, <1>2

(* _get_objs gives an object all annotations of its group, and no others.  *)
LEMMA GivenAll == ASSUME NEW key \in SUBSET Annotation PROVE Given(key) = key
<1> DEFINE S == {a \in key : Joins[a] # {}}
           c == [t \in SUBSET S |-> CHOOSE x \in t : TRUE]
           h == [p \in S \X Bundles |-> Spread(p[1], p[2])]
           Eqn(iter) == iter = [t \in SUBSET S |-> IF t = {} THEN {}
                                  ELSE Spread(CHOOSE x \in t : TRUE, iter[t \ {CHOOSE x \in t : TRUE}])]
           g == CHOOSE iter : Eqn(iter)
<1>0. IsFiniteSet(S) /\ S \subseteq Annotation /\ {} \in Bundles
  BY QueriesAssumption, FS_Subset DEF Bundles
<1>1. FoldSet(Spread, {}, S) = g[S]
  BY Zenon DEF FoldSet, MapThenFoldSet
<1>2. \A t \in (SUBSET S) \ {{}} : c[t] \in t /\ c[t] \in S /\ c[t] = CHOOSE x \in t : TRUE
  OBVIOUS
<1>3. h \in [S \X Bundles -> Bundles]
  BY <1>0, SpreadAdds
<1>4. \E i : Eqn(i)
  <2>1. PICK i \in [SUBSET S -> Bundles] : i = [t \in SUBSET S |-> IF t = {} THEN {} ELSE h[<<c[t], i[t \ {c[t]}]>>]]
    <3>1. \A t \in (SUBSET S) \ {{}} : c[t] \in t
      BY <1>2
    <3> HIDE DEF c, h, S
    <3>2. Folds(S, Bundles, {}, h, c)
      BY <1>0, <1>3, <3>1, FoldExists
    <3> QED BY <3>2 DEF Folds
  <2>2. \A t \in (SUBSET S) \ {{}} : h[<<c[t], i[t \ {c[t]}]>>] = Spread(CHOOSE x \in t : TRUE, i[t \ {CHOOSE x \in t : TRUE}])
    <3> SUFFICES ASSUME NEW t \in (SUBSET S) \ {{}}
                 PROVE  h[<<c[t], i[t \ {c[t]}]>>] = Spread(c[t], i[t \ {c[t]}])
      BY <1>2
    <3>1. c[t] \in S /\ t \ {c[t]} \in SUBSET S
      BY <1>2
    <3> HIDE DEF c
    <3>2. <<c[t], i[t \ {c[t]}]>> \in S \X Bundles
      BY <3>1
    <3> QED BY <3>2
  <2>3. i = [t \in SUBSET S |-> IF t = {} THEN {} ELSE Spread(CHOOSE x \in t : TRUE, i[t \ {CHOOSE x \in t : TRUE}])]
    <3> HIDE DEF h, c
    <3> QED BY <2>1, <2>2
  <2>4. Eqn(i)
    BY <2>3, Zenon
  <2> HIDE DEF Eqn
  <2> QED BY <2>4
<1>5. Eqn(g)
  <2> HIDE DEF Eqn
  <2> QED BY <1>4
<1>6. g = [t \in SUBSET S |-> IF t = {} THEN {} ELSE Spread(CHOOSE x \in t : TRUE, g[t \ {CHOOSE x \in t : TRUE}])]
  <2> HIDE DEF g
  <2> QED BY <1>5
<1> HIDE DEF g, Eqn
<1>7. g[{}] = {} /\ \A t \in (SUBSET S) \ {{}} : \E x \in t : g[t] = Spread(x, g[t \ {x}])
  <2> HIDE DEF S, c
  <2>1. g[{}] = {}
    BY <1>6
  <2>2. \A t \in (SUBSET S) \ {{}} : g[t] = Spread(CHOOSE x \in t : TRUE, g[t \ {CHOOSE x \in t : TRUE}])
    BY <1>6
  <2>3. ASSUME NEW t \in (SUBSET S) \ {{}}
        PROVE  \E x \in t : g[t] = Spread(x, g[t \ {x}])
    <3>1. PICK x : x = CHOOSE y \in t : TRUE
      OBVIOUS
    <3>2. x \in t /\ g[t] = Spread(x, g[t \ {x}])
      BY <2>2, <3>1
    <3> QED BY <3>2
  <2> QED BY <2>1, <2>3
<1> DEFINE Good == [t \in SUBSET S |-> {queries \in Bundles : Spreads(queries) = t}]
<1>8. g[{}] \in Good[{}]
  BY <1>0, <1>7 DEF Spreads
<1>9. \A t \in (SUBSET S) \ {{}} : \E x \in t : g[t \ {x}] \in Good[t \ {x}] => g[t] \in Good[t]
  <2> SUFFICES ASSUME NEW t \in (SUBSET S) \ {{}}
               PROVE  \E x \in t : g[t \ {x}] \in Good[t \ {x}] => g[t] \in Good[t]
    OBVIOUS
  <2>1. PICK x \in t : g[t] = Spread(x, g[t \ {x}])
    BY <1>7
  <2>2. x \in Annotation /\ t \ {x} \in SUBSET S /\ (t \ {x}) \cup {x} = t
    BY <1>0
  <2>3. ASSUME g[t \ {x}] \in Good[t \ {x}] PROVE g[t] \in Good[t]
    <3>1. g[t \ {x}] \in Bundles /\ Spreads(g[t \ {x}]) = t \ {x}
      BY <2>2, <2>3
    <3>2. g[t] \in Bundles /\ Spreads(g[t]) = t
      BY <2>1, <2>2, <3>1, SpreadAdds
    <3> QED BY <3>2
  <2> QED BY <2>3
<1>10. g[S] \in Good[S]
  <2> HIDE DEF Good, S
  <2> QED BY <1>0, <1>8, <1>9, FoldKeeps
<1>11. Spreads(FoldSet(Spread, {}, S)) = S
  BY <1>1, <1>10
<1>12. Given(key) = (key \ S) \cup Spreads(FoldSet(Spread, {}, S))
  BY DEF Given, Spreads
<1> QED BY <1>11, <1>12

-----------------------------------------------------------------------------

(* Withs: what is found for the paths (FoundOK), what it is joined to      *)
(* (DictsOK, LeftOK, OfOK, FlatOK), and what of it is in the answer (OutOK,*)
(* CoverOK; AskedOK and FetchOK for the model that is being fetched).  The *)
(* dicts of a path can grow by those of another path that ends with the    *)
(* same relation, and what an answer lists is read of them when they no    *)
(* longer do, which is why WithInv speaks of the dicts themselves and not  *)
(* of what was found.                                                      *)
AllPaths == Paths(ask.withs)
LastOf(s) == s[Len(s)]
KeyOf(w) == [model |-> ModelOf(w), ann |-> Annotations(w)]
RestKey(w, v) == <<ModelOf(w), Rest(w, v)>>

WithsOK == /\ ask.withs \in Seq(Seq(DOMAIN Target) \ {<< >>})
           /\ \A w \in DOMAIN ask.where : ask.where[w] \subseteq Id

(* The ids that were found of a path: those of its parents' objects.       *)
FoundFor(w) ==
  /\ w \in AllPaths
  /\ IF Len(w) = 1 THEN DOMAIN get.found[w] = get.data
     ELSE Front(w) \in DOMAIN get.found /\ DOMAIN get.found[w] = Image(get.found[Front(w)])
  /\ \A pk \in DOMAIN get.found[w] : /\ get.found[w][pk] \subseteq Id
                                     /\ Quiet => get.found[w][pk] = Own(LastOf(w), pk)
FoundOK == /\ {"phase", "data", "found", "out"} \subseteq DOMAIN get
           /\ \A w \in DOMAIN get.found : FoundFor(w)

JoinFields == {"phase", "data", "found", "out", "left", "path", "rest", "dicts", "flat", "of", "model", "models", "fetched"}
(* A path has the ids of all objects it was found for, and what it has of  *)
(* an object is the object's own, whatever path it came from.              *)
DictsOK == /\ JoinFields \subseteq DOMAIN get
           /\ DOMAIN get.found = AllPaths /\ DOMAIN get.dicts = AllPaths
           /\ \A w \in AllPaths : /\ DOMAIN get.found[w] \subseteq DOMAIN get.dicts[w]
                           /\ \A pk \in DOMAIN get.dicts[w] :
                                /\ get.dicts[w][pk] \subseteq Id
                                /\ Quiet => get.dicts[w][pk] = Own(LastOf(w), pk)
(* Paths are joined after their parents, and models are fetched after that.*)
LeftOK == /\ get.left \subseteq AllPaths
          /\ \A u, v \in AllPaths : IsStrictPrefix(u, v) /\ u \in get.left => v \in get.left
          /\ \A v \in get.rest : v \in get.left /\ IsStrictPrefix(get.path, v) /\ get.path \in AllPaths \ get.left
          /\ get.models # {} => get.left = {}
(* What a model lists is that of a path which has all that v has.          *)
Listable(w, v) == /\ RestKey(w, v) \in DOMAIN get.of
                 /\ DOMAIN get.found[v] \subseteq DOMAIN get.dicts[get.of[RestKey(w, v)]]
OfOK == /\ \A key \in DOMAIN get.of : get.of[key] \in AllPaths /\ LastOf(get.of[key]) = LastOf(key[2])
        /\ \A w \in AllPaths \ get.left, v \in AllPaths :
             IsStrictPrefix(w, v) /\ ~(w = get.path /\ v \in get.rest) => Listable(w, v)
(* flat has the ids of the paths that are joined.                          *)
LeadsTo(key) == \E w \in AllPaths \ get.left : KeyOf(w) = key
FlatOK == /\ \A key : key \in DOMAIN get.flat <=> LeadsTo(key)
          /\ \A key \in DOMAIN get.flat : \A id :
               id \in get.flat[key] <=> \E w \in AllPaths \ get.left : KeyOf(w) = key /\ id \in Image(get.dicts[w])

(* What the answer has of an object, and which objects it has.             *)
WantedOf(m, id) == UNION {k.ann : k \in {k \in DOMAIN get.flat : k.model = m /\ id \in get.flat[k]}}
IdsOf(m) == UNION {get.flat[k] : k \in {k \in DOMAIN get.flat : k.model = m}}
Shows(m, id) == \E o \in get.out : o.model = m /\ o.id = id
RightObject(o) == /\ o.model \in get.models
            /\ o.ann = WantedOf(o.model, o.id)
            /\ \A rel \in WithsOf(o.model) : o.shown[rel] = Listed(o.model, rel, o.id)
OutOK == /\ \A o \in get.out : RightObject(o)
         /\ \A o, p \in get.out : o.model = p.model /\ o.id = p.id => o = p
         /\ get.models \subseteq DOMAIN others
Finished == get.models \ (IF get.phase = "merge" THEN {get.model} ELSE {})
CoverOK == /\ \A m \in Finished : \A id \in IdsOf(m) \cap others[m] : Shows(m, id)
           /\ get.phase = "done" => ModelsLeft = {}
           /\ get.phase \in {"merge", "done"} => get.left = {}

(* The groups that are merged are those of the model that is fetched.      *)
AskedOK == /\ get.model \in get.models
           /\ \A i \in DOMAIN asked : LET key == [model |-> get.model, ann |-> asked[i].ann]
                                      IN key \in DOMAIN get.flat /\ asked[i].ids = get.flat[key]
           /\ \A key \in DOMAIN get.flat : key.model = get.model => \E i \in DOMAIN asked : asked[i].ann = key.ann
FetchOK == /\ get.fetched \subseteq DOMAIN pool
           /\ get.fetched # {} => Merged
           /\ \A o \in get.out : o.model = get.model => \E key \in get.fetched : o.id \in pool[key]
           /\ \A key \in get.fetched : \A id \in pool[key] \cap others[get.model] : Shows(get.model, id)

JoinedOK == DictsOK /\ LeftOK /\ OfOK /\ FlatOK /\ OutOK /\ CoverOK
WithInv == /\ WithsOK
           /\ get.phase \in {"none", "stat", "ids", "join", "merge", "done"}
           /\ get.phase \in {"ids", "join", "merge", "done"} => FoundOK
           /\ get.phase \in {"join", "merge", "done"} => JoinedOK
           /\ get.phase = "merge" => MergeInv /\ AskedOK /\ FetchOK

-----------------------------------------------------------------------------

(* A path is a sequence of relations, and its prefixes are paths.          *)
LEMMA PathsAre ==
  ASSUME WithsOK, NEW w \in AllPaths
  PROVE  /\ w \in Seq(DOMAIN Target) /\ Len(w) \in Nat /\ Len(w) >= 1
         /\ \A n \in 1..Len(w) : SubSeq(w, 1, n) \in AllPaths
<1>0. PICK x \in ToSet(ask.withs) : \E n \in 1..Len(x) : w = SubSeq(x, 1, n)
  BY DEF AllPaths, Paths
<1>1. PICK n \in 1..Len(x) : w = SubSeq(x, 1, n)
  BY <1>0
<1>2. x \in Seq(DOMAIN Target)
  BY DEF WithsOK, ToSet
<1>3. w \in Seq(DOMAIN Target) /\ Len(w) = n /\ n \in Nat /\ n >= 1 /\ n <= Len(x) /\ Len(x) \in Nat
  BY <1>1, <1>2, SubSeqProperties
<1>4. ASSUME NEW k \in 1..Len(w)
      PROVE  SubSeq(w, 1, k) \in AllPaths
  <2>1. SubSeq(w, 1, k) = SubSeq(x, 1, k)
    BY <1>1, <1>2, <1>3
  <2>2. k \in 1..Len(x)
    BY <1>3
  <2> QED BY <1>1, <2>1, <2>2 DEF AllPaths, Paths
<1> QED BY <1>3, <1>4

LEMMA RestLast ==
  ASSUME WithsOK, NEW w \in AllPaths, NEW v \in AllPaths, IsStrictPrefix(w, v)
  PROVE  Len(w) < Len(v) /\ LastOf(Rest(w, v)) = LastOf(v)
<1>1. /\ w \in Seq(DOMAIN Target) /\ Len(w) \in Nat /\ Len(w) >= 1
      /\ v \in Seq(DOMAIN Target) /\ Len(v) \in Nat /\ Len(v) >= 1
  BY PathsAre
<1>2. Len(w) <= Len(v) /\ SubSeq(w, 1, Len(w)) = SubSeq(v, 1, Len(w)) /\ w # v
  BY DEF IsStrictPrefix, IsPrefix
<1>3. Len(w) # Len(v)
  <2>1. SubSeq(w, 1, Len(w)) = w /\ SubSeq(v, 1, Len(v)) = v
    BY <1>1
  <2> QED BY <1>2, <2>1
<1>4. /\ Len(Rest(w, v)) = Len(v) - Len(w)
      /\ Rest(w, v)[Len(v) - Len(w)] = v[Len(v)]
  BY <1>1, <1>2, <1>3 DEF Rest
<1> QED BY <1>1, <1>2, <1>3, <1>4 DEF LastOf

LEMMA AppendedPath ==
  ASSUME WithsOK, NEW w \in AllPaths, NEW rel, Append(w, rel) \in AllPaths
  PROVE  /\ Front(Append(w, rel)) = w /\ Len(Append(w, rel)) > 1
         /\ IsStrictPrefix(w, Append(w, rel)) /\ Rest(w, Append(w, rel)) = <<rel>>
<1>1. w \in Seq(DOMAIN Target) /\ Len(w) \in Nat /\ Len(w) >= 1
  BY PathsAre
<1>2. PICK S : S = DOMAIN Target \cup {rel}
  OBVIOUS
<1>3. w \in Seq(S) /\ rel \in S
  BY <1>1, <1>2
<1>4. /\ Append(w, rel) \in Seq(S) /\ Len(Append(w, rel)) = Len(w) + 1
      /\ Append(w, rel)[Len(w) + 1] = rel
      /\ \A i \in 1..Len(w) : Append(w, rel)[i] = w[i]
  BY <1>3, AppendProperties
<1>5. SubSeq(Append(w, rel), 1, Len(w)) = w /\ SubSeq(w, 1, Len(w)) = w
  BY <1>1, <1>3, <1>4
<1>6. SubSeq(Append(w, rel), Len(w) + 1, Len(w) + 1) = <<rel>>
  <2>1. PICK v : v = Append(w, rel)
    OBVIOUS
  <2>2. PICK n : n = Len(w) + 1
    OBVIOUS
  <2>3. v \in Seq(S) /\ n \in 1..Len(v) /\ n \in Int /\ v[n] = rel
    BY <1>1, <1>4, <2>1, <2>2
  <2>4. SubSeq(v, n, n) = <<v[n]>>
    <3>1. PICK u : u = SubSeq(v, n, n)
      OBVIOUS
    <3>2. u = [i \in 1..1 |-> v[n + i - 1]]
      BY <2>3, <3>1
    <3>3. n + 1 - 1 = n
      BY <2>3
    <3>4. u = [i \in 1..1 |-> v[n]] /\ <<v[n]>> = [i \in 1..1 |-> v[n]]
      BY <2>3, <3>2, <3>3
    <3> QED BY <3>1, <3>4
  <2> QED BY <2>1, <2>2, <2>3, <2>4
<1>7. w # Append(w, rel)
  BY <1>1, <1>4
<1>8. PICK v : v = Append(w, rel) /\ Len(v) = Len(w) + 1
  BY <1>4
<1>9. Len(v) - 1 = Len(w) /\ Len(v) > 1 /\ Len(w) <= Len(v)
  BY <1>1, <1>8
<1>10. SubSeq(v, 1, Len(w)) = w /\ SubSeq(w, 1, Len(w)) = w /\ SubSeq(v, Len(w) + 1, Len(v)) = <<rel>> /\ w # v
  BY <1>5, <1>6, <1>7, <1>8
<1>11. Front(v) = w /\ IsStrictPrefix(w, v) /\ Rest(w, v) = <<rel>>
  BY <1>9, <1>10 DEF Front, IsStrictPrefix, IsPrefix, Rest
<1> QED BY <1>8, <1>9, <1>11

-----------------------------------------------------------------------------

(* What is asked stays; links change when something is changed.            *)
Calm == UNCHANGED ask /\ (Quiet' => Quiet /\ UNCHANGED link)

LEMMA CalmKeeps ==
  ASSUME Calm
  PROVE  /\ AllPaths' = AllPaths
         /\ WithsOK' <=> WithsOK
         /\ \A w : KeyOf(w)' = KeyOf(w)
         /\ \A w, v : RestKey(w, v)' = RestKey(w, v)
         /\ Quiet' => \A rel, id : Own(rel, id)' = Own(rel, id)
BY DEF Calm, AllPaths, WithsOK, KeyOf, RestKey, Annotations, Own

LEMMA FoundSame ==
  ASSUME Calm, FoundOK, get'.found = get.found, get'.data = get.data,
         {"phase", "data", "found", "out"} \subseteq DOMAIN get'
  PROVE  FoundOK'
<1>1. ASSUME NEW w \in DOMAIN get.found
      PROVE  FoundFor(w)'
  <2>1. FoundFor(w)
    BY DEF FoundOK
  <2>2. AllPaths' = AllPaths
    BY CalmKeeps
  <2>3. Quiet' => Quiet
    BY DEF Calm
  <2>4. Quiet' => \A rel, id : Own(rel, id)' = Own(rel, id)
    BY CalmKeeps
  <2> QED BY <2>1, <2>2, <2>3, <2>4 DEF FoundFor
<1> QED BY <1>1 DEF FoundOK

(* One lemma for each step of the GET.                                     *)
LEMMA QueryFound == ASSUME WithInv, Query PROVE WithInv'
<1>1. /\ Calm /\ get'.phase = "ids" /\ get'.found = [w \in {} |-> {}]
      /\ {"phase", "data", "found", "out"} \subseteq DOMAIN get'
  BY DEF Query, dbvars, Calm, Quiet
<1>2. WithsOK'
  BY <1>1, CalmKeeps DEF WithInv
<1>3. FoundOK'
  BY <1>1 DEF FoundOK
<1> QED BY <1>1, <1>2, <1>3 DEF WithInv

LEMMA FindIdsFound == ASSUME WithInv, NEW p, FindIds(p) PROVE WithInv'
<1> DEFINE parents == IF Len(p) = 1 THEN get.data ELSE Image(get.found[Front(p)])
           Related(pk) == {id \in Where(p) : <<p[Len(p)], pk, id>> \in link}
           new == [pk \in parents |-> Related(pk)]
           found == get.found
<1>1. /\ UNCHANGED <<ask, link, changed>> /\ get.phase = "ids" /\ p \in AllPaths \ DOMAIN found
      /\ Len(p) > 1 => Front(p) \in DOMAIN found
      /\ get' = [get EXCEPT !.found = Put(@, p, new)]
  BY DEF FindIds, dbvars, AllPaths
<1>2. WithsOK /\ FoundOK /\ Calm
  BY <1>1 DEF WithInv, Calm, Quiet
<1> HIDE DEF new
<1>3. /\ get'.found = Put(found, p, new) /\ get'.data = get.data /\ get'.phase = "ids"
      /\ {"phase", "data", "found", "out"} \subseteq DOMAIN get'
  BY <1>1, <1>2 DEF FoundOK
<1>4. /\ DOMAIN get'.found = DOMAIN found \cup {p} /\ get'.found[p] = new
      /\ \A w \in DOMAIN found : get'.found[w] = found[w]
  BY <1>1, <1>3 DEF Put
<1>5. AllPaths' = AllPaths /\ WithsOK' /\ (Quiet' => Quiet) /\ \A rel, id : Own(rel, id)' = Own(rel, id)
  BY <1>1, <1>2, CalmKeeps DEF Calm, Own
<1>6. ASSUME NEW w \in DOMAIN found
      PROVE  FoundFor(w)'
  <2>1. FoundFor(w)
    BY <1>2 DEF FoundOK
  <2>2. get'.found[w] = found[w] /\ w \in DOMAIN get'.found
    BY <1>4
  <2>3. Len(w) # 1 => Front(w) \in DOMAIN get'.found /\ get'.found[Front(w)] = found[Front(w)]
    BY <1>4, <2>1 DEF FoundFor
  <2> QED BY <1>3, <1>5, <2>1, <2>2, <2>3 DEF FoundFor
<1>7. FoundFor(p)'
  <2>1. p \in AllPaths /\ Len(p) \in Nat /\ Len(p) >= 1
    BY <1>1, <1>2, PathsAre
  <2>2. Where(p) \subseteq Id /\ (Quiet => Where(p) = Id)
    BY <1>2 DEF Where, WithsOK, Quiet
  <2>3. DOMAIN new = parents /\ \A pk \in parents : new[pk] = Related(pk)
    BY DEF new
  <2>4. \A pk \in parents : new[pk] \subseteq Id /\ (Quiet => new[pk] = Own(LastOf(p), pk))
    BY <2>2, <2>3 DEF Own, LastOf
  <2>5. ASSUME Len(p) # 1
        PROVE  Front(p) \in DOMAIN get'.found /\ get'.found[Front(p)] = found[Front(p)]
    <3>1. Len(p) > 1
      BY <2>1, <2>5
    <3>2. Front(p) \in DOMAIN found
      BY <1>1, <3>1
    <3> HIDE DEF found
    <3> QED BY <1>4, <3>2
  <2> QED BY <1>3, <1>4, <1>5, <2>1, <2>3, <2>4, <2>5 DEF FoundFor
<1>8. FoundOK'
  BY <1>3, <1>4, <1>6, <1>7 DEF FoundOK
<1> QED BY <1>3, <1>5, <1>8 DEF WithInv

LEMMA StartJoinJoined == ASSUME WithInv, StartJoin PROVE WithInv'
<1>1. /\ UNCHANGED <<ask, link, changed>> /\ get.phase = "ids" /\ DOMAIN get.found = AllPaths
      /\ get' = [phase |-> "join", data |-> get.data, found |-> get.found, out |-> {}, left |-> AllPaths,
                 path |-> << >>, rest |-> {}, dicts |-> get.found, flat |-> [k \in {} |-> {}], of |-> [k \in {} |-> << >>],
                 model |-> None, models |-> {}, fetched |-> {}]
  BY DEF StartJoin, dbvars, AllPaths
<1>2. WithsOK /\ FoundOK /\ Calm
  BY <1>1 DEF WithInv, Calm, Quiet
<1>3. WithsOK' /\ AllPaths' = AllPaths
  BY <1>2, CalmKeeps
<1>4. FoundOK'
  BY <1>1, <1>2, FoundSame
<1>5. DictsOK'
  <2>1. JoinFields \subseteq DOMAIN get'
    BY <1>1 DEF JoinFields
  <2>2. ASSUME NEW w \in AllPaths
        PROVE  FoundFor(w)'
    BY <1>1, <1>4 DEF FoundOK
  <2>3. get'.dicts = get.found /\ get'.found = get.found
    BY <1>1
  <2> QED BY <1>1, <1>3, <2>1, <2>2, <2>3 DEF DictsOK, FoundFor
<1>6. /\ get'.left = AllPaths /\ get'.rest = {} /\ get'.models = {} /\ get'.out = {}
      /\ DOMAIN get'.of = {} /\ DOMAIN get'.flat = {} /\ get'.phase = "join"
  BY <1>1
<1>7. LeftOK'
  BY <1>3, <1>6 DEF LeftOK
<1>8. OfOK'
  BY <1>3, <1>6 DEF OfOK
<1>9. FlatOK'
  BY <1>3, <1>6 DEF FlatOK, LeadsTo
<1>10. OutOK' /\ CoverOK'
  BY <1>6 DEF OutOK, CoverOK, Finished
<1> QED BY <1>3, <1>4, <1>5, <1>6, <1>7, <1>8, <1>9, <1>10 DEF WithInv, JoinedOK

(* As long as paths are joined, nothing is fetched.                        *)
LEMMA NothingYet ==
  ASSUME JoinedOK, get.phase \in {"join", "merge", "done"}, get.left # {}
  PROVE  get.models = {} /\ get.out = {}
BY DEF JoinedOK, LeftOK, OutOK, RightObject

LEMMA JoinPathJoined == ASSUME WithInv, NEW w, JoinPath(w) PROVE WithInv'
<1> DEFINE key == KeyOf(w)
           ids == Image(get.dicts[w])
           earlier == IF key \in DOMAIN get.flat THEN get.flat[key] ELSE {}
<1>1. /\ UNCHANGED <<ask, others, link, changed>> /\ get.phase = "join" /\ get.rest = {} /\ w \in Soonest(get.left)
      /\ get' = [get EXCEPT !.flat = Put(@, key, earlier \cup ids), !.left = @ \ {w},
                            !.path = w, !.rest = {v \in AllPaths : IsStrictPrefix(w, v)}]
  BY DEF JoinPath, dbvars, AllPaths, KeyOf
<1>2. /\ WithsOK /\ FoundOK /\ Calm /\ JoinedOK /\ JoinFields \subseteq DOMAIN get
      /\ DictsOK /\ LeftOK /\ OfOK /\ FlatOK /\ OutOK /\ CoverOK
  BY <1>1 DEF WithInv, Calm, Quiet, JoinedOK, DictsOK
<1>3. /\ get'.flat = Put(get.flat, key, earlier \cup ids) /\ get'.left = get.left \ {w} /\ get'.path = w
      /\ get'.rest = {v \in AllPaths : IsStrictPrefix(w, v)}
      /\ get'.data = get.data /\ get'.found = get.found /\ get'.dicts = get.dicts /\ get'.of = get.of
      /\ get'.models = get.models /\ get'.out = get.out /\ get'.phase = "join" /\ JoinFields \subseteq DOMAIN get'
  BY <1>1, <1>2 DEF JoinFields
<1>4. w \in get.left /\ w \in AllPaths /\ \A v \in get.left : ~IsStrictPrefix(v, w)
  BY <1>1, <1>2 DEF Soonest, Earlier, LeftOK
<1>5. get.models = {} /\ get.out = {}
  BY <1>1, <1>2, <1>4, NothingYet
<1>6. /\ AllPaths' = AllPaths
      /\ WithsOK'
      /\ \A v : KeyOf(v)' = KeyOf(v)
      /\ \A u, v : RestKey(u, v)' = RestKey(u, v)
  BY <1>2, CalmKeeps
<1>7. FoundOK'
  <2>1. {"phase", "data", "found", "out"} \subseteq DOMAIN get'
    BY <1>3 DEF JoinFields
  <2> QED BY <1>2, <1>3, <2>1, FoundSame
<1>8. DictsOK'
  <2>1. \A rel, id : Own(rel, id)' = Own(rel, id)
    BY <1>1 DEF Own
  <2>2. Quiet' => Quiet
    BY <1>2 DEF Calm
  <2> QED BY <1>2, <1>3, <1>6, <2>1, <2>2 DEF DictsOK
<1>9. LeftOK'
  <2>1. \A v \in get'.rest : v \in get'.left
    <3>1. ASSUME NEW v \in AllPaths, IsStrictPrefix(w, v)
          PROVE  v \in get.left /\ v # w
      <4>1. v # w
        BY <3>1 DEF IsStrictPrefix
      <4> QED BY <1>2, <1>4, <3>1, <4>1 DEF LeftOK
    <3> QED BY <1>3, <3>1
  <2>2. \A u, v \in AllPaths : IsStrictPrefix(u, v) /\ u \in get'.left => v \in get'.left
    BY <1>2, <1>3, <1>4 DEF LeftOK
  <2> QED BY <1>2, <1>3, <1>4, <1>5, <1>6, <2>1, <2>2 DEF LeftOK
<1>10. OfOK'
  <2>1. ASSUME NEW u \in AllPaths \ get'.left, NEW v \in AllPaths, IsStrictPrefix(u, v),
               ~(u = get'.path /\ v \in get'.rest)
        PROVE  Listable(u, v)'
    <3>1. u # w
      BY <1>3, <2>1
    <3>2. u \in AllPaths \ get.left
      BY <1>3, <3>1
    <3>3. Listable(u, v)
      BY <1>1, <1>2, <2>1, <3>2 DEF OfOK
    <3> QED BY <1>3, <1>6, <3>3 DEF Listable
  <2> QED BY <1>2, <1>3, <1>6, <2>1 DEF OfOK
<1>11. FlatOK'
  <2>1. /\ DOMAIN get'.flat = DOMAIN get.flat \cup {key} /\ get'.flat[key] = earlier \cup ids
        /\ \A k \in DOMAIN get.flat : k # key => get'.flat[k] = get.flat[k]
    BY <1>3 DEF Put
  <2>2. AllPaths \ get'.left = (AllPaths \ get.left) \cup {w}
    BY <1>3, <1>4
  <2>3. \A k : LeadsTo(k)' <=> LeadsTo(k) \/ k = key
    BY <1>6, <2>2 DEF LeadsTo
  <2>4. \A k : k \in DOMAIN get'.flat <=> LeadsTo(k)'
    BY <1>2, <2>1, <2>3 DEF FlatOK
  <2> DEFINE Leads(k, id) == \E v \in AllPaths \ get.left : KeyOf(v) = k /\ id \in Image(get.dicts[v])
  <2>5. ASSUME NEW k \in DOMAIN get'.flat, NEW id
        PROVE  id \in get'.flat[k] <=> Leads(k, id) \/ (k = key /\ id \in ids)
    <3>1. k \in DOMAIN get.flat => (id \in get.flat[k] <=> Leads(k, id))
      BY <1>2 DEF FlatOK
    <3>2. k \notin DOMAIN get.flat => ~Leads(k, id)
      BY <1>2 DEF FlatOK, LeadsTo
    <3> HIDE DEF Leads, key, ids
    <3> QED BY <2>1, <3>1, <3>2
  <2>6. ASSUME NEW k \in DOMAIN get'.flat, NEW id
        PROVE  id \in get'.flat[k] <=>
                 \E v \in AllPaths \ get'.left : KeyOf(v) = k /\ id \in Image(get.dicts[v])
    BY <2>2, <2>5
  <2> QED BY <1>3, <1>6, <2>4, <2>6 DEF FlatOK
<1>12. OutOK' /\ CoverOK'
  BY <1>1, <1>3, <1>5 DEF OutOK, CoverOK, Finished
<1> QED BY <1>3, <1>6, <1>7, <1>8, <1>9, <1>10, <1>11, <1>12 DEF WithInv, JoinedOK

LEMMA JoinNextJoined == ASSUME WithInv, NEW v, JoinNext(v) PROVE WithInv'
<1> DEFINE path == get.path
           key == RestKey(path, v)
           dict == IF key \in DOMAIN get.of THEN Updated(get.dicts[v], get.dicts[get.of[key]]) ELSE get.dicts[v]
<1>1. /\ UNCHANGED <<ask, others, link, changed>> /\ get.phase = "join" /\ v \in get.rest
      /\ get' = [get EXCEPT !.dicts[v] = dict, !.of = Put(@, key, v), !.rest = @ \ {v}]
  BY DEF JoinNext, JoinRest, dbvars, RestKey, Soonest
<1>2. /\ WithsOK /\ FoundOK /\ Calm /\ JoinedOK /\ JoinFields \subseteq DOMAIN get
      /\ DictsOK /\ LeftOK /\ OfOK /\ FlatOK /\ OutOK /\ CoverOK
  BY <1>1 DEF WithInv, Calm, Quiet, JoinedOK, DictsOK
<1>3. /\ get'.dicts = [get.dicts EXCEPT ![v] = dict] /\ get'.of = Put(get.of, key, v) /\ get'.rest = get.rest \ {v}
      /\ get'.left = get.left /\ get'.path = path /\ get'.flat = get.flat
      /\ get'.data = get.data /\ get'.found = get.found
      /\ get'.models = get.models /\ get'.out = get.out /\ get'.phase = "join" /\ JoinFields \subseteq DOMAIN get'
  <2> HIDE DEF dict, key, path
  <2>1. get'.path = get.path
    BY <1>1, <1>2 DEF JoinFields
  <2> QED BY <1>1, <1>2, <2>1 DEF JoinFields, path
<1>4. v \in get.left /\ v \in AllPaths /\ path \in AllPaths \ get.left /\ IsStrictPrefix(path, v)
  BY <1>1, <1>2 DEF LeftOK
<1>5. get.models = {} /\ get.out = {}
  BY <1>1, <1>2, <1>4, NothingYet
<1>6. /\ AllPaths' = AllPaths
      /\ WithsOK'
      /\ \A u : KeyOf(u)' = KeyOf(u)
      /\ \A u, x : RestKey(u, x)' = RestKey(u, x)
  BY <1>2, CalmKeeps
<1>7. FoundOK'
  <2>1. {"phase", "data", "found", "out"} \subseteq DOMAIN get'
    BY <1>3 DEF JoinFields
  <2> QED BY <1>2, <1>3, <2>1, FoundSame
<1>8. LastOf(key[2]) = LastOf(v)
  BY <1>2, <1>4, RestLast DEF RestKey
<1> HIDE DEF key
<1>9. key \in DOMAIN get.of => get.of[key] \in AllPaths /\ LastOf(get.of[key]) = LastOf(v)
  BY <1>2, <1>8 DEF OfOK
<1>10. /\ DOMAIN get.dicts[v] \subseteq DOMAIN dict
       /\ key \in DOMAIN get.of => DOMAIN get.dicts[get.of[key]] \subseteq DOMAIN dict
       /\ \A pk \in DOMAIN dict : /\ dict[pk] \subseteq Id
                                  /\ Quiet => dict[pk] = Own(LastOf(v), pk)
  <2>1. ASSUME NEW u \in AllPaths, NEW pk \in DOMAIN get.dicts[u]
        PROVE  get.dicts[u][pk] \subseteq Id /\ (Quiet => get.dicts[u][pk] = Own(LastOf(u), pk))
    BY <1>2 DEF DictsOK
  <2>2. CASE key \in DOMAIN get.of
    <3>1. PICK u \in AllPaths : u = get.of[key] /\ LastOf(u) = LastOf(v)
      BY <1>9, <2>2
    <3>2. /\ DOMAIN dict = DOMAIN get.dicts[v] \cup DOMAIN get.dicts[u]
          /\ \A pk \in DOMAIN dict : dict[pk] = IF pk \in DOMAIN get.dicts[u] THEN get.dicts[u][pk] ELSE get.dicts[v][pk]
      BY <2>2, <3>1 DEF Updated
    <3> HIDE DEF dict
    <3> QED BY <1>4, <2>1, <3>1, <3>2
  <2>3. CASE key \notin DOMAIN get.of
    <3>1. dict = get.dicts[v]
      BY <2>3
    <3> HIDE DEF dict
    <3> QED BY <1>4, <2>1, <2>3, <3>1
  <2> QED BY <2>2, <2>3
<1> HIDE DEF dict, path
<1>11. /\ DOMAIN get'.dicts = AllPaths /\ get'.dicts[v] = dict
       /\ \A u \in AllPaths : u # v => get'.dicts[u] = get.dicts[u]
       /\ \A u \in AllPaths : DOMAIN get.dicts[u] \subseteq DOMAIN get'.dicts[u]
  BY <1>2, <1>3, <1>4, <1>10 DEF DictsOK
<1>12. DictsOK'
  <2>1. \A rel, id : Own(rel, id)' = Own(rel, id)
    BY <1>1 DEF Own
  <2>2. Quiet' => Quiet
    BY <1>2 DEF Calm
  <2>3. ASSUME NEW u \in AllPaths
        PROVE  /\ DOMAIN get.found[u] \subseteq DOMAIN get'.dicts[u]
               /\ \A pk \in DOMAIN get'.dicts[u] : /\ get'.dicts[u][pk] \subseteq Id
                                                   /\ Quiet' => get'.dicts[u][pk] = Own(LastOf(u), pk)
    <3>1. CASE u = v
      BY <1>2, <1>4, <1>10, <1>11, <2>2, <3>1 DEF DictsOK
    <3>2. CASE u # v
      BY <1>2, <1>11, <2>2, <3>2 DEF DictsOK
    <3> QED BY <3>1, <3>2
  <2>4. DOMAIN get'.found = AllPaths /\ DOMAIN get'.dicts = AllPaths /\ get'.found = get.found
    BY <1>2, <1>3, <1>11 DEF DictsOK
  <2> QED BY <1>3, <1>6, <2>1, <2>3, <2>4 DEF DictsOK
<1>13. LeftOK'
  BY <1>2, <1>3, <1>6 DEF LeftOK, path
<1>14. /\ DOMAIN get'.of = DOMAIN get.of \cup {key} /\ get'.of[key] = v
       /\ \A k \in DOMAIN get.of : k # key => get'.of[k] = get.of[k]
  BY <1>3 DEF Put
<1>15. ASSUME NEW u \in AllPaths \ get.left, NEW x \in AllPaths, IsStrictPrefix(u, x),
              ~(u = path /\ x \in get'.rest)
       PROVE  Listable(u, x)'
  <2> DEFINE k == RestKey(u, x)
  <2>1. CASE u = path /\ x = v
    <3>1. k = key
      BY <2>1 DEF key
    <3>2. DOMAIN get.found[v] \subseteq DOMAIN get'.dicts[v]
      BY <1>2, <1>4, <1>11 DEF DictsOK
    <3> QED BY <1>3, <1>6, <1>14, <2>1, <3>1, <3>2 DEF Listable
  <2>2. CASE ~(u = path /\ x = v)
    <3>1. ~(u = path /\ x \in get.rest)
      BY <1>3, <1>15, <2>2
    <3>2. Listable(u, x)
      BY <1>2, <1>15, <3>1 DEF OfOK, path
    <3>3. k \in DOMAIN get.of /\ DOMAIN get.found[x] \subseteq DOMAIN get.dicts[get.of[k]] /\ get.of[k] \in AllPaths
      BY <1>2, <3>2 DEF Listable, OfOK
    <3> HIDE DEF k
    <3>4. k \in DOMAIN get'.of /\ DOMAIN get.dicts[get.of[k]] \subseteq DOMAIN get'.dicts[get'.of[k]]
      <4>1. CASE k = key
        BY <1>10, <1>11, <1>14, <3>3, <4>1
      <4>2. CASE k # key
        BY <1>11, <1>14, <3>3, <4>2
      <4> QED BY <4>1, <4>2
    <3>5. DOMAIN get'.found[x] \subseteq DOMAIN get'.dicts[get'.of[k]]
      BY <1>3, <3>3, <3>4
    <3> QED BY <1>6, <3>4, <3>5 DEF Listable, k
  <2> QED BY <2>1, <2>2
<1>16. OfOK'
  <2>1. ASSUME NEW k \in DOMAIN get'.of
        PROVE  get'.of[k] \in AllPaths /\ LastOf(get'.of[k]) = LastOf(k[2])
    BY <1>2, <1>4, <1>8, <1>14 DEF OfOK
  <2> QED BY <1>3, <1>6, <1>15, <2>1 DEF OfOK
<1>17. FlatOK'
  <2>1. \A u \in AllPaths \ get.left : get'.dicts[u] = get.dicts[u]
    BY <1>4, <1>11
  <2>2. \A k : LeadsTo(k)' <=> LeadsTo(k)
    BY <1>3, <1>6 DEF LeadsTo
  <2>3. \A k : k \in DOMAIN get'.flat <=> LeadsTo(k)'
    BY <1>2, <1>3, <2>2 DEF FlatOK
  <2>4. ASSUME NEW k \in DOMAIN get'.flat, NEW id
        PROVE  id \in get'.flat[k] <=>
                 \E u \in AllPaths \ get.left : KeyOf(u) = k /\ id \in Image(get'.dicts[u])
    BY <1>2, <1>3, <2>1 DEF FlatOK
  <2> QED BY <1>3, <1>6, <2>3, <2>4 DEF FlatOK
<1>18. OutOK' /\ CoverOK'
  BY <1>1, <1>3, <1>5 DEF OutOK, CoverOK, Finished
<1> QED BY <1>3, <1>6, <1>7, <1>12, <1>13, <1>16, <1>17, <1>18 DEF WithInv, JoinedOK

-----------------------------------------------------------------------------

(* Nothing changes of what the paths were joined to.                       *)
SameJoin == /\ JoinFields \subseteq DOMAIN get'
            /\ get'.left = get.left /\ get'.path = get.path /\ get'.rest = get.rest
            /\ get'.dicts = get.dicts /\ get'.flat = get.flat /\ get'.of = get.of
            /\ get'.data = get.data /\ get'.found = get.found

LEMMA SameJoinKeeps ==
  ASSUME WithsOK, FoundOK, JoinedOK, Calm, SameJoin
  PROVE  /\ WithsOK' /\ FoundOK' /\ DictsOK' /\ OfOK' /\ FlatOK'
         /\ \A m, id : WantedOf(m, id)' = WantedOf(m, id) /\ IdsOf(m)' = IdsOf(m)
         /\ \A m : WithsOf(m)' = WithsOf(m)
         /\ \A m, rel, id : Listed(m, rel, id)' = Listed(m, rel, id)
<1>1. /\ AllPaths' = AllPaths
      /\ WithsOK'
      /\ \A v : KeyOf(v)' = KeyOf(v)
      /\ \A u, v : RestKey(u, v)' = RestKey(u, v)
  BY CalmKeeps
<1>2. FoundOK'
  BY FoundSame DEF SameJoin, JoinFields
<1>3. DictsOK'
  BY <1>1, CalmKeeps DEF JoinedOK, DictsOK, SameJoin, Calm
<1>4. OfOK'
  BY <1>1 DEF JoinedOK, OfOK, SameJoin, Listable
<1>5. FlatOK'
  <2>1. \A k : LeadsTo(k)' <=> LeadsTo(k)
    BY <1>1 DEF LeadsTo, SameJoin
  <2> QED BY <1>1, <2>1 DEF JoinedOK, FlatOK, SameJoin
<1>6. \A m, id : WantedOf(m, id)' = WantedOf(m, id) /\ IdsOf(m)' = IdsOf(m)
  BY DEF WantedOf, IdsOf, SameJoin
<1>7. /\ \A m : WithsOf(m)' = WithsOf(m)
      /\ \A m, rel, id : Listed(m, rel, id)' = Listed(m, rel, id)
  BY DEF WithsOf, Listed, SameJoin
<1> QED BY <1>1, <1>2, <1>3, <1>4, <1>5, <1>6, <1>7

(* Others remove objects at most.                                          *)
Fewer == DOMAIN others' = DOMAIN others /\ \A m \in DOMAIN others : others'[m] \subseteq others[m]

LEMMA SameOut ==
  ASSUME WithsOK, FoundOK, JoinedOK, Calm, SameJoin, Fewer, get'.out = get.out,
         get.models \subseteq get'.models, get'.models \subseteq DOMAIN others
  PROVE  OutOK'
<1>1. ASSUME NEW o \in get.out
      PROVE  RightObject(o)'
  BY SameJoinKeeps DEF JoinedOK, OutOK, RightObject
<1> QED BY <1>1 DEF JoinedOK, OutOK, Fewer

LEMMA UntouchedKeeps ==
  ASSUME WithInv, Calm, Fewer, UNCHANGED <<get, mvars>>
  PROVE  WithInv'
<1>1. WithsOK'
  BY CalmKeeps DEF WithInv
<1>2. get.phase \in {"ids", "join", "merge", "done"} => FoundOK'
  BY FoundSame DEF WithInv, FoundOK
<1>3. ASSUME get.phase \in {"join", "merge", "done"}
      PROVE  JoinedOK'
  <2>1. WithsOK /\ FoundOK /\ JoinedOK /\ SameJoin
    BY <1>3 DEF WithInv, SameJoin, JoinedOK, DictsOK
  <2>2. DictsOK' /\ OfOK' /\ FlatOK' /\ \A m : IdsOf(m)' = IdsOf(m)
    BY <2>1, SameJoinKeeps
  <2>3. OutOK'
    BY <2>1, SameOut DEF JoinedOK, OutOK
  <2>4. LeftOK'
    BY <2>1, CalmKeeps DEF JoinedOK, LeftOK
  <2>5. CoverOK'
    <3>1. Finished' = Finished /\ Finished \subseteq DOMAIN others
      BY <2>1 DEF Finished, JoinedOK, OutOK
    <3>2. \A m, id : Shows(m, id)' <=> Shows(m, id)
      BY DEF Shows
    <3>3. ModelsLeft' = ModelsLeft
      BY DEF ModelsLeft
    <3>4. CoverOK
      BY <2>1 DEF JoinedOK
    <3>5. ASSUME NEW m \in Finished', NEW id \in IdsOf(m)' \cap others'[m]
          PROVE  Shows(m, id)'
      BY <2>2, <3>1, <3>2, <3>4, <3>5 DEF CoverOK, Fewer
    <3> QED BY <3>3, <3>4, <3>5 DEF CoverOK
  <2> QED BY <2>2, <2>3, <2>4, <2>5 DEF JoinedOK
<1>4. ASSUME get.phase = "merge"
      PROVE  MergeInv' /\ AskedOK' /\ FetchOK'
  <2>0. UNCHANGED <<todo, cur, visit, pool, asked>>
    BY DEF mvars
  <2>1. MergeInv /\ AskedOK /\ FetchOK /\ get.models \subseteq DOMAIN others
    BY <1>4 DEF WithInv, JoinedOK, OutOK
  <2>2. MergeInv'
    BY <2>1, MergeSame
  <2>3. AskedOK'
    BY <2>0, <2>1 DEF AskedOK
  <2>4. FetchOK'
    <3>1. get.model \in DOMAIN others
      BY <2>1 DEF AskedOK
    <3>2. others'[get.model] \subseteq others[get.model]
      BY <3>1 DEF Fewer
    <3> QED BY <2>0, <2>1, <3>2 DEF FetchOK, Shows, Merged
  <2> QED BY <2>2, <2>3, <2>4
<1> QED BY <1>1, <1>2, <1>3, <1>4 DEF WithInv

-----------------------------------------------------------------------------

(* The withs of a request are finitely many, and so are their prefixes.    *)
LEMMA PathsFinite == ASSUME WithsOK PROVE IsFiniteSet(AllPaths)
<1> DEFINE Starts(w) == {SubSeq(w, 1, n) : n \in 1..Len(w)}
<1>1. IsFiniteSet(ToSet(ask.withs))
  <2>1. ask.withs \in Seq(Seq(DOMAIN Target)) /\ Len(ask.withs) \in Nat
    BY DEF WithsOK
  <2>2. IsFiniteSet(1..Len(ask.withs))
    <3>1. 1 \in Int /\ Len(ask.withs) \in Int
      BY <2>1
    <3> QED BY <3>1, FS_Interval, Zenon
  <2>3. ToSet(ask.withs) = {ask.withs[i] : i \in 1..Len(ask.withs)}
    BY <2>1 DEF ToSet
  <2>4. PICK f : f = ask.withs
    OBVIOUS
  <2>5. IsFiniteSet({f[i] : i \in 1..Len(ask.withs)})
    BY <2>2, ImageFinite
  <2> QED BY <2>3, <2>4, <2>5
<1>2. ASSUME NEW w \in ToSet(ask.withs)
      PROVE  IsFiniteSet(Starts(w))
  <2>1. Len(w) \in Nat
    BY DEF WithsOK, ToSet
  <2>2. IsFiniteSet(1..Len(w))
    <3>1. 1 \in Int /\ Len(w) \in Int
      BY <2>1
    <3> QED BY <3>1, FS_Interval, Zenon
  <2>3. PICK f : f = [n \in 1..Len(w) |-> SubSeq(w, 1, n)]
    OBVIOUS
  <2>4. Starts(w) = {f[n] : n \in 1..Len(w)}
    BY <2>3
  <2> HIDE DEF Starts
  <2> QED BY <2>2, <2>4, ImageFinite
<1> QED
  <2>1. IsFiniteSet({Starts(w) : w \in ToSet(ask.withs)})
    <3>1. PICK f : f = [w \in ToSet(ask.withs) |-> Starts(w)]
      OBVIOUS
    <3>2. {Starts(w) : w \in ToSet(ask.withs)} = {f[w] : w \in ToSet(ask.withs)}
      BY <3>1
    <3> HIDE DEF Starts
    <3> QED BY <1>1, <3>2, ImageFinite
  <2>2. \A T \in {Starts(w) : w \in ToSet(ask.withs)} : IsFiniteSet(T)
    BY <1>2
  <2>3. AllPaths = UNION {Starts(w) : w \in ToSet(ask.withs)}
    BY DEF AllPaths, Paths
  <2> HIDE DEF Starts
  <2> QED BY <2>1, <2>2, <2>3, FS_UNION

(* The keys of flat are groups of annotations of ids.                      *)
LEMMA FlatGroups ==
  ASSUME WithsOK, DictsOK, FlatOK
  PROVE  /\ IsFiniteSet(DOMAIN get.flat)
         /\ \A key \in DOMAIN get.flat : /\ key = [model |-> key.model, ann |-> key.ann]
                                         /\ key.ann \in SUBSET Annotation
                                         /\ get.flat[key] \in SUBSET Id
<1>1. IsFiniteSet({KeyOf(w) : w \in AllPaths})
  <2>1. PICK f : f = [w \in AllPaths |-> KeyOf(w)]
    OBVIOUS
  <2>2. {KeyOf(w) : w \in AllPaths} = {f[w] : w \in AllPaths}
    BY <2>1
  <2> QED BY <2>2, PathsFinite, ImageFinite
<1>2. DOMAIN get.flat \subseteq {KeyOf(w) : w \in AllPaths}
  BY DEF FlatOK, LeadsTo
<1>3. ASSUME NEW w \in AllPaths
      PROVE  Annotations(w) \in SUBSET Annotation
  <2>1. ModelOf(w) \in {Target[rel] : rel \in DOMAIN Target}
    BY PathsAre, ElementOfSeq DEF ModelOf
  <2>2. Defaults[ModelOf(w)] \subseteq Annotation
    BY <2>1, QueriesAssumption
  <2> QED BY <2>2 DEF Annotations, Included
<1>4. ASSUME NEW key \in DOMAIN get.flat
      PROVE  /\ key = [model |-> key.model, ann |-> key.ann]
             /\ key.ann \in SUBSET Annotation
  <2>1. PICK w \in AllPaths : key = KeyOf(w)
    BY <1>2
  <2> QED BY <1>3, <2>1 DEF KeyOf
<1>5. ASSUME NEW key \in DOMAIN get.flat, NEW id \in get.flat[key]
      PROVE  id \in Id
  <2>1. PICK w \in AllPaths : id \in Image(get.dicts[w])
    BY <1>5 DEF FlatOK
  <2> QED BY <2>1 DEF DictsOK, Image
<1> QED BY <1>1, <1>2, <1>4, <1>5, FS_Subset

-----------------------------------------------------------------------------

LEMMA NextModelJoined == ASSUME WithInv, NEW m \in DOMAIN others, NextModel(m) PROVE WithInv'
<1> DEFINE S == {k \in DOMAIN get.flat : k.model = m}
           groupOf(key) == [ann |-> key.ann, ids |-> get.flat[key]]
<1>1. /\ UNCHANGED <<ask, others, link, changed>> /\ get.phase = "join" /\ get.left = {} /\ get.rest = {}
      /\ m \in ModelsLeft
      /\ get' = [get EXCEPT !.phase = "merge", !.model = m, !.models = @ \cup {m}, !.fetched = {}]
  BY DEF NextModel, AllJoined, dbvars
<1>2. PICK keys \in SetToSeqs(S) : Start([i \in DOMAIN keys |-> groupOf(keys[i])])
  BY DEF NextModel
<1>3. WithsOK /\ FoundOK /\ Calm /\ JoinedOK /\ JoinFields \subseteq DOMAIN get /\ DictsOK /\ FlatOK /\ OutOK /\ CoverOK
  BY <1>1 DEF WithInv, Calm, Quiet, JoinedOK, DictsOK
<1>4. /\ get'.phase = "merge" /\ get'.model = m /\ get'.models = get.models \cup {m} /\ get'.fetched = {}
      /\ get'.out = get.out /\ SameJoin
  BY <1>1, <1>3 DEF SameJoin, JoinFields
<1>5. Fewer
  BY <1>1 DEF Fewer
<1>6. /\ WithsOK' /\ FoundOK' /\ DictsOK' /\ OfOK' /\ FlatOK'
      /\ \A k : IdsOf(k)' = IdsOf(k)
  BY <1>3, <1>4, SameJoinKeeps
<1>7. LeftOK'
  BY <1>1, <1>4 DEF LeftOK, SameJoin
<1>8. OutOK'
  BY <1>3, <1>4, <1>5, SameOut DEF OutOK
<1>9. m \notin get.models
  BY <1>1 DEF ModelsLeft
<1>10. CoverOK'
  <2>1. Finished = get.models /\ Finished' = get.models
    BY <1>1, <1>4, <1>9 DEF Finished
  <2>2. \A k, id : Shows(k, id)' <=> Shows(k, id)
    BY <1>4 DEF Shows
  <2>3. \A k \in Finished' : \A id \in IdsOf(k)' \cap others'[k] : Shows(k, id)'
    BY <1>1, <1>3, <1>6, <2>1, <2>2 DEF CoverOK
  <2> QED BY <1>1, <1>4, <2>3 DEF CoverOK, SameJoin
<1>11. /\ keys \in Seq(S) /\ Len(keys) \in Nat /\ DOMAIN keys = 1..Len(keys)
       /\ \A k \in S : \E i \in DOMAIN keys : keys[i] = k
  <2>1. IsFiniteSet(S)
    BY <1>3, FlatGroups, FS_Subset
  <2> HIDE DEF S
  <2> QED BY <1>2, <2>1, SeqsNameAll
<1>12. ASSUME NEW i \in DOMAIN keys
       PROVE  keys[i] \in S /\ groupOf(keys[i]) \in Group
  <2>1. keys[i] \in S
    <3> HIDE DEF S
    <3> QED BY <1>11, ElementOfSeq
  <2>2. keys[i].ann \in SUBSET Annotation /\ get.flat[keys[i]] \in SUBSET Id
    BY <1>3, <2>1, FlatGroups
  <2> QED BY <2>1, <2>2 DEF Group
<1>13. PICK groups : groups = [i \in DOMAIN keys |-> groupOf(keys[i])]
  OBVIOUS
<1>14. /\ groups \in Seq(Group) /\ DOMAIN groups = DOMAIN keys
       /\ \A i \in DOMAIN keys : groups[i].ann = keys[i].ann /\ groups[i].ids = get.flat[keys[i]]
  <2>1. groups \in [1..Len(keys) -> Group]
    <3> HIDE DEF groupOf
    <3> QED BY <1>11, <1>12, <1>13
  <2>2. groups \in Seq(Group)
    BY <1>11, <2>1
  <2> QED BY <1>13, <2>2
<1>15. MergeInv'
  <2>1. Begun'
    BY <1>2, <1>13, <1>14 DEF Begun, Start
  <2> QED BY <2>1, BegunNext
<1>16. asked' = groups
  BY <1>2, <1>13 DEF Start
<1>17. AskedOK'
  <2>1. get'.flat = get.flat
    BY <1>4 DEF SameJoin
  <2>2. ASSUME NEW i \in DOMAIN groups
        PROVE  [model |-> m, ann |-> groups[i].ann] \in DOMAIN get.flat
               /\ groups[i].ids = get.flat[[model |-> m, ann |-> groups[i].ann]]
    <3>1. keys[i] \in S /\ groups[i].ann = keys[i].ann /\ groups[i].ids = get.flat[keys[i]]
      BY <1>12, <1>14, <2>2
    <3>2. keys[i] \in DOMAIN get.flat /\ keys[i].model = m
      BY <3>1
    <3>3. keys[i] = [model |-> keys[i].model, ann |-> keys[i].ann]
      BY <1>3, <3>2, FlatGroups
    <3>4. keys[i] = [model |-> m, ann |-> groups[i].ann]
      BY <3>1, <3>2, <3>3
    <3> QED BY <3>1, <3>2, <3>4
  <2>3. ASSUME NEW key \in DOMAIN get.flat, key.model = m
        PROVE  \E i \in DOMAIN groups : groups[i].ann = key.ann
    BY <1>11, <1>14, <2>3
  <2> QED BY <1>4, <1>16, <2>1, <2>2, <2>3 DEF AskedOK
<1>18. FetchOK'
  <2>1. \A o \in get.out : o.model # m
    BY <1>3, <1>9 DEF OutOK, RightObject
  <2> QED BY <1>4, <2>1 DEF FetchOK
<1> QED BY <1>4, <1>6, <1>7, <1>8, <1>10, <1>15, <1>17, <1>18 DEF WithInv, JoinedOK

LEMMA MergeStepJoined == ASSUME WithInv, MergeStep PROVE WithInv'
<1>1. UNCHANGED <<ask, others, link, changed, get>> /\ get.phase = "merge" /\ Merge
  BY DEF MergeStep, dbvars
<1>2. /\ WithsOK /\ FoundOK /\ Calm /\ JoinedOK /\ MergeInv /\ AskedOK /\ FetchOK /\ SameJoin /\ Fewer
      /\ DictsOK /\ LeftOK /\ OutOK /\ CoverOK
  BY <1>1 DEF WithInv, Calm, Quiet, JoinedOK, DictsOK, SameJoin, Fewer
<1>3. MergeInv' /\ UNCHANGED asked /\ ~Merged
  BY <1>1, <1>2, MergeKeeps
<1>4. /\ WithsOK' /\ FoundOK' /\ DictsOK' /\ OfOK' /\ FlatOK'
      /\ \A m : IdsOf(m)' = IdsOf(m)
  BY <1>2, SameJoinKeeps
<1>5. OutOK'
  BY <1>1, <1>2, SameOut DEF OutOK
<1>6. LeftOK'
  BY <1>1, <1>2, <1>4, CalmKeeps DEF LeftOK
<1>7. CoverOK'
  BY <1>1, <1>2, <1>4 DEF CoverOK, Finished, Shows, ModelsLeft
<1>8. AskedOK'
  BY <1>1, <1>2, <1>3 DEF AskedOK
<1>9. FetchOK'
  BY <1>1, <1>2, <1>3 DEF FetchOK
<1> QED BY <1>1, <1>3, <1>4, <1>5, <1>6, <1>7, <1>8, <1>9 DEF WithInv, JoinedOK

-----------------------------------------------------------------------------

(* What was asked of an id is what the keys of its model say.              *)
LEMMA WantedIs ==
  ASSUME WithsOK, DictsOK, FlatOK, AskedOK, NEW id
  PROVE  Wanted(id) = WantedOf(get.model, id) /\ (id \in Ids <=> id \in IdsOf(get.model))
<1> DEFINE keyOf(i) == [model |-> get.model, ann |-> asked[i].ann]
<1>1. ASSUME NEW i \in DOMAIN asked
      PROVE  keyOf(i) \in DOMAIN get.flat /\ asked[i].ids = get.flat[keyOf(i)] /\ keyOf(i).ann = asked[i].ann
             /\ keyOf(i).model = get.model
  BY DEF AskedOK
<1>2. ASSUME NEW key \in DOMAIN get.flat, key.model = get.model
      PROVE  \E i \in DOMAIN asked : keyOf(i) = key
  <2>1. key = [model |-> key.model, ann |-> key.ann]
    BY FlatGroups
  <2>2. PICK i \in DOMAIN asked : asked[i].ann = key.ann
    BY <1>2 DEF AskedOK
  <2> QED BY <1>2, <2>1, <2>2
<1> HIDE DEF keyOf
<1>3. ASSUME NEW a
      PROVE  a \in Wanted(id) <=> a \in WantedOf(get.model, id)
  <2>1. a \in Wanted(id) <=> \E i \in DOMAIN asked : id \in asked[i].ids /\ a \in asked[i].ann
    BY DEF Wanted
  <2>2. a \in WantedOf(get.model, id) <=>
          \E k \in DOMAIN get.flat : k.model = get.model /\ id \in get.flat[k] /\ a \in k.ann
    BY DEF WantedOf
  <2> QED BY <1>1, <1>2, <2>1, <2>2
<1>4. id \in Ids <=> id \in IdsOf(get.model)
  <2>1. id \in Ids <=> \E i \in DOMAIN asked : id \in asked[i].ids
    BY DEF Ids
  <2>2. id \in IdsOf(get.model) <=> \E k \in DOMAIN get.flat : k.model = get.model /\ id \in get.flat[k]
    BY DEF IdsOf
  <2> QED BY <1>1, <1>2, <2>1, <2>2
<1>5. Wanted(id) = WantedOf(get.model, id)
  BY <1>3
<1> QED BY <1>4, <1>5

LEMMA FetchJoined == ASSUME WithInv, NEW key \in SUBSET Annotation, Fetch(key) PROVE WithInv'
<1> DEFINE m == get.model
           object(id) == [model |-> m, id |-> id, ann |-> Given(key), shown |-> Shown(m, id)]
           found == pool[key] \cap others[m]
           new == {object(id) : id \in found}
<1>1. /\ UNCHANGED <<ask, others, link, changed>> /\ UNCHANGED mvars /\ get.phase = "merge" /\ Merged
      /\ key \in DOMAIN pool \ get.fetched
      /\ get' = [get EXCEPT !.fetched = @ \cup {key}, !.out = @ \cup new]
  BY DEF Fetch, dbvars
<1>2. /\ WithsOK /\ FoundOK /\ Calm /\ JoinedOK /\ JoinFields \subseteq DOMAIN get /\ MergeInv /\ AskedOK /\ FetchOK
      /\ DictsOK /\ LeftOK /\ FlatOK /\ OutOK /\ CoverOK
  BY <1>1 DEF WithInv, Calm, Quiet, JoinedOK, DictsOK
<1>3. /\ get'.phase = "merge" /\ get'.model = m /\ get'.models = get.models
      /\ get'.fetched = get.fetched \cup {key} /\ get'.out = get.out \cup new /\ SameJoin
  <2> HIDE DEF new
  <2> QED BY <1>1, <1>2 DEF SameJoin, JoinFields
<1>4. UNCHANGED <<todo, cur, visit, pool, asked>>
  BY <1>1 DEF mvars
<1>5. /\ WithsOK' /\ FoundOK' /\ DictsOK' /\ OfOK' /\ FlatOK'
      /\ \A k, id : WantedOf(k, id)' = WantedOf(k, id) /\ IdsOf(k)' = IdsOf(k)
      /\ \A k : WithsOf(k)' = WithsOf(k)
      /\ \A k, rel, id : Listed(k, rel, id)' = Listed(k, rel, id)
  BY <1>2, <1>3, SameJoinKeeps
<1>6. LeftOK'
  BY <1>2, <1>3, <1>5, CalmKeeps DEF LeftOK, SameJoin
<1>7. m \in get.models /\ Given(key) = key
  BY <1>2, GivenAll DEF AskedOK
<1>8. ASSUME NEW id \in pool[key]
      PROVE  key = WantedOf(m, id)
  <2>1. id \in Id
    BY <1>1, <1>2 DEF MergeInv, Shape
  <2>2. {k \in DOMAIN pool : id \in pool[k]} = IF id \in Ids THEN {Wanted(id)} ELSE {}
    BY <1>1, <1>2, <2>1, ThenExact DEF MergedExactly
  <2>3. key \in {k \in DOMAIN pool : id \in pool[k]}
    BY <1>1, <1>8
  <2>4. key = Wanted(id)
    BY <2>2, <2>3
  <2> QED BY <1>2, <2>4, WantedIs
<1>9. ASSUME NEW id \in found
      PROVE  /\ object(id).model = m /\ object(id).id = id /\ object(id).ann = WantedOf(m, id)
             /\ \A rel \in WithsOf(m) : object(id).shown[rel] = Listed(m, rel, id)
  BY <1>7, <1>8 DEF Shown
<1>10. ASSUME NEW o \in get.out, o.model = m
       PROVE  o.id \notin pool[key]
  <2>1. PICK k \in get.fetched : o.id \in pool[k]
    BY <1>2, <1>10 DEF FetchOK
  <2>2. k \in DOMAIN pool /\ k # key
    BY <1>1, <1>2 DEF FetchOK
  <2> QED BY <1>1, <1>2, <2>1, <2>2 DEF MergeInv, Disjoint
<1> HIDE DEF object
<1>11. \A id \in found : object(id) \in get'.out
  BY <1>3
<1>12. OutOK'
  <2>1. ASSUME NEW o \in get'.out
        PROVE  RightObject(o)'
    <3>1. CASE o \in get.out
      BY <1>2, <1>3, <1>5, <3>1 DEF OutOK, RightObject
    <3>2. CASE o \in new
      BY <1>3, <1>5, <1>7, <1>9, <3>2 DEF RightObject
    <3> QED BY <1>3, <2>1, <3>1, <3>2
  <2>2. ASSUME NEW o \in get'.out, NEW p \in get'.out, o.model = p.model, o.id = p.id
        PROVE  o = p
    <3>1. CASE o \in get.out /\ p \in get.out
      BY <1>2, <2>2, <3>1 DEF OutOK
    <3>2. CASE o \in new /\ p \in new
      BY <1>9, <2>2, <3>2
    <3>3. ASSUME NEW q \in get.out, NEW r \in new
          PROVE  ~(q.model = r.model /\ q.id = r.id)
      BY <1>9, <1>10
    <3> HIDE DEF new
    <3> QED BY <1>3, <2>2, <3>1, <3>2, <3>3
  <2> QED BY <1>1, <1>2, <1>3, <2>1, <2>2 DEF OutOK
<1>13. CoverOK'
  <2>1. Finished' = Finished /\ ModelsLeft' = ModelsLeft /\ get'.left = get.left
    BY <1>1, <1>3 DEF Finished, ModelsLeft, SameJoin
  <2>2. \A k, id : Shows(k, id) => Shows(k, id)'
    BY <1>3 DEF Shows
  <2> QED BY <1>1, <1>2, <1>3, <1>5, <2>1, <2>2 DEF CoverOK
<1>14. MergeInv'
  BY <1>1, <1>2, MergeSame
<1>15. AskedOK'
  BY <1>2, <1>3, <1>4 DEF AskedOK, SameJoin
<1>16. FetchOK'
  <2>1. get'.fetched \subseteq DOMAIN pool /\ Merged' /\ pool' = pool
    BY <1>1, <1>2, <1>3, <1>4 DEF FetchOK, Merged
  <2>2. ASSUME NEW o \in get'.out, o.model = m
        PROVE  \E k \in get'.fetched : o.id \in pool[k]
    <3>1. CASE o \in get.out
      BY <1>2, <1>3, <2>2, <3>1 DEF FetchOK
    <3>2. CASE o \in new
      BY <1>3, <1>9, <3>2
    <3> QED BY <1>3, <2>2, <3>1, <3>2
  <2>3. ASSUME NEW k \in get'.fetched, NEW id \in pool[k] \cap others'[m]
        PROVE  Shows(m, id)'
    <3>1. CASE k = key
      BY <1>1, <1>9, <1>11, <3>1 DEF Shows
    <3>2. CASE k # key
      <4>1. Shows(m, id)
        BY <1>1, <1>2, <1>3, <3>2 DEF FetchOK
      <4> QED BY <1>3, <4>1 DEF Shows
    <3> QED BY <3>1, <3>2
  <2> QED BY <1>1, <1>3, <2>1, <2>2, <2>3 DEF FetchOK
<1> QED BY <1>3, <1>5, <1>6, <1>12, <1>13, <1>14, <1>15, <1>16 DEF WithInv, JoinedOK

LEMMA ModelDoneJoined == ASSUME WithInv, ModelDone PROVE WithInv'
<1>1. /\ UNCHANGED <<ask, others, link, changed>> /\ get.phase = "merge" /\ Merged
      /\ get.fetched = DOMAIN pool /\ get' = [get EXCEPT !.phase = "join"]
  BY DEF ModelDone, dbvars
<1>2. /\ WithsOK /\ FoundOK /\ Calm /\ JoinedOK /\ JoinFields \subseteq DOMAIN get /\ MergeInv /\ AskedOK /\ FetchOK
      /\ DictsOK /\ LeftOK /\ FlatOK /\ OutOK /\ CoverOK
  BY <1>1 DEF WithInv, Calm, Quiet, JoinedOK, DictsOK
<1>3. get'.phase = "join" /\ get'.models = get.models /\ get'.out = get.out /\ SameJoin /\ Fewer
  BY <1>1, <1>2 DEF SameJoin, JoinFields, Fewer
<1>4. /\ WithsOK' /\ FoundOK' /\ DictsOK' /\ OfOK' /\ FlatOK'
      /\ \A k : IdsOf(k)' = IdsOf(k)
  BY <1>2, <1>3, SameJoinKeeps
<1>5. LeftOK'
  BY <1>2, <1>3, CalmKeeps DEF LeftOK, SameJoin
<1>6. OutOK'
  BY <1>2, <1>3, SameOut DEF OutOK
<1>7. ASSUME NEW id \in IdsOf(get.model) \cap others[get.model]
      PROVE  Shows(get.model, id)
  <2>1. id \in Id
    BY <1>2, FlatGroups DEF IdsOf
  <2>2. id \in Ids
    BY <1>2, WantedIs
  <2>3. {k \in DOMAIN pool : id \in pool[k]} = {Wanted(id)}
    BY <1>1, <1>2, <2>1, <2>2, ThenExact DEF MergedExactly
  <2>4. PICK k \in DOMAIN pool : id \in pool[k]
    BY <2>3
  <2> QED BY <1>1, <1>2, <2>4 DEF FetchOK
<1>8. CoverOK'
  <2>1. \A k, id : Shows(k, id)' <=> Shows(k, id)
    BY <1>3 DEF Shows
  <2>2. Finished' = Finished \cup {get.model}
    BY <1>1, <1>2, <1>3 DEF Finished, AskedOK
  <2>3. \A k \in Finished' : \A id \in IdsOf(k)' \cap others'[k] : Shows(k, id)'
    BY <1>1, <1>2, <1>4, <1>7, <2>1, <2>2 DEF CoverOK
  <2> QED BY <1>3, <2>3 DEF CoverOK
<1> QED BY <1>3, <1>4, <1>5, <1>6, <1>8 DEF WithInv, JoinedOK

LEMMA AnswerJoined == ASSUME WithInv, Answer PROVE WithInv'
<1>1. /\ UNCHANGED <<ask, others, link, changed>> /\ get.phase = "join" /\ get.left = {} /\ ModelsLeft = {}
      /\ get' = [get EXCEPT !.phase = "done"]
  BY DEF Answer, AllJoined, dbvars
<1>2. /\ WithsOK /\ FoundOK /\ Calm /\ JoinedOK /\ JoinFields \subseteq DOMAIN get
      /\ DictsOK /\ LeftOK /\ FlatOK /\ OutOK /\ CoverOK
  BY <1>1 DEF WithInv, Calm, Quiet, JoinedOK, DictsOK
<1>3. get'.phase = "done" /\ get'.models = get.models /\ get'.out = get.out /\ SameJoin /\ Fewer
  BY <1>1, <1>2 DEF SameJoin, JoinFields, Fewer
<1>4. /\ WithsOK' /\ FoundOK' /\ DictsOK' /\ OfOK' /\ FlatOK'
      /\ \A k : IdsOf(k)' = IdsOf(k)
  BY <1>2, <1>3, SameJoinKeeps
<1>5. LeftOK'
  BY <1>2, <1>3, CalmKeeps DEF LeftOK, SameJoin
<1>6. OutOK'
  BY <1>2, <1>3, SameOut DEF OutOK
<1>7. CoverOK'
  <2>1. \A k, id : Shows(k, id)' <=> Shows(k, id)
    BY <1>3 DEF Shows
  <2>2. Finished' = get.models /\ Finished = get.models /\ ModelsLeft' = ModelsLeft
    BY <1>1, <1>3 DEF Finished, ModelsLeft, SameJoin
  <2> QED BY <1>1, <1>2, <1>3, <1>4, <2>1, <2>2 DEF CoverOK, SameJoin
<1> QED BY <1>3, <1>4, <1>5, <1>6, <1>7 DEF WithInv, JoinedOK

-----------------------------------------------------------------------------

LEMMA WithStart == Init => WithInv
<1> SUFFICES ASSUME Init PROVE WithInv
  OBVIOUS
<1>1. PICK f \in Families : ask \in f.asks /\ get = NoGet
  BY DEF Init
<1>2. WithsOK
  BY <1>1, QueriesAssumption DEF WithsOK
<1> QED BY <1>1, <1>2 DEF WithInv, NoGet

LEMMA WithStep == WithInv /\ [Next]_vars => WithInv'
<1> SUFFICES ASSUME WithInv, [Next]_vars PROVE WithInv'
  OBVIOUS
<1> USE DEF dbvars
<1>1. CASE Query
  BY <1>1, QueryFound
<1>2. CASE StatsView
  <2>1. Calm /\ get'.phase = "stat"
    BY <1>2 DEF StatsView, Calm, Quiet
  <2> QED BY <2>1, CalmKeeps DEF WithInv
<1>3. CASE BadAfter
  <2>1. Calm /\ Fewer /\ UNCHANGED <<get, mvars>>
    BY <1>3 DEF BadAfter, Calm, Quiet, Fewer
  <2> QED BY <2>1, UntouchedKeeps
<1>4. CASE StartJoin
  BY <1>4, StartJoinJoined
<1>5. CASE MergeStep
  BY <1>5, MergeStepJoined
<1>6. CASE ModelDone
  BY <1>6, ModelDoneJoined
<1>7. CASE Answer
  BY <1>7, AnswerJoined
<1>8. ASSUME NEW path \in Paths(ask.withs), FindIds(path) \/ JoinPath(path) \/ JoinNext(path)
      PROVE  WithInv'
  BY <1>8, FindIdsFound, JoinPathJoined, JoinNextJoined
<1>9. ASSUME NEW m \in DOMAIN others, NextModel(m)
      PROVE  WithInv'
  BY <1>9, NextModelJoined
<1>10. ASSUME NEW key \in SUBSET Annotation, Fetch(key)
       PROVE  WithInv'
  BY <1>10, FetchJoined
<1>11. ASSUME NEW pk \in Pk, NEW row \in ask.writes, Write(pk, row)
       PROVE  WithInv'
  <2>1. Calm /\ Fewer /\ UNCHANGED <<get, mvars>>
    BY <1>11 DEF Write, Calm, Quiet, Fewer
  <2> QED BY <2>1, UntouchedKeeps
<1>12. ASSUME NEW m \in DOMAIN others, NEW id \in Id, Vanish(m, id)
       PROVE  WithInv'
  <2>1. /\ UNCHANGED <<ask, get, mvars>> /\ changed' = changed \cup {<<m, id>>}
        /\ others' = [others EXCEPT ![m] = @ \ {id}]
    BY <1>12 DEF Vanish
  <2>2. Calm
    BY <2>1 DEF Calm, Quiet
  <2>3. Fewer
    BY <2>1 DEF Fewer
  <2> QED BY <2>1, <2>2, <2>3, UntouchedKeeps
<1>13. CASE UNCHANGED vars
  <2>1. Calm /\ Fewer /\ UNCHANGED <<get, mvars>>
    BY <1>13 DEF vars, Calm, Quiet, Fewer
  <2> QED BY <2>1, UntouchedKeeps
<1> QED BY <1>1, <1>2, <1>3, <1>4, <1>5, <1>6, <1>7, <1>8, <1>9, <1>10, <1>11, <1>12, <1>13 DEF Next, Serve

(* An id that a path leads to is in a finished answer once, if it is still *)
(* there.                                                                  *)
LEMMA LedIncluded ==
  ASSUME WithInv, get.phase = "done", NEW w \in AllPaths, NEW id \in Image(get.dicts[w]),
         id \in others[ModelOf(w)]
  PROVE  Cardinality({o \in get.out : o.model = ModelOf(w) /\ o.id = id}) = 1
<1> DEFINE m == ModelOf(w)
<1>1. FlatOK /\ OutOK /\ CoverOK /\ get.left = {} /\ ModelsLeft = {} /\ Finished = get.models
  BY DEF WithInv, JoinedOK, CoverOK, Finished
<1>2. KeyOf(w) \in DOMAIN get.flat /\ id \in get.flat[KeyOf(w)] /\ KeyOf(w).model = m
  BY <1>1 DEF FlatOK, LeadsTo, KeyOf
<1>3. m \in Finished /\ id \in IdsOf(m)
  BY <1>1, <1>2 DEF ModelsLeft, IdsOf
<1>4. PICK o \in get.out : o.model = m /\ o.id = id
  BY <1>1, <1>3 DEF CoverOK, Shows
<1>5. {p \in get.out : p.model = m /\ p.id = id} = {o}
  BY <1>1, <1>4 DEF OutOK
<1> QED BY <1>5, FS_Singleton

LEMMA ThenIncluded == WithInv => ListedIncluded
<1> SUFFICES ASSUME WithInv, get.phase = "done", NEW l \in Lists, l.id \in others[l.model]
             PROVE  Cardinality({o \in get.out : o.model = l.model /\ o.id = l.id}) = 1
  BY DEF ListedIncluded
<1>1. \E w \in AllPaths : l.model = ModelOf(w) /\ l.id \in Image(get.dicts[w])
  <2>1. CASE \E w \in AllPaths : l \in [model : {ModelOf(w)}, id : Image(get.dicts[w])]
    <3>1. PICK w \in AllPaths : l \in [model : {ModelOf(w)}, id : Image(get.dicts[w])]
      BY <2>1
    <3>2. l.model = ModelOf(w) /\ l.id \in Image(get.dicts[w])
      BY <3>1
    <3> QED BY <3>2
  <2>2. ASSUME NEW o \in get.out, NEW rel \in WithsOf(o.model), l \in [model : {Target[rel]}, id : o.shown[rel]]
        PROVE  \E w \in AllPaths : l.model = ModelOf(w) /\ l.id \in Image(get.dicts[w])
    <3>1. DictsOK /\ OfOK /\ OutOK
      BY DEF WithInv, JoinedOK
    <3>2. l.model = Target[rel] /\ l.id \in Listed(o.model, rel, o.id)
      BY <2>2, <3>1 DEF OutOK, RightObject
    <3> DEFINE u == get.of[<<o.model, <<rel>>>>]
    <3>3. u \in AllPaths /\ LastOf(u) = rel
      <4>1. <<o.model, <<rel>>>> \in DOMAIN get.of
        BY <2>2 DEF WithsOf
      <4>2. LastOf(<<rel>>) = rel
        BY DEF LastOf
      <4> QED BY <3>1, <4>1, <4>2 DEF OfOK
    <3>4. l.id \in Image(get.dicts[u])
      <4>1. l.id \in IF o.id \in DOMAIN get.dicts[u] THEN get.dicts[u][o.id] ELSE {}
        BY <3>2 DEF Listed
      <4> HIDE DEF u
      <4> QED BY <4>1 DEF Image
    <3>5. ModelOf(u) = Target[rel]
      BY <3>3 DEF ModelOf, LastOf
    <3> HIDE DEF u
    <3> QED BY <3>2, <3>3, <3>4, <3>5
  <2>3. ASSUME ~\E w \in AllPaths : l \in [model : {ModelOf(w)}, id : Image(get.dicts[w])]
        PROVE  \E o \in get.out : \E rel \in WithsOf(o.model) : l \in [model : {Target[rel]}, id : o.shown[rel]]
    <3> DEFINE First1(w) == [model : {ModelOf(w)}, id : Image(get.dicts[w])]
               Of(o, rel) == [model : {Target[rel]}, id : o.shown[rel]]
    <3>1. PICK T : l \in T /\ (T \in {First1(w) : w \in {w \in Paths(ask.withs) : Len(w) = 1}} \/
                              T \in {UNION {Of(o, rel) : rel \in WithsOf(o.model)} : o \in get.out})
      BY DEF Lists
    <3> HIDE DEF First1
    <3>2. T \notin {First1(w) : w \in {w \in Paths(ask.withs) : Len(w) = 1}}
      BY <2>3, <3>1 DEF AllPaths, First1
    <3> HIDE DEF Of
    <3>3. PICK o \in get.out : T = UNION {Of(o, rel) : rel \in WithsOf(o.model)}
      BY <3>1, <3>2
    <3>4. PICK rel \in WithsOf(o.model) : l \in Of(o, rel)
      BY <3>1, <3>3
    <3> QED BY <3>4 DEF Of
  <2> QED BY <2>1, <2>2, <2>3
<1>2. PICK w \in AllPaths : l.model = ModelOf(w) /\ l.id \in Image(get.dicts[w])
  BY <1>1
<1> QED BY <1>2, LedIncluded

LEMMA ThenAnnotations == WithInv => AnnotationsRight
<1> SUFFICES ASSUME WithInv, get.phase = "done", NEW o \in get.out
             PROVE  o.ann = UNION {Annotations(w) : w \in {w \in AllPaths :
                                             ModelOf(w) = o.model /\ o.id \in Image(get.dicts[w])}}
  BY DEF AnnotationsRight, AllPaths
<1>1. FlatOK /\ get.left = {} /\ o.ann = WantedOf(o.model, o.id)
  BY DEF WithInv, JoinedOK, CoverOK, OutOK, RightObject
<1>2. ASSUME NEW a
      PROVE  a \in o.ann <=> \E w \in AllPaths : ModelOf(w) = o.model /\ o.id \in Image(get.dicts[w]) /\ a \in Annotations(w)
  <2>1. a \in o.ann <=> \E k \in DOMAIN get.flat : k.model = o.model /\ o.id \in get.flat[k] /\ a \in k.ann
    BY <1>1 DEF WantedOf
  <2>2. ASSUME NEW k \in DOMAIN get.flat, k.model = o.model, o.id \in get.flat[k], a \in k.ann
        PROVE  \E w \in AllPaths : ModelOf(w) = o.model /\ o.id \in Image(get.dicts[w]) /\ a \in Annotations(w)
    <3>1. PICK w \in AllPaths : KeyOf(w) = k /\ o.id \in Image(get.dicts[w])
      BY <1>1, <2>2 DEF FlatOK
    <3> QED BY <2>2, <3>1 DEF KeyOf
  <2>3. ASSUME NEW w \in AllPaths, ModelOf(w) = o.model, o.id \in Image(get.dicts[w]), a \in Annotations(w)
        PROVE  \E k \in DOMAIN get.flat : k.model = o.model /\ o.id \in get.flat[k] /\ a \in k.ann
    <3>1. KeyOf(w) \in DOMAIN get.flat /\ o.id \in get.flat[KeyOf(w)]
      BY <1>1, <2>3 DEF FlatOK, LeadsTo
    <3>2. KeyOf(w).model = o.model /\ a \in KeyOf(w).ann
      BY <2>3 DEF KeyOf
    <3> QED BY <3>1, <3>2
  <2> QED BY <2>1, <2>2, <2>3
<1> QED BY <1>2

LEMMA ThenComplete == WithInv => RelationsComplete
<1> SUFFICES ASSUME WithInv, get.phase = "done", Quiet, NEW w \in AllPaths, NEW o \in get.out,
                    o.model = ModelOf(w), o.id \in Image(get.found[w]), NEW rel \in DOMAIN Target,
                    Append(w, rel) \in AllPaths
             PROVE  o.shown[rel] = Own(rel, o.id)
  BY DEF RelationsComplete, AllPaths
<1>1. WithsOK /\ FoundOK /\ DictsOK /\ LeftOK /\ OfOK /\ OutOK /\ get.left = {}
  BY DEF WithInv, JoinedOK, CoverOK
<1>2. PICK v \in AllPaths : v = Append(w, rel)
  OBVIOUS
<1>3. Front(v) = w /\ Len(v) > 1 /\ IsStrictPrefix(w, v) /\ Rest(w, v) = <<rel>>
  BY <1>1, <1>2, AppendedPath
<1>4. Listable(w, v)
  BY <1>1, <1>3 DEF LeftOK, OfOK
<1> DEFINE key == <<o.model, <<rel>>>>
           u == get.of[key]
<1>5. RestKey(w, v) = key
  BY <1>3 DEF RestKey
<1>6. key \in DOMAIN get.of /\ DOMAIN get.found[v] \subseteq DOMAIN get.dicts[u]
  BY <1>4, <1>5 DEF Listable
<1>7. u \in AllPaths /\ LastOf(u) = rel
  <2>1. LastOf(<<rel>>) = rel
    BY DEF LastOf
  <2> QED BY <1>1, <1>6, <2>1 DEF OfOK
<1>8. o.id \in DOMAIN get.found[v]
  <2>1. v \in DOMAIN get.found /\ Len(v) # 1
    <3>1. Len(v) \in Nat
      BY <1>1, PathsAre
    <3>2. Len(v) # 1
      <4>1. PICK n : n = Len(v)
        OBVIOUS
      <4>2. n \in Nat /\ n > 1
        BY <1>3, <3>1, <4>1
      <4>3. n # 1
        BY ONLY <4>2
      <4> QED BY <4>1, <4>3
    <3> QED BY <1>1, <3>2 DEF DictsOK
  <2>2. DOMAIN get.found[v] = Image(get.found[w])
    BY <1>1, <1>3, <2>1 DEF FoundOK, FoundFor
  <2> QED BY <2>2
<1>9. o.shown[rel] = Listed(o.model, rel, o.id)
  <2>1. rel \in WithsOf(o.model)
    BY <1>6 DEF WithsOf
  <2> QED BY <1>1, <2>1 DEF OutOK, RightObject
<1>10. o.shown[rel] = get.dicts[u][o.id] /\ o.id \in DOMAIN get.dicts[u]
  BY <1>6, <1>8, <1>9 DEF Listed
<1> HIDE DEF u, key
<1> QED BY <1>1, <1>7, <1>10 DEF DictsOK

(* The groups stay exact from one model to the next.                       *)
LEMMA MergeAlways == WithInv /\ MergeInv /\ [Next]_vars => MergeInv'
<1> SUFFICES ASSUME WithInv, MergeInv, [Next]_vars PROVE MergeInv'
  OBVIOUS
<1>1. CASE UNCHANGED mvars
  BY <1>1, MergeSame
<1>2. CASE MergeStep
  BY <1>2, MergeKeeps DEF MergeStep
<1>3. ASSUME NEW m \in DOMAIN others, NextModel(m)
      PROVE  MergeInv'
  <2>1. WithInv' /\ get'.phase = "merge"
    BY <1>3, NextModelJoined DEF NextModel, AllJoined, WithInv, JoinedOK, DictsOK, JoinFields
  <2> QED BY <2>1 DEF WithInv
<1> QED BY <1>1, <1>2, <1>3
  DEF Next, Serve, Query, StatsView, BadAfter, FindIds, StartJoin, JoinPath, JoinNext, ModelDone, Answer, Fetch,
      Write, Vanish, vars, mvars

-----------------------------------------------------------------------------

(* _get_withs: in every GET, however the paths overlap, the loop over      *)
(* to_add ends with every id in the one group of all the annotations that  *)
(* are asked for it, for each model.                                       *)
THEOREM GroupsAreExact == Spec => []MergedExactly
<1>1. Init => MergeInv
  <2> SUFFICES ASSUME Init PROVE MergeInv
    OBVIOUS
  <2>1. << >> \in Seq(Group)
    OBVIOUS
  <2> QED BY <2>1, StartsRight DEF Init
<1> QED BY <1>1, WithStart, WithStep, MergeAlways, ThenExact, PTL DEF Spec

(* _get_withs and _get_objs: whatever id a finished answer lists for a     *)
(* relation of a with, the object is in the answer exactly once, unless    *)
(* somebody removed it after the ids were read.                            *)
THEOREM ListedAreIncluded == Spec => []ListedIncluded
<1> QED BY WithStart, WithStep, ThenIncluded, PTL DEF Spec

(* _parse_include_annotations, _get_withs and _get_objs: an object has the *)
(* annotations that were asked for any of the paths that lead to it, and   *)
(* no others, however they are spread over queries.                        *)
THEOREM AnnotationsAreRight == Spec => []AnnotationsRight
<1> QED BY WithStart, WithStep, ThenAnnotations, PTL DEF Spec

(* _annotate_obj_with_related_withs: an object shows all it has in a       *)
(* relation that one of its paths goes on with, although the ids shown are *)
(* those found for one of the paths of its model.                          *)
THEOREM RelationsAreComplete == Spec => []RelationsComplete
<1> QED BY WithStart, WithStep, ThenComplete, PTL DEF Spec
=============================================================================
