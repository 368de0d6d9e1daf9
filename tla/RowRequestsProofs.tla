-------------------------- MODULE RowRequestsProofs --------------------------
(***************************************************************************)
(* The handlers that lock the row they save implement HistoryLog, for any  *)
(* number of threads, rows and values, with every failure of the model;     *)
(* what a commit makes of a row is what its request asks for.              *)
(***************************************************************************)
EXTENDS RowRequests, TLAPS

(* The row of t's request, and the fields its transaction writes.          *)
Target(t) == req[t].row
Written(t) == {f \in Field : loaded[t][f] # obj[t][f]}

(* What is written and uncommitted: one changeset, newer than what the log *)
(* has on the row, that leads from the committed row to obj.               *)
StagedOK(t) ==
  \/ staged[t] = {} /\ Written(t) = {}
  \/ \E i \in Id :
       /\ i < nextId
       /\ \A e \in log : e.row = Target(t) => e.id < i
       /\ staged[t] = {[id |-> i, row |-> Target(t), field |-> f,
                        before |-> rows[Target(t)][f], after |-> obj[t][f]] : f \in Written(t)}

ThreadInv(t) ==
  /\ pc[t] \in {"read", "lock"} => req[t].kind # "post" /\ changes[t] = {}
  /\ pc[t] = "save" => changes[t] = {}
  /\ pc[t] = "save" /\ req[t].kind # "post" => lock[Target(t)] = t
  /\ pc[t] \in {"save", "history", "commit"} =>
       /\ \A f \in Field : Before(loaded[t][f]) = rows[Target(t)][f]
       /\ Exists(rows[Target(t)]) <=> req[t].kind # "post"
       /\ req[t].kind = "post" => Target(t) \notin fresh
  /\ pc[t] \in {"history", "commit"} => lock[Target(t)] = t
  /\ pc[t] = "history" => changes[t] = Differences(Target(t), loaded[t], obj[t])
  /\ pc[t] = "commit" => StagedOK(t)

PostsDiffer == \A t, u \in Thread :
  /\ t # u /\ pc[t] # "idle" /\ pc[u] # "idle"
  /\ req[t].kind = "post" /\ req[u].kind = "post"
  => Target(t) # Target(u)

IInv == /\ TypeOK
        /\ \A t \in Thread : ThreadInv(t)
        /\ PostsDiffer
        /\ \A r \in fresh : rows[r] = Blank
        /\ \A e \in log : e.id < nextId

-----------------------------------------------------------------------------

LEMMA ModelAssumption == "pk" \in Field /\ None \notin Datum /\ Id \subseteq Nat /\ 0 \in Id
BY RowRequestsAssumption DEF Field, Id

LEMMA ProperModel == Log!ProperConstants
BY ModelAssumption DEF Log!ProperConstants

-----------------------------------------------------------------------------

(* HistoryLog: the log and the rows of any specification that records what *)
(* it does.                                                                *)

LogInv == Log!LogTypeOK /\ Log!NewestIsCurrent /\ Log!Chained /\ Log!Accounted

LEMMA LogInitInv ==
  ASSUME Log!LogInit
  PROVE  LogInv
<1>0. None \notin Datum /\ 0 \in Id /\ Id \subseteq Nat
  BY ProperModel DEF Log!ProperConstants
<1>1. ASSUME NEW e \in log
      PROVE  /\ e \in Log!Change
             /\ e.id = 0
             /\ e.after = rows[e.row][e.field]
  BY <1>0, <1>1 DEF Log!LogInit, Log!Creation, Log!Change, Log!RowState, Log!Contents
<1>2. Log!LogTypeOK
  BY <1>1 DEF Log!LogInit, Log!LogTypeOK
<1>3. Log!NewestIsCurrent
  BY <1>1 DEF Log!NewestIsCurrent
<1>4. Log!Chained
  BY <1>1 DEF Log!Chained, Log!Precedes
<1>5. Log!Accounted
  <2> SUFFICES ASSUME NEW r \in Row, NEW f \in Field, rows[r][f] # None
               PROVE  \E e \in log : e.row = r /\ e.field = f
    BY DEF Log!Accounted
  <2>1. Log!Exists(rows[r])
    BY DEF Log!LogInit
  <2> DEFINE e == [id |-> 0, row |-> r, field |-> f, before |-> None, after |-> rows[r][f]]
  <2>2. e \in Log!Creation(r)
    BY DEF Log!Creation
  <2>3. e \in log
    BY <2>1, <2>2 DEF Log!LogInit
  <2> QED
    BY <2>3
<1> QED
  BY <1>2, <1>3, <1>4, <1>5 DEF LogInv

LEMMA RecordInv ==
  ASSUME NEW r \in Row, NEW F \in SUBSET Field, NEW id \in Id,
         LogInv, Log!Record(r, F, id)
  PROVE  LogInv'
<1>0. Id \subseteq Nat
  BY ProperModel DEF Log!ProperConstants
<1> DEFINE new == {[id |-> id, row |-> r, field |-> f,
                    before |-> rows[r][f], after |-> rows'[r][f]] : f \in F}
<1>1. /\ log' = log \cup new
      /\ rows' = [rows EXCEPT ![r] = rows'[r]]
      /\ rows'[r] \in Log!RowState
      /\ \A f \in Field \ F : rows'[r][f] = rows[r][f]
  BY DEF Log!Record
<1>2. rows \in [Row -> Log!RowState] /\ log \subseteq Log!Change
  BY DEF LogInv, Log!LogTypeOK
<1>3. ASSUME NEW e \in new
      PROVE  /\ e \in Log!Change
             /\ e.id = id /\ e.row = r /\ e.field \in F
             /\ e.before = rows[r][e.field] /\ e.after = rows'[r][e.field]
  BY <1>1, <1>2 DEF Log!Change, Log!RowState
<1>4. ASSUME NEW e \in log, e.row = r
      PROVE  e.id \in Nat /\ id \in Nat /\ e.id < id
  BY <1>0, <1>2, <1>4 DEF Log!Record, Log!Change
<1>5. Log!LogTypeOK'
  BY <1>1, <1>2, <1>3 DEF Log!LogTypeOK
<1>6. \A q \in Row \ {r} : rows'[q] = rows[q]
  BY <1>1, <1>2
<1>7. ASSUME NEW f \in F
      PROVE  \E e \in log' : e.row = r /\ e.field = f /\ e.id = id
  <2> DEFINE e == [id |-> id, row |-> r, field |-> f,
                   before |-> rows[r][f], after |-> rows'[r][f]]
  <2>1. e \in new
    OBVIOUS
  <2> QED
    BY <1>1, <2>1
<1>8. Log!NewestIsCurrent'
  <2> SUFFICES ASSUME NEW e \in log', Log!Newest(e)'
               PROVE  e.after = rows'[e.row][e.field]
    BY DEF Log!NewestIsCurrent
  <2>1. CASE e \in new
    BY <2>1, <1>3
  <2>2. CASE e \in log
    <3>1. Log!Newest(e)
      BY <1>1 DEF Log!Newest, Log!SameKey
    <3>2. e.after = rows[e.row][e.field] /\ e.row \in Row /\ e.field \in Field
      BY <2>2, <3>1, <1>2 DEF LogInv, Log!NewestIsCurrent, Log!Change
    <3>3. CASE e.row = r
      <4>1. e.field \notin F
        <5> SUFFICES ASSUME e.field \in F PROVE FALSE
          OBVIOUS
        <5>1. PICK d \in log' : d.row = r /\ d.field = e.field /\ d.id = id
          BY <1>7
        <5>2. d.id <= e.id
          BY <5>1, <3>3 DEF Log!Newest, Log!SameKey
        <5> QED
          BY <5>1, <5>2, <1>4, <2>2, <3>3
      <4> QED
        BY <4>1, <3>2, <3>3, <1>1
    <3>4. CASE e.row # r
      BY <3>2, <3>4, <1>6
    <3> QED
      BY <3>3, <3>4
  <2> QED
    BY <2>1, <2>2, <1>1
<1>9. Log!Chained'
  <2> SUFFICES ASSUME NEW d \in log', NEW e \in log', Log!Precedes(d, e)'
               PROVE  e.before = d.after
    BY DEF Log!Chained
  <2>1. CASE d \in log /\ e \in log
    <3>1. Log!Precedes(d, e)
      BY <1>1, <2>1 DEF Log!Precedes, Log!SameKey
    <3> QED
      BY <2>1, <3>1 DEF LogInv, Log!Chained
  <2>2. CASE d \in log /\ e \in new
    <3>1. d.row = r /\ d.field = e.field
      BY <2>2, <1>3 DEF Log!Precedes, Log!SameKey
    <3>2. Log!Newest(d)
      <4> SUFFICES ASSUME NEW c \in log, Log!SameKey(d, c) \/ Log!SameKey(c, d)
                   PROVE  c.id <= d.id
        BY DEF Log!Newest
      <4>1. c.row = r /\ c.id < id /\ e.id = id /\ c.id \in Nat
        BY <3>1, <1>3, <1>4, <2>2 DEF Log!SameKey
      <4>2. c.id <= d.id \/ e.id <= c.id
        BY <1>1 DEF Log!Precedes, Log!SameKey
      <4> QED
        BY <4>1, <4>2, <1>4
    <3>3. d.after = rows[r][d.field]
      BY <2>2, <3>1, <3>2 DEF LogInv, Log!NewestIsCurrent
    <3> QED
      BY <2>2, <3>1, <3>3, <1>3
  <2>3. CASE d \in new
    <3>1. e.row = r /\ d.id = id /\ d.id < e.id
      BY <2>3, <1>3 DEF Log!Precedes, Log!SameKey
    <3> QED
      BY <3>1, <1>0, <1>1, <1>3, <1>4
  <2> QED
    BY <2>1, <2>2, <2>3, <1>1
<1>10. Log!Accounted'
  <2> SUFFICES ASSUME NEW q \in Row, NEW f \in Field,
                      \A e \in log' : ~(e.row = q /\ e.field = f)
               PROVE  rows'[q][f] = None
    BY DEF Log!Accounted
  <2>1. rows[q][f] = None
    BY <1>1 DEF LogInv, Log!Accounted
  <2>2. q = r => f \notin F
    BY <1>7
  <2> QED
    BY <2>1, <2>2, <1>1, <1>6
<1> QED
  BY <1>5, <1>8, <1>9, <1>10 DEF LogInv

(* Whatever is recorded the way HistoryLog says explains the rows: the     *)
(* newest change of a field is what the database holds, each change starts *)
(* where the previous one ended, and nothing is missing.                   *)
THEOREM LogExplainsRows == Log!LogSpec => [](NewestIsCurrent /\ Chained /\ Accounted)
<1>1. LogInv /\ [Log!LogNext]_(Log!logVars) => LogInv'
  <2> SUFFICES ASSUME LogInv, [Log!LogNext]_(Log!logVars) PROVE LogInv'
    OBVIOUS
  <2>1. CASE Log!LogNext
    BY <2>1, RecordInv DEF Log!LogNext
  <2>2. CASE UNCHANGED Log!logVars
    BY <2>2 DEF Log!logVars, LogInv, Log!LogTypeOK, Log!NewestIsCurrent, Log!Newest, Log!Chained,
                Log!Precedes, Log!Accounted
  <2> QED
    BY <2>1, <2>2
<1>2. Log!LogInit => LogInv
  BY LogInitInv
<1>3. LogInv => NewestIsCurrent /\ Chained /\ Accounted
  BY DEF LogInv, NewestIsCurrent, Chained, Accounted
<1> QED
  BY <1>1, <1>2, <1>3, PTL DEF Log!LogSpec

-----------------------------------------------------------------------------

(* Type correctness.                                                       *)

USE DEF RowState, Log!RowState, Log!Contents, Exists, Log!Exists

LEMMA FieldFacts == /\ {"pk", "name", "doc"} \subseteq Field
                    /\ Field \subseteq {"pk", "name", "doc", "deleted"}
                    /\ "deleted" \in Field
                    /\ {"present", "live", "deleted"} \cup Value = Datum
                    /\ None \notin Datum
BY RowRequestsAssumption DEF Field, Datum

LEMMA BlankType == Blank \in RowState /\ Blank \in [Field -> Datum \cup {None, NewInstance}]
BY DEF Blank

LEMMA NewRowType == \A r \in Row, v \in Value : NewRow(r, v) \in RowState
BY BlankType, FieldFacts DEF NewRow

LEMMA EditedType ==
  ASSUME NEW s \in RowState, NEW q \in Request
  PROVE  Edited(s, q) \in RowState
BY DEF Edited, Request

LEMMA TypeInit == Init => TypeOK
<1> SUFFICES ASSUME Init PROVE TypeOK
  OBVIOUS
<1>2. rows \in [Row -> RowState]
  BY BlankType, NewRowType DEF Init
<1>3. log \subseteq Log!Change
  BY <1>2, ModelAssumption, RowRequestsAssumption DEF Init, Log!Creation, Log!Change
<1>4. nextId \in 1..(MaxId + 1)
  BY RowRequestsAssumption DEF Init
<1> QED
  BY BlankType, <1>2, <1>3, <1>4, RowRequestsAssumption DEF Init, TypeOK

LEMMA FinishType ==
  ASSUME TypeOK, NEW t \in Thread, Finish(t)
  PROVE  /\ lock' \in [Row -> Thread \cup {NoThread}]
         /\ pc' \in [Thread -> {"idle", "read", "lock", "save", "history", "commit"}]
         /\ req' \in [Thread -> Request \cup {NoRequest}]
         /\ \A u \in Thread : pc'[u] # "idle" => req'[u] \in Request
         /\ obj' \in [Thread -> RowState]
         /\ loaded' \in [Thread -> [Field -> Datum \cup {None, NewInstance}]]
         /\ staged' \in [Thread -> SUBSET Log!Change]
BY BlankType DEF TypeOK, Finish

LEMMA TypeStep == TypeOK /\ [Next]_vars => TypeOK'
<1> SUFFICES ASSUME TypeOK, [Next]_vars PROVE TypeOK'
  OBVIOUS
<1>1. CASE UNCHANGED vars
  BY <1>1 DEF vars, TypeOK
<1>2. ASSUME NEW t \in Thread, Begin(t) PROVE TypeOK'
  BY <1>2 DEF Begin, Start, TypeOK
<1>3. ASSUME NEW t \in Thread, BeginPost(t) PROVE TypeOK'
  <2>1. PICK q \in Request : /\ q.kind = "post"
                             /\ req' = [req EXCEPT ![t] = q]
                             /\ fresh' = fresh \ {q.row}
                             /\ obj' = [obj EXCEPT ![t] = NewRow(q.row, q.val)]
    BY <1>3 DEF BeginPost
  <2>2. obj' \in [Thread -> RowState]
    BY <2>1, NewRowType DEF TypeOK, Request, Assigns
  <2>3. loaded' \in [Thread -> [Field -> Datum \cup {None, NewInstance}]]
    BY <1>3 DEF BeginPost, TypeOK
  <2> QED
    BY <1>3, <2>1, <2>2, <2>3 DEF BeginPost, Start, TypeOK
<1>4. ASSUME NEW t \in Thread, Read(t) \/ Lock(t) PROVE TypeOK'
  <2>1. req[t] \in Request
    BY <1>4 DEF Read, Lock, TypeOK
  <2>2. rows[req[t].row] \in RowState
    BY <2>1 DEF TypeOK, Request
  <2>3. rows[req[t].row] \in [Field -> Datum \cup {None, NewInstance}]
    BY <2>2
  <2>4. obj' \in [Thread -> RowState] /\ loaded' \in [Thread -> [Field -> Datum \cup {None, NewInstance}]]
    BY <1>4, <2>2, <2>3 DEF Read, Lock, TypeOK
  <2>5. lock' \in [Row -> Thread \cup {NoThread}]
    BY <1>4 DEF Read, Lock, TypeOK
  <2> QED
    BY <1>4, <2>1, <2>4, <2>5 DEF Read, Lock, TypeOK
<1>5. ASSUME NEW t \in Thread, Save(t) PROVE TypeOK'
  <2>1. req[t] \in Request /\ req[t].row \in Row
    BY <1>5 DEF Save, TypeOK, Request
  <2>2. obj[t] \in RowState /\ Edited(obj[t], req[t]) \in RowState
    BY <2>1, EditedType DEF TypeOK
  <2>3. Differences(req[t].row, loaded[t], Edited(obj[t], req[t])) \subseteq Recorded
    BY <2>1, <2>2 DEF Differences, Recorded, TypeOK
  <2>4. obj' \in [Thread -> RowState] /\ changes' \in [Thread -> SUBSET Recorded]
    BY <1>5, <2>2, <2>3 DEF Save, TypeOK
  <2> QED
    BY <1>5, <2>4 DEF Save, TypeOK
<1>6. ASSUME NEW t \in Thread, HistoryCommit(t) PROVE TypeOK'
  <2>1. nextId \in Id /\ nextId' \in 1..(MaxId + 1)
    BY <1>6, RowRequestsAssumption DEF HistoryCommit, TypeOK, Id
  <2>2. \A c \in Kept(t) : /\ c.row \in Row /\ c.field \in Field
                           /\ Before(c.old) \in Datum \cup {None}
                           /\ c.new \in Datum \cup {None}
    BY DEF Kept, Before, TypeOK, Recorded
  <2>3. staged' \in [Thread -> SUBSET Log!Change]
    BY <1>6, <2>1, <2>2 DEF HistoryCommit, TypeOK, Log!Change
  <2> QED
    BY <1>6, <2>1, <2>3 DEF HistoryCommit, TypeOK
<1>7. ASSUME NEW t \in Thread, DbCommit(t) PROVE TypeOK'
  <2>1. rows' \in [Row -> RowState] /\ log' \subseteq Log!Change
    BY <1>7 DEF DbCommit, TypeOK
  <2> QED
    BY <1>7, <2>1, FinishType DEF DbCommit, TypeOK
<1>8. ASSUME NEW t \in Thread, Finish(t), UNCHANGED <<rows, log, fresh>>,
             nextId' \in 1..(MaxId + 1), started' \in [Thread -> BOOLEAN],
             changes' \in [Thread -> SUBSET Recorded]
      PROVE TypeOK'
  BY <1>8, FinishType DEF TypeOK
<1>9. ASSUME NEW t \in Thread, Stop(t), Rollback(t) PROVE TypeOK'
  BY <1>8, <1>9 DEF Stop, Rollback, TypeOK
<1>10. ASSUME NEW t \in Thread, HistoryCommitFails(t) PROVE TypeOK'
  <2>1. nextId' \in 1..(MaxId + 1) /\ started' \in [Thread -> BOOLEAN]
    BY <1>10, RowRequestsAssumption DEF HistoryCommitFails, TypeOK
  <2>2. changes' \in [Thread -> SUBSET Recorded]
    BY <1>10 DEF HistoryCommitFails, Kept, TypeOK
  <2> QED
    BY <1>8, <1>10, <2>1, <2>2 DEF HistoryCommitFails
<1>11. ASSUME NEW t \in Thread, DbCommitFails(t) PROVE TypeOK'
  BY <1>8, <1>11 DEF DbCommitFails, Rollback, TypeOK
<1> QED
  BY <1>1, <1>2, <1>3, <1>4, <1>5, <1>6, <1>7, <1>9, <1>10, <1>11
  DEF Next, Progress, Failure, NotFound, Refuse, Abort, Crash

(* Every state of the threads, the locks and the tables is well formed.    *)
THEOREM TypeCorrect == Spec => []TypeOK
BY TypeInit, TypeStep, PTL DEF Spec

-----------------------------------------------------------------------------

(* The inductive invariant.                                                *)

LEMMA InitInv == Init => IInv
<1> SUFFICES ASSUME Init PROVE IInv
  OBVIOUS
<1>1. TypeOK
  BY TypeInit
<1>2. \A t \in Thread : ThreadInv(t)
  BY DEF Init, ThreadInv
<1>3. \A e \in log : e.id < nextId
  BY DEF Init, Log!Creation
<1>4. \A r \in fresh : rows[r] = Blank
  BY <1>1 DEF Init
<1> QED
  BY <1>1, <1>2, <1>3, <1>4 DEF IInv, PostsDiffer, Init

Busy(t) == pc[t] \in {"save", "history", "commit"}

(* What a step of another thread must leave alone for u's sake.            *)
Undisturbed(u) ==
  /\ pc'[u] = pc[u] /\ req'[u] = req[u] /\ obj'[u] = obj[u] /\ loaded'[u] = loaded[u]
  /\ changes'[u] = changes[u] /\ staged'[u] = staged[u]
  /\ fresh' \subseteq fresh /\ nextId' >= nextId
  /\ Busy(u) => /\ lock[Target(u)] = u => lock'[Target(u)] = u
                /\ rows'[Target(u)] = rows[Target(u)]
                /\ \A e \in log' : e.row = Target(u) => e \in log

LEMMA Frame ==
  ASSUME TypeOK, TypeOK', NEW u \in Thread, ThreadInv(u), Undisturbed(u)
  PROVE  ThreadInv(u)'
<1>1. Target(u)' = Target(u) /\ Written(u)' = Written(u)
  BY DEF Undisturbed, Target, Written
<1>2. nextId \in Int /\ nextId' \in Int /\ nextId' >= nextId
  BY RowRequestsAssumption DEF TypeOK, Undisturbed
<1>3. ASSUME pc[u] = "commit" PROVE StagedOK(u)'
  <2>1. StagedOK(u)
    BY <1>3 DEF ThreadInv
  <2>2. CASE staged[u] = {} /\ Written(u) = {}
    BY <2>2, <1>1 DEF Undisturbed, StagedOK
  <2>3. ASSUME NEW i \in Id, i < nextId,
               \A e \in log : e.row = Target(u) => e.id < i,
               staged[u] = {[id |-> i, row |-> Target(u), field |-> f,
                             before |-> rows[Target(u)][f], after |-> obj[u][f]]
                              : f \in Written(u)}
        PROVE StagedOK(u)'
    <3>1. i < nextId'
      BY <2>3, <1>2 DEF Id
    <3>2. \A e \in log' : e.row = Target(u) => e.id < i
      BY <1>3, <2>3 DEF Undisturbed, Busy
    <3>3. staged'[u] = {[id |-> i, row |-> Target(u), field |-> f,
                         before |-> rows'[Target(u)][f], after |-> obj'[u][f]]
                          : f \in Written(u)}
      BY <1>3, <2>3 DEF Undisturbed, Busy
    <3> QED
      BY <1>1, <3>1, <3>2, <3>3 DEF StagedOK
  <2> QED
    BY <2>1, <2>2, <2>3 DEF StagedOK
<1>4. Busy(u) => /\ \A f \in Field : Before(loaded'[u][f]) = rows'[Target(u)][f]
                 /\ Exists(rows'[Target(u)]) <=> req'[u].kind # "post"
                 /\ req'[u].kind = "post" => Target(u) \notin fresh'
  BY DEF ThreadInv, Undisturbed, Busy
<1> QED
  BY <1>1, <1>3, <1>4 DEF ThreadInv, Undisturbed, Busy

(* Two threads busy with the same row: one of them would have to hold the  *)
(* other's lock, or to create a row that exists.                           *)
LEMMA OneWriter ==
  ASSUME IInv, NEW t \in Thread, NEW u \in Thread, t # u,
         pc[t] \in {"history", "commit"}, Busy(u)
  PROVE  Target(t) # Target(u)
<1>1. ThreadInv(t) /\ ThreadInv(u)
  BY DEF IInv
<1>2. CASE req[t].kind = "post" /\ req[u].kind = "post"
  BY <1>2 DEF IInv, PostsDiffer, Busy
<1>3. CASE req[u].kind # "post"
  BY <1>1, <1>3 DEF ThreadInv, Busy
<1>4. CASE req[t].kind # "post" /\ req[u].kind = "post"
  BY <1>1, <1>4 DEF ThreadInv, Busy
<1> QED
  BY <1>2, <1>3, <1>4

(* A step of thread t: what is left to show for it.                        *)
LEMMA StepOf ==
  ASSUME IInv, TypeOK', NEW t \in Thread, ThreadInv(t)',
         \A u \in Thread \ {t} : Undisturbed(u),
         pc'[t] # "idle" /\ req'[t].kind = "post" =>
           \/ pc[t] # "idle" /\ req'[t] = req[t]
           \/ req'[t].row \in fresh,
         \A r \in fresh' : rows'[r] = Blank,
         \A e \in log' : e.id < nextId'
  PROVE  IInv'
<1>1. \A u \in Thread : ThreadInv(u)'
  BY Frame DEF IInv
<1>2. ASSUME NEW u \in Thread \ {t}, pc'[u] # "idle", pc'[t] # "idle",
             req'[u].kind = "post", req'[t].kind = "post"
      PROVE  req'[u].row # req'[t].row
  <2>1. pc[u] # "idle" /\ req[u] = req'[u]
    BY <1>2 DEF Undisturbed
  <2>2. Busy(u) /\ req[u].row \notin fresh
    BY <1>2, <2>1 DEF IInv, TypeOK, ThreadInv, Busy, Target
  <2>3. CASE pc[t] # "idle" /\ req'[t] = req[t]
    BY <1>2, <2>1, <2>3 DEF IInv, PostsDiffer, Target
  <2> QED
    BY <1>2, <2>1, <2>2, <2>3
<1>3. PostsDiffer'
  <2> SUFFICES ASSUME NEW v \in Thread, NEW w \in Thread, v # w,
                      pc'[v] # "idle", pc'[w] # "idle",
                      req'[v].kind = "post", req'[w].kind = "post"
               PROVE  req'[v].row # req'[w].row
    BY DEF PostsDiffer, Target
  <2>1. CASE v = t \/ w = t
    BY <1>2, <2>1
  <2>2. CASE v # t /\ w # t
    BY <2>2 DEF IInv, PostsDiffer, Target, Undisturbed
  <2> QED
    BY <2>1, <2>2
<1> QED
  BY <1>1, <1>3 DEF IInv

LEMMA BeginInv ==
  ASSUME IInv, TypeOK', NEW t \in Thread, Begin(t)
  PROVE  IInv'
<1>1. TypeOK
  BY DEF IInv
<1>2. ThreadInv(t)'
  BY <1>1 DEF Begin, Start, ThreadInv, TypeOK
<1>3. \A u \in Thread \ {t} : Undisturbed(u)
  BY <1>1, RowRequestsAssumption DEF Begin, Start, Undisturbed, Busy, TypeOK
<1>4. req'[t].kind # "post"
  BY <1>1 DEF Begin, TypeOK
<1> QED
  BY <1>2, <1>3, <1>4, StepOf DEF Begin, IInv

LEMMA BeginPostInv ==
  ASSUME IInv, TypeOK', NEW t \in Thread, BeginPost(t)
  PROVE  IInv'
<1>1. TypeOK
  BY DEF IInv
<1>2. PICK q \in Request : /\ q.kind = "post" /\ q.row \in fresh
                           /\ req' = [req EXCEPT ![t] = q]
                           /\ fresh' = fresh \ {q.row}
  BY DEF BeginPost
<1>3. req'[t] = q /\ pc'[t] = "save" /\ changes'[t] = {} /\ rows' = rows
  BY <1>1, <1>2 DEF BeginPost, Start, TypeOK
<1>4. \A f \in Field : loaded'[t][f] = NewInstance /\ rows'[q.row][f] = None
  BY <1>1, <1>2 DEF BeginPost, TypeOK, IInv, Blank
<1>5. ThreadInv(t)'
  BY <1>2, <1>3, <1>4, ModelAssumption DEF ThreadInv, Target, Before
<1>6. \A u \in Thread \ {t} : Undisturbed(u)
  BY <1>1, <1>2, RowRequestsAssumption DEF BeginPost, Start, Undisturbed, Busy, TypeOK
<1> QED
  BY <1>2, <1>3, <1>5, <1>6, StepOf DEF BeginPost, IInv

LEMMA ReadInv ==
  ASSUME IInv, TypeOK', NEW t \in Thread, Read(t), Kinds \subseteq LockedKinds
  PROVE  IInv'
<1>1. TypeOK
  BY DEF IInv
<1>2. req[t] \in Request /\ req[t].kind \in LockedKinds
  BY <1>1 DEF Read, TypeOK, Request
<1>3. pc'[t] = "lock" /\ req'[t] = req[t] /\ changes'[t] = changes[t]
  BY <1>1, <1>2 DEF Read, TypeOK, LockedKinds
<1>4. ThreadInv(t)'
  BY <1>3 DEF Read, ThreadInv, IInv
<1>5. \A u \in Thread \ {t} : Undisturbed(u)
  BY <1>1, RowRequestsAssumption DEF Read, Undisturbed, Busy, TypeOK
<1> QED
  BY <1>3, <1>4, <1>5, StepOf DEF Read, IInv

LEMMA LockInv ==
  ASSUME IInv, TypeOK', NEW t \in Thread, Lock(t)
  PROVE  IInv'
<1>1. TypeOK /\ ThreadInv(t)
  BY DEF IInv
<1>2. req[t] \in Request /\ req[t].row \in Row /\ req[t].kind # "post"
  BY <1>1 DEF Lock, TypeOK, Request, ThreadInv
<1>3. /\ pc'[t] = "save" /\ req' = req /\ changes'[t] = {} /\ rows' = rows
      /\ lock'[req[t].row] = t /\ loaded'[t] = rows[req[t].row]
  BY <1>1, <1>2 DEF Lock, TypeOK, ThreadInv
<1>4. \A f \in Field : Before(rows[req[t].row][f]) = rows[req[t].row][f]
  BY <1>1, <1>2, RowRequestsAssumption DEF Before, TypeOK
<1>5. ThreadInv(t)'
  BY <1>2, <1>3, <1>4 DEF Lock, ThreadInv, Target
<1>6. \A u \in Thread \ {t} : Undisturbed(u)
  BY <1>1, <1>2, RowRequestsAssumption DEF Lock, Undisturbed, Busy, TypeOK
<1> QED
  BY <1>2, <1>3, <1>5, <1>6, StepOf DEF Lock, IInv

LEMMA SaveInv ==
  ASSUME IInv, TypeOK', NEW t \in Thread, Save(t)
  PROVE  IInv'
<1>1. TypeOK /\ ThreadInv(t)
  BY DEF IInv
<1>2. req[t] \in Request /\ req[t].row \in Row
  BY <1>1 DEF Save, TypeOK, Request
<1>3. /\ pc'[t] = "history" /\ req' = req /\ loaded' = loaded
      /\ rows' = rows /\ fresh' = fresh
      /\ lock'[req[t].row] = t /\ changes[t] = {}
      /\ obj'[t] = Edited(obj[t], req[t])
      /\ changes'[t] = Differences(req[t].row, loaded[t], obj'[t])
  BY <1>1, <1>2 DEF Save, TypeOK, ThreadInv
<1>4. ThreadInv(t)'
  BY <1>1, <1>3 DEF Save, ThreadInv, Target
<1>5. \A u \in Thread \ {t} : Undisturbed(u)
  <2> SUFFICES ASSUME NEW u \in Thread \ {t}, Busy(u), lock[Target(u)] = u
               PROVE  lock'[Target(u)] = u
    BY <1>1, RowRequestsAssumption DEF Save, Undisturbed, TypeOK
  <2> QED
    BY <1>1, <1>2, RowRequestsAssumption DEF Save, TypeOK
<1> QED
  BY <1>3, <1>4, <1>5, StepOf DEF Save, IInv

LEMMA HistoryCommitInv ==
  ASSUME IInv, TypeOK', NEW t \in Thread, HistoryCommit(t)
  PROVE  IInv'
<1>1. TypeOK /\ ThreadInv(t)
  BY DEF IInv
<1>2. req[t] \in Request /\ Target(t) \in Row
  BY <1>1 DEF HistoryCommit, TypeOK, Request, Target
<1>3. /\ pc'[t] = "commit" /\ req' = req /\ loaded' = loaded /\ obj' = obj
      /\ rows' = rows /\ fresh' = fresh /\ lock' = lock /\ log' = log
  BY <1>1 DEF HistoryCommit, TypeOK
<1>4. nextId \in Id /\ nextId' \in Int /\ nextId' >= nextId
  BY <1>1, RowRequestsAssumption DEF HistoryCommit, TypeOK, Id
<1>5. Kept(t) = Differences(Target(t), loaded[t], obj[t])
  BY DEF Kept, Differences, HistoryCommit, IInv, ThreadInv
<1>6. Kept(t) = {[row |-> Target(t), field |-> f, old |-> loaded[t][f], new |-> obj[t][f]]
                   : f \in Written(t)}
  BY <1>5 DEF Differences, Written
<1>7. \A f \in Written(t) : Before(loaded[t][f]) = rows[Target(t)][f]
  BY <1>1 DEF ThreadInv, Written, HistoryCommit
<1>8. staged'[t] = {[id |-> nextId, row |-> Target(t), field |-> f,
                     before |-> rows[Target(t)][f], after |-> obj[t][f]] : f \in Written(t)}
  <2> DEFINE saved(c) == [id |-> nextId, row |-> c.row, field |-> c.field,
                          before |-> Before(c.old), after |-> c.new]
             entry(f, before) == [id |-> nextId, row |-> Target(t), field |-> f,
                                  before |-> before, after |-> obj[t][f]]
             committed == {entry(f, rows[Target(t)][f]) : f \in Written(t)}
  <2>1. staged'[t] = {saved(c) : c \in Kept(t)}
    BY <1>1 DEF HistoryCommit, TypeOK
  <2>2. ASSUME NEW c \in Kept(t) PROVE saved(c) \in committed
    <3>1. PICK f \in Written(t) : c = [row |-> Target(t), field |-> f,
                                      old |-> loaded[t][f], new |-> obj[t][f]]
      BY <1>6
    <3> QED
      BY <3>1, <1>7
  <2>3. ASSUME NEW f \in Written(t) PROVE entry(f, rows[Target(t)][f]) \in staged'[t]
    <3> DEFINE c == [row |-> Target(t), field |-> f, old |-> loaded[t][f], new |-> obj[t][f]]
    <3>1. c \in Kept(t)
      BY <1>6
    <3>2. saved(c) \in staged'[t]
      BY <2>1, <3>1
    <3> QED
      BY <3>2, <1>7
  <2>4. staged'[t] \subseteq committed
    BY <2>1, <2>2
  <2>5. committed \subseteq staged'[t]
    BY <2>3
  <2> QED
    BY <2>4, <2>5
<1>9. StagedOK(t)'
  <2>1. CASE Kept(t) = {}
    <3>1. Written(t) = {} /\ Written(t)' = {}
      BY <2>1, <1>3, <1>6 DEF Written
    <3>2. staged'[t] = {}
      BY <3>1, <1>8
    <3> QED
      BY <3>1, <3>2 DEF StagedOK
  <2>2. CASE Kept(t) # {}
    <3>1. nextId < nextId'
      BY <2>2, <1>4 DEF HistoryCommit, Id
    <3>2. \A e \in log' : e.row = Target(t)' => e.id < nextId
      BY <1>3 DEF IInv
    <3> QED
      BY <3>1, <3>2, <1>3, <1>4, <1>8 DEF StagedOK, Written, Target
  <2> QED
    BY <2>1, <2>2
<1>10. ThreadInv(t)'
  BY <1>1, <1>3, <1>9 DEF HistoryCommit, ThreadInv, Target
<1>11. \A u \in Thread \ {t} : Undisturbed(u)
  BY <1>1, <1>4 DEF HistoryCommit, Undisturbed, Busy, TypeOK
<1>12. \A e \in log' : e.id < nextId'
  BY <1>1, <1>3, <1>4, ModelAssumption DEF IInv, TypeOK, Log!Change, Id
<1> QED
  BY <1>3, <1>10, <1>11, <1>12, StepOf DEF HistoryCommit, IInv

(* A transaction ends without a commit.                                    *)
LEMMA RollbackInv ==
  ASSUME IInv, TypeOK', NEW t \in Thread, Finish(t), UNCHANGED <<rows, log, fresh>>,
         nextId' >= nextId, \A u \in Thread \ {t} : changes'[u] = changes[u]
  PROVE  IInv'
<1>1. TypeOK
  BY DEF IInv
<1>2. ThreadInv(t)'
  BY <1>1 DEF Finish, ThreadInv, TypeOK
<1>3. \A u \in Thread \ {t} : Undisturbed(u)
  <2> SUFFICES ASSUME NEW u \in Thread \ {t}, Busy(u), lock[Target(u)] = u
               PROVE  lock'[Target(u)] = u
    BY <1>1 DEF Finish, Undisturbed, TypeOK
  <2>1. Target(u) \in Row
    BY <1>1 DEF TypeOK, Busy, Target, Request
  <2> QED
    BY <2>1 DEF Finish
<1>4. \A e \in log' : e.id < nextId'
  BY <1>1, RowRequestsAssumption DEF IInv, TypeOK, Log!Change, Id
<1>5. pc'[t] = "idle"
  BY <1>1 DEF Finish, TypeOK
<1> QED
  BY <1>2, <1>3, <1>4, <1>5, StepOf DEF IInv

(* What DbCommit may rely on.                                              *)
LEMMA StagedFacts ==
  ASSUME IInv, NEW t \in Thread, pc[t] = "commit"
  PROVE  /\ Target(t) \in Row /\ Target(t) \notin fresh
         /\ \A e \in staged[t] : e.row = Target(t) /\ e.id < nextId
<1>1. TypeOK /\ ThreadInv(t) /\ StagedOK(t)
  BY DEF IInv, ThreadInv
<1>2. Target(t) \in Row
  BY <1>1 DEF TypeOK, Request, Target
<1>3. Target(t) \notin fresh
  BY <1>1, ModelAssumption DEF IInv, ThreadInv, Blank
<1>4. \A e \in staged[t] : e.row = Target(t) /\ e.id < nextId
  BY <1>1 DEF StagedOK
<1> QED
  BY <1>2, <1>3, <1>4

LEMMA DbCommitInv ==
  ASSUME IInv, TypeOK', NEW t \in Thread, DbCommit(t)
  PROVE  IInv'
<1>1. TypeOK /\ pc[t] = "commit" /\ Target(t) \in Row
  BY StagedFacts DEF IInv, DbCommit
<1>2. /\ pc'[t] = "idle" /\ nextId' = nextId /\ fresh' = fresh /\ changes' = changes
      /\ log' = log \cup staged[t]
      /\ \A r \in Row \ {Target(t)} : rows'[r] = rows[r]
  BY <1>1 DEF DbCommit, Finish, TypeOK, Target
<1>3. ThreadInv(t)'
  BY <1>2 DEF ThreadInv
<1>4. ASSUME NEW u \in Thread \ {t} PROVE Undisturbed(u)
  <2>1. /\ pc'[u] = pc[u] /\ req'[u] = req[u] /\ obj'[u] = obj[u]
        /\ loaded'[u] = loaded[u] /\ staged'[u] = staged[u]
    BY <1>1 DEF DbCommit, Finish, TypeOK
  <2>2. ASSUME Busy(u)
        PROVE  /\ Target(u) \in Row /\ Target(u) # Target(t)
               /\ lock[Target(u)] = u => lock'[Target(u)] = u
    <3>1. Target(u) \in Row
      BY <1>1, <2>2 DEF Busy, TypeOK, Request, Target
    <3> QED
      BY <1>1, <2>2, <3>1, OneWriter DEF DbCommit, Finish
  <2>3. ASSUME Busy(u), NEW e \in log', e.row = Target(u) PROVE e \in log
    BY <1>1, <1>2, <2>2, <2>3, StagedFacts
  <2>4. Busy(u) => rows'[Target(u)] = rows[Target(u)]
    BY <1>2, <2>2
  <2>5. nextId' >= nextId
    BY <1>1, <1>2, RowRequestsAssumption DEF TypeOK
  <2> QED
    BY <1>2, <2>1, <2>2, <2>3, <2>4, <2>5 DEF Undisturbed
<1>5. \A r \in fresh' : rows'[r] = Blank
  BY <1>1, <1>2, StagedFacts DEF IInv, TypeOK
<1>6. \A e \in log' : e.id < nextId'
  BY <1>1, <1>2, StagedFacts DEF IInv
<1> QED
  BY <1>2, <1>3, <1>4, <1>5, <1>6, StepOf

LEMMA StepInv ==
  ASSUME Kinds \subseteq LockedKinds
  PROVE  IInv /\ [Next]_vars => IInv'
<1> SUFFICES ASSUME IInv, [Next]_vars PROVE IInv'
  OBVIOUS
<1>1. TypeOK /\ TypeOK'
  BY TypeStep DEF IInv
<1>2. ASSUME UNCHANGED vars PROVE IInv'
  <2>1. \A t \in Thread : ThreadInv(t)'
    <3> TAKE t \in Thread
    <3>1. ThreadInv(t) /\ nextId' >= nextId
      BY <1>1, <1>2, RowRequestsAssumption DEF IInv, TypeOK, vars
    <3>2. Undisturbed(t)
      BY <1>2, <3>1 DEF vars, Undisturbed
    <3> QED
      BY <1>1, <3>1, <3>2, Frame
  <2>2. PostsDiffer'
    BY <1>2 DEF vars, IInv, PostsDiffer, Target
  <2> QED
    BY <1>1, <1>2, <2>1, <2>2 DEF vars, IInv
<1>3. ASSUME NEW t \in Thread, Stop(t), Rollback(t) PROVE IInv'
  <2>1. nextId' >= nextId /\ \A u \in Thread \ {t} : changes'[u] = changes[u]
    BY <1>1, <1>3, RowRequestsAssumption DEF Stop, Rollback, TypeOK
  <2> QED
    BY <1>1, <1>3, <2>1, RollbackInv DEF Rollback
<1>4. ASSUME NEW t \in Thread, HistoryCommitFails(t) PROVE IInv'
  <2>1. nextId' >= nextId /\ \A u \in Thread \ {t} : changes'[u] = changes[u]
    BY <1>1, <1>4, RowRequestsAssumption DEF HistoryCommitFails, TypeOK
  <2> QED
    BY <1>1, <1>4, <2>1, RollbackInv DEF HistoryCommitFails
<1>5. ASSUME NEW t \in Thread, DbCommitFails(t) PROVE IInv'
  <2>1. nextId' >= nextId
    BY <1>1, <1>5, RowRequestsAssumption DEF DbCommitFails, Rollback, TypeOK
  <2> QED
    BY <1>1, <1>5, <2>1, RollbackInv DEF DbCommitFails, Rollback
<1> QED
  BY <1>1, <1>2, <1>3, <1>4, <1>5, BeginInv, BeginPostInv, ReadInv, LockInv, SaveInv,
     HistoryCommitInv, DbCommitInv
  DEF Next, Progress, Failure, NotFound, Refuse, Abort, Crash

-----------------------------------------------------------------------------

(* Refinement.                                                             *)

LEMMA InitRefines == Init => Log!LogInit
<1> SUFFICES ASSUME Init PROVE Log!LogInit
  OBVIOUS
<1>1. \A r \in Row : IF r \in InitialRows THEN Exists(rows[r]) ELSE rows[r] = Blank
  BY ModelAssumption, FieldFacts DEF Init, NewRow, Blank
<1>2. {q \in Row : Exists(rows[q])} = InitialRows
  BY <1>1, ModelAssumption, RowRequestsAssumption DEF Blank
<1> QED
  BY <1>1, <1>2, TypeInit DEF Log!LogInit, Init, TypeOK, Blank

LEMMA CommitRefines ==
  ASSUME IInv, TypeOK', NEW t \in Thread, DbCommit(t)
  PROVE  Log!LogNext \/ UNCHANGED Log!logVars
<1>1. TypeOK /\ ThreadInv(t) /\ pc[t] = "commit" /\ Target(t) \in Row
  BY StagedFacts DEF IInv, DbCommit
<1>2. /\ rows' = [rows EXCEPT ![Target(t)] = obj[t]]
      /\ rows'[Target(t)] = obj[t] /\ obj[t] \in RowState
      /\ log' = log \cup staged[t]
  BY <1>1 DEF DbCommit, TypeOK, Target
<1>3. \A f \in Field \ Written(t) : obj[t][f] = rows[Target(t)][f]
  BY <1>1, RowRequestsAssumption DEF ThreadInv, Written, Before, TypeOK
<1>4. CASE staged[t] = {} /\ Written(t) = {}
  <2>1. obj[t] = rows[Target(t)]
    BY <1>1, <1>2, <1>3, <1>4 DEF TypeOK
  <2> QED
    BY <1>1, <1>2, <1>4, <2>1 DEF Log!logVars, TypeOK
<1>5. ASSUME NEW i \in Id,
             \A e \in log : e.row = Target(t) => e.id < i,
             staged[t] = {[id |-> i, row |-> Target(t), field |-> f,
                           before |-> rows[Target(t)][f], after |-> obj[t][f]]
                            : f \in Written(t)}
      PROVE  Log!Record(Target(t), Written(t), i)
  BY <1>2, <1>3, <1>5 DEF Log!Record
<1>6. Written(t) \in SUBSET Field
  BY DEF Written
<1> QED
  BY <1>1, <1>4, <1>5, <1>6 DEF ThreadInv, StagedOK, Log!LogNext

LEMMA StepRefines ==
  ASSUME IInv, IInv', [Next]_vars
  PROVE  [Log!LogNext]_(Log!logVars)
<1>1. CASE UNCHANGED <<rows, log>>
  BY <1>1 DEF Log!logVars
<1>2. ASSUME NEW t \in Thread, DbCommit(t) PROVE [Log!LogNext]_(Log!logVars)
  BY <1>2, CommitRefines DEF IInv
<1> QED
  BY <1>1, <1>2
  DEF Next, vars, Progress, Failure, Begin, BeginPost, Read, Lock, Save, HistoryCommit,
      NotFound, Refuse, Abort, HistoryCommitFails, DbCommitFails, Crash, Rollback

(* As long as every handler loads the row it saves under its lock, the     *)
(* threads implement the log: every commit is one step of HistoryLog.      *)
THEOREM HistoryIsImplemented ==
  ASSUME Kinds \subseteq LockedKinds
  PROVE  Spec => HistoryImplemented
<1>1. Spec => []IInv
  BY InitInv, StepInv, PTL DEF Spec
<1>2. IInv /\ IInv' /\ [Next]_vars => [Log!LogNext]_(Log!logVars)
  BY StepRefines
<1> QED
  BY <1>1, <1>2, InitRefines, PTL DEF Spec, HistoryImplemented, Log!LogSpec

(* Hence the newest change of a field is what the database holds, each     *)
(* change starts where the previous one ended, and nothing is missing.     *)
THEOREM HistoryExplainsRows ==
  ASSUME Kinds \subseteq LockedKinds
  PROVE  Spec => [](NewestIsCurrent /\ Chained /\ Accounted)
BY HistoryIsImplemented, LogExplainsRows, PTL DEF HistoryImplemented

-----------------------------------------------------------------------------

(* What a commit makes of a row: nothing but what its request asks for.    *)

(* A post has a key that nothing is known of; another request's instance   *)
(* is the committed row, and after the save that row with one field        *)
(* edited, which BinderIsDeleted has not refused.                          *)
Asked(t) == Busy(t) =>
  /\ req[t].kind = "post" => rows[Target(t)] = Blank /\ \A e \in log : e.row # Target(t)
  /\ req[t].kind # "post" /\ pc[t] = "save" => obj[t] = rows[Target(t)]
  /\ req[t].kind # "post" /\ pc[t] # "save" =>
       /\ obj[t] = Edited(rows[Target(t)], req[t])
       /\ Target(t) \in SoftRow /\ rows[Target(t)]["deleted"] = "deleted"
            => req[t].kind \notin {"put", "delete"}

AskedInv == /\ IInv
            /\ \A t \in Thread : Asked(t)
            /\ \A e \in log : e.row \notin fresh

LEMMA AskedInit == Init => AskedInv
<1> SUFFICES ASSUME Init PROVE AskedInv
  OBVIOUS
<1>1. \A t \in Thread : Asked(t)
  BY DEF Init, Asked, Busy
<1>2. \A e \in log : e.row \notin fresh
  BY DEF Init, Log!Creation
<1> QED
  BY <1>1, <1>2, InitInv DEF AskedInv

LEMMA AskedFrame ==
  ASSUME NEW u \in Thread, Asked(u),
         pc'[u] = pc[u], req'[u] = req[u], obj'[u] = obj[u],
         Busy(u) => /\ rows'[Target(u)] = rows[Target(u)]
                    /\ \A e \in log' : e.row = Target(u) => e \in log
  PROVE  Asked(u)'
<1>1. Target(u)' = Target(u) /\ (Busy(u)' <=> Busy(u))
  BY DEF Target, Busy
<1> QED
  BY <1>1 DEF Asked

(* A step of t that commits nothing.                                       *)
LEMMA AskedStepOf ==
  ASSUME AskedInv, IInv', NEW t \in Thread, Asked(t)',
         UNCHANGED <<rows, log>>, fresh' \subseteq fresh,
         \A u \in Thread \ {t} : pc'[u] = pc[u] /\ req'[u] = req[u] /\ obj'[u] = obj[u]
  PROVE  AskedInv'
<1>1. \A u \in Thread \ {t} : Asked(u)'
  BY AskedFrame DEF AskedInv
<1> QED
  BY <1>1 DEF AskedInv

LEMMA AskedFinish ==
  ASSUME AskedInv, IInv', NEW t \in Thread, Finish(t), UNCHANGED <<rows, log, fresh>>
  PROVE  AskedInv'
<1>1. TypeOK
  BY DEF AskedInv, IInv
<1>2. Asked(t)'
  BY <1>1 DEF Finish, Asked, Busy, TypeOK
<1>3. \A u \in Thread \ {t} : pc'[u] = pc[u] /\ req'[u] = req[u] /\ obj'[u] = obj[u]
  BY <1>1 DEF Finish, TypeOK
<1> QED
  BY <1>2, <1>3, AskedStepOf

LEMMA AskedCommit ==
  ASSUME AskedInv, IInv', NEW t \in Thread, DbCommit(t)
  PROVE  AskedInv'
<1>1. IInv /\ TypeOK /\ pc[t] = "commit" /\ Target(t) \in Row
  BY StagedFacts DEF AskedInv, IInv, DbCommit
<1>2. /\ pc'[t] = "idle" /\ fresh' = fresh /\ log' = log \cup staged[t]
      /\ \A r \in Row \ {Target(t)} : rows'[r] = rows[r]
  BY <1>1 DEF DbCommit, Finish, TypeOK, Target
<1>3. Asked(t)'
  BY <1>2 DEF Asked, Busy
<1>4. ASSUME NEW u \in Thread \ {t} PROVE Asked(u)'
  <2>1. pc'[u] = pc[u] /\ req'[u] = req[u] /\ obj'[u] = obj[u]
    BY <1>1 DEF DbCommit, Finish, TypeOK
  <2>2. ASSUME Busy(u) PROVE Target(u) \in Row /\ Target(u) # Target(t)
    BY <1>1, <2>2, OneWriter DEF Busy, TypeOK, Request, Target
  <2>3. ASSUME Busy(u), NEW e \in log', e.row = Target(u) PROVE e \in log
    BY <1>1, <1>2, <2>2, <2>3, StagedFacts
  <2>4. Busy(u) => rows'[Target(u)] = rows[Target(u)]
    BY <1>2, <2>2
  <2> QED
    BY <2>1, <2>3, <2>4, AskedFrame DEF AskedInv
<1>5. \A e \in log' : e.row \notin fresh'
  BY <1>1, <1>2, StagedFacts DEF AskedInv
<1> QED
  BY <1>3, <1>4, <1>5 DEF AskedInv

LEMMA AskedSave ==
  ASSUME AskedInv, IInv', NEW t \in Thread, Save(t)
  PROVE  AskedInv'
<1>1. TypeOK /\ Asked(t)
  BY DEF AskedInv, IInv
<1>2. /\ pc[t] = "save" /\ pc'[t] = "history" /\ req' = req
      /\ obj'[t] = Edited(obj[t], req[t]) /\ UNCHANGED <<rows, log, fresh>>
      /\ \A u \in Thread \ {t} : pc'[u] = pc[u] /\ req'[u] = req[u] /\ obj'[u] = obj[u]
  BY <1>1 DEF Save, TypeOK
<1>3. ASSUME Target(t) \in SoftRow, obj[t]["deleted"] = "deleted"
      PROVE  req[t].kind \notin {"put", "delete"}
  BY <1>3 DEF Save, Refused, Target
<1>4. Asked(t)'
  BY <1>1, <1>2, <1>3 DEF Asked, Busy, Target
<1> QED
  BY <1>2, <1>4, AskedStepOf

LEMMA AskedStep ==
  ASSUME Kinds \subseteq LockedKinds
  PROVE  AskedInv /\ [Next]_vars => AskedInv'
<1> SUFFICES ASSUME AskedInv, [Next]_vars PROVE AskedInv'
  OBVIOUS
<1>1. IInv /\ IInv' /\ TypeOK
  BY StepInv DEF AskedInv, IInv
<1>2. ASSUME UNCHANGED vars PROVE AskedInv'
  <2>1. \A u \in Thread : Asked(u)'
    BY <1>2, AskedFrame DEF AskedInv, vars
  <2> QED
    BY <1>1, <1>2, <2>1 DEF AskedInv, vars
<1>3. ASSUME NEW t \in Thread, Begin(t) PROVE AskedInv'
  <2>1. Asked(t)'
    BY <1>1, <1>3 DEF Begin, Asked, Busy, TypeOK
  <2> QED
    BY <1>1, <1>3, <2>1, AskedStepOf DEF Begin, TypeOK
<1>4. ASSUME NEW t \in Thread, BeginPost(t) PROVE AskedInv'
  <2>1. PICK q \in Request : /\ q.kind = "post" /\ q.row \in fresh
                             /\ req' = [req EXCEPT ![t] = q]
                             /\ fresh' = fresh \ {q.row}
    BY <1>4 DEF BeginPost
  <2>2. req'[t] = q /\ UNCHANGED <<rows, log>>
    BY <1>1, <1>4, <2>1 DEF BeginPost, TypeOK
  <2>3. rows[q.row] = Blank /\ \A e \in log : e.row # q.row
    BY <2>1 DEF AskedInv, IInv
  <2>4. Asked(t)'
    BY <2>1, <2>2, <2>3 DEF Asked, Target
  <2>5. \A u \in Thread \ {t} : pc'[u] = pc[u] /\ req'[u] = req[u] /\ obj'[u] = obj[u]
    BY <1>1, <1>4, <2>1 DEF BeginPost, TypeOK
  <2> QED
    BY <1>1, <2>1, <2>2, <2>4, <2>5, AskedStepOf
<1>5. ASSUME NEW t \in Thread, Read(t) PROVE AskedInv'
  <2>1. req[t].kind # "upload"
    BY <1>1, <1>5 DEF Read, TypeOK, Request, LockedKinds
  <2>2. Asked(t)'
    BY <1>1, <1>5, <2>1 DEF Read, Asked, Busy, TypeOK
  <2> QED
    BY <1>1, <1>5, <2>1, <2>2, AskedStepOf DEF Read, TypeOK
<1>6. ASSUME NEW t \in Thread, Lock(t) PROVE AskedInv'
  <2>1. req[t].kind # "post"
    BY <1>1, <1>6 DEF Lock, IInv, ThreadInv
  <2>2. pc'[t] = "save" /\ req' = req /\ obj'[t] = rows[Target(t)] /\ rows' = rows
    BY <1>1, <1>6 DEF Lock, TypeOK, Target
  <2>3. Asked(t)'
    BY <2>1, <2>2 DEF Asked, Target
  <2> QED
    BY <1>1, <1>6, <2>3, AskedStepOf DEF Lock, TypeOK
<1>7. ASSUME NEW t \in Thread, HistoryCommit(t) PROVE AskedInv'
  <2>1. /\ pc[t] = "history" /\ pc'[t] = "commit" /\ UNCHANGED <<rows, log, req, obj>>
    BY <1>1, <1>7 DEF HistoryCommit, TypeOK
  <2>2. Asked(t)'
    BY <2>1 DEF Asked, Busy, Target, AskedInv
  <2> QED
    BY <1>1, <1>7, <2>2, AskedStepOf DEF HistoryCommit, TypeOK
<1>8. ASSUME NEW t \in Thread, Finish(t), UNCHANGED <<rows, log, fresh>> PROVE AskedInv'
  BY <1>1, <1>8, AskedFinish
<1> QED
  BY <1>1, <1>2, <1>3, <1>4, <1>5, <1>6, <1>7, <1>8, AskedSave, AskedCommit
  DEF Next, Progress, Failure, NotFound, Refuse, Abort, Crash, Rollback, HistoryCommitFails,
      DbCommitFails

(* What a commit does to the row of its request, and to no other.          *)
LEMMA CommitFacts ==
  ASSUME AskedInv, NEW t \in Thread, DbCommit(t)
  PROVE  /\ Target(t) \in Row /\ rows'[Target(t)] = obj[t]
         /\ \A r \in Row \ {Target(t)} : rows'[r] = rows[r]
         /\ Exists(rows[Target(t)]) <=> req[t].kind # "post"
         /\ Busy(t) /\ pc[t] # "save" /\ req[t] \in Request
<1>1. TypeOK /\ ThreadInv(t) /\ pc[t] = "commit" /\ Target(t) \in Row
  BY StagedFacts DEF AskedInv, IInv, DbCommit
<1> QED
  BY <1>1 DEF DbCommit, TypeOK, Target, ThreadInv, Busy

(* Only a commit changes rows.                                             *)
LEMMA OnlyCommits ==
  ASSUME [Next]_vars, rows' # rows
  PROVE  \E t \in Thread : DbCommit(t)
BY DEF Next, vars, Progress, Failure, Begin, BeginPost, Read, Lock, Save, HistoryCommit,
   NotFound, Refuse, Abort, HistoryCommitFails, DbCommitFails, Crash, Rollback

LEMMA AskedAlways ==
  ASSUME Kinds \subseteq LockedKinds
  PROVE  Spec => []AskedInv
BY AskedInit, AskedStep, PTL DEF Spec

(* As long as every handler locks, a commit changes the field its request  *)
(* asks for and keeps what others have committed in all other fields.      *)
THEOREM NothingIsLost ==
  ASSUME Kinds \subseteq LockedKinds
  PROVE  Spec => NoLostUpdate
<1>1. ASSUME AskedInv, [Next]_vars, NEW t \in Thread, NEW r \in Row,
             rows'[r] # rows[r], DbCommit(t)
      PROVE  r = req[t].row /\ (Exists(rows[r]) => rows'[r] = Edited(rows[r], req[t]))
  <2>1. r = Target(t)
    BY <1>1, CommitFacts
  <2>2. Asked(t)
    BY <1>1 DEF AskedInv
  <2> QED
    BY <1>1, <2>1, <2>2, CommitFacts DEF Asked, Target
<1>2. AskedInv /\ [Next]_vars =>
        [\A t \in Thread, r \in Row :
           rows'[r] # rows[r] /\ DbCommit(t)
             => r = req[t].row /\ (Exists(rows[r]) => rows'[r] = Edited(rows[r], req[t]))]_vars
  BY <1>1
<1> QED
  BY <1>2, AskedAlways, PTL DEF Spec, NoLostUpdate

(* A soft-deleted row only ever comes back, as it was.                     *)
THEOREM DeletedRowsStay ==
  ASSUME Kinds \subseteq LockedKinds
  PROVE  Spec => DeletedRowsFrozen
<1>1. ASSUME AskedInv, [Next]_vars, NEW r \in Row,
             r \in SoftRow, rows[r]["deleted"] = "deleted", rows'[r] # rows[r]
      PROVE  rows'[r] = [rows[r] EXCEPT !["deleted"] = "live"]
  <2>1. PICK t \in Thread : DbCommit(t)
    BY <1>1, OnlyCommits
  <2>2. r = Target(t) /\ Asked(t) /\ req[t] \in Request
    BY <1>1, <2>1, CommitFacts DEF AskedInv
  <2>3. req[t].kind # "post"
    BY <1>1, <2>1, <2>2, CommitFacts, ModelAssumption, FieldFacts DEF Asked, Blank
  <2>4. req[t].kind = "undelete"
    BY <1>1, <2>1, <2>2, <2>3, CommitFacts DEF Asked, Request, LockedKinds
  <2>5. req[t].field = "deleted" /\ req[t].val = "live"
    BY <2>2, <2>4 DEF Request, Assigns
  <2>6. Edited(rows[r], req[t]) = [rows[r] EXCEPT !["deleted"] = "live"]
    BY <2>5 DEF Edited
  <2>7. rows'[r] = Edited(rows[r], req[t])
    BY <1>1, <2>1, <2>2, <2>3, CommitFacts DEF Asked
  <2> QED
    BY <2>6, <2>7
<1>2. AskedInv /\ [Next]_vars =>
        [\A r \in Row :
           LET s == rows[r] IN
             r \in SoftRow /\ s["deleted"] = "deleted" /\ rows'[r] # s
               => rows'[r] = [s EXCEPT !["deleted"] = "live"]]_rows
  BY <1>1
<1> QED
  BY <1>2, AskedAlways, PTL DEF Spec, DeletedRowsFrozen

(* A key that was deleted is never used again.                             *)
THEOREM KeysStayGone ==
  ASSUME Kinds \subseteq LockedKinds
  PROVE  Spec => GoneForGood
<1>1. ASSUME AskedInv, [Next]_vars, NEW r \in Row,
             ~Exists(rows[r]), Exists(rows'[r])
      PROVE  \A e \in log : e.row # r
  <2>1. PICK t \in Thread : DbCommit(t)
    BY <1>1, OnlyCommits
  <2>2. r = Target(t) /\ Asked(t)
    BY <1>1, <2>1, CommitFacts DEF AskedInv
  <2> QED
    BY <1>1, <2>1, <2>2, CommitFacts DEF Asked
<1>2. AskedInv /\ [Next]_vars =>
        [\A r \in Row : ~Exists(rows[r]) /\ Exists(rows'[r])
           => \A e \in log : e.row # r]_vars
  BY <1>1
<1> QED
  BY <1>2, AskedAlways, PTL DEF Spec, GoneForGood
=============================================================================
