---------------------------- MODULE DispatchProofs ----------------------------
(***************************************************************************)
(* What the nested transactions of a request promise, for any number of    *)
(* databases and of requests in a multi-request.                           *)
(***************************************************************************)
EXTENDS Dispatch, TLAPS

(* Which blocks a database is in.                                          *)
InBlock(d, l) ==
  \/ l = Multi /\ d = default /\ multi /\ phase # "done"
  \/ l = View /\ d = default /\ view = "permission"
       /\ phase \in {"enter", "handler", "history", "exit", "check"}
  \/ l = Inner /\ phase \in {"handler", "history"}
  \/ l = Inner /\ phase = "exit" /\ \E k \in 1..left : Databases[k] = d

OpenInv == /\ \A d \in Db, l \in Level : l \in open[d] <=> InBlock(d, l)
           /\ \A d \in Db, l \in Level : l \notin open[d] => work[d][l] = {}

(* In the default database nothing is durable before the last block ends.  *)
MultiInv == /\ multi /\ phase # "done" => base[default] = {}
            /\ FailedMultiUndone

(* A callback is never kept without the row it was registered for.         *)
WithRow(ws) == \A i \in Sub : W(i, "callback") \in ws => W(i, "row") \in ws

CallInv == /\ WithRow(base[default]) /\ \A l \in Level : WithRow(work[default][l])
           /\ phase = "handler" /\ <<default, sub>> \in made
                => W(sub, "row") \in work[default][Inner]

(* Where the rows of a request may be.                                     *)
Nowhere(i) == /\ W(i, "row") \notin base[default]
              /\ \A l \in Level : W(i, "row") \notin work[default][l]

FreshInv == phase # "done" => \A i \in Sub : i > sub \/ (i = sub /\ phase \in {"view", "enter"})
                                 => Nowhere(i) /\ <<default, i>> \notin made

ViewInv == /\ phase = "check" => view = "permission"
           /\ view = "permission" /\ phase \in {"handler", "history", "exit", "check"}
                => W(sub, "row") \notin base[default] /\ W(sub, "row") \notin work[default][Multi]

UnscopedInv == \A i \in unscoped : /\ Nowhere(i)
                                   /\ i < sub \/ (i = sub /\ phase \in {"answer", "done"})

RowInv == FreshInv /\ ViewInv /\ UnscopedInv

(* A write is in a database, durable or not.                               *)
Here(d, w) == w \in base[d] \/ \E l \in Level : w \in work[d][l]

(* Whose writes are in the blocks: each request writes for itself, and what *)
(* it wrote stays in its own blocks until they end.                        *)
OwnInv ==
  /\ phase # "done" => \A d \in Db, w \in Write :
       w.sub > sub \/ (w.sub = sub /\ phase \in {"view", "enter"}) => ~Here(d, w)
  /\ \A d \in Db : \A w \in work[d][Inner] : w.sub = sub
  /\ \A w \in work[default][View] : w.sub = sub
  /\ view = "permission" /\ phase \in {"handler", "history", "exit", "check"}
       => \A w \in base[default] \cup work[default][Multi] : w.sub # sub

MadeInv == \A d \in Db, i \in Sub : Here(d, W(i, "row")) => <<d, i>> \in made

(* No exception is on its way, and no error was answered.                  *)
PhaseInv == /\ phase \in {"view", "enter", "handler"} => exc = "none" /\ status = "ok"
            /\ phase \in {"history", "done"} => exc = "none"

(* Until something fails no row is lost.                                   *)
AllKept == \A m \in made : Here(m[1], W(m[2], "row"))
KeptInv == (phase \in {"history", "exit"} /\ exc = "none") \/ ~Failed => AllKept

(* The rows of a plain view are in the blocks of its dispatch, and these   *)
(* end alike.                                                              *)
NoRows == \A d \in Db, i \in Sub : W(i, "row") \notin base[d]
PlainInv == ~multi /\ view = "plain" /\ ~broken =>
  /\ phase \in {"view", "enter", "handler", "history"} \/ (phase = "exit" /\ exc # "none")
       => NoRows
  /\ phase \in {"answer", "done"} => NoRows \/ AllKept

(* Rows are with their Changeset, and a Changeset is where a row is.       *)
WithLog(ws) == \A i \in Sub : W(i, "row") \in ws => W(i, "log") \in ws
LogInv ==
  /\ WithLog(base[default]) /\ WithLog(work[default][Multi]) /\ WithLog(work[default][View])
  /\ phase = "exit" /\ exc = "none" => WithLog(work[default][Inner])
ToldInv == ~broken => \A i \in Sub : Here(default, W(i, "log")) =>
  /\ \E d \in Db : Here(d, W(i, "row"))
  /\ ~(i = sub /\ (phase \in {"handler", "history"} \/ (phase = "exit" /\ exc # "none")))

EndInv == OwnInv /\ MadeInv /\ PhaseInv /\ KeptInv /\ PlainInv /\ LogInv /\ ToldInv

IInv == TypeOK /\ OpenInv /\ MultiInv /\ CallInv /\ RowInv /\ EndInv

-----------------------------------------------------------------------------

(* Types.                                                                  *)

LEMMA DbFacts == /\ default \in Db /\ Len(Databases) \in Nat /\ MaxSubs \in Nat \ {0}
                 /\ \A i \in 1..Len(Databases) : Databases[i] \in Db
BY DispatchAssumption DEF Db

(* The end of a block: what it keeps goes to the next one out.             *)
DataType == /\ base \in [Db -> SUBSET Write] /\ open \in [Db -> SUBSET Level]
            /\ work \in [Db -> [Level -> SUBSET Write]]

Others(d) == \A e \in Db \ {d} : base'[e] = base[e] /\ work'[e] = work[e] /\ open'[e] = open[e]

ToBase(d, l, ws) == /\ \A k \in open[d] : k >= l
                    /\ base'[d] = base[d] \cup ws
                    /\ \A m \in Level \ {l} : work'[d][m] = work[d][m]

ToBlock(d, l, ws) == /\ base'[d] = base[d]
                     /\ \E k \in open[d] :
                          /\ k < l /\ \A m \in open[d] : m < l => m <= k
                          /\ work'[d][k] = work[d][k] \cup ws
                          /\ \A m \in Level \ {l, k} : work'[d][m] = work[d][m]

Ended(d, l, ws) == /\ open'[d] = open[d] \ {l} /\ work'[d][l] = {}
                   /\ ToBase(d, l, ws) \/ ToBlock(d, l, ws)

LEMMA LeaveFacts ==
  ASSUME TypeOK, NEW d \in Db, NEW l \in Level, NEW ws \in SUBSET Write, Leave(d, l, ws)
  PROVE  DataType' /\ Others(d) /\ Ended(d, l, ws)
<1> USE DEF DataType, Others, Ended, ToBase, ToBlock
<1>1. /\ open \in [Db -> SUBSET Level] /\ base \in [Db -> SUBSET Write]
      /\ work \in [Db -> [Level -> SUBSET Write]]
  BY DEF TypeOK
<1>2. open' = [open EXCEPT ![d] = @ \ {l}]
  BY DEF Leave
<1>3. CASE Outermost(d, l)
  <2>1. base' = [base EXCEPT ![d] = @ \cup ws] /\ work' = [work EXCEPT ![d][l] = {}]
    BY <1>3 DEF Leave
  <2> QED
    BY <1>1, <1>2, <1>3, <2>1 DEF Outermost
<1>4. CASE ~Outermost(d, l)
  <2> DEFINE k == Within(d, l)
  <2>1. k \in open[d] /\ k < l /\ \A m \in open[d] : m < l => m <= k
    <3>1. \E n \in open[d] : n < l /\ \A m \in open[d] : m < l => m <= n
      <4>1. open[d] \subseteq {1, 2, 3} /\ l \in {1, 2, 3}
        BY <1>1 DEF Level, Multi, View, Inner
      <4>2. \E n \in open[d] : n < l
        BY <1>4, <4>1 DEF Outermost
      <4> QED
        BY <4>1, <4>2
    <3> QED
      BY <3>1 DEF Within
  <2>2. base' = base /\ work' = [work EXCEPT ![d][l] = {}, ![d][k] = @ \cup ws]
    BY <1>4 DEF Leave
  <2>3. k \in Level /\ k # l
    BY <1>1, <2>1 DEF Level, Multi, View, Inner
  <2> HIDE DEF k
  <2>4. work' = [work EXCEPT ![d] = [work[d] EXCEPT ![l] = {}, ![k] = work[d][k] \cup ws]]
    BY <1>1, <2>2, <2>3
  <2>5. work[d] \in [Level -> SUBSET Write] /\ ws \subseteq Write
    BY <1>1
  <2>6. work' \in [Db -> [Level -> SUBSET Write]]
    BY <1>1, <2>3, <2>4, <2>5
  <2>7. work'[d] = [work[d] EXCEPT ![l] = {}, ![k] = work[d][k] \cup ws]
    BY <1>1, <2>4
  <2>8. /\ work'[d][l] = {} /\ work'[d][k] = work[d][k] \cup ws
        /\ \A m \in Level \ {l, k} : work'[d][m] = work[d][m]
    BY <2>3, <2>5, <2>7
  <2>9. /\ base' \in [Db -> SUBSET Write] /\ open' \in [Db -> SUBSET Level]
        /\ base'[d] = base[d] /\ open'[d] = open[d] \ {l}
        /\ \A e \in Db \ {d} : base'[e] = base[e] /\ work'[e] = work[e] /\ open'[e] = open[e]
    BY <1>1, <1>2, <2>2, <2>4
  <2> QED
    BY <2>1, <2>6, <2>8, <2>9
<1> QED
  BY <1>3, <1>4

LEMMA PutFacts ==
  ASSUME TypeOK, NEW d \in Db, NEW w \in Write, Put(d, w)
  PROVE  /\ open' = open
         /\ base' \in [Db -> SUBSET Write] /\ work' \in [Db -> [Level -> SUBSET Write]]
         /\ \A e \in Db \ {d} : base'[e] = base[e] /\ work'[e] = work[e]
         /\ Inner \in open[d] => /\ base'[d] = base[d]
                                 /\ work'[d][Inner] = work[d][Inner] \cup {w}
                                 /\ \A m \in Level \ {Inner} : work'[d][m] = work[d][m]
<1>1. /\ open \in [Db -> SUBSET Level] /\ base \in [Db -> SUBSET Write]
      /\ work \in [Db -> [Level -> SUBSET Write]]
  BY DEF TypeOK
<1>2. CASE open[d] = {}
  BY <1>1, <1>2 DEF Put
<1>3. CASE open[d] # {}
  <2> DEFINE l == CHOOSE l \in open[d] : \A k \in open[d] : k <= l
  <2>1. open[d] \subseteq {1, 2, 3}
    BY <1>1 DEF Level, Multi, View, Inner
  <2>2. \E n \in open[d] : \A k \in open[d] : k <= n
    BY <1>3, <2>1
  <2>3. l \in open[d] /\ \A k \in open[d] : k <= l
    BY <2>2
  <2>4. Inner \in open[d] => l = Inner
    BY <2>1, <2>3 DEF Inner
  <2>5. base' = base /\ work' = [work EXCEPT ![d][l] = @ \cup {w}]
    BY <1>3 DEF Put
  <2> HIDE DEF l
  <2> QED
    BY <1>1, <2>1, <2>3, <2>4, <2>5 DEF Put, Level, Multi, View, Inner
<1> QED
  BY <1>2, <1>3

(* However a block ends, it keeps no callback without its row.             *)
Ends(d, l) == Release(d, l) \/ RollBack(d, l) \/ CommitFails(d, l) \/ CallbackFails(d, l)

LEMMA EndIsLeave ==
  ASSUME TypeOK, NEW d \in Db, NEW l \in Level, Ends(d, l)
  PROVE  \E ws \in SUBSET Write : /\ Leave(d, l, ws) /\ ws \subseteq work[d][l]
                                  /\ WithRow(work[d][l]) => WithRow(ws)
<1>1. work[d][l] \in SUBSET Write
  BY DEF TypeOK
<1>2. CASE Release(d, l)
  BY <1>1, <1>2 DEF Release
<1>3. CASE RollBack(d, l) \/ CommitFails(d, l)
  <2>1. WithRow({})
    BY DEF WithRow
  <2> QED
    BY <1>3, <2>1 DEF RollBack, CommitFails
<1>4. CASE CallbackFails(d, l)
  <2>1. PICK ws \in SUBSET work[d][l] : /\ \A w \in work[d][l] \ ws : w.what = "callback"
                                        /\ Leave(d, l, ws)
    BY <1>4 DEF CallbackFails
  <2>2. WithRow(work[d][l]) => WithRow(ws)
    BY <2>1 DEF WithRow, W
  <2> QED
    BY <1>1, <2>1, <2>2
<1> QED
  BY <1>2, <1>3, <1>4 DEF Ends

LEMMA EndFacts ==
  ASSUME TypeOK, NEW d \in Db, NEW l \in Level, Ends(d, l)
  PROVE  /\ DataType' /\ Others(d)
         /\ \E ws \in SUBSET work[d][l] : /\ Ended(d, l, ws)
                                          /\ WithRow(work[d][l]) => WithRow(ws)
<1>1. PICK ws \in SUBSET Write : /\ Leave(d, l, ws) /\ ws \subseteq work[d][l]
                                 /\ WithRow(work[d][l]) => WithRow(ws)
  BY EndIsLeave
<1>2. DataType' /\ Others(d) /\ Ended(d, l, ws)
  BY <1>1, LeaveFacts
<1> QED
  BY <1>1, <1>2

LEMMA TypeInit == Init => TypeOK
<1> SUFFICES ASSUME Init PROVE TypeOK
  OBVIOUS
<1>1. /\ base \in [Db -> SUBSET Write] /\ open \in [Db -> SUBSET Level]
      /\ work \in [Db -> [Level -> SUBSET Write]]
  BY DEF Init, Nothing
<1>2. left \in 0..Len(Databases) /\ sub \in Sub
  BY DbFacts DEF Init, Sub
<1> QED
  BY <1>1, <1>2 DEF Init, TypeOK

LEMMA WIsWrite == ASSUME NEW i \in Sub, NEW what \in {"row", "log", "callback"}
                  PROVE  W(i, what) \in Write
BY DEF W, Write

LEMMA EnterType == ASSUME TypeOK, NEW D, NEW l \in Level, Enter(D, l)
                   PROVE  open' \in [Db -> SUBSET Level]
<1>1. open \in [Db -> SUBSET Level]
  BY DEF TypeOK
<1>2. \A d \in Db : (IF d \in D THEN open[d] \cup {l} ELSE open[d]) \in SUBSET Level
  BY <1>1
<1> QED
  BY <1>2 DEF Enter

(* Every variable keeps its type.                                          *)
LEMMA TypeStep == TypeOK /\ [Next]_vars => TypeOK'
<1> SUFFICES ASSUME TypeOK, [Next]_vars PROVE TypeOK'
  OBVIOUS
<1> USE DbFacts DEF Sub
<1>0. Multi \in Level /\ View \in Level /\ Inner \in Level
  BY DEF Level
<1>1. CASE UNCHANGED vars
  BY <1>1 DEF TypeOK, vars, data, said
<1>2. CASE Begin
  <2>1. open' \in [Db -> SUBSET Level]
    BY <1>0, <1>2, EnterType DEF Begin, TypeOK
  <2>2. base' \in [Db -> SUBSET Write] /\ work' \in [Db -> [Level -> SUBSET Write]]
    BY <1>2 DEF Begin, TypeOK, Nothing
  <2>3. /\ sub' \in 1..MaxSubs /\ multi' \in BOOLEAN /\ phase' = "view" /\ status' = "ok"
        /\ view' \in {"plain", "permission"} /\ scoped' = FALSE /\ broken' = FALSE
        /\ made' = {} /\ unscoped' = {} /\ UNCHANGED <<started, left, exc>>
    BY <1>2 DEF Begin
  <2> QED
    BY <2>1, <2>2, <2>3 DEF TypeOK
<1>3. CASE EnterView
  <2>1. open' \in [Db -> SUBSET Level]
    BY <1>0, <1>3, EnterType DEF EnterView, TypeOK
  <2> QED
    BY <1>3, <2>1 DEF EnterView, TypeOK, said
<1>4. CASE EnterDispatch
  <2>1. open' \in [Db -> SUBSET Level]
    BY <1>0, <1>4, EnterType DEF EnterDispatch
  <2> QED
    BY <1>4, <2>1 DEF EnterDispatch, TypeOK, said
<1>5. CASE StartRaises \/ CheckScope \/ Return \/ Raise \/ HistoryFails \/ Dispatched
  <2>1. UNCHANGED <<data, multi, sub, view, unscoped, broken, made>>
    BY <1>5 DEF StartRaises, CheckScope, Return, Raise, HistoryFails, Dispatched, said
  <2>2. CASE StartRaises \/ HistoryFails
    BY <2>1, <2>2 DEF StartRaises, HistoryFails, TypeOK, data
  <2>3. CASE CheckScope \/ Return
    BY <2>1, <2>3 DEF CheckScope, Return, TypeOK, data
  <2>4. CASE Raise
    <3>1. left' \in 0..Len(Databases)
      BY <2>4 DEF Raise
    <3> QED
      BY <2>1, <2>4, <3>1 DEF Raise, TypeOK, data
  <2>5. CASE Dispatched
    BY <2>1, <2>5 DEF Dispatched, TypeOK, data
  <2> QED
    BY <1>5, <2>2, <2>3, <2>4, <2>5
<1>6. ASSUME NEW d \in Db, WriteRow(d) PROVE TypeOK'
  <2>1. W(sub, "row") \in Write
    BY WIsWrite DEF TypeOK
  <2> QED
    BY <1>6, <2>1, PutFacts DEF WriteRow, TypeOK
<1>7. CASE OnCommit
  <2>1. W(sub, "callback") \in Write
    BY WIsWrite DEF TypeOK
  <2> QED
    BY <1>7, <2>1, PutFacts DEF OnCommit, TypeOK, said
<1>8. CASE HistoryCommit
  <2>1. W(sub, "log") \in Write
    BY WIsWrite DEF TypeOK
  <2>2. /\ open' \in [Db -> SUBSET Level] /\ base' \in [Db -> SUBSET Write]
        /\ work' \in [Db -> [Level -> SUBSET Write]]
    BY <1>8, <2>1, PutFacts DEF HistoryCommit, TypeOK, data
  <2>3. /\ started' = FALSE /\ phase' = "exit" /\ left' \in 0..Len(Databases)
        /\ UNCHANGED <<multi, sub, view, exc, status, scoped, said>>
    BY <1>8 DEF HistoryCommit
  <2> QED
    BY <2>2, <2>3 DEF TypeOK, said
<1>9. CASE ExitDatabase
  <2>1. Databases[left] \in Db /\ left - 1 \in 0..Len(Databases)
    BY <1>9 DEF ExitDatabase, TypeOK
  <2>2. Ends(Databases[left], Inner)
    BY <1>9 DEF ExitDatabase, Ends
  <2>3. exc' \in {"none", "binder", "other"} /\ broken' \in BOOLEAN
    BY <1>9 DEF ExitDatabase, TypeOK, CommitFails, CallbackFails
  <2> QED
    BY <1>0, <1>9, <2>1, <2>2, <2>3, EndFacts DEF DataType, ExitDatabase, TypeOK
<1>10. CASE CheckView
  <2>1. Ends(default, View)
    BY <1>10 DEF CheckView, Ends
  <2>2. exc' \in {"none", "binder", "other"} /\ broken' \in BOOLEAN /\ unscoped' \subseteq 1..MaxSubs
    BY <1>10 DEF CheckView, TypeOK, CommitFails, CallbackFails
  <2> QED
    BY <1>0, <1>10, <2>1, <2>2, EndFacts DEF DataType, CheckView, TypeOK
<1>11. CASE Answer
  BY <1>11 DEF Answer, End, TypeOK, data
<1>12. CASE NextSub
  <2>1. sub' \in 1..MaxSubs
    BY <1>12 DEF NextSub, NextView, TypeOK
  <2> QED
    BY <1>12, <2>1 DEF NextSub, NextView, TypeOK, data, said
<1>13. CASE FailMulti \/ EndMulti \/ RefuseSub
  <2>1. Ends(default, Multi)
    BY <1>13 DEF FailMulti, EndMulti, RefuseSub, Ends
  <2>2. broken' \in BOOLEAN /\ \E s \in {"ok", "error"} : End(s)
    BY <1>13 DEF FailMulti, EndMulti, RefuseSub, TypeOK, CommitFails, CallbackFails
  <2> QED
    BY <1>0, <2>1, <2>2, EndFacts DEF DataType, End, TypeOK
<1> QED
  BY <1>1, <1>2, <1>3, <1>4, <1>5, <1>6, <1>7, <1>8, <1>9, <1>10, <1>11, <1>12, <1>13
  DEF Next, Handler

-----------------------------------------------------------------------------

(* A step that touches no data.                                            *)
Quiet == \/ StartRaises \/ CheckScope \/ Return \/ Raise \/ HistoryFails \/ Dispatched
         \/ Answer \/ NextSub

(* A step that writes in the blocks on the databases.                      *)
Writes == \/ \E d \in Db : WriteRow(d)
          \/ OnCommit
          \/ HistoryCommit

(* A step that ends a multi-request.                                       *)
Stops == FailMulti \/ EndMulti \/ RefuseSub

(* Where a block ends, its database leaves it, and only it.                *)
LEMMA EndKeepsOpen ==
  ASSUME TypeOK, OpenInv, NEW d \in Db, NEW l \in Level, NEW ws,
         DataType', Others(d), Ended(d, l, ws)
  PROVE  /\ \A e \in Db, m \in Level : m \in open'[e] <=> m \in open[e] /\ ~(e = d /\ m = l)
         /\ \A e \in Db, m \in Level : m \notin open'[e] => work'[e][m] = {}
<1>1. \A e \in Db, m \in Level : m \in open'[e] <=> m \in open[e] /\ ~(e = d /\ m = l)
  BY DEF Others, Ended
<1>2. ASSUME NEW m \in Level, m \notin open'[d] PROVE work'[d][m] = {}
  BY <1>2 DEF Ended, ToBase, ToBlock, OpenInv, TypeOK
<1>3. ASSUME NEW e \in Db \ {d}, NEW m \in Level, m \notin open'[e] PROVE work'[e][m] = {}
  BY <1>3 DEF Others, OpenInv
<1> QED
  BY <1>1, <1>2, <1>3

(* The blocks are those that InBlock says, and the others are empty.       *)
LEMMA OpenStep == ASSUME TypeOK, OpenInv, Next PROVE OpenInv'
<1> USE DbFacts
<1>1. CASE Quiet
  <2>1. UNCHANGED <<open, work, multi>>
    BY <1>1 DEF Quiet, StartRaises, CheckScope, Return, Raise, HistoryFails, Dispatched,
                Answer, NextSub, End, data
  <2>2. ASSUME NEW d \in Db, NEW l \in Level PROVE InBlock(d, l)' <=> InBlock(d, l)
    <3>1. CASE StartRaises
      BY <3>1 DEF StartRaises, InBlock
    <3>2. CASE CheckScope
      BY <3>2 DEF CheckScope, InBlock
    <3>3. CASE Return
      BY <3>3 DEF Return, InBlock
    <3>4. CASE Raise \/ HistoryFails
      <4>1. \E k \in 1..left' : Databases[k] = d
        BY <3>4 DEF Raise, HistoryFails, Db
      <4> QED
        BY <3>4, <4>1 DEF Raise, HistoryFails, InBlock
    <3>5. CASE Dispatched
      BY <3>5 DEF Dispatched, InBlock
    <3>6. CASE Answer
      BY <3>6 DEF Answer, End, InBlock
    <3>7. CASE NextSub
      BY <3>7 DEF NextSub, NextView, InBlock
    <3> QED
      BY <1>1, <3>1, <3>2, <3>3, <3>4, <3>5, <3>6, <3>7 DEF Quiet
  <2> QED
    BY <2>1, <2>2 DEF OpenInv
<1>2. CASE Begin \/ EnterView \/ EnterDispatch
  <2>1. /\ open \in [Db -> SUBSET Level] /\ work' = work
        /\ \A d \in Db : open[d] \subseteq open'[d]
    <3>1. open \in [Db -> SUBSET Level]
      BY DEF TypeOK
    <3>2. work' = work /\ (open' = open \/ \E D, l : Enter(D, l))
      BY <1>2 DEF Begin, EnterView, EnterDispatch
    <3> QED
      BY <3>1, <3>2 DEF Enter
  <2>2. ASSUME NEW d \in Db, NEW l \in Level PROVE l \in open'[d] <=> InBlock(d, l)'
    <3>1. l \in open[d] <=> InBlock(d, l)
      BY DEF OpenInv
    <3>2. CASE Begin
      BY <2>1, <3>1, <3>2 DEF Begin, Enter, InBlock, Multi, View, Inner
    <3>3. CASE EnterView
      BY <2>1, <3>1, <3>3 DEF EnterView, Enter, InBlock, Multi, View, Inner
    <3>4. CASE EnterDispatch
      BY <2>1, <3>1, <3>4 DEF EnterDispatch, Enter, InBlock, Multi, View, Inner
    <3> QED
      BY <1>2, <3>2, <3>3, <3>4
  <2> QED
    BY <2>1, <2>2 DEF OpenInv

<1>3. CASE Writes
  <2>1. \A d \in Db : Inner \in open[d]
    BY <1>3 DEF Writes, WriteRow, OnCommit, HistoryCommit, OpenInv, InBlock, Level
  <2>2. /\ open' = open /\ UNCHANGED <<multi, view>>
        /\ \A d \in Db, l \in Level : l \notin open[d] => work'[d][l] = work[d][l]
    <3>1. CASE data' = data
      BY <1>3, <3>1 DEF Writes, WriteRow, OnCommit, HistoryCommit, data
    <3>2. ASSUME NEW d \in Db, NEW w \in Write, Put(d, w)
          PROVE  /\ open' = open
                 /\ \A e \in Db, l \in Level : l \notin open[e] => work'[e][l] = work[e][l]
      BY <2>1, <3>2, PutFacts
    <3>3. \/ data' = data
          \/ \E d \in Db, w \in Write : Put(d, w)
      BY <1>3, WIsWrite DEF Writes, WriteRow, OnCommit, HistoryCommit, TypeOK
    <3> QED
      BY <1>3, <3>1, <3>2, <3>3 DEF Writes, WriteRow, OnCommit, HistoryCommit
  <2>3. ASSUME NEW d \in Db, NEW l \in Level PROVE InBlock(d, l)' <=> InBlock(d, l)
    <3>1. CASE HistoryCommit
      <4>1. \E k \in 1..left' : Databases[k] = d
        BY <3>1 DEF HistoryCommit, Db
      <4> QED
        BY <3>1, <4>1 DEF HistoryCommit, InBlock
    <3>2. CASE ~HistoryCommit
      BY <1>3, <3>2 DEF Writes, WriteRow, OnCommit, InBlock
    <3> QED
      BY <3>1, <3>2
  <2> QED
    BY <2>2, <2>3 DEF OpenInv
<1>4. CASE ExitDatabase
  <2> DEFINE e == Databases[left]
  <2>1. /\ phase = "exit" /\ left \in 1..Len(Databases) /\ left' = left - 1
        /\ UNCHANGED <<phase, multi, view>> /\ e \in Db
    BY <1>4 DEF ExitDatabase, TypeOK
  <2>2. DataType' /\ Others(e) /\ \E ws : Ended(e, Inner, ws)
    BY <1>4, <2>1, EndFacts DEF ExitDatabase, Ends, Level
  <2>3. ASSUME NEW d \in Db
        PROVE  (\E k \in 1..left' : Databases[k] = d) <=> d # e /\ \E k \in 1..left : Databases[k] = d
    BY <2>1, DispatchAssumption
  <2> HIDE DEF e
  <2>4. ASSUME NEW d \in Db, NEW l \in Level
        PROVE  InBlock(d, l)' <=> InBlock(d, l) /\ ~(d = e /\ l = Inner)
    BY <2>1, <2>3 DEF InBlock, Multi, View, Inner
  <2> QED
    BY <2>1, <2>2, <2>4, EndKeepsOpen DEF OpenInv, Level
<1>5. CASE CheckView \/ Stops
  <2>1. \E l \in {Multi, View} :
          /\ Ends(default, l)
          /\ \A d \in Db, m \in Level :
               InBlock(d, m)' <=> InBlock(d, m) /\ ~(d = default /\ m = l)
    <3>1. CASE CheckView
      <4>1. Ends(default, View) /\ phase = "check" /\ phase' = "answer" /\ UNCHANGED <<multi, view>>
        BY <3>1 DEF CheckView, Ends
      <4> QED
        BY <4>1 DEF InBlock, Multi, View, Inner
    <3>2. CASE Stops
      <4>1. /\ Ends(default, Multi) /\ phase' = "done" /\ multi /\ phase \in {"answer", "view"}
        BY <3>2 DEF Stops, FailMulti, EndMulti, RefuseSub, Ends, End
      <4> QED
        BY <4>1 DEF InBlock, Multi, View, Inner
    <3> QED
      BY <1>5, <3>1, <3>2
  <2>2. PICK l \in {Multi, View} :
          /\ Ends(default, l)
          /\ \A d \in Db, m \in Level :
               InBlock(d, m)' <=> InBlock(d, m) /\ ~(d = default /\ m = l)
    BY <2>1
  <2>3. l \in Level /\ DataType' /\ Others(default) /\ \E ws : Ended(default, l, ws)
    BY <2>2, EndFacts DEF Level
  <2> QED
    BY <2>2, <2>3, EndKeepsOpen DEF OpenInv
<1> QED
  BY <1>1, <1>2, <1>3, <1>4, <1>5 DEF Next, Handler, Quiet, Writes, Stops

(* What the end of a block does to the default database.                   *)
Same == base'[default] = base[default] /\ work'[default] = work[default]

EndedIn(l) == \E ws \in SUBSET work[default][l] :
                /\ Ended(default, l, ws)
                /\ WithRow(work[default][l]) => WithRow(ws)

LEMMA Ending ==
  ASSUME TypeOK
  PROVE  /\ ExitDatabase => Same \/ EndedIn(Inner)
         /\ CheckView => EndedIn(View)
         /\ Stops => EndedIn(Multi)
<1> USE DbFacts
<1>0. Multi \in Level /\ View \in Level /\ Inner \in Level
  BY DEF Level
<1>1. ASSUME NEW l \in Level, Ends(default, l) PROVE EndedIn(l)
  BY <1>1, EndFacts DEF EndedIn
<1>2. ASSUME ExitDatabase PROVE Same \/ EndedIn(Inner)
  <2>1. Databases[left] \in Db /\ Ends(Databases[left], Inner)
    BY <1>2 DEF ExitDatabase, TypeOK, Ends
  <2>2. Others(Databases[left])
    BY <1>0, <2>1, EndFacts
  <2>3. CASE Databases[left] = default
    BY <1>0, <1>1, <2>1, <2>3
  <2>4. CASE Databases[left] # default
    BY <2>2, <2>4 DEF Others, Same
  <2> QED
    BY <2>3, <2>4
<1>3. CheckView => Ends(default, View)
  BY DEF CheckView, Ends
<1>4. Stops => Ends(default, Multi)
  BY DEF Stops, FailMulti, EndMulti, RefuseSub, Ends
<1> QED
  BY <1>0, <1>1, <1>2, <1>3, <1>4

(* What the handler and the history write in the default database.         *)
LEMMA WriteFacts ==
  ASSUME TypeOK, OpenInv, Writes
  PROVE  /\ base'[default] = base[default]
         /\ \A l \in Level \ {Inner} : work'[default][l] = work[default][l]
         /\ work[default][Inner] \subseteq work'[default][Inner]
         /\ \A w \in work'[default][Inner] \ work[default][Inner] :
              \/ w = W(sub, "row") /\ WriteRow(default)
              \/ w = W(sub, "callback") /\ OnCommit
              \/ w = W(sub, "log")
         /\ WriteRow(default) => W(sub, "row") \in work'[default][Inner]
<1> USE DbFacts
<1>0. Inner \in Level /\ \A d \in Db : Inner \in open[d]
  BY DEF Writes, WriteRow, OnCommit, HistoryCommit, OpenInv, InBlock, Level
<1>1. \A what \in {"row", "log", "callback"} : W(sub, what) \in Write
  BY WIsWrite DEF TypeOK
<1>2. ASSUME NEW w \in Write, Put(default, w)
      PROVE  /\ base'[default] = base[default]
             /\ \A l \in Level \ {Inner} : work'[default][l] = work[default][l]
             /\ work'[default][Inner] = work[default][Inner] \cup {w}
  BY <1>0, <1>2, PutFacts
<1>3. CASE WriteRow(default)
  <2>1. Put(default, W(sub, "row"))
    BY <1>3 DEF WriteRow
  <2> QED
    BY <1>1, <1>2, <1>3, <2>1
<1>4. ASSUME NEW d \in Db \ {default}, WriteRow(d) PROVE Same
  BY <1>1, <1>4, PutFacts DEF WriteRow, Same
<1>5. CASE ~WriteRow(default) /\ OnCommit
  <2>1. Put(default, W(sub, "callback"))
    BY <1>5 DEF OnCommit
  <2> QED
    BY <1>1, <1>2, <1>5, <2>1
<1>6. CASE ~WriteRow(default) /\ HistoryCommit
  <2>1. Same \/ Put(default, W(sub, "log"))
    BY <1>6 DEF HistoryCommit, Same, data
  <2> QED
    BY <1>0, <1>1, <1>2, <1>6, <2>1 DEF Same
<1> QED
  BY <1>0, <1>3, <1>4, <1>5, <1>6 DEF Writes, Same

(* Nothing of a multi-request is durable before it has succeeded.          *)
LEMMA MultiStep == ASSUME TypeOK, OpenInv, MultiInv, Next PROVE MultiInv'
<1> USE DbFacts DEF MultiInv
<1>1. CASE Quiet \/ EnterView \/ EnterDispatch
  <2>1. /\ base' = base /\ multi' = multi /\ phase # "done"
        /\ phase' = "done" => ~multi
    BY <1>1 DEF Quiet, StartRaises, CheckScope, Return, Raise, HistoryFails, Dispatched,
                Answer, NextSub, NextView, End, data, EnterView, EnterDispatch
  <2> QED
    BY <2>1 DEF FailedMultiUndone
<1>2. CASE Begin
  BY <1>2 DEF Begin, Nothing, FailedMultiUndone
<1>3. CASE Writes
  <2>1. base'[default] = base[default] /\ multi' = multi /\ phase # "done" /\ phase' # "done"
    BY <1>3, WriteFacts DEF Writes, WriteRow, OnCommit, HistoryCommit
  <2> QED
    BY <2>1 DEF FailedMultiUndone
<1>4. CASE ExitDatabase \/ CheckView
  <2>1. multi' = multi /\ phase # "done" /\ phase' # "done"
    BY <1>4 DEF ExitDatabase, CheckView
  <2>2. multi => Multi \in open[default]
    BY <2>1 DEF OpenInv, InBlock, Level
  <2>3. multi => base'[default] = base[default]
    <3>1. Same \/ EndedIn(Inner) \/ EndedIn(View)
      BY <1>4, Ending
    <3> QED
      BY <2>2, <3>1 DEF Same, EndedIn, Ended, ToBase, ToBlock, Multi, View, Inner
  <2> QED
    BY <2>1, <2>3 DEF FailedMultiUndone
<1>5. CASE Stops
  <2>1. multi /\ phase # "done" /\ phase' = "done"
    BY <1>5 DEF Stops, FailMulti, EndMulti, RefuseSub, End
  <2>2. ASSUME status' = "error", ~broken' PROVE base'[default] = {}
    <3>1. Leave(default, Multi, {})
      BY <1>5, <2>2 DEF Stops, FailMulti, EndMulti, RefuseSub, End, RollBack,
                        CommitFails, CallbackFails
    <3>2. Ended(default, Multi, {})
      BY <3>1, LeaveFacts DEF Level
    <3> QED
      BY <2>1, <3>2 DEF Ended, ToBase, ToBlock
  <2> QED
    BY <2>1, <2>2 DEF FailedMultiUndone
<1> QED
  BY <1>1, <1>2, <1>3, <1>4, <1>5 DEF Next, Handler, Quiet, Writes, Stops

(* A callback is in the data of the default database only with its row.    *)
LEMMA CallStep == ASSUME TypeOK, OpenInv, CallInv, RowInv, Next PROVE CallInv'
<1> USE DbFacts
<1>0. sub \in Sub /\ Inner \in Level
  BY DEF TypeOK, Level
<1>1. CASE Quiet \/ EnterView \/ EnterDispatch
  <2>1. /\ UNCHANGED <<base, work, made>>
        /\ phase' = "handler" => sub' = sub /\ phase \in {"enter", "handler"}
    BY <1>1 DEF Quiet, StartRaises, CheckScope, Return, Raise, HistoryFails, Dispatched, said,
                Answer, NextSub, NextView, End, data, EnterView, EnterDispatch
  <2>2. phase = "enter" => <<default, sub>> \notin made
    BY <1>0 DEF RowInv, FreshInv
  <2> QED
    BY <2>1, <2>2 DEF CallInv, WithRow
<1>2. CASE Begin
  <2>1. base'[default] = {} /\ work' = work /\ phase' = "view"
    BY <1>2 DEF Begin, Nothing
  <2> QED
    BY <2>1 DEF CallInv, WithRow
<1>3. CASE Writes
  <2>1. /\ phase \in {"handler", "history"} /\ sub' = sub
        /\ phase' = "handler" => phase = "handler"
        /\ <<default, sub>> \in made' => <<default, sub>> \in made \/ WriteRow(default)
    BY <1>3 DEF Writes, WriteRow, OnCommit, HistoryCommit, said
  <2>2. WithRow(base'[default]) /\ \A l \in Level \ {Inner} : WithRow(work'[default][l])
    BY <1>3, WriteFacts DEF CallInv, WithRow
  <2>3. ASSUME NEW i \in Sub, W(i, "callback") \in work'[default][Inner]
        PROVE  W(i, "row") \in work'[default][Inner]
    <3>1. CASE W(i, "callback") \in work[default][Inner]
      BY <1>0, <1>3, <3>1, WriteFacts DEF CallInv, WithRow
    <3>2. CASE W(i, "callback") \notin work[default][Inner]
      <4>1. i = sub /\ OnCommit
        BY <1>3, <2>3, <3>2, WriteFacts DEF W
      <4> QED
        BY <1>3, <4>1, WriteFacts DEF OnCommit, CallInv
    <3> QED
      BY <3>1, <3>2
  <2>4. phase' = "handler" /\ <<default, sub>> \in made' => W(sub, "row") \in work'[default][Inner]
    BY <1>3, <2>1, WriteFacts DEF CallInv
  <2> QED
    BY <2>1, <2>2, <2>3, <2>4 DEF CallInv, WithRow
<1>4. CASE ExitDatabase \/ CheckView \/ Stops
  <2>1. phase' # "handler"
    BY <1>4 DEF ExitDatabase, CheckView, Stops, FailMulti, EndMulti, RefuseSub, End
  <2>2. Same \/ \E l \in Level : EndedIn(l)
    BY <1>4, Ending DEF Level
  <2>3. CASE Same
    BY <2>1, <2>3 DEF Same, CallInv
  <2>4. ASSUME NEW l \in Level, EndedIn(l)
        PROVE  WithRow(base'[default]) /\ \A m \in Level : WithRow(work'[default][m])
    <3>1. PICK ws \in SUBSET work[default][l] : Ended(default, l, ws) /\ WithRow(ws)
      BY <2>4 DEF EndedIn, CallInv
    <3>2. CASE ToBase(default, l, ws)
      BY <3>1, <3>2 DEF CallInv, WithRow, Ended, ToBase
    <3>3. CASE ToBlock(default, l, ws)
      BY <3>1, <3>3 DEF CallInv, WithRow, Ended, ToBlock
    <3> QED
      BY <3>1, <3>2, <3>3 DEF Ended
  <2> QED
    BY <2>1, <2>2, <2>3, <2>4 DEF CallInv
<1> QED
  BY <1>1, <1>2, <1>3, <1>4 DEF Next, Handler, Quiet, Writes, Stops

(* The end of a block moves no row to where none was.                      *)
LEMMA EndNowhere ==
  ASSUME TypeOK, NEW i, Nowhere(i), ExitDatabase \/ CheckView \/ Stops
  PROVE  Nowhere(i)'
<1>1. Same \/ \E l \in Level : EndedIn(l)
  BY Ending DEF Level
<1>2. CASE Same
  BY <1>2 DEF Same, Nowhere
<1>3. ASSUME NEW l \in Level, EndedIn(l) PROVE Nowhere(i)'
  <2>1. PICK ws \in SUBSET work[default][l] : Ended(default, l, ws)
    BY <1>3 DEF EndedIn
  <2>2. W(i, "row") \notin ws
    BY DEF Nowhere
  <2>3. CASE ToBase(default, l, ws)
    BY <2>1, <2>2, <2>3 DEF Nowhere, Ended, ToBase
  <2>4. CASE ToBlock(default, l, ws)
    BY <2>1, <2>2, <2>4 DEF Nowhere, Ended, ToBlock
  <2> QED
    BY <2>1, <2>3, <2>4 DEF Ended
<1> QED
  BY <1>1, <1>2, <1>3

(* A request writes only for itself.                                       *)
LEMMA WriteNowhere ==
  ASSUME TypeOK, OpenInv, Writes, NEW i, i # sub, Nowhere(i)
  PROVE  Nowhere(i)'
<1>1. W(i, "row") # W(sub, "row") /\ W(i, "row") # W(sub, "callback") /\ W(i, "row") # W(sub, "log")
  BY DEF W
<1> QED
  BY <1>1, WriteFacts DEF Nowhere

(* Nothing is written for the requests to come.                            *)
LEMMA FreshStep == ASSUME TypeOK, OpenInv, RowInv, Next PROVE FreshInv'
<1> USE DbFacts
<1>0. sub \in Nat /\ Sub \subseteq Nat
  BY DEF TypeOK, Sub
<1>1. CASE Quiet \/ EnterView \/ EnterDispatch
  <2>1. /\ UNCHANGED <<base, work, made>> /\ phase # "done"
        /\ \/ sub' = sub /\ (phase' \in {"view", "enter"} => phase \in {"view", "enter"})
           \/ sub' = sub + 1
    BY <1>1 DEF Quiet, StartRaises, CheckScope, Return, Raise, HistoryFails, Dispatched, said,
                Answer, NextSub, NextView, End, data, EnterView, EnterDispatch
  <2>2. \A i : Nowhere(i)' <=> Nowhere(i)
    BY <2>1 DEF Nowhere
  <2> QED
    BY <1>0, <2>1, <2>2 DEF RowInv, FreshInv
<1>2. CASE Begin
  <2>1. base'[default] = {} /\ work' = work /\ made' = {} /\ phase = "done"
    BY <1>2 DEF Begin, Nothing
  <2>2. \A l \in Level : work[default][l] = {}
    BY <2>1 DEF OpenInv, InBlock
  <2> QED
    BY <2>1, <2>2 DEF FreshInv, Nowhere
<1>3. CASE Writes
  <2>1. /\ phase \in {"handler", "history"} /\ phase' \in {"handler", "exit"} /\ sub' = sub
        /\ \A i \in Sub : <<default, i>> \in made' => <<default, i>> \in made \/ i = sub
    BY <1>3 DEF Writes, WriteRow, OnCommit, HistoryCommit, said
  <2> QED
    BY <1>0, <1>3, <2>1, WriteNowhere DEF RowInv, FreshInv
<1>4. CASE ExitDatabase \/ CheckView \/ Stops
  <2>1. phase' = "done" \/ (phase' \in {"exit", "answer"} /\ sub' = sub /\ made' = made /\ phase # "done")
    BY <1>4 DEF ExitDatabase, CheckView, Stops, FailMulti, EndMulti, RefuseSub, End
  <2> QED
    BY <1>0, <1>4, <2>1, EndNowhere DEF RowInv, FreshInv
<1> QED
  BY <1>1, <1>2, <1>3, <1>4 DEF Next, Handler, Quiet, Writes, Stops

(* The rows of a request are in the block that the check of its scope ends. *)
LEMMA ViewStep == ASSUME TypeOK, OpenInv, RowInv, Next PROVE ViewInv'
<1> USE DbFacts
<1>0. sub \in Sub /\ Multi \in Level \ {Inner}
  BY DEF TypeOK, Level, Multi, Inner
<1>1. CASE Quiet \/ EnterView \/ EnterDispatch
  <2>1. /\ UNCHANGED <<base, work>>
        /\ \/ phase' \in {"view", "enter", "answer", "done"}
           \/ /\ sub' = sub /\ view' = view /\ (phase' = "check" => view = "permission")
              /\ phase \in {"enter", "handler", "history", "exit", "check"}
    BY <1>1 DEF Quiet, StartRaises, CheckScope, Return, Raise, HistoryFails, Dispatched, said,
                Answer, NextSub, NextView, End, data, EnterView, EnterDispatch
  <2>2. phase = "enter" => Nowhere(sub)
    BY <1>0 DEF RowInv, FreshInv
  <2> QED
    BY <1>0, <2>1, <2>2 DEF RowInv, ViewInv, Nowhere
<1>2. CASE Begin
  BY <1>2 DEF Begin, ViewInv
<1>3. CASE Writes
  <2>1. sub' = sub /\ view' = view /\ phase \in {"handler", "history"} /\ phase' # "check"
    BY <1>3 DEF Writes, WriteRow, OnCommit, HistoryCommit
  <2> QED
    BY <1>0, <1>3, <2>1, WriteFacts DEF RowInv, ViewInv
<1>4. CASE ExitDatabase
  <2>1. sub' = sub /\ view' = view /\ phase = "exit" /\ phase' = "exit"
    BY <1>4 DEF ExitDatabase
  <2>2. view = "permission" => View \in open[default]
    BY <2>1 DEF OpenInv, InBlock, Level
  <2>3. CASE Same
    BY <2>1, <2>3 DEF Same, RowInv, ViewInv
  <2>4. CASE EndedIn(Inner)
    <3>1. PICK ws : Ended(default, Inner, ws)
      BY <2>4 DEF EndedIn
    <3>2. view = "permission" => base'[default] = base[default] /\ work'[default][Multi] = work[default][Multi]
      BY <1>0, <2>2, <3>1 DEF Ended, ToBase, ToBlock, Multi, View, Inner
    <3> QED
      BY <2>1, <3>2 DEF RowInv, ViewInv
  <2> QED
    BY <1>4, <2>3, <2>4, Ending
<1>5. CASE CheckView \/ Stops
  BY <1>5 DEF CheckView, Stops, FailMulti, EndMulti, RefuseSub, End, ViewInv
<1> QED
  BY <1>1, <1>2, <1>3, <1>4, <1>5 DEF Next, Handler, Quiet, Writes, Stops

(* What an unscoped request wrote is nowhere.                              *)
LEMMA UnscopedStep == ASSUME TypeOK, OpenInv, RowInv, Next PROVE UnscopedInv'
<1> USE DbFacts
<1>0. sub \in Nat /\ unscoped \subseteq Nat
  BY DEF TypeOK, Sub
<1>1. CASE Quiet \/ EnterView \/ EnterDispatch
  <2>1. /\ UNCHANGED <<base, work, unscoped>>
        /\ \/ sub' = sub /\ (phase \in {"answer", "done"} => phase' \in {"answer", "done"})
           \/ sub' = sub + 1
    BY <1>1 DEF Quiet, StartRaises, CheckScope, Return, Raise, HistoryFails, Dispatched, said,
                Answer, NextSub, NextView, End, data, EnterView, EnterDispatch
  <2>2. \A i : Nowhere(i)' <=> Nowhere(i)
    BY <2>1 DEF Nowhere
  <2> QED
    BY <1>0, <2>1, <2>2 DEF RowInv, UnscopedInv
<1>2. CASE Begin
  BY <1>2 DEF Begin, UnscopedInv
<1>3. CASE Writes
  <2>1. sub' = sub /\ phase \in {"handler", "history"} /\ unscoped' = unscoped
    BY <1>3 DEF Writes, WriteRow, OnCommit, HistoryCommit, said
  <2> QED
    BY <1>0, <1>3, <2>1, WriteNowhere DEF RowInv, UnscopedInv
<1>4. CASE ExitDatabase \/ Stops
  <2>1. sub' = sub /\ unscoped' = unscoped /\ (phase \in {"answer", "done"} => phase' = "done")
    BY <1>4 DEF ExitDatabase, Stops, FailMulti, EndMulti, RefuseSub, End
  <2> QED
    BY <1>4, <2>1, EndNowhere DEF RowInv, UnscopedInv
<1>5. CASE CheckView
  <2>1. /\ sub' = sub /\ phase = "check" /\ phase' = "answer"
        /\ unscoped' = unscoped \/ (unscoped' = unscoped \cup {sub} /\ RollBack(default, View))
    BY <1>5 DEF CheckView
  <2>2. \A i \in unscoped : Nowhere(i)' /\ i < sub
    BY <1>5, <2>1, EndNowhere DEF RowInv, UnscopedInv
  <2>3. ASSUME RollBack(default, View) PROVE Nowhere(sub)'
    <3>1. Ended(default, View, {})
      BY <2>3, LeaveFacts DEF RollBack, Level
    <3>2. W(sub, "row") \notin base[default] /\ W(sub, "row") \notin work[default][Multi]
      BY <2>1 DEF RowInv, ViewInv
    <3>3. work[default][Inner] = {}
      BY <2>1 DEF OpenInv, InBlock, Multi, View, Inner, Level
    <3>4. /\ base'[default] = base[default]
          /\ \A l \in Level : work'[default][l] = IF l = View THEN {} ELSE work[default][l]
      BY <3>1 DEF Ended, ToBase, ToBlock, Multi, View, Inner, Level
    <3>5. \A l \in Level : l = Multi \/ l = View \/ l = Inner
      BY DEF Level
    <3> QED
      BY <2>1, <3>2, <3>3, <3>4, <3>5 DEF Nowhere
  <2> QED
    BY <2>1, <2>2, <2>3 DEF UnscopedInv
<1> QED
  BY <1>1, <1>2, <1>3, <1>4, <1>5 DEF Next, Handler, Quiet, Writes, Stops

-----------------------------------------------------------------------------

(* What was written where, in any database.                                *)

(* The end of a block moves what it keeps, and loses the rest.             *)
LEMMA HereMoves ==
  ASSUME TypeOK, NEW d \in Db, NEW l \in Level, NEW ws \in SUBSET work[d][l],
         Others(d), Ended(d, l, ws), NEW e \in Db, NEW w
  PROVE  /\ Here(e, w)' => Here(e, w)
         /\ Here(e, w) => Here(e, w)' \/ (e = d /\ w \in work[d][l] \ ws)
<1>1. CASE e # d
  BY <1>1 DEF Others, Here
<1>2. CASE e = d /\ ToBase(d, l, ws)
  BY <1>2 DEF Ended, ToBase, Here
<1>3. CASE e = d /\ ToBlock(d, l, ws)
  <2>1. open[d] \subseteq Level
    BY DEF TypeOK
  <2> QED
    BY <1>3, <2>1 DEF Ended, ToBlock, Here
<1> QED
  BY <1>1, <1>2, <1>3 DEF Ended

(* The three ways in which a block ends.                                   *)
LEMMA ReleaseFacts == ASSUME TypeOK, NEW d \in Db, NEW l \in Level, Release(d, l)
                      PROVE  Others(d) /\ Ended(d, l, work[d][l])
<1>1. work[d][l] \in SUBSET Write
  BY DEF TypeOK
<1> QED
  BY <1>1, LeaveFacts DEF Release

LEMMA RollBackFacts == ASSUME TypeOK, NEW d \in Db, NEW l \in Level, RollBack(d, l)
                       PROVE  Others(d) /\ Ended(d, l, {})
BY LeaveFacts DEF RollBack

LEMMA FailsFacts ==
  ASSUME TypeOK, NEW d \in Db, NEW l \in Level, CommitFails(d, l) \/ CallbackFails(d, l)
  PROVE  /\ broken' = TRUE
         /\ \E ws \in SUBSET work[d][l] : /\ Others(d) /\ Ended(d, l, ws)
                                          /\ WithLog(work[d][l]) => WithLog(ws)
<1>1. work[d][l] \in SUBSET Write
  BY DEF TypeOK
<1>2. CASE CommitFails(d, l)
  <2>1. WithLog({})
    BY DEF WithLog
  <2> QED
    BY <1>2, <2>1, RollBackFacts DEF CommitFails
<1>3. CASE CallbackFails(d, l)
  <2>1. PICK ws \in SUBSET work[d][l] : /\ \A w \in work[d][l] \ ws : w.what = "callback"
                                        /\ Leave(d, l, ws)
    BY <1>3 DEF CallbackFails
  <2>2. Others(d) /\ Ended(d, l, ws)
    BY <1>1, <2>1, LeaveFacts
  <2>3. WithLog(work[d][l]) => WithLog(ws)
    BY <2>1 DEF WithLog, W
  <2> QED
    BY <1>3, <2>2, <2>3 DEF CallbackFails
<1> QED
  BY <1>2, <1>3

(* A block ends, of which database and level, and what of it is kept.      *)
Closes(d, l, ws) == /\ Others(d) /\ Ended(d, l, ws)
                    /\ WithLog(work[d][l]) => WithLog(ws)
                    /\ ws = work[d][l] \/ ws = {} \/ broken'

LEMMA EndCloses ==
  ASSUME TypeOK, NEW d \in Db, NEW l \in Level, Ends(d, l)
  PROVE  \E ws \in SUBSET work[d][l] : Closes(d, l, ws)
<1>1. CASE Release(d, l)
  BY <1>1, ReleaseFacts DEF Closes
<1>2. CASE RollBack(d, l)
  <2>1. WithLog({})
    BY DEF WithLog
  <2> QED
    BY <1>2, <2>1, RollBackFacts DEF Closes
<1>3. CASE CommitFails(d, l) \/ CallbackFails(d, l)
  BY <1>3, FailsFacts DEF Closes
<1> QED
  BY <1>1, <1>2, <1>3 DEF Ends

(* The handler and the history write in the blocks of the dispatch.        *)
Wrote(d, w) == /\ \A e \in Db : base'[e] = base[e]
               /\ \A e \in Db \ {d} : work'[e] = work[e]
               /\ work'[d][Inner] = work[d][Inner] \cup {w}
               /\ \A m \in Level \ {Inner} : work'[d][m] = work[d][m]

LEMMA WritesAny ==
  ASSUME TypeOK, OpenInv, Writes
  PROVE  \/ HistoryCommit /\ ~Changed /\ UNCHANGED <<base, work>>
         \/ HistoryCommit /\ Changed /\ Wrote(default, W(sub, "log"))
         \/ OnCommit /\ Wrote(default, W(sub, "callback"))
         \/ \E d \in Db : WriteRow(d) /\ Wrote(d, W(sub, "row"))
<1> USE DbFacts
<1>0. Inner \in Level /\ \A d \in Db : Inner \in open[d]
  BY DEF Writes, WriteRow, OnCommit, HistoryCommit, OpenInv, InBlock, Level
<1>1. \A what \in {"row", "log", "callback"} : W(sub, what) \in Write
  BY WIsWrite DEF TypeOK
<1>2. ASSUME NEW d \in Db, NEW w \in Write, Put(d, w) PROVE Wrote(d, w)
  BY <1>0, <1>2, PutFacts DEF Wrote
<1>3. CASE HistoryCommit
  BY <1>1, <1>2, <1>3 DEF HistoryCommit, data
<1>4. CASE OnCommit
  BY <1>1, <1>2, <1>4 DEF OnCommit
<1>5. ASSUME NEW d \in Db, WriteRow(d) PROVE Wrote(d, W(sub, "row"))
  BY <1>1, <1>2, <1>5 DEF WriteRow
<1> QED
  BY <1>3, <1>4, <1>5 DEF Writes

LEMMA WroteHere ==
  ASSUME NEW d \in Db, NEW w, Wrote(d, w), NEW e \in Db, NEW v
  PROVE  Here(e, v)' <=> Here(e, v) \/ (e = d /\ v = w)
<1>1. Inner \in Level
  BY DEF Level
<1>2. CASE e # d
  BY <1>2 DEF Wrote, Here
<1>3. CASE e = d
  BY <1>1, <1>3 DEF Wrote, Here
<1> QED
  BY <1>2, <1>3

(* Where a step that ends blocks ends them.                                *)
LEMMA Closing ==
  ASSUME TypeOK
  PROVE  /\ ExitDatabase => \E ws \in SUBSET work[Databases[left]][Inner] :
                               Closes(Databases[left], Inner, ws)
         /\ CheckView => \E ws \in SUBSET work[default][View] : Closes(default, View, ws)
         /\ Stops => \E ws \in SUBSET work[default][Multi] : Closes(default, Multi, ws)
<1> USE DbFacts
<1>0. Multi \in Level /\ View \in Level /\ Inner \in Level
  BY DEF Level
<1>1. ASSUME ExitDatabase
      PROVE  Databases[left] \in Db /\ Ends(Databases[left], Inner)
  BY <1>1 DEF ExitDatabase, TypeOK, Ends
<1>2. CheckView => Ends(default, View)
  BY DEF CheckView, Ends
<1>3. Stops => Ends(default, Multi)
  BY DEF Stops, FailMulti, EndMulti, RefuseSub, Ends
<1> QED
  BY <1>0, <1>1, <1>2, <1>3, EndCloses

(* Each request writes for itself, in its own blocks.                      *)
LEMMA OwnStep == ASSUME TypeOK, OpenInv, OwnInv, Next PROVE OwnInv'
<1> USE DbFacts
<1>0. /\ sub \in Nat /\ \A w \in Write : w.sub \in Nat
      /\ Multi \in Level /\ View \in Level /\ Inner \in Level
      /\ \A d \in Db, l \in Level : work[d][l] \subseteq Write
      /\ \A d \in Db : base[d] \subseteq Write
  BY DEF TypeOK, Sub, Write, Level
<1>1. CASE Quiet \/ EnterView \/ EnterDispatch
  <2>1. /\ UNCHANGED <<base, work>> /\ phase # "done"
        /\ \/ /\ sub' = sub /\ (phase' \in {"view", "enter"} => phase \in {"view", "enter"})
              /\ \/ phase' \in {"view", "enter", "answer", "done"}
                 \/ view' = view /\ phase \in {"enter", "handler", "history", "exit", "check"}
           \/ sub' = sub + 1 /\ phase = "answer" /\ phase' = "view"
    BY <1>1 DEF Quiet, StartRaises, CheckScope, Return, Raise, HistoryFails, Dispatched,
                Answer, NextSub, NextView, End, data, EnterView, EnterDispatch
  <2>2. \A d \in Db : \A w : Here(d, w)' <=> Here(d, w)
    BY <2>1 DEF Here
  <2>3. phase = "answer" => work[default][View] = {} /\ \A d \in Db : work[d][Inner] = {}
    BY <1>0 DEF OpenInv, InBlock, Multi, View, Inner
  <2>4. phase = "enter" => \A w \in Write : w.sub = sub => ~Here(default, w)
    BY DEF OwnInv
  <2>5. CASE sub' = sub
    <3>1. phase' # "done" => \A d \in Db, w \in Write :
            w.sub > sub' \/ (w.sub = sub' /\ phase' \in {"view", "enter"}) => ~Here(d, w)'
      BY <1>0, <2>1, <2>2, <2>5 DEF OwnInv
    <3>2. /\ \A d \in Db : \A w \in work'[d][Inner] : w.sub = sub'
          /\ \A w \in work'[default][View] : w.sub = sub'
      BY <2>1, <2>5 DEF OwnInv
    <3>3. view' = "permission" /\ phase' \in {"handler", "history", "exit", "check"}
            => \A w \in base'[default] \cup work'[default][Multi] : w.sub # sub'
      BY <1>0, <2>1, <2>4, <2>5 DEF OwnInv, Here
    <3> QED
      BY <3>1, <3>2, <3>3 DEF OwnInv
  <2>6. CASE sub' = sub + 1 /\ phase = "answer" /\ phase' = "view"
    <3>1. \A d \in Db, w \in Write : w.sub > sub' \/ w.sub = sub' => ~Here(d, w)'
      BY <1>0, <2>1, <2>2, <2>6 DEF OwnInv
    <3> QED
      BY <2>1, <2>3, <2>6, <3>1 DEF OwnInv
  <2> QED
    BY <2>1, <2>5, <2>6
<1>2. CASE Begin
  <2>1. /\ \A d \in Db : base'[d] = {}
        /\ work' = work /\ phase = "done" /\ phase' = "view"
    BY <1>2 DEF Begin, Nothing
  <2>2. \A d \in Db, l \in Level : work[d][l] = {}
    BY <2>1 DEF OpenInv, InBlock
  <2> QED
    BY <1>0, <2>1, <2>2 DEF OwnInv, Here
<1>3. CASE Writes
  <2>1. /\ sub' = sub /\ view' = view
        /\ phase \in {"handler", "history"} /\ phase' \in {"handler", "exit"}
    BY <1>3 DEF Writes, WriteRow, OnCommit, HistoryCommit
  <2>2. CASE UNCHANGED <<base, work>>
    <3>1. \A d \in Db : \A w : Here(d, w)' <=> Here(d, w)
      BY <2>2 DEF Here
    <3> QED
      BY <2>1, <2>2, <3>1 DEF OwnInv
  <2>3. ASSUME NEW d \in Db, NEW what, Wrote(d, W(sub, what)) PROVE OwnInv'
    <3>1. W(sub, what).sub = sub
      BY DEF W
    <3>2. \A e \in Db, v \in Write : v.sub > sub /\ Here(e, v)' => Here(e, v)
      BY <1>0, <2>3, <3>1, WroteHere
    <3>3. \A e \in Db : \A w \in work'[e][Inner] : w.sub = sub
      BY <2>3, <3>1 DEF OwnInv, Wrote
    <3>4. /\ base'[default] = base[default] /\ work'[default][View] = work[default][View]
          /\ work'[default][Multi] = work[default][Multi]
      BY <1>0, <2>3 DEF Wrote, Multi, View, Inner
    <3> QED
      BY <2>1, <3>2, <3>3, <3>4 DEF OwnInv
  <2> QED
    BY <1>3, <2>2, <2>3, WritesAny
<1>4. CASE ExitDatabase
  <2> DEFINE d == Databases[left]
  <2>1. /\ sub' = sub /\ view' = view /\ phase = "exit" /\ phase' = "exit" /\ d \in Db
    BY <1>4 DEF ExitDatabase, TypeOK
  <2>2. PICK ws \in SUBSET work[d][Inner] : Others(d) /\ Ended(d, Inner, ws)
    BY <1>4, Closing DEF Closes
  <2> HIDE DEF d
  <2>3. \A e \in Db : \A w : Here(e, w)' => Here(e, w)
    BY <1>0, <2>1, <2>2, HereMoves
  <2>4. \A w \in ws : w.sub = sub
    BY <2>1 DEF OwnInv
  <2>5. \A e \in Db : \A w \in work'[e][Inner] : w.sub = sub
    BY <1>0, <2>2 DEF OwnInv, Others, Ended
  <2>6. view = "permission" <=> View \in open[default]
    BY <1>0, <2>1 DEF OpenInv, InBlock, Multi, View, Inner
  <2>7. CASE d # default
    <3>1. base'[default] = base[default] /\ work'[default] = work[default]
      BY <2>2, <2>7 DEF Others
    <3> QED
      BY <2>1, <2>3, <2>5, <3>1 DEF OwnInv
  <2>8. CASE d = default
    <3>1. \A w \in work'[default][View] : w.sub = sub
      BY <1>0, <2>2, <2>4, <2>8 DEF OwnInv, Ended, ToBase, ToBlock
    <3>2. view = "permission" => /\ base'[default] = base[default]
                                 /\ work'[default][Multi] = work[default][Multi]
      BY <1>0, <2>2, <2>6, <2>8 DEF Ended, ToBase, ToBlock, Multi, View, Inner
    <3> QED
      BY <2>1, <2>3, <2>5, <3>1, <3>2 DEF OwnInv
  <2> QED
    BY <2>7, <2>8
<1>5. CASE CheckView \/ Stops
  <2>1. /\ sub' = sub
        /\ phase' = "done" \/ (phase = "check" /\ phase' = "answer")
    BY <1>5 DEF CheckView, Stops, FailMulti, EndMulti, RefuseSub, End
  <2>2. PICK l \in {Multi, View} :
          \E ws \in SUBSET work[default][l] : Others(default) /\ Ended(default, l, ws)
    BY <1>5, Closing DEF Closes
  <2>3. l \in Level /\ l < Inner
    BY <1>0 DEF Multi, View, Inner
  <2>4. \A e \in Db : \A w : Here(e, w)' => Here(e, w)
    BY <2>2, <2>3, HereMoves
  <2>5. /\ work'[default][Inner] = work[default][Inner]
        /\ work'[default][View] \subseteq work[default][View]
    BY <1>0, <2>2, <2>3 DEF Ended, ToBase, ToBlock, Multi, View, Inner
  <2>6. \A e \in Db : \A w \in work'[e][Inner] : w.sub = sub
    BY <2>2, <2>5 DEF OwnInv, Others
  <2> QED
    BY <2>1, <2>4, <2>5, <2>6 DEF OwnInv
<1> QED
  BY <1>1, <1>2, <1>3, <1>4, <1>5 DEF Next, Handler, Quiet, Writes, Stops

(* A row that was written is one of made.                                  *)
LEMMA MadeStep == ASSUME TypeOK, OpenInv, MadeInv, Next PROVE MadeInv'
<1> USE DbFacts
<1>0. Multi \in Level /\ View \in Level /\ Inner \in Level /\ sub \in Sub
  BY DEF Level, TypeOK
<1>1. CASE Quiet \/ EnterView \/ EnterDispatch
  <2>1. UNCHANGED <<base, work, made>>
    BY <1>1 DEF Quiet, StartRaises, CheckScope, Return, Raise, HistoryFails, Dispatched,
                Answer, NextSub, NextView, End, data, said, EnterView, EnterDispatch
  <2> QED
    BY <2>1 DEF MadeInv, Here
<1>2. CASE Begin
  <2>1. /\ \A d \in Db : base'[d] = {}
        /\ work' = work /\ phase = "done"
    BY <1>2 DEF Begin, Nothing
  <2>2. \A d \in Db, l \in Level : work[d][l] = {}
    BY <2>1 DEF OpenInv, InBlock
  <2> QED
    BY <2>1, <2>2 DEF MadeInv, Here
<1>3. CASE Writes
  <2>1. made \subseteq made' /\ \A d \in Db : WriteRow(d) => <<d, sub>> \in made'
    BY <1>3 DEF Writes, WriteRow, OnCommit, HistoryCommit, said
  <2>2. CASE UNCHANGED <<base, work>>
    BY <2>1, <2>2 DEF MadeInv, Here
  <2>3. ASSUME NEW d \in Db, NEW what, Wrote(d, W(sub, what)), what = "row" => WriteRow(d)
        PROVE  MadeInv'
    <3> SUFFICES ASSUME NEW e \in Db, NEW i \in Sub, Here(e, W(i, "row"))'
                 PROVE  <<e, i>> \in made'
      BY DEF MadeInv
    <3>1. Here(e, W(i, "row")) \/ (e = d /\ W(i, "row") = W(sub, what))
      BY <2>3, WroteHere
    <3> QED
      BY <2>1, <2>3, <3>1 DEF MadeInv, W
  <2> QED
    BY <1>3, <2>2, <2>3, WritesAny
<1>4. CASE ExitDatabase \/ CheckView \/ Stops
  <2>1. made' = made
    BY <1>4 DEF ExitDatabase, CheckView, Stops, FailMulti, EndMulti, RefuseSub, End
  <2>2. PICK d \in Db, l \in Level : \E ws \in SUBSET work[d][l] : Others(d) /\ Ended(d, l, ws)
    <3>1. ExitDatabase => Databases[left] \in Db
      BY DEF ExitDatabase, TypeOK
    <3> QED
      BY <1>0, <1>4, <3>1, Closing DEF Closes
  <2>3. \A e \in Db : \A w : Here(e, w)' => Here(e, w)
    BY <2>2, HereMoves
  <2> QED
    BY <2>1, <2>3 DEF MadeInv
<1> QED
  BY <1>1, <1>2, <1>3, <1>4 DEF Next, Handler, Quiet, Writes, Stops

(* A failure is known until the answer.                                    *)
LEMMA PhaseStep == ASSUME TypeOK, PhaseInv, Next PROVE PhaseInv'
<1>1. CASE Begin \/ Quiet \/ EnterView \/ EnterDispatch
  BY <1>1 DEF PhaseInv, Quiet, StartRaises, CheckScope, Return, Raise, HistoryFails, Dispatched,
              Answer, NextSub, NextView, End, EnterView, EnterDispatch, Begin
<1>2. CASE Writes
  BY <1>2 DEF PhaseInv, Writes, WriteRow, OnCommit, HistoryCommit
<1>3. CASE ExitDatabase \/ CheckView
  BY <1>3 DEF PhaseInv, ExitDatabase, CheckView
<1>4. CASE Stops
  BY <1>4 DEF PhaseInv, Stops, FailMulti, EndMulti, RefuseSub, End
<1> QED
  BY <1>1, <1>2, <1>3, <1>4 DEF Next, Handler, Quiet, Writes, Stops

(* A step of a request that only goes on keeps the rows it has.            *)
LEMMA KeptStep == ASSUME TypeOK, OpenInv, PhaseInv, KeptInv, Next PROVE KeptInv'
<1> USE DbFacts
<1>0. Multi \in Level /\ View \in Level /\ Inner \in Level
  BY DEF Level
<1>m. ASSUME NEW m \in made PROVE m[1] \in Db /\ m[2] \in Sub /\ m = <<m[1], m[2]>>
  BY <1>m DEF TypeOK
<1>r. ASSUME NEW d \in Db, NEW l \in Level, Release(d, l), AllKept, made' = made
      PROVE  AllKept'
  <2>1. \A e \in Db : \A w : Here(e, w) => Here(e, w)'
    BY <1>r, ReleaseFacts, HereMoves
  <2> QED
    BY <1>m, <1>r, <2>1 DEF AllKept
<1>1. CASE Quiet \/ EnterView \/ EnterDispatch
  <2>1. UNCHANGED <<base, work, made>>
    BY <1>1 DEF Quiet, StartRaises, CheckScope, Return, Raise, HistoryFails, Dispatched,
                Answer, NextSub, NextView, End, data, said, EnterView, EnterDispatch
  <2>2. /\ (phase' \in {"history", "exit"} /\ exc' = "none") \/ ~Failed'
        => (phase \in {"history", "exit"} /\ exc = "none") \/ ~Failed
    BY <1>1 DEF Quiet, StartRaises, CheckScope, Return, Raise, HistoryFails, Dispatched, Failed,
                Answer, NextSub, NextView, End, EnterView, EnterDispatch, PhaseInv
  <2> QED
    BY <2>1, <2>2 DEF KeptInv, AllKept, Here
<1>2. CASE Begin
  BY <1>2 DEF Begin, KeptInv, AllKept
<1>3. CASE Writes
  <2>1. AllKept
    BY <1>3 DEF Writes, WriteRow, OnCommit, HistoryCommit, KeptInv, PhaseInv, Failed
  <2>2. CASE HistoryCommit \/ OnCommit
    <3>1. made' = made
      BY <2>2 DEF HistoryCommit, OnCommit, said
    <3>2. \A d \in Db : \A w : Here(d, w) => Here(d, w)'
      <4>1. CASE UNCHANGED <<base, work>>
        BY <4>1 DEF Here
      <4> QED
        BY <1>3, <2>2, <4>1, WritesAny, WroteHere
    <3> QED
      BY <1>m, <2>1, <3>1, <3>2 DEF AllKept, KeptInv
  <2>3. ASSUME NEW d \in Db, WriteRow(d), Wrote(d, W(sub, "row")) PROVE KeptInv'
    <3>1. made' = made \cup {<<d, sub>>}
      BY <2>3 DEF WriteRow
    <3>2. \A e \in Db : \A w : Here(e, w)' <=> Here(e, w) \/ (e = d /\ w = W(sub, "row"))
      BY <2>3, WroteHere
    <3> QED
      BY <1>m, <2>1, <3>1, <3>2 DEF AllKept, KeptInv
  <2> QED
    BY <1>3, <2>2, <2>3, WritesAny
<1>4. CASE ExitDatabase
  <2>1. made' = made /\ phase = "exit" /\ Databases[left] \in Db
    BY <1>4 DEF ExitDatabase, TypeOK
  <2>2. exc' = "none" => exc = "none" /\ Release(Databases[left], Inner)
    BY <1>4 DEF ExitDatabase
  <2> QED
    BY <1>0, <1>r, <2>1, <2>2 DEF KeptInv, Failed
<1>5. CASE CheckView
  <2>1. made' = made /\ phase = "check" /\ phase' = "answer" /\ status' = status
    BY <1>5 DEF CheckView
  <2>2. exc' = "none" => exc = "none" /\ Release(default, View)
    BY <1>5 DEF CheckView
  <2> QED
    BY <1>0, <1>r, <2>1, <2>2 DEF KeptInv, Failed
<1>6. CASE Stops
  <2>1. made' = made /\ phase' = "done"
    BY <1>6 DEF Stops, FailMulti, EndMulti, RefuseSub, End
  <2>2. status' # "error" => ~Failed /\ Release(default, Multi)
    BY <1>6 DEF Stops, FailMulti, EndMulti, RefuseSub, End
  <2> QED
    BY <1>0, <1>r, <2>1, <2>2 DEF KeptInv, Failed
<1> QED
  BY <1>1, <1>2, <1>3, <1>4, <1>5, <1>6 DEF Next, Handler, Quiet, Writes, Stops

(* The databases of a plain view end alike.                                *)
LEMMA PlainStep ==
  ASSUME TypeOK, OpenInv, ViewInv, PhaseInv, KeptInv, PlainInv, Next
  PROVE  PlainInv'
<1> USE DbFacts
<1>1. CASE Quiet \/ EnterView \/ EnterDispatch
  <2>1. /\ UNCHANGED <<base, work, made, broken, multi>>
        /\ view' = view \/ multi
    BY <1>1 DEF Quiet, StartRaises, CheckScope, Return, Raise, HistoryFails, Dispatched,
                Answer, NextSub, NextView, End, data, said, EnterView, EnterDispatch
  <2>2. NoRows' <=> NoRows
    BY <2>1 DEF NoRows
  <2>3. AllKept' <=> AllKept
    BY <2>1 DEF AllKept, Here
  <2>4. ~multi /\ (phase' \in {"view", "enter", "handler", "history"} \/ (phase' = "exit" /\ exc' # "none"))
        => phase \in {"view", "enter", "handler", "history"} \/ (phase = "exit" /\ exc # "none")
    BY <1>1 DEF Quiet, StartRaises, CheckScope, Return, Raise, HistoryFails, Dispatched,
                Answer, NextSub, NextView, End, EnterView, EnterDispatch
  <2>5. ~multi /\ phase' \in {"answer", "done"}
        => phase \in {"enter", "exit", "answer", "check"}
    BY <1>1 DEF Quiet, StartRaises, CheckScope, Return, Raise, HistoryFails, Dispatched,
                Answer, NextSub, NextView, End, EnterView, EnterDispatch
  <2> QED
    BY <2>1, <2>2, <2>3, <2>4, <2>5 DEF PlainInv, KeptInv, ViewInv
<1>2. CASE Begin
  BY <1>2 DEF Begin, PlainInv, NoRows, Nothing
<1>3. CASE Writes
  <2>1. /\ UNCHANGED <<multi, view, broken>> /\ phase \in {"handler", "history"}
        /\ phase' = "handler" \/ (phase' = "exit" /\ exc' = "none")
    BY <1>3 DEF Writes, WriteRow, OnCommit, HistoryCommit, said, PhaseInv
  <2>2. \A d \in Db : base'[d] = base[d]
    BY <1>3, WritesAny DEF Wrote
  <2> QED
    BY <2>1, <2>2 DEF PlainInv, NoRows
<1>4. CASE ExitDatabase
  <2> DEFINE d == Databases[left]
  <2>1. UNCHANGED <<multi, view>> /\ phase = "exit" /\ phase' = "exit" /\ d \in Db /\ Inner \in Level
    BY <1>4 DEF ExitDatabase, TypeOK, Level
  <2>2. ~broken' /\ exc' # "none" => ~broken /\ exc # "none" /\ RollBack(d, Inner)
    BY <1>4 DEF ExitDatabase, CommitFails, CallbackFails
  <2> HIDE DEF d
  <2>3. RollBack(d, Inner) => \A e \in Db : base'[e] = base[e]
    BY <2>1, RollBackFacts DEF Others, Ended, ToBase, ToBlock
  <2> QED
    BY <2>1, <2>2, <2>3 DEF PlainInv, NoRows
<1>5. CASE CheckView \/ Stops
  BY <1>5 DEF CheckView, Stops, FailMulti, EndMulti, RefuseSub, End, PlainInv, ViewInv
<1> QED
  BY <1>1, <1>2, <1>3, <1>4, <1>5 DEF Next, Handler, Quiet, Writes, Stops

(* A row is never without its Changeset where it is kept.                  *)
LEMMA LogStep == ASSUME TypeOK, OpenInv, OwnInv, MadeInv, PhaseInv, LogInv, Next PROVE LogInv'
<1> USE DbFacts
<1>0. /\ Multi \in Level /\ View \in Level /\ Inner \in Level
      /\ Multi # Inner /\ View # Inner /\ View # Multi
  BY DEF Level, Multi, View, Inner
<1>1. CASE Quiet \/ EnterView \/ EnterDispatch
  <2>1. /\ UNCHANGED <<base, work>>
        /\ phase' = "exit" => exc' # "none"
    BY <1>1 DEF Quiet, StartRaises, CheckScope, Return, Raise, HistoryFails, Dispatched,
                Answer, NextSub, NextView, End, data, EnterView, EnterDispatch
  <2> QED
    BY <2>1 DEF LogInv, WithLog
<1>2. CASE Begin
  <2>1. base'[default] = {} /\ work' = work /\ phase = "done" /\ phase' = "view"
    BY <1>2 DEF Begin, Nothing
  <2>2. \A l \in Level : work[default][l] = {}
    BY <2>1 DEF OpenInv, InBlock
  <2> QED
    BY <1>0, <2>1, <2>2 DEF LogInv, WithLog
<1>3. CASE Writes
  <2>1. /\ base'[default] = base[default]
        /\ \A l \in Level \ {Inner} : work'[default][l] = work[default][l]
    BY <1>3, WriteFacts
  <2>2. ASSUME HistoryCommit PROVE WithLog(work'[default][Inner])
    <3>1. \A i \in Sub : W(i, "row") \in work[default][Inner] => i = sub /\ Changed
      BY <1>0 DEF OwnInv, MadeInv, Here, W, Changed
    <3>2. CASE Changed /\ Wrote(default, W(sub, "log"))
      BY <3>1, <3>2 DEF Wrote, WithLog, W
    <3>3. CASE ~Changed /\ UNCHANGED work
      BY <3>1, <3>3 DEF WithLog
    <3> QED
      BY <1>3, <2>2, <3>2, <3>3, WritesAny DEF HistoryCommit, OnCommit, WriteRow
  <2>3. phase' = "exit" => HistoryCommit
    BY <1>3 DEF Writes, WriteRow, OnCommit, HistoryCommit
  <2> QED
    BY <1>0, <2>1, <2>2, <2>3 DEF LogInv, WithLog
<1>c. ASSUME NEW l \in Level, NEW ws, Ended(default, l, ws), WithLog(ws)
      PROVE  /\ WithLog(base'[default])
             /\ \A m \in Level : WithLog(work[default][m]) => WithLog(work'[default][m])
  <2>1. CASE ToBase(default, l, ws)
    BY <1>c, <2>1 DEF Ended, ToBase, LogInv, WithLog
  <2>2. CASE ToBlock(default, l, ws)
    BY <1>c, <2>2 DEF Ended, ToBlock, LogInv, WithLog
  <2> QED
    BY <1>c, <2>1, <2>2 DEF Ended
<1>4. CASE ExitDatabase
  <2> DEFINE d == Databases[left]
  <2>1. phase = "exit" /\ d \in Db
    BY <1>4 DEF ExitDatabase, TypeOK
  <2>2. exc' = "none" => exc = "none"
    BY <1>4 DEF ExitDatabase
  <2>3. \E ws : d # default \/ (Ended(d, Inner, ws) /\ WithLog(ws))
    <3>1. CASE d = default /\ exc = "none"
      BY <1>4, <2>1, <3>1, Closing DEF Closes, LogInv
    <3>2. CASE exc # "none"
      <4>1. RollBack(d, Inner)
        BY <1>4, <3>2 DEF ExitDatabase
      <4> QED
        BY <1>0, <2>1, <4>1, RollBackFacts DEF WithLog
    <3> QED
      BY <3>1, <3>2
  <2>4. Others(d)
    BY <1>4, Closing DEF Closes
  <2> HIDE DEF d
  <2>5. CASE d = default
    <3>1. PICK ws : Ended(default, Inner, ws) /\ WithLog(ws)
      BY <2>3, <2>5
    <3> QED
      BY <1>0, <1>c, <2>1, <2>2, <3>1 DEF LogInv
  <2>6. CASE d # default
    <3>1. base'[default] = base[default] /\ work'[default] = work[default]
      BY <2>4, <2>6 DEF Others
    <3> QED
      BY <2>1, <2>2, <3>1 DEF LogInv, WithLog
  <2> QED
    BY <2>5, <2>6
<1>5. CASE CheckView \/ Stops
  <2>1. phase' # "exit"
    BY <1>5 DEF CheckView, Stops, FailMulti, EndMulti, RefuseSub, End
  <2>2. PICK l \in {Multi, View} :
          \E ws : Ended(default, l, ws) /\ (WithLog(work[default][l]) => WithLog(ws))
    BY <1>5, Closing DEF Closes
  <2>3. \E ws : Ended(default, l, ws) /\ WithLog(ws)
    BY <2>2 DEF LogInv
  <2> QED
    BY <1>0, <1>c, <2>1, <2>2, <2>3 DEF LogInv
<1> QED
  BY <1>1, <1>2, <1>3, <1>4, <1>5 DEF Next, Handler, Quiet, Writes, Stops

(* A Changeset is kept only where a row of its request is.                 *)
LEMMA ToldStep ==
  ASSUME TypeOK, OpenInv, MultiInv, OwnInv, ViewInv, PhaseInv, KeptInv, ToldInv, Next
  PROVE  ToldInv'
<1> USE DbFacts
<1>0. /\ Multi \in Level /\ View \in Level /\ Inner \in Level /\ sub \in Sub
      /\ \A l \in Level : l = Multi \/ l = View \/ l = Inner
      /\ Sub \subseteq Nat
  BY DEF Level, TypeOK, Sub
<1>w. \A i \in Sub : \A what \in {"row", "log"} : W(i, what).sub = i /\ W(i, what) \in Write
  BY WIsWrite DEF W
<1>r. ASSUME NEW d \in Db, NEW l \in Level, Release(d, l)
      PROVE  \A e \in Db : \A w : Here(e, w)' <=> Here(e, w)
  BY <1>r, ReleaseFacts, HereMoves
<1>1. CASE Quiet \/ EnterView \/ EnterDispatch
  <2>1. UNCHANGED <<base, work, broken>>
    BY <1>1 DEF Quiet, StartRaises, CheckScope, Return, Raise, HistoryFails, Dispatched,
                Answer, NextSub, NextView, End, data, said, EnterView, EnterDispatch
  <2>2. \A d \in Db : \A w : Here(d, w)' <=> Here(d, w)
    BY <2>1 DEF Here
  <2>3. phase' \in {"handler", "history"} \/ (phase' = "exit" /\ exc' # "none")
        => sub' = sub /\ phase \in {"enter", "handler", "history"}
    BY <1>1 DEF Quiet, StartRaises, CheckScope, Return, Raise, HistoryFails, Dispatched,
                Answer, NextSub, NextView, End, EnterView, EnterDispatch
  <2>4. phase = "enter" => ~Here(default, W(sub, "log"))
    BY <1>0, <1>w DEF OwnInv
  <2> QED
    BY <2>1, <2>2, <2>3, <2>4 DEF ToldInv
<1>2. CASE Begin
  <2>1. base'[default] = {} /\ work' = work /\ phase = "done"
    BY <1>2 DEF Begin, Nothing
  <2>2. \A l \in Level : work[default][l] = {}
    BY <2>1 DEF OpenInv, InBlock
  <2>3. \A w : ~Here(default, w)'
    BY <2>1, <2>2 DEF Here
  <2> QED
    BY <2>3 DEF ToldInv
<1>3. CASE Writes
  <2>1. /\ broken' = broken /\ sub' = sub
        /\ phase \in {"handler", "history"}
    BY <1>3 DEF Writes, WriteRow, OnCommit, HistoryCommit, said
  <2>2. CASE HistoryCommit
    <3>1. phase = "history" /\ phase' = "exit" /\ exc' = "none" /\ exc = "none"
      BY <2>2 DEF HistoryCommit, PhaseInv
    <3>2. Changed => \E d \in Db : Here(d, W(sub, "row"))
      BY <3>1 DEF KeptInv, AllKept, Changed
    <3>3. CASE UNCHANGED <<base, work>>
      <4>1. \A d \in Db : \A w : Here(d, w)' <=> Here(d, w)
        BY <3>3 DEF Here
      <4> QED
        BY <2>1, <3>1, <4>1 DEF ToldInv
    <3>4. CASE Changed /\ Wrote(default, W(sub, "log"))
      <4>1. \A e \in Db : \A w : Here(e, w)' <=> Here(e, w) \/ (e = default /\ w = W(sub, "log"))
        BY <3>4, WroteHere
      <4>2. \A i \in Sub : Here(default, W(i, "log"))' => Here(default, W(i, "log")) \/ i = sub
        BY <4>1 DEF W
      <4> QED
        BY <2>1, <3>1, <3>2, <3>4, <4>1, <4>2 DEF ToldInv
    <3> QED
      BY <1>3, <2>2, <3>3, <3>4, WritesAny DEF HistoryCommit, OnCommit, WriteRow
  <2>3. ASSUME NEW d \in Db, NEW what \in {"row", "callback"}, Wrote(d, W(sub, what)),
               OnCommit \/ WriteRow(d)
        PROVE  ToldInv'
    <3>1. phase = "handler" /\ phase' = "handler"
      BY <2>3 DEF OnCommit, WriteRow
    <3>2. \A e \in Db : \A w : Here(e, w)' <=> Here(e, w) \/ (e = d /\ w = W(sub, what))
      BY <2>3, WroteHere
    <3>3. \A i : Here(default, W(i, "log"))' => Here(default, W(i, "log"))
      BY <3>2 DEF W
    <3> QED
      BY <2>1, <3>1, <3>2, <3>3 DEF ToldInv
  <2> QED
    BY <1>3, <2>2, <2>3, WritesAny
<1>4. CASE ExitDatabase
  <2> DEFINE d == Databases[left]
  <2>1. phase = "exit" /\ phase' = "exit" /\ sub' = sub /\ d \in Db
    BY <1>4 DEF ExitDatabase, TypeOK
  <2>2. ~broken' => /\ ~broken /\ exc' = exc
                    /\ Release(d, Inner) \/ (exc # "none" /\ RollBack(d, Inner))
    BY <1>4 DEF ExitDatabase, CommitFails, CallbackFails
  <2> HIDE DEF d
  <2>3. CASE Release(d, Inner)
    BY <1>0, <1>r, <2>1, <2>2, <2>3 DEF ToldInv
  <2>4. CASE exc # "none" /\ RollBack(d, Inner)
    <3>1. \A e \in Db : \A w : /\ Here(e, w)' => Here(e, w)
                               /\ Here(e, w) => Here(e, w)' \/ w \in work[d][Inner]
      BY <1>0, <2>1, <2>4, RollBackFacts, HereMoves
    <3>2. \A w \in work[d][Inner] : w.sub = sub
      BY <2>1 DEF OwnInv
    <3> QED
      BY <1>0, <1>w, <2>1, <2>2, <2>4, <3>1, <3>2 DEF ToldInv
  <2> QED
    BY <2>2, <2>3, <2>4 DEF ToldInv
<1>5. CASE CheckView
  <2>1. phase = "check" /\ phase' = "answer" /\ sub' = sub /\ view = "permission"
    BY <1>5 DEF CheckView, ViewInv
  <2>2. ~broken' => ~broken /\ (Release(default, View) \/ RollBack(default, View))
    BY <1>5 DEF CheckView, CommitFails, CallbackFails
  <2>3. CASE Release(default, View)
    BY <1>0, <1>r, <2>1, <2>2, <2>3 DEF ToldInv
  <2>4. CASE RollBack(default, View)
    <3>1. Ended(default, View, {})
      BY <1>0, <2>4, RollBackFacts
    <3>2. \A e \in Db : \A w : /\ Here(e, w)' => Here(e, w)
                               /\ Here(e, w) => Here(e, w)'
                                    \/ (e = default /\ w \in work[default][View])
      BY <1>0, <2>4, RollBackFacts, HereMoves
    <3>3. work[default][Inner] = {}
      BY <1>0, <2>1 DEF OpenInv, InBlock, Multi, View, Inner
    <3>4. \A w : Here(default, w)' => w \in base[default] \/ w \in work[default][Multi]
      BY <1>0, <3>1, <3>3 DEF Here, Ended, ToBase, ToBlock
    <3>5. /\ \A i \in Sub : Here(default, W(i, "log"))' => i # sub
          /\ \A i \in Sub : W(i, "row") \in work[default][View] => i = sub
      BY <1>0, <1>w, <2>1, <3>4 DEF OwnInv
    <3> QED
      BY <1>0, <2>1, <2>2, <3>2, <3>5 DEF ToldInv
  <2> QED
    BY <2>2, <2>3, <2>4 DEF ToldInv
<1>6. CASE Stops
  <2>1. /\ phase \in {"answer", "view"} /\ phase' = "done" /\ sub' = sub /\ multi
    BY <1>6 DEF Stops, FailMulti, EndMulti, RefuseSub, End
  <2>2. ~broken' => ~broken /\ (Release(default, Multi) \/ RollBack(default, Multi))
    BY <1>6 DEF Stops, FailMulti, EndMulti, RefuseSub, CommitFails, CallbackFails
  <2>3. CASE Release(default, Multi)
    BY <1>0, <1>r, <2>1, <2>2, <2>3 DEF ToldInv
  <2>4. CASE RollBack(default, Multi)
    <3>1. Ended(default, Multi, {})
      BY <1>0, <2>4, RollBackFacts
    <3>2. base[default] = {} /\ work[default][View] = {} /\ work[default][Inner] = {}
      BY <1>0, <2>1 DEF MultiInv, OpenInv, InBlock, Multi, View, Inner
    <3>3. \A w : ~Here(default, w)'
      BY <1>0, <3>1, <3>2 DEF Here, Ended, ToBase, ToBlock
    <3> QED
      BY <3>3 DEF ToldInv
  <2> QED
    BY <2>2, <2>3, <2>4 DEF ToldInv
<1> QED
  BY <1>1, <1>2, <1>3, <1>4, <1>5, <1>6 DEF Next, Handler, Quiet, Writes, Stops

(* Type correctness, for any list of databases and any number of requests. *)
THEOREM TypeCorrect == Spec => []TypeOK
BY TypeInit, TypeStep, PTL DEF Spec

LEMMA InvInit == Init => IInv
<1> SUFFICES ASSUME Init PROVE IInv
  OBVIOUS
<1>1. /\ \A d \in Db : base[d] = {} /\ open[d] = {} /\ \A l \in Level : work[d][l] = {}
      /\ phase = "done" /\ unscoped = {} /\ ~multi /\ made = {} /\ exc = "none"
  BY DEF Init, Nothing
<1>2. OpenInv
  BY <1>1 DEF OpenInv, InBlock
<1>3. MultiInv
  BY <1>1 DEF MultiInv, FailedMultiUndone
<1>4. CallInv
  BY <1>1, DbFacts DEF CallInv, WithRow
<1>5. RowInv
  BY <1>1 DEF RowInv, FreshInv, ViewInv, UnscopedInv
<1>6. EndInv
  <2>1. \A d \in Db : \A w : ~Here(d, w)
    BY <1>1 DEF Here
  <2>2. \A l \in Level : WithLog(work[default][l])
    BY <1>1, DbFacts DEF WithLog
  <2>3. OwnInv /\ MadeInv /\ PhaseInv
    BY <1>1, <2>1, DbFacts DEF OwnInv, MadeInv, PhaseInv, Level
  <2>4. KeptInv /\ PlainInv /\ ToldInv
    BY <1>1, <2>1, DbFacts DEF KeptInv, AllKept, PlainInv, ToldInv
  <2>5. LogInv
    BY <1>1, <2>2, DbFacts DEF LogInv, WithLog, Level
  <2> QED
    BY <2>3, <2>4, <2>5 DEF EndInv
<1> QED
  BY <1>2, <1>3, <1>4, <1>5, <1>6, TypeInit DEF IInv

LEMMA InvStep == IInv /\ [Next]_vars => IInv'
<1> SUFFICES ASSUME IInv, [Next]_vars PROVE IInv'
  OBVIOUS
<1>1. CASE Next
  <2>1. FreshInv' /\ ViewInv' /\ UnscopedInv'
    BY <1>1, FreshStep, ViewStep, UnscopedStep DEF IInv
  <2>2. TypeOK' /\ OpenInv' /\ MultiInv' /\ CallInv'
    BY <1>1, TypeStep, OpenStep, MultiStep, CallStep DEF IInv
  <2>3. OwnInv' /\ MadeInv' /\ PhaseInv' /\ KeptInv'
    BY <1>1, OwnStep, MadeStep, PhaseStep, KeptStep DEF IInv, EndInv
  <2>4. PlainInv' /\ LogInv' /\ ToldInv'
    BY <1>1, PlainStep, LogStep, ToldStep DEF IInv, RowInv, EndInv
  <2> QED
    BY <2>1, <2>2, <2>3, <2>4 DEF IInv, RowInv, EndInv
<1>2. CASE UNCHANGED vars
  <2>1. UNCHANGED <<base, open, work, phase, multi, sub, view, left, status, exc, made,
                    unscoped, broken>>
    BY <1>2 DEF vars, data, said
  <2>2. \A d \in Db, l \in Level : InBlock(d, l)' <=> InBlock(d, l)
    BY <2>1 DEF InBlock
  <2>3. /\ \A i : Nowhere(i)' <=> Nowhere(i)
        /\ \A d, w : Here(d, w)' <=> Here(d, w)
    BY <2>1 DEF Nowhere, Here
  <2>4. OpenInv' /\ MultiInv'
    BY <2>1, <2>2 DEF IInv, OpenInv, MultiInv, FailedMultiUndone
  <2>5. CallInv' /\ RowInv'
    BY <2>1, <2>3 DEF IInv, CallInv, WithRow, RowInv, FreshInv, ViewInv, UnscopedInv
  <2>6. OwnInv' /\ MadeInv' /\ PhaseInv'
    BY <2>1, <2>3 DEF IInv, EndInv, OwnInv, MadeInv, PhaseInv
  <2>7. KeptInv' /\ PlainInv'
    BY <2>1, <2>3 DEF IInv, EndInv, KeptInv, AllKept, Failed, PlainInv, NoRows
  <2>8. LogInv' /\ ToldInv'
    BY <2>1, <2>3 DEF IInv, EndInv, LogInv, WithLog, ToldInv
  <2> QED
    BY <1>2, <2>4, <2>5, <2>6, <2>7, <2>8, TypeStep DEF IInv, EndInv
<1> QED
  BY <1>1, <1>2

LEMMA InvHolds == Spec => []IInv
BY InvInit, InvStep, PTL DEF Spec

-----------------------------------------------------------------------------

(* The results, for any list of databases and any number of requests.      *)

(* A multi-request that fails leaves nothing in the default database.      *)
THEOREM MultiUndone == Spec => []FailedMultiUndone
<1>1. IInv => FailedMultiUndone
  BY DEF IInv, MultiInv
<1> QED
  BY <1>1, InvHolds, PTL

(* What a request wrote that turns out to have checked no scope is undone. *)
THEOREM UnscopedGone == Spec => []UnscopedUndone
<1>1. IInv => UnscopedUndone
  BY DEF IInv, RowInv, UnscopedInv, Nowhere, UnscopedUndone, Durable
<1> QED
  BY <1>1, InvHolds, PTL

(* A callback of on_commit runs only when the rows it was registered for   *)
(* are durable.                                                            *)
THEOREM CalledLate == Spec => []CalledAfterCommit
<1>1. IInv => CalledAfterCommit
  BY DEF IInv, CallInv, WithRow, CalledAfterCommit, Durable
<1> QED
  BY <1>1, InvHolds, PTL

(* When a request is done its blocks are, and what it wrote is durable or  *)
(* lost.                                                                   *)
LEMMA DoneDurable ==
  ASSUME IInv, phase = "done", NEW d \in Db, NEW i, NEW what, Here(d, W(i, what))
  PROVE  Durable(d, i, what)
<1>1. \A l \in Level : work[d][l] = {}
  BY DEF IInv, OpenInv, InBlock
<1> QED
  BY <1>1 DEF Here, Durable

(* A success is true: every row that the request wrote is durable, in      *)
(* whichever database and request of a multi-request it was written.       *)
THEOREM SuccessIsKept == Spec => []SuccessKept
<1>1. ASSUME IInv PROVE SuccessKept
  <2> SUFFICES ASSUME phase = "done", status = "ok", NEW m \in made
               PROVE  Durable(m[1], m[2], "row")
    BY DEF SuccessKept
  <2>1. m[1] \in Db /\ exc = "none"
    BY <1>1 DEF IInv, TypeOK, EndInv, PhaseInv
  <2>2. Here(m[1], W(m[2], "row"))
    BY <1>1, <2>1 DEF IInv, EndInv, KeptInv, Failed, AllKept
  <2> QED
    BY <1>1, <2>1, <2>2, DoneDurable
<1> QED
  BY <1>1, InvHolds, PTL

(* A request on a plain view leaves all its rows or none, in all databases. *)
THEOREM PlainAllOrNothing == Spec => []AllOrNothing
<1>1. ASSUME IInv PROVE AllOrNothing
  <2> SUFFICES ASSUME phase = "done", ~multi, view = "plain", ~broken,
                      NEW m \in made, NEW n \in made, Durable(m[1], m[2], "row")
               PROVE  Durable(n[1], n[2], "row")
    BY DEF AllOrNothing
  <2>1. m[1] \in Db /\ m[2] \in Sub /\ n[1] \in Db
    BY <1>1 DEF IInv, TypeOK
  <2>2. NoRows \/ AllKept
    BY <1>1 DEF IInv, EndInv, PlainInv
  <2>3. Here(n[1], W(n[2], "row"))
    BY <2>1, <2>2 DEF NoRows, AllKept, Durable
  <2> QED
    BY <1>1, <2>1, <2>3, DoneDurable
<1> QED
  BY <1>1, InvHolds, PTL

(* The rows of the default database become durable together with the       *)
(* Changeset that tells of them, and a Changeset only with a row.          *)
THEOREM LoggedWithRows == Spec => []LoggedTogether
<1>1. ASSUME IInv PROVE LoggedTogether
  <2> SUFFICES ASSUME phase = "done", ~broken, NEW i \in Sub
               PROVE  /\ Durable(default, i, "row") => Durable(default, i, "log")
                      /\ Durable(default, i, "log") => \E d \in Db : Durable(d, i, "row")
    BY DEF LoggedTogether
  <2>1. Durable(default, i, "row") => Durable(default, i, "log")
    BY <1>1 DEF IInv, EndInv, LogInv, WithLog, Durable
  <2>2. Durable(default, i, "log") => \E d \in Db : Here(d, W(i, "row"))
    BY <1>1 DEF IInv, EndInv, ToldInv, Here, Durable
  <2> QED
    BY <1>1, <2>1, <2>2, DoneDurable
<1> QED
  BY <1>1, InvHolds, PTL
=============================================================================
