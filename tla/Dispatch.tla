------------------------------ MODULE Dispatch ------------------------------
(***************************************************************************)
(* The transactions of a request: ModelView.dispatch of binder/views.py    *)
(* opens one on each of settings.TRANSACTION_DATABASES, around it          *)
(* PermissionView.dispatch of binder/permissions/views.py and, for the     *)
(* requests in a multi-request, multi_request_view of                      *)
(* plugins/views/multi_request.py each open one on the default database.   *)
(*                                                                         *)
(* Blocks of transaction.atomic nest.  The outermost one of a database is  *)
(* a transaction, the others are savepoints: what they wrote is kept when  *)
(* they end well, and durable when the outermost ends well.                *)
(***************************************************************************)
EXTENDS Naturals, Sequences, FiniteSets

CONSTANTS Databases,   \* settings.TRANSACTION_DATABASES, a sequence
          default,     \* the database of the models, the history and on_commit
          MaxSubs      \* bound: requests in a multi-request

Db == {Databases[i] : i \in 1..Len(Databases)}
Sub == 1..MaxSubs

ASSUME DispatchAssumption ==
  /\ Len(Databases) \in Nat /\ Databases \in [1..Len(Databases) -> Db]
  /\ \A i, j \in 1..Len(Databases) : Databases[i] = Databases[j] => i = j
  /\ default \in Db
  /\ MaxSubs \in Nat \ {0}

(* The blocks a database may be in, from the outermost.                    *)
Multi == 1
View == 2
Inner == 3
Level == {Multi, View, Inner}

(* What a request leaves in a database: rows, their Changeset, and as if   *)
(* they were written, too, the callbacks that on_commit runs.              *)
Write == [sub : Sub, what : {"row", "log", "callback"}]
W(i, what) == [sub |-> i, what |-> what]

VARIABLES base,      \* what this request has made durable
          open,      \* the blocks a database is in
          work,      \* what was written in each
          started,   \* _Transaction.started
          phase,
          multi,     \* the request is a multi-request
          sub,       \* which of its requests runs
          view,      \* the class of its view
          left,      \* databases whose block is still to be left
          exc,       \* the exception on its way up
          status,    \* the response, or the one of the handler
          scoped,    \* a permission check and the scoping were done
          made,      \* rows written, durable or not
          unscoped,  \* requests that were fine but for the scoping
          broken     \* COMMIT failed, or a callback after it

data == <<base, open, work>>
said == <<made, unscoped, broken>>
vars == <<data, started, phase, multi, sub, view, left, exc, status, scoped, said>>

TypeOK ==
  /\ base \in [Db -> SUBSET Write] /\ open \in [Db -> SUBSET Level]
  /\ work \in [Db -> [Level -> SUBSET Write]]
  /\ started \in BOOLEAN /\ multi \in BOOLEAN /\ scoped \in BOOLEAN /\ broken \in BOOLEAN
  /\ phase \in {"view", "enter", "handler", "history", "exit", "check", "answer", "done"}
  /\ sub \in Sub /\ view \in {"plain", "permission"}
  /\ left \in 0..Len(Databases)
  /\ exc \in {"none", "binder", "other"}
  /\ status \in {"ok", "redirect", "error"}
  /\ made \subseteq Db \X Sub /\ unscoped \subseteq Sub

Nothing == [d \in Db |-> {}]

Init ==
  /\ base = Nothing /\ open = Nothing /\ work = [d \in Db |-> [l \in Level |-> {}]]
  /\ started = FALSE
  /\ phase = "done" /\ multi = FALSE /\ sub = 1 /\ view = "plain"
  /\ left = 0 /\ exc = "none" /\ status = "ok" /\ scoped = FALSE
  /\ made = {} /\ unscoped = {} /\ broken = FALSE

-----------------------------------------------------------------------------

(* transaction.atomic(using=d) of Django.                                  *)

Enter(D, l) == open' = [d \in Db |-> IF d \in D THEN open[d] \cup {l} ELSE open[d]]

Outermost(d, l) == \A k \in open[d] : k >= l
Within(d, l) == CHOOSE k \in open[d] : k < l /\ \A m \in open[d] : m < l => m <= k

(* The block of level l ends with ws kept of what was written in it.       *)
Leave(d, l, ws) ==
  /\ open' = [open EXCEPT ![d] = @ \ {l}]
  /\ IF Outermost(d, l)
     THEN /\ base' = [base EXCEPT ![d] = @ \cup ws]
          /\ work' = [work EXCEPT ![d][l] = {}]
     ELSE /\ UNCHANGED base
          /\ work' = [work EXCEPT ![d][l] = {}, ![d][Within(d, l)] = @ \cup ws]

Release(d, l) == Leave(d, l, work[d][l])
RollBack(d, l) == Leave(d, l, {})

(* COMMIT fails: a deferred constraint, a lost connection.                 *)
CommitFails(d, l) == Outermost(d, l) /\ RollBack(d, l) /\ broken' = TRUE

(* A callback raises after the COMMIT; those after it are not run.         *)
CallbackFails(d, l) ==
  /\ Outermost(d, l)
  /\ \E ws \in SUBSET work[d][l] :
       /\ ws # work[d][l] /\ \A w \in work[d][l] \ ws : w.what = "callback"
       /\ Leave(d, l, ws)
  /\ broken' = TRUE

(* Written in the innermost block, or outside any.                         *)
Put(d, w) ==
  /\ UNCHANGED open
  /\ IF open[d] = {}
     THEN base' = [base EXCEPT ![d] = @ \cup {w}] /\ UNCHANGED work
     ELSE work' = [work EXCEPT ![d][CHOOSE l \in open[d] : \A k \in open[d] : k <= l] = @ \cup {w}]
          /\ UNCHANGED base

-----------------------------------------------------------------------------

(* A request arrives; what others committed before it is left out.         *)
Begin ==
  /\ phase = "done"
  /\ multi' \in BOOLEAN
  /\ base' = Nothing /\ work' = work
  /\ IF multi' THEN Enter({default}, Multi) ELSE UNCHANGED open
  /\ phase' = "view" /\ sub' = 1 /\ view' \in {"plain", "permission"}
  /\ status' = "ok" /\ scoped' = FALSE
  /\ made' = {} /\ unscoped' = {} /\ broken' = FALSE
  /\ UNCHANGED <<started, left, exc>>

(* Mutant: no transaction around the dispatch that is checked afterwards.  *)
EnterViewBare ==
  /\ phase = "view"
  /\ phase' = "enter"
  /\ UNCHANGED <<data, started, multi, sub, view, left, exc, status, scoped, said>>

(* PermissionView.dispatch, up to the one of its superclass.               *)
EnterView ==
  /\ phase = "view"
  /\ IF view = "permission" THEN Enter({default}, View) ELSE UNCHANGED open
  /\ phase' = "enter"
  /\ UNCHANGED <<base, work, started, multi, sub, view, left, exc, status, scoped, said>>

(* Mutant: only the default database gets a transaction.                   *)
EnterDefault ==
  /\ phase = "enter" /\ ~started
  /\ started' = TRUE
  /\ Enter({default}, Inner)
  /\ phase' = "handler"
  /\ UNCHANGED <<base, work, multi, sub, view, left, exc, status, scoped, said>>

(* history.atomic, then an atomic on each database.                        *)
EnterDispatch ==
  /\ phase = "enter" /\ ~started
  /\ started' = TRUE
  /\ Enter(Db, Inner)
  /\ phase' = "handler"
  /\ UNCHANGED <<base, work, multi, sub, view, left, exc, status, scoped, said>>

(* "Called _Transaction.start() while there is an open transaction"        *)
StartRaises ==
  /\ phase = "enter" /\ started
  /\ exc' = "other"
  /\ phase' = IF view = "permission" THEN "check" ELSE "answer"
  /\ UNCHANGED <<data, started, multi, sub, view, left, status, scoped, said>>

WriteRow(d) ==
  /\ phase = "handler"
  /\ Put(d, W(sub, "row"))
  /\ made' = made \cup {<<d, sub>>}
  /\ UNCHANGED <<started, phase, multi, sub, view, left, exc, status, scoped, unscoped, broken>>

(* Mutant: what is to be done after the commit is done at once.            *)
CallAtOnce ==
  /\ phase = "handler" /\ <<default, sub>> \in made
  /\ base' = [base EXCEPT ![default] = @ \cup {W(sub, "callback")}]
  /\ UNCHANGED <<open, work, started, phase, multi, sub, view, left, exc, status, scoped, said>>

(* transaction.on_commit, for a row that was saved.                        *)
OnCommit ==
  /\ phase = "handler" /\ <<default, sub>> \in made
  /\ Put(default, W(sub, "callback"))
  /\ UNCHANGED <<started, phase, multi, sub, view, left, exc, status, scoped, said>>

CheckScope ==
  /\ phase = "handler"
  /\ scoped' = TRUE
  /\ UNCHANGED <<data, started, phase, multi, sub, view, left, exc, status, said>>

Return ==
  /\ phase = "handler"
  /\ status' \in {"ok", "redirect", "error"}
  /\ phase' = "history"
  /\ UNCHANGED <<data, started, multi, sub, view, left, exc, scoped, said>>

(* history.atomic.__exit__ with an exception: _abort().                    *)
Raise ==
  /\ phase = "handler"
  /\ exc' \in {"binder", "other"}
  /\ started' = FALSE
  /\ phase' = "exit" /\ left' = Len(Databases)
  /\ UNCHANGED <<data, multi, sub, view, status, scoped, said>>

Changed == \E d \in Db : <<d, sub>> \in made

(* Mutant: history.atomic is around the transactions, not in them.         *)
HistoryOutside ==
  /\ phase = "history"
  /\ base' = IF Changed THEN [base EXCEPT ![default] = @ \cup {W(sub, "log")}] ELSE base
  /\ started' = FALSE
  /\ phase' = "exit" /\ left' = Len(Databases)
  /\ UNCHANGED <<open, work, multi, sub, view, exc, status, scoped, said>>

HistoryCommit ==
  /\ phase = "history"
  /\ IF Changed THEN Put(default, W(sub, "log")) ELSE UNCHANGED data
  /\ started' = FALSE
  /\ phase' = "exit" /\ left' = Len(Databases)
  /\ UNCHANGED <<multi, sub, view, exc, status, scoped, said>>

(* _commit() raises and leaves the thread's transaction open.              *)
HistoryFails ==
  /\ phase = "history" /\ Changed
  /\ exc' = "other"
  /\ phase' = "exit" /\ left' = Len(Databases)
  /\ UNCHANGED <<data, started, multi, sub, view, status, scoped, said>>

(* The ExitStack leaves the blocks of the databases, the last one first.   *)
ExitDatabase ==
  /\ phase = "exit" /\ left > 0
  /\ left' = left - 1
  /\ LET d == Databases[left] IN
       \/ exc = "none" /\ Release(d, Inner) /\ UNCHANGED <<exc, broken>>
       \/ exc = "none" /\ (CommitFails(d, Inner) \/ CallbackFails(d, Inner)) /\ exc' = "other"
       \/ exc # "none" /\ RollBack(d, Inner) /\ UNCHANGED <<exc, broken>>
  /\ UNCHANGED <<started, phase, multi, sub, view, status, scoped, made, unscoped>>

(* Mutant: any exception ends here, with the response there is.            *)
DispatchedAll ==
  /\ phase = "exit" /\ left = 0
  /\ exc' = "none"
  /\ status' = IF exc = "binder" THEN "error" ELSE status
  /\ phase' = IF view = "permission" THEN "check" ELSE "answer"
  /\ UNCHANGED <<data, started, multi, sub, view, left, scoped, said>>

(* except BinderException                                                  *)
Dispatched ==
  /\ phase = "exit" /\ left = 0
  /\ exc' = IF exc = "binder" THEN "none" ELSE exc
  /\ status' = IF exc = "binder" THEN "error" ELSE status
  /\ phase' = IF view = "permission" THEN "check" ELSE "answer"
  /\ UNCHANGED <<data, started, multi, sub, view, left, scoped, said>>

(* PermissionView.dispatch: a response that is no success is returned as   *)
(* it is, a success without a check and a scope is a PermissionError.      *)
Unscoped == status = "ok" /\ ~scoped

CheckView ==
  /\ phase = "check"
  /\ phase' = "answer"
  /\ \/ exc = "none" /\ ~Unscoped /\ Release(default, View) /\ UNCHANGED <<exc, unscoped, broken>>
     \/ /\ exc = "none" /\ ~Unscoped
        /\ CommitFails(default, View) \/ CallbackFails(default, View)
        /\ exc' = "other" /\ UNCHANGED unscoped
     \/ /\ exc = "none" /\ Unscoped
        /\ RollBack(default, View)
        /\ exc' = "other" /\ unscoped' = unscoped \cup {sub} /\ UNCHANGED broken
     \/ exc # "none" /\ RollBack(default, View) /\ UNCHANGED <<exc, unscoped, broken>>
  /\ UNCHANGED <<started, multi, sub, view, left, status, scoped, made>>

-----------------------------------------------------------------------------

(* Django answers an exception with a 500.                                 *)
Failed == exc # "none" \/ status = "error"

End(s) == /\ phase' = "done" /\ exc' = "none" /\ status' = s
          /\ UNCHANGED <<started, multi, sub, view, left, scoped, made, unscoped>>

Answer ==
  /\ phase = "answer" /\ ~multi
  /\ End(IF Failed THEN "error" ELSE status)
  /\ UNCHANGED <<data, broken>>

(* Mutant: ErrorStatus is caught within the transaction.                   *)
FailMultiInside ==
  /\ phase = "answer" /\ multi /\ Failed
  /\ Release(default, Multi)
  /\ End("error") /\ UNCHANGED broken

(* raise ErrorStatus                                                       *)
FailMulti ==
  /\ phase = "answer" /\ multi /\ Failed
  /\ RollBack(default, Multi)
  /\ End("error") /\ UNCHANGED broken

NextView == /\ phase' = "view" /\ sub' = sub + 1 /\ view' \in {"plain", "permission"}
            /\ status' = "ok" /\ exc' = "none" /\ scoped' = FALSE

NextSub ==
  /\ phase = "answer" /\ multi /\ ~Failed /\ sub < MaxSubs
  /\ NextView
  /\ UNCHANGED <<data, started, multi, left, said>>

(* The list is done.                                                       *)
EndMulti ==
  /\ phase = "answer" /\ multi /\ ~Failed
  /\ \/ Release(default, Multi) /\ End("ok") /\ UNCHANGED broken
     \/ (CommitFails(default, Multi) \/ CallbackFails(default, Multi)) /\ End("error")

(* parse_request finds the next request wrong, or the response cannot be   *)
(* serialized.                                                             *)
RefuseSub ==
  /\ phase = "view" /\ multi
  /\ RollBack(default, Multi)
  /\ End("error") /\ UNCHANGED broken

Handler == (\E d \in Db : WriteRow(d)) \/ OnCommit \/ CheckScope \/ Return \/ Raise

Next == \/ Begin \/ EnterView \/ EnterDispatch \/ StartRaises \/ Handler
        \/ HistoryCommit \/ HistoryFails \/ ExitDatabase \/ Dispatched \/ CheckView
        \/ Answer \/ FailMulti \/ NextSub \/ EndMulti \/ RefuseSub

Spec == Init /\ [][Next]_vars

-----------------------------------------------------------------------------

Durable(d, i, what) == W(i, what) \in base[d]

(* A multi-request that fails leaves nothing in the default database,      *)
(* whichever of its requests fails and whatever ended well before it.      *)
FailedMultiUndone == phase = "done" /\ multi /\ status = "error" /\ ~broken => base[default] = {}

(* A success is true: all rows that were written are durable, in every     *)
(* database.                                                               *)
SuccessKept == phase = "done" /\ status = "ok" => \A m \in made : Durable(m[1], m[2], "row")

(* A request on a plain view leaves all its rows or none.                  *)
AllOrNothing ==
  phase = "done" /\ ~multi /\ view = "plain" /\ ~broken =>
    \A m, n \in made : Durable(m[1], m[2], "row") => Durable(n[1], n[2], "row")

(* "No change or add scoping done!": what an unscoped request wrote is     *)
(* undone.                                                                 *)
UnscopedUndone == \A i \in unscoped : phase = "done" => ~Durable(default, i, "row")

(* The rows of the default database and the Changesets that tell of them   *)
(* become durable together.                                                *)
LoggedTogether ==
  phase = "done" /\ ~broken => \A i \in Sub :
    /\ Durable(default, i, "row") => Durable(default, i, "log")
    /\ Durable(default, i, "log") => \E d \in Db : Durable(d, i, "row")

(* A callback runs only when what it was registered for is durable.        *)
CalledAfterCommit == \A i \in Sub : Durable(default, i, "callback") => Durable(default, i, "row")
=============================================================================
