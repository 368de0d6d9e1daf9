# A TLA+ model of django-binder

django-binder (`src/binder`) gives a Django project a REST API: one `ModelView` per model, with history,
permissions, scopes, nested relations and a "multi-put" that saves a whole graph of objects in one request.
This directory holds TLA+ modules for the parts of it where order, interleaving and failure matter, the TLC
configurations that check them and proofs of their main properties.

## 1. The system

| Component | Source | State it keeps | Operations | Hard behaviour | What makes it correct |
|---|---|---|---|---|---|
| History | `history.py` | per thread: `started`, `changes`, deferred m2m diffs; tables Changeset, Change | `start`, `change`, `_commit`, `_abort`, `view_changeset` | several saves merged in one change; failure in the middle of `_commit`; a thread serves the next request with the same object | the log explains the rows; a thread is clean between requests |
| Model signals | `models.py` 630-816 | `_history` of an instance: what it was loaded with | `post_init`, `post_save`, `post_delete`, `m2m_changed`, `pre_save` and `pre_delete` of children | the instance is a snapshot, the row may move on | every change of a field is reported with what the row really held |
| Row requests | `views.py` 2073-2253, 2732-2973 | rows, row locks | `post`, `put`, `delete`, `undelete`, file field | two requests on one row; read, lock, read again | no lost update; deleted rows stay deleted |
| Multi-put: order | `views.py` 2490-2513 | `dependencies`, `ordered_objects` | the layered sort | a dict is changed while it is walked | dependencies first, once each, cycles refused, independent of the order of the payload |
| Multi-put: save and delete | `views.py` 2304-2669 | `objects`, `new_id_map`, `locked_objects`, history changes | parse, collect, turn references round, order, lock, save, delete | one row saved through several instances; made-up ids; errors collected | references, kids, history and idmap are what the payload asks for |
| Dispatch | `views.py` 493-570 | an ExitStack of transactions | `dispatch` | several databases, nested transactions, failures at each level | all or nothing; rows and log together |
| Permissions | `permissions/views.py` | scopes of a request, flag that one was applied | `_require_model_perm`, `get_queryset`, `scope_*_list` | scope checked after the change | no row outside the scope seen or changed |
| Multi-request | `plugins/views/multi_request.py` | outer transaction, earlier answers by key | `multi_request_view` | one of many fails | rollback of all |
| Files | `views.py` 2073-2253, `models.py` (BinderFileField) | files, their columns | store, delete on commit | rollback leaves a file | a referenced file exists |
| Queries | `views.py` 574-1780 | none | with, where, filter, order, pages | pages over a changing table; ids of relations merged from several paths | a page series lists each row once; every object that is referred to is included once, with its annotations |
| Stats | `stats.py`, `views.py` 3004-3111 | none | aggregates, groups with a rest | the rest below a minimum | the groups add up; none is hidden alone |
| Relations of `_store` | `views.py` 1780-2072, `models.py` 500-816 | old sets of ids until the commit; differences in Change records | `_store_m2m_field`, reverse foreign keys, `format_field_for_history` | old and new set are read at different moments; the view goes back from today | a change of a relation is recorded as it is, and shown as whole sets |
| Token auth | `plugins/token_auth` | tokens | refresh, expire, delete | refresh races with deletion | an expired or deleted token stays so |
| User view | `plugins/views/userview.py` | users, session, masquerade stack, mailed codes | login, logout, masquerade, endmasquerade, reset, activate, change password, delete | nesting; an instance read before another request's commit is saved | end of masquerade restores the user; a spent code stays refused |
| Loaded values | `plugins/loaded_values.py` | values at load | `field_changed`, `save` | when they are renewed | changed means changed since load |
| Combined, CSV | `plugins/views` | none | ids of combined rows, export | numbers of ids | ids invertible |
| Websocket | `websocket.py` | none | rooms, trigger | sent before the commit | listeners see what they are told of |
| Router, filters, fields, JSON | `router.py`, `models.py`, `json.py` | none | parse, format | - | - |
| Management, migrations | `management`, `migrations` | none | run by hand | - | - |

How they meet: the router calls `dispatch`, which opens `transaction.atomic` on each database and inside it
`history.atomic`, then the handler. The handler loads rows through `get_queryset` (permissions narrow it), assigns
and saves; `save()` raises signals whose handlers in `models.py` call `history.change`; the end of `history.atomic`
writes Changeset and Change records inside the same database transaction; the database commits last. Workers are
threads or processes, so two requests meet in the database alone, in the order its locks and commits make. The
history transaction is a `threading.local`, so a request meets the one before it on the same thread through it.

## 2. The modules

| Module | Role | State and actions in the code |
|---|---|---|
| `HistoryLog` | abstract: what the tables promise | `rows`, `log`; `Record` is one committed transaction |
| `RowRequests` | worker threads on rows of two models, one with a field `deleted` (`SoftRow`) and one without | `rows`, `log`, `lock` are PostgreSQL; `started`, `changes` the thread's `_Transaction`; `obj`, `loaded` the instance and its `_history`. `Begin`/`BeginPost`, `Read`, `Lock`, `Save`, `HistoryCommit`, `DbCommit` follow a request through `dispatch`; `NotFound`, `Refuse`, `Abort`, `HistoryCommitFails`, `DbCommitFails`, `Crash` are its ends in failure |
| `RelationHistory` | the history of a many-to-many field and of the reverse side of a foreign key | `contacts` and `parent` are committed, `changes` the deferred old sets, `log` the differences. `SetContacts` (`_store_m2m_field`, `m2m_changed`), `SaveChild` and `DeleteChild` (`pre_save`, `pre_delete`), `HistoryCommit`, `DbCommit`; `ViewHistory`, `FormatChange` (one Change a step, newest first; the first reads the contacts of today) and `Respond` are the request for a zoo's history, with `format_field_for_history` |
| `LayeredOrder` | abstract: the order of a multi-put, one layer a step | `dependencies`, `ordered`; the sort key of line 2509 |
| `MultiPutOrder` | the loop over the dict, one turn a step | `copy` is the deep copy, `batch` is `this_batch`; `Visit` is one turn of the inner loop |
| `MultiPut` | one multi-put over a parent and a child model, from payload to commit | composes `LayeredOrder` for its order; one action per object saved or deleted and per way it can fail; the `schema` of a behaviour says whether owners are compulsory and whether children are deleted softly |
| `FileStorage` | the files behind the file fields of rows | `rows` and `lock` are PostgreSQL, `disk` the storage, `hooks` the callbacks of `transaction.on_commit`, `wrote` what a failing request leaves behind. `Load`, `Store` (`_store_field`), `WriteFile` (`pre_save`), `Update`, `Commit`, `DeleteOldFile`, `Respond`; `Refuse` and `Fail` |
| `Dispatch` | the transactions of requests, one after the other on one thread | `open` are the blocks of `transaction.atomic` each database is in (multi-request, `PermissionView`, `ModelView`), `work` what was written in each, `base` what is durable; `started` is the thread's `_Transaction`, `exc` the exception on its way up. The actions follow a request from the outermost block in (`Begin`, `EnterView`, `EnterDispatch`) and out again (`HistoryCommit`, `ExitDatabase`, `Dispatched`, `CheckView`, `Answer` or `NextSub`, `EndMulti`) |
| `SmartQ` | the Q objects of view scopes as trees, and `smart_q_or` | `Normal` pushes negations down and flattens, `Stricter` compares conjunctions, `SmartOr` joins; `Holds` is what Django makes of a tree |
| `ScopedRequests` | requests of several users to a `PermissionView`, at the same time | takes as constants what a Q object matches (`Satisfies`) and `smart_q_or` (`Joined`), which `MCScopedRequests` takes from `SmartQ`; `filter` is what `scope_view` puts on every query. `Find` reads through it without a lock, `Lock` reads again, `Store` asks `scope_change_list` and its like, `Commit`, `Respond`; `NotFound`, `OutOfScope`, `Fail`, `DeadlockDetected` (PostgreSQL aborts one of two that wait for each other) |
| `Sessions` | the user view, requests of several sessions | `users` are the rows, `sessions` Django's sessions with binder's `hijack_history`, `codes` the mailed ones. `Read` and `Save` are the two ends of login, reset, activation and change of password; `Masquerade`, `EndMasquerade`, `Logout`, `SoftDelete`, `ResetRequest`, `SendActivationEmail` |
| `Pages` | pure: filters, orders, `after`, limit and offset, stats | `Matches` is `_parse_alternative_filters`, `After` the CASE of `_after_expr`, `StatResults` the groups and the rest |
| `AnnotationSets` | the loop of `_get_withs` that makes disjoint groups of ids (`views.py` 930-960) | `todo` is `to_add`, `pool` is `annotation_ids`; `Pop`, `Visit` (one turn of the inner loop), `Place` |
| `Queries` | GET requests of a client while rows change | extends `Pages` and `AnnotationSets`, whose loop is one of its phases. `Query`, `FindIds` (the ids of one path), `JoinPath` (`_get_withs` joins them, path by path), `MergeStep`, `Fetch` (the objects of one group), `Answer`; `Write` and `Vanish` are other requests |
| `RowRequestsProofs`, `LayeredOrderProofs`, `RelationsProofs` (of `MultiPutOrder` and `RelationHistory`), `MultiPutProofs`, `FileStorageProofs`, `DispatchProofs`, `UsersProofs` (of `Sessions` and `ScopedRequests`), `QueriesProofs` | theorems | |
| `MCRowRequests`, `MCRelationHistory`, `MCMultiPutOrder`, `MCMultiPut`, `MCFileStorage`, `MCDispatch`, `MCScopedRequests`, `MCSessions`, `MCQueries` | small instances for TLC | |

Refinements: `RowRequests` implements `HistoryLog` (its `rows` and `log` are the committed ones, a step of a thread
is a stutter until `DbCommit`); `MultiPutOrder` implements `LayeredOrder` (while the inner loop runs, the abstract
`dependencies` are the copy). `MultiPut` then uses the abstract order, since the loop is known to implement it.

Where a module's constant is named `Families`, a behaviour begins by choosing what its requests may ask and which rows there are:
each family is made for one question, and their product would be too large.

What is abstracted in `RowRequests`: a name and a file are members of a small set; a permission error, a validation
error and an error in serialising the answer are one `Abort`; the file itself is not there, only its column. What is not:
that PUT reads without a lock and then with one, that `save()` writes every field, and writes an INSERT if the row
is gone, that a Changeset gets its id before others that commit earlier.

What is abstracted in `RelationHistory`: zoos and contacts have no other fields, and contacts are not deleted. `Seen` is what a
transaction reads: what is committed, with its own writes. A Change record also holds the whole sets before and after its commit, for
the properties alone; `Apart` is whether requests on children keep from overlapping each other. A contact's name is its id; of what a view shows, `Shown` keeps how often each id is named, not the order.

What is abstracted in `MultiPut`: fields other than the foreign keys do not change. Validation fails
nondeterministically, besides the two reasons the model knows of (a compulsory owner, a reference to no row).
`NextPk` is the sequence of a primary key: a key that nobody has (a sequence gives each key once, and which it gives matters to no property). An answer of the order in which the payload lists the parents is
any permutation (`Places`). `with_deletions` names an id once; `deletedIds` is the place of the loop over it. A new object that refers to itself is there: the check of
dependencies leaves such a reference out (`views.py:2481`), and looking it up in `new_id_map` (line 2563) then fails.

What is abstracted in `FileStorage`: the contents of a file (a path in a PUT stands for a new file with a copy), the
checks of its size and type (a `Fail`), history (the column is a field like others in `RowRequests`). A storage gives a
new file any name that is free then. Deleting a row keeps its files; the
model has no such request, so `NothingLeaks` does not speak of it. With `Overlap` false an upload runs only while no
other request uses its row.

What is abstracted in `Dispatch`: a request's rows in one database are one `row`, its Changeset with its Changes one `log`,
its callbacks one `callback` that sits with the rows in `work` and is in `base` once it has run. What
handlers do is free: any rows in any database, a scope or none, an answer of any status, an exception that binder answers
or another. The module assumes that `default` is one of `TRANSACTION_DATABASES`. When a COMMIT or a callback after it fails, what
other databases have committed stays, and nothing in the code could undo it: the properties that speak of all or nothing set
those cases (`broken`) aside.

What is abstracted in `ScopedRequests`: a row is the set of facts that scopes ask about, since the methods `_scope_change_own` and so
on belong to the project that uses binder. A scope that returns a queryset is not there, nor one that looks at the values to be
saved. Children that are written through a parent's reverse relation (`views.py:1920-1927`) are saved without a scope of their own; they are
not there, and `ChangedInScope` does not speak of them. Deadlocks are those of two requests; the instance has no more threads. `SmartQ` keeps the trees as Django builds them, since `smart_q_or` works on their shape.

What is abstracted in `Sessions`: a password and a login are known by the time they were set. A code is valid if it was made from the
password hash and the last login that the user has now (Django's token generator, external). No code expires. `spent` and `opened`
are there for the properties. A browser sends one request at a time, so two requests that interleave are in different sessions.

What is abstracted in `Pages` and `Queries`: what a filter asks of a row is a fact that the row has or lacks; a field to order
by holds an integer or null. The view's model has its own rows (`table`), all others are ids; every relation is a set of
links, a forward one too. `Orderings` leaves the order of equal rows to the database. The recursion of `_get_with_ids` is a
queue that names a path after its parents, which is all of its order that the result depends on. Each query sees what is committed when it runs, so a row
may be gone between the query for its id and the query for itself. There are no permissions: `Queries` is a `ModelView` without view scopes. The ids of a with are not
scoped in the code either (comment at `views.py:1091`), only the objects are, so under a `PermissionView` an id may be listed whose object is left out; `ListedIncluded` does not speak of that.

## 3. The runs

| Run | Instance | Shows |
|---|---|---|
| `rows` | 2 threads, 3 keys (a row with `deleted`, a row without, a key of the latter model to be posted), 2 values, up to 4 changesets; post, put, delete, undelete | the log explains the rows (`HistoryImplemented`, `NewestIsCurrent`), `DeletedRowsFrozen`, `GoneForGood`, `NoLostUpdate`, through every failure and crash |
| `start` | the same, up to 3 changesets | **violated**: a failing `_commit` leaves an open transaction (finding 2) |
| `sets` | 2 threads, 2 zoos; 2 contacts, every PUT of one zoo's contacts and multi-puts of both; 2 children that move and are deleted; 2 changesets | changes of relations are recorded as they are (`RelationChangesRecorded`), the view puts them together again (`ViewRight`) |
| `emptied` | one zoo that loses and gets contacts | **violated**: the history of a zoo without contacts (finding 3) |
| `order` | all graphs on subsets of 4 objects of 2 models, real and made-up ids | the loop implements the layers and ends |
| `graphs` | 2 parents, 1 child: every list of kids and every owner with a made-up id of each model, with a compulsory owner, soft deletion and at most one deletion, or with neither; and 1 child with 2 made-up ids of each model, every owner and mate | rows, history and idmap are what was asked for (the idmap has exactly the new objects that are not deleted again), and nothing is stored for an object that was not valid; references between new objects are stored in all shapes of graph, cycles and unknown ids included, and `new_id_map` fails for an object that refers to itself only (`KeyErrorOnlyForItself`) |
| `files` | 2 threads, 1 row with 2 file fields, 5 names; PUT and upload, uploads alone on their row | every field's file exists, no two share one, only failures leave files behind |
| `overlap` | the same, uploads overlap | **violated**: a row refers to a file that is gone (finding 1) |
| `dispatch` | 2 databases, up to 3 requests in a multi-request, requests one after the other | a failed multi-request leaves nothing in the default database; success and failure are true (`SuccessKept`, `AllOrNothing`); an unscoped change is undone; rows and log together; callbacks after the commit |
| `scopes` | 2 threads, 3 rows, 4 users: one with scopes of his own, a superuser, a reader, one without permissions. Three families: changes of two rows; readers beside a writer; two view scopes of every small shape on rows with each combination of two facts | nothing outside a scope is changed (`ChangedInScope`) or shown, and all inside is shown (`ShownInScope`); every request ends, multi-puts that wait for each other included (`RequestsEnd`) |
| `users` | 2 sessions, 2 users who both may masquerade, 1 code, 3 moments at which something is set, masquerades 2 deep | `SpentCodesRefused`, `BackToOpener`, `OnlyOwnSessionKept`, `DeletedStaysOut` |
| `queries` | up to 4 rows, 2 ids of other models, 3 annotations, 1 change by others during a list. Families: lists in every order with nulls, by offset and by `after`; lists whose rows move; filters; stats; two or three withs with where and annotations | `PagesComplete`, `StatKeepsTotal`, `ListedIncluded`, `AnnotationsRight`, `RelationsComplete`, `MergedExactly`; every list ends (`ListsEnd`) |

Why the bounds are enough. `MaxId` bounds the transactions with changes in a behaviour (`MaxId` of `RelationHistory` the next id, so two
changesets). The hazards of a row take two requests that overlap and one that comes after to see the damage: three changesets; `rows` has
one more. Two threads are enough for a wait, two values to tell an overwritten value from a kept one. Of a relation, a view after
two changes goes back through one to show the other. In `order`, four objects give
layers of two objects, chains of four and cycles of two to four with objects beside them. In `graphs`
a child moves between two parents, which needs no third; the new child and the new parent come from the made-up
id. In `files` two requests hold at most four new files besides the row's own two, and with five names a name is
both short and given again. In `dispatch` three requests give one before and one after
the one that matters, and two databases one that the outer transactions cover and one they do not. In `scopes` two rows that two multi-puts
lock in opposite orders make a deadlock; trees of two levels, with two children a node, have every rule of `smart_q_or`
(negation pushed down, flattening, a stricter alternative, an only child). In `users` three moments are enough for a code to be mailed, used
and overtaken by a save of an older instance; a third user could masquerade no deeper than `MaxDepth`. In `queries` a page of one or two of
three rows has rows before, at and after the anchor, null or not; three annotations make groups that are equal, nested, overlapping
and apart. Symmetry is declared where a cfg has it, over threads and names or sessions and users, in runs without liveness.

`CHECK_DEADLOCK FALSE` stands everywhere but in `FileStorage` and `Dispatch`: a model stops when a bound is reached or what was asked is
answered; that requests do not stop in the middle is `RequestsEnd`, `ListsEnd` and `OrderingEnds`.

### Fairness

`order` assumes that the function runs on (`WF_vars(Next)`). `queries` assumes that a handler runs on and that the client goes on to the
end of its list (`WF_vars(Serve)`); others may change rows or not. `scopes` assumes that a worker runs its handler to the end
(`WF_vars(Step(t))`), and that PostgreSQL, whose waiting queue for a row lock is first come first served, gives a free
row at last to a thread that waits for it (`SF_vars` of `Lock` and `Store`); that it detects deadlocks is part of `Step`. No fairness
on new requests and none on failures. The other runs check safety only.

### Findings

1. `overlap`, `views.py:2897`: `dispatch_file_field` gets the instance without `select_for_update` and saves all its fields. If another
   request has replaced a file of the row meanwhile, the upload writes the name of the file that was deleted back. This is a way to the
   state that `models.py:950` wonders about ("there seems to be a record in the db but the file is missing from disk") and for which
   `views.py:2929` has its log message. `FilesAreThere` is proved for uploads that overlap nothing.
2. `start`, `history.py:190`: an exception inside `_commit` skips `stop()`; the next request on that thread fails the assertion of
   `history.py:66`, "Called _Transaction.start() while there is an open transaction".
3. `emptied`, `models.py:568`: the view of a history reads the related ids of today by `values(field_name)`, a join that has one row
   of NULL for an object without any. None is then taken for an id: the newest change shows "None", and sorting None among ids raises the
   TypeError after which older changes are shown as they are stored. The docstring (`models.py:535`) speaks of "the **existing** contacts".

Other places where the code does not do what one would expect, met while modelling. No run refutes them; the models either
follow the code or leave the case out as said.

* An upload over a PUT of the same row undoes the PUT without a Change that says so (`views.py:2897`), though docs/models.md:133
  promises a change for each field with a new value. It is the cause of finding 1; the theorems on `RowRequests` assume `Kinds \subseteq LockedKinds` for it, and
  `ChangedInScope` leaves uploads out.
* A multi-put saves a child from the instance it loaded before the old parent was saved and dropped it (`views.py:2538`): the row is live
  again, the history says it was deleted. `HistoryRight` and `KidsStored` leave payloads out that say two things of one child.
* "Rollback the transaction if the request has a failing code" (`multi_request.py:79`) is true of the default database only (line 52). An
  earlier request of the list has then committed on the other `TRANSACTION_DATABASES`. The transaction of
  `PermissionView.dispatch` (`permissions/views.py:262`) has the same limit. `FailedMultiUndone` and `UnscopedUndone` speak of `default`.
* An object that one path leads to shows `[]` for a relation that only another path goes on with: the dict of ids is a `defaultdict`
  (`views.py:1099`), so the branch for a KeyError (1496-1514), which would ask the database, is never taken. `RelationsComplete` speaks of the path's own relations.
* `view_changesets` formats the Changes of other objects in the same changeset with the class and the tracker of this one, so a multi-put
  that changes the contacts of two zoos spoils the view of both. `ViewRight` leaves such views out (`Mine = view.shown`).
* "This guarantees stable result sets when paging" (`views.py:1478`) is said of adding the model's own order to that of a request. It is true if
  that order has a field that is unique, as the default by `pk` is; `ordering = ('zoo',)` of `tests/testapp/models/donor.py:19` does not.
  Pages by `after` then skip the other rows with the values of the anchor: TLC finds `PagesComplete` false with such a `MetaOrdering`, and
  `QueriesAssumption` asks for `pk` among its fields.
* The old parent of a child that moves is read at its save, its children then, and the new children at the end (`models.py:771`): two moves that overlap
  record a removal twice. `RelationChangesRecorded` is checked with `Apart`. The reverse side of a many-to-many field is not recorded at all.
* "The order of `:not` and `:any`/`:all` is irrelevant" (docs/api.md:86): `_parse_alternative_filters` takes `:any` and `:all` in the first
  place only (`views.py:1212`), so `:not:any` goes on to the parser of single filters with an `any` that it does not know.
* A token that is refreshed by `save()` after it was deleted is inserted again (`token_auth/middleware.py:103`), and `trigger` publishes at once (`websocket.py:33`), so one
  that is called from a `post_save` handler, as in `tests/testapp/models/costume.py:31`, goes out before its transaction commits. Neither part is modelled.

## 4. The proofs

All are for every value of the constants that satisfies the modules' assumptions.

* `RowRequestsProofs`: `LogExplainsRows`, of `HistoryLog`: `LogInv` is inductive, with the types, the chain of changes, the newest
  change as the row, and null for what is not in the log; a step's changeset is newer than all of its row. Then `TypeCorrect` (the type invariant), `HistoryIsImplemented` (refinement of `HistoryLog`) and from both
  `HistoryExplainsRows`; then `NothingIsLost` (`NoLostUpdate`), `DeletedRowsStay` (`DeletedRowsFrozen`) and `KeysStayGone` (`GoneForGood`). All but the first two
  assume `Kinds \subseteq LockedKinds`, as uploads break them.
  The invariants of the runs are not inductive. `IInv` adds what a thread in the middle of a request knows
  (`ThreadInv`): from the lock on it holds the row, `loaded` is the committed row, `obj` differs from it only where
  `changes` or `staged` say so (`StagedOK`), its changeset is newer than those of its row; two posts never have one key (`PostsDiffer`).
  The lemma `Frame` says that a thread's part is kept by any step that leaves its row and its
  changesets alone; `OneWriter` that no two threads hold one row; one lemma per action follows.
  The last three theorems are about single steps and need more of a thread: `AskedInv` adds that `obj` is the committed row edited as the request asks
  (`Asked`), that what is saved of a deleted row is neither a put nor a delete, and that nothing is logged of a key not handed out yet.
  `CommitFacts` then says what `DbCommit` makes of the row, and `OnlyCommits` that no other step changes rows.
* `LayeredOrderProofs`: `OrderIsSound`. `OrderInv` says which objects are in `ordered` (those out of `dependencies`), and
  what is left of each one's dependencies, and that the objects without any come before all others (`RootsFirst`).
* `RelationsProofs`, on `MultiPutOrder`: `LayersAreImplemented`, `LoopIsSound`. `PassIInv`: the live dependencies are the copy without the batch,
  and the batch is the visited part of the layer.
* `MultiPutProofs`: `TypeCorrect`, `HistoryIsRight`, `IdMapIsRight`, `ReferencesAreStored`, `KidsAreStored`, `DeletedStays` and
  `OnlyItselfIsMissing`: all that `graphs` checks, for any payload, any number of rows and of made-up ids. The properties speak of the
  end of a request. `IInv` says what holds at every turn of the loop, by `Done`, the objects it has been through: their ids are in
  `new_id_map` under keys of their own (`IdsInv`) until `with_deletions` takes them out (`DoneIdsInv`), their rows hold what they ask for (`StoredInv`), the kids of their parents are right
  (`KidsInv`), the rows that are still to be saved are as they were loaded, or have the owner that their save gives them (`HistoryInv`,
  `Unsaved`), and nothing has been deleted (`HereInv`). What makes this inductive is the order. A parent depends on nothing, so it is in the first
  layer; a child that was saved before a parent was saved is then in that layer too and refers to nothing in the payload, so no parent
  of the payload claims it (`ParentSparesStored`). The order comes from `OrderIsSound` by `OrderStep`, its `RootsFirst` was added for this. `KidsAreStored` assumes
  that owners may be null or children are deleted softly: otherwise the first of two parents deletes a child that
  moves to the second (`views.py:1917`), and this is not an accident of the proof but of the code.
* `FileStorageProofs`: `TypeCorrect`, `FilesAreThere` (`FilesExist`), `NobodyShares` (`Unshared`), `NothingIsLeft` (`NothingLeaks`). All but the
  first assume `~Overlap`, since with uploads that meet other
  requests they are false (finding 1). `IInv` adds what a thread holds (`ThreadInv`: its lock, that `hooks` are the files of the row it
  replaces and `wrote` those of its instance), that uploads are alone (`Separate`) and which sets of files do not meet (`Apart`):
  without the latter, a callback could delete a file that was written under a name just freed. A file on the disk is of a row, of a
  thread that is to write its name, on its way to be deleted, or left by a failure; each action moves it from one to another of these.
* `DispatchProofs`: `TypeCorrect`, `MultiUndone` (`FailedMultiUndone`), `UnscopedGone` (`UnscopedUndone`), `CalledLate`
  (`CalledAfterCommit`), `SuccessIsKept` (`SuccessKept`), `PlainAllOrNothing` (`AllOrNothing`) and `LoggedWithRows` (`LoggedTogether`), without further
  assumptions. `IInv` says which blocks are open in each phase and that the others are empty (`OpenInv`), that nothing is durable on the
  default database while a multi-request runs (`MultiInv`), that every set of writes that has a callback has its rows
  (`CallInv`), and where rows cannot be (`RowInv`): those of later requests and of unscoped ones nowhere, those of a permission view
  neither durable nor in the block of the multi-request before the check. For success it says the opposite, where the rows of
  a request must be: in the block its handler wrote to (`OwnInv`, `MadeInv`), then in the block outside or durable (`KeptInv`, `PlainInv`), by phase
  (`PhaseInv`); a log goes wherever its rows go (`LogInv`), and what was told the client is what has become of it (`ToldInv`, `EndInv`). `LeaveFacts` and `PutFacts` say once what the
  end of a block and a write do; the steps of `Next` then fall into four kinds.
* `UsersProofs`, on `Sessions`: `SpentCodesStayRefused`, `PasswordEndsSessions` (`OnlyOwnSessionKept`), `DeletedUsersStayOut` (`DeletedStaysOut`) and `MasqueradesUnwind`,
  for any number of users and sessions, whose requests interleave as they
  like. `AllEarlier` says that whatever is stored, read or spent was set before now; so the row that any save leaves, also that of an
  instance read long ago, has a password or a last login of this very moment (`StoredIsNew`), and no spent code fits it. In the same way
  a session's hash was signed before now (`SignedEarlier`), so a password of this moment ends every session but those signed with it. `BackToOpener` is
  inductive with the types: an empty stack means that the user is who logged in, and its bottom never changes while it is not empty.
* `UsersProofs`, on `ScopedRequests`: `ChangesJudged` (`ChangedInScope`) and `AnswersInScope` (`ShownInScope`), for any permissions, users, rows and threads. `Held`, of
  each thread, is what makes the scope's check worth something although it comes after the change: a row that a request has locked and read is as it was read, and one
  that it wrote is locked and, uploads aside, was judged against that row. `ChangedInScope` compares with the committed row at the moment of the commit, so it needs that nobody else commits
  a locked row. `AnswersInScope` has the hypothesis `JoinsScopes`: what `smart_q_or` returns matches what one of its arguments matches. That is what
  `SmartQ` computes by recursion on trees, which TLAPS cannot follow; the third family of `scopes` checks it on all small trees.
* `RelationsProofs`, on `RelationHistory`: `RelationsAreRecorded` (`RelationChangesRecorded`), for any number of threads, zoos, contacts and
  children, if `Apart`: without it a request on a child reads the old children of a zoo and another one commits before it does. `HistInv` says that
  what is in a request's `changes` is the committed value of a relation, that the request sees every other relation as it is committed
  (`ChangesRight`), and after history's commit that its records are the difference of the two (`RecordsRight`). This lasts because a row that was
  written is locked and children are written by one request only (`HoldsOK`, `OneOnChildren`): by `CommitOther` a commit changes no relation that
  another request has changed, and one that it has not changed that request sees like everybody.
  A changeset's id is in no other record (`IdsFresh`), so there is exactly one record of a change.
  `ViewIsRight` (`ViewRight`) goes on from there: the records of a zoo's contacts are a chain in which each begins with the set that the one before it
  ended with, and the last ends with the contacts of now (`ChainOK`); what a request is about to add comes after all of it, since it has held the
  zoo's lock since before its changeset got an id (`ThreadOK`). A view has then shown the newer part of the chain (`BackOK`), and its tracker is the set after the
  newest record it has not shown (`TrackerOK`), as long as no commit has come between its two queries.
* `QueriesProofs`, on `AnnotationSets`: `MergeIsExact`, for any list of groups and whatever order the dict is walked in. No step makes an id lose an annotation or gain one that no
  group gives it, wherever it is carried meanwhile (`Conserved`), and the groups of `pool` stay disjoint (`Disjoint`), since what is
  placed has been compared with each of them (`Passed`). `GroupsAreExact` says the same of this loop as a phase of `Queries`.
* `QueriesProofs`, on `Queries`: `PagesAreComplete`, `StatsAddUp`, `ListedAreIncluded`, `AnnotationsAreRight` and `RelationsAreComplete`, for any table, any
  ids, links, filters, orders and withs.
  For pages, the order of a request with that of the model after it is a strict linear order of the rows, nulls first or last, and `after` is its
  part behind the anchor (`PrecedesAt` and the lemmas that follow it). `PagesInv`: of the rows that nobody changed, those up to the last one are listed and no others (`AfterPages`,
  if the anchor was not moved), or those of a rank below the offset (`OffsetPages`, if nothing changed), in order. For stats, the groups partition what matches, and folding the counts of a
  part into the rest keeps their total. For includes, `WithInv` follows the phases of a GET: the ids found for a path are
  those of its parents' objects, and while nobody changes anything each object's own (`FoundOK`); the dict of a path may grow by that of another path that ends
  with the same relation (`DictsOK`), and what a model lists is read from a path that has all of them (`OfOK`); `flat` has the ids of the paths that are joined, under their
  annotations (`FlatOK`); the groups being merged are those of the model being fetched (`AskedOK`); each object that is out has the annotations and relations
  it should (`OutOK`), and of the models that are done none is missing (`CoverOK`, `FetchOK`).
  Totals are folds over sets. The library's induction theorems cannot be used (they take an operator), so what is needed of folds is proved from a smallest
  counterexample (`LeastNat`, `SmallestSet`): that a fold exists (`FoldExists`) and what its value keeps (`FoldKeeps`).

The assumptions, each a named ASSUME that TLC evaluates on the runs' instances: `RowRequestsAssumption`, `LayeredOrderAssumption`, `MultiPutAssumption`, `FileStorageAssumption`,
`DispatchAssumption`, `SessionsAssumption`, `ScopedAssumption`, `RelationHistoryAssumption`, `GroupAssumption` and `QueriesAssumption`. They say that markers such as `None` are not
among the values they mark, and of what kind the inputs are. Those that say more are `DispatchAssumption` (`default` is a transaction database) and `QueriesAssumption` (the
model's order has `pk`; rows and annotations are finite).

Only model-checked: `OrderingEnds`, `RequestsEnd` and `ListsEnd`, since liveness and ENABLED are out of the prover's reach (that the loop of
`AnnotationSets` ends is part of `ListsEnd`), and `JoinsScopes` of `SmartQ`. The properties of the three runs that expect a violation are false. Every other property of a run
is stated by a theorem.

## 5. Not modelled

Parts that are left out altogether:

* Token authentication: one row that is read, compared with the clock and saved. Its one hazard is named under the findings.
* Websocket rooms and triggers: a call of an external server; what a listener does with it is not in this code.
* Loaded values: a copy of an instance's fields made when it is loaded or saved. What goes wrong with such copies between requests is in
  `RowRequests`, whose `loaded` is one.
* Combined views and CSV export: a queryset with ids made by arithmetic on keys, and a format for what a GET answers. No state.
* The router, field filters, custom field types, JSON: parsing and formatting of single values.
* Management commands and migrations: run once, alone.

Of the parts that are modelled, these are missing: one-to-one fields, overrides of superclasses in a multi-put, several parents of a child that changes while
another request saves one of them (`views.py:1893`); the reverse side of a many-to-many field; `_scope_view` methods that return querysets; joins and `distinct` in a
query (an order by a relation to many repeats rows, `views.py:691`); the transforms that take values from earlier answers in a multi-request; the
debug view of the history; the deletion of a row that has files; mails and password validation.

What is left to do, most useful first: two multi-puts with their children in one module, where the unlocked children (`views.py:1893`) would show; one-to-one fields;
the triggers of the websocket beside the transaction they are sent from.
