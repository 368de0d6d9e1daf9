-------------------------------- MODULE Pages ---------------------------------
(***************************************************************************)
(* The rows that a GET lists: its filters, its order, and the rows that    *)
(* come after another one in that order.                                   *)
(*                                                                         *)
(* A row is a record.  What a filter asks of a row is a fact that the row  *)
(* has or lacks; a field that rows are ordered by holds an integer or None.*)
(***************************************************************************)
EXTENDS Integers, Sequences, FiniteSets, Functions

CONSTANTS None,
          MetaOrdering,  \* the Meta.ordering of the model
          NullsLow       \* does the database sort null before all values (MySQL)?

Key(field, desc, nulls) == [field |-> field, desc |-> desc, nulls |-> nulls]
Keys == [field : STRING, desc : BOOLEAN, nulls : {"unset", "first", "last"}]

-----------------------------------------------------------------------------

(* filter_deleted, for a list of rows.                                     *)
PassesDeleted(deleted, row) ==
  \/ deleted = "true"
  \/ deleted = "unset" /\ ~row.deleted
  \/ deleted = "only" /\ row.deleted

(* _parse_alternative_filters: every head is negated by itself, so "not    *)
(* any" joins them with AND and "not all" with OR.                         *)
Matches(filter, row) ==
  IF filter.not = filter.all THEN \E h \in filter.heads : (h \in row.facts) # filter.not
  ELSE \A h \in filter.heads : (h \in row.facts) # filter.not

(* _search_base: one of the search fields matches; no search matches all.  *)
Found(search, row) == search = {} \/ \E s \in search : s \in row.facts

Passes(ask, row) == /\ PassesDeleted(ask.deleted, row)
                    /\ \A f \in ask.filters : Matches(f, row)
                    /\ Found(ask.search, row)

-----------------------------------------------------------------------------

(* _order_by_base: the order of the request, then that of the model.       *)
Order(ask) == ask.order \o MetaOrdering

NullsLast(key) == \/ key.nulls = "last"
                  \/ key.nulls = "unset" /\ key.desc = NullsLow

(* ORDER BY: whether a comes before b.                                     *)
Before(key, a, b) ==
  IF a = None THEN ~NullsLast(key)
  ELSE IF b = None THEN NullsLast(key)
  ELSE IF key.desc THEN a > b ELSE a < b

Precedes(order, a, b) ==
  \E i \in DOMAIN order :
    LET f == order[i].field
    IN /\ a[f] # b[f] /\ Before(order[i], a[f], b[f])
       /\ \A j \in 1..(i - 1) : a[order[j].field] = b[order[j].field]

(* Mutant: nulls come last whatever the direction.                         *)
NullForgotten(key, value, anchor) ==
  IF anchor = None THEN FALSE
  ELSE IF value = None THEN TRUE
  ELSE IF value < anchor THEN key.desc ELSE ~key.desc

(* The WHENs of _after_expr for a field in which a row and the anchor of   *)
(* the page differ.                                                        *)
Verdict(key, value, anchor) ==
  IF anchor = None THEN ~NullsLast(key)
  ELSE IF value = None THEN NullsLast(key)
  ELSE IF value < anchor THEN key.desc ELSE ~key.desc

After(order, row, anchor) ==
  \E i \in DOMAIN order :
    LET f == order[i].field
    IN /\ row[f] # anchor[f] /\ Verdict(order[i], row[f], anchor[f])
       /\ \A j \in 1..(i - 1) : row[order[j].field] = anchor[order[j].field]

-----------------------------------------------------------------------------

(* _paginate: without a limit the offset counts for nothing.               *)
Paginate(rows, limit, offset) ==
  IF limit = None THEN rows
  ELSE SubSeq(rows, offset + 1, IF offset + limit < Len(rows) THEN offset + limit ELSE Len(rows))

-----------------------------------------------------------------------------

(* _get_stat: a count per value of the field it groups by.                 *)
Tally(rows, field) ==
  [v \in {r[field] : r \in rows} \ {None} |-> Cardinality({r \in rows : r[field] = v})]
Total(tally) == FoldFunction(LAMBDA a, b : a + b, 0, tally)
Split(tally, shown) == [value |-> Restrict(tally, shown), other |-> Total(Restrict(tally, DOMAIN tally \ shown))]

(* Mutant: a single small group is counted although it is shown.           *)
AtLeastTwice(tally, percent) ==
  LET small == {v \in DOMAIN tally : 100 * tally[v] < percent * Total(tally)}
  IN IF Cardinality(small) > 1 THEN Split(tally, DOMAIN tally \ small)
     ELSE [value |-> tally, other |-> Total(Restrict(tally, small))]

(* min_value: the small groups are put together, if it is more than one.   *)
AtLeast(tally, percent) ==
  LET small == {v \in DOMAIN tally : 100 * tally[v] < percent * Total(tally)}
  IN IF Cardinality(small) > 1 THEN Split(tally, DOMAIN tally \ small) ELSE [value |-> tally, other |-> 0]

(* max_values: the largest groups; which of two equals is for the database.*)
Largest(tally, n) ==
  {shown \in SUBSET DOMAIN tally :
     /\ IF n < Cardinality(DOMAIN tally) THEN Cardinality(shown) = n ELSE shown = DOMAIN tally
     /\ \A v \in shown, w \in DOMAIN tally \ shown : tally[v] >= tally[w]}
StatResults(rows, stat) ==
  LET tally == Tally({r \in rows : \A f \in stat.filters : Matches(f, r)}, stat.field)
  IN IF stat.min # None THEN {AtLeast(tally, stat.min)}
     ELSE IF stat.most # None THEN {Split(tally, shown) : shown \in Largest(tally, stat.most)}
     ELSE {Split(tally, DOMAIN tally)}
=============================================================================
