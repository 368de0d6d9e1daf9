------------------------------- MODULE MCQueries -------------------------------
(* Small instances of Queries.                                             *)
EXTENDS Queries, TLC

PkOrder == <<Key("pk", FALSE, "unset")>>

MCTarget == [zoo_of_birth |-> "zoo", zoo |-> "zoo", contacts |-> "contact", director |-> "contact"]
MCRelations == [zoo |-> {"contacts", "director"}, contact |-> {}]
MCDefaults == [zoo |-> {"p", "q"}, contact |-> {"p"}]
MCJoins == [p |-> {}, q |-> {1}, r |-> {1, 2}]
MCOthers == [zoo |-> {1, 2}, contact |-> {1, 2}]

None_ == [w \in {} |-> {}]
R(pk, zoo, facts) == [pk |-> pk, zoo |-> zoo, facts |-> facts, deleted |-> FALSE]
Ask == [stat |-> None, order |-> << >>, limit |-> None, after |-> FALSE, deleted |-> "unset", filters |-> {}, search |-> {},
        withs |-> << >>, where |-> None_, includes |-> << >>, writes |-> {}, removals |-> FALSE]

(* Lists: three rows with every distribution of zoos, page by page, while  *)
(* rows are added, changed and deleted.                                    *)
Zoos == {None, 1, 2}
Tables(S) == {[pk \in Pk |-> IF pk \in S THEN R(pk, z[pk], {}) ELSE Absent] : z \in [S -> Zoos]}
ZooKeys == {Key("zoo", d, n) : d \in BOOLEAN, n \in {"unset", "first", "last"}}
Lists1 == [asks |-> {[Ask EXCEPT !.order = o, !.limit = n, !.after = a] :
                       o \in {<< >>} \cup {<<k>> : k \in ZooKeys}, n \in {1, 2}, a \in BOOLEAN},
           tables |-> Tables({1, 2, 3}), links |-> {{}}, others |-> MCOthers]
Moving == [asks |-> {[Ask EXCEPT !.order = o, !.limit = 1, !.after = TRUE,
                                 !.writes = {Absent} \cup {R(pk, z, {}) : pk \in Pk, z \in {None, 1}}] :
                       o \in {<<k>> : k \in ZooKeys}},
           tables |-> Tables({1, 2}), links |-> {{}}, others |-> MCOthers]
(* Filters: all of them on rows with any facts.                            *)
Filter == [heads : {{"a"}, {"a", "b"}}, not : BOOLEAN, all : BOOLEAN]
Filters == [asks |-> {[Ask EXCEPT !.filters = F, !.deleted = d, !.search = s] :
                        F \in {{}} \cup {{f} : f \in Filter}, d \in {"unset", "true", "only"}, s \in {{}, {"a", "c"}}},
            tables |-> {[pk \in Pk |-> IF pk = 4 THEN Absent ELSE [R(pk, 1, fs[pk]) EXCEPT !.deleted = (pk = 3)]] :
                          fs \in [1..3 -> {{}, {"a"}, {"b"}, {"a", "b"}, {"c"}}]},
            links |-> {{}}, others |-> MCOthers]

(* Stats: by zoo, all, the larger ones, or the largest.                    *)
Stat(min, most, filters) == [field |-> "zoo", min |-> min, most |-> most, filters |-> filters]
Stats == [asks |-> {[Ask EXCEPT !.stat = s] :
                      s \in {Stat(None, None, {}), Stat(30, None, {}), Stat(50, None, {}), Stat(None, 1, {}),
                             Stat(None, 2, {}), Stat(None, 1, {[heads |-> {"a"}, not |-> TRUE, all |-> FALSE]})}},
          tables |-> {[pk \in Pk |-> R(pk, z[pk], IF pk = 1 THEN {"a"} ELSE {})] : z \in [Pk -> Zoos \cup {3}]},
          links |-> {{}}, others |-> MCOthers]

(* Withs: animals that were born in a zoo and live in one, with contacts. *)
TwoRows == {[pk \in Pk |-> IF pk \in {1, 2} THEN R(pk, None, {}) ELSE Absent]}
Fixed == {<<"contacts", 1, 1>>, <<"contacts", 2, 1>>, <<"contacts", 2, 2>>, <<"director", 1, 1>>, <<"director", 2, 2>>}
ForeignKey(rel, pk, zoo) == IF zoo = None THEN {} ELSE {<<rel, pk, zoo>>}
Links == {Fixed \cup ForeignKey("zoo_of_birth", 1, b1) \cup ForeignKey("zoo_of_birth", 2, b2)
                \cup ForeignKey("zoo", 1, z1) \cup ForeignKey("zoo", 2, 2) :
            b1 \in {1, 2}, b2 \in {None, 2}, z1 \in {None, 1}}
Include(path, name, minus) == [path |-> path, name |-> name, minus |-> minus]
Includes == {<< >>, <<Include(<<"zoo_of_birth">>, "r", FALSE)>>,
             <<Include(<<"zoo">>, "*", FALSE), Include(<<"zoo">>, "p", TRUE), Include(<<"zoo_of_birth">>, "r", FALSE),
               Include(<<"zoo", "contacts">>, "q", FALSE), Include(<<"zoo", "director">>, "r", FALSE)>>}
BothKept == {<<<<"zoo_of_birth", "contacts">>, <<"zoo", "contacts">>>>,
             <<<<"zoo", "contacts">>, <<"zoo_of_birth", "contacts">>>>,
             <<<<"zoo_of_birth", "contacts">>, <<"zoo", "director">>, <<"zoo", "contacts">>>>}
OneKept == {<<<<"zoo_of_birth">>, <<"zoo", "contacts">>>>, <<<<"zoo_of_birth", "contacts">>, <<"zoo">>>>}
Wheres == {None_, <<"zoo_of_birth">> :> {1}, <<"zoo_of_birth", "contacts">> :> {2}, <<"zoo", "contacts">> :> {1}}
WithsOfAll == [asks |-> {[Ask EXCEPT !.withs = w, !.where = h, !.includes = i, !.removals = (h = None_)] :
                           w \in BothKept \cup OneKept, h \in Wheres, i \in Includes},
               tables |-> TwoRows, links |-> Links, others |-> MCOthers]
MCFamilies == {Lists1, Moving, Filters, Stats, WithsOfAll}
=============================================================================
