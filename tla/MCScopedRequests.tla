--------------------------- MODULE MCScopedRequests ---------------------------
(* Small instances of ScopedRequests.                                      *)
EXTENDS ScopedRequests, SmartQ, TLC

CONSTANTS t1, t2

MCThread == {t1, t2}
MCUsers == [keeper |-> [superuser |-> FALSE, groups |-> {"keepers"}],
            boss |-> [superuser |-> TRUE, groups |-> {}],
            guest |-> [superuser |-> FALSE, groups |-> {"readers"}],
            stranger |-> [superuser |-> FALSE, groups |-> {}]]
MCDefinition == [default |-> {<<"add", NoScope>>},
                 readers |-> {<<"view", "open">>},
                 keepers |-> {<<"view", "own">>, <<"view", "open">>, <<"add", "own">>,
                              <<"change", "own">>, <<"delete", "own">>}]
MCInitialRows == {1, 2}
MCFact == {"own", "open", "a", "b"}
MCPayloads == {{"own"}, {"open"}}

(* Changes: two rows of the keeper, one of them open.                      *)
Plain == [own |-> Q("AND", FALSE, <<Leaf("own")>>), open |-> Q("AND", FALSE, <<Leaf("open")>>)]
Changes == [kinds |-> {"keeper"} \X {"put", "delete", "multi", "upload"},
            views |-> {Plain},
            tables |-> {(1 :> {"own"}) @@ (2 :> {"own", "open"}) @@ (3 :> Absent)}]

(* Readers: whoever sees all, some or none of the rows, beside a writer.   *)
Readers == [kinds |-> ((DOMAIN MCUsers) \X {"list", "history"}) \cup {<<"boss", "put">>, <<"guest", "post">>, <<"keeper", "post">>},
            views |-> {Plain},
            tables |-> {(1 :> {"own"}) @@ (2 :> {}) @@ (3 :> Absent)}]

(* Filters: two scopes of many shapes over two facts, on rows with each    *)
(* combination of these facts.                                             *)
Ors == {"AND", "OR"}
Lookups == {Leaf("a"), Leaf("b")}
Pairs(S) == {<<x, y>> : x \in S, y \in S}
Nodes(S) == {Q(c, n, k) : c \in Ors, n \in BOOLEAN, k \in {<<x>> : x \in S} \cup Pairs(S)}
Flat == Nodes(Lookups)
Small == {Leaf("a"), Q("OR", FALSE, <<Leaf("a"), Leaf("b")>>), Q("AND", FALSE, <<Leaf("a"), Leaf("b")>>),
          Q("AND", TRUE, <<Leaf("b")>>), AlwaysTrue}
Few == {Q(c, n, <<Leaf("a"), Leaf("b")>>) : c \in Ors, n \in BOOLEAN}
       \cup {Q("OR", FALSE, <<Leaf("a")>>), Q("OR", TRUE, <<Leaf("b"), Leaf("b")>>)}
Filters == [kinds |-> {<<"keeper", "list">>},
            views |-> {[own |-> x, open |-> y] : x \in Flat \cup Nodes(Small), y \in Few},
            tables |-> {(1 :> {"a"}) @@ (2 :> {"b"}) @@ (3 :> {"a", "b"}),
                        (1 :> {}) @@ (2 :> {"b"}) @@ (3 :> Absent)}]
MCFamilies == {Changes, Readers, Filters}
MCTree == {AlwaysTrue} \cup UNION {{v.own, v.open} : v \in UNION {f.views : f \in MCFamilies}}
=============================================================================
