--------------------------- MODULE MCRelationHistory ---------------------------
(* Small instances of RelationHistory.                                     *)
EXTENDS RelationHistory, TLC

CONSTANTS t1, t2, c1, c2

MCThread == {t1, t2}
MCChild == {c1, c2}

Put(z, S) == [kind |-> "put", want |-> z :> S]
PutBoth(S, R) == [kind |-> "put", want |-> 1 :> S @@ 2 :> R]
Move(c, z) == [kind |-> "move", child |-> c, to |-> z]
Drop(c) == [kind |-> "drop", child |-> c]

Puts(Z) == {Put(z, S) : z \in Z, S \in SUBSET Contact}

(* Two zoos' contacts, one zoo at a time or both in a multi-put.           *)
ContactsFamily ==
  [asks |-> Puts({1, 2}) \cup {PutBoth({11}, {12}), PutBoth({12}, {11, 12})},
   contacts |-> {<<S, {12}>> : S \in {{}, {11, 12}}},
   parents |-> {[c \in Child |-> None]}]
(* Children that move between the zoos and are deleted, beside a PUT.      *)
ChildrenFamily ==
  [asks |-> {Move(c, z) : c \in Child, z \in Zoo \cup {None}} \cup {Drop(c1)} \cup {Put(1, {11})},
   contacts |-> {<<{}, {}>>},
   parents |-> {[c \in Child |-> 1], c1 :> 1 @@ c2 :> 2, c1 :> 2 @@ c2 :> None}]
(* One zoo that loses and gets contacts.                                   *)
EmptiedFamily ==
  [asks |-> Puts({1}), contacts |-> {<<{11}, {12}>>}, parents |-> {[c \in Child |-> None]}]

MCFamilies == {ContactsFamily, ChildrenFamily}
MCEmptied == {EmptiedFamily}
=============================================================================
