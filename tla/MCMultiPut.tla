------------------------------ MODULE MCMultiPut ------------------------------
(* Small payloads for MultiPut.                                            *)
EXTENDS MultiPut

(* The name of the tests' animal comes before that of its zoo.             *)
MCNameRank == [m \in {"parent", "child"} |-> IF m = "parent" THEN 2 ELSE 1]
MCMade == {-1, -2}

Strict == [nullable |-> FALSE, softDelete |-> TRUE]
Loose == [nullable |-> TRUE, softDelete |-> FALSE]

Objects(ids) == {o \in Object : o.id \in ids}
AtMostOne == {S \in SUBSET Key("child") : Cardinality(S) <= 1}

(* Everything a client can say of kids and owners, with the made-up id -1. *)
KidsFamily(D, s) ==
  [objects |-> Objects({1, 2, -1}),
   kids |-> {Absent} \cup SUBSET (Key("child") \ {-2}),
   owners |-> {Absent, None} \cup (Key("parent") \ {-2}), mates |-> {Absent},
   deletions |-> D, schema |-> s]

(* Every graph of references between new objects and one that exists.      *)
MatesFamily ==
  [objects |-> Objects(Made) \cup {o \in Object : o.model = "child"}, kids |-> {Absent},
   owners |-> {Absent} \cup Made, mates |-> {Absent} \cup Key("child"), deletions |-> {{}}, schema |-> Loose]

MCFamilies == {KidsFamily(AtMostOne, Strict), KidsFamily({{}}, Loose), MatesFamily}
=============================================================================
