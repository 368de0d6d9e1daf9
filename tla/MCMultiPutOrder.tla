--------------------------- MODULE MCMultiPutOrder ---------------------------
(* Four objects of two models, new ones and existing ones.                 *)
EXTENDS MultiPutOrder

MCNameRank == [m \in {"animal", "zoo"} |-> IF m = "animal" THEN 1 ELSE 2]

MCObject == {[model |-> "animal", id |-> 1], [model |-> "animal", id |-> -2],
             [model |-> "zoo", id |-> -1], [model |-> "zoo", id |-> -2]}
=============================================================================
