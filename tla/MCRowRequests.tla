---------------------------- MODULE MCRowRequests ----------------------------
(* Small instances of RowRequests: a row of a model with a field deleted,  *)
(* and two keys of one without it.                                         *)
EXTENDS RowRequests

CONSTANTS t1, t2, r1, r2, r3

MCThread == {t1, t2}
MCRow == {r1, r2, r3}
MCSoftRow == {r1}
MCInitialRows == {r1, r2}
MCValue == {"x", "y"}
MCLockedKinds == LockedKinds
=============================================================================
