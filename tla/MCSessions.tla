------------------------------ MODULE MCSessions ------------------------------
(* A small instance of Sessions.                                           *)
EXTENDS Sessions, TLC

CONSTANTS s1, s2, u1, u2
MCSession == {s1, s2}
MCUser == {u1, u2}
Symmetry == Permutations(MCSession) \cup Permutations(MCUser)
=============================================================================
