---------------------------- MODULE MCFileStorage ----------------------------
(* Small instances of FileStorage.                                         *)
EXTENDS FileStorage, TLC

CONSTANTS t1, t2, n1, n2, n3, n4, n5

MCThread == {t1, t2}
MCName == {n1, n2, n3, n4, n5}
MCTwoFields == {"doc", "photo"}
MCKinds == {"put", "upload"}
NameSymmetry == Permutations(MCName) \cup Permutations(MCThread)
=============================================================================
