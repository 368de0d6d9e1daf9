------------------------------ MODULE MCDispatch ------------------------------
(* Small instances of Dispatch.                                            *)
EXTENDS Dispatch

MCDatabases == <<"default", "other">>
=============================================================================
