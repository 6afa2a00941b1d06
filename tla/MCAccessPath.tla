---------------------------- MODULE MCAccessPath ----------------------------
(* TLC instance of an access from end to end.                              *)
EXTENDS AccessPath
=============================================================================
