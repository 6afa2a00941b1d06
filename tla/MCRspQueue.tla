----------------------------- MODULE MCRspQueue -----------------------------
(* TLC instances of the output path.                                       *)
EXTENDS RspQueue
=============================================================================
