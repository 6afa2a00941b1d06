---------------------------- MODULE MCReqFraming ----------------------------
(* TLC instances of the input path.                                        *)
EXTENDS ReqFraming
=============================================================================
