---------------------------- MODULE MCReqParams ----------------------------
(* TLC instance of the decoding of a request.                              *)
EXTENDS ReqParams
=============================================================================
