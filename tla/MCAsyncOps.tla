----------------------------- MODULE MCAsyncOps -----------------------------
(* TLC instance of the requests and their procedures.                      *)
EXTENDS AsyncOps
=============================================================================
