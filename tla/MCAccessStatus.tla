--------------------------- MODULE MCAccessStatus ---------------------------
(* TLC instance of the access rendezvous.                                  *)
EXTENDS AccessStatus

\* Success, and the "none" value the decoder lets through.
MCAttStatuses == {0, 255}
=============================================================================
