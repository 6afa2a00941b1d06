------------------------------ MODULE MsgChannel ------------------------------
(***************************************************************************)
(* What blehostd promises of its output: every message it accepts for      *)
(* sending goes out at most once and, on an ordered channel, in the order  *)
(* of acceptance.  Messages are numbered as they are accepted.             *)
(***************************************************************************)
EXTENDS Naturals, Sequences

CONSTANT Ordered      \* TRUE: first accepted, first sent

VARIABLES accepted,   \* number of messages accepted
          sent        \* the messages sent, in order

chanVars == <<accepted, sent>>

Init == accepted = 0 /\ sent = << >>

Accept ==
  /\ accepted' = accepted + 1
  /\ UNCHANGED sent

Send(m) ==
  /\ \A k \in DOMAIN sent : sent[k] # m
  /\ Ordered => m = Len(sent) + 1
  /\ sent' = Append(sent, m)
  /\ UNCHANGED accepted

Next == Accept \/ \E m \in 1 .. accepted : Send(m)

Spec == Init /\ [][Next]_chanVars
=============================================================================
