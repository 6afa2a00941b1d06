----------------------------- MODULE ReqSession -----------------------------
(***************************************************************************)
(* What blehostd promises about the messages that carry one of the         *)
(* client's sequence numbers: a request is answered once; events with its  *)
(* number come only while what it started is in progress, possibly before  *)
(* the answer; after the last event, a refusal or a stop, the number is    *)
(* free and no message carries it until the client uses it again.  Any     *)
(* message may be dropped on its way: the promise is at most one answer.   *)
(***************************************************************************)
EXTENDS Naturals

CONSTANT Seqs     \* sequence numbers the client uses

VARIABLES st,     \* where the session of each number is
          last    \* the last message: what, which number, and a bit that
                  \* tells it from the one before

sessVars == <<st, last>>

States == {"free", "asked", "accepted", "running", "ended"}

\* The message is sent, or dropped without anybody noticing.
Says(op, s, status) ==
  \/ last' = [op |-> op, seq |-> s, status |-> status, bit |-> 1 - last.bit]
  \/ UNCHANGED last

Moves(s, from, to) == st[s] \in from /\ st' = [st EXCEPT ![s] = to]

Ask(s) == Moves(s, {"free"}, "asked") /\ UNCHANGED last

Accept(s) == Moves(s, {"asked"}, "accepted") /\ UNCHANGED last

\* The one answer: to a request that starts nothing or is refused; to one that
\* goes on; to one that is over already.
Answer(s) ==
  \/ Moves(s, {"asked"}, "free") /\ \E status \in {"ok", "error"} : Says("rsp", s, status)
  \/ Moves(s, {"accepted"}, "running") /\ Says("rsp", s, "ok")
  \/ Moves(s, {"ended"}, "free") /\ Says("rsp", s, "ok")

Event(s) == st[s] \in {"accepted", "running"} /\ UNCHANGED st /\ Says("evt", s, "more")

LastEvent(s) ==
  /\ Moves(s, {"running"}, "free") \/ Moves(s, {"accepted"}, "ended")
  /\ Says("evt", s, "last")

\* Another request of the client stops it.
Stop(s) ==
  /\ \E r \in Seqs : st[r] = "asked"
  /\ Moves(s, {"running"}, "free")
  /\ UNCHANGED last

\* An event nobody asked for has a number of its own.
Unsolicited(s) == s \notin Seqs /\ Says("evt", s, "more") /\ UNCHANGED st

Init ==
  /\ st = [s \in Seqs |-> "free"]
  /\ last = [op |-> "none", seq |-> 0, status |-> "ok", bit |-> 0]

Next ==
  \/ \E s \in Seqs : Ask(s) \/ Accept(s) \/ Answer(s) \/ Event(s) \/ LastEvent(s) \/ Stop(s)
  \/ Unsolicited(last'.seq)

Spec == Init /\ [][Next]_sessVars
=============================================================================
