----------------------------- MODULE AccessPath -----------------------------
(***************************************************************************)
(* An attribute access from end to end: the rendezvous (AccessStatus) and  *)
(* the output queue (RspQueue) share the main task and the blehostd task,  *)
(* and a client closes the loop.                                           *)
(*                                                                         *)
(* The main task queues the access event and waits; the blehostd task      *)
(* drains the queue into the socket; the client reads the event and        *)
(* answers; the blehostd task stores the answer, wakes the main task and   *)
(* responds.  The socket's writable callback puts the one event of the     *)
(* output queue on the main task's event queue, whatever that task does.   *)
(*                                                                         *)
(* The client is prompt: it reads whatever the socket holds, answers each  *)
(* access event it reads once, and is never as slow as ten seconds.  So a  *)
(* wait times out only when nothing else is left to happen (Quiet).        *)
(* Tasks run until they wait, as shipped.                                  *)
(***************************************************************************)
EXTENDS Naturals, Sequences

CONSTANTS MaxAccesses,   \* bound: attribute accesses by peers
          MaxOther,      \* bound: other requests, and other events
          Room           \* messages the socket takes before it answers MN_EAGAIN

ASSUME PathAssumption ==
  /\ MaxAccesses \in Nat
  /\ MaxOther \in Nat
  /\ Room \in Nat \ {0}

\* The output queue (RspQueue).
VARIABLES rsp_mq, mq_ev, pc, om, room, sent, accepted
out == <<rsp_mq, mq_ev, pc, om, room, sent, accepted>>

\* The rendezvous (AccessStatus).
VARIABLES sem, att_status, value, main, setter, accesses, access, answers,
          answer, owner
rendezvous == <<sem, att_status, value, main, setter, accesses, access, answers,
                answer, owner>>

VARIABLES event,   \* the message that announces each access, 0: none yet
          seen,    \* number of messages the client has read
          reqs,    \* blehostd_req_mq: the access a request answers, 0: another
          owes,    \* the blehostd task is in a request it has not responded to
          others   \* number of other requests and events so far
ends == <<event, seen, reqs, owes, others>>

vars == <<out, rendezvous, ends>>

Out == INSTANCE RspQueue WITH
         MaxMsgs    <- 2 * (MaxAccesses + MaxOther),
         MaxDrops   <- 0,
         drops      <- 0,
         Preemptive <- FALSE

Rdv == INSTANCE AccessStatus WITH
         MaxAnswers  <- MaxAccesses,
         AttStatuses <- {0},
         MaxLen      <- 0

Init ==
  /\ Out!Init
  /\ Rdv!Init
  /\ event = [a \in 1 .. MaxAccesses |-> 0]
  /\ seen = 0
  /\ reqs = << >>
  /\ owes = FALSE
  /\ others = 0

-----------------------------------------------------------------------------
(* The main task.                                                          *)

\* The host calls bhd_gatts_access(): the event is queued, then the task waits.
Access ==
  /\ Rdv!StartAccess("write")
  /\ Out!BlockMain
  /\ event' = [event EXCEPT ![accesses'] = accepted']
  /\ UNCHANGED <<seen, reqs, owes, others>>

\* A callback of the host that sends another event.
OtherEvt ==
  /\ others < MaxOther
  /\ others' = others + 1
  /\ Out!Produce("main")
  /\ UNCHANGED <<rendezvous, event, seen, reqs, owes>>

\* os_sem_pend() obtains a token.
Wake ==
  /\ Rdv!PendOk
  /\ UNCHANGED <<out, ends>>

\* bhd_gatts_access() returns to the host.
Return ==
  /\ Rdv!FinishAccess
  /\ Out!UnblockMain
  /\ UNCHANGED ends

-----------------------------------------------------------------------------
(* The blehostd task.                                                      *)

\* The main task has a token to take or is past its wait: it has the CPU.
MainAwake == main = "copy" \/ (main = "pend" /\ sem > 0)

\* The blehostd task's own code may run; owing tells it to finish a request.
BlehostdRuns(owing) ==
  /\ pc["blehostd"] = "idle"
  /\ Out!MayRun("blehostd")
  /\ ~MainAwake
  /\ owes = owing

Connect ==
  /\ Out!Connect
  /\ UNCHANGED <<rendezvous, ends>>

\* blehostd_process_req() up to the response.  An access_status request stores
\* its status or is refused.
HandleReq ==
  /\ BlehostdRuns(FALSE)
  /\ reqs # << >>
  /\ IF Head(reqs) = 0
       THEN UNCHANGED rendezvous
       ELSE \/ Rdv!SetResult(Head(reqs), 0, TRUE)
            \/ Rdv!RejectResult(Head(reqs), 0, TRUE)
  /\ reqs' = Tail(reqs)
  /\ owes' = TRUE
  /\ UNCHANGED <<out, event, seen, others>>

\* os_sem_release(); the main task, if it waits, goes on at once.
Release ==
  /\ BlehostdRuns(TRUE)
  /\ Rdv!ReleaseSem
  /\ UNCHANGED <<out, ends>>

\* bhd_rsp_send(); then os_mqueue_get() looks for the next request.
Respond ==
  /\ BlehostdRuns(TRUE)
  /\ setter = "idle"
  /\ Out!Produce("blehostd")
  /\ owes' = FALSE
  /\ UNCHANGED <<rendezvous, event, seen, reqs, others>>

\* blehostd_process_rsp_mq(), by either task.  The blehostd task enters it
\* between two requests only.
Drain(t) ==
  /\ Out!Drain(t)
  /\ t = "blehostd" => ~owes /\ ~MainAwake
  /\ UNCHANGED <<rendezvous, ends>>

-----------------------------------------------------------------------------
(* The client and the socket.                                              *)

Announces(m) == {a \in 1 .. accesses : event[a] = m}

\* The client reads one message and, if it is an access event, answers.
ClientTakes ==
  /\ seen < Len(sent)
  /\ seen' = seen + 1
  /\ reqs' = IF \E a \in 1 .. accesses : a \in Announces(sent[seen'])
               THEN Append(reqs, CHOOSE a \in Announces(sent[seen']) : TRUE)
               ELSE reqs
  /\ UNCHANGED <<rendezvous, event, owes, others>>

\* ... and blehostd_socket_writable() is called: always when the socket was full,
\* otherwise perhaps ("XXX: Spurious event when there is nothing else left to
\* write.").
ClientReads ==
  /\ Out!SocketWritable
  /\ ClientTakes

ClientReadsUnnoticed ==
  /\ room \in 1 .. Room - 1
  /\ Out!SocketMayRun
  /\ room' = room + 1
  /\ UNCHANGED <<rsp_mq, mq_ev, pc, om, sent, accepted>>
  /\ ClientTakes

\* The client sends a request of another kind.
ClientAsks ==
  /\ others < MaxOther
  /\ others' = others + 1
  /\ reqs' = Append(reqs, 0)
  /\ UNCHANGED <<out, rendezvous, event, seen, owes>>

-----------------------------------------------------------------------------
(* Time.                                                                   *)

\* Nothing is left to do but to wait: the blehostd task has no event, the client
\* has read and answered everything.
Quiet ==
  /\ pc["blehostd"] = "idle"
  /\ mq_ev # "blehostd"
  /\ reqs = << >>
  /\ ~owes
  /\ seen = Len(sent)

\* os_sem_pend() gives up after ten seconds.
Timeout ==
  /\ Quiet
  /\ Rdv!PendTimeout
  /\ UNCHANGED <<out, ends>>

-----------------------------------------------------------------------------
Next ==
  \/ Access \/ OtherEvt \/ Wake \/ Return \/ Timeout
  \/ Connect \/ HandleReq \/ Release \/ Respond
  \/ \E t \in Out!Tasks : Drain(t)
  \/ ClientReads \/ ClientReadsUnnoticed \/ ClientAsks

Spec == Init /\ [][Next]_vars

\* Each task gets the CPU when it is its turn, the wait is bounded, and the client
\* reads.  Peers, other requests and other events are free to come or not.
Fairness ==
  /\ WF_vars(Connect)
  /\ WF_vars(HandleReq \/ Release \/ Respond)
  /\ \A t \in Out!Tasks : WF_vars(Drain(t))
  /\ WF_vars(Wake \/ Return \/ Timeout)
  /\ WF_vars(ClientReads \/ ClientReadsUnnoticed)

FairSpec == Spec /\ Fairness

-----------------------------------------------------------------------------
(* Properties.                                                             *)

TimedOut(a) == access[a].state = "timeout"
Read(m) == \E k \in 1 .. seen : sent[k] = m

\* A prompt client can lose an access in one way only: the event that announces
\* it never left, because the output queue's one event sits in the queue of the
\* very task that waits (blehostd_socket_writable, bhd_gatts_access).  As soon as
\* the access event is out, the answer gets through.
OnlyUnheardTimesOut ==
  (main = "pend" /\ Quiet /\ sem = 0)
    => /\ mq_ev = "dflt"
       /\ ~Read(event[accesses])

\* As long as no access has timed out, every access gets the answer that was
\* given to it and no answer is refused.  Afterwards promptness does not help: the
\* answer that came too late stays stored, and from then on each access may take
\* the answer to an earlier one.
HeardUntilTimeout ==
  /\ \A a \in 1 .. accesses :
       (access[a].state = "answered" /\ \A b \in 1 .. a : ~TimedOut(b))
         => /\ access[a].ans # 0
            /\ answer[access[a].ans].for = a
  /\ (\E i \in 1 .. answers : ~answer[i].ok) => \E a \in 1 .. accesses : TimedOut(a)

\* The client is told of every access in the end, also of those that timed out
\* without its knowledge, and every access ends.
EveryAccessAnnounced ==
  \A a \in 1 .. MaxAccesses :
    accesses >= a ~> (event[a] # 0 /\ Read(event[a]) /\ access[a].state # "wait")

\* "Wait for client to indicate status via an access-status request.": a client
\* that answers at once is waited for.
PromptClientIsWaitedFor == \A a \in 1 .. accesses : ~TimedOut(a)
=============================================================================
