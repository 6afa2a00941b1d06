------------------------------ MODULE RspQueue ------------------------------
(***************************************************************************)
(* The output path of main.c.                                              *)
(*                                                                         *)
(* blehostd_enqueue_rsp() appends a message to blehostd_rsp_mq and posts   *)
(* the queue's one event to blehostd_evq.  The handler of that event,      *)
(* blehostd_process_rsp_mq(), sends messages until the queue is empty or   *)
(* the socket answers MN_EAGAIN; then it puts the message back at the head *)
(* and leaves.  The socket's writable callback posts the same event to the *)
(* default event queue, whose handler the main task runs: two tasks drain  *)
(* one queue.  An event that is queued is not queued again.                *)
(*                                                                         *)
(* The main task has the higher priority (OS_MAIN_TASK_PRIO 1 against      *)
(* BLEHOSTD_TASK_PRIO 3).  Preemptive says whether a task can lose the CPU *)
(* between two steps of its own: TRUE is the OS's preemptive scheduler,    *)
(* FALSE the shipped MCU_NATIVE_USE_SIGNALS: 0, under which a task runs    *)
(* until it waits.  Any other socket error ends the process by assert(0).  *)
(***************************************************************************)
EXTENDS Naturals, SequencesExt

CONSTANTS MaxMsgs,     \* bound: messages accepted for sending
          MaxDrops,    \* bound: messages refused by blehostd_enqueue_rsp()
          Room,        \* messages the socket takes before it answers MN_EAGAIN
          Preemptive

ASSUME RspAssumption ==
  /\ MaxMsgs \in Nat
  /\ MaxDrops \in Nat
  /\ Room \in Nat \ {0}
  /\ Preemptive \in BOOLEAN

Tasks == {"main", "blehostd"}

VARIABLES rsp_mq,    \* blehostd_rsp_mq.mq_head, as message numbers
          mq_ev,     \* where its event is queued: "none", "blehostd" or "dflt"
          pc,        \* where each task is
          om,        \* the message a draining task has taken off the queue
          room,      \* messages the socket can still take
          sent,      \* the messages the socket took, in order
          accepted,  \* number of messages accepted so far
          drops      \* number of messages refused so far

vars == <<rsp_mq, mq_ev, pc, om, room, sent, accepted, drops>>

\* A task waits for an event ("idle"), is inside blehostd_process_rsp_mq()
\* ("get", "send", "putback"), has not connected yet, or (main) waits in
\* bhd_gatts_access() for the status of an attribute access ("blocked").
PCs == {"connect", "idle", "get", "send", "putback", "blocked"}
Draining(t) == pc[t] \in {"get", "send", "putback"}

Init ==
  /\ rsp_mq = << >>
  /\ mq_ev = "none"
  /\ pc = [main |-> "idle", blehostd |-> "connect"]
  /\ om = [t \in Tasks |-> 0]
  /\ room = Room
  /\ sent = << >>
  /\ accepted = 0
  /\ drops = 0

-----------------------------------------------------------------------------
(* Scheduling.                                                             *)

MainReady == Draining("main") \/ (pc["main"] = "idle" /\ mq_ev = "dflt")

MayRun(t) ==
  IF t = "main" THEN Preemptive \/ ~Draining("blehostd")
                ELSE ~MainReady

\* The socket task may interrupt anybody, or nobody that is draining.
SocketMayRun == Preemptive \/ \A t \in Tasks : ~Draining(t)

-----------------------------------------------------------------------------
(* The event of the queue.                                                 *)

\* os_eventq_put(): an event that is queued already stays where it is.
EventPut(q) == mq_ev' = IF mq_ev = "none" THEN q ELSE mq_ev

\* The event queue a task's loop runs: blehostd_evq or os_eventq_dflt_get().
EvqOf(t) == IF t = "main" THEN "dflt" ELSE "blehostd"

-----------------------------------------------------------------------------
(* Tasks.                                                                  *)

\* blehostd_task_handler(): blehostd_connect() succeeded (or assert).
Connect ==
  /\ pc["blehostd"] = "connect"
  /\ MayRun("blehostd")
  /\ pc' = [pc EXCEPT !["blehostd"] = "idle"]
  /\ UNCHANGED <<rsp_mq, mq_ev, om, room, sent, accepted, drops>>

\* Mutant: the message is queued without its event.
PostM == UNCHANGED mq_ev

\* The second argument of os_mqueue_put() in blehostd_enqueue_rsp().
Post == EventPut("blehostd")

\* blehostd_enqueue_rsp(): os_mqueue_put() appends and posts the event.
EnqueueRsp ==
  /\ accepted < MaxMsgs
  /\ accepted' = accepted + 1
  /\ rsp_mq' = Append(rsp_mq, accepted + 1)
  /\ Post

\* A response (blehostd task) or an event (main task) is queued.
Produce(t) ==
  /\ pc[t] = "idle"
  /\ MayRun(t)
  /\ EnqueueRsp
  /\ UNCHANGED <<pc, om, room, sent, drops>>

\* blehostd_enqueue_rsp() fails: message too long, or no mbuf for it.
Refuse(t) ==
  /\ pc[t] = "idle"
  /\ MayRun(t)
  /\ drops < MaxDrops
  /\ drops' = drops + 1
  /\ UNCHANGED <<rsp_mq, mq_ev, pc, om, room, sent, accepted>>

\* bhd_gatts_access(): the access event is queued, then the main task waits.
BlockMain ==
  /\ pc["main"] = "idle"
  /\ MayRun("main")
  /\ EnqueueRsp
  /\ pc' = [pc EXCEPT !["main"] = "blocked"]
  /\ UNCHANGED <<om, room, sent, drops>>

\* os_sem_pend() returns: a status arrived or ten seconds are over.
UnblockMain ==
  /\ pc["main"] = "blocked"
  /\ MayRun("main")
  /\ pc' = [pc EXCEPT !["main"] = "idle"]
  /\ UNCHANGED <<rsp_mq, mq_ev, om, room, sent, accepted, drops>>

\* os_eventq_run(): the event is dequeued and its handler entered.
RunEvent(t) ==
  /\ pc[t] = "idle"
  /\ MayRun(t)
  /\ mq_ev = EvqOf(t)
  /\ mq_ev' = "none"
  /\ pc' = [pc EXCEPT ![t] = "get"]
  /\ UNCHANGED <<rsp_mq, om, room, sent, accepted, drops>>

\* Mutant: the message is read and stays in the queue.
RestM == rsp_mq

\* What os_mqueue_get() leaves in the queue.
Rest == Tail(rsp_mq)

\* os_mqueue_get() returns the first message.
Get(t) ==
  /\ pc[t] = "get"
  /\ MayRun(t)
  /\ rsp_mq # << >>
  /\ om' = [om EXCEPT ![t] = Head(rsp_mq)]
  /\ rsp_mq' = Rest
  /\ pc' = [pc EXCEPT ![t] = "send"]
  /\ UNCHANGED <<mq_ev, room, sent, accepted, drops>>

\* os_mqueue_get() returns NULL: the handler returns.
GetNothing(t) ==
  /\ pc[t] = "get"
  /\ MayRun(t)
  /\ rsp_mq = << >>
  /\ pc' = [pc EXCEPT ![t] = "idle"]
  /\ UNCHANGED <<rsp_mq, mq_ev, om, room, sent, accepted, drops>>

\* Mutant: MN_EAGAIN is taken for success.
SocketTakesM == TRUE

\* mn_sendto() returns 0, or else MN_EAGAIN.
SocketTakes == room > 0

\* blehostd_process_rsp(): mn_sendto() takes the message.
SendOk(t) ==
  /\ pc[t] = "send"
  /\ MayRun(t)
  /\ SocketTakes
  /\ room' = room - 1
  /\ sent' = Append(sent, om[t])
  /\ om' = [om EXCEPT ![t] = 0]
  /\ pc' = [pc EXCEPT ![t] = "get"]
  /\ UNCHANGED <<rsp_mq, mq_ev, accepted, drops>>

\* mn_sendto() returns MN_EAGAIN.
SendAgain(t) ==
  /\ pc[t] = "send"
  /\ MayRun(t)
  /\ ~SocketTakes
  /\ pc' = [pc EXCEPT ![t] = "putback"]
  /\ UNCHANGED <<rsp_mq, mq_ev, om, room, sent, accepted, drops>>

\* Mutants: the refused message is dropped, or put at the wrong end.
WithAgainDropM(m) == rsp_mq
WithAgainTailM(m) == Append(rsp_mq, m)

\* STAILQ_INSERT_HEAD.
WithAgain(m) == <<m>> \o rsp_mq

\* The critical section after MN_EAGAIN, then break.
PutBack(t) ==
  /\ pc[t] = "putback"
  /\ MayRun(t)
  /\ rsp_mq' = WithAgain(om[t])
  /\ om' = [om EXCEPT ![t] = 0]
  /\ pc' = [pc EXCEPT ![t] = "idle"]
  /\ UNCHANGED <<mq_ev, room, sent, accepted, drops>>

\* Mutant: the callback does nothing.
PostWritableM == UNCHANGED mq_ev

\* blehostd_socket_writable(); "XXX: Spurious event when there is nothing else
\* left to write."
PostWritable == EventPut("dflt")

\* The client reads, the socket has room again and calls
\* blehostd_socket_writable(), also when nothing is left to write.
SocketWritable ==
  /\ pc["blehostd"] # "connect"
  /\ SocketMayRun
  /\ room < Room
  /\ room' = room + 1
  /\ PostWritable
  /\ UNCHANGED <<rsp_mq, pc, om, sent, accepted, drops>>

Drain(t) == RunEvent(t) \/ Get(t) \/ GetNothing(t) \/ SendOk(t) \/ SendAgain(t) \/ PutBack(t)

Next ==
  \/ Connect
  \/ \E t \in Tasks : Produce(t) \/ Refuse(t) \/ Drain(t)
  \/ BlockMain
  \/ UnblockMain
  \/ SocketWritable

Spec == Init /\ [][Next]_vars

\* Each task gets the CPU when nobody of higher priority needs it; an access
\* wait ends by its timeout; the client keeps reading.
Fairness ==
  /\ WF_vars(Connect)
  /\ \A t \in Tasks : WF_vars(Drain(t))
  /\ WF_vars(UnblockMain)
  /\ WF_vars(SocketWritable)

FairSpec == Spec /\ Fairness

-----------------------------------------------------------------------------
(* Properties.                                                             *)

Msgs == 1 .. accepted
Held == {om[t] : t \in Tasks} \ {0}

\* Type invariant; a task holds a message exactly while it sends it.
TypeOK ==
  /\ rsp_mq \in Seq(Nat \ {0})
  /\ mq_ev \in {"none", "blehostd", "dflt"}
  /\ pc \in [Tasks -> PCs]
  /\ om \in [Tasks -> Nat]
  /\ room \in 0 .. Room
  /\ sent \in Seq(Nat \ {0})
  /\ accepted \in 0 .. MaxMsgs
  /\ drops \in 0 .. MaxDrops
  /\ \A t \in Tasks : om[t] # 0 <=> pc[t] \in {"send", "putback"}

\* Every accepted message is in exactly one place: sent, in the hands of one
\* task, or once in the queue -- although two tasks take messages off the queue
\* and put them back.
ExactlyOnce ==
  /\ ToSet(sent) \union Held \union ToSet(rsp_mq) = Msgs
  /\ IsInjective(sent) /\ IsInjective(rsp_mq)
  /\ ToSet(sent) \intersect ToSet(rsp_mq) = {}
  /\ Held \intersect (ToSet(sent) \union ToSet(rsp_mq)) = {}
  /\ om["main"] # 0 => om["main"] # om["blehostd"]

\* A message that waits in the queue has a wake-up coming: the event is queued,
\* a task is draining, or the socket will call back because it is not empty.
\* ("Socket cannot accommodate packet; try again later.")
WakeupComing ==
  rsp_mq # << >> => \/ mq_ev # "none"
                    \/ \E t \in Tasks : Draining(t)
                    \/ room < Room

\* Seen from outside, blehostd is a channel that sends every message at most
\* once, in order when tasks run until they wait.
Chan == INSTANCE MsgChannel WITH Ordered <- ~Preemptive
ImplementsChannel == Chan!Spec

\* Every accepted message is eventually sent, whatever the socket refuses and
\* however long the main task waits for access statuses.
AllSent == \A m \in 1 .. MaxMsgs : accepted >= m ~> m \in ToSet(sent)
=============================================================================
