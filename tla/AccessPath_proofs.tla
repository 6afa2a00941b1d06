------------------------- MODULE AccessPath_proofs -------------------------
(***************************************************************************)
(* Proofs about an access from end to end, for every number of accesses    *)
(* and other messages and every socket capacity.  What the output queue    *)
(* and the rendezvous keep for themselves is cited from their own proofs.  *)
(***************************************************************************)
EXTENDS AccessPath, SequenceTheorems, TLAPS

OutP == INSTANCE RspQueue_proofs WITH
         MaxMsgs    <- 2 * (MaxAccesses + MaxOther),
         MaxDrops   <- 0,
         drops      <- 0,
         Preemptive <- FALSE

RdvP == INSTANCE AccessStatus_proofs WITH
         MaxAnswers  <- MaxAccesses,
         AttStatuses <- {0},
         MaxLen      <- 0

-----------------------------------------------------------------------------
(* The inductive invariant.                                                *)

\* A request of the client that answers access a is queued, or was handled.
Requested(a) == \E k \in 1 .. Len(reqs) : reqs[k] = a
Handled(a) == \E i \in 1 .. answers : answer[i].for = a

\* Each access has an event of its own.
EventsDiffer ==
  /\ event \in [1 .. MaxAccesses -> Nat]
  /\ \A a \in 1 .. accesses : event[a] \in 1 .. accepted
  /\ \A a, b \in 1 .. accesses : event[a] = event[b] => a = b

\* The socket holds what the client has not read.
SocketHolds ==
  /\ seen \in 0 .. Len(sent)
  /\ room + Len(sent) = Room + seen

\* The client answers the accesses whose event it has read, each of them once.
RequestsMatch ==
  /\ reqs \in Seq(Nat)
  /\ \A k \in 1 .. Len(reqs) : reqs[k] # 0 =>
       reqs[k] \in 1 .. accesses /\ event[reqs[k]] <= seen /\ ~Handled(reqs[k])
  /\ \A j, k \in 1 .. Len(reqs) : reqs[j] = reqs[k] /\ reqs[j] # 0 => j = k

AnswersMatch ==
  /\ \A i \in 1 .. answers :
       answer[i].for \in 1 .. accesses /\ event[answer[i].for] <= seen /\ answer[i].st = 0
  /\ \A i, j \in 1 .. answers : answer[i].for = answer[j].for => i = j

ReadIsAnswered ==
  \A a \in 1 .. accesses : event[a] <= seen => Requested(a) \/ Handled(a)

\* The two halves of each task are at the same point.
TasksAgree ==
  /\ pc["main"] = "blocked" <=> main # "idle"
  /\ owes \in BOOLEAN
  /\ setter = "accepted" => owes
  /\ \A a \in 1 .. accesses : access[a].state # "failed"

\* The answer to the current access leaves a token for it, taken or refused.
AnswerWakes == main = "pend" /\ Handled(accesses) => RdvP!Tokens >= 1

\* A message that waits while the socket has room has its wake-up on the way.
RoomIsUsed ==
  rsp_mq # << >> /\ room # 0 => mq_ev # "none" \/ \E t \in Out!Tasks : Out!Draining(t)

PathInv ==
  /\ OutP!TypeOK /\ OutP!Fifo
  /\ RdvP!IInv
  /\ EventsDiffer
  /\ SocketHolds
  /\ RequestsMatch
  /\ AnswersMatch
  /\ ReadIsAnswered
  /\ TasksAgree
  /\ AnswerWakes
  /\ RoomIsUsed
  /\ HeardUntilTimeout

-----------------------------------------------------------------------------
(* What the two halves say of the state.                                   *)

\* The constants of the halves are as their proofs assume.
LEMMA Assumed == OutP!RspAssumption /\ RdvP!AccessAssumption
BY PathAssumption DEF OutP!RspAssumption, RdvP!AccessAssumption, RdvP!None

LEMMA OutFacts ==
  ASSUME OutP!TypeOK, OutP!Fifo
  PROVE  /\ accepted \in Nat /\ room \in 0 .. Room /\ Room \in Nat \ {0}
         /\ sent \in Seq(Nat \ {0}) /\ Len(sent) \in 0 .. accepted
         /\ \A i \in 1 .. Len(sent) : sent[i] = i
         /\ pc \in [Out!Tasks -> OutP!PCs]
         /\ \A t \in Out!Tasks : pc[t] = "putback" => room = 0
<1>1. /\ accepted \in Nat /\ Len(sent) \in Nat /\ Len(rsp_mq) \in Nat
      /\ sent \in Seq(Nat \ {0}) /\ room \in 0 .. Room
  BY Assumed, OutP!SeqFacts DEF OutP!TypeOK
<1>2. OutP!InHand \in {0, 1}
  BY DEF OutP!InHand
<1>3. Len(sent) + OutP!InHand + Len(rsp_mq) = accepted
  BY DEF OutP!Fifo
<1>4. Len(sent) \in 0 .. accepted
  BY <1>1, <1>2, <1>3
<1>5. Out!Tasks = OutP!Tasks
  BY DEF Out!Tasks, OutP!Tasks
<1> QED
  BY <1>1, <1>4, <1>5, PathAssumption DEF OutP!TypeOK, OutP!Fifo

LEMMA RdvFacts ==
  ASSUME RdvP!IInv
  PROVE  /\ accesses \in 0 .. MaxAccesses /\ answers \in 0 .. MaxAccesses
         /\ MaxAccesses \in Nat /\ sem \in Nat
         /\ access \in [1 .. MaxAccesses -> RdvP!AccessRecord]
         /\ answer \in [1 .. MaxAccesses -> RdvP!AnswerRecord]
         /\ \A a \in 1 .. accesses : access[a].ans \in 0 .. answers
         /\ main # "idle" => accesses > 0
<1>1. /\ accesses \in 0 .. MaxAccesses /\ answers \in 0 .. MaxAccesses
      /\ MaxAccesses \in Nat /\ sem \in Nat
      /\ access \in [1 .. MaxAccesses -> RdvP!AccessRecord]
      /\ answer \in [1 .. MaxAccesses -> RdvP!AnswerRecord]
  BY PathAssumption DEF RdvP!IInv, RdvP!TypeOK, RdvP!Accesses, RdvP!Answers
<1>2. ASSUME NEW a \in 1 .. accesses PROVE access[a].ans \in 0 .. answers
  <2>1. a \in 1 .. MaxAccesses
    BY <1>1
  <2>2. access[a].ans \in 0 .. MaxAccesses
    BY <1>1, <2>1 DEF RdvP!AccessRecord
  <2>3. access[a].ans # 0 => access[a].ans <= answers
    BY <2>1 DEF RdvP!IInv, RdvP!OwnerFresh, RdvP!Accesses
  <2> QED
    BY <1>1, <2>2, <2>3
<1> QED
  BY <1>1, <1>2 DEF RdvP!IInv, RdvP!CurrentAccess

\* The client of the composition answers each access once, and never with 255.
LEMMA ClientIsFair ==
  ASSUME PathInv
  PROVE  RdvP!OneAnswerEach
BY DEF PathInv, AnswersMatch, RdvP!OneAnswerEach, RdvP!None

-----------------------------------------------------------------------------
(* Every step is a step of each half.                                      *)

LEMMA OutStep ==
  ASSUME PathInv, [Next]_vars
  PROVE  OutP!TypeOK' /\ OutP!Fifo'
<1>0. OutP!TypeOK /\ OutP!Fifo
  BY DEF PathInv
<1>1. [OutP!Next]_(OutP!vars) => OutP!TypeOK' /\ OutP!Fifo'
  <2>1. ASSUME [OutP!Next]_(OutP!vars) PROVE OutP!TypeOK'
    BY <1>0, <2>1, Assumed, OutP!TypeStep
  <2>2. ASSUME [OutP!Next]_(OutP!vars) PROVE OutP!Fifo'
    BY <1>0, <2>1, <2>2, Assumed, OutP!FifoStep
  <2> QED
    BY <2>1, <2>2
<1>2. \A t \in Out!Tasks : /\ t \in OutP!Tasks
                           /\ Out!MayRun(t) <=> OutP!MayRun(t)
                           /\ Out!Draining(t) <=> OutP!Draining(t)
                           /\ Out!EvqOf(t) = OutP!EvqOf(t)
  BY DEF Out!Tasks, OutP!Tasks, Out!MayRun, OutP!MayRun, Out!MainReady, OutP!MainReady,
         Out!Draining, OutP!Draining, Out!EvqOf, OutP!EvqOf
<1>3. Out!EnqueueRsp => OutP!EnqueueRsp
  BY DEF Out!EnqueueRsp, OutP!EnqueueRsp, Out!Post, OutP!Post, Out!EventPut, OutP!EventPut
<1>4. "main" \in Out!Tasks /\ "blehostd" \in Out!Tasks
  BY DEF Out!Tasks
<1>5. CASE Access
  BY <1>1, <1>2, <1>3, <1>4, <1>5 DEF Access, Out!BlockMain, OutP!BlockMain, OutP!Next
<1>6. ASSUME NEW t \in Out!Tasks, Out!Produce(t) PROVE OutP!Next
  BY <1>2, <1>3, <1>6 DEF Out!Produce, OutP!Produce, OutP!Next
<1>7. CASE OtherEvt \/ Respond
  BY <1>1, <1>4, <1>6, <1>7 DEF OtherEvt, Respond
<1>8. CASE Return
  BY <1>1, <1>2, <1>4, <1>8 DEF Return, Out!UnblockMain, OutP!UnblockMain, OutP!Next
<1>9. CASE Connect
  BY <1>1, <1>2, <1>4, <1>9 DEF Connect, Out!Connect, OutP!Connect, OutP!Next
<1>10. ASSUME NEW t \in Out!Tasks, Drain(t) PROVE OutP!Next
  <2>1. OutP!Drain(t)
    BY <1>2, <1>10
       DEF Drain, Out!Drain, OutP!Drain, Out!RunEvent, OutP!RunEvent, Out!Get, OutP!Get,
           Out!GetNothing, OutP!GetNothing, Out!SendOk, OutP!SendOk, Out!SendAgain,
           OutP!SendAgain, Out!PutBack, OutP!PutBack, Out!Rest, OutP!Rest,
           Out!WithAgain, OutP!WithAgain, Out!SocketTakes, OutP!SocketTakes
  <2> QED
    BY <1>2, <2>1 DEF OutP!Next
<1>11. CASE ClientReads
  <2>1. OutP!SocketWritable
    BY <1>2, <1>11
       DEF ClientReads, Out!SocketWritable, OutP!SocketWritable, Out!PostWritable,
           OutP!PostWritable, Out!EventPut, OutP!EventPut, Out!SocketMayRun,
           OutP!SocketMayRun, Out!Tasks, OutP!Tasks
  <2> QED
    BY <1>1, <2>1 DEF OutP!Next
<1>12. CASE ClientReadsUnnoticed
  <2>1. /\ \A t \in OutP!Tasks : pc[t] # "putback"
        /\ room' \in 0 .. Room
        /\ UNCHANGED <<rsp_mq, mq_ev, pc, om, sent, accepted>>
    BY <1>12, OutFacts, <1>0, PathAssumption
       DEF ClientReadsUnnoticed, Out!SocketMayRun, Out!Draining, Out!Tasks, OutP!Tasks
  <2>2. OutP!TypeOK'
    BY <1>0, <2>1 DEF OutP!TypeOK
  <2>3. OutP!Fifo'
    BY <1>0, <2>1 DEF OutP!Fifo, OutP!InHand, OutP!Draining
  <2> QED
    BY <2>2, <2>3
<1>13. CASE UNCHANGED out
  BY <1>1, <1>13 DEF out, OutP!vars
<1> QED
  BY <1>1, <1>5, <1>7, <1>8, <1>9, <1>10, <1>11, <1>12, <1>13
     DEF Next, Wake, Timeout, HandleReq, Release, ClientAsks, vars, out

LEMMA RdvStep ==
  ASSUME PathInv, [Next]_vars
  PROVE  RdvP!IInv'
<1>0. RdvP!IInv
  BY DEF PathInv
<1>1. [RdvP!Next]_(RdvP!vars) => RdvP!IInv'
  BY <1>0, Assumed, RdvP!Inductive
<1>2. CASE Access
  <2>1. RdvP!StartAccess("write")
    BY <1>2 DEF Access, Rdv!StartAccess, RdvP!StartAccess, Rdv!Entry, RdvP!Entry,
                Rdv!client, RdvP!client
  <2> QED
    BY <1>1, <2>1 DEF RdvP!Next, RdvP!Ops
<1>3. CASE Wake
  <2>1. RdvP!PendOk
    BY <1>3 DEF Wake, Rdv!PendOk, RdvP!PendOk, Rdv!ResetAndReturn, RdvP!ResetAndReturn,
                Rdv!StatusAfterRead, RdvP!StatusAfterRead, Rdv!None, RdvP!None,
                Rdv!client, RdvP!client
  <2> QED
    BY <1>1, <2>1 DEF RdvP!Next
<1>4. CASE Timeout
  <2>1. RdvP!PendTimeout
    BY <1>4 DEF Timeout, Rdv!PendTimeout, RdvP!PendTimeout, Rdv!ResetAndReturn,
                RdvP!ResetAndReturn, Rdv!StatusAfterRead, RdvP!StatusAfterRead,
                Rdv!None, RdvP!None, Rdv!Unlikely, RdvP!Unlikely, Rdv!client, RdvP!client
  <2> QED
    BY <1>1, <2>1 DEF RdvP!Next
<1>5. CASE Return
  <2>1. RdvP!FinishAccess
    BY <1>5 DEF Return, Rdv!FinishAccess, RdvP!FinishAccess, Rdv!ReturnCodes,
                RdvP!ReturnCodes, Rdv!InsufficientRes, RdvP!InsufficientRes,
                Rdv!client, RdvP!client
  <2> QED
    BY <1>1, <2>1 DEF RdvP!Next
<1>6. CASE Release
  <2>1. RdvP!ReleaseSem
    BY <1>6 DEF Release, Rdv!ReleaseSem, RdvP!ReleaseSem, Rdv!MainBlocked,
                RdvP!MainBlocked, Rdv!client, RdvP!client, Rdv!waiter, RdvP!waiter
  <2> QED
    BY <1>1, <2>1 DEF RdvP!Next
<1>7. CASE HandleReq /\ ~UNCHANGED rendezvous
  <2> DEFINE b == Head(reqs)
  <2>1. b # 0 /\ (Rdv!SetResult(b, 0, TRUE) \/ Rdv!RejectResult(b, 0, TRUE))
    BY <1>7 DEF HandleReq
  <2>2. RdvP!SetResult(b, 0, TRUE) \/ RdvP!RejectResult(b, 0, TRUE)
    BY <2>1 DEF Rdv!SetResult, RdvP!SetResult, Rdv!RejectResult, RdvP!RejectResult,
                Rdv!MainBlocked, RdvP!MainBlocked, Rdv!SlotFree, RdvP!SlotFree,
                Rdv!Store, RdvP!Store, Rdv!Lens, RdvP!Lens, Rdv!Clip, RdvP!Clip,
                Rdv!None, RdvP!None, Rdv!waiter, RdvP!waiter
  <2>3. b \in RdvP!Announced
    <3>1. reqs \in Seq(Nat) /\ reqs # << >>
      BY <1>7 DEF HandleReq, PathInv, RequestsMatch
    <3>2. 1 \in 1 .. Len(reqs) /\ b = reqs[1]
      BY <3>1
    <3>3. b \in 1 .. accesses
      BY <2>1, <3>2 DEF PathInv, RequestsMatch
    <3> QED
      BY <3>3 DEF PathInv, TasksAgree, RdvP!Announced
  <2>4. PICK for \in RdvP!Announced : for = b
    BY <2>3
  <2>5. RdvP!SetResult(for, 0, TRUE) \/ RdvP!RejectResult(for, 0, TRUE)
    BY <2>2, <2>4
  <2> QED
    BY <1>1, <2>5 DEF RdvP!Next
<1>8. CASE UNCHANGED rendezvous
  BY <1>1, <1>8 DEF rendezvous, RdvP!vars, RdvP!waiter, RdvP!client
<1> QED
  BY <1>2, <1>3, <1>4, <1>5, <1>6, <1>7, <1>8
     DEF Next, OtherEvt, Connect, Respond, Drain, ClientReads, ClientReadsUnnoticed,
         ClientTakes, ClientAsks, vars, rendezvous

-----------------------------------------------------------------------------
(* What a step leaves alone.                                               *)

LEMMA HistoryKept ==
  ASSUME PathInv, accepted' \in Nat, accepted' >= accepted,
         UNCHANGED <<event, seen, reqs, accesses, answers, answer>>
  PROVE  EventsDiffer' /\ RequestsMatch' /\ AnswersMatch' /\ ReadIsAnswered'
<1>1. accepted \in Nat
  BY OutFacts DEF PathInv
<1>2. EventsDiffer'
  BY <1>1 DEF PathInv, EventsDiffer
<1>3. (\A a : Requested(a)' <=> Requested(a)) /\ (\A a : Handled(a)' <=> Handled(a))
  BY DEF Requested, Handled
<1>4. RequestsMatch' /\ AnswersMatch' /\ ReadIsAnswered'
  BY <1>3 DEF PathInv, RequestsMatch, AnswersMatch, ReadIsAnswered, Requested, Handled
<1> QED
  BY <1>2, <1>4

LEMMA RendezvousKept ==
  ASSUME PathInv, UNCHANGED rendezvous
  PROVE  AnswerWakes' /\ HeardUntilTimeout'
BY DEF PathInv, rendezvous, AnswerWakes, HeardUntilTimeout, TimedOut, Handled, RdvP!Tokens

LEMMA QueueKept ==
  ASSUME PathInv, UNCHANGED out, UNCHANGED seen
  PROVE  SocketHolds' /\ RoomIsUsed'
BY DEF PathInv, out, SocketHolds, RoomIsUsed, Out!Draining

-----------------------------------------------------------------------------
(* The output queue moves.                                                 *)

\* A message that is queued has its event posted.
LEMMA EnqueueStep ==
  ASSUME PathInv, Out!EnqueueRsp, UNCHANGED <<room, sent, seen>>
  PROVE  /\ accepted' = accepted + 1 /\ accepted \in Nat
         /\ SocketHolds' /\ RoomIsUsed'
<1>1. accepted \in Nat
  BY OutFacts DEF PathInv
<1>2. mq_ev' # "none"
  BY DEF Out!EnqueueRsp, Out!Post, Out!EventPut
<1> QED
  BY <1>1, <1>2 DEF PathInv, Out!EnqueueRsp, SocketHolds, RoomIsUsed

LEMMA DrainStep ==
  ASSUME PathInv, NEW t \in Out!Tasks, Out!Drain(t), UNCHANGED seen
  PROVE  /\ accepted' = accepted
         /\ SocketHolds' /\ RoomIsUsed'
         /\ pc'["main"] = "blocked" <=> pc["main"] = "blocked"
<1>1. /\ accepted \in Nat /\ room \in 0 .. Room /\ Room \in Nat
      /\ sent \in Seq(Nat \ {0}) /\ Len(sent) \in Nat
      /\ pc \in [Out!Tasks -> OutP!PCs]
      /\ pc[t] = "putback" => room = 0
      /\ om[t] \in Nat /\ (pc[t] = "send" => om[t] # 0)
  BY OutFacts DEF PathInv, OutP!TypeOK, Out!Tasks, OutP!Tasks
<1>2. seen \in Nat /\ seen <= Len(sent) /\ room + Len(sent) = Room + seen
  BY <1>1 DEF PathInv, SocketHolds
<1>3. CASE Out!RunEvent(t)
  BY <1>1, <1>3 DEF PathInv, Out!RunEvent, SocketHolds, RoomIsUsed, Out!Draining
<1>4. CASE Out!Get(t)
  BY <1>1, <1>4 DEF PathInv, Out!Get, SocketHolds, RoomIsUsed, Out!Draining
<1>5. CASE Out!GetNothing(t)
  BY <1>1, <1>5 DEF PathInv, Out!GetNothing, SocketHolds, RoomIsUsed
<1>6. CASE Out!SendOk(t)
  <2>1. /\ room' = room - 1 /\ room > 0 /\ sent' = Append(sent, om[t])
        /\ pc' = [pc EXCEPT ![t] = "get"] /\ pc[t] = "send" /\ accepted' = accepted
    BY <1>1, <1>6 DEF Out!SendOk, Out!SocketTakes
  <2>2. Len(sent') = Len(sent) + 1
    BY <1>1, <2>1
  <2>3. SocketHolds'
    BY <1>1, <1>2, <2>1, <2>2 DEF SocketHolds
  <2> QED
    BY <1>1, <2>1, <2>3 DEF RoomIsUsed, Out!Draining
<1>7. CASE Out!SendAgain(t)
  BY <1>1, <1>7 DEF PathInv, Out!SendAgain, SocketHolds, RoomIsUsed, Out!Draining
<1>8. CASE Out!PutBack(t)
  BY <1>1, <1>8 DEF PathInv, Out!PutBack, SocketHolds, RoomIsUsed
<1> QED
  BY <1>3, <1>4, <1>5, <1>6, <1>7, <1>8 DEF Out!Drain

\* Connect, OtherEvt, Respond and Drain.
LEMMA QueueMoves ==
  ASSUME PathInv, OutP!TypeOK', OutP!Fifo', RdvP!IInv',
         Connect \/ OtherEvt \/ Respond \/ \E t \in Out!Tasks : Drain(t)
  PROVE  PathInv'
<1>0. UNCHANGED <<rendezvous, event, seen, reqs>>
  BY DEF Connect, OtherEvt, Respond, Drain, ends
<1>1. /\ accepted \in Nat
      /\ pc \in [Out!Tasks -> OutP!PCs]
      /\ "main" \in Out!Tasks /\ "blehostd" \in Out!Tasks
  BY OutFacts DEF PathInv, Out!Tasks
<1>2. /\ accepted' \in Nat /\ accepted' >= accepted /\ SocketHolds' /\ RoomIsUsed'
      /\ pc'["main"] = "blocked" <=> pc["main"] = "blocked"
  <2>1. CASE OtherEvt \/ Respond
    <3>1. Out!EnqueueRsp /\ UNCHANGED <<room, sent, pc>>
      BY <2>1 DEF OtherEvt, Respond, Out!Produce
    <3> QED
      BY <1>0, <1>1, <3>1, EnqueueStep
  <2>2. CASE Connect
    <3>1. /\ UNCHANGED <<rsp_mq, mq_ev, room, sent, accepted>>
          /\ pc["blehostd"] = "connect" /\ pc' = [pc EXCEPT !["blehostd"] = "idle"]
      BY <2>2 DEF Connect, Out!Connect
    <3> QED
      BY <1>0, <1>1, <3>1
         DEF PathInv, SocketHolds, RoomIsUsed, Out!Draining, Out!Tasks
  <2>3. ASSUME NEW t \in Out!Tasks, Drain(t)
        PROVE  /\ accepted' = accepted /\ SocketHolds' /\ RoomIsUsed'
               /\ pc'["main"] = "blocked" <=> pc["main"] = "blocked"
    BY <1>0, <2>3, DrainStep DEF Drain
  <2> QED
    BY <1>1, <2>1, <2>2, <2>3
<1>3. EventsDiffer' /\ RequestsMatch' /\ AnswersMatch' /\ ReadIsAnswered'
  BY <1>0, <1>2, HistoryKept DEF rendezvous
<1>4. AnswerWakes' /\ HeardUntilTimeout'
  BY <1>0, RendezvousKept
<1>5. owes' \in BOOLEAN /\ (setter = "accepted" => owes')
  BY DEF Connect, OtherEvt, Respond, Drain, ends, PathInv, TasksAgree
<1>6. TasksAgree'
  BY <1>0, <1>2, <1>5 DEF PathInv, TasksAgree, rendezvous
<1> QED
  BY <1>2, <1>3, <1>4, <1>6 DEF PathInv

-----------------------------------------------------------------------------
(* The main task.                                                          *)

LEMMA AccessStep ==
  ASSUME PathInv, OutP!TypeOK', OutP!Fifo', RdvP!IInv', Access
  PROVE  PathInv'
<1> DEFINE n == accesses + 1
<1>1. /\ main = "idle" /\ main' = "pend" /\ n \in 1 .. MaxAccesses /\ accesses' = n
      /\ access' = [access EXCEPT ![n] = Rdv!Entry("write", "wait", 0)]
      /\ UNCHANGED <<sem, att_status, value, setter, answers, answer, owner>>
      /\ Out!EnqueueRsp /\ pc' = [pc EXCEPT !["main"] = "blocked"]
      /\ UNCHANGED <<om, room, sent>>
      /\ event' = [event EXCEPT ![n] = accepted']
      /\ UNCHANGED <<seen, reqs, owes, others>>
  BY RdvFacts DEF PathInv, Access, Rdv!StartAccess, Out!BlockMain, Rdv!client
<1>2. /\ accesses \in Nat /\ n \in Nat /\ n > accesses
      /\ access \in [1 .. MaxAccesses -> RdvP!AccessRecord]
      /\ event \in [1 .. MaxAccesses -> Nat]
      /\ pc \in [Out!Tasks -> OutP!PCs] /\ "main" \in Out!Tasks
      /\ seen \in Nat /\ seen <= accepted
  BY RdvFacts, OutFacts DEF PathInv, EventsDiffer, SocketHolds, Out!Tasks
<1>3. /\ accepted' = accepted + 1 /\ accepted \in Nat /\ SocketHolds' /\ RoomIsUsed'
  BY <1>1, EnqueueStep
<1>4. /\ access'[n].state = "wait"
      /\ \A a \in 1 .. accesses : a \in 1 .. MaxAccesses /\ access'[a] = access[a]
      /\ event'[n] = accepted + 1
      /\ \A a \in 1 .. accesses : event'[a] = event[a] /\ event[a] \in 1 .. accepted
      /\ \A a \in 1 .. n : a = n \/ a \in 1 .. accesses
  <2>1. access'[n].state = "wait"
    BY <1>1, <1>2 DEF Rdv!Entry
  <2>2. MaxAccesses \in Nat /\ accesses < n /\ n <= MaxAccesses
    BY <1>1, <1>2, PathAssumption
  <2>3. \A a \in 1 .. accesses : a \in 1 .. MaxAccesses /\ a # n
    BY <1>2, <2>2
  <2>4. \A a \in 1 .. accesses : access'[a] = access[a] /\ event'[a] = event[a]
    BY <1>1, <1>2, <2>3
  <2>5. event'[n] = accepted + 1
    BY <1>1, <1>2, <1>3
  <2>6. \A a \in 1 .. accesses : event[a] \in 1 .. accepted
    BY DEF PathInv, EventsDiffer
  <2>7. \A a \in 1 .. n : a = n \/ a \in 1 .. accesses
    BY <1>2
  <2> QED
    BY <2>1, <2>3, <2>4, <2>5, <2>6, <2>7
<1> HIDE DEF n
<1>5. EventsDiffer'
  BY <1>1, <1>2, <1>3, <1>4, SMTT(30) DEF PathInv, EventsDiffer
<1>6. (\A a : Requested(a)' <=> Requested(a)) /\ (\A a : Handled(a)' <=> Handled(a))
  BY <1>1 DEF Requested, Handled
<1>7. \A a \in 1 .. accesses : a \in 1 .. n
  BY <1>2
<1>8. RequestsMatch'
  BY <1>1, <1>4, <1>6, <1>7 DEF PathInv, RequestsMatch
<1>9. AnswersMatch'
  BY <1>1, <1>4, <1>7 DEF PathInv, AnswersMatch
<1>10. ~(event'[n] <= seen)
  BY <1>2, <1>3, <1>4
<1>11. ReadIsAnswered'
  BY <1>1, <1>4, <1>6, <1>10 DEF PathInv, ReadIsAnswered
<1>12. ~Handled(n)
  BY <1>2 DEF Handled, PathInv, AnswersMatch
<1>13. AnswerWakes'
  BY <1>1, <1>6, <1>12 DEF AnswerWakes
<1>14. TasksAgree'
  BY <1>1, <1>2, <1>4 DEF PathInv, TasksAgree
<1>15. HeardUntilTimeout'
  BY <1>1, <1>2, <1>4, <1>7, SMTT(30) DEF PathInv, HeardUntilTimeout, TimedOut
<1> QED
  BY <1>3, <1>5, <1>8, <1>9, <1>11, <1>13, <1>14, <1>15 DEF PathInv

\* The end of a wait.  With a token it is the access's own answer that is taken,
\* as long as no access has timed out: the rendezvous serves a polite client.
LEMMA WaitEnds ==
  ASSUME PathInv, OutP!TypeOK', OutP!Fifo', RdvP!IInv',
         Wake \/ Timeout
  PROVE  PathInv'
<1> DEFINE n == accesses
<1>1. PICK state \in {"answered", "timeout"},
           st \in {att_status, Rdv!Unlikely}, ans \in {0, owner} :
        /\ main = "pend" /\ main' = "copy"
        /\ access' = [access EXCEPT ![n].state = state, ![n].st = st, ![n].ans = ans]
        /\ UNCHANGED <<setter, accesses, answers, answer, owner>>
        /\ UNCHANGED <<out, ends>>
  <2>1. CASE Wake
    <3>1. Rdv!ResetAndReturn("answered", att_status,
                             IF att_status = Rdv!None THEN 0 ELSE owner)
          /\ main = "pend" /\ UNCHANGED <<out, ends>>
      BY <2>1 DEF Wake, Rdv!PendOk
    <3> QED
      BY <3>1 DEF Rdv!ResetAndReturn, Rdv!client
  <2>2. CASE Timeout
    <3>1. Rdv!ResetAndReturn("timeout", Rdv!Unlikely, 0)
          /\ main = "pend" /\ UNCHANGED <<out, ends>>
      BY <2>2 DEF Timeout, Rdv!PendTimeout
    <3> QED
      BY <3>1 DEF Rdv!ResetAndReturn, Rdv!client
  <2> QED
    BY <2>1, <2>2
<1>2. /\ n \in 1 .. MaxAccesses /\ n \in Nat /\ MaxAccesses \in Nat
      /\ access \in [1 .. MaxAccesses -> RdvP!AccessRecord]
      /\ accepted \in Nat
  BY <1>1, RdvFacts, OutFacts DEF PathInv
<1>3. /\ access'[n].state = state
      /\ \A a \in 1 .. n : a # n => access'[a] = access[a]
  <2>1. access[n] \in RdvP!AccessRecord /\ \A a \in 1 .. n : a \in 1 .. MaxAccesses
    BY <1>2
  <2> QED
    BY <1>1, <1>2, <2>1 DEF RdvP!AccessRecord
<1>4. EventsDiffer' /\ RequestsMatch' /\ AnswersMatch' /\ ReadIsAnswered'
  BY <1>1, <1>2, HistoryKept DEF out, ends
<1>5. SocketHolds' /\ RoomIsUsed'
  BY <1>1, QueueKept DEF ends
<1>6. AnswerWakes'
  BY <1>1 DEF AnswerWakes
<1>7. TasksAgree'
  BY <1>1, <1>2, <1>3 DEF PathInv, TasksAgree, out, ends
<1>8. (\A b \in 1 .. n : access'[b].state # "timeout") => RdvP!Polite'
  BY <1>1, ClientIsFair DEF RdvP!Polite, RdvP!OneAnswerEach
<1>9. /\ access'[n].state = "answered"
      /\ \A b \in 1 .. n : access'[b].state # "timeout"
      => access'[n].ans # 0 /\ answer[access'[n].ans].for = n
  <2>1. RdvP!PoliteClientIsHeard' /\ n \in 1 .. n /\ accesses' = n /\ answer' = answer
    BY <1>1, <1>2 DEF RdvP!IInv
  <2> QED
    BY <1>8, <2>1 DEF RdvP!PoliteClientIsHeard
<1>10. \A a \in 1 .. n : a # n => \A b \in 1 .. a : b \in 1 .. n /\ b # n
  BY <1>2
<1>11. HeardUntilTimeout'
  <2>1. ASSUME NEW a \in 1 .. n, access'[a].state = "answered",
               \A b \in 1 .. a : access'[b].state # "timeout"
        PROVE  access'[a].ans # 0 /\ answer[access'[a].ans].for = a
    <3>1. CASE a = n
      BY <1>9, <2>1, <3>1
    <3>2. CASE a # n
      BY <1>3, <1>10, <2>1, <3>2 DEF PathInv, HeardUntilTimeout, TimedOut
    <3> QED
      BY <3>1, <3>2
  <2>2. ASSUME NEW i \in 1 .. answers, ~answer[i].ok
        PROVE  \E a \in 1 .. n : access'[a].state = "timeout"
    <3>1. PICK a \in 1 .. n : access[a].state = "timeout"
      BY <2>2 DEF PathInv, HeardUntilTimeout, TimedOut
    <3>2. a # n
      BY <1>1, <3>1 DEF PathInv, RdvP!IInv, RdvP!CurrentAccess
    <3> QED
      BY <1>3, <3>1, <3>2
  <2> QED
    BY <1>1, <2>1, <2>2 DEF HeardUntilTimeout, TimedOut
<1> QED
  BY <1>4, <1>5, <1>6, <1>7, <1>11 DEF PathInv

LEMMA ReturnStep ==
  ASSUME PathInv, OutP!TypeOK', OutP!Fifo', RdvP!IInv', Return
  PROVE  PathInv'
<1> DEFINE n == accesses
<1>1. PICK rc :
        /\ main = "copy" /\ main' = "idle"
        /\ access' = [access EXCEPT ![n].rc = rc, ![n].val = value.src]
        /\ pc' = [pc EXCEPT !["main"] = "idle"] /\ pc["main"] = "blocked"
        /\ UNCHANGED <<sem, att_status, value, setter, accesses, answers, answer, owner>>
        /\ UNCHANGED <<rsp_mq, mq_ev, om, room, sent, accepted>>
        /\ UNCHANGED ends
  BY DEF Return, Rdv!FinishAccess, Rdv!client, Out!UnblockMain
<1>2. /\ n \in 1 .. MaxAccesses /\ n \in Nat /\ MaxAccesses \in Nat
      /\ access \in [1 .. MaxAccesses -> RdvP!AccessRecord]
      /\ accepted \in Nat
      /\ pc \in [Out!Tasks -> OutP!PCs] /\ "main" \in Out!Tasks
  BY <1>1, RdvFacts, OutFacts DEF PathInv, Out!Tasks
<1>3. \A a \in 1 .. n : access'[a].state = access[a].state /\ access'[a].ans = access[a].ans
  <2>1. \A a \in 1 .. n : a \in 1 .. MaxAccesses /\ access[a] \in RdvP!AccessRecord
    BY <1>2
  <2> QED
    BY <1>1, <1>2, <2>1 DEF RdvP!AccessRecord
<1>4. EventsDiffer' /\ RequestsMatch' /\ AnswersMatch' /\ ReadIsAnswered'
  BY <1>1, <1>2, HistoryKept DEF ends
<1>5. SocketHolds' /\ RoomIsUsed'
  BY <1>1, <1>2 DEF PathInv, SocketHolds, RoomIsUsed, Out!Draining, Out!Tasks, ends
<1>6. AnswerWakes'
  BY <1>1 DEF AnswerWakes
<1>7. TasksAgree'
  BY <1>1, <1>2, <1>3 DEF PathInv, TasksAgree, ends
<1>8. \A a \in 1 .. n : \A b \in 1 .. a : b \in 1 .. n
  BY <1>2
<1>9. HeardUntilTimeout'
  <2>1. accesses' = n /\ answers' = answers /\ answer' = answer
    BY <1>1
  <2>2. HeardUntilTimeout
    BY DEF PathInv
  <2> QED
    BY <1>3, <1>8, <2>1, <2>2 DEF HeardUntilTimeout, TimedOut
<1> QED
  BY <1>4, <1>5, <1>6, <1>7, <1>9 DEF PathInv

-----------------------------------------------------------------------------
(* The blehostd task.                                                      *)

LEMMA ReleaseStep ==
  ASSUME PathInv, OutP!TypeOK', OutP!Fifo', RdvP!IInv', Release
  PROVE  PathInv'
<1>1. /\ setter = "accepted" /\ setter' = "idle" /\ sem' = sem + 1
      /\ UNCHANGED <<main, accesses, access, answers, answer>>
      /\ UNCHANGED <<out, ends>>
  BY DEF Release, Rdv!ReleaseSem, Rdv!waiter, Rdv!client
<1>2. accepted \in Nat /\ sem \in Nat
  BY OutFacts, RdvFacts DEF PathInv
<1>3. EventsDiffer' /\ RequestsMatch' /\ AnswersMatch' /\ ReadIsAnswered'
  BY <1>1, <1>2, HistoryKept DEF out, ends
<1>4. SocketHolds' /\ RoomIsUsed'
  BY <1>1, QueueKept DEF ends
<1>5. AnswerWakes'
  BY <1>1, <1>2 DEF PathInv, AnswerWakes, Handled, RdvP!Tokens
<1>6. TasksAgree'
  BY <1>1 DEF PathInv, TasksAgree, out, ends
<1>7. HeardUntilTimeout'
  BY <1>1 DEF PathInv, HeardUntilTimeout, TimedOut
<1> QED
  BY <1>3, <1>4, <1>5, <1>6, <1>7 DEF PathInv

\* As long as no access has timed out, a status that is stored is the current
\* access's, and an access that is over was decided by its own answer: a request
\* for an access without an answer finds the slot free.
LEMMA SlotIsFree ==
  ASSUME PathInv, NEW b \in 1 .. accesses, ~Handled(b), main # "copy",
         \A a \in 1 .. accesses : ~TimedOut(a)
  PROVE  att_status = RdvP!None
<1>1. RdvP!Polite
  BY ClientIsFair DEF RdvP!Polite, TimedOut
<1>2. RdvP!NothingLeftOver /\ RdvP!PoliteClientIsHeard /\ RdvP!OwnerFresh
  BY DEF PathInv, RdvP!IInv
<1> SUFFICES ASSUME att_status # RdvP!None PROVE FALSE
  OBVIOUS
<1>3. main = "pend" /\ answer[owner].for = accesses /\ owner \in 1 .. answers
  BY <1>1, <1>2, RdvFacts DEF RdvP!NothingLeftOver, PathInv, RdvP!IInv, RdvP!TypeOK,
                              RdvP!OwnerFresh
<1>4. b # accesses
  BY <1>3 DEF Handled
<1>5. access[b].state = "answered"
  <2>1. b \in 1 .. MaxAccesses
    BY RdvFacts DEF PathInv
  <2>2. access[b].state \in {"none", "wait", "answered", "timeout", "failed"}
    BY <2>1, RdvFacts DEF PathInv, RdvP!AccessRecord
  <2>3. access[b].state # "none" /\ access[b].state # "wait"
    BY <1>4, <2>1 DEF PathInv, RdvP!IInv, RdvP!CurrentAccess, RdvP!Accesses
  <2> QED
    BY <2>2, <2>3 DEF PathInv, TasksAgree, TimedOut
<1>6. access[b].ans # 0 /\ answer[access[b].ans].for = b
  BY <1>1, <1>2, <1>5 DEF RdvP!PoliteClientIsHeard
<1>7. access[b].ans \in 1 .. answers
  BY <1>6, RdvFacts DEF PathInv
<1> QED
  BY <1>6, <1>7 DEF Handled

\* The request at the head of the queue is taken.
LEMMA RequestTaken ==
  ASSUME PathInv, reqs # << >>, reqs' = Tail(reqs)
  PROVE  /\ Len(reqs') \in Nat /\ Len(reqs) = Len(reqs') + 1 /\ reqs' \in Seq(Nat)
         /\ \A k \in 1 .. Len(reqs') : k + 1 \in 1 .. Len(reqs) /\ reqs'[k] = reqs[k + 1]
         /\ 1 \in 1 .. Len(reqs) /\ Head(reqs) = reqs[1] /\ Head(reqs) \in Nat
         /\ \A a : Requested(a) => Requested(a)' \/ a = Head(reqs)
<1>1. reqs \in Seq(Nat)
  BY DEF PathInv, RequestsMatch
<1>2. /\ Len(reqs') \in Nat /\ Len(reqs) = Len(reqs') + 1 /\ reqs' \in Seq(Nat)
      /\ \A k \in 1 .. Len(reqs') : reqs'[k] = reqs[k + 1]
      /\ Head(reqs) = reqs[1] /\ Head(reqs) \in Nat
  BY <1>1, HeadTailProperties, EmptySeq, LenProperties
<1>3. /\ \A k \in 1 .. Len(reqs') : k + 1 \in 1 .. Len(reqs)
      /\ 1 \in 1 .. Len(reqs)
  BY <1>2
<1>4. ASSUME NEW a, Requested(a), a # Head(reqs) PROVE Requested(a)'
  <2>1. PICK k \in 1 .. Len(reqs) : reqs[k] = a
    BY <1>4 DEF Requested
  <2>2. k # 1
    BY <1>2, <1>4, <2>1
  <2>3. k - 1 \in 1 .. Len(reqs') /\ (k - 1) + 1 = k
    BY <1>2, <2>2
  <2>4. reqs'[k - 1] = a
    BY <1>2, <2>1, <2>3
  <2> QED
    BY <2>3, <2>4 DEF Requested
<1> QED
  BY <1>2, <1>3, <1>4

LEMMA HandleStep ==
  ASSUME PathInv, OutP!TypeOK', OutP!Fifo', RdvP!IInv', HandleReq
  PROVE  PathInv'
<1> DEFINE b == Head(reqs)
           n == answers + 1
<1>1. /\ reqs # << >> /\ reqs' = Tail(reqs) /\ owes' = TRUE
      /\ UNCHANGED <<out, event, seen, others>>
      /\ UNCHANGED <<sem, main, accesses, access>>
  BY DEF HandleReq, rendezvous, Rdv!SetResult, Rdv!RejectResult, Rdv!waiter
<1>2. /\ Len(reqs') \in Nat /\ Len(reqs) = Len(reqs') + 1 /\ reqs' \in Seq(Nat)
      /\ \A k \in 1 .. Len(reqs') : k + 1 \in 1 .. Len(reqs) /\ reqs'[k] = reqs[k + 1]
      /\ 1 \in 1 .. Len(reqs) /\ b = reqs[1] /\ b \in Nat
      /\ \A a : Requested(a) => Requested(a)' \/ a = b
  BY <1>1, RequestTaken
<1>3. SocketHolds' /\ RoomIsUsed' /\ EventsDiffer'
  BY <1>1, QueueKept DEF PathInv, EventsDiffer, out
<1>4. \A j, k \in 1 .. Len(reqs') : reqs'[j] = reqs'[k] /\ reqs'[j] # 0 => j = k
  <2> TAKE j, k \in 1 .. Len(reqs')
  <2> HAVE reqs'[j] = reqs'[k] /\ reqs'[j] # 0
  <2>1. j + 1 \in 1 .. Len(reqs) /\ k + 1 \in 1 .. Len(reqs)
    BY <1>2
  <2>2. reqs[j + 1] = reqs[k + 1] /\ reqs[j + 1] # 0
    BY <1>2
  <2>3. j + 1 = k + 1
    BY <2>1, <2>2 DEF PathInv, RequestsMatch
  <2> QED
    BY <1>2, <2>3
<1>5. \A k \in 1 .. Len(reqs') : reqs'[k] # 0 =>
        reqs'[k] \in 1 .. accesses /\ event[reqs'[k]] <= seen /\ ~Handled(reqs'[k])
                                   /\ reqs'[k] # b
  BY <1>2, SMTT(30) DEF PathInv, RequestsMatch
<1>6. TasksAgree'
  BY <1>1 DEF PathInv, TasksAgree, out
<1>7. CASE b = 0
  <2>1. UNCHANGED rendezvous
    BY <1>1, <1>7 DEF HandleReq
  <2>2. /\ UNCHANGED <<answers, answer>>
        /\ \A a : Handled(a)' <=> Handled(a)
    BY <2>1 DEF rendezvous, Handled
  <2>3. AnswerWakes' /\ HeardUntilTimeout'
    BY <2>1, RendezvousKept
  <2>4. RequestsMatch'
    BY <1>1, <1>2, <1>4, <1>5, <2>2 DEF RequestsMatch
  <2>5. AnswersMatch'
    BY <1>1, <2>2 DEF PathInv, AnswersMatch
  <2>6. ReadIsAnswered'
    BY <1>1, <1>2, <1>7, <2>2 DEF PathInv, ReadIsAnswered
  <2> QED
    BY <1>3, <1>6, <2>3, <2>4, <2>5, <2>6 DEF PathInv
<1>8. CASE b # 0
  <2>0. PICK ok \in BOOLEAN :
          /\ n \in 1 .. MaxAccesses /\ answers' = n
          /\ answer' = [answer EXCEPT ![n] = [for |-> b, st |-> 0, data |-> TRUE, ok |-> ok]]
          /\ main # "copy" /\ setter = "idle"
          /\ ok => setter' = "accepted"
          /\ ~ok => UNCHANGED setter /\ att_status # RdvP!None
    <3>1. answers \in 0 .. MaxAccesses /\ MaxAccesses \in Nat
      BY RdvFacts DEF PathInv
    <3>2. CASE Rdv!SetResult(b, 0, TRUE)
      <4> WITNESS TRUE \in BOOLEAN
      <4> QED
        BY <3>1, <3>2 DEF Rdv!SetResult, Rdv!MainBlocked
    <3>3. CASE Rdv!RejectResult(b, 0, TRUE)
      <4> WITNESS FALSE \in BOOLEAN
      <4> QED
        BY <3>1, <3>3 DEF Rdv!RejectResult, Rdv!MainBlocked, Rdv!SlotFree, Rdv!None, RdvP!None
    <3> QED
      BY <1>8, <3>2, <3>3 DEF HandleReq
  <2>1. /\ answers \in Nat /\ n \in Nat /\ sem \in Nat
        /\ answer'[n].for = b /\ answer'[n].st = 0 /\ answer'[n].ok = ok
        /\ \A i \in 1 .. answers : i \in 1 .. n /\ answer'[i] = answer[i]
        /\ \A i \in 1 .. n : i = n \/ i \in 1 .. answers
    <3>1. answers \in Nat /\ sem \in Nat /\ answer \in [1 .. MaxAccesses -> RdvP!AnswerRecord]
          /\ MaxAccesses \in Nat
      BY RdvFacts DEF PathInv
    <3>2. \A i \in 1 .. answers : i \in 1 .. MaxAccesses /\ i # n /\ i \in 1 .. n
      BY <2>0, <3>1
    <3>3. \A i \in 1 .. n : i = n \/ i \in 1 .. answers
      BY <3>1
    <3> QED
      BY <2>0, <3>1, <3>2, <3>3
  <2>2. b \in 1 .. accesses /\ event[b] <= seen /\ ~Handled(b)
    BY <1>2, <1>8 DEF PathInv, RequestsMatch
  <2> HIDE DEF b, n
  <2>3. \A a : Handled(a)' <=> Handled(a) \/ a = b
    <3>1. n \in 1 .. n
      BY <2>0, <2>1
    <3> QED
      BY <2>0, <2>1, <3>1 DEF Handled
  <2>4. RequestsMatch'
    BY <1>1, <1>2, <1>4, <1>5, <2>3 DEF RequestsMatch
  <2>5. AnswersMatch'
    <3>1. ASSUME NEW i \in 1 .. n
          PROVE  /\ answer'[i].for \in 1 .. accesses /\ event[answer'[i].for] <= seen
                 /\ answer'[i].st = 0
      BY <2>1, <2>2, <3>1 DEF PathInv, AnswersMatch
    <3>2. ASSUME NEW i \in 1 .. n, NEW j \in 1 .. n, answer'[i].for = answer'[j].for
          PROVE  i = j
      BY <2>1, <2>2, <3>2 DEF PathInv, AnswersMatch, Handled
    <3> QED
      BY <1>1, <2>0, <3>1, <3>2 DEF AnswersMatch
  <2>6. ReadIsAnswered'
    BY <1>1, <1>2, <2>3 DEF PathInv, ReadIsAnswered
  <2>7. AnswerWakes'
    <3>1. ok => RdvP!Tokens' = sem + 1
      BY <1>1, <2>0 DEF RdvP!Tokens
    <3>2. ~ok => RdvP!Tokens' = RdvP!Tokens /\ RdvP!Tokens >= 1
      BY <1>1, <2>0 DEF RdvP!Tokens, PathInv, RdvP!IInv, RdvP!StatusHasToken
    <3> QED
      BY <2>1, <3>1, <3>2 DEF AnswerWakes
  <2>8. HeardUntilTimeout'
    <3>1. ASSUME NEW a \in 1 .. accesses, access[a].state = "answered",
                 \A c \in 1 .. a : ~TimedOut(c)
          PROVE  access[a].ans # 0 /\ answer'[access[a].ans].for = a
      <4>1. access[a].ans # 0 /\ answer[access[a].ans].for = a
        BY <3>1 DEF PathInv, HeardUntilTimeout
      <4>2. access[a].ans \in 1 .. answers
        BY <4>1, RdvFacts DEF PathInv
      <4> QED
        BY <2>1, <4>1, <4>2
    <3>2. ASSUME NEW i \in 1 .. n, ~answer'[i].ok
          PROVE  \E a \in 1 .. accesses : TimedOut(a)
      <4>1. CASE i \in 1 .. answers
        BY <2>1, <3>2, <4>1 DEF PathInv, HeardUntilTimeout
      <4>2. CASE i = n
        BY <2>0, <2>1, <2>2, <3>2, <4>2, SlotIsFree
      <4> QED
        BY <2>1, <4>1, <4>2
    <3>3. \A a : TimedOut(a)' <=> TimedOut(a)
      BY <1>1 DEF TimedOut
    <3> QED
      BY <1>1, <2>0, <3>1, <3>2, <3>3 DEF HeardUntilTimeout
  <2> QED
    BY <1>3, <1>6, <2>4, <2>5, <2>6, <2>7, <2>8 DEF PathInv
<1> QED
  BY <1>7, <1>8

-----------------------------------------------------------------------------
(* The client.                                                             *)

\* A request is put behind the others: one of another kind, or one for an access
\* that has no request yet.
LEMMA RequestAdded ==
  ASSUME PathInv, NEW a \in Nat, reqs' = Append(reqs, a), seen' \in Nat, seen' >= seen,
         UNCHANGED <<event, accesses, answers, answer>>,
         \/ a = 0
         \/ a \in 1 .. accesses /\ event[a] = seen' /\ ~Handled(a) /\ ~Requested(a)
  PROVE  /\ RequestsMatch' /\ AnswersMatch'
         /\ \A c : Requested(c)' <=> Requested(c) \/ c = a
         /\ \A c : Handled(c)' <=> Handled(c)
<1>1. reqs \in Seq(Nat)
  BY DEF PathInv, RequestsMatch
<1> DEFINE n == Len(reqs) + 1
<1>2. /\ reqs' \in Seq(Nat) /\ Len(reqs') = n /\ n \in Nat /\ Len(reqs) \in Nat
      /\ reqs'[n] = a
      /\ \A k \in 1 .. Len(reqs) : reqs'[k] = reqs[k]
  BY <1>1
<1>3. /\ \A k \in 1 .. n : k = n \/ k \in 1 .. Len(reqs)
      /\ n \in 1 .. n /\ \A k \in 1 .. Len(reqs) : k \in 1 .. n
  BY <1>2
<1> HIDE DEF n
<1>4. \A c : Handled(c)' <=> Handled(c)
  BY DEF Handled
<1>5. \A c : Requested(c)' <=> Requested(c) \/ c = a
  BY <1>2, <1>3 DEF Requested
<1>6. /\ \A c \in 1 .. accesses : event[c] \in Nat
      /\ seen \in Nat
  BY OutFacts DEF PathInv, EventsDiffer, SocketHolds
<1>7. \A c \in 1 .. accesses : event[c] <= seen => event[c] <= seen'
  BY <1>6
<1>8. ASSUME NEW k \in 1 .. n, reqs'[k] # 0
      PROVE  reqs'[k] \in 1 .. accesses /\ event[reqs'[k]] <= seen' /\ ~Handled(reqs'[k])
  BY <1>2, <1>3, <1>7, <1>8 DEF PathInv, RequestsMatch
<1>9. ASSUME NEW j \in 1 .. n, NEW k \in 1 .. n, reqs'[j] = reqs'[k], reqs'[j] # 0
      PROVE  j = k
  <2>1. CASE a = 0
    BY <1>2, <1>3, <1>9, <2>1 DEF PathInv, RequestsMatch
  <2>2. CASE ~Requested(a)
    BY <1>2, <1>3, <1>9, <2>2 DEF PathInv, RequestsMatch, Requested
  <2> QED
    BY <2>1, <2>2
<1>10. RequestsMatch'
  BY <1>2, <1>4, <1>8, <1>9 DEF RequestsMatch
<1>11. AnswersMatch'
  BY <1>7 DEF PathInv, AnswersMatch
<1> QED
  BY <1>4, <1>5, <1>10, <1>11

\* The client reads the next message, which has the next number.
LEMMA TakeStep ==
  ASSUME PathInv, ClientTakes, accepted' = accepted
  PROVE  EventsDiffer' /\ RequestsMatch' /\ AnswersMatch' /\ ReadIsAnswered'
<1>1. /\ seen \in Nat /\ seen < Len(sent) /\ seen' = seen + 1
      /\ sent[seen'] = seen'
      /\ \A c \in 1 .. accesses : event[c] \in Nat
  <2>1. /\ Len(sent) \in Nat /\ seen \in Nat /\ \A i \in 1 .. Len(sent) : sent[i] = i
        /\ seen < Len(sent) /\ seen' = seen + 1
    BY OutFacts DEF PathInv, SocketHolds, ClientTakes
  <2>2. seen' \in 1 .. Len(sent)
    BY <2>1
  <2> QED
    BY <2>1, <2>2 DEF PathInv, EventsDiffer
<1>2. UNCHANGED <<event, accesses, answers, answer>>
  BY DEF ClientTakes, rendezvous
<1>3. EventsDiffer'
  BY <1>2 DEF PathInv, EventsDiffer
<1>4. ASSUME NEW c \in 1 .. accesses, event[c] <= seen', event[c] # seen'
      PROVE  event[c] <= seen
  BY <1>1, <1>4
<1>5. CASE \E a \in 1 .. accesses : a \in Announces(sent[seen'])
  <2> DEFINE a == CHOOSE c \in Announces(sent[seen']) : TRUE
  <2>1. a \in Announces(sent[seen']) /\ reqs' = Append(reqs, a)
    BY <1>5 DEF ClientTakes
  <2> HIDE DEF a
  <2>2. a \in 1 .. accesses /\ event[a] = seen' /\ a \in Nat
    BY <1>1, <2>1 DEF Announces
  <2>3. ~(event[a] <= seen)
    BY <1>1, <2>2
  <2>4. ~Handled(a)
    BY <2>2, <2>3 DEF Handled, PathInv, AnswersMatch
  <2>5. ~Requested(a)
    BY <2>2, <2>3 DEF Requested, PathInv, RequestsMatch
  <2>6. seen' \in Nat /\ seen' >= seen
    BY <1>1
  <2>7. /\ RequestsMatch' /\ AnswersMatch'
        /\ \A c : Requested(c)' <=> Requested(c) \/ c = a
        /\ \A c : Handled(c)' <=> Handled(c)
    BY <1>2, <2>1, <2>2, <2>4, <2>5, <2>6, RequestAdded
  <2>8. ReadIsAnswered'
    <3>1. ASSUME NEW c \in 1 .. accesses, event[c] <= seen'
          PROVE  Requested(c) \/ c = a \/ Handled(c)
      <4>1. CASE event[c] = seen'
        BY <2>2, <4>1 DEF PathInv, EventsDiffer
      <4>2. CASE event[c] # seen'
        BY <1>4, <3>1, <4>2 DEF PathInv, ReadIsAnswered
      <4> QED
        BY <4>1, <4>2
    <3> QED
      BY <1>2, <2>7, <3>1 DEF ReadIsAnswered
  <2> QED
    BY <1>3, <2>7, <2>8
<1>6. CASE ~\E a \in 1 .. accesses : a \in Announces(sent[seen'])
  <2>1. reqs' = reqs
    BY <1>6 DEF ClientTakes
  <2>2. (\A c : Requested(c)' <=> Requested(c)) /\ (\A c : Handled(c)' <=> Handled(c))
    BY <1>2, <2>1 DEF Requested, Handled
  <2>3. \A c \in 1 .. accesses : event[c] # seen'
    BY <1>1, <1>6 DEF Announces
  <2>4. \A c \in 1 .. accesses : event[c] <= seen' <=> event[c] <= seen
    BY <1>1, <1>4, <2>3
  <2>5. RequestsMatch'
    BY <1>2, <2>1, <2>2, <2>4 DEF PathInv, RequestsMatch
  <2>6. AnswersMatch'
    BY <1>2, <2>4 DEF PathInv, AnswersMatch
  <2>7. ReadIsAnswered'
    BY <1>2, <2>2, <2>4 DEF PathInv, ReadIsAnswered
  <2> QED
    BY <1>3, <2>5, <2>6, <2>7
<1> QED
  BY <1>5, <1>6

LEMMA ReadStep ==
  ASSUME PathInv, OutP!TypeOK', OutP!Fifo', RdvP!IInv',
         ClientReads \/ ClientReadsUnnoticed
  PROVE  PathInv'
<1>1. /\ ClientTakes /\ room' = room + 1
      /\ UNCHANGED <<rsp_mq, pc, om, sent, accepted>>
      /\ mq_ev' # "none" \/ (mq_ev' = mq_ev /\ room # 0)
  BY PathAssumption
     DEF ClientReads, ClientReadsUnnoticed, Out!SocketWritable, Out!PostWritable, Out!EventPut
<1>2. UNCHANGED rendezvous /\ UNCHANGED owes /\ seen < Len(sent) /\ seen' = seen + 1
  BY <1>1 DEF ClientTakes
<1>3. EventsDiffer' /\ RequestsMatch' /\ AnswersMatch' /\ ReadIsAnswered'
  BY <1>1, TakeStep
<1>4. AnswerWakes' /\ HeardUntilTimeout'
  BY <1>2, RendezvousKept
<1>5. SocketHolds'
  <2>1. Len(sent) \in Nat /\ room \in Nat /\ Room \in Nat
    BY OutFacts DEF PathInv
  <2> QED
    BY <1>1, <1>2, <2>1 DEF PathInv, SocketHolds
<1>6. RoomIsUsed'
  BY <1>1 DEF PathInv, RoomIsUsed, Out!Draining
<1>7. TasksAgree'
  BY <1>1, <1>2 DEF PathInv, TasksAgree, rendezvous
<1> QED
  BY <1>3, <1>4, <1>5, <1>6, <1>7 DEF PathInv

LEMMA AskStep ==
  ASSUME PathInv, OutP!TypeOK', OutP!Fifo', RdvP!IInv', ClientAsks
  PROVE  PathInv'
<1>1. /\ reqs' = Append(reqs, 0)
      /\ UNCHANGED out /\ UNCHANGED rendezvous /\ UNCHANGED <<event, seen, owes>>
  BY DEF ClientAsks
<1>2. seen \in Nat
  BY OutFacts DEF PathInv, SocketHolds
<1>3. /\ RequestsMatch' /\ AnswersMatch'
      /\ \A c : Requested(c)' <=> Requested(c) \/ c = 0
      /\ \A c : Handled(c)' <=> Handled(c)
  <2>1. UNCHANGED <<event, accesses, answers, answer>> /\ seen' \in Nat /\ seen' >= seen
    BY <1>1, <1>2 DEF rendezvous
  <2> QED
    BY <1>1, <2>1, RequestAdded
<1>4. EventsDiffer' /\ ReadIsAnswered'
  BY <1>1, <1>3 DEF PathInv, EventsDiffer, ReadIsAnswered, out, rendezvous
<1>5. AnswerWakes' /\ HeardUntilTimeout'
  BY <1>1, RendezvousKept
<1>6. SocketHolds' /\ RoomIsUsed'
  BY <1>1, QueueKept
<1>7. TasksAgree'
  BY <1>1 DEF PathInv, TasksAgree, rendezvous, out
<1> QED
  BY <1>3, <1>4, <1>5, <1>6, <1>7 DEF PathInv

-----------------------------------------------------------------------------
(* The theorems.                                                           *)

LEMMA PathInit == Init => PathInv
<1> SUFFICES ASSUME Init PROVE PathInv
  OBVIOUS
<1>1. Out!Init /\ Rdv!Init /\ reqs = << >> /\ seen = 0 /\ owes = FALSE
      /\ event = [a \in 1 .. MaxAccesses |-> 0]
  BY DEF Init
<1>2. OutP!TypeOK /\ OutP!Fifo
  <2>1. OutP!Init
    BY <1>1 DEF Out!Init, OutP!Init, Out!Tasks, OutP!Tasks
  <2> QED
    BY <2>1, Assumed, OutP!TypeInit, OutP!FifoInit
<1>3. RdvP!IInv
  <2>1. RdvP!Init
    BY <1>1 DEF Rdv!Init, RdvP!Init, Rdv!InitTokens, RdvP!InitTokens, Rdv!None, RdvP!None,
                Rdv!Accesses, RdvP!Accesses, Rdv!Answers, RdvP!Answers, Rdv!NoAccess,
                RdvP!NoAccess, Rdv!Entry, RdvP!Entry, Rdv!NoAnswer, RdvP!NoAnswer
  <2> QED
    BY <2>1, Assumed, RdvP!InitInv
<1>4. /\ accesses = 0 /\ answers = 0 /\ main = "idle" /\ setter = "idle"
      /\ pc["main"] = "idle" /\ sent = << >> /\ rsp_mq = << >> /\ room = Room
  BY <1>1 DEF Out!Init, Rdv!Init
<1>5. Len(reqs) = 0 /\ Len(sent) = 0 /\ reqs \in Seq(Nat)
  BY <1>1, <1>4
<1>6. EventsDiffer /\ AnswersMatch /\ ReadIsAnswered /\ TasksAgree
  <2>1. 1 .. accesses = {} /\ 1 .. answers = {}
    BY <1>4
  <2>2. event \in [1 .. MaxAccesses -> Nat]
    BY <1>1
  <2>3. EventsDiffer /\ AnswersMatch /\ ReadIsAnswered
    BY <2>1, <2>2 DEF EventsDiffer, AnswersMatch, ReadIsAnswered
  <2>4. TasksAgree
    BY <1>1, <1>4, <2>1 DEF TasksAgree
  <2> QED
    BY <2>3, <2>4
<1>7. SocketHolds /\ RequestsMatch
  BY <1>1, <1>4, <1>5, PathAssumption DEF SocketHolds, RequestsMatch
<1>8. AnswerWakes /\ RoomIsUsed /\ HeardUntilTimeout
  BY <1>4 DEF AnswerWakes, RoomIsUsed, HeardUntilTimeout
<1> QED
  BY <1>2, <1>3, <1>6, <1>7, <1>8 DEF PathInv

LEMMA PathNext == PathInv /\ [Next]_vars => PathInv'
<1> SUFFICES ASSUME PathInv, [Next]_vars PROVE PathInv'
  OBVIOUS
<1>1. OutP!TypeOK' /\ OutP!Fifo' /\ RdvP!IInv'
  BY OutStep, RdvStep
<1>2. CASE Connect \/ OtherEvt \/ Respond \/ \E t \in Out!Tasks : Drain(t)
  BY <1>1, <1>2, QueueMoves
<1>3. CASE Access
  BY <1>1, <1>3, AccessStep
<1>4. CASE Wake \/ Timeout
  BY <1>1, <1>4, WaitEnds
<1>5. CASE Return
  BY <1>1, <1>5, ReturnStep
<1>6. CASE Release
  BY <1>1, <1>6, ReleaseStep
<1>7. CASE HandleReq
  BY <1>1, <1>7, HandleStep
<1>8. CASE ClientReads \/ ClientReadsUnnoticed
  BY <1>1, <1>8, ReadStep
<1>9. CASE ClientAsks
  BY <1>1, <1>9, AskStep
<1>10. CASE UNCHANGED vars
  <2>1. UNCHANGED out /\ UNCHANGED rendezvous /\ UNCHANGED ends /\ UNCHANGED seen
    BY <1>10 DEF vars, ends
  <2>2. EventsDiffer' /\ RequestsMatch' /\ AnswersMatch' /\ ReadIsAnswered'
    BY <2>1, HistoryKept, OutFacts DEF PathInv, out, rendezvous, ends
  <2>3. TasksAgree'
    BY <2>1 DEF PathInv, TasksAgree, out, rendezvous, ends
  <2> QED
    BY <1>1, <2>1, <2>2, <2>3, QueueKept, RendezvousKept DEF PathInv
<1> QED
  BY <1>2, <1>3, <1>4, <1>5, <1>6, <1>7, <1>8, <1>9, <1>10 DEF Next

\* With a prompt client, as long as no access has timed out, every access is decided
\* by the answer that was given to it and no answer is refused.
THEOREM PromptClientIsHeard == Spec => []HeardUntilTimeout
<1>1. PathInv => HeardUntilTimeout
  BY DEF PathInv
<1> QED
  BY <1>1, PathInit, PathNext, PTL DEF Spec

\* A wait is in vain only when the event that announces the access has not left: the
\* output queue's one event sits with the task that waits.
THEOREM TimeoutMeansUnheard == Spec => []OnlyUnheardTimesOut
<1>1. PathInv => OnlyUnheardTimesOut
  <2> SUFFICES ASSUME PathInv, main = "pend", Quiet, sem = 0
               PROVE  mq_ev = "dflt" /\ ~Read(event[accesses])
    BY DEF OnlyUnheardTimesOut
  <2>1. /\ pc["blehostd"] = "idle" /\ pc["main"] = "blocked" /\ setter # "accepted"
        /\ reqs = << >> /\ seen = Len(sent) /\ mq_ev # "blehostd"
    BY DEF Quiet, PathInv, TasksAgree
  <2>2. /\ accesses \in 1 .. accesses /\ accepted \in Nat /\ seen \in Nat
        /\ event[accesses] \in 1 .. accepted
        /\ Room \in Nat \ {0} /\ room \in Nat /\ seen <= accepted
        /\ \A i \in 1 .. seen : sent[i] = i
    BY <2>1, RdvFacts, OutFacts DEF PathInv, EventsDiffer
  <2>3. ~(event[accesses] <= seen)
    <3>1. ~Handled(accesses)
      BY <2>1 DEF PathInv, AnswerWakes, RdvP!Tokens
    <3>2. ~Requested(accesses)
      BY <2>1 DEF Requested
    <3> QED
      BY <2>2, <3>1, <3>2 DEF PathInv, ReadIsAnswered
  <2>4. ~Read(event[accesses])
    BY <2>2, <2>3 DEF Read
  <2>5. \A t \in Out!Tasks : ~Out!Draining(t) /\ om[t] = 0
    BY <2>1 DEF Out!Tasks, Out!Draining, PathInv, OutP!TypeOK, OutP!Tasks
  <2>6. rsp_mq # << >>
    <3>1. OutP!InHand = 0
      BY <2>5 DEF OutP!InHand, Out!Tasks, OutP!Tasks
    <3>2. Len(sent) + OutP!InHand + Len(rsp_mq) = accepted
      BY DEF PathInv, OutP!Fifo
    <3> QED
      BY <2>1, <2>2, <2>3, <3>1, <3>2
  <2>7. room # 0
    BY <2>1, <2>2 DEF PathInv, SocketHolds
  <2>8. mq_ev # "none"
    BY <2>5, <2>6, <2>7 DEF PathInv, RoomIsUsed
  <2>9. mq_ev \in {"none", "blehostd", "dflt"}
    BY DEF PathInv, OutP!TypeOK
  <2> QED
    BY <2>1, <2>4, <2>8, <2>9
<1> QED
  BY <1>1, PathInit, PathNext, PTL DEF Spec
=============================================================================
