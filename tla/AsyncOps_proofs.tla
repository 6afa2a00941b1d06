--------------------------- MODULE AsyncOps_proofs ---------------------------
(***************************************************************************)
(* Proofs about requests and the procedures they start, for every set of   *)
(* sequence numbers and every length of the queue of requests.             *)
(***************************************************************************)
EXTENDS AsyncOps, SequenceTheorems, TLAPS

-----------------------------------------------------------------------------
(* The inductive invariant.                                                *)

\* A request in the queue, or whose host call is still to come, has no error.
Fresh ==
  /\ \A i \in 1 .. Len(inbox) : inbox[i].rc = "ok"
  /\ ~called => cur.rc = "ok"

\* A procedure with the number of the answer in preparation was accepted.
AcceptedOnly ==
  called /\ Owned(cur.seq) => cur.rc = "ok" /\ cur.type \in Starts

\* The host scans or connects once at a time, and advertises once.
OneAtATime ==
  \A p, q \in procs :
    \/ p.kind \in {"connect", "scan"} /\ q.kind \in {"connect", "scan"}
    \/ p.kind = "adv_start" /\ q.kind = "adv_start"
    => p = q

Kept == OneOwner /\ HeapMatches /\ Fresh /\ AcceptedOnly /\ OneAtATime

IInv == TypeOK /\ Kept

-----------------------------------------------------------------------------
(* The values of the variables.                                            *)

\* The request in process is one of the client's.
LEMMA CurIsReq ==
  ASSUME TypeOK, cur # NoReq
  PROVE  /\ cur \in Reqs /\ cur.seq \in Seqs /\ cur.type \in Types
         /\ cur.rc \in {"ok", "error"}
BY DEF TypeOK, Reqs

\* Without a request in process, there is no type to act upon.
LEMMA TypedCur ==
  ASSUME cur.type \in Types
  PROVE  cur # NoReq
BY DEF NoReq, Types, Starts, Stops, OnConn

\* The status of the request is all that the host's result changes.
LEMMA CurResult ==
  ASSUME TypeOK, cur # NoReq, NEW rc \in {"ok", "error"},
         cur' = [cur EXCEPT !.rc = rc]
  PROVE  /\ cur' \in Reqs /\ cur' # NoReq
         /\ cur'.seq = cur.seq /\ cur'.type = cur.type /\ cur'.rc = rc
<1>1. cur \in Reqs /\ cur.seq \in Seqs
  BY CurIsReq
<1>2. /\ cur' \in Reqs
      /\ cur'.seq = cur.seq /\ cur'.type = cur.type /\ cur'.rc = rc
  BY <1>1 DEF Reqs
<1> QED
  BY <1>1, <1>2, AsyncAssumption DEF NoReq

\* A request more at the end of the queue.
LEMMA AppendInbox ==
  ASSUME TypeOK, NEW r \in Reqs, inbox' = Append(inbox, r)
  PROVE  /\ inbox' \in Seq(Reqs) /\ Len(inbox) \in Nat /\ Len(inbox') = Len(inbox) + 1
         /\ \A i \in 1 .. Len(inbox) : i \in 1 .. Len(inbox') /\ inbox'[i] = inbox[i]
         /\ inbox'[Len(inbox')] = r /\ Len(inbox') \in 1 .. Len(inbox')
         /\ \A i \in 1 .. Len(inbox') : i \in 1 .. Len(inbox) \/ i = Len(inbox')
<1>1. inbox \in Seq(Reqs) /\ Len(inbox) \in Nat
  BY DEF TypeOK
<1>2. /\ inbox' \in Seq(Reqs) /\ Len(inbox') = Len(inbox) + 1
      /\ \A i \in 1 .. Len(inbox) : inbox'[i] = inbox[i]
      /\ inbox'[Len(inbox) + 1] = r
  BY <1>1, AppendProperties
<1> QED
  BY <1>1, <1>2

\* The head of the queue taken off.
LEMMA TailInbox ==
  ASSUME TypeOK, inbox # << >>, inbox' = Tail(inbox)
  PROVE  /\ inbox' \in Seq(Reqs) /\ Len(inbox) \in Nat /\ Len(inbox') = Len(inbox) - 1
         /\ Len(inbox') <= Len(inbox)
         /\ Head(inbox) = inbox[1] /\ 1 \in 1 .. Len(inbox) /\ Head(inbox) \in Reqs
         /\ \A i \in 1 .. Len(inbox') : /\ i + 1 \in 1 .. Len(inbox) /\ i + 1 # 1
                                        /\ inbox'[i] = inbox[i + 1]
         /\ \A i \in 1 .. Len(inbox) :
              i = 1 \/ \E j \in 1 .. Len(inbox') : i = j + 1
<1>1. inbox \in Seq(Reqs) /\ Len(inbox) \in Nat /\ Len(inbox) > 0
  BY LenProperties, EmptySeq DEF TypeOK
<1>2. /\ inbox' \in Seq(Reqs) /\ Len(inbox') = Len(inbox) - 1
      /\ \A i \in 1 .. Len(inbox') : inbox'[i] = inbox[i + 1]
      /\ Head(inbox) = inbox[1] /\ Head(inbox) \in Reqs
  BY <1>1, HeadTailProperties
<1>3. ASSUME NEW i \in 1 .. Len(inbox), i # 1
      PROVE  \E j \in 1 .. Len(inbox') : i = j + 1
  <2>1. i - 1 \in 1 .. Len(inbox') /\ i = (i - 1) + 1
    BY <1>1, <1>2, <1>3
  <2> QED
    BY <2>1
<1> QED
  BY <1>1, <1>2, <1>3

\* A message keeps the type of the last one.
LEMMA SaysTyped ==
  ASSUME TypeOK, NEW op \in {"rsp", "evt"}, NEW s \in Seqs \union {0, EvtSeq},
         NEW status \in {"ok", "error", "more", "last"}, Says(op, s, status)
  PROVE  last' \in Messages
<1>1. last \in Messages /\ last.bit \in {0, 1}
  BY DEF TypeOK, Messages
<1>2. 1 - last.bit \in {0, 1}
  BY <1>1
<1>3. CASE UNCHANGED last
  BY <1>1, <1>3
<1>4. CASE last' = [op |-> op, seq |-> s, status |-> status, bit |-> 1 - last.bit]
  BY <1>2, <1>4 DEF Messages
<1> QED
  BY <1>3, <1>4 DEF Says

-----------------------------------------------------------------------------
(* Type correctness.                                                       *)

\* Every step keeps the variables in their ranges.
LEMMA TypeStep == ASSUME TypeOK, [Next]_vars PROVE TypeOK'
<1>1. ASSUME NEW s \in Seqs, NEW type \in Types, ClientAsks(s, type)
      PROVE  TypeOK'
  <2>1. [seq |-> s, type |-> type, rc |-> "ok"] \in Reqs
    BY DEF Reqs
  <2>2. inbox' \in Seq(Reqs) /\ Len(inbox') <= MaxInbox
    BY <1>1, <2>1, AppendInbox, AsyncAssumption DEF ClientAsks
  <2> QED
    BY <1>1, <2>2 DEF TypeOK, ClientAsks
<1>2. CASE TakeReq
  <2>1. /\ inbox' \in Seq(Reqs) /\ Len(inbox') <= Len(inbox) /\ Head(inbox) \in Reqs
        /\ Len(inbox) \in Nat /\ Len(inbox') \in Nat
    BY <1>2, TailInbox DEF TakeReq
  <2>2. Len(inbox') <= MaxInbox
    BY <2>1, AsyncAssumption DEF TypeOK
  <2> QED
    BY <1>2, <2>1, <2>2 DEF TypeOK, TakeReq
<1>3. CASE BadParam
  <2>1. cur' \in Reqs /\ cur' # NoReq
    BY <1>3, CurResult DEF BadParam
  <2> QED
    BY <1>3, <2>1 DEF TypeOK, BadParam
<1>4. CASE HostAccepts
  <2>1. cur # NoReq /\ cur.seq \in Seqs
    BY <1>4, TypedCur, CurIsReq DEF HostAccepts, Types
  <2>2. procs' \subseteq Procs
    <3>1. CASE cur.type \in OnConn
      <4>1. PICK c \in procs :
              procs' = procs \union {[seq |-> cur.seq, kind |-> cur.type, on |-> c.seq]}
        BY <1>4, <3>1 DEF HostAccepts, SeqArg
      <4>2. c.seq \in Seqs
        BY DEF TypeOK, Procs
      <4>3. [seq |-> cur.seq, kind |-> cur.type, on |-> c.seq] \in Procs
        BY <1>4, <2>1, <4>2 DEF HostAccepts, Procs
      <4> QED
        BY <4>1, <4>3 DEF TypeOK
    <3>2. CASE cur.type \notin OnConn
      <4>1. procs' = procs \union {[seq |-> cur.seq, kind |-> cur.type, on |-> cur.seq]}
        BY <1>4, <3>2 DEF HostAccepts, SeqArg
      <4>2. [seq |-> cur.seq, kind |-> cur.type, on |-> cur.seq] \in Procs
        BY <1>4, <2>1 DEF HostAccepts, Procs
      <4> QED
        BY <4>1, <4>2 DEF TypeOK
    <3> QED
      BY <3>1, <3>2
  <2>3. heap' \subseteq Seqs
    BY <1>4, <2>1 DEF TypeOK, HostAccepts, SeqArg
  <2> QED
    BY <1>4, <2>1, <2>2, <2>3 DEF TypeOK, HostAccepts
<1>5. CASE HostRefuses
  <2>1. cur # NoReq
    BY <1>5, TypedCur DEF HostRefuses, Types
  <2>2. cur' \in Reqs /\ cur' # NoReq
    BY <1>5, <2>1, CurResult DEF HostRefuses
  <2> QED
    BY <1>5, <2>2 DEF TypeOK, HostRefuses
<1>6. CASE HostStops
  <2>1. cur # NoReq
    BY <1>6, TypedCur DEF HostStops, Types
  <2>2. cur' \in Reqs /\ cur' # NoReq
    BY <1>6, <2>1, CurResult DEF HostStops
  <2> QED
    BY <1>6, <2>2 DEF TypeOK, HostStops
<1>7. CASE RunPlain
  <2>1. cur # NoReq
    BY <1>7, TypedCur DEF RunPlain, Types
  <2>2. PICK rc \in {"ok", "error"} : cur' = [cur EXCEPT !.rc = rc]
    BY <1>7 DEF RunPlain
  <2>3. cur' \in Reqs /\ cur' # NoReq
    BY <2>1, <2>2, CurResult
  <2> QED
    BY <1>7, <2>3 DEF TypeOK, RunPlain
<1>8. CASE SendRsp
  <2>1. cur.seq \in Seqs /\ cur.rc \in {"ok", "error"}
    BY <1>8, CurIsReq DEF SendRsp
  <2>2. last' \in Messages
    BY <1>8, <2>1, SaysTyped DEF SendRsp
  <2> QED
    BY <1>8, <2>2 DEF TypeOK, SendRsp
<1>9. ASSUME NEW p \in procs, MoreEvt(p)
      PROVE  TypeOK'
  <2>1. p.seq \in Seqs
    BY DEF TypeOK, Procs
  <2>2. last' \in Messages
    BY <1>9, <2>1, SaysTyped DEF MoreEvt
  <2> QED
    BY <1>9, <2>2 DEF TypeOK, MoreEvt
<1>10. ASSUME NEW p \in procs, LastEvt(p)
       PROVE  TypeOK'
  <2>1. p.seq \in Seqs
    BY DEF TypeOK, Procs
  <2>2. last' \in Messages
    BY <1>10, <2>1, SaysTyped DEF LastEvt, EndSeq
  <2> QED
    BY <1>10, <2>2 DEF TypeOK, LastEvt, AfterEnd
<1>11. ASSUME NEW p \in procs, Connected(p)
       PROVE  TypeOK'
  <2>1. p \in Procs
    BY DEF TypeOK
  <2>2. p.seq \in Seqs /\ [p EXCEPT !.kind = "conn"] \in Procs
    BY <2>1 DEF Procs
  <2>3. last' \in Messages
    BY <1>11, <2>2, SaysTyped DEF Connected
  <2> QED
    BY <1>11, <2>2, <2>3 DEF TypeOK, Connected
<1>12. CASE UnsolicitedEvt
  <2>1. last' \in Messages
    BY <1>12, SaysTyped DEF UnsolicitedEvt
  <2> QED
    BY <1>12, <2>1 DEF TypeOK, UnsolicitedEvt
<1>13. CASE UNCHANGED vars
  BY <1>13 DEF TypeOK, vars
<1> QED
  BY <1>1, <1>2, <1>3, <1>4, <1>5, <1>6, <1>7, <1>8, <1>9, <1>10, <1>11, <1>12, <1>13
  DEF Next, HandleReq

-----------------------------------------------------------------------------
(* The invariant is kept.                                                  *)

\* A step that starts nothing and takes nothing from the queue leaves the
\* numbers unique.
LEMMA FewerProcs ==
  ASSUME OneOwner, OneAtATime, procs' \subseteq procs, inbox' = inbox,
         cur'.seq = cur.seq, called => called'
  PROVE  OneOwner' /\ OneAtATime'
<1>1. \A s \in Seqs : Waiting(s)' => Waiting(s)
  BY DEF Waiting
<1>2. \A s \in Seqs : Owned(s)' => Owned(s)
  BY DEF Owned
<1>3. OneOwner'
  BY <1>1, <1>2 DEF OneOwner
<1>4. OneAtATime'
  BY DEF OneAtATime
<1> QED
  BY <1>3, <1>4

\* The host call of the request in process starts nothing: its number still
\* belongs to nothing.
LEMMA NothingStarted ==
  ASSUME TypeOK, OneOwner, cur # NoReq, ~called, procs' \subseteq procs,
         cur'.seq = cur.seq
  PROVE  ~Owned(cur.seq)'
<1>1. cur.seq \in Seqs
  BY CurIsReq
<1>2. ~Owned(cur.seq)
  BY <1>1 DEF OneOwner, Waiting
<1> QED
  BY <1>2 DEF Owned

\* A request is queued.
LEMMA ClientAsksInv ==
  ASSUME IInv, NEW s \in Seqs, NEW type \in Types, ClientAsks(s, type)
  PROVE  Kept'
<1> DEFINE r == [seq |-> s, type |-> type, rc |-> "ok"]
<1>1. r \in Reqs /\ r.seq = s /\ r.rc = "ok"
  BY DEF Reqs
<1> HIDE DEF r
<1>2. inbox' = Append(inbox, r) /\ TypeOK
  BY DEF ClientAsks, IInv, Kept, r
<1>3. /\ Len(inbox) \in Nat /\ Len(inbox') = Len(inbox) + 1
      /\ \A i \in 1 .. Len(inbox) : i \in 1 .. Len(inbox') /\ inbox'[i] = inbox[i]
      /\ inbox'[Len(inbox')] = r
      /\ \A i \in 1 .. Len(inbox') : i \in 1 .. Len(inbox) \/ i = Len(inbox')
  BY <1>1, <1>2, AppendInbox
<1>4. ~Waiting(s) /\ ~Answering(s) /\ ~Owned(s) /\ cur.seq # s
  BY DEF ClientAsks, State, Waiting, Answering
<1>5. \A i \in 1 .. Len(inbox) : inbox[i].seq # s
  BY <1>4 DEF Waiting
<1>6. UNCHANGED <<cur, called, procs, heap>>
  BY DEF ClientAsks
<1>7. OneOwner'
  <2>1. \A t \in Seqs : Waiting(t)' => t = s \/ Waiting(t)
    BY <1>1, <1>3, <1>6 DEF Waiting
  <2>2. \A t \in Seqs : Owned(t)' <=> Owned(t)
    BY <1>6 DEF Owned
  <2>3. \A t \in Seqs : Waiting(t)' => ~Owned(t)'
    BY <1>4, <2>1, <2>2 DEF IInv, Kept, OneOwner
  <2>4. \A i, j \in 1 .. Len(inbox') : inbox'[i].seq = inbox'[j].seq => i = j
    BY <1>1, <1>3, <1>5 DEF IInv, Kept, OneOwner
  <2>5. \A i \in 1 .. Len(inbox') : inbox'[i].seq # cur'.seq
    BY <1>1, <1>3, <1>4, <1>6 DEF IInv, Kept, OneOwner
  <2> QED
    BY <1>6, <2>3, <2>4, <2>5 DEF IInv, Kept, OneOwner
<1>8. Fresh'
  BY <1>1, <1>3, <1>6 DEF IInv, Kept, Fresh
<1>9. HeapMatches' /\ AcceptedOnly' /\ OneAtATime'
  BY <1>6 DEF IInv, Kept, HeapMatches, AcceptedOnly, Owned, OneAtATime
<1> QED
  BY <1>7, <1>8, <1>9 DEF Kept

\* The request at the head of the queue is taken.
LEMMA TakeReqInv ==
  ASSUME IInv, TakeReq
  PROVE  Kept'
<1>1. /\ TypeOK /\ inbox # << >> /\ inbox' = Tail(inbox)
      /\ cur = NoReq /\ cur' = Head(inbox)
      /\ UNCHANGED <<called, procs, heap>>
  BY DEF TakeReq, IInv, Kept
<1>2. /\ cur' = inbox[1] /\ 1 \in 1 .. Len(inbox)
      /\ \A i \in 1 .. Len(inbox') : /\ i + 1 \in 1 .. Len(inbox) /\ i + 1 # 1
                                     /\ inbox'[i] = inbox[i + 1]
  BY <1>1, TailInbox
<1>3. ~called
  BY <1>1 DEF TypeOK
<1>4. \A s \in Seqs : Waiting(s)' => Waiting(s)
  BY <1>1, <1>2 DEF Waiting
<1>5. OneOwner'
  <2>1. \A s \in Seqs : Owned(s)' <=> Owned(s)
    BY <1>1 DEF Owned
  <2>2. \A s \in Seqs : Waiting(s)' => ~Owned(s)'
    BY <1>4, <2>1 DEF IInv, Kept, OneOwner
  <2>3. ASSUME NEW i \in 1 .. Len(inbox'), NEW j \in 1 .. Len(inbox'),
               inbox'[i].seq = inbox'[j].seq
        PROVE  i = j
    <3>1. /\ i + 1 \in 1 .. Len(inbox) /\ j + 1 \in 1 .. Len(inbox)
          /\ inbox[i + 1].seq = inbox[j + 1].seq
      BY <1>2, <2>3
    <3>2. i + 1 = j + 1
      BY <3>1 DEF IInv, Kept, OneOwner
    <3> QED
      BY <3>2
  <2>4. \A i \in 1 .. Len(inbox') : inbox'[i].seq # cur'.seq
    BY <1>2 DEF IInv, Kept, OneOwner
  <2> QED
    BY <1>1, <2>2, <2>3, <2>4 DEF IInv, Kept, OneOwner
<1>6. Fresh'
  BY <1>1, <1>2 DEF IInv, Kept, Fresh
<1>7. HeapMatches' /\ AcceptedOnly' /\ OneAtATime'
  BY <1>1, <1>3 DEF IInv, Kept, HeapMatches, AcceptedOnly, OneAtATime
<1> QED
  BY <1>5, <1>6, <1>7 DEF Kept

\* The host starts what the request asks for.
LEMMA HostAcceptsInv ==
  ASSUME IInv, HostAccepts
  PROVE  Kept'
<1>1. /\ cur.type \in Starts /\ ~called /\ called' = TRUE /\ cur' = cur /\ inbox' = inbox
      /\ HostFree(cur.type)
      /\ heap' = IF cur.type = "disc_attrs" THEN heap \union {cur.seq} ELSE heap
  BY DEF HostAccepts, SeqArg
<1>2. PICK on : procs' = procs \union {[seq |-> cur.seq, kind |-> cur.type, on |-> on]}
  BY DEF HostAccepts, SeqArg
<1> DEFINE new == [seq |-> cur.seq, kind |-> cur.type, on |-> on]
<1>3. procs' = procs \union {new} /\ new.seq = cur.seq /\ new.kind = cur.type
  BY <1>2
<1> HIDE DEF new
<1>4. cur # NoReq /\ cur.seq \in Seqs
  BY <1>1, TypedCur, CurIsReq DEF IInv, Kept, Types
<1>5. ~Owned(cur.seq)
  BY <1>1, <1>4 DEF IInv, Kept, OneOwner, Waiting
<1>6. OneOwner'
  <2>1. \A p, q \in procs' : p.seq = q.seq => p = q
    BY <1>3, <1>5 DEF IInv, Kept, OneOwner, Owned
  <2>2. \A s \in Seqs : Waiting(s)' => Waiting(s) /\ s # cur.seq
    BY <1>1 DEF Waiting, IInv, Kept, OneOwner
  <2>3. \A s \in Seqs : Owned(s)' => Owned(s) \/ s = cur.seq
    BY <1>3 DEF Owned
  <2>4. \A s \in Seqs : Waiting(s)' => ~Owned(s)'
    BY <2>2, <2>3 DEF IInv, Kept, OneOwner
  <2> QED
    BY <1>1, <2>1, <2>4 DEF IInv, Kept, OneOwner
<1>7. HeapMatches'
  BY <1>1, <1>3 DEF IInv, Kept, HeapMatches
<1>8. Fresh' /\ AcceptedOnly'
  BY <1>1 DEF IInv, Kept, Fresh, AcceptedOnly
<1>9. OneAtATime'
  BY <1>1, <1>3 DEF IInv, Kept, OneAtATime, HostFree
<1> QED
  BY <1>6, <1>7, <1>8, <1>9 DEF Kept

\* The other results of a host call: an error, a stop, a plain call.
LEMMA NoStartInv ==
  ASSUME IInv, cur # NoReq, ~called, called' = TRUE, inbox' = inbox,
         procs' \subseteq procs, heap' = heap,
         \A p \in procs : p.kind = "disc_attrs" => p \in procs',
         cur'.seq = cur.seq
  PROVE  Kept'
<1>1. OneOwner' /\ OneAtATime'
  BY FewerProcs DEF IInv, Kept
<1>2. AcceptedOnly'
  BY NothingStarted DEF IInv, Kept, AcceptedOnly
<1>3. HeapMatches'
  BY DEF IInv, Kept, HeapMatches
<1>4. Fresh'
  BY DEF IInv, Kept, Fresh
<1> QED
  BY <1>1, <1>2, <1>3, <1>4 DEF Kept

\* A callback ends a procedure or tells more about it.
LEMMA LastEvtInv ==
  ASSUME IInv, NEW p \in procs, LastEvt(p)
  PROVE  Kept'
<1>1. /\ procs' = procs \ {p} /\ UNCHANGED <<inbox, cur, called>>
      /\ heap' = AfterEnd(p)
  BY DEF LastEvt
<1>2. OneOwner' /\ OneAtATime'
  BY <1>1, FewerProcs DEF IInv, Kept
<1>3. HeapMatches'
  BY <1>1 DEF IInv, Kept, HeapMatches, AfterEnd, OneOwner
<1>4. Fresh' /\ AcceptedOnly'
  BY <1>1 DEF IInv, Kept, Fresh, AcceptedOnly, Owned
<1> QED
  BY <1>2, <1>3, <1>4 DEF Kept

\* A connection takes the place of the procedure that made it.
LEMMA ConnectedInv ==
  ASSUME IInv, NEW p \in procs, Connected(p)
  PROVE  Kept'
<1> DEFINE c == [p EXCEPT !.kind = "conn"]
<1>1. /\ p.kind \in {"connect", "adv_start"} /\ procs' = (procs \ {p}) \union {c}
      /\ UNCHANGED <<inbox, cur, called, heap>>
  BY DEF Connected
<1>2. c.seq = p.seq /\ c.kind = "conn"
  <2>1. p \in Procs
    BY DEF IInv, Kept, TypeOK
  <2> QED
    BY <2>1 DEF Procs
<1> HIDE DEF c
<1>3. \A s \in Seqs \union {cur.seq} : Owned(s)' => Owned(s)
  BY <1>1, <1>2 DEF Owned
<1>4. OneOwner'
  <2>1. \A q, r \in procs' : q.seq = r.seq => q = r
    BY <1>1, <1>2 DEF IInv, Kept, OneOwner
  <2>2. \A s \in Seqs : Waiting(s)' <=> Waiting(s)
    BY <1>1 DEF Waiting
  <2> QED
    BY <1>1, <1>3, <2>1, <2>2 DEF IInv, Kept, OneOwner
<1>5. HeapMatches'
  BY <1>1, <1>2 DEF IInv, Kept, HeapMatches
<1>6. Fresh' /\ AcceptedOnly'
  BY <1>1, <1>3 DEF IInv, Kept, Fresh, AcceptedOnly
<1>7. OneAtATime'
  BY <1>1, <1>2 DEF IInv, Kept, OneAtATime
<1> QED
  BY <1>4, <1>5, <1>6, <1>7 DEF Kept

\* Every step keeps the rest of the invariant.
LEMMA KeptStep == ASSUME IInv, [Next]_vars PROVE Kept'
<1>1. ASSUME NEW s \in Seqs, NEW type \in Types, ClientAsks(s, type)
      PROVE  Kept'
  BY <1>1, ClientAsksInv
<1>2. CASE TakeReq
  BY <1>2, TakeReqInv
<1>3. CASE BadParam
  <2>1. cur'.seq = cur.seq
    BY <1>3, CurResult DEF BadParam, IInv, Kept
  <2> QED
    BY <1>3, <2>1, NoStartInv DEF BadParam
<1>4. CASE HostAccepts
  BY <1>4, HostAcceptsInv
<1>5. CASE HostRefuses
  <2>1. cur # NoReq
    BY <1>5, TypedCur DEF HostRefuses, Types
  <2>2. cur'.seq = cur.seq
    BY <1>5, <2>1, CurResult DEF HostRefuses, IInv, Kept
  <2> QED
    BY <1>5, <2>1, <2>2, NoStartInv DEF HostRefuses
<1>6. CASE HostStops
  <2>1. cur # NoReq
    BY <1>6, TypedCur DEF HostStops, Types
  <2>2. cur'.seq = cur.seq
    BY <1>6, <2>1, CurResult DEF HostStops, IInv, Kept
  <2>3. \A p \in procs : p.kind = "disc_attrs" => p \in procs'
    BY <1>6 DEF HostStops, Stopped
  <2> QED
    BY <1>6, <2>1, <2>2, <2>3, NoStartInv DEF HostStops
<1>7. CASE RunPlain
  <2>1. cur # NoReq
    BY <1>7, TypedCur DEF RunPlain, Types
  <2>2. PICK rc \in {"ok", "error"} : cur' = [cur EXCEPT !.rc = rc]
    BY <1>7 DEF RunPlain
  <2>3. cur'.seq = cur.seq
    BY <2>1, <2>2, CurResult DEF IInv, Kept
  <2> QED
    BY <1>7, <2>1, <2>3, NoStartInv DEF RunPlain
<1>8. CASE SendRsp
  <2>1. cur' = NoReq /\ called' = FALSE /\ UNCHANGED <<inbox, procs, heap>>
    BY <1>8 DEF SendRsp
  <2>2. \A s \in Seqs : Waiting(s)' => Waiting(s)
    BY <2>1, AsyncAssumption DEF Waiting, NoReq
  <2>3. \A s \in Seqs : Owned(s)' <=> Owned(s)
    BY <2>1 DEF Owned
  <2>4. \A i \in 1 .. Len(inbox) : inbox[i].seq # NoSeq
    <3>1. inbox \in Seq(Reqs)
      BY DEF IInv, Kept, TypeOK
    <3>2. \A i \in 1 .. Len(inbox) : inbox[i] \in Reqs
      BY <3>1
    <3> QED
      BY <3>2, AsyncAssumption DEF Reqs
  <2>5. OneOwner'
    BY <2>1, <2>2, <2>3, <2>4 DEF IInv, Kept, OneOwner, NoReq
  <2>6. HeapMatches' /\ Fresh' /\ AcceptedOnly' /\ OneAtATime'
    BY <2>1 DEF IInv, Kept, HeapMatches, Fresh, AcceptedOnly, OneAtATime, NoReq
  <2> QED
    BY <2>5, <2>6 DEF Kept
<1>9. ASSUME NEW p \in procs, MoreEvt(p)
       PROVE  Kept'
  <2>1. UNCHANGED <<inbox, cur, called, procs, heap>>
    BY <1>9 DEF MoreEvt
  <2> QED
    BY <2>1 DEF IInv, Kept, OneOwner, HeapMatches, Fresh, AcceptedOnly, OneAtATime, Waiting, Owned
<1>10. ASSUME NEW p \in procs, LastEvt(p)
       PROVE  Kept'
  BY <1>10, LastEvtInv
<1>11. ASSUME NEW p \in procs, Connected(p)
       PROVE  Kept'
  BY <1>11, ConnectedInv
<1>12. CASE UnsolicitedEvt \/ UNCHANGED vars
  <2>1. UNCHANGED <<inbox, cur, called, procs, heap>>
    BY <1>12 DEF UnsolicitedEvt, vars
  <2> QED
    BY <2>1 DEF IInv, Kept, OneOwner, HeapMatches, Fresh, AcceptedOnly, OneAtATime, Waiting, Owned
<1> QED
  BY <1>1, <1>2, <1>3, <1>4, <1>5, <1>6, <1>7, <1>8, <1>9, <1>10, <1>11, <1>12
  DEF Next, HandleReq

\* Every step keeps the invariant.
LEMMA InvStep == ASSUME IInv, [Next]_vars PROVE IInv'
BY TypeStep, KeptStep DEF IInv

\* The first state satisfies it.
LEMMA InvInit == Init => IInv
<1> SUFFICES ASSUME Init PROVE IInv
  OBVIOUS
<1>1. Len(inbox) = 0 /\ inbox \in Seq(Reqs)
  BY DEF Init
<1>2. TypeOK
  <2>1. last \in Messages
    BY DEF Init, Messages
  <2>2. Len(inbox) <= MaxInbox
    BY <1>1, AsyncAssumption
  <2> QED
    BY <1>1, <2>1, <2>2 DEF Init, TypeOK
<1>3. OneOwner
  <2>1. \A s \in Seqs : ~Owned(s)
    BY DEF Init, Owned
  <2> QED
    BY <1>1, <2>1 DEF Init, OneOwner
<1>4. HeapMatches /\ Fresh /\ AcceptedOnly /\ OneAtATime
  BY <1>1 DEF Init, HeapMatches, Fresh, AcceptedOnly, OneAtATime, NoReq
<1> QED
  BY <1>2, <1>3, <1>4 DEF IInv, Kept

\* The invariant holds in every state.
THEOREM AsyncInv == Spec => []IInv
BY InvInit, InvStep, PTL DEF Spec

\* Type correctness.
THEOREM AsyncTypeCorrect == Spec => []TypeOK
<1>1. IInv => TypeOK
  BY DEF IInv, Kept
<1> QED
  BY <1>1, AsyncInv, PTL

\* A sequence number never names two things: not two procedures, nor one and a
\* request that waits (bhd_seq_arg(), the numbers kept by callbacks).
THEOREM NumbersAreUnique == Spec => []OneOwner
<1>1. IInv => OneOwner
  BY DEF IInv, Kept
<1> QED
  BY <1>1, AsyncInv, PTL

\* The structure of a discovery lives exactly as long as a callback can use it
\* (bhd_gattc_disc_chr_cb(), bhd_gattc_disc_dsc_cb()).
THEOREM HeapIsSafe == Spec => []HeapMatches
<1>1. IInv => HeapMatches
  BY DEF IInv, Kept
<1> QED
  BY <1>1, AsyncInv, PTL

-----------------------------------------------------------------------------
(* Sessions.                                                               *)

St == [s \in Seqs |-> State(s)]

\* One session moves.
LEMMA OneMoves ==
  ASSUME NEW s \in Seqs, NEW to, State(s)' = to,
         \A r \in Seqs : r # s => State(r)' = State(r)
  PROVE  St' = [St EXCEPT ![s] = to]
BY DEF St

\* None does.
LEMMA NoneMoves ==
  ASSUME \A r \in Seqs : State(r)' = State(r)
  PROVE  St' = St
BY DEF St

\* What a session depends on.
LEMMA SameState ==
  ASSUME NEW r \in Seqs, Waiting(r)' <=> Waiting(r), Answering(r)' <=> Answering(r),
         Owned(r)' <=> Owned(r), Answering(r) => cur' = cur
  PROVE  State(r)' = State(r)
BY DEF State

\* The request in process waits, until its host call returns; then it is being
\* answered.  No other request in the queue has its number.
LEMMA CurState ==
  ASSUME IInv, cur # NoReq
  PROVE  /\ cur.seq \in Seqs
         /\ \A i \in 1 .. Len(inbox) : inbox[i].seq # cur.seq
         /\ ~called => Waiting(cur.seq) /\ ~Owned(cur.seq) /\ State(cur.seq) = "asked"
         /\ called => ~Waiting(cur.seq) /\ Answering(cur.seq)
<1>1. cur.seq \in Seqs
  BY CurIsReq DEF IInv
<1>2. \A i \in 1 .. Len(inbox) : inbox[i].seq # cur.seq
  BY DEF IInv, Kept, OneOwner
<1>3. ~called => Waiting(cur.seq) /\ ~Owned(cur.seq) /\ State(cur.seq) = "asked"
  BY <1>1 DEF IInv, Kept, OneOwner, Waiting, State
<1>4. called => ~Waiting(cur.seq) /\ Answering(cur.seq)
  BY <1>2 DEF Waiting, Answering
<1> QED
  BY <1>1, <1>2, <1>3, <1>4

\* A host call that starts nothing leaves the session where it is, and others
\* whose procedure it does not end.
LEMMA ResultState ==
  ASSUME IInv, cur # NoReq, ~called, called' = TRUE, inbox' = inbox,
         cur'.seq = cur.seq, cur'.rc # "ok" \/ cur'.type \notin Starts,
         NEW r \in Seqs, Owned(r)' <=> Owned(r)
  PROVE  State(r)' = State(r)
<1>1. CASE r = cur.seq
  <2>1. State(r) = "asked"
    BY <1>1, CurState
  <2>2. ~Waiting(r)' /\ Answering(r)'
    BY <1>1, CurState DEF Waiting, Answering
  <2> QED
    BY <2>1, <2>2 DEF State
<1>2. CASE r # cur.seq
  BY <1>2 DEF State, Waiting, Answering
<1> QED
  BY <1>1, <1>2

\* ClientAsks is Ask.
LEMMA ClientAsksMaps ==
  ASSUME IInv, NEW s \in Seqs, NEW type \in Types, ClientAsks(s, type)
  PROVE  Session!Next
<1> DEFINE req == [seq |-> s, type |-> type, rc |-> "ok"]
<1>1. req \in Reqs /\ req.seq = s
  BY DEF Reqs
<1> HIDE DEF req
<1>2. inbox' = Append(inbox, req) /\ TypeOK /\ UNCHANGED <<cur, called, procs, last>>
  BY DEF ClientAsks, IInv, req
<1>3. /\ \A i \in 1 .. Len(inbox) : i \in 1 .. Len(inbox') /\ inbox'[i] = inbox[i]
      /\ inbox'[Len(inbox')] = req /\ Len(inbox') \in 1 .. Len(inbox')
      /\ \A i \in 1 .. Len(inbox') : i \in 1 .. Len(inbox) \/ i = Len(inbox')
  BY <1>1, <1>2, AppendInbox
<1>4. \A r \in Seqs : Waiting(r)' <=> (Waiting(r) \/ r = s)
  BY <1>1, <1>2, <1>3 DEF Waiting
<1>5. State(s)' = "asked"
  BY <1>4 DEF State
<1>6. ASSUME NEW r \in Seqs, r # s PROVE State(r)' = State(r)
  BY <1>2, <1>4, <1>6, SameState DEF Answering, Owned
<1>7. St' = [St EXCEPT ![s] = "asked"] /\ St[s] = "free"
  BY <1>5, <1>6, OneMoves DEF St, ClientAsks
<1>8. Session!Ask(s)
  BY <1>2, <1>7 DEF Session!Ask, Session!Moves, St
<1> QED
  BY <1>8 DEF Session!Next

\* TakeReq is a stutter.
LEMMA TakeReqMaps ==
  ASSUME IInv, TakeReq
  PROVE  St' = St /\ last' = last
<1>1. /\ TypeOK /\ inbox # << >> /\ inbox' = Tail(inbox)
      /\ cur = NoReq /\ cur' = Head(inbox) /\ UNCHANGED <<called, procs, last>>
  BY DEF TakeReq, IInv
<1>2. /\ cur' = inbox[1] /\ 1 \in 1 .. Len(inbox)
      /\ \A i \in 1 .. Len(inbox') : i + 1 \in 1 .. Len(inbox) /\ inbox'[i] = inbox[i + 1]
      /\ \A i \in 1 .. Len(inbox) : i = 1 \/ \E j \in 1 .. Len(inbox') : i = j + 1
  BY <1>1, TailInbox
<1>3. ~called /\ \A r \in Seqs : cur.seq # r
  BY <1>1, AsyncAssumption DEF TypeOK, NoReq
<1>4. ASSUME NEW r \in Seqs PROVE State(r)' = State(r)
  <2>1. Waiting(r) => Waiting(r)'
    <3> SUFFICES ASSUME Waiting(r) PROVE Waiting(r)'
      OBVIOUS
    <3>1. PICK i \in 1 .. Len(inbox) : inbox[i].seq = r
      BY <1>3 DEF Waiting
    <3>2. CASE i = 1
      BY <1>1, <1>2, <1>3, <3>1, <3>2 DEF Waiting
    <3>3. CASE i # 1
      BY <1>2, <3>1, <3>3 DEF Waiting
    <3> QED
      BY <3>2, <3>3
  <2>2. Waiting(r)' => Waiting(r)
    BY <1>1, <1>2 DEF Waiting
  <2> QED
    BY <1>1, <1>3, <2>1, <2>2, SameState DEF Answering, Owned
<1> QED
  BY <1>1, <1>4, NoneMoves

\* A host call that starts and stops nothing is a stutter.
LEMMA ResultMaps ==
  ASSUME IInv, cur # NoReq, ~called, called' = TRUE, inbox' = inbox, procs' = procs,
         cur'.seq = cur.seq, cur'.rc # "ok" \/ cur'.type \notin Starts
  PROVE  St' = St
<1>1. \A r \in Seqs : Owned(r)' <=> Owned(r)
  BY DEF Owned
<1>2. \A r \in Seqs : State(r)' = State(r)
  BY <1>1, ResultState
<1> QED
  BY <1>2, NoneMoves

\* HostAccepts is Accept.
LEMMA HostAcceptsMaps ==
  ASSUME IInv, HostAccepts
  PROVE  Session!Next
<1>1. /\ cur.type \in Starts /\ ~called /\ called' = TRUE /\ cur' = cur /\ inbox' = inbox
      /\ last' = last
  BY DEF HostAccepts
<1>2. cur # NoReq
  BY <1>1, TypedCur DEF Types
<1>3. PICK s \in Seqs : s = cur.seq
  BY <1>2, CurState
<1>4. State(s) = "asked" /\ \A i \in 1 .. Len(inbox) : inbox[i].seq # s
  BY <1>1, <1>2, <1>3, CurState
<1>5. \A r \in Seqs : Owned(r)' <=> Owned(r) \/ r = s
  <2>1. PICK on : procs' = procs \union {[seq |-> cur.seq, kind |-> cur.type, on |-> on]}
    BY DEF HostAccepts, SeqArg
  <2> DEFINE new == [seq |-> s, kind |-> cur.type, on |-> on]
  <2>2. procs' = procs \union {new} /\ new.seq = s
    BY <1>3, <2>1
  <2> HIDE DEF new
  <2> QED
    BY <2>2 DEF Owned
<1>6. State(s)' = "accepted"
  <2>1. cur.rc = "ok"
    BY <1>1 DEF IInv, Kept, Fresh
  <2> QED
    BY <1>1, <1>3, <1>4, <1>5, <2>1 DEF State, Waiting, Answering
<1>7. ASSUME NEW r \in Seqs, r # s PROVE State(r)' = State(r)
  BY <1>1, <1>3, <1>5, <1>7 DEF State, Waiting, Answering
<1>8. St' = [St EXCEPT ![s] = "accepted"] /\ St[s] = "asked"
  BY <1>4, <1>6, <1>7, OneMoves DEF St
<1>9. Session!Accept(s)
  BY <1>1, <1>8 DEF Session!Accept, Session!Moves, St
<1> QED
  BY <1>9 DEF Session!Next

\* HostStops is Stop, or a stutter when it finds nothing.
LEMMA HostStopsMaps ==
  ASSUME IInv, HostStops
  PROVE  Session!Next \/ (St' = St /\ last' = last)
<1>1. cur.type \in Stops /\ ~called /\ called' = TRUE /\ inbox' = inbox
      /\ procs' = procs \ Stopped(cur.type) /\ last' = last
  BY DEF HostStops
<1>2. cur # NoReq
  BY <1>1, TypedCur DEF Types
<1>3. cur'.seq = cur.seq /\ cur'.type = cur.type
  BY <1>2, CurResult DEF HostStops, IInv
<1>4. cur'.type \notin Starts
  BY <1>1, <1>3 DEF Starts, Stops, OnConn
<1>5. CASE Stopped(cur.type) = {}
  BY <1>1, <1>2, <1>3, <1>4, <1>5, ResultMaps
<1>6. CASE Stopped(cur.type) # {}
  <2>1. PICK p \in procs : p \in Stopped(cur.type)
    BY <1>6 DEF Stopped
  <2>2. procs' = procs \ {p}
    BY <1>1, <2>1 DEF Stopped, IInv, Kept, OneAtATime
  <2> DEFINE s == p.seq
  <2>3. s \in Seqs
    BY DEF IInv, TypeOK, Procs
  <2>4. \A r \in Seqs : r # s => (Owned(r)' <=> Owned(r))
    BY <2>2 DEF Owned
  <2>5. Owned(s) /\ ~Owned(s)'
    BY <2>2 DEF Owned, IInv, Kept, OneOwner
  <2>6. ~Waiting(s) /\ s # cur.seq
    BY <1>1, <1>2, <2>3, <2>5, CurState DEF IInv, Kept, OneOwner
  <2>7. State(s) = "running"
    BY <1>1, <2>5, <2>6 DEF State, Answering
  <2>8. State(s)' = "free"
    BY <1>1, <1>3, <2>5, <2>6 DEF State, Waiting, Answering
  <2>9. \A r \in Seqs : r # s => State(r)' = State(r)
    BY <1>1, <1>2, <1>3, <1>4, <2>4, ResultState
  <2>10. St' = [St EXCEPT ![s] = "free"] /\ St[s] = "running"
    BY <2>3, <2>7, <2>8, <2>9, OneMoves DEF St
  <2>11. cur.seq \in Seqs /\ St[cur.seq] = "asked"
    BY <1>1, <1>2, CurState DEF St
  <2>12. Session!Stop(s)
    BY <1>1, <2>10, <2>11 DEF Session!Stop, Session!Moves, St
  <2> QED
    BY <2>3, <2>12 DEF Session!Next
<1> QED
  BY <1>5, <1>6

\* SendRsp is Answer.
LEMMA SendRspMaps ==
  ASSUME IInv, SendRsp
  PROVE  Session!Next
<1>1. /\ cur # NoReq /\ called /\ cur' = NoReq /\ called' = FALSE
      /\ UNCHANGED <<inbox, procs>> /\ Says("rsp", cur.seq, cur.rc)
  BY DEF SendRsp
<1>2. PICK s \in Seqs : s = cur.seq
  BY <1>1, CurState
<1>3. /\ ~Waiting(s) /\ Answering(s)
      /\ \A i \in 1 .. Len(inbox) : inbox[i].seq # s
  BY <1>1, <1>2, CurState
<1>4. cur.rc \in {"ok", "error"}
  BY <1>1, CurIsReq DEF IInv
<1>5. cur'.seq = NoSeq /\ NoSeq \notin Seqs
  BY <1>1, AsyncAssumption DEF NoReq
<1>6. \A r \in Seqs : ~Answering(r)' /\ (Owned(r)' <=> Owned(r))
  BY <1>1, <1>5 DEF Answering, Owned
<1>7. ~Waiting(s)'
  BY <1>1, <1>3, <1>5 DEF Waiting
<1>8. ASSUME NEW r \in Seqs, r # s PROVE State(r)' = State(r)
  BY <1>1, <1>2, <1>5, <1>6, <1>8 DEF State, Waiting, Answering
<1>9. State(s)' = IF Owned(s) THEN "running" ELSE "free"
  BY <1>3, <1>6, <1>7 DEF State
<1>10. St' = [St EXCEPT ![s] = IF Owned(s) THEN "running" ELSE "free"] /\ St[s] = State(s)
  BY <1>3, <1>8, <1>9, OneMoves DEF St
<1>11. Session!Answer(s)
  <2>1. CASE cur.rc # "ok" \/ cur.type \notin Starts
    <3>1. ~Owned(s) /\ State(s) = "asked"
      BY <1>1, <1>2, <1>3, <2>1 DEF IInv, Kept, AcceptedOnly, State
    <3>2. Session!Moves(s, {"asked"}, "free")
      BY <1>10, <3>1 DEF Session!Moves, St
    <3> QED
      BY <1>1, <1>4, <1>2, <3>2 DEF Session!Answer, Session!Says, Says
  <2>2. CASE cur.rc = "ok" /\ cur.type \in Starts /\ Owned(s)
    <3>1. State(s) = "accepted"
      BY <1>3, <2>2 DEF State
    <3>2. Session!Moves(s, {"accepted"}, "running")
      BY <1>10, <2>2, <3>1 DEF Session!Moves, St
    <3> QED
      BY <1>1, <2>2, <1>2, <3>2 DEF Session!Answer, Session!Says, Says
  <2>3. CASE cur.rc = "ok" /\ cur.type \in Starts /\ ~Owned(s)
    <3>1. State(s) = "ended"
      BY <1>3, <2>3 DEF State
    <3>2. Session!Moves(s, {"ended"}, "free")
      BY <1>10, <2>3, <3>1 DEF Session!Moves, St
    <3> QED
      BY <1>1, <2>3, <1>2, <3>2 DEF Session!Answer, Session!Says, Says
  <2> QED
    BY <2>1, <2>2, <2>3
<1> QED
  BY <1>11 DEF Session!Next

\* The session of a procedure that reports is accepted or running.
LEMMA ReporterState ==
  ASSUME IInv, NEW p \in procs
  PROVE  /\ p.seq \in Seqs /\ Owned(p.seq) /\ ~Waiting(p.seq)
         /\ State(p.seq) = IF Answering(p.seq) THEN "accepted" ELSE "running"
         /\ Answering(p.seq) => cur.rc = "ok" /\ cur.type \in Starts
<1>1. p.seq \in Seqs /\ Owned(p.seq)
  BY DEF IInv, TypeOK, Procs, Owned
<1>2. ~Waiting(p.seq)
  BY <1>1 DEF IInv, Kept, OneOwner
<1>3. Answering(p.seq) => cur.rc = "ok" /\ cur.type \in Starts
  BY <1>1 DEF IInv, Kept, AcceptedOnly, Answering
<1> QED
  BY <1>1, <1>2, <1>3 DEF State

\* MoreEvt and Connected are Event.
LEMMA EventMaps ==
  ASSUME IInv, NEW p \in procs, Says("evt", p.seq, "more"),
         UNCHANGED <<inbox, cur, called>>, \A r \in Seqs : Owned(r)' <=> Owned(r)
  PROVE  Session!Next
<1>1. p.seq \in Seqs /\ State(p.seq) \in {"accepted", "running"}
  BY ReporterState
<1>2. \A r \in Seqs : State(r)' = State(r)
  BY DEF State, Waiting, Answering
<1>3. St' = St /\ St[p.seq] \in {"accepted", "running"}
  BY <1>1, <1>2, NoneMoves DEF St
<1>4. Session!Event(p.seq)
  BY <1>3 DEF Session!Event, Session!Says, Says, St
<1> QED
  BY <1>1, <1>4 DEF Session!Next

\* LastEvt is LastEvent.
LEMMA LastEvtMaps ==
  ASSUME IInv, NEW p \in procs, LastEvt(p)
  PROVE  Session!Next
<1> DEFINE s == p.seq
<1>1. /\ procs' = procs \ {p} /\ UNCHANGED <<inbox, cur, called>>
      /\ Says("evt", s, "last")
  BY DEF LastEvt, EndSeq
<1>2. /\ s \in Seqs /\ ~Waiting(s)
      /\ State(s) = IF Answering(s) THEN "accepted" ELSE "running"
      /\ Answering(s) => cur.rc = "ok" /\ cur.type \in Starts
  BY ReporterState
<1>3. ~Owned(s)' /\ \A r \in Seqs : r # s => (Owned(r)' <=> Owned(r))
  BY <1>1 DEF Owned, IInv, Kept, OneOwner
<1>4. State(s)' = IF Answering(s) THEN "ended" ELSE "free"
  BY <1>1, <1>2, <1>3 DEF State, Waiting, Answering
<1>5. ASSUME NEW r \in Seqs, r # s PROVE State(r)' = State(r)
  BY <1>1, <1>3, <1>5 DEF State, Waiting, Answering
<1>6. St' = [St EXCEPT ![s] = IF Answering(s) THEN "ended" ELSE "free"] /\ St[s] = State(s)
  BY <1>2, <1>4, <1>5, OneMoves DEF St
<1>7. Session!LastEvent(s)
  <2>1. CASE Answering(s)
    <3>1. Session!Moves(s, {"accepted"}, "ended")
      BY <1>2, <1>6, <2>1 DEF Session!Moves, St
    <3> QED
      BY <1>1, <3>1 DEF Session!LastEvent, Session!Says, Says
  <2>2. CASE ~Answering(s)
    <3>1. Session!Moves(s, {"running"}, "free")
      BY <1>2, <1>6, <2>2 DEF Session!Moves, St
    <3> QED
      BY <1>1, <3>1 DEF Session!LastEvent, Session!Says, Says
  <2> QED
    BY <2>1, <2>2
<1> QED
  BY <1>2, <1>7 DEF Session!Next

\* Every step is a step of some session or changes none.
LEMMA SessionStep ==
  ASSUME IInv, [Next]_vars
  PROVE  Session!Next \/ (St' = St /\ last' = last)
<1>1. ASSUME NEW s \in Seqs, NEW type \in Types, ClientAsks(s, type)
      PROVE  Session!Next
  BY <1>1, ClientAsksMaps
<1>2. CASE TakeReq
  BY <1>2, TakeReqMaps
<1>3. CASE BadParam
  <2>1. cur'.seq = cur.seq /\ cur'.rc = "error"
    BY <1>3, CurResult DEF BadParam, IInv
  <2> QED
    BY <1>3, <2>1, ResultMaps DEF BadParam
<1>4. CASE HostAccepts
  BY <1>4, HostAcceptsMaps
<1>5. CASE HostRefuses
  <2>1. cur # NoReq
    BY <1>5, TypedCur DEF HostRefuses, Types
  <2>2. cur'.seq = cur.seq /\ cur'.rc = "error"
    BY <1>5, <2>1, CurResult DEF HostRefuses, IInv
  <2> QED
    BY <1>5, <2>1, <2>2, ResultMaps DEF HostRefuses
<1>6. CASE HostStops
  BY <1>6, HostStopsMaps
<1>7. CASE RunPlain
  <2>1. cur # NoReq
    BY <1>7, TypedCur DEF RunPlain, Types
  <2>2. PICK rc \in {"ok", "error"} : cur' = [cur EXCEPT !.rc = rc]
    BY <1>7 DEF RunPlain
  <2>3. cur'.seq = cur.seq /\ cur'.type = "plain"
    BY <1>7, <2>1, <2>2, CurResult DEF IInv, RunPlain
  <2> QED
    BY <1>7, <2>1, <2>3, ResultMaps DEF RunPlain, Starts, OnConn
<1>8. CASE SendRsp
  BY <1>8, SendRspMaps
<1>9. ASSUME NEW p \in procs, MoreEvt(p)
      PROVE  Session!Next
  <2>1. \A r \in Seqs : Owned(r)' <=> Owned(r)
    BY <1>9 DEF MoreEvt, Owned
  <2> QED
    BY <1>9, <2>1, EventMaps DEF MoreEvt
<1>10. ASSUME NEW p \in procs, LastEvt(p)
       PROVE  Session!Next
  BY <1>10, LastEvtMaps
<1>11. ASSUME NEW p \in procs, Connected(p)
       PROVE  Session!Next
  <2> DEFINE c == [p EXCEPT !.kind = "conn"]
  <2>1. p \in Procs
    BY DEF IInv, TypeOK
  <2>2. c.seq = p.seq
    BY <2>1 DEF Procs
  <2>3. procs' = (procs \ {p}) \union {c}
    BY <1>11 DEF Connected
  <2> HIDE DEF c
  <2>4. \A r \in Seqs : Owned(r)' <=> Owned(r)
    BY <2>2, <2>3 DEF Owned
  <2> QED
    BY <1>11, <2>4, EventMaps DEF Connected
<1>12. CASE UnsolicitedEvt
  <2>1. \A r \in Seqs : State(r)' = State(r)
    BY <1>12 DEF UnsolicitedEvt, State, Waiting, Answering, Owned
  <2>2. St' = St
    BY <2>1, NoneMoves
  <2>3. CASE UNCHANGED last
    BY <2>2, <2>3 DEF St
  <2>4. CASE last'.seq = EvtSeq /\ Says("evt", EvtSeq, "more")
    <3>1. Session!Unsolicited(last'.seq)
      BY <2>2, <2>4, AsyncAssumption DEF Session!Unsolicited, Session!Says, Says, St
    <3> QED
      BY <3>1 DEF Session!Next
  <2> QED
    BY <1>12, <2>3, <2>4 DEF UnsolicitedEvt, Says
<1>13. CASE UNCHANGED vars
  <2>1. \A r \in Seqs : State(r)' = State(r)
    BY <1>13 DEF vars, State, Waiting, Answering, Owned
  <2> QED
    BY <1>13, <2>1, NoneMoves DEF vars
<1> QED
  BY <1>1, <1>2, <1>3, <1>4, <1>5, <1>6, <1>7, <1>8, <1>9, <1>10, <1>11, <1>12, <1>13
  DEF Next, HandleReq

\* At first every number is free.
LEMMA SessionInit == Init => Session!Init
<1> SUFFICES ASSUME Init PROVE Session!Init
  OBVIOUS
<1>1. Len(inbox) = 0 /\ cur.seq = NoSeq
  BY DEF Init, NoReq
<1>2. \A s \in Seqs : ~Waiting(s) /\ ~Answering(s) /\ ~Owned(s)
  BY <1>1, AsyncAssumption DEF Init, Waiting, Answering, Owned
<1>3. \A s \in Seqs : State(s) = "free"
  BY <1>2 DEF State
<1>4. [s \in Seqs |-> State(s)] = [s \in Seqs |-> "free"]
  BY <1>3
<1> QED
  BY <1>4 DEF Init, Session!Init

\* Requests and procedures implement ReqSession: one answer per request, events
\* with its number only while what it asked for is in progress, none after the
\* last (bhd_rsp_send(), the callbacks of bhd_gap.c and bhd_gattc.c).
THEOREM SessionRefinement == Spec => ImplementsSession
<1>1. IInv /\ [Next]_vars => [Session!Next]_(Session!sessVars)
  BY SessionStep DEF Session!sessVars, St
<1> QED
  BY <1>1, SessionInit, AsyncInv, PTL DEF Spec, ImplementsSession, Session!Spec

=============================================================================
