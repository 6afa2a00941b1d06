--------------------------- MODULE RspQueue_proofs ---------------------------
(***************************************************************************)
(* Proofs about the output path, for every number of messages, every       *)
(* socket capacity and both schedulers.                                    *)
(***************************************************************************)
EXTENDS RspQueue, SequenceTheorems, TLAPS

Num == Nat \ {0}

-----------------------------------------------------------------------------
(* Sequences as sets of messages.                                          *)

\* Queueing a new message at the tail.
LEMMA AppendSet ==
  ASSUME NEW s \in Seq(Num), NEW x \in Num
  PROVE  /\ Append(s, x) \in Seq(Num)
         /\ ToSet(Append(s, x)) = ToSet(s) \union {x}
         /\ (IsInjective(s) /\ x \notin ToSet(s)) => IsInjective(Append(s, x))
<1>1. /\ Append(s, x) \in Seq(Num) /\ Len(s) \in Nat
      /\ DOMAIN s = 1 .. Len(s)
      /\ DOMAIN Append(s, x) = 1 .. Len(s) + 1
      /\ \A i \in 1 .. Len(s) : Append(s, x)[i] = s[i]
      /\ Append(s, x)[Len(s) + 1] = x
  BY AppendProperties, LenProperties
<1>2. ToSet(Append(s, x)) = ToSet(s) \union {x}
  <2>1. \A i \in 1 .. Len(s) + 1 : i \in 1 .. Len(s) \/ i = Len(s) + 1
    BY <1>1
  <2>2. \A i \in 1 .. Len(s) : i \in 1 .. Len(s) + 1
    BY <1>1
  <2>3. Len(s) + 1 \in 1 .. Len(s) + 1
    BY <1>1
  <2> QED
    BY <1>1, <2>1, <2>2, <2>3 DEF ToSet
<1>3. (IsInjective(s) /\ x \notin ToSet(s)) => IsInjective(Append(s, x))
  BY <1>1 DEF IsInjective, ToSet
<1> QED
  BY <1>1, <1>2, <1>3

\* Taking the head off.
LEMMA TailSet ==
  ASSUME NEW s \in Seq(Num), s # << >>
  PROVE  /\ Head(s) \in Num /\ Tail(s) \in Seq(Num)
         /\ ToSet(s) = {Head(s)} \union ToSet(Tail(s))
         /\ IsInjective(s) => IsInjective(Tail(s)) /\ Head(s) \notin ToSet(Tail(s))
<1>1. /\ Tail(s) \in Seq(Num) /\ Len(s) \in Nat /\ Len(s) > 0
      /\ Head(s) = s[1] /\ Head(s) \in Num
      /\ DOMAIN s = 1 .. Len(s)
      /\ DOMAIN Tail(s) = 1 .. Len(s) - 1
      /\ \A i \in 1 .. Len(s) - 1 : Tail(s)[i] = s[i + 1]
  BY HeadTailProperties, LenProperties, EmptySeq
<1>2. ToSet(s) = {Head(s)} \union ToSet(Tail(s))
  <2>1. ASSUME NEW i \in 1 .. Len(s), i # 1 PROVE s[i] \in ToSet(Tail(s))
    <3>1. i - 1 \in 1 .. Len(s) - 1 /\ (i - 1) + 1 = i
      BY <1>1, <2>1
    <3>2. Tail(s)[i - 1] = s[i]
      BY <1>1, <3>1
    <3> QED
      BY <1>1, <3>1, <3>2 DEF ToSet
  <2>2. \A i \in 1 .. Len(s) - 1 : i + 1 \in 1 .. Len(s)
    BY <1>1
  <2>3. ToSet(s) \subseteq {Head(s)} \union ToSet(Tail(s))
    BY <1>1, <2>1 DEF ToSet
  <2>4. {Head(s)} \union ToSet(Tail(s)) \subseteq ToSet(s)
    <3>1. 1 \in 1 .. Len(s)
      BY <1>1
    <3>2. Head(s) \in ToSet(s)
      BY <1>1, <3>1 DEF ToSet
    <3>3. \A i \in 1 .. Len(s) - 1 : Tail(s)[i] \in ToSet(s)
      BY <1>1, <2>2 DEF ToSet
    <3> QED
      BY <1>1, <3>2, <3>3 DEF ToSet
  <2> QED
    BY <2>3, <2>4
<1>3. IsInjective(s) => IsInjective(Tail(s)) /\ Head(s) \notin ToSet(Tail(s))
  BY <1>1 DEF IsInjective, ToSet
<1> QED
  BY <1>1, <1>2, <1>3

\* Putting a message back at the head.
LEMMA ConsSet ==
  ASSUME NEW s \in Seq(Num), NEW x \in Num
  PROVE  /\ <<x>> \o s \in Seq(Num)
         /\ ToSet(<<x>> \o s) = {x} \union ToSet(s)
         /\ (IsInjective(s) /\ x \notin ToSet(s)) => IsInjective(<<x>> \o s)
<1>1. <<x>> \in Seq(Num) /\ Len(<<x>>) = 1 /\ <<x>>[1] = x
  OBVIOUS
<1>2. /\ <<x>> \o s \in Seq(Num) /\ Len(s) \in Nat
      /\ DOMAIN s = 1 .. Len(s)
      /\ DOMAIN (<<x>> \o s) = 1 .. Len(s) + 1
      /\ \A i \in 1 .. Len(s) + 1 : (<<x>> \o s)[i] = IF i = 1 THEN x ELSE s[i - 1]
  BY <1>1, ConcatProperties, LenProperties
<1> DEFINE t == <<x>> \o s
<1> HIDE DEF t
<1>3. /\ t \in Seq(Num) /\ DOMAIN t = 1 .. Len(s) + 1
      /\ t[1] = x /\ \A i \in 1 .. Len(s) : t[i + 1] = s[i]
  BY <1>2 DEF t
<1>4. ToSet(t) = {x} \union ToSet(s)
  <2>1. ASSUME NEW i \in 1 .. Len(s) + 1, i # 1 PROVE t[i] \in ToSet(s)
    <3>1. i - 1 \in 1 .. Len(s) /\ (i - 1) + 1 = i
      BY <1>2, <2>1
    <3>2. t[i] = s[i - 1]
      BY <1>3, <3>1
    <3> QED
      BY <1>2, <3>1, <3>2 DEF ToSet
  <2>2. \A i \in 1 .. Len(s) : i + 1 \in 1 .. Len(s) + 1
    BY <1>2
  <2>3. 1 \in 1 .. Len(s) + 1
    BY <1>2
  <2>4. ToSet(t) \subseteq {x} \union ToSet(s)
    BY <1>2, <1>3, <2>1 DEF ToSet
  <2>5. {x} \union ToSet(s) \subseteq ToSet(t)
    <3>1. x \in ToSet(t)
      BY <1>3, <2>3 DEF ToSet
    <3>2. \A i \in 1 .. Len(s) : s[i] \in ToSet(t)
      BY <1>3, <2>2 DEF ToSet
    <3> QED
      BY <1>2, <3>1, <3>2 DEF ToSet
  <2> QED
    BY <2>4, <2>5
<1>5. (IsInjective(s) /\ x \notin ToSet(s)) => IsInjective(t)
  <2> SUFFICES ASSUME IsInjective(s), x \notin ToSet(s),
                      NEW i \in DOMAIN t, NEW j \in DOMAIN t, t[i] = t[j]
               PROVE  i = j
    BY DEF IsInjective
  <2>1. /\ i = 1 \/ (i - 1 \in 1 .. Len(s) /\ t[i] = s[i - 1])
        /\ j = 1 \/ (j - 1 \in 1 .. Len(s) /\ t[j] = s[j - 1])
        /\ i \in Nat /\ j \in Nat
    BY <1>2, <1>3 DEF t
  <2> QED
    BY <1>2, <1>3, <2>1 DEF IsInjective, ToSet
<1> QED
  BY <1>2, <1>4, <1>5 DEF t

-----------------------------------------------------------------------------
(* Type correctness.                                                       *)

LEMMA QueueTyped ==
  ASSUME TypeOK
  PROVE  /\ rsp_mq \in Seq(Num) /\ sent \in Seq(Num)
         /\ accepted + 1 \in Num
         /\ \A t \in Tasks : om[t] # 0 => om[t] \in Num
BY RspAssumption DEF TypeOK, Num, Tasks

\* Every step keeps the variables in their ranges.
LEMMA TypeStep == ASSUME TypeOK, [Next]_vars PROVE TypeOK'
<1> USE RspAssumption DEF Tasks, PCs
<1>1. CASE Connect
  BY <1>1 DEF TypeOK, Connect
<1>2. ASSUME EnqueueRsp
      PROVE  /\ rsp_mq' \in Seq(Nat \ {0}) /\ accepted' \in 0 .. MaxMsgs
             /\ mq_ev' \in {"none", "blehostd", "dflt"}
  <2>1. rsp_mq' \in Seq(Num)
    BY <1>2, QueueTyped, AppendSet DEF EnqueueRsp
  <2> QED
    BY <1>2, <2>1 DEF EnqueueRsp, Post, EventPut, TypeOK, Num
<1>3. ASSUME NEW t \in Tasks, Produce(t) PROVE TypeOK'
  BY <1>2, <1>3 DEF TypeOK, Produce
<1>4. ASSUME NEW t \in Tasks, Refuse(t) PROVE TypeOK'
  BY <1>4 DEF TypeOK, Refuse
<1>5. CASE BlockMain
  BY <1>2, <1>5 DEF TypeOK, BlockMain
<1>6. CASE UnblockMain
  BY <1>6 DEF TypeOK, UnblockMain
<1>7. ASSUME NEW t \in Tasks, RunEvent(t) PROVE TypeOK'
  BY <1>7 DEF TypeOK, RunEvent
<1>8. ASSUME NEW t \in Tasks, Get(t) PROVE TypeOK'
  <2>1. Head(rsp_mq) \in Num /\ rsp_mq' \in Seq(Num)
    BY <1>8, QueueTyped, TailSet DEF Get, Rest
  <2> QED
    BY <1>8, <2>1 DEF TypeOK, Get, Num
<1>9. ASSUME NEW t \in Tasks, GetNothing(t) PROVE TypeOK'
  BY <1>9 DEF TypeOK, GetNothing
<1>10. ASSUME NEW t \in Tasks, SendOk(t) PROVE TypeOK'
  <2>1. om[t] \in Num
    BY <1>10, QueueTyped DEF TypeOK, SendOk
  <2>2. sent' \in Seq(Num)
    BY <1>10, <2>1, QueueTyped, AppendSet DEF SendOk
  <2>3. room' \in 0 .. Room
    BY <1>10 DEF TypeOK, SendOk, SocketTakes
  <2> QED
    BY <1>10, <2>2, <2>3 DEF TypeOK, SendOk, Num
<1>11. ASSUME NEW t \in Tasks, SendAgain(t) PROVE TypeOK'
  BY <1>11 DEF TypeOK, SendAgain
<1>12. ASSUME NEW t \in Tasks, PutBack(t) PROVE TypeOK'
  <2>1. om[t] \in Num
    BY <1>12, QueueTyped DEF TypeOK, PutBack
  <2>2. rsp_mq' \in Seq(Num)
    BY <1>12, <2>1, QueueTyped, ConsSet DEF PutBack, WithAgain
  <2> QED
    BY <1>12, <2>2 DEF TypeOK, PutBack, Num
<1>13. CASE SocketWritable
  BY <1>13 DEF TypeOK, SocketWritable, PostWritable, EventPut
<1>14. CASE UNCHANGED vars
  BY <1>14 DEF TypeOK, vars
<1> QED
  BY <1>1, <1>3, <1>4, <1>5, <1>6, <1>7, <1>8, <1>9, <1>10, <1>11, <1>12, <1>13, <1>14
     DEF Next, Drain

LEMMA TypeInit == Init => TypeOK
BY RspAssumption DEF Init, TypeOK, Tasks, PCs

\* The output path keeps its variables in their ranges, and a task holds a
\* message exactly between os_mqueue_get() and the send or the put-back.
THEOREM RspTypeCorrect == Spec => []TypeOK
BY TypeInit, TypeStep, PTL DEF Spec

-----------------------------------------------------------------------------
(* No message is lost and none is duplicated.                              *)

\* Only the steps below move a message.
LEMMA ExactlyOnceStep == ASSUME TypeOK, ExactlyOnce, [Next]_vars PROVE ExactlyOnce'
<1> USE DEF Tasks, Held, Msgs
<1>1. ASSUME UNCHANGED <<rsp_mq, sent, accepted, om>> PROVE ExactlyOnce'
  BY <1>1 DEF ExactlyOnce
<1>2. ASSUME EnqueueRsp, UNCHANGED <<sent, om>> PROVE ExactlyOnce'
  <2>1. accepted \in Nat /\ Msgs' = Msgs \union {accepted + 1} /\ accepted + 1 \notin Msgs
    BY <1>2, RspAssumption DEF EnqueueRsp, TypeOK
  <2>2. accepted + 1 \notin ToSet(rsp_mq) \union ToSet(sent) \union Held
    BY <2>1 DEF ExactlyOnce
  <2>3. /\ ToSet(rsp_mq') = ToSet(rsp_mq) \union {accepted + 1}
        /\ IsInjective(rsp_mq) => IsInjective(rsp_mq')
    BY <1>2, <2>2, QueueTyped, AppendSet DEF EnqueueRsp
  <2> QED
    BY <1>2, <2>1, <2>2, <2>3 DEF ExactlyOnce
<1>3. ASSUME NEW t \in Tasks, Get(t) PROVE ExactlyOnce'
  <2> DEFINE m == Head(rsp_mq)
  <2>1. /\ m \in Num
        /\ ToSet(rsp_mq) = {m} \union ToSet(rsp_mq')
        /\ IsInjective(rsp_mq) => IsInjective(rsp_mq') /\ m \notin ToSet(rsp_mq')
    BY <1>3, QueueTyped, TailSet DEF Get, Rest
  <2>2. om[t] = 0 /\ om'[t] = m /\ \A u \in Tasks : u # t => om'[u] = om[u]
    BY <1>3 DEF Get, TypeOK
  <2>3. Held' = Held \union {m}
    BY <2>1, <2>2 DEF Num
  <2>4. m \notin Held
    BY <2>1 DEF ExactlyOnce
  <2>5. om'["main"] # 0 => om'["main"] # om'["blehostd"]
    BY <2>1, <2>2, <2>4 DEF Num
  <2> HIDE DEF Held, m
  <2> QED
    BY <1>3, <2>1, <2>3, <2>4, <2>5 DEF ExactlyOnce, Get
<1>4. ASSUME NEW t \in Tasks, pc[t] \in {"send", "putback"}, om' = [om EXCEPT ![t] = 0]
      PROVE  /\ om[t] \in Num /\ om[t] \in Held /\ Held' = Held \ {om[t]}
             /\ om'["main"] # 0 => om'["main"] # om'["blehostd"]
  <2>1. om[t] \in Num
    BY <1>4, QueueTyped DEF TypeOK
  <2>2. om'[t] = 0 /\ \A u \in Tasks : u # t => om'[u] = om[u] /\ om[u] # om[t]
    BY <1>4, <2>1 DEF TypeOK, ExactlyOnce, Num
  <2> QED
    BY <2>1, <2>2 DEF Num
<1>5. ASSUME NEW t \in Tasks, SendOk(t) PROVE ExactlyOnce'
  <2>1. /\ om[t] \in Num /\ om[t] \in Held /\ Held' = Held \ {om[t]}
        /\ om'["main"] # 0 => om'["main"] # om'["blehostd"]
    BY <1>4, <1>5 DEF SendOk
  <2>2. om[t] \notin ToSet(sent)
    BY <2>1 DEF ExactlyOnce
  <2>3. /\ ToSet(sent') = ToSet(sent) \union {om[t]}
        /\ IsInjective(sent) => IsInjective(sent')
    BY <1>5, <2>1, <2>2, QueueTyped, AppendSet DEF SendOk
  <2> HIDE DEF Held
  <2> QED
    BY <1>5, <2>1, <2>2, <2>3 DEF ExactlyOnce, SendOk
<1>6. ASSUME NEW t \in Tasks, PutBack(t) PROVE ExactlyOnce'
  <2>1. /\ om[t] \in Num /\ om[t] \in Held /\ Held' = Held \ {om[t]}
        /\ om'["main"] # 0 => om'["main"] # om'["blehostd"]
    BY <1>4, <1>6 DEF PutBack
  <2>2. om[t] \notin ToSet(rsp_mq)
    BY <2>1 DEF ExactlyOnce
  <2>3. /\ ToSet(rsp_mq') = ToSet(rsp_mq) \union {om[t]}
        /\ IsInjective(rsp_mq) => IsInjective(rsp_mq')
    BY <1>6, <2>1, <2>2, QueueTyped, ConsSet DEF PutBack, WithAgain
  <2> HIDE DEF Held
  <2> QED
    BY <1>6, <2>1, <2>2, <2>3 DEF ExactlyOnce, PutBack
<1> QED
  BY <1>1, <1>2, <1>3, <1>5, <1>6
     DEF Next, Drain, Connect, Produce, Refuse, BlockMain, UnblockMain, RunEvent,
         GetNothing, SendAgain, SocketWritable, vars

LEMMA ExactlyOnceInit == Init => ExactlyOnce
BY DEF Init, ExactlyOnce, Held, Msgs, Tasks, ToSet, IsInjective

\* Conservation: what blehostd_enqueue_rsp() accepted is in exactly one place,
\* with two tasks draining the queue, under either scheduler.
THEOREM NothingLostOrDuplicated == Spec => []ExactlyOnce
BY TypeInit, TypeStep, ExactlyOnceInit, ExactlyOnceStep, PTL DEF Spec

-----------------------------------------------------------------------------
(* Tasks that run until they wait: messages keep their order.              *)

\* 1 while a task holds a message, 0 otherwise.
InHand == IF \E t \in Tasks : om[t] # 0 THEN 1 ELSE 0

\* Only one task drains at a time; what was sent, what is held and what is
\* queued are consecutive; a message is put back only while the socket is full.
Fifo ==
  /\ ~(Draining("main") /\ Draining("blehostd"))
  /\ \A i \in 1 .. Len(sent) : sent[i] = i
  /\ \A t \in Tasks : om[t] # 0 => om[t] = Len(sent) + 1
  /\ \A i \in 1 .. Len(rsp_mq) : rsp_mq[i] = Len(sent) + InHand + i
  /\ Len(sent) + InHand + Len(rsp_mq) = accepted
  /\ \A t \in Tasks : pc[t] = "putback" => room = 0

\* At most one task drains, so the other one holds nothing.
LEMMA OneDrains ==
  ASSUME TypeOK, Fifo, NEW t \in Tasks, Draining(t)
  PROVE  \A u \in Tasks : u # t => om[u] = 0 /\ ~Draining(u)
BY DEF TypeOK, Fifo, Draining, Tasks

LEMMA SeqFacts ==
  ASSUME TypeOK
  PROVE  /\ rsp_mq \in Seq(Num) /\ sent \in Seq(Num)
         /\ Len(rsp_mq) \in Nat /\ Len(sent) \in Nat /\ accepted \in Nat
BY QueueTyped, LenProperties, RspAssumption DEF TypeOK

LEMMA FifoStep ==
  ASSUME Preemptive = FALSE, TypeOK, TypeOK', Fifo, [Next]_vars
  PROVE  Fifo'
<1> USE DEF Tasks
<1>0. \A t \in Tasks : MayRun(t) => \A u \in Tasks : u # t => ~Draining(u)
  BY DEF MayRun, MainReady
<1>1. ASSUME EnqueueRsp, UNCHANGED <<sent, om, room>>,
             \A t \in Tasks : pc'[t] = pc[t] \/ pc'[t] = "blocked"
      PROVE  Fifo'
  <2>1. /\ Len(rsp_mq') = Len(rsp_mq) + 1
        /\ \A i \in 1 .. Len(rsp_mq) : rsp_mq'[i] = rsp_mq[i]
        /\ rsp_mq'[Len(rsp_mq) + 1] = accepted + 1
    BY <1>1, QueueTyped, AppendProperties DEF EnqueueRsp
  <2>2. InHand' = InHand /\ InHand \in {0, 1}
    BY <1>1 DEF InHand
  <2>3. ASSUME NEW i \in 1 .. Len(rsp_mq') PROVE rsp_mq'[i] = Len(sent) + InHand + i
    <3> DEFINE n == Len(rsp_mq)  k == Len(sent)
    <3>1. n \in Nat /\ k \in Nat /\ i \in 1 .. n + 1 /\ k + InHand + n = accepted
      BY <2>1, SeqFacts DEF Fifo
    <3>2. i \in 1 .. n => rsp_mq'[i] = k + InHand + i
      BY <2>1 DEF Fifo
    <3>3. i = n + 1 => rsp_mq'[i] = accepted + 1
      BY <2>1
    <3> HIDE DEF n, k
    <3>4. i \in 1 .. n \/ i = n + 1
      BY <3>1
    <3>5. rsp_mq'[i] = k + InHand + i
      BY <2>2, <3>1, <3>2, <3>3, <3>4
    <3> QED
      BY <3>5 DEF k
  <2>4. Len(sent) + InHand + Len(rsp_mq') = accepted'
    BY <1>1, <2>1, <2>2, SeqFacts DEF Fifo, EnqueueRsp
  <2> QED
    BY <1>1, <2>2, <2>3, <2>4 DEF Fifo, Draining
<1>2. ASSUME UNCHANGED <<rsp_mq, sent, om, room, accepted>>,
             NEW t \in Tasks, pc' = [pc EXCEPT ![t] = "idle"]
      PROVE  Fifo'
  BY <1>2 DEF Fifo, InHand, Draining, TypeOK
<1>3. ASSUME NEW t \in Tasks, RunEvent(t) PROVE Fifo'
  <2>1. \A u \in Tasks : u # t => ~Draining(u)
    BY <1>0, <1>3 DEF RunEvent
  <2>2. InHand' = InHand /\ \A u \in Tasks : pc'[u] # "putback" \/ pc'[u] = pc[u]
    BY <1>3 DEF RunEvent, InHand, TypeOK
  <2>3. ~(Draining("main") /\ Draining("blehostd"))'
    BY <1>3, <2>1 DEF RunEvent, Draining, TypeOK
  <2> QED
    BY <1>3, <2>2, <2>3 DEF Fifo, RunEvent
<1>4. ASSUME NEW t \in Tasks, Get(t) PROVE Fifo'
  <2>1. /\ \A u \in Tasks : om[u] = 0
        /\ \A u \in Tasks : u # t => ~Draining(u)
    BY <1>4, OneDrains DEF Get, Draining, TypeOK
  <2>2. InHand = 0
    BY <2>1 DEF InHand
  <2>3. /\ Len(rsp_mq') = Len(rsp_mq) - 1
        /\ \A i \in 1 .. Len(rsp_mq') : rsp_mq'[i] = rsp_mq[i + 1]
        /\ Head(rsp_mq) = rsp_mq[1] /\ Len(rsp_mq) > 0
    BY <1>4, QueueTyped, HeadTailProperties, EmptySeq DEF Get, Rest
  <2>4. Head(rsp_mq) = Len(sent) + 1 /\ Len(sent) + 1 # 0
    BY <2>2, <2>3, SeqFacts DEF Fifo
  <2>5. om'[t] = Len(sent) + 1 /\ \A u \in Tasks : u # t => om'[u] = 0
    BY <1>4, <2>1, <2>4 DEF Get, TypeOK
  <2>6. InHand' = 1
    BY <2>4, <2>5 DEF InHand
  <2>7. \A i \in 1 .. Len(rsp_mq') : rsp_mq'[i] = Len(sent) + InHand' + i
    BY <2>2, <2>3, <2>6, SeqFacts DEF Fifo
  <2>8. Len(sent) + InHand' + Len(rsp_mq') = accepted
    BY <2>2, <2>3, <2>6, SeqFacts DEF Fifo
  <2>9. /\ ~(Draining("main") /\ Draining("blehostd"))'
        /\ \A u \in Tasks : pc'[u] = "putback" => pc[u] = "putback"
    BY <1>4, <2>1 DEF Get, Draining, TypeOK
  <2> QED
    BY <1>4, <2>5, <2>7, <2>8, <2>9 DEF Fifo, Get
<1>5. ASSUME NEW t \in Tasks, SendOk(t) PROVE Fifo'
  <2>1. /\ om[t] = Len(sent) + 1
        /\ \A u \in Tasks : u # t => om[u] = 0 /\ ~Draining(u)
    BY <1>5, OneDrains DEF SendOk, Draining, TypeOK, Fifo
  <2>2. InHand = 1
    BY <2>1, SeqFacts DEF InHand
  <2>3. om'[t] = 0 /\ \A u \in Tasks : u # t => om'[u] = 0
    BY <1>5, <2>1 DEF SendOk, TypeOK
  <2>4. InHand' = 0
    BY <2>3 DEF InHand
  <2>5. /\ Len(sent') = Len(sent) + 1
        /\ \A i \in 1 .. Len(sent) : sent'[i] = sent[i]
        /\ sent'[Len(sent) + 1] = Len(sent) + 1
    <3>1. om[t] \in Num
      BY <1>5, QueueTyped DEF SendOk, TypeOK
    <3> QED
      BY <1>5, <2>1, <3>1, QueueTyped, AppendProperties DEF SendOk
  <2>6. \A i \in 1 .. Len(sent') : sent'[i] = i
    BY <2>5, SeqFacts DEF Fifo
  <2>7. \A i \in 1 .. Len(rsp_mq) : rsp_mq[i] = Len(sent') + InHand' + i
    BY <2>2, <2>4, <2>5, SeqFacts DEF Fifo
  <2>8. Len(sent') + InHand' + Len(rsp_mq) = accepted
    BY <2>2, <2>4, <2>5, SeqFacts DEF Fifo
  <2>9. /\ ~(Draining("main") /\ Draining("blehostd"))'
        /\ \A u \in Tasks : pc'[u] # "putback"
    BY <1>5, <2>1 DEF SendOk, Draining, TypeOK
  <2> QED
    BY <1>5, <2>3, <2>6, <2>7, <2>8, <2>9 DEF Fifo, SendOk
<1>6. ASSUME NEW t \in Tasks, SendAgain(t) PROVE Fifo'
  <2>1. room = 0
    BY <1>6, RspAssumption DEF SendAgain, SocketTakes, TypeOK
  <2>2. InHand' = InHand
    BY <1>6 DEF SendAgain, InHand
  <2>3. ~(Draining("main") /\ Draining("blehostd"))'
    BY <1>6, OneDrains DEF SendAgain, Draining, TypeOK
  <2> QED
    BY <1>6, <2>1, <2>2, <2>3 DEF Fifo, SendAgain
<1>7. ASSUME NEW t \in Tasks, PutBack(t) PROVE Fifo'
  <2>1. /\ om[t] = Len(sent) + 1
        /\ \A u \in Tasks : u # t => om[u] = 0 /\ ~Draining(u)
    BY <1>7, OneDrains DEF PutBack, Draining, TypeOK, Fifo
  <2>2. InHand = 1
    BY <2>1, SeqFacts DEF InHand
  <2>3. \A u \in Tasks : om'[u] = 0
    BY <1>7, <2>1 DEF PutBack, TypeOK
  <2>4. InHand' = 0
    BY <2>3 DEF InHand
  <2>5. /\ Len(rsp_mq') = Len(rsp_mq) + 1
        /\ \A i \in 1 .. Len(rsp_mq) + 1 :
             rsp_mq'[i] = IF i = 1 THEN om[t] ELSE rsp_mq[i - 1]
    <3>1. om[t] \in Num
      BY <1>7, QueueTyped DEF PutBack, TypeOK
    <3>2. <<om[t]>> \in Seq(Num) /\ Len(<<om[t]>>) = 1 /\ <<om[t]>>[1] = om[t]
      BY <3>1
    <3> QED
      BY <1>7, <3>2, SeqFacts, ConcatProperties DEF PutBack, WithAgain
  <2>6. \A i \in 1 .. Len(rsp_mq') : rsp_mq'[i] = Len(sent) + InHand' + i
    <3> SUFFICES ASSUME NEW i \in 1 .. Len(rsp_mq') PROVE rsp_mq'[i] = Len(sent) + i
      BY <2>4, SeqFacts
    <3>1. CASE i = 1
      BY <2>1, <2>5, <3>1, SeqFacts
    <3>2. CASE i # 1
      <4>1. i - 1 \in 1 .. Len(rsp_mq)
        BY <2>5, <3>2, SeqFacts
      <4>2. rsp_mq[i - 1] = Len(sent) + 1 + (i - 1)
        BY <2>2, <4>1 DEF Fifo
      <4> QED
        BY <2>5, <3>2, <4>1, <4>2, SeqFacts
    <3> QED
      BY <3>1, <3>2
  <2>7. Len(sent) + InHand' + Len(rsp_mq') = accepted
    BY <2>2, <2>4, <2>5, SeqFacts DEF Fifo
  <2>8. /\ ~(Draining("main") /\ Draining("blehostd"))'
        /\ \A u \in Tasks : pc'[u] # "putback"
    BY <1>7, <2>1 DEF PutBack, Draining, TypeOK
  <2> QED
    BY <1>7, <2>3, <2>6, <2>7, <2>8 DEF Fifo, PutBack
<1>8. CASE SocketWritable
  <2>1. \A t \in Tasks : pc[t] # "putback"
    BY <1>8 DEF SocketWritable, SocketMayRun, Draining
  <2> QED
    BY <1>8, <2>1 DEF Fifo, SocketWritable, InHand, Draining
<1>9. ASSUME UNCHANGED <<rsp_mq, sent, om, room, accepted, pc>> PROVE Fifo'
  BY <1>9 DEF Fifo, InHand, Draining
<1>10. ASSUME NEW t \in Tasks, Produce(t) PROVE Fifo'
  BY <1>1, <1>10 DEF Produce
<1>11. CASE BlockMain
  BY <1>1, <1>11 DEF BlockMain, TypeOK
<1> QED
  BY <1>2, <1>3, <1>4, <1>5, <1>6, <1>7, <1>8, <1>9, <1>10, <1>11
     DEF Next, Drain, Connect, Refuse, UnblockMain, GetNothing, vars

LEMMA FifoInit == Init => Fifo
BY DEF Init, Fifo, InHand, Draining, Tasks

\* With tasks that run until they wait, a message in the queue always has a
\* wake-up coming: a message the socket refused is tried again.
THEOREM NoLostWakeup ==
  ASSUME Preemptive = FALSE
  PROVE  Spec => []WakeupComing
<1> DEFINE Inv == TypeOK /\ Fifo /\ WakeupComing
<1>1. Init => Inv
  BY TypeInit, FifoInit DEF Init, WakeupComing
<1>2. Inv /\ [Next]_vars => Inv'
  <2> SUFFICES ASSUME Inv, [Next]_vars PROVE WakeupComing'
    BY TypeStep, FifoStep
  <2> USE DEF Tasks, WakeupComing
  <2>1. ASSUME NEW t \in Tasks, Produce(t) PROVE WakeupComing'
    BY <2>1 DEF Produce, EnqueueRsp, Post, EventPut
  <2>2. CASE BlockMain
    BY <2>2 DEF BlockMain, EnqueueRsp, Post, EventPut
  <2>3. ASSUME NEW t \in Tasks, RunEvent(t) \/ Get(t) \/ SendOk(t) \/ SendAgain(t)
        PROVE WakeupComing'
    BY <2>3 DEF RunEvent, Get, SendOk, SendAgain, Draining, TypeOK
  <2>4. ASSUME NEW t \in Tasks, GetNothing(t) PROVE WakeupComing'
    BY <2>4 DEF GetNothing
  <2>5. ASSUME NEW t \in Tasks, PutBack(t) PROVE WakeupComing'
    BY <2>5, RspAssumption DEF PutBack, Fifo
  <2>6. CASE SocketWritable
    BY <2>6 DEF SocketWritable, PostWritable, EventPut, Draining
  <2>7. CASE Connect \/ UnblockMain
    BY <2>7 DEF Connect, UnblockMain, Draining, TypeOK
  <2>8. ASSUME NEW t \in Tasks, Refuse(t) PROVE WakeupComing'
    BY <2>8 DEF Refuse, Draining
  <2>9. CASE UNCHANGED vars
    BY <2>9 DEF vars, Draining
  <2> QED
    BY <2>1, <2>2, <2>3, <2>4, <2>5, <2>6, <2>7, <2>8, <2>9 DEF Next, Drain
<1>3. Inv => WakeupComing
  OBVIOUS
<1> QED
  BY <1>1, <1>2, <1>3, PTL DEF Spec

\* The output path implements the channel: at most once always, and in order
\* when tasks run until they wait.
THEOREM ChannelRefinement == Spec => ImplementsChannel
<1> DEFINE Inv == TypeOK /\ ExactlyOnce /\ (Preemptive = FALSE => Fifo)
<1>1. Init => Inv /\ Chan!Init
  BY TypeInit, FifoInit, ExactlyOnceInit DEF Init, Chan!Init
<1>2. Inv /\ [Next]_vars => Inv'
  BY TypeStep, FifoStep, ExactlyOnceStep
<1>3. ASSUME Inv, [Next]_vars PROVE [Chan!Next]_(Chan!chanVars)
  <2>1. ASSUME EnqueueRsp, UNCHANGED sent PROVE Chan!Next
    BY <2>1 DEF EnqueueRsp, Chan!Next, Chan!Accept
  <2>2. ASSUME NEW t \in Tasks, SendOk(t) PROVE Chan!Next
    <3>1. om[t] \in Held
      BY <1>3, <2>2 DEF Held, SendOk, TypeOK
    <3>2. om[t] \in 1 .. accepted /\ om[t] \notin ToSet(sent)
      BY <1>3, <3>1 DEF ExactlyOnce, Msgs
    <3>3. ~Preemptive => om[t] = Len(sent) + 1
      BY <1>3, <2>2, RspAssumption DEF Fifo, SendOk, TypeOK
    <3>4. PICK m \in 1 .. accepted : m = om[t]
      BY <3>2
    <3>5. Chan!Send(m)
      BY <2>2, <3>2, <3>3, <3>4 DEF Chan!Send, SendOk, ToSet
    <3> QED
      BY <3>4, <3>5 DEF Chan!Next
  <2>3. ASSUME UNCHANGED <<accepted, sent>> PROVE UNCHANGED Chan!chanVars
    BY <2>3 DEF Chan!chanVars
  <2> QED
    BY <1>3, <2>1, <2>2, <2>3
       DEF Next, Drain, Connect, Produce, Refuse, BlockMain, UnblockMain, RunEvent, Get,
           GetNothing, SendAgain, PutBack, SocketWritable, vars
<1> QED
  BY <1>1, <1>2, <1>3, PTL DEF Spec, ImplementsChannel, Chan!Spec
=============================================================================
