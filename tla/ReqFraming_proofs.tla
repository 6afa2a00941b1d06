-------------------------- MODULE ReqFraming_proofs --------------------------
(***************************************************************************)
(* Proofs about the input path, for every number and length of messages,   *)
(* every number of headers of length 0 and of failed allocations, and      *)
(* every way of cutting the stream into reads that leaves the headers of   *)
(* long messages whole.                                                    *)
(***************************************************************************)
EXTENDS ReqFraming, SequenceTheorems, TLAPS

-----------------------------------------------------------------------------
(* A sequence of bytes cut at the right places.  ms is the client's        *)
(* messages, message 0 stands for a header of length 0.                    *)

Bytes == [v : Nat, m : Nat, k : Nat]
Msgs == [len : Nat \ {0}, bare : BOOLEAN]

FrameLen(ms, m) == IF m = 0 THEN 2 ELSE ms[m].len + 2
IsBare(ms, m) == m # 0 /\ ms[m].bare
First(ms, m) == IF IsBare(ms, m) THEN 3 ELSE 1
MsgLen(ms, m) == IF m = 0 THEN 0 ELSE ms[m].len

\* The value of the byte at place k of message m.
Value(ms, m, k) ==
  IF k = 1 THEN MsgLen(ms, m) \div Base
  ELSE IF k = 2 THEN MsgLen(ms, m) % Base
  ELSE Base - 1

\* Every byte is one of a header of length 0 or of a message after the first "done".
BytesRight(P, ms, done) ==
  \A i \in 1 .. Len(P) :
    /\ P[i].m = 0 \/ P[i].m \in done + 1 .. Len(ms)
    /\ P[i].k \in First(ms, P[i].m) .. FrameLen(ms, P[i].m)
    /\ P[i].v = Value(ms, P[i].m, P[i].k)

\* The rest of a frame follows.
RestFollows(P, ms) ==
  \A i \in 1 .. Len(P) : \A d \in 0 .. FrameLen(ms, P[i].m) - P[i].k :
    i + d <= Len(P) /\ P[i + d].m = P[i].m /\ P[i + d].k = P[i].k + d

\* Behind a frame begins the next one.
NextFollows(P, ms) ==
  \A i \in 1 .. Len(P) :
    P[i].k = FrameLen(ms, P[i].m) /\ i + 1 <= Len(P) =>
      P[i + 1].k = First(ms, P[i + 1].m)

\* The messages come in order, each once.
InOrder(P) ==
  \A i, j \in 1 .. Len(P) :
    i < j /\ P[i].m # 0 /\ P[j].m # 0 =>
      \/ P[i].m < P[j].m
      \/ P[i].m = P[j].m /\ P[j].k = P[i].k + (j - i)

\* No message is missing.
AllThere(P, ms, done) ==
  \A m \in done + 1 .. Len(ms) : \E i \in 1 .. Len(P) : P[i].m = m

Framed(P, ms, done) ==
  /\ BytesRight(P, ms, done)
  /\ RestFollows(P, ms)
  /\ NextFollows(P, ms)
  /\ InOrder(P)
  /\ AllThere(P, ms, done)

\* P begins where n, a value of blehostd_packet_len, says: with a frame, or with
\* the n bytes of a text.
AtPlace(P, n, ms) ==
  IF n = 0 THEN Len(P) > 0 => P[1].k = First(ms, P[1].m)
  ELSE Len(P) > 0 /\ P[1].m # 0 /\ P[1].k = 3 /\ n = ms[P[1].m].len

-----------------------------------------------------------------------------
(* The inductive invariant.                                                *)

\* The bytes not handed on yet.
Pending == packet \o stream

\* The number of messages handed on.
Done == Len(handled) + Len(req_mq)

Typed ==
  /\ msgs \in Seq(Msgs)
  /\ \A m \in 1 .. Len(msgs) : msgs[m].len <= MaxMsgSz /\ (msgs[m].bare => msgs[m].len >= 2)
  /\ stream \in Seq(Bytes) /\ packet \in Seq(Bytes)
  /\ packet_len \in Nat
  /\ {looping, req_ev, draining} \subseteq BOOLEAN
  /\ req_mq \in Seq(Seq(Bytes)) /\ handled \in Seq(Seq(Bytes))
  /\ fails \in Nat /\ empties \in Nat

\* A message without header is alone, in the stream or in the packet being looked at.
BareAlone ==
  \A i \in 1 .. Len(Pending) :
    IsBare(msgs, Pending[i].m) =>
      /\ packet_len = 0
      /\ Pending[1].m = Pending[i].m
      /\ \/ looping /\ Len(packet) = msgs[Pending[i].m].len
         \/ ~looping /\ packet = << >> /\ Len(stream) = msgs[Pending[i].m].len

\* The header of a long message has not been cut.
HeaderWhole ==
  packet # << >> => packet[Len(packet)].k # 1 \/ packet[Len(packet)].v = 0

\* Headers of length 0 are counted.
EmptiesCounted ==
  (\E i \in 1 .. Len(Pending) : Pending[i].m = 0) => empties > 0

IInv ==
  /\ Typed
  /\ Framed(Pending, msgs, Done)
  /\ AtPlace(Pending, packet_len, msgs)
  /\ BareAlone
  /\ HeaderWhole
  /\ EmptiesCounted
  /\ RequestsAreMessages
  /\ NothingWholeLeft

-----------------------------------------------------------------------------
(* Lengths and bytes.                                                      *)

\* What ntohs() computes from the two bytes of a length is the length.
LEMMA LengthReadBack ==
  ASSUME NEW n \in Nat, NEW b \in Nat \ {0}
  PROVE  /\ n \div b \in Nat /\ n % b \in Nat
         /\ b * (n \div b) + (n % b) = n
  OBVIOUS

\* Two bytes of a text are more than the longest message.
LEMMA TextExceedsMax ==
  ASSUME NEW b \in Nat \ {0, 1}, NEW max \in 1 .. (b - 1) * b
  PROVE  b * (b - 1) + (b - 1) > max
<1>1. b - 1 > 0 /\ b * (b - 1) = (b - 1) * b
  OBVIOUS
<1>2. (b - 1) * b \in Int /\ max <= (b - 1) * b /\ max \in Int
  OBVIOUS
<1> QED
  BY <1>1, <1>2

\* The elements of a sequence of bytes, and of messages.
LEMMA ByteFields ==
  ASSUME NEW P \in Seq(Bytes)
  PROVE  /\ Len(P) \in Nat
         /\ \A i \in 1 .. Len(P) :
              P[i] \in Bytes /\ P[i].v \in Nat /\ P[i].m \in Nat /\ P[i].k \in Nat
<1>1. Len(P) \in Nat /\ \A i \in 1 .. Len(P) : P[i] \in Bytes
  BY LenProperties, ElementOfSeq
<1> QED
  BY <1>1 DEF Bytes

LEMMA MsgFields ==
  ASSUME NEW ms \in Seq(Msgs)
  PROVE  /\ Len(ms) \in Nat
         /\ \A m \in 1 .. Len(ms) :
              ms[m] \in Msgs /\ ms[m].len \in Nat \ {0} /\ ms[m].bare \in BOOLEAN
<1>1. Len(ms) \in Nat /\ \A m \in 1 .. Len(ms) : ms[m] \in Msgs
  BY LenProperties, ElementOfSeq
<1> QED
  BY <1>1 DEF Msgs

-----------------------------------------------------------------------------
(* What follows from Framed.                                               *)

\* A byte lies inside its frame.
LEMMA InsideFrame ==
  ASSUME NEW P \in Seq(Bytes), NEW ms \in Seq(Msgs), NEW done \in Nat,
         BytesRight(P, ms, done), NEW i \in 1 .. Len(P)
  PROVE  /\ P[i].m # 0 => P[i].m \in 1 .. Len(ms) /\ ms[P[i].m].len \in Nat \ {0}
         /\ FrameLen(ms, P[i].m) \in Nat
         /\ P[i].k \in Nat \ {0} /\ P[i].k <= FrameLen(ms, P[i].m)
<1>0. Len(P) \in Nat /\ Len(ms) \in Nat /\ P[i].k \in Nat
  BY ByteFields, MsgFields
<1>1. P[i].m # 0 => P[i].m \in 1 .. Len(ms)
  BY <1>0 DEF BytesRight
<1>2. P[i].m # 0 => ms[P[i].m].len \in Nat \ {0}
  BY <1>1, MsgFields
<1>3. FrameLen(ms, P[i].m) \in Nat
  BY <1>2 DEF FrameLen
<1>4. First(ms, P[i].m) \in {1, 3}
  BY DEF First
<1> QED
  BY <1>0, <1>1, <1>2, <1>3, <1>4 DEF BytesRight

\* The first byte that is not of a header of length 0 is of the next message.
LEMMA FrontIsNext ==
  ASSUME NEW P \in Seq(Bytes), NEW ms \in Seq(Msgs), NEW done \in Nat,
         Framed(P, ms, done), Len(P) > 0, P[1].m # 0
  PROVE  P[1].m = done + 1 /\ done + 1 \in 1 .. Len(ms)
<1>0. Len(P) \in Nat /\ Len(ms) \in Nat /\ 1 \in 1 .. Len(P)
  BY ByteFields, MsgFields
<1>1. P[1].m \in done + 1 .. Len(ms)
  BY <1>0 DEF Framed, BytesRight
<1>2. done + 1 \in done + 1 .. Len(ms)
  BY <1>0, <1>1
<1>3. PICK i \in 1 .. Len(P) : P[i].m = done + 1
  BY <1>2 DEF Framed, AllThere
<1>4. CASE i = 1
  BY <1>0, <1>1, <1>3, <1>4
<1>5. CASE i # 1
  <2>1. 1 < i /\ P[i].m # 0
    BY <1>0, <1>3, <1>5
  <2>2. P[1].m < P[i].m \/ P[1].m = P[i].m
    BY <1>0, <1>3, <2>1 DEF Framed, InOrder
  <2> QED
    BY <1>0, <1>1, <1>3, <2>2
<1> QED
  BY <1>4, <1>5

\* The last byte ends a frame.
LEMMA BackEndsFrame ==
  ASSUME NEW P \in Seq(Bytes), NEW ms \in Seq(Msgs), NEW done \in Nat,
         Framed(P, ms, done), Len(P) > 0
  PROVE  P[Len(P)].k = FrameLen(ms, P[Len(P)].m)
<1> DEFINE n == Len(P)
           f == FrameLen(ms, P[n].m)
<1>0. n \in Nat /\ n \in 1 .. Len(P)
  BY ByteFields
<1>1. f \in Nat /\ P[n].k \in Nat /\ P[n].k <= f
  BY <1>0, InsideFrame DEF Framed
<1>2. SUFFICES ASSUME P[n].k # f PROVE FALSE
  OBVIOUS
<1>3. 1 \in 0 .. f - P[n].k
  BY <1>1, <1>2
<1>4. n + 1 <= Len(P)
  BY <1>0, <1>3 DEF Framed, RestFollows
<1> QED
  BY <1>0, <1>4

\* Dropping bytes from the front leaves the frames behind them as they are.
LEMMA DropBytes ==
  ASSUME NEW P \in Seq(Bytes), NEW Q \in Seq(Bytes),
         NEW ms \in Seq(Msgs), NEW done \in Nat, NEW c \in Nat,
         Framed(P, ms, done), Len(P) = c + Len(Q),
         \A i \in 1 .. Len(Q) : Q[i] = P[i + c]
  PROVE  BytesRight(Q, ms, done) /\ RestFollows(Q, ms) /\ NextFollows(Q, ms) /\ InOrder(Q)
<1>0. /\ Len(P) \in Nat /\ Len(Q) \in Nat
      /\ \A i \in 1 .. Len(Q) : i + c \in 1 .. Len(P) /\ Q[i].m \in Nat /\ Q[i].k \in Nat
  BY ByteFields
<1>1. BytesRight(Q, ms, done)
  BY <1>0 DEF Framed, BytesRight
<1>2. RestFollows(Q, ms)
  <2> SUFFICES ASSUME NEW i \in 1 .. Len(Q), NEW d \in 0 .. FrameLen(ms, Q[i].m) - Q[i].k
               PROVE  i + d <= Len(Q) /\ Q[i + d].m = Q[i].m /\ Q[i + d].k = Q[i].k + d
    BY DEF RestFollows
  <2>0. i + c \in 1 .. Len(P) /\ Q[i] = P[i + c] /\ i \in Nat
    BY <1>0
  <2>1. FrameLen(ms, Q[i].m) \in Nat /\ Q[i].k \in Nat
    BY <2>0, InsideFrame DEF Framed
  <2>2. d \in Nat
    BY <2>1
  <2>3. (i + c) + d <= Len(P) /\ P[(i + c) + d].m = Q[i].m /\ P[(i + c) + d].k = Q[i].k + d
    BY <2>0 DEF Framed, RestFollows
  <2>4. Len(P) \in Nat /\ Len(Q) \in Nat /\ c \in Nat
    BY <1>0
  <2>5. (i + c) + d = (i + d) + c /\ (i + c) + d <= c + Len(Q)
    BY <2>0, <2>2, <2>3, <2>4
  <2>6. i + d \in 1 .. Len(Q)
    BY <2>0, <2>2, <2>4, <2>5
  <2>7. Q[i + d] = P[(i + c) + d]
    BY <2>5, <2>6
  <2> QED
    BY <2>3, <2>6, <2>7
<1>3. NextFollows(Q, ms)
  <2> SUFFICES ASSUME NEW i \in 1 .. Len(Q),
                      Q[i].k = FrameLen(ms, Q[i].m), i + 1 <= Len(Q)
               PROVE  Q[i + 1].k = First(ms, Q[i + 1].m)
    BY DEF NextFollows
  <2>1. i + c \in 1 .. Len(P) /\ (i + c) + 1 <= Len(P) /\ (i + c) + 1 = (i + 1) + c
        /\ i + 1 \in 1 .. Len(Q)
    BY <1>0
  <2>2. P[(i + c) + 1].k = First(ms, P[(i + c) + 1].m)
    BY <2>1 DEF Framed, NextFollows
  <2> QED
    BY <2>1, <2>2
<1>4. InOrder(Q)
  <2> SUFFICES ASSUME NEW i \in 1 .. Len(Q), NEW j \in 1 .. Len(Q),
                      i < j, Q[i].m # 0, Q[j].m # 0
               PROVE  \/ Q[i].m < Q[j].m
                      \/ Q[i].m = Q[j].m /\ Q[j].k = Q[i].k + (j - i)
    BY DEF InOrder
  <2>0. i \in Nat /\ j \in Nat
    BY <1>0, SMTT(30)
  <2>1. i + c < j + c /\ (j + c) - (i + c) = j - i
    BY <2>0
  <2>2. i + c \in 1 .. Len(P) /\ j + c \in 1 .. Len(P)
    BY <1>0
  <2>3. Q[i] = P[i + c] /\ Q[j] = P[j + c]
    OBVIOUS
  <2> QED
    BY <2>1, <2>2, <2>3, ZenonT(30) DEF Framed, InOrder
<1> QED
  BY <1>1, <1>2, <1>3, <1>4

\* A header is taken off.  Behind it is the text, or after a header of length 0 the
\* next frame.
LEMMA DropHeader ==
  ASSUME NEW P \in Seq(Bytes), NEW Q \in Seq(Bytes),
         NEW ms \in Seq(Msgs), NEW done \in Nat,
         Framed(P, ms, done), Len(P) > 0, P[1].k = 1, Len(P) = 2 + Len(Q),
         \A i \in 1 .. Len(Q) : Q[i] = P[i + 2]
  PROVE  Framed(Q, ms, done) /\ AtPlace(Q, MsgLen(ms, P[1].m), ms)
<1> DEFINE m == P[1].m
<1>0. /\ Len(P) \in Nat /\ Len(Q) \in Nat /\ Len(ms) \in Nat
      /\ 1 \in 1 .. Len(P) /\ m \in Nat
  BY ByteFields, MsgFields
<1>1. /\ BytesRight(Q, ms, done) /\ RestFollows(Q, ms)
      /\ NextFollows(Q, ms) /\ InOrder(Q)
  BY DropBytes
<1>2. m # 0 => m \in 1 .. Len(ms) /\ ms[m].len \in Nat \ {0}
  BY <1>0, InsideFrame DEF Framed
<1>3. FrameLen(ms, m) \in Nat /\ FrameLen(ms, m) >= 2
  BY <1>2 DEF FrameLen
<1>4. 1 \in 0 .. FrameLen(ms, m) - P[1].k
  BY <1>3
<1>5. P[2].m = m /\ P[2].k = 2 /\ 2 \in 1 .. Len(P)
  <2>1. 1 + 1 <= Len(P) /\ P[1 + 1].m = m /\ P[1 + 1].k = 1 + 1
    BY <1>0, <1>4 DEF Framed, RestFollows
  <2> QED
    BY <1>0, <2>1
<1>6. CASE m = 0
  <2>1. AllThere(Q, ms, done)
    <3> SUFFICES ASSUME NEW x \in done + 1 .. Len(ms)
                 PROVE  \E i \in 1 .. Len(Q) : Q[i].m = x
      BY DEF AllThere
    <3>1. PICK i \in 1 .. Len(P) : P[i].m = x
      BY DEF Framed, AllThere
    <3>2. i # 1 /\ i # 2 /\ x # 0
      BY <1>0, <1>5, <1>6, <3>1
    <3>3. i - 2 \in 1 .. Len(Q) /\ (i - 2) + 2 = i
      BY <1>0, <3>2
    <3> QED
      BY <3>1, <3>3
  <2>2. Len(Q) > 0 => Q[1].k = First(ms, Q[1].m)
    <3> SUFFICES ASSUME Len(Q) > 0 PROVE Q[1].k = First(ms, Q[1].m)
      OBVIOUS
    <3>1. Q[1] = P[3] /\ 2 + 1 <= Len(P) /\ 2 + 1 = 3
      BY <1>0
    <3>2. P[2].k = FrameLen(ms, P[2].m)
      BY <1>5, <1>6 DEF FrameLen
    <3> QED
      BY <1>5, <3>1, <3>2 DEF Framed, NextFollows
  <2> QED
    BY <1>1, <1>6, <2>1, <2>2 DEF Framed, AtPlace, MsgLen
<1>7. CASE m # 0
  <2>1. 2 \in 0 .. FrameLen(ms, m) - P[1].k
    BY <1>2, <1>7, SMTT(30) DEF FrameLen
  <2>2. 3 \in 1 .. Len(P) /\ P[3].m = m /\ P[3].k = 3
    <3>1. 1 + 2 <= Len(P) /\ P[1 + 2].m = m /\ P[1 + 2].k = 1 + 2
      BY <1>0, <2>1 DEF Framed, RestFollows
    <3> QED
      BY <1>0, <3>1
  <2>3. 1 \in 1 .. Len(Q) /\ Q[1] = P[3]
    BY <1>0, <2>2
  <2>4. AllThere(Q, ms, done)
    <3> SUFFICES ASSUME NEW x \in done + 1 .. Len(ms)
                 PROVE  \E i \in 1 .. Len(Q) : Q[i].m = x
      BY DEF AllThere
    <3>1. PICK i \in 1 .. Len(P) : P[i].m = x
      BY DEF Framed, AllThere
    <3>2. CASE x = m
      BY <2>2, <2>3, <3>2
    <3>3. CASE x # m
      <4>1. i # 1 /\ i # 2
        BY <1>5, <3>1, <3>3
      <4>2. i - 2 \in 1 .. Len(Q) /\ (i - 2) + 2 = i
        BY <1>0, <4>1
      <4> QED
        BY <3>1, <4>2
    <3> QED
      BY <3>2, <3>3
  <2> QED
    BY <1>0, <1>1, <1>2, <1>7, <2>2, <2>3, <2>4 DEF Framed, AtPlace, MsgLen
<1> QED
  BY <1>6, <1>7

\* Behind a header is the text of the next message, as the client wrote it.
LEMMA TextInFront ==
  ASSUME NEW P \in Seq(Bytes), NEW ms \in Seq(Msgs), NEW done \in Nat,
         Framed(P, ms, done), Len(P) > 0, P[1].k = 3, P[1].m # 0
  PROVE  LET n == ms[P[1].m].len IN
           /\ P[1].m = done + 1 /\ done + 1 \in 1 .. Len(ms)
           /\ n \in Nat \ {0} /\ n <= Len(P)
           /\ \A i \in 1 .. n : /\ P[i] = Byte(Base - 1, done + 1, i + 2)
                                /\ P[i].m = done + 1 /\ P[i].k = i + 2
<1> DEFINE m == P[1].m
           n == ms[m].len
<1>0. Len(P) \in Nat /\ 1 \in 1 .. Len(P)
  BY ByteFields
<1>1. m = done + 1 /\ done + 1 \in 1 .. Len(ms)
  BY FrontIsNext
<1>2. n \in Nat \ {0}
  BY <1>1, MsgFields
<1>3. FrameLen(ms, m) = n + 2
  BY DEF FrameLen
<1>4. ASSUME NEW i \in 1 .. n
      PROVE  /\ i \in 1 .. Len(P) /\ P[i] = Byte(Base - 1, done + 1, i + 2)
             /\ P[i].m = done + 1 /\ P[i].k = i + 2
  <2>1. i - 1 \in 0 .. FrameLen(ms, m) - P[1].k
    BY <1>2, <1>3
  <2>2. 1 + (i - 1) <= Len(P) /\ P[1 + (i - 1)].m = m /\ P[1 + (i - 1)].k = 3 + (i - 1)
    BY <1>0, <2>1 DEF Framed, RestFollows
  <2>3. 1 + (i - 1) = i /\ 3 + (i - 1) = i + 2 /\ i \in Nat /\ i > 0
    BY <1>2
  <2>4. i \in 1 .. Len(P) /\ P[i].m = m /\ P[i].k = i + 2
    BY <1>0, <2>2, <2>3
  <2>5. P[i].v = Base - 1
    <3>1. P[i].v = Value(ms, P[i].m, P[i].k)
      BY <2>4 DEF Framed, BytesRight
    <3>2. P[i].k # 1 /\ P[i].k # 2
      BY <2>3, <2>4
    <3> QED
      BY <3>1, <3>2 DEF Value
  <2>6. P[i] \in Bytes
    BY <2>4, ByteFields
  <2> QED
    BY <1>1, <2>4, <2>5, <2>6 DEF Bytes, Byte
<1>5. n \in 1 .. n
  BY <1>2
<1>6. n <= Len(P)
  BY <1>0, <1>2, <1>4, <1>5
<1> QED
  BY <1>1, <1>2, <1>4, <1>6

\* The text is handed on.  Behind it is the next frame.
LEMMA DropText ==
  ASSUME NEW P \in Seq(Bytes), NEW Q \in Seq(Bytes),
         NEW ms \in Seq(Msgs), NEW done \in Nat,
         Framed(P, ms, done), Len(P) > 0, P[1].k = 3, P[1].m # 0,
         Len(P) = ms[P[1].m].len + Len(Q),
         \A i \in 1 .. Len(Q) : Q[i] = P[i + ms[P[1].m].len]
  PROVE  /\ Framed(Q, ms, done + 1) /\ AtPlace(Q, 0, ms)
         /\ \A i \in 1 .. Len(Q) : Q[i].m # done + 1
<1> DEFINE n == ms[P[1].m].len
<1>0. /\ P[1].m = done + 1 /\ done + 1 \in 1 .. Len(ms)
      /\ n \in Nat \ {0} /\ n <= Len(P)
      /\ \A i \in 1 .. n : P[i].m = done + 1 /\ P[i].k = i + 2
  BY TextInFront
<1> HIDE DEF n
<1>1. /\ BytesRight(Q, ms, done) /\ RestFollows(Q, ms)
      /\ NextFollows(Q, ms) /\ InOrder(Q)
  BY <1>0, DropBytes DEF n
<1>2. /\ Len(P) \in Nat /\ Len(Q) \in Nat /\ Len(ms) \in Nat
      /\ Len(P) = n + Len(Q)
      /\ \A i \in 1 .. Len(Q) : Q[i] = P[i + n]
  BY ByteFields, MsgFields DEF n
<1>3. ASSUME NEW i \in 1 .. Len(Q)
      PROVE  Q[i].m # done + 1
  <2> SUFFICES ASSUME Q[i].m = done + 1 PROVE FALSE
    OBVIOUS
  <2>1. i + n \in 1 .. Len(P) /\ 1 \in 1 .. Len(P) /\ 1 < i + n /\ i \in Nat /\ i > 0
    BY <1>0, <1>2
  <2>2. P[i + n].m = done + 1 /\ done + 1 # 0
    <3>1. Q[i] = P[i + n]
      BY <1>2
    <3> QED
      BY <3>1
  <2>3. P[i + n].k = 3 + ((i + n) - 1)
    <3>1. ~(P[1].m < P[i + n].m)
      BY <1>0, <2>2
    <3> QED
      BY <1>0, <2>1, <2>2, <3>1, ZenonT(30) DEF Framed, InOrder
  <2>4. P[i + n].k <= n + 2
    <3>1. P[i + n].k <= FrameLen(ms, P[i + n].m)
      BY <2>1, InsideFrame DEF Framed
    <3>2. FrameLen(ms, P[i + n].m) = n + 2
      BY <1>0, <2>2 DEF FrameLen, n
    <3> QED
      BY <3>1, <3>2
  <2>5. n \in Nat /\ 3 + ((i + n) - 1) = (n + 2) + i
    BY <1>0, <2>1
  <2> QED
    BY <2>1, <2>3, <2>4, <2>5
<1>4. BytesRight(Q, ms, done + 1)
  <2> SUFFICES ASSUME NEW i \in 1 .. Len(Q), Q[i].m # 0
               PROVE  Q[i].m \in done + 1 + 1 .. Len(ms)
    BY <1>1 DEF BytesRight
  <2>1. Q[i].m \in done + 1 .. Len(ms)
    BY <1>1 DEF BytesRight
  <2> QED
    BY <1>2, <1>3, <2>1
<1>5. AllThere(Q, ms, done + 1)
  <2> SUFFICES ASSUME NEW x \in done + 1 + 1 .. Len(ms)
               PROVE  \E i \in 1 .. Len(Q) : Q[i].m = x
    BY DEF AllThere
  <2>1. x \in done + 1 .. Len(ms) /\ x # done + 1
    BY <1>2
  <2>2. PICK i \in 1 .. Len(P) : P[i].m = x
    BY <2>1 DEF Framed, AllThere
  <2>3. i \notin 1 .. n
    BY <1>0, <2>1, <2>2
  <2>4. i - n \in 1 .. Len(Q) /\ (i - n) + n = i
    BY <1>0, <1>2, <2>3
  <2> QED
    BY <1>2, <2>2, <2>4
<1>6. AtPlace(Q, 0, ms)
  <2> SUFFICES ASSUME Len(Q) > 0 PROVE Q[1].k = First(ms, Q[1].m)
    BY DEF AtPlace
  <2>1. n \in 1 .. Len(P) /\ n + 1 <= Len(P) /\ n \in 1 .. n
        /\ 1 \in 1 .. Len(Q) /\ 1 + n = n + 1
    BY <1>0, <1>2
  <2>2. P[n].m = done + 1 /\ P[n].k = n + 2
    BY <1>0, <2>1
  <2>3. P[n].k = FrameLen(ms, P[n].m)
    BY <1>0, <2>2 DEF FrameLen, n
  <2>4. P[n + 1].k = First(ms, P[n + 1].m)
    BY <2>1, <2>3 DEF Framed, NextFollows
  <2> QED
    BY <1>2, <2>1, <2>4
<1> QED
  BY <1>1, <1>3, <1>4, <1>5, <1>6 DEF Framed

\* F is the frame of message m.
IsFrame(F, ns, m) ==
  /\ Len(F) = (FrameLen(ns, m) - First(ns, m)) + 1
  /\ \A i \in 1 .. Len(F) : /\ F[i].m = m /\ F[i].k = First(ns, m) + (i - 1)
                             /\ F[i].v = Value(ns, m, F[i].k)

\* R is P with F behind it.
Joined(P, F, R) ==
  /\ Len(R) = Len(P) + Len(F)
  /\ \A i \in 1 .. Len(P) : R[i] = P[i]
  /\ \A i \in 1 .. Len(F) : R[Len(P) + i] = F[i]

\* Message m is the last of ns, or none.
Grown(ms, ns, m) ==
  \/ m = 0 /\ ns = ms
  \/ m = Len(ms) + 1 /\ Len(ns) = m /\ \A x \in 1 .. Len(ms) : ns[x] = ms[x]

\* The client writes a frame behind what is there: a header of length 0, or the next
\* message with or without its header.
LEMMA AddFrame ==
  ASSUME NEW P \in Seq(Bytes), NEW F \in Seq(Bytes), NEW R \in Seq(Bytes),
         NEW ms \in Seq(Msgs), NEW ns \in Seq(Msgs), NEW done \in Nat, NEW m \in Nat,
         Framed(P, ms, done), done <= Len(ms),
         Grown(ms, ns, m), IsFrame(F, ns, m), Joined(P, F, R)
  PROVE  Framed(R, ns, done)
<1> DEFINE p == Len(P)
           f == FrameLen(ns, m)
           a == First(ns, m)
<1>0. /\ p \in Nat /\ Len(F) \in Nat /\ Len(ms) \in Nat /\ Len(ns) \in Nat
      /\ \A i \in 1 .. Len(P) : P[i].m \in Nat /\ P[i].k \in Nat
  BY ByteFields, MsgFields
<1>1. /\ m # 0 => m = Len(ms) + 1 /\ Len(ns) = m /\ m \in 1 .. Len(ns) /\ ns[m].len \in Nat \ {0}
      /\ m # 0 => \A x \in 1 .. Len(ms) : ns[x] = ms[x]
      /\ m = 0 => ns = ms /\ Len(ns) = Len(ms)
  BY <1>0, MsgFields DEF Grown
<1>2. f \in Nat /\ a \in Nat /\ a <= f
  <2>1. CASE m = 0
    <3>1. f = 2 /\ a = 1
      BY <2>1 DEF FrameLen, First, IsBare
    <3> QED
      BY <3>1
  <2>2. CASE m # 0
    <3>1. f = ns[m].len + 2 /\ (a = 1 \/ a = 3)
      BY <2>2 DEF FrameLen, First
    <3> QED
      BY <1>1, <2>2, <3>1
  <2> QED
    BY <2>1, <2>2
<1>3. ASSUME NEW i \in 1 .. Len(P)
      PROVE  /\ FrameLen(ns, P[i].m) = FrameLen(ms, P[i].m)
             /\ First(ns, P[i].m) = First(ms, P[i].m)
             /\ \A k : Value(ns, P[i].m, k) = Value(ms, P[i].m, k)
             /\ P[i].m # 0 => P[i].m \in done + 1 .. Len(ms)
  <2>1. P[i].m # 0 => P[i].m \in 1 .. Len(ms)
    BY InsideFrame DEF Framed
  <2>2. P[i].m # 0 => ns[P[i].m] = ms[P[i].m]
    BY <1>1, <2>1
  <2>3. P[i].m # 0 => P[i].m \in done + 1 .. Len(ms)
    BY DEF Framed, BytesRight
  <2> QED
    BY <2>2, <2>3 DEF FrameLen, First, IsBare, Value, MsgLen
<1> HIDE DEF p, f, a
\* A byte of R is an old one or one of the frame.
<1>4. ASSUME NEW i \in 1 .. Len(R)
      PROVE  \/ i \in 1 .. Len(P) /\ R[i] = P[i]
             \/ /\ i - p \in 1 .. Len(F) /\ p + (i - p) = i
                /\ R[i] = F[i - p] /\ R[i].m = m /\ R[i].k = a + ((i - p) - 1)
                /\ R[i].v = Value(ns, m, R[i].k)
  <2>1. CASE i <= p
    BY <1>0, <2>1 DEF p, Joined
  <2>2. CASE i > p
    <3>1. i - p \in 1 .. Len(F) /\ p + (i - p) = i
      BY <1>0, <2>2 DEF p, Joined
    <3>2. R[i] = F[i - p]
      BY <3>1 DEF p, Joined
    <3> QED
      BY <3>1, <3>2 DEF a, IsFrame
  <2> QED
    BY <1>0, <2>1, <2>2
<1>5. Len(F) = (f - a) + 1 /\ Len(R) = p + Len(F)
  BY DEF f, a, p, IsFrame, Joined
<1>6. BytesRight(R, ns, done)
  <2> SUFFICES ASSUME NEW i \in 1 .. Len(R)
               PROVE  /\ R[i].m = 0 \/ R[i].m \in done + 1 .. Len(ns)
                      /\ R[i].k \in First(ns, R[i].m) .. FrameLen(ns, R[i].m)
                      /\ R[i].v = Value(ns, R[i].m, R[i].k)
    BY DEF BytesRight
  <2>1. CASE i \in 1 .. Len(P) /\ R[i] = P[i]
    <3>1. P[i].m # 0 => P[i].m \in done + 1 .. Len(ns)
      BY <1>0, <1>1, <1>3, <2>1
    <3> QED
      BY <1>3, <2>1, <3>1 DEF Framed, BytesRight
  <2>2. CASE /\ i - p \in 1 .. Len(F) /\ R[i].m = m /\ R[i].k = a + ((i - p) - 1)
             /\ R[i].v = Value(ns, m, R[i].k)
    <3>1. m = 0 \/ m \in done + 1 .. Len(ns)
      BY <1>0, <1>1
    <3>2. a + ((i - p) - 1) \in a .. f
      BY <1>0, <1>2, <1>5, <2>2
    <3> QED
      BY <2>2, <3>1, <3>2 DEF a, f
  <2> QED
    BY <1>4, <2>1, <2>2
<1>7. RestFollows(R, ns)
  <2> SUFFICES ASSUME NEW i \in 1 .. Len(R), NEW d \in 0 .. FrameLen(ns, R[i].m) - R[i].k
               PROVE  i + d <= Len(R) /\ R[i + d].m = R[i].m /\ R[i + d].k = R[i].k + d
    BY DEF RestFollows
  <2>1. CASE i \in 1 .. Len(P) /\ R[i] = P[i]
    <3>1. d \in 0 .. FrameLen(ms, P[i].m) - P[i].k
      BY <1>3, <2>1
    <3>2. i + d <= Len(P) /\ P[i + d].m = P[i].m /\ P[i + d].k = P[i].k + d
      BY <2>1, <3>1 DEF Framed, RestFollows
    <3>3. FrameLen(ms, P[i].m) \in Nat /\ P[i].k \in Nat
      BY <2>1, InsideFrame DEF Framed
    <3>4. i \in Nat /\ i > 0 /\ d \in Nat
      BY <1>0, <2>1, <3>1, <3>3
    <3>5. i + d \in 1 .. Len(P) /\ i + d <= Len(R)
      BY <1>0, <1>5, <3>2, <3>4 DEF p
    <3> QED
      BY <2>1, <3>2, <3>5 DEF Joined
  <2>2. CASE /\ i - p \in 1 .. Len(F) /\ R[i].m = m /\ R[i].k = a + ((i - p) - 1)
    <3>1. d \in 0 .. f - (a + ((i - p) - 1))
      BY <2>2 DEF f
    <3>0. i \in Nat /\ d \in Nat
      BY <1>0, <1>2, <2>2, <3>1
    <3>2. /\ (i - p) + d \in 1 .. Len(F) /\ p + ((i - p) + d) = i + d
          /\ a + (((i - p) + d) - 1) = (a + ((i - p) - 1)) + d
          /\ i + d <= Len(R)
      BY <1>0, <1>2, <1>5, <2>2, <3>0, <3>1
    <3>3. R[p + ((i - p) + d)] = F[(i - p) + d]
      BY <3>2 DEF p, Joined
    <3>4. F[(i - p) + d].m = m /\ F[(i - p) + d].k = a + (((i - p) + d) - 1)
      BY <3>2 DEF a, IsFrame
    <3> QED
      BY <2>2, <3>2, <3>3, <3>4
  <2> QED
    BY <1>4, <2>1, <2>2
<1>8. NextFollows(R, ns)
  <2> SUFFICES ASSUME NEW i \in 1 .. Len(R),
                      R[i].k = FrameLen(ns, R[i].m), i + 1 <= Len(R)
               PROVE  R[i + 1].k = First(ns, R[i + 1].m)
    BY DEF NextFollows
  <2>0. i + 1 \in 1 .. Len(R) /\ (i + 1) - p - 1 = i - p /\ i \in Nat
    BY <1>0, <1>5
  <2>1. CASE i + 1 \in 1 .. Len(P) /\ R[i + 1] = P[i + 1]
    <3>1. i \in 1 .. Len(P) /\ R[i] = P[i] /\ i + 1 <= Len(P)
      BY <1>0, <2>0, <2>1, SMTT(30) DEF p, Joined
    <3>2. P[i + 1].k = First(ms, P[i + 1].m)
      BY <1>3, <3>1 DEF Framed, NextFollows
    <3> QED
      BY <1>3, <2>1, <3>2
  <2>2. CASE /\ (i + 1) - p \in 1 .. Len(F) /\ R[i + 1].m = m
             /\ R[i + 1].k = a + (((i + 1) - p) - 1)
    <3>1. CASE i = p
      <4>1. a + (((i + 1) - p) - 1) = a
        BY <1>0, <1>2, <3>1
      <4> QED
        BY <2>2, <4>1 DEF a
    <3>2. CASE i # p
      <4>1. ~(i <= p) /\ i \notin 1 .. Len(P)
        BY <1>0, <2>0, <2>2, <3>2, SMTT(30) DEF p
      <4>2. R[i].m = m /\ R[i].k = a + ((i - p) - 1)
        BY <1>4, <4>1
      <4>3. R[i].k = f
        BY <4>2 DEF f
      <4> QED
        BY <1>0, <1>2, <1>5, <2>0, <2>2, <4>2, <4>3, SMTT(30)
    <3> QED
      BY <3>1, <3>2
  <2> QED
    BY <1>4, <2>0, <2>1, <2>2
<1>9. InOrder(R)
  <2> SUFFICES ASSUME NEW i \in 1 .. Len(R), NEW j \in 1 .. Len(R),
                      i < j, R[i].m # 0, R[j].m # 0
               PROVE  \/ R[i].m < R[j].m
                      \/ R[i].m = R[j].m /\ R[j].k = R[i].k + (j - i)
    BY DEF InOrder
  <2>0. i \in Nat /\ j \in Nat
    BY <1>0, <1>5
  <2>1. CASE i \in 1 .. Len(P) /\ R[i] = P[i] /\ j \in 1 .. Len(P) /\ R[j] = P[j]
    BY <2>1 DEF Framed, InOrder
  <2>2. CASE i \in 1 .. Len(P) /\ R[i] = P[i] /\ R[j].m = m
    <3>1. P[i].m \in done + 1 .. Len(ms) /\ m = Len(ms) + 1
      BY <1>1, <1>3, <2>2
    <3>2. P[i].m < m
      BY <1>0, <3>1
    <3> QED
      BY <2>2, <3>2
  <2>3. CASE /\ i - p \in 1 .. Len(F) /\ R[i].m = m /\ R[i].k = a + ((i - p) - 1)
             /\ R[j].m = m /\ R[j].k = a + ((j - p) - 1)
    <3>1. a + ((j - p) - 1) = (a + ((i - p) - 1)) + (j - i)
      BY <1>0, <1>2, <2>0
    <3> QED
      BY <2>3, <3>1
  <2>4. i - p \in 1 .. Len(F) => j \notin 1 .. Len(P)
    BY <1>0, <2>0 DEF p
  <2> QED
    BY <1>4, <2>1, <2>2, <2>3, <2>4
<1>10. AllThere(R, ns, done)
  <2> SUFFICES ASSUME NEW x \in done + 1 .. Len(ns)
               PROVE  \E i \in 1 .. Len(R) : R[i].m = x
    BY DEF AllThere
  <2>1. CASE x \in done + 1 .. Len(ms)
    <3>1. PICK i \in 1 .. Len(P) : P[i].m = x
      BY <2>1 DEF Framed, AllThere
    <3>2. i \in 1 .. Len(R) /\ R[i] = P[i]
      BY <1>0, <1>5 DEF p, Joined
    <3> QED
      BY <3>1, <3>2
  <2>2. CASE x \notin done + 1 .. Len(ms)
    <3>1. m # 0 /\ x = m
      BY <1>0, <1>1, <2>2
    <3>2. 1 \in 1 .. Len(F) /\ p + 1 \in 1 .. Len(R)
      BY <1>0, <1>2, <1>5, SMTT(30)
    <3>3. R[p + 1] = F[1] /\ F[1].m = m
      BY <3>2 DEF p, Joined, IsFrame
    <3> QED
      BY <3>1, <3>2, <3>3
  <2> QED
    BY <2>1, <2>2
<1> QED
  BY <1>6, <1>7, <1>8, <1>9, <1>10 DEF Framed

\* Bytes may be grouped at will.
LEMMA BytesGroup ==
  ASSUME NEW s \in Seq(Bytes), NEW t \in Seq(Bytes), NEW u \in Seq(Bytes)
  PROVE  (s \o t) \o u = s \o (t \o u)
  BY ConcatAssociative

\* Taking c bytes off a packet takes them off what is pending.
LEMMA DropFront ==
  ASSUME NEW s \in Seq(Bytes), NEW t \in Seq(Bytes), NEW c \in Nat, c <= Len(s)
  PROVE  LET p == SubSeq(s, c + 1, Len(s)) IN
           /\ p \in Seq(Bytes) /\ Len(p) = Len(s) - c
           /\ p # << >> => s # << >> /\ p[Len(p)] = s[Len(s)]
           /\ p \o t \in Seq(Bytes) /\ Len(s \o t) = c + Len(p \o t)
           /\ \A i \in 1 .. Len(p \o t) : /\ i + c \in 1 .. Len(s \o t)
                                          /\ (p \o t)[i] = (s \o t)[i + c]
<1> DEFINE p == SubSeq(s, c + 1, Len(s))
           Q == p \o t
           P == s \o t
<1>1. Len(s) \in Nat /\ Len(t) \in Nat /\ \A i \in 1 .. Len(s) : s[i] \in Bytes
  BY LenProperties, ElementOfSeq
<1>2. /\ p \in Seq(Bytes) /\ Len(p) = Len(s) - c
      /\ \A i \in 1 .. Len(p) : p[i] = s[i + c]
  <2>1. c + 1 \in Int /\ Len(s) \in Int /\ \A i \in c + 1 .. Len(s) : s[i] \in Bytes
    BY <1>1
  <2>2. /\ p \in Seq(Bytes)
        /\ Len(p) = IF c + 1 <= Len(s) THEN Len(s) - (c + 1) + 1 ELSE 0
        /\ \A i \in 1 .. Len(s) - (c + 1) + 1 : p[i] = s[(c + 1) + i - 1]
    BY <2>1, SubSeqProperties
  <2> HIDE DEF p
  <2>3. Len(s) - (c + 1) + 1 = Len(s) - c /\ Len(s) - c \in Nat
    BY <1>1
  <2>4. Len(p) = Len(s) - c
    <3>1. CASE c + 1 <= Len(s)
      BY <2>2, <2>3, <3>1
    <3>2. CASE ~(c + 1 <= Len(s))
      <4>1. Len(p) = 0
        BY <2>2, <3>2
      <4>2. Len(s) - c = 0
        BY <1>1, <3>2
      <4> QED
        BY <4>1, <4>2
    <3> QED
      BY <3>1, <3>2
  <2>5. ASSUME NEW i \in 1 .. Len(p) PROVE p[i] = s[i + c]
    <3>1. i \in 1 .. Len(s) - (c + 1) + 1 /\ (c + 1) + i - 1 = i + c
      BY <1>1, <2>3, <2>4
    <3> QED
      BY <2>2, <3>1
  <2> QED
    BY <2>2, <2>4, <2>5
<1> HIDE DEF p
<1>3. p # << >> => s # << >> /\ p[Len(p)] = s[Len(s)]
  <2> SUFFICES ASSUME p # << >> PROVE s # << >> /\ p[Len(p)] = s[Len(s)]
    OBVIOUS
  <2>1. Len(p) \in Nat \ {0}
    BY <1>2, EmptySeq
  <2>2. Len(p) \in 1 .. Len(p) /\ Len(p) + c = Len(s) /\ Len(s) > 0
    BY <1>1, <1>2, <2>1
  <2>3. s # << >>
    BY <2>2, EmptySeq
  <2>4. p[Len(p)] = s[Len(p) + c]
    BY <1>2, <2>2
  <2> QED
    BY <2>2, <2>3, <2>4
<1>4. /\ Q \in Seq(Bytes) /\ Len(Q) = Len(p) + Len(t)
      /\ \A i \in 1 .. Len(p) + Len(t) : Q[i] = IF i <= Len(p) THEN p[i] ELSE t[i - Len(p)]
  BY <1>2, ConcatProperties
<1>5. /\ Len(P) = Len(s) + Len(t)
      /\ \A i \in 1 .. Len(s) + Len(t) : P[i] = IF i <= Len(s) THEN s[i] ELSE t[i - Len(s)]
  BY ConcatProperties
<1> HIDE DEF P, Q
<1>6. Len(P) = c + Len(Q)
  BY <1>1, <1>2, <1>4, <1>5
<1>7. ASSUME NEW i \in 1 .. Len(Q)
      PROVE  i + c \in 1 .. Len(P) /\ Q[i] = P[i + c]
  <2>1. /\ i \in 1 .. Len(p) + Len(t) /\ i \in Nat /\ i + c \in 1 .. Len(s) + Len(t)
        /\ i + c \in 1 .. Len(P)
    BY <1>1, <1>2, <1>4, <1>5
  <2>2. CASE i <= Len(p)
    <3>1. i \in 1 .. Len(p) /\ i + c <= Len(s)
      BY <1>1, <1>2, <2>1, <2>2
    <3> QED
      BY <1>2, <1>4, <1>5, <2>1, <2>2, <3>1
  <2>3. CASE ~(i <= Len(p))
    <3>1. ~(i + c <= Len(s)) /\ (i + c) - Len(s) = i - Len(p)
      BY <1>1, <1>2, <2>1, <2>3
    <3>2. Q[i] = t[i - Len(p)] /\ P[i + c] = t[(i + c) - Len(s)]
      BY <1>4, <1>5, <2>1, <2>3, <3>1
    <3> QED
      BY <2>1, <3>1, <3>2
  <2> QED
    BY <2>2, <2>3
<1> QED
  BY <1>2, <1>3, <1>4, <1>6, <1>7 DEF p, P, Q

-----------------------------------------------------------------------------
(* What the first part of blehostd_enqueue_one() finds.                    *)

\* p and n are a packet and a length that fit what is pending.
Right(p, n) ==
  /\ p \in Seq(Bytes) /\ n \in Nat
  /\ Framed(p \o stream, msgs, Done)
  /\ AtPlace(p \o stream, n, msgs)
  /\ \A i \in 1 .. Len(p \o stream) :
       IsBare(msgs, (p \o stream)[i].m) =>
         n = Len(p) /\ n # 0 /\ (p \o stream)[1].m = (p \o stream)[i].m
  /\ p # << >> => p[Len(p)].k # 1 \/ p[Len(p)].v = 0
  /\ (\E i \in 1 .. Len(p \o stream) : (p \o stream)[i].m = 0) => empties > 0
  /\ n = 0 /\ empties = 0 => p = << >> \/ (Len(p) = 1 /\ p[1].v = 0)

\* Bytes of the packet are the first of those pending.
LEMMA PendingFacts ==
  ASSUME Typed
  PROVE  /\ Pending \in Seq(Bytes) /\ msgs \in Seq(Msgs) /\ Done \in Nat
         /\ Len(packet) \in Nat /\ Len(stream) \in Nat
         /\ Len(Pending) = Len(packet) + Len(stream)
         /\ \A i \in 1 .. Len(packet) : packet[i] \in Bytes /\ Pending[i] = packet[i]
         /\ \A i \in 1 .. Len(stream) : Pending[Len(packet) + i] = stream[i]
<1>1. /\ packet \in Seq(Bytes) /\ stream \in Seq(Bytes) /\ msgs \in Seq(Msgs)
      /\ req_mq \in Seq(Seq(Bytes)) /\ handled \in Seq(Seq(Bytes))
  BY DEF Typed
<1>2. Len(packet) \in Nat /\ Len(stream) \in Nat /\ Done \in Nat
  BY <1>1, LenProperties DEF Done
<1>3. /\ Pending \in Seq(Bytes)
      /\ Len(Pending) = Len(packet) + Len(stream)
      /\ \A i \in 1 .. Len(packet) + Len(stream) :
           Pending[i] = IF i <= Len(packet) THEN packet[i] ELSE stream[i - Len(packet)]
  BY <1>1, ConcatProperties DEF Pending
<1>4. ASSUME NEW i \in 1 .. Len(packet)
      PROVE  packet[i] \in Bytes /\ Pending[i] = packet[i]
  <2>1. i \in 1 .. Len(packet) + Len(stream) /\ i <= Len(packet)
    BY <1>2
  <2> QED
    BY <1>1, <1>3, <2>1, ElementOfSeq
<1>5. ASSUME NEW i \in 1 .. Len(stream)
      PROVE  Pending[Len(packet) + i] = stream[i]
  <2>1. /\ Len(packet) + i \in 1 .. Len(packet) + Len(stream)
        /\ ~(Len(packet) + i <= Len(packet)) /\ (Len(packet) + i) - Len(packet) = i
    BY <1>2
  <2> QED
    BY <1>3, <2>1
<1> QED
  BY <1>1, <1>2, <1>3, <1>4, <1>5

\* Nothing is taken off: a text is being collected, or there is less than a header.
LEMMA NothingDecoded ==
  ASSUME IInv,
         \A i \in 1 .. Len(Pending) : ~IsBare(msgs, Pending[i].m),
         packet_len = 0 => packet = << >> \/ (Len(packet) = 1 /\ packet[1].v = 0)
  PROVE  Right(packet, packet_len)
<1>1. packet \in Seq(Bytes) /\ packet_len \in Nat
  BY DEF IInv, Typed
<1> QED
  BY <1>1 DEF IInv, Right, Pending, HeaderWhole, EmptiesCounted

\* A header is taken off.
LEMMA HeaderDecoded ==
  ASSUME IInv, packet_len = 0, Len(packet) >= 2, ~IsBare(msgs, packet[1].m)
  PROVE  /\ Ntohs(packet) = MsgLen(msgs, packet[1].m)
         /\ MsgLen(msgs, packet[1].m) <= MaxMsgSz
         /\ Right(SubSeq(packet, 3, Len(packet)), MsgLen(msgs, packet[1].m))
<1> DEFINE m == packet[1].m
           L == MsgLen(msgs, m)
           p == SubSeq(packet, 3, Len(packet))
           Q == p \o stream
<1>0. /\ Typed /\ Framed(Pending, msgs, Done) /\ AtPlace(Pending, 0, msgs)
      /\ BareAlone /\ HeaderWhole /\ EmptiesCounted
  BY DEF IInv
<1>1. /\ Pending \in Seq(Bytes) /\ msgs \in Seq(Msgs) /\ Done \in Nat
      /\ packet \in Seq(Bytes) /\ stream \in Seq(Bytes)
      /\ Len(packet) \in Nat /\ Len(stream) \in Nat
      /\ Len(Pending) = Len(packet) + Len(stream)
      /\ \A i \in 1 .. Len(packet) : packet[i] \in Bytes /\ Pending[i] = packet[i]
      /\ \A i \in 1 .. Len(stream) : Pending[Len(packet) + i] = stream[i]
  BY <1>0, PendingFacts DEF Typed
<1>2. /\ 1 \in 1 .. Len(packet) /\ 2 \in 1 .. Len(packet) /\ Len(Pending) > 0
      /\ 1 \in 1 .. Len(Pending) /\ 2 \in 1 .. Len(Pending)
      /\ Pending[1] = packet[1] /\ Pending[2] = packet[2]
  BY <1>1
<1>3. Pending[1].k = 1
  BY <1>0, <1>2 DEF AtPlace, First
<1>4. /\ m # 0 => m \in 1 .. Len(msgs) /\ msgs[m].len \in Nat \ {0}
      /\ FrameLen(msgs, m) \in Nat
  <2>1. BytesRight(Pending, msgs, Done)
    BY <1>0 DEF Framed
  <2>2. /\ Pending[1].m # 0 => /\ Pending[1].m \in 1 .. Len(msgs)
                               /\ msgs[Pending[1].m].len \in Nat \ {0}
        /\ FrameLen(msgs, Pending[1].m) \in Nat
    BY <1>1, <1>2, <2>1, InsideFrame
  <2> QED
    BY <1>2, <2>2
<1>5. L \in Nat /\ L <= MaxMsgSz /\ (L = 0 => m = 0)
  <2>1. CASE m = 0
    BY <2>1, FramingAssumption DEF MsgLen
  <2>2. CASE m # 0
    BY <1>0, <1>4, <2>2 DEF MsgLen, Typed
  <2> QED
    BY <2>1, <2>2
<1>6. Pending[2].m = m /\ Pending[2].k = 2
  <2>1. FrameLen(msgs, m) >= 2
    BY <1>4 DEF FrameLen
  <2>2. 1 \in 0 .. FrameLen(msgs, m) - Pending[1].k
    BY <1>3, <1>4, <2>1
  <2>3. Pending[1 + 1].m = m /\ Pending[1 + 1].k = 1 + 1
    BY <1>0, <1>2, <1>3, <2>2 DEF Framed, RestFollows
  <2> QED
    BY <2>3
<1>7. Ntohs(packet) = L
  <2>1. packet[1].v = L \div Base /\ packet[2].v = L % Base
    BY <1>0, <1>2, <1>3, <1>6 DEF Framed, BytesRight, Value
  <2>2. Base * (L \div Base) + (L % Base) = L
    BY <1>5, LengthReadBack, FramingAssumption
  <2> QED
    BY <2>1, <2>2 DEF Ntohs
<1> HIDE DEF m, L
<1>8. /\ p \in Seq(Bytes)
      /\ p # << >> => packet # << >> /\ p[Len(p)] = packet[Len(packet)]
      /\ Q \in Seq(Bytes) /\ Len(Pending) = 2 + Len(Q)
      /\ \A i \in 1 .. Len(Q) : i + 2 \in 1 .. Len(Pending) /\ Q[i] = Pending[i + 2]
  <2>1. 2 + 1 = 3 /\ 2 \in Nat /\ 2 <= Len(packet)
    BY <1>1
  <2> QED
    BY <1>1, <2>1, DropFront DEF Pending
<1> HIDE DEF p
<1> HIDE DEF Q
<1>9. Framed(Q, msgs, Done) /\ AtPlace(Q, L, msgs)
  BY <1>0, <1>1, <1>2, <1>3, <1>8, DropHeader DEF L, m
<1>10. \A i \in 1 .. Len(Q) : ~IsBare(msgs, Q[i].m)
  BY <1>0, <1>2, <1>8, SMTT(30) DEF BareAlone, m
<1>11. p # << >> => p[Len(p)].k # 1 \/ p[Len(p)].v = 0
  BY <1>0, <1>8 DEF HeaderWhole
<1>12. (\E i \in 1 .. Len(Q) : Q[i].m = 0) => empties > 0
  BY <1>0, <1>8 DEF EmptiesCounted
<1>13. L = 0 => empties > 0
  BY <1>0, <1>2, <1>5 DEF EmptiesCounted, m
<1>14. Right(p, L)
  <2>1. empties \in Nat
    BY <1>0 DEF Typed
  <2>2. ~(L = 0 /\ empties = 0)
    BY <1>13, <2>1
  <2> QED
    BY <1>5, <1>8, <1>9, <1>10, <1>11, <1>12, <2>2 DEF Right, Q
<1> QED
  BY <1>5, <1>7, <1>14 DEF L, m, p

\* A message without header is taken whole.
LEMMA BareDecoded ==
  ASSUME IInv, looping, Len(Pending) > 0, IsBare(msgs, Pending[1].m)
  PROVE  /\ packet_len = 0 /\ Len(packet) >= 2
         /\ Ntohs(packet) > MaxMsgSz
         /\ Right(packet, Len(packet))
<1> DEFINE m == Pending[1].m
           n == msgs[m].len
<1>0. /\ Typed /\ Framed(Pending, msgs, Done) /\ AtPlace(Pending, packet_len, msgs)
      /\ BareAlone /\ EmptiesCounted
  BY DEF IInv
<1>1. /\ Pending \in Seq(Bytes) /\ msgs \in Seq(Msgs) /\ Done \in Nat
      /\ packet \in Seq(Bytes) /\ Len(packet) \in Nat
      /\ \A i \in 1 .. Len(packet) : Pending[i] = packet[i]
  BY <1>0, PendingFacts DEF Typed
<1>2. 1 \in 1 .. Len(Pending)
  BY <1>1, ByteFields
<1>3. packet_len = 0 /\ Len(packet) = n
  BY <1>0, <1>2 DEF BareAlone, Typed
<1>4. m # 0 /\ Pending[1].k = 3
  BY <1>0, <1>3 DEF AtPlace, First, IsBare
<1>5. /\ m = Done + 1 /\ m \in 1 .. Len(msgs) /\ n \in Nat \ {0}
      /\ \A i \in 1 .. n : /\ Pending[i] = Byte(Base - 1, Done + 1, i + 2)
                            /\ Pending[i].m = Done + 1 /\ Pending[i].k = i + 2
  BY <1>0, <1>1, <1>4, TextInFront
<1>6. n >= 2
  BY <1>0, <1>5 DEF Typed, IsBare
<1> HIDE DEF n
<1>7. Ntohs(packet) > MaxMsgSz
  <2>1. /\ 1 \in 1 .. n /\ 2 \in 1 .. n
        /\ packet[1] = Byte(Base - 1, Done + 1, 1 + 2)
        /\ packet[2] = Byte(Base - 1, Done + 1, 2 + 2)
    BY <1>1, <1>3, <1>5, <1>6, SMTT(30)
  <2>2. packet[1].v = Base - 1 /\ packet[2].v = Base - 1
    BY <2>1 DEF Byte
  <2>3. Base * (Base - 1) + (Base - 1) > MaxMsgSz
    BY TextExceedsMax, FramingAssumption
  <2> QED
    BY <2>2, <2>3 DEF Ntohs
<1>8. packet[Len(packet)].k # 1
  <2>1. n \in 1 .. n
    BY <1>5
  <2>2. packet[n].k = n + 2
    BY <1>1, <1>3, <1>5, <2>1
  <2> QED
    BY <1>3, <1>5, <2>2
<1>9. AtPlace(Pending, Len(packet), msgs)
  BY <1>3, <1>4, <1>5 DEF AtPlace, n
<1> QED
  BY <1>0, <1>1, <1>3, <1>5, <1>6, <1>7, <1>8, <1>9
     DEF Right, Pending, BareAlone, EmptiesCounted

\* Whatever the packet holds, the first part of blehostd_enqueue_one() finds the place in
\* the stream right, if no read has cut the header of a long message.
LEMMA DecodedRight ==
  ASSUME IInv, looping
  PROVE  Right(Decoded.p, Decoded.n)
<1>0. Typed /\ AtPlace(Pending, packet_len, msgs) /\ BareAlone /\ HeaderWhole
  BY DEF IInv
<1>1. /\ Len(packet) \in Nat /\ Len(stream) \in Nat
      /\ Len(Pending) = Len(packet) + Len(stream) /\ packet \in Seq(Bytes)
      /\ \A i \in 1 .. Len(packet) : Pending[i] = packet[i]
  BY <1>0, PendingFacts DEF Typed
<1>2. CASE \E i \in 1 .. Len(Pending) : IsBare(msgs, Pending[i].m)
  <2>1. Len(Pending) > 0 /\ IsBare(msgs, Pending[1].m)
    BY <1>0, <1>1, <1>2 DEF BareAlone
  <2>2. /\ packet_len = 0 /\ Len(packet) >= 2 /\ Ntohs(packet) > MaxMsgSz
        /\ Right(packet, Len(packet))
    BY <2>1, BareDecoded
  <2>3. packet # << >> /\ Len(packet) # 1
    BY <2>2, <1>1, EmptySeq
  <2>4. Decoded = [p |-> packet, n |-> Len(packet)]
    BY <2>2, <2>3 DEF Decoded
  <2> QED
    BY <2>2, <2>4
<1>3. CASE \A i \in 1 .. Len(Pending) : ~IsBare(msgs, Pending[i].m)
  <2>1. CASE packet_len # 0
    <3>1. Decoded = [p |-> packet, n |-> packet_len]
      BY <2>1 DEF Decoded
    <3> QED
      BY <1>3, <2>1, <3>1, NothingDecoded
  <2>2. CASE packet_len = 0 /\ packet = << >>
    <3>1. Decoded = [p |-> packet, n |-> packet_len]
      BY <2>2 DEF Decoded
    <3>2. packet_len = 0 => packet = << >> \/ (Len(packet) = 1 /\ packet[1].v = 0)
      BY <2>2
    <3>3. Right(packet, packet_len)
      BY <1>3, <3>2, NothingDecoded
    <3> QED
      BY <3>1, <3>3
  <2>3. CASE packet_len = 0 /\ packet # << >> /\ Len(packet) = 1
    <3>1. 1 \in 1 .. Len(Pending) /\ Pending[1] = packet[1]
      BY <1>1, <2>3
    <3>2. packet[1].k = 1
      BY <1>0, <1>1, <1>3, <2>3, <3>1 DEF AtPlace, First
    <3>3. packet[1].v = 0
      BY <1>0, <2>3, <3>2 DEF HeaderWhole
    <3>4. Decoded = [p |-> packet, n |-> packet_len]
      BY <2>3, <3>3 DEF Decoded
    <3> QED
      BY <1>3, <2>3, <3>3, <3>4, NothingDecoded
  <2>4. CASE packet_len = 0 /\ packet # << >> /\ Len(packet) # 1
    <3>0. Len(packet) \in Nat \ {0}
      BY <1>1, <2>4, EmptySeq
    <3>1. Len(packet) >= 2
      BY <2>4, <3>0, SMTT(30)
    <3>2. 1 \in 1 .. Len(Pending) /\ Pending[1] = packet[1]
      BY <1>1, <3>1
    <3>3. ~IsBare(msgs, packet[1].m)
      BY <1>3, <3>2
    <3>4. /\ Ntohs(packet) = MsgLen(msgs, packet[1].m)
          /\ MsgLen(msgs, packet[1].m) <= MaxMsgSz
          /\ Right(SubSeq(packet, 3, Len(packet)), MsgLen(msgs, packet[1].m))
      BY <2>4, <3>1, <3>3, HeaderDecoded
    <3>5. Ntohs(packet) \in Nat
      BY <3>4 DEF Right
    <3>6. ~(Ntohs(packet) > MaxMsgSz)
      BY <3>4, <3>5, FramingAssumption
    <3>7. Decoded = [p |-> SubSeq(packet, 3, Len(packet)), n |-> Ntohs(packet)]
      BY <2>4, <3>6 DEF Decoded
    <3> QED
      BY <3>4, <3>7
  <2> QED
    BY <2>1, <2>2, <2>3, <2>4
<1> QED
  BY <1>2, <1>3

-----------------------------------------------------------------------------
(* The client's steps.                                                     *)

\* The text of a message is a sequence of bytes.
LEMMA TextIsSeq ==
  ASSUME NEW n \in Nat \ {0}, NEW m \in Nat
  PROVE  /\ Text(n, m) \in Seq(Bytes) /\ Len(Text(n, m)) = n
         /\ \A i \in 1 .. n : Text(n, m)[i] = Byte(Base - 1, m, i + 2)
<1>1. \A i \in 1 .. n : Byte(Base - 1, m, i + 2) \in Bytes
  BY FramingAssumption DEF Byte, Bytes
<1>2. Text(n, m) \in [1 .. n -> Bytes]
  BY <1>1 DEF Text
<1>3. Text(n, m) \in Seq(Bytes)
  BY <1>2, SeqDef
<1>4. DOMAIN Text(n, m) = 1 .. n
  BY DEF Text
<1>5. Len(Text(n, m)) = n
  BY <1>3, <1>4, LenProperties
<1> QED
  BY <1>3, <1>5 DEF Text

\* So is a header.
LEMMA HeaderIsSeq ==
  ASSUME NEW n \in Nat, NEW m \in Nat
  PROVE  /\ Header(n, m) \in Seq(Bytes) /\ Len(Header(n, m)) = 2
         /\ Header(n, m)[1] = Byte(n \div Base, m, 1)
         /\ Header(n, m)[2] = Byte(n % Base, m, 2)
<1>1. n \div Base \in Nat /\ n % Base \in Nat
  BY LengthReadBack, FramingAssumption
<1>2. Byte(n \div Base, m, 1) \in Bytes /\ Byte(n % Base, m, 2) \in Bytes
  BY <1>1 DEF Byte, Bytes
<1> QED
  BY <1>2 DEF Header

\* What the client writes for each kind of message is its frame.
LEMMA FrameWritten ==
  ASSUME NEW ns \in Seq(Msgs), NEW m \in Nat, m = 0 \/ m \in 1 .. Len(ns)
  PROVE  /\ m = 0 => Header(0, 0) \in Seq(Bytes) /\ IsFrame(Header(0, 0), ns, m)
         /\ m # 0 /\ ns[m].bare =>
              Text(ns[m].len, m) \in Seq(Bytes) /\ IsFrame(Text(ns[m].len, m), ns, m)
         /\ m # 0 /\ ~ns[m].bare =>
              /\ Header(ns[m].len, m) \o Text(ns[m].len, m) \in Seq(Bytes)
              /\ IsFrame(Header(ns[m].len, m) \o Text(ns[m].len, m), ns, m)
<1>1. CASE m = 0
  <2> DEFINE F == Header(0, 0)
  <2>1. /\ F \in Seq(Bytes) /\ Len(F) = 2
        /\ F[1] = Byte(0 \div Base, 0, 1) /\ F[2] = Byte(0 % Base, 0, 2)
    BY HeaderIsSeq
  <2>2. FrameLen(ns, m) = 2 /\ First(ns, m) = 1 /\ MsgLen(ns, m) = 0
    BY <1>1 DEF FrameLen, First, IsBare, MsgLen
  <2>3. /\ F[1].m = 0 /\ F[1].k = 1 /\ F[1].v = 0 \div Base
        /\ F[2].m = 0 /\ F[2].k = 2 /\ F[2].v = 0 % Base
    BY <2>1 DEF Byte
  <2> HIDE DEF F
  <2>4. ASSUME NEW i \in 1 .. Len(F)
        PROVE  F[i].m = m /\ F[i].k = 1 + (i - 1) /\ F[i].v = Value(ns, m, F[i].k)
    <3>1. i = 1 \/ i = 2
      BY <2>1
    <3> QED
      BY <1>1, <2>2, <2>3, <3>1 DEF Value
  <2>5. IsFrame(F, ns, m)
    BY <2>1, <2>2, <2>4 DEF IsFrame
  <2> QED
    BY <1>1, <2>1, <2>5 DEF F
<1>2. CASE m # 0 /\ ns[m].bare
  <2> DEFINE n == ns[m].len
             F == Text(n, m)
  <2>1. n \in Nat \ {0}
    BY <1>2, MsgFields
  <2> HIDE DEF n
  <2>2. /\ F \in Seq(Bytes) /\ Len(F) = n
        /\ \A i \in 1 .. n : F[i] = Byte(Base - 1, m, i + 2)
    BY <2>1, TextIsSeq
  <2> HIDE DEF F
  <2>3. FrameLen(ns, m) = n + 2 /\ First(ns, m) = 3
    BY <1>2 DEF FrameLen, First, IsBare, n
  <2>4. ASSUME NEW i \in 1 .. Len(F)
        PROVE  F[i].m = m /\ F[i].k = 3 + (i - 1) /\ F[i].v = Value(ns, m, F[i].k)
    <3>1. F[i].m = m /\ F[i].k = i + 2 /\ F[i].v = Base - 1
      BY <2>2 DEF Byte
    <3>2. i + 2 = 3 + (i - 1) /\ i + 2 # 1 /\ i + 2 # 2
      BY <2>1, <2>2
    <3> QED
      BY <3>1, <3>2 DEF Value
  <2>5. IsFrame(F, ns, m)
    BY <2>1, <2>2, <2>3, <2>4 DEF IsFrame
  <2> QED
    BY <1>2, <2>2, <2>5 DEF F, n
<1>3. CASE m # 0 /\ ~ns[m].bare
  <2> DEFINE n == ns[m].len
             F == Header(n, m) \o Text(n, m)
  <2>1. n \in Nat \ {0}
    BY <1>3, MsgFields
  <2> HIDE DEF n
  <2>2. /\ Text(n, m) \in Seq(Bytes) /\ Len(Text(n, m)) = n
        /\ \A i \in 1 .. n : Text(n, m)[i] = Byte(Base - 1, m, i + 2)
    BY <2>1, TextIsSeq
  <2>3. /\ Header(n, m) \in Seq(Bytes) /\ Len(Header(n, m)) = 2
        /\ Header(n, m)[1] = Byte(n \div Base, m, 1)
        /\ Header(n, m)[2] = Byte(n % Base, m, 2)
    BY <2>1, HeaderIsSeq
  <2>4. /\ F \in Seq(Bytes) /\ Len(F) = 2 + n
        /\ \A i \in 1 .. 2 + n :
             F[i] = IF i <= 2 THEN Header(n, m)[i] ELSE Text(n, m)[i - 2]
    <3> DEFINE H == Header(n, m)
               T == Text(n, m)
    <3>1. H \in Seq(Bytes) /\ T \in Seq(Bytes) /\ Len(H) = 2 /\ Len(T) = n
      BY <2>2, <2>3
    <3> HIDE DEF H, T
    <3>2. /\ H \o T \in Seq(Bytes) /\ Len(H \o T) = Len(H) + Len(T)
          /\ \A i \in 1 .. Len(H) + Len(T) :
               (H \o T)[i] = IF i <= Len(H) THEN H[i] ELSE T[i - Len(H)]
      BY <3>1, ConcatProperties
    <3> QED
      BY <3>1, <3>2 DEF H, T
  <2> HIDE DEF F
  <2>5. FrameLen(ns, m) = n + 2 /\ First(ns, m) = 1 /\ MsgLen(ns, m) = n
    BY <1>3 DEF FrameLen, First, IsBare, MsgLen, n
  <2>6. ASSUME NEW i \in 1 .. Len(F)
        PROVE  F[i].m = m /\ F[i].k = 1 + (i - 1) /\ F[i].v = Value(ns, m, F[i].k)
    <3>0. i \in 1 .. 2 + n
      BY <2>4
    <3>1. CASE i = 1
      <4>1. F[1] = Byte(n \div Base, m, 1)
        BY <2>3, <2>4, <3>0, <3>1
      <4> QED
        BY <2>5, <3>1, <4>1 DEF Byte, Value
    <3>2. CASE i = 2
      <4>1. F[2] = Byte(n % Base, m, 2)
        BY <2>3, <2>4, <3>0, <3>2
      <4> QED
        BY <2>5, <3>2, <4>1 DEF Byte, Value
    <3>3. CASE i # 1 /\ i # 2
      <4>1. i - 2 \in 1 .. n /\ ~(i <= 2) /\ (i - 2) + 2 = i /\ 1 + (i - 1) = i
        BY <2>1, <3>0, <3>3
      <4>2. F[i] = Byte(Base - 1, m, (i - 2) + 2)
        BY <2>2, <2>4, <3>0, <4>1
      <4> QED
        BY <3>3, <4>1, <4>2 DEF Byte, Value
    <3> QED
      BY <3>1, <3>2, <3>3
  <2>7. IsFrame(F, ns, m)
    BY <2>1, <2>4, <2>5, <2>6 DEF IsFrame
  <2> QED
    BY <1>3, <2>4, <2>7 DEF F, n
<1> QED
  BY <1>1, <1>2, <1>3

\* The client writes frame F of message m.
Writes(m, F) ==
  /\ msgs' \in Seq(Msgs) /\ Grown(msgs, msgs', m) /\ IsFrame(F, msgs', m)
  /\ \A x \in 1 .. Len(msgs') :
       msgs'[x].len <= MaxMsgSz /\ (msgs'[x].bare => msgs'[x].len >= 2)
  /\ stream' = stream \o F /\ ~BareUnread
  /\ IsBare(msgs', m) => stream = << >> /\ packet = << >> /\ ~looping
  /\ empties' \in Nat /\ empties' >= empties /\ (m = 0 => empties' > 0)
  /\ UNCHANGED <<packet, packet_len, looping, req_mq, req_ev, draining, handled, fails>>

\* Writing keeps the invariant.
LEMMA ClientWrites ==
  ASSUME IInv, NEW m \in Nat, NEW F \in Seq(Bytes), Writes(m, F)
  PROVE  IInv'
<1>0. /\ Typed /\ Framed(Pending, msgs, Done) /\ AtPlace(Pending, packet_len, msgs)
      /\ BareAlone /\ HeaderWhole /\ EmptiesCounted
      /\ RequestsAreMessages /\ NothingWholeLeft
  BY DEF IInv
<1>1. /\ Pending \in Seq(Bytes) /\ msgs \in Seq(Msgs) /\ Done \in Nat
      /\ packet \in Seq(Bytes) /\ stream \in Seq(Bytes)
      /\ Len(packet) \in Nat /\ Len(stream) \in Nat
      /\ Len(Pending) \in Nat
      /\ Len(msgs) \in Nat /\ Len(F) \in Nat
  <2>1. /\ packet \in Seq(Bytes) /\ stream \in Seq(Bytes)
    BY <1>0 DEF Typed
  <2>2. /\ Pending \in Seq(Bytes) /\ msgs \in Seq(Msgs) /\ Done \in Nat
        /\ Len(packet) \in Nat /\ Len(stream) \in Nat
    BY <1>0, PendingFacts
  <2> QED
    BY <2>1, <2>2, LenProperties
<1>2. Pending' = Pending \o F
  <2>1. Pending' = packet \o (stream \o F)
    BY DEF Pending, Writes
  <2>2. (packet \o stream) \o F = packet \o (stream \o F)
    <3>1. packet \in Seq(Bytes) /\ stream \in Seq(Bytes)
      BY <1>1
    <3> QED
      BY <3>1, BytesGroup
  <2> QED
    BY <2>1, <2>2 DEF Pending
<1>3. /\ Pending' \in Seq(Bytes) /\ stream' \in Seq(Bytes)
      /\ Joined(Pending, F, Pending')
  <2>1. stream' \in Seq(Bytes)
    BY <1>1, ConcatProperties DEF Writes
  <2>2. /\ Pending' \in Seq(Bytes) /\ Len(Pending') = Len(Pending) + Len(F)
        /\ \A i \in 1 .. Len(Pending) + Len(F) :
             Pending'[i] = IF i <= Len(Pending) THEN Pending[i] ELSE F[i - Len(Pending)]
    <3>1. /\ Pending \o F \in Seq(Bytes) /\ Len(Pending \o F) = Len(Pending) + Len(F)
          /\ \A i \in 1 .. Len(Pending) + Len(F) :
               (Pending \o F)[i] = IF i <= Len(Pending) THEN Pending[i] ELSE F[i - Len(Pending)]
      BY <1>1, ConcatProperties
    <3> QED
      BY <1>2, <3>1
  <2>3. ASSUME NEW i \in 1 .. Len(Pending) PROVE Pending'[i] = Pending[i]
    <3>1. i \in 1 .. Len(Pending) + Len(F) /\ i <= Len(Pending)
      BY <1>1
    <3> QED
      BY <2>2, <3>1
  <2>4. ASSUME NEW i \in 1 .. Len(F) PROVE Pending'[Len(Pending) + i] = F[i]
    <3>1. /\ Len(Pending) + i \in 1 .. Len(Pending) + Len(F)
          /\ ~(Len(Pending) + i <= Len(Pending)) /\ (Len(Pending) + i) - Len(Pending) = i
      BY <1>1
    <3> QED
      BY <2>2, <3>1
  <2> QED
    BY <2>1, <2>2, <2>3, <2>4 DEF Joined
<1>4. Done' = Done
  BY DEF Done, Writes
<1>5. Typed'
  BY <1>0, <1>3 DEF Typed, Writes
<1>6. Framed(Pending', msgs', Done')
  <2>1. Done <= Len(msgs)
    <3>1. Len(handled \o req_mq) = Done
      BY <1>0, ConcatProperties DEF Typed, Done
    <3> QED
      BY <1>0, <3>1 DEF RequestsAreMessages
  <2> QED
    BY <1>0, <1>1, <1>3, <1>4, <2>1, AddFrame DEF Writes
\* What was there says the same about the messages there are now.
<1>7. ASSUME NEW i \in 1 .. Len(Pending)
      PROVE  /\ Pending'[i] = Pending[i] /\ i \in 1 .. Len(Pending')
             /\ First(msgs', Pending[i].m) = First(msgs, Pending[i].m)
             /\ IsBare(msgs', Pending[i].m) <=> IsBare(msgs, Pending[i].m)
             /\ Pending[i].m # 0 => msgs'[Pending[i].m].len = msgs[Pending[i].m].len
  <2>1. BytesRight(Pending, msgs, Done)
    BY <1>0 DEF Framed
  <2>2. Pending[i].m # 0 => Pending[i].m \in 1 .. Len(msgs)
    BY <1>1, <2>1, InsideFrame
  <2>3. Pending[i].m # 0 => msgs'[Pending[i].m] = msgs[Pending[i].m]
    BY <2>2 DEF Grown, Writes
  <2>4. Pending'[i] = Pending[i] /\ Len(Pending') = Len(Pending) + Len(F)
    BY <1>3 DEF Joined
  <2>5. i \in 1 .. Len(Pending')
    BY <1>1, <2>4
  <2> QED
    BY <2>3, <2>4, <2>5 DEF First, IsBare
<1>8. /\ Len(F) > 0 /\ F[1].m = m /\ F[1].k = First(msgs', m)
      /\ Len(F) = (FrameLen(msgs', m) - First(msgs', m)) + 1
      /\ \A i \in 1 .. Len(F) : F[i].m = m
  <2>1. m # 0 => m \in 1 .. Len(msgs')
    BY <1>1, MsgFields DEF Grown, Writes
  <2>2. m # 0 => msgs'[m].len \in Nat \ {0}
    BY <2>1, MsgFields DEF Writes
  <2>3. FrameLen(msgs', m) \in Nat /\ First(msgs', m) \in Nat
        /\ First(msgs', m) <= FrameLen(msgs', m)
    <3>1. CASE m = 0
      <4>1. FrameLen(msgs', m) = 2 /\ First(msgs', m) = 1
        BY <3>1 DEF FrameLen, First, IsBare
      <4> QED
        BY <4>1
    <3>2. CASE m # 0
      <4>1. /\ FrameLen(msgs', m) = msgs'[m].len + 2
            /\ First(msgs', m) = 1 \/ First(msgs', m) = 3
        BY <3>2 DEF FrameLen, First
      <4> QED
        BY <2>2, <3>2, <4>1
    <3> QED
      BY <3>1, <3>2
  <2>4. /\ Len(F) = (FrameLen(msgs', m) - First(msgs', m)) + 1
        /\ \A i \in 1 .. Len(F) : F[i].m = m /\ F[i].k = First(msgs', m) + (i - 1)
    BY DEF IsFrame, Writes
  <2>5. 1 \in 1 .. Len(F)
    BY <1>1, <2>3, <2>4
  <2>6. F[1].k = First(msgs', m) + (1 - 1)
    BY <2>4, <2>5
  <2> QED
    BY <2>3, <2>4, <2>5, <2>6
<1>9. Len(Pending) = 0 => Pending'[1] = F[1]
  <2>1. 1 \in 1 .. Len(F)
    BY <1>1, <1>8
  <2>2. Pending'[Len(Pending) + 1] = F[1]
    BY <1>3, <2>1 DEF Joined
  <2>3. Len(Pending) = 0 => Len(Pending) + 1 = 1
    BY <1>1
  <2> QED
    BY <2>2, <2>3
<1>10. AtPlace(Pending', packet_len', msgs')
  <2>1. CASE Len(Pending) = 0
    <3>1. packet_len' = 0
      BY <1>0, <2>1 DEF AtPlace, Writes
    <3>2. Pending'[1].k = First(msgs', Pending'[1].m)
      BY <1>8, <1>9, <2>1
    <3> QED
      BY <3>1, <3>2 DEF AtPlace
  <2>2. CASE Len(Pending) # 0
    <3>1. 1 \in 1 .. Len(Pending) /\ Len(Pending) > 0
      BY <1>1, <2>2
    <3>2. Len(Pending') > 0
      BY <1>1, <1>3, <3>1 DEF Joined
    <3> QED
      BY <1>0, <1>7, <3>1, <3>2 DEF AtPlace, Writes
  <2> QED
    BY <2>1, <2>2
<1>11. BareAlone'
  <2> SUFFICES ASSUME NEW i \in 1 .. Len(Pending'), IsBare(msgs', Pending'[i].m)
               PROVE  /\ packet_len = 0
                      /\ Pending'[1].m = Pending'[i].m
                      /\ \/ looping /\ Len(packet) = msgs'[Pending'[i].m].len
                         \/ ~looping /\ packet = << >> /\ Len(stream') = msgs'[Pending'[i].m].len
    BY DEF BareAlone, Writes
  <2>0. i \in 1 .. Len(Pending) \/ Pending'[i].m = m
    <3>1. CASE i <= Len(Pending)
      BY <1>1, <3>1
    <3>2. CASE ~(i <= Len(Pending))
      <4>1. i - Len(Pending) \in 1 .. Len(F) /\ Len(Pending) + (i - Len(Pending)) = i
        <5>1. Len(Pending') = Len(Pending) + Len(F)
          BY <1>3 DEF Joined
        <5> QED
          BY <1>1, <3>2, <5>1
      <4>2. Pending'[i] = F[i - Len(Pending)]
        BY <1>3, <4>1 DEF Joined
      <4> QED
        BY <1>8, <4>1, <4>2
    <3> QED
      BY <3>1, <3>2
  <2>1. CASE i \in 1 .. Len(Pending)
    <3>1. IsBare(msgs, Pending[i].m) /\ Pending[i].m # 0
      BY <1>7, <2>1 DEF IsBare
    <3>2. /\ packet_len = 0 /\ Pending[1].m = Pending[i].m
          /\ \/ looping /\ Len(packet) = msgs[Pending[i].m].len
             \/ ~looping /\ packet = << >>
      BY <1>0, <2>1, <3>1 DEF BareAlone
    <3>3. 1 \in 1 .. Len(Pending)
      BY <1>1, <2>1
    <3>4. ~(~looping /\ packet = << >>)
      <4> SUFFICES ASSUME packet = << >> PROVE FALSE
        OBVIOUS
      <4>1. Pending = stream
        BY <1>1, ConcatEmptySeq DEF Pending
      <4>2. stream # << >> /\ Head(stream) = stream[1]
        BY <1>1, <3>3, <4>1, EmptySeq
      <4> QED
        BY <3>1, <3>2, <4>1, <4>2 DEF BareUnread, IsBare, Writes
    <3> QED
      BY <1>7, <2>1, <3>1, <3>2, <3>3, <3>4
  <2>2. CASE Pending'[i].m = m
    <3>1. stream = << >> /\ packet = << >> /\ ~looping /\ m # 0
      BY <2>2 DEF IsBare, Writes
    <3>2. Len(Pending) = 0
      BY <3>1, ConcatEmptySeq DEF Pending
    <3>3. packet_len = 0
      BY <1>0, <3>2 DEF AtPlace
    <3>4. Pending'[1].m = m
      BY <1>8, <1>9, <3>2
    <3>5. stream' = F
      BY <3>1, ConcatEmptySeq DEF Writes
    <3>6. FrameLen(msgs', m) = msgs'[m].len + 2 /\ First(msgs', m) = 3
      BY <2>2, <3>1 DEF FrameLen, First
    <3>7. msgs'[m].len \in Nat
      <4>1. m \in 1 .. Len(msgs')
        BY <1>1, <3>1, MsgFields DEF Grown, Writes
      <4> QED
        BY <4>1, MsgFields DEF Writes
    <3>8. Len(F) = msgs'[m].len
      BY <1>8, <3>6, <3>7
    <3> QED
      BY <2>2, <3>1, <3>3, <3>4, <3>5, <3>8
  <2> QED
    BY <2>0, <2>1, <2>2
<1>12. HeaderWhole'
  BY <1>0 DEF HeaderWhole, Writes
<1>13. EmptiesCounted'
  <2> SUFFICES ASSUME NEW i \in 1 .. Len(Pending'), Pending'[i].m = 0 PROVE empties' > 0
    BY DEF EmptiesCounted
  <2>1. CASE i <= Len(Pending)
    <3>1. i \in 1 .. Len(Pending) /\ Pending[i].m = 0
      BY <1>1, <1>7, <2>1
    <3>2. empties > 0 /\ empties \in Nat
      BY <1>0, <3>1 DEF EmptiesCounted, Typed
    <3>3. empties' \in Nat /\ empties' >= empties
      BY DEF Writes
    <3> QED
      BY <3>2, <3>3
  <2>2. CASE ~(i <= Len(Pending))
    <3>1. i - Len(Pending) \in 1 .. Len(F) /\ Len(Pending) + (i - Len(Pending)) = i
      BY <1>1, <1>3, <2>2 DEF Joined
    <3>2. Pending'[i] = F[i - Len(Pending)]
      BY <1>3, <3>1 DEF Joined
    <3> QED
      BY <1>8, <3>1, <3>2 DEF Writes
  <2> QED
    BY <2>1, <2>2
<1>14. RequestsAreMessages'
  <2>1. Len(handled \o req_mq) = Done
    BY <1>0, ConcatProperties DEF Typed, Done
  <2>2. /\ Done <= Len(msgs)
        /\ \A i \in 1 .. Done : (handled \o req_mq)[i] = Text(msgs[i].len, i)
    BY <1>0, <2>1 DEF RequestsAreMessages
  <2>3. Len(msgs) <= Len(msgs')
    BY <1>1 DEF Grown, Writes
  <2>4. ASSUME NEW i \in 1 .. Done PROVE msgs'[i] = msgs[i]
    <3>1. i \in 1 .. Len(msgs)
      BY <1>1, <2>2
    <3> QED
      BY <3>1 DEF Grown, Writes
  <2>5. Done <= Len(msgs')
    <3>1. Len(msgs') \in Nat
      BY MsgFields DEF Writes
    <3> QED
      BY <1>1, <2>2, <2>3, <3>1
  <2>6. \A i \in 1 .. Done : (handled \o req_mq)[i] = Text(msgs'[i].len, i)
    BY <2>2, <2>4
  <2> QED
    BY <2>1, <2>5, <2>6 DEF RequestsAreMessages, Text, Writes
<1>15. NothingWholeLeft'
  <2>1. empties' = 0 => empties = 0
    BY <1>0 DEF Typed, Writes
  <2>2. Decoded' = Decoded
    BY DEF Decoded, Ntohs, Writes
  <2> QED
    BY <1>0, <2>1, <2>2 DEF NothingWholeLeft, IsWhole, Writes
<1> QED
  BY <1>5, <1>6, <1>10, <1>11, <1>12, <1>13, <1>14, <1>15 DEF IInv

\* Each of the client's actions writes one frame.
LEMMA ClientStep ==
  ASSUME IInv, Client
  PROVE  IInv'
<1>0. /\ msgs \in Seq(Msgs) /\ Len(msgs) \in Nat /\ empties \in Nat
      /\ stream \in Seq(Bytes)
      /\ \A x \in 1 .. Len(msgs) :
           msgs[x].len <= MaxMsgSz /\ (msgs[x].bare => msgs[x].len >= 2)
  BY LenProperties DEF IInv, Typed
<1> DEFINE m == Len(msgs) + 1
<1>1. ASSUME NEW n \in Lens, NEW b \in BOOLEAN, b => n >= 2,
             msgs' = Append(msgs, [len |-> n, bare |-> b])
      PROVE  /\ msgs' \in Seq(Msgs) /\ Grown(msgs, msgs', m)
             /\ m \in Nat \ {0} /\ m \in 1 .. Len(msgs')
             /\ msgs'[m].len = n /\ msgs'[m].bare = b
             /\ \A x \in 1 .. Len(msgs') :
                  msgs'[x].len <= MaxMsgSz /\ (msgs'[x].bare => msgs'[x].len >= 2)
  <2>1. n \in Nat \ {0} /\ n <= MaxMsgSz
    BY FramingAssumption
  <2>2. [len |-> n, bare |-> b] \in Msgs
    BY <2>1 DEF Msgs
  <2>3. /\ msgs' \in Seq(Msgs) /\ Len(msgs') = m
        /\ \A x \in 1 .. Len(msgs) : msgs'[x] = msgs[x]
        /\ msgs'[m] = [len |-> n, bare |-> b]
    BY <1>0, <1>1, <2>2, AppendProperties
  <2>4. msgs'[m].len = n /\ msgs'[m].bare = b
    BY <2>3
  <2>5. m \in Nat \ {0} /\ m \in 1 .. m
    BY <1>0
  <2>6. \A x \in 1 .. m : x \in 1 .. Len(msgs) \/ x = m
    BY <1>0
  <2>7. \A x \in 1 .. m :
          msgs'[x].len <= MaxMsgSz /\ (msgs'[x].bare => msgs'[x].len >= 2)
    BY <1>0, <1>1, <2>1, <2>3, <2>4, <2>6
  <2> QED
    BY <2>3, <2>4, <2>5, <2>7 DEF Grown
<1>2. ASSUME NEW n \in Lens, WriteFramed(n) PROVE IInv'
  <2> DEFINE F == Header(n, m) \o Text(n, m)
  <2>1. msgs' = Append(msgs, [len |-> n, bare |-> FALSE]) /\ ~BareUnread
    BY <1>2 DEF WriteFramed
  <2>2. /\ msgs' \in Seq(Msgs) /\ Grown(msgs, msgs', m)
        /\ m \in Nat \ {0} /\ m \in 1 .. Len(msgs')
        /\ msgs'[m].len = n /\ msgs'[m].bare = FALSE
        /\ \A x \in 1 .. Len(msgs') :
             msgs'[x].len <= MaxMsgSz /\ (msgs'[x].bare => msgs'[x].len >= 2)
    BY <1>1, <2>1
  <2>3. F \in Seq(Bytes) /\ IsFrame(F, msgs', m)
    BY <2>2, FrameWritten
  <2>4. stream' = stream \o F
    <3>1. n \in Nat \ {0} /\ n \in Nat /\ m \in Nat
      BY <2>2, FramingAssumption
    <3>2. stream' = (stream \o Header(n, m)) \o Text(n, m)
      BY <1>2 DEF WriteFramed
    <3>3. Header(n, m) \in Seq(Bytes) /\ Text(n, m) \in Seq(Bytes) /\ stream \in Seq(Bytes)
      BY <1>0, <3>1, HeaderIsSeq, TextIsSeq
    <3> HIDE DEF m
    <3>4. (stream \o Header(n, m)) \o Text(n, m) = stream \o (Header(n, m) \o Text(n, m))
      BY <3>3, ConcatAssociative, SMTT(30)
    <3> QED
      BY <3>2, <3>4
  <2>5. /\ empties' = empties
        /\ UNCHANGED <<packet, packet_len, looping, req_mq, req_ev, draining, handled, fails>>
    BY <1>2 DEF WriteFramed
  <2> HIDE DEF m, F
  <2>6. /\ empties' \in Nat /\ empties' >= empties
        /\ m # 0 /\ ~IsBare(msgs', m)
    BY <1>0, <2>2, <2>5 DEF IsBare
  <2>7. Writes(m, F)
    BY <2>1, <2>2, <2>3, <2>4, <2>5, <2>6 DEF Writes
  <2> QED
    BY <2>2, <2>3, <2>7, ClientWrites
<1>3. ASSUME NEW n \in Lens, WriteBare(n) PROVE IInv'
  <2> DEFINE F == Text(n, m)
  <2>1. /\ msgs' = Append(msgs, [len |-> n, bare |-> TRUE]) /\ n >= 2
        /\ stream = << >> /\ packet = << >> /\ ~looping
    BY <1>3 DEF WriteBare
  <2>2. /\ msgs' \in Seq(Msgs) /\ Grown(msgs, msgs', m)
        /\ m \in Nat \ {0} /\ m \in 1 .. Len(msgs')
        /\ msgs'[m].len = n /\ msgs'[m].bare = TRUE
        /\ \A x \in 1 .. Len(msgs') :
             msgs'[x].len <= MaxMsgSz /\ (msgs'[x].bare => msgs'[x].len >= 2)
    BY <1>1, <2>1
  <2>3. F \in Seq(Bytes) /\ IsFrame(F, msgs', m)
    BY <2>2, FrameWritten
  <2>4. stream' = stream \o F
    <3>1. stream' = F
      BY <1>3 DEF WriteBare
    <3> HIDE DEF F
    <3>2. << >> \o F = F
      BY <2>3, ConcatEmptySeq
    <3> QED
      BY <2>1, <3>1, <3>2
  <2>5. /\ empties' = empties
        /\ UNCHANGED <<packet, packet_len, looping, req_mq, req_ev, draining, handled, fails>>
    BY <1>3 DEF WriteBare
  <2> HIDE DEF m, F
  <2>6. empties' \in Nat /\ empties' >= empties /\ m # 0
    BY <1>0, <2>2, <2>5
  <2>7. ~BareUnread
    BY <2>1 DEF BareUnread
  <2>8. Writes(m, F)
    BY <2>1, <2>2, <2>3, <2>4, <2>5, <2>6, <2>7 DEF Writes
  <2> QED
    BY <2>2, <2>3, <2>8, ClientWrites
<1>4. ASSUME WriteEmpty PROVE IInv'
  <2> DEFINE F == Header(0, 0)
  <2>1. /\ stream' = stream \o F /\ ~BareUnread /\ empties' = empties + 1
        /\ msgs' = msgs
        /\ UNCHANGED <<packet, packet_len, looping, req_mq, req_ev, draining, handled, fails>>
    BY <1>4 DEF WriteEmpty
  <2>2. F \in Seq(Bytes) /\ IsFrame(F, msgs', 0) /\ 0 \in Nat
    BY <1>0, <2>1, FrameWritten
  <2> HIDE DEF F
  <2>3. Grown(msgs, msgs', 0) /\ ~IsBare(msgs', 0)
    BY <2>1 DEF Grown, IsBare
  <2>4. empties' \in Nat /\ empties' >= empties /\ empties' > 0
    BY <1>0, <2>1
  <2>5. Writes(0, F)
    BY <1>0, <2>1, <2>2, <2>3, <2>4 DEF Writes
  <2> QED
    BY <2>2, <2>5, ClientWrites
<1> QED
  BY <1>2, <1>3, <1>4 DEF Client

-----------------------------------------------------------------------------
(* The steps of the readable callback.                                     *)

\* A read moves bytes from the stream to the packet.
LEMMA SocketReadableStep ==
  ASSUME IInv, ~SplitHeaders, NEW j \in 1 .. Len(stream), SocketReadable(j)
  PROVE  IInv'
<1> DEFINE a == SubSeq(stream, 1, j)
           b == SubSeq(stream, j + 1, Len(stream))
<1>0. /\ Typed /\ Framed(Pending, msgs, Done) /\ AtPlace(Pending, packet_len, msgs)
      /\ BareAlone /\ EmptiesCounted /\ RequestsAreMessages
  BY DEF IInv
<1>1. /\ packet \in Seq(Bytes) /\ stream \in Seq(Bytes) /\ Len(stream) \in Nat
      /\ \A i \in 1 .. Len(stream) : stream[i] \in Bytes
  BY <1>0, LenProperties, ElementOfSeq DEF Typed
<1>2. /\ packet' = packet \o a /\ stream' = b /\ looping' = TRUE /\ ~looping
      /\ UNCHANGED <<msgs, packet_len, req_mq, req_ev, draining, handled, fails, empties>>
      /\ BareUnread => j = Len(stream)
      /\ stream[j].k # 1 \/ stream[j].v = 0
  BY DEF SocketReadable, Readable
<1>3. /\ a \in Seq(Bytes) /\ Len(a) = j /\ a[j] = stream[j]
      /\ b \in Seq(Bytes) /\ a \o b = stream
      /\ j \in Nat \ {0}
  <2>0. j \in Nat \ {0} /\ 1 <= j /\ j - 1 + 1 = j /\ 1 + j - 1 = j
    BY <1>1
  <2>1. \A i \in 1 .. j : stream[i] \in Bytes
    BY <1>1
  <2>2. /\ a \in Seq(Bytes) /\ Len(a) = IF 1 <= j THEN j - 1 + 1 ELSE 0
        /\ \A i \in 1 .. j - 1 + 1 : a[i] = stream[1 + i - 1]
    BY <2>0, <2>1, SubSeqProperties
  <2>3. \A i \in j + 1 .. Len(stream) : stream[i] \in Bytes
    BY <1>1
  <2>4. j + 1 \in Int /\ Len(stream) \in Int
    BY <1>1
  <2>5. b \in Seq(Bytes)
    BY <2>3, <2>4, SubSeqProperties
  <2>6. SubSeq(stream, 1, j) \o SubSeq(stream, j + 1, Len(stream)) = SubSeq(stream, 1, Len(stream))
    <3>1. /\ 1 \in 1 .. Len(stream) + 1 /\ j \in 1 - 1 .. Len(stream)
          /\ Len(stream) \in j .. Len(stream)
      BY <1>1
    <3> QED
      BY <1>1, <3>1, ConcatAdjacentSubSeq
  <2>7. a \o b = stream
    BY <1>1, <2>6, SubSeqFull
  <2> HIDE DEF a, b
  <2>8. a[j] = stream[j]
    <3>1. j \in 1 .. j - 1 + 1
      BY <2>0
    <3> QED
      BY <2>0, <2>2, <3>1
  <2> QED
    BY <2>0, <2>2, <2>5, <2>7, <2>8
<1> HIDE DEF a, b
<1>4. Pending' = Pending
  <2>1. (packet \o a) \o b = packet \o (a \o b)
    <3>1. packet \in Seq(Bytes) /\ a \in Seq(Bytes) /\ b \in Seq(Bytes)
      BY <1>1, <1>3
    <3> QED
      BY <3>1, BytesGroup
  <2>2. Pending' = (packet \o a) \o b
    BY <1>2 DEF Pending
  <2> QED
    BY <1>3, <2>1, <2>2 DEF Pending
<1>5. /\ packet' \in Seq(Bytes) /\ Len(packet') = Len(packet) + j
      /\ packet'[Len(packet')] = stream[j]
  <2>1. /\ packet \o a \in Seq(Bytes) /\ Len(packet \o a) = Len(packet) + Len(a)
        /\ \A i \in 1 .. Len(packet) + Len(a) :
             (packet \o a)[i] = IF i <= Len(packet) THEN packet[i] ELSE a[i - Len(packet)]
    BY <1>1, <1>3, ConcatProperties
  <2>2. Len(packet) \in Nat
    BY <1>1, LenProperties
  <2>3. /\ Len(packet) + j \in 1 .. Len(packet) + Len(a)
        /\ ~(Len(packet) + j <= Len(packet)) /\ (Len(packet) + j) - Len(packet) = j
    BY <1>3, <2>2
  <2>4. (packet \o a)[Len(packet) + j] = a[j]
    BY <2>1, <2>3
  <2> QED
    BY <1>2, <1>3, <2>1, <2>4
<1>6. Typed'
  BY <1>0, <1>2, <1>3, <1>5 DEF Typed
<1>7. Done' = Done
  BY <1>2 DEF Done
<1>8. BareAlone'
  <2> SUFFICES ASSUME NEW i \in 1 .. Len(Pending), IsBare(msgs, Pending[i].m)
               PROVE  /\ packet_len = 0 /\ Pending[1].m = Pending[i].m
                      /\ looping' /\ Len(packet') = msgs[Pending[i].m].len
    BY <1>2, <1>4 DEF BareAlone
  <2>1. /\ packet_len = 0 /\ Pending[1].m = Pending[i].m
        /\ packet = << >> /\ Len(stream) = msgs[Pending[i].m].len
    BY <1>0, <1>2 DEF BareAlone
  <2>2. Pending = stream
    BY <1>1, <2>1, ConcatEmptySeq DEF Pending
  <2>3. stream # << >> /\ Head(stream) = stream[1]
    <3>1. Len(stream) # 0
      BY <1>1
    <3> QED
      BY <1>1, <3>1, EmptySeq
  <2>4. BareUnread
    BY <2>1, <2>2, <2>3 DEF BareUnread, IsBare
  <2>5. Len(packet) = 0
    BY <2>1, EmptySeq
  <2> QED
    BY <1>2, <1>3, <1>5, <2>1, <2>4, <2>5
<1>9. HeaderWhole' /\ EmptiesCounted' /\ RequestsAreMessages' /\ NothingWholeLeft'
  BY <1>0, <1>2, <1>4, <1>5
     DEF HeaderWhole, EmptiesCounted, RequestsAreMessages, NothingWholeLeft, Text
<1> QED
  BY <1>0, <1>2, <1>4, <1>6, <1>7, <1>8, <1>9 DEF IInv

\* The call returns 0 and leaves the packet as its first part made it.
LEMMA ReturnZeroStep ==
  ASSUME IInv, EnqueueNone \/ EnqueueFails
  PROVE  IInv'
<1> DEFINE p == Decoded.p
           n == Decoded.n
<1>0. Typed /\ RequestsAreMessages /\ looping
  BY DEF IInv, EnqueueNone, EnqueueFails
<1>1. Right(p, n)
  BY <1>0, DecodedRight
<1>2. /\ packet' = p /\ packet_len' = n /\ looping' = FALSE
      /\ UNCHANGED <<msgs, stream, req_mq, req_ev, draining, handled, empties>>
      /\ fails' \in Nat
      /\ ~(IsWhole(Decoded) /\ Len(p) = n)
      /\ fails' > 0 \/ ~IsWhole(Decoded)
  BY <1>0 DEF EnqueueNone, EnqueueFails, Typed
<1>3. IsWhole(Decoded) <=> n # 0 /\ Len(p) >= n
  BY DEF IsWhole
<1> HIDE DEF p, n
<1>4. /\ p \in Seq(Bytes) /\ n \in Nat /\ Len(p) \in Nat
      /\ Framed(p \o stream, msgs, Done) /\ AtPlace(p \o stream, n, msgs)
      /\ \A i \in 1 .. Len(p \o stream) :
           IsBare(msgs, (p \o stream)[i].m) => n = Len(p) /\ n # 0
      /\ p # << >> => p[Len(p)].k # 1 \/ p[Len(p)].v = 0
      /\ (\E i \in 1 .. Len(p \o stream) : (p \o stream)[i].m = 0) => empties > 0
      /\ n = 0 /\ empties = 0 => p = << >> \/ (Len(p) = 1 /\ p[1].v = 0)
  BY <1>1, LenProperties DEF Right
<1>5. Pending' = p \o stream /\ Done' = Done
  BY <1>2 DEF Pending, Done
<1>6. Typed'
  BY <1>0, <1>2, <1>4 DEF Typed
<1>7. BareAlone'
  <2> SUFFICES ASSUME NEW i \in 1 .. Len(p \o stream), IsBare(msgs, (p \o stream)[i].m)
               PROVE  FALSE
    BY <1>2, <1>5 DEF BareAlone
  <2>1. n = Len(p) /\ n # 0
    BY <1>4
  <2> QED
    BY <1>2, <1>3, <1>4, <2>1
<1>8. NothingWholeLeft'
  <2> SUFFICES ASSUME fails' = 0, empties' = 0 PROVE ~IsWhole(Decoded')
    BY DEF NothingWholeLeft, IsWhole
  <2>1. ~(n # 0 /\ Len(p) >= n) /\ empties = 0
    BY <1>2, <1>3
  <2>2. CASE n # 0
    <3>1. Decoded' = [p |-> p, n |-> n]
      BY <1>2, <2>2 DEF Decoded
    <3> QED
      BY <2>1, <3>1 DEF IsWhole
  <2>3. CASE n = 0
    <3>1. p = << >> \/ (Len(p) = 1 /\ p[1].v = 0)
      BY <1>4, <2>1, <2>3
    <3>2. Decoded'.n = 0
      BY <1>2, <2>3, <3>1 DEF Decoded
    <3> QED
      BY <3>2 DEF IsWhole
  <2> QED
    BY <2>2, <2>3
<1>9. HeaderWhole' /\ EmptiesCounted' /\ RequestsAreMessages'
  BY <1>0, <1>2, <1>4, <1>5 DEF HeaderWhole, EmptiesCounted, RequestsAreMessages, Text
<1> QED
  BY <1>2, <1>4, <1>5, <1>6, <1>7, <1>8, <1>9 DEF IInv

\* The call puts a message on the queue.  It is the client's next one.
LEMMA EnqueueOneStep ==
  ASSUME IInv, EnqueueOne
  PROVE  IInv'
<1> DEFINE p == Decoded.p
           n == Decoded.n
           Q == p \o stream
           r == SubSeq(p, 1, n)
           b == SubSeq(p, n + 1, Len(p))
<1>0. Typed /\ RequestsAreMessages /\ looping
  BY DEF IInv, EnqueueOne
<1>1. Right(p, n)
  BY <1>0, DecodedRight
<1>2. /\ req_mq' = Append(req_mq, r) /\ packet' = b /\ packet_len' = 0
      /\ req_ev' = TRUE /\ looping' = TRUE
      /\ UNCHANGED <<msgs, stream, draining, handled, fails, empties>>
      /\ n # 0 /\ Len(p) >= n
  BY DEF EnqueueOne, IsWhole, PostReq, GoesOn
<1> HIDE DEF p, n
<1>3. /\ p \in Seq(Bytes) /\ n \in Nat /\ Len(p) \in Nat
      /\ stream \in Seq(Bytes) /\ msgs \in Seq(Msgs) /\ Done \in Nat
      /\ req_mq \in Seq(Seq(Bytes)) /\ handled \in Seq(Seq(Bytes))
      /\ Framed(Q, msgs, Done) /\ AtPlace(Q, n, msgs)
      /\ \A i \in 1 .. Len(Q) : IsBare(msgs, Q[i].m) => Q[1].m = Q[i].m
      /\ p # << >> => p[Len(p)].k # 1 \/ p[Len(p)].v = 0
      /\ (\E i \in 1 .. Len(Q) : Q[i].m = 0) => empties > 0
  BY <1>0, <1>1, LenProperties, PendingFacts DEF Right, Typed
<1>4. /\ b \in Seq(Bytes) /\ b # << >> => p # << >> /\ b[Len(b)] = p[Len(p)]
      /\ b \o stream \in Seq(Bytes) /\ Len(Q) = n + Len(b \o stream)
      /\ \A i \in 1 .. Len(b \o stream) : /\ i + n \in 1 .. Len(Q)
                                          /\ (b \o stream)[i] = Q[i + n]
  <2>1. p \in Seq(Bytes) /\ stream \in Seq(Bytes) /\ n \in Nat /\ n <= Len(p)
    BY <1>2, <1>3
  <2> QED
    BY <2>1, DropFront, ZenonT(30)
<1>5. Q \in Seq(Bytes) /\ \A i \in 1 .. Len(p) : Q[i] = p[i]
  <2>1. /\ Q \in Seq(Bytes)
        /\ \A i \in 1 .. Len(p) + Len(stream) :
             Q[i] = IF i <= Len(p) THEN p[i] ELSE stream[i - Len(p)]
    BY <1>3, ConcatProperties
  <2> HIDE DEF Q
  <2>2. Len(stream) \in Nat
    BY <1>3, LenProperties
  <2>3. ASSUME NEW i \in 1 .. Len(p) PROVE Q[i] = p[i]
    <3>1. i \in 1 .. Len(p) + Len(stream) /\ i <= Len(p)
      BY <1>3, <2>2
    <3> QED
      BY <2>1, <3>1
  <2> QED
    BY <2>1, <2>3
<1> HIDE DEF Q, b
<1>6. Len(Q) > 0 /\ Q[1].m # 0 /\ Q[1].k = 3 /\ n = msgs[Q[1].m].len
  BY <1>2, <1>3 DEF AtPlace
<1>7. /\ Q[1].m = Done + 1 /\ Done + 1 \in 1 .. Len(msgs) /\ n \in Nat \ {0}
      /\ \A i \in 1 .. n : Q[i] = Byte(Base - 1, Done + 1, i + 2)
  BY <1>3, <1>5, <1>6, TextInFront
<1>8. /\ Framed(b \o stream, msgs, Done + 1) /\ AtPlace(b \o stream, 0, msgs)
      /\ \A i \in 1 .. Len(b \o stream) : (b \o stream)[i].m # Done + 1
  <2> DEFINE R == b \o stream
  <2>1. /\ R \in Seq(Bytes) /\ Len(Q) = msgs[Q[1].m].len + Len(R)
        /\ \A i \in 1 .. Len(R) : R[i] = Q[i + msgs[Q[1].m].len]
    BY <1>4, <1>6
  <2> HIDE DEF R
  <2>2. /\ Q \in Seq(Bytes) /\ msgs \in Seq(Msgs) /\ Done \in Nat
        /\ Framed(Q, msgs, Done) /\ Len(Q) > 0 /\ Q[1].k = 3 /\ Q[1].m # 0
    BY <1>3, <1>5, <1>6, Zenon
  <2>3. /\ Framed(R, msgs, Done + 1) /\ AtPlace(R, 0, msgs)
        /\ \A i \in 1 .. Len(R) : R[i].m # Done + 1
    BY <2>1, <2>2, DropText, ZenonT(30)
  <2> QED
    BY <2>3 DEF R
<1>9. Pending' = b \o stream
  BY <1>2 DEF Pending
\* The request is the text of the message.
<1>10. r = Text(msgs[Done + 1].len, Done + 1) /\ r \in Seq(Bytes)
  <2> DEFINE t == Text(n, Done + 1)
  <2>1. /\ t \in Seq(Bytes) /\ Len(t) = n
        /\ \A i \in 1 .. n : t[i] = Byte(Base - 1, Done + 1, i + 2)
    BY <1>3, <1>7, TextIsSeq
  <2>2. /\ r \in Seq(Bytes) /\ Len(r) = n
        /\ \A i \in 1 .. n : r[i] = p[i]
    <3>1. \A i \in 1 .. n : p[i] \in Bytes
      BY <1>2, <1>3, ElementOfSeq
    <3>2. /\ r \in Seq(Bytes) /\ Len(r) = IF 1 <= n THEN n - 1 + 1 ELSE 0
          /\ \A i \in 1 .. n - 1 + 1 : r[i] = p[1 + i - 1]
      BY <1>7, <3>1, SubSeqProperties
    <3> HIDE DEF r
    <3>3. n - 1 + 1 = n /\ 1 <= n /\ \A i \in 1 .. n : 1 + i - 1 = i
      BY <1>7
    <3> QED
      BY <3>2, <3>3
  <2>3. \A i \in 1 .. n : i \in 1 .. Len(p)
    BY <1>2, <1>3
  <2> HIDE DEF r, t
  <2>4. \A i \in 1 .. Len(r) : r[i] = t[i]
    BY <1>5, <1>7, <2>1, <2>2, <2>3
  <2>5. r = t
    BY <2>1, <2>2, <2>4, SeqEqual
  <2> QED
    BY <1>6, <1>7, <2>2, <2>5 DEF t
<1> HIDE DEF r
<1>11. /\ req_mq' \in Seq(Seq(Bytes)) /\ Done' = Done + 1
       /\ handled \o req_mq' = Append(handled \o req_mq, r)
  <2>1. req_mq' \in Seq(Seq(Bytes)) /\ Len(req_mq') = Len(req_mq) + 1
    BY <1>2, <1>3, <1>10, AppendProperties
  <2>2. Done' = Done + 1
    <3>1. Len(handled) \in Nat /\ Len(req_mq) \in Nat /\ handled' = handled
      BY <1>2, <1>3, LenProperties
    <3> QED
      BY <2>1, <3>1 DEF Done
  <2>3. <<r>> \in Seq(Seq(Bytes))
    BY <1>10
  <2>4. Append(req_mq, r) = req_mq \o <<r>>
    BY <1>3, <1>10, AppendIsConcat
  <2>5. (handled \o req_mq) \o <<r>> = handled \o (req_mq \o <<r>>)
    <3>1. handled \in Seq(Seq(Bytes)) /\ req_mq \in Seq(Seq(Bytes))
      BY <1>3
    <3> QED
      BY <2>3, <3>1, ConcatAssociative
  <2>6. handled \o req_mq \in Seq(Seq(Bytes))
    BY <1>3, ConcatProperties
  <2>7. Append(handled \o req_mq, r) = (handled \o req_mq) \o <<r>>
    BY <1>10, <2>6, AppendIsConcat
  <2> QED
    BY <1>2, <2>1, <2>2, <2>4, <2>5, <2>7
<1>12. Typed'
  BY <1>0, <1>2, <1>4, <1>11 DEF Typed
<1>13. RequestsAreMessages'
  <2> DEFINE h == handled \o req_mq
  <2>1. h \in Seq(Seq(Bytes)) /\ Len(h) = Done
    BY <1>3, ConcatProperties DEF Done
  <2>2. \A i \in 1 .. Len(h) : h[i] = Text(msgs[i].len, i)
    BY <1>0 DEF RequestsAreMessages
  <2> HIDE DEF h
  <2>3. /\ Len(Append(h, r)) = Done + 1
        /\ \A i \in 1 .. Done : Append(h, r)[i] = h[i]
        /\ Append(h, r)[Done + 1] = r
    BY <1>10, <2>1, AppendProperties
  <2>4. \A i \in 1 .. Done + 1 : Append(h, r)[i] = Text(msgs[i].len, i)
    <3>1. \A i \in 1 .. Done + 1 : i \in 1 .. Done \/ i = Done + 1
      BY <1>3
    <3> QED
      BY <1>10, <2>1, <2>2, <2>3, <3>1
  <2>5. Done + 1 <= Len(msgs)
    BY <1>3, <1>7
  <2>6. (handled \o req_mq)' = Append(h, r) /\ msgs' = msgs
    BY <1>2, <1>11 DEF h
  <2> QED
    BY <2>3, <2>4, <2>5, <2>6 DEF RequestsAreMessages, Text
<1>14. BareAlone'
  <2> SUFFICES ASSUME NEW i \in 1 .. Len(b \o stream), IsBare(msgs, (b \o stream)[i].m)
               PROVE  FALSE
    BY <1>2, <1>9 DEF BareAlone
  <2> QED
    BY <1>3, <1>4, <1>7, <1>8
<1>15. HeaderWhole'
  BY <1>2, <1>3, <1>4 DEF HeaderWhole
<1>16. EmptiesCounted'
  BY <1>2, <1>3, <1>4, <1>9 DEF EmptiesCounted
<1>17. NothingWholeLeft'
  BY <1>2 DEF NothingWholeLeft
<1> QED
  BY <1>2, <1>8, <1>9, <1>11, <1>12, <1>13, <1>14, <1>15, <1>16, <1>17 DEF IInv

-----------------------------------------------------------------------------
(* The blehostd task only moves requests from the queue to the handled.    *)

LEMMA ProcessStep ==
  ASSUME IInv, Process
  PROVE  IInv'
<1>0. Typed /\ RequestsAreMessages
  BY DEF IInv
<1>1. /\ UNCHANGED <<msgs, stream, packet, packet_len, looping, fails, empties>>
      /\ draining' \in BOOLEAN /\ req_ev' \in BOOLEAN
  BY <1>0 DEF Process, RunReqEvent, ProcessReq, NoMoreReqs, StillDraining, Typed
<1>2. /\ req_mq' \in Seq(Seq(Bytes)) /\ handled' \in Seq(Seq(Bytes))
      /\ handled' \o req_mq' = handled \o req_mq
      /\ Done' = Done
  <2>1. req_mq \in Seq(Seq(Bytes)) /\ handled \in Seq(Seq(Bytes))
    BY <1>0 DEF Typed
  <2>2. CASE RunReqEvent \/ NoMoreReqs
    BY <2>1, <2>2 DEF RunReqEvent, NoMoreReqs, Done
  <2>3. CASE ProcessReq
    <3>1. /\ req_mq # << >> /\ handled' = Append(handled, Head(req_mq))
          /\ req_mq' = Tail(req_mq)
      BY <2>3 DEF ProcessReq
    <3>2. /\ Head(req_mq) \in Seq(Bytes) /\ Tail(req_mq) \in Seq(Seq(Bytes))
          /\ Len(Tail(req_mq)) = Len(req_mq) - 1
      BY <2>1, <3>1, HeadTailProperties
    <3>3. /\ handled' \in Seq(Seq(Bytes)) /\ Len(handled') = Len(handled) + 1
      BY <2>1, <3>1, <3>2, AppendProperties
    <3>4. Done' = Done
      <4>1. Len(handled) \in Nat /\ Len(req_mq) \in Nat
        BY <2>1, LenProperties
      <4> QED
        BY <3>1, <3>2, <3>3, <4>1 DEF Done
    <3>5. handled' \o req_mq' = handled \o req_mq
      <4> DEFINE x == Head(req_mq)
                 t == Tail(req_mq)
      <4>1. <<x>> \in Seq(Seq(Bytes)) /\ t \in Seq(Seq(Bytes))
        BY <3>2
      <4>2. Append(handled, x) = handled \o <<x>>
        BY <2>1, <3>2, AppendIsConcat
      <4>3. req_mq = <<x>> \o t
        <5>1. Len(req_mq) \in Nat \ {0}
          BY <2>1, <3>1, EmptySeq
        <5>2. 1 \in 1 .. Len(req_mq) /\ Len(req_mq) \in 1 .. Len(req_mq)
          BY <5>1
        <5>3. SubSeq(req_mq, 1, Len(req_mq)) = <<req_mq[1]>> \o SubSeq(req_mq, 1 + 1, Len(req_mq))
          BY <2>1, <5>2, SubSeqRecursiveFirst
        <5>4. SubSeq(req_mq, 1, Len(req_mq)) = req_mq
          BY <2>1, SubSeqFull
        <5>5. t = SubSeq(req_mq, 2, Len(req_mq)) /\ 1 + 1 = 2
          BY <2>1, <3>1, TailIsSubSeq
        <5>6. x = req_mq[1]
          BY <2>1, <3>1
        <5> QED
          BY <5>3, <5>4, <5>5, <5>6
      <4> HIDE DEF x, t
      <4>4. (handled \o <<x>>) \o t = handled \o (<<x>> \o t)
        BY <2>1, <4>1, ConcatAssociative, SMTT(30)
      <4>5. handled' = Append(handled, x) /\ req_mq' = t
        BY <3>1 DEF x, t
      <4> QED
        BY <4>2, <4>3, <4>4, <4>5
    <3> QED
      BY <3>1, <3>2, <3>3, <3>4, <3>5
  <2> QED
    BY <2>2, <2>3 DEF Process
<1>3. Typed'
  BY <1>0, <1>1, <1>2 DEF Typed
<1>4. RequestsAreMessages'
  BY <1>0, <1>1, <1>2 DEF RequestsAreMessages, Text
<1>5. Pending' = Pending /\ Decoded' = Decoded
  BY <1>1 DEF Pending, Decoded, Ntohs
<1>6. BareAlone' /\ HeaderWhole' /\ EmptiesCounted' /\ NothingWholeLeft'
  BY <1>1, <1>5 DEF IInv, BareAlone, HeaderWhole, EmptiesCounted, NothingWholeLeft, IsWhole
<1> QED
  BY <1>1, <1>2, <1>3, <1>4, <1>5, <1>6 DEF IInv

-----------------------------------------------------------------------------
(* The theorems.                                                           *)

LEMMA InitRight ==
  ASSUME Init
  PROVE  IInv
<1>1. /\ msgs = << >> /\ stream = << >> /\ packet = << >> /\ packet_len = 0
      /\ ~looping /\ req_mq = << >> /\ handled = << >> /\ fails = 0 /\ empties = 0
  BY DEF Init
<1>2. Typed
  <2>1. Len(msgs) = 0
    BY <1>1
  <2>2. msgs \in Seq(Msgs) /\ stream \in Seq(Bytes) /\ packet \in Seq(Bytes)
    BY <1>1
  <2>3. req_mq \in Seq(Seq(Bytes)) /\ handled \in Seq(Seq(Bytes))
    BY <1>1
  <2>4. {looping, req_ev, draining} \subseteq BOOLEAN
    BY DEF Init
  <2>5. packet_len \in Nat /\ fails \in Nat /\ empties \in Nat
    BY <1>1
  <2>6. \A m \in 1 .. Len(msgs) :
          msgs[m].len <= MaxMsgSz /\ (msgs[m].bare => msgs[m].len >= 2)
    BY <2>1
  <2> QED
    BY <2>2, <2>3, <2>4, <2>5, <2>6, Zenon DEF Typed
<1>3. Len(Pending) = 0 /\ Done = 0 /\ Len(handled \o req_mq) = 0
  <2>1. Pending = << >> /\ handled \o req_mq = << >>
    BY <1>1, ConcatEmptySeq, EmptySeq DEF Pending
  <2> QED
    BY <1>1, <2>1 DEF Done
<1>4. Framed(Pending, msgs, Done)
  BY <1>1, <1>3
     DEF Framed, BytesRight, RestFollows, NextFollows, InOrder, AllThere
<1>5. AtPlace(Pending, packet_len, msgs) /\ BareAlone /\ EmptiesCounted
  BY <1>1, <1>3 DEF AtPlace, BareAlone, EmptiesCounted
<1>6. HeaderWhole /\ NothingWholeLeft
  BY <1>1 DEF HeaderWhole, NothingWholeLeft, IsWhole, Decoded
<1>7. RequestsAreMessages
  BY <1>1, <1>3 DEF RequestsAreMessages
<1> QED
  BY <1>2, <1>4, <1>5, <1>6, <1>7 DEF IInv

LEMMA NextRight ==
  ASSUME IInv, ~SplitHeaders, [Next]_vars
  PROVE  IInv'
<1>1. CASE Client
  BY <1>1, ClientStep
<1>2. CASE Read
  <2>1. CASE EnqueueOne
    BY <2>1, EnqueueOneStep
  <2>2. CASE EnqueueNone \/ EnqueueFails
    BY <2>2, ReturnZeroStep
  <2>3. CASE \E j \in 1 .. Len(stream) : SocketReadable(j)
    BY <2>3, SocketReadableStep
  <2> QED
    BY <1>2, <2>1, <2>2, <2>3 DEF Read, ReadLoop
<1>3. CASE Process
  BY <1>3, ProcessStep
<1>4. CASE UNCHANGED vars
  BY <1>4
     DEF vars, IInv, Typed, Pending, Done, BareAlone, HeaderWhole, EmptiesCounted,
         RequestsAreMessages, NothingWholeLeft, IsWhole, Decoded, Ntohs, Text
<1> QED
  BY <1>1, <1>2, <1>3, <1>4 DEF Next

\* When no read ends inside the header of a long message, the requests are the
\* client's messages, byte for byte and in order, wherever else the stream is cut.
THEOREM RequestsFaithful ==
  ASSUME SplitHeaders = FALSE
  PROVE  Spec => []RequestsAreMessages
<1>1. Init => IInv
  BY InitRight
<1>2. IInv /\ [Next]_vars => IInv'
  BY NextRight
<1>3. IInv => RequestsAreMessages
  BY DEF IInv
<1> QED
  BY <1>1, <1>2, <1>3, PTL DEF Spec

\* When the callback has returned, no whole message is left in the packet, unless
\* an allocation failed or a header said 0.
THEOREM PacketDrained ==
  ASSUME SplitHeaders = FALSE
  PROVE  Spec => []NothingWholeLeft
<1>1. Init => IInv
  BY InitRight
<1>2. IInv /\ [Next]_vars => IInv'
  BY NextRight
<1>3. IInv => NothingWholeLeft
  BY DEF IInv
<1> QED
  BY <1>1, <1>2, <1>3, PTL DEF Spec

\* A queued request has its event posted or its handler running, wherever the
\* stream is cut: the task that takes the last request looks once more.
THEOREM NoRequestForgotten == Spec => []RequestsHaveEvent
<1>1. Init => RequestsHaveEvent
  BY DEF Init, RequestsHaveEvent
<1>2. RequestsHaveEvent /\ [Next]_vars => RequestsHaveEvent'
  <2> SUFFICES ASSUME RequestsHaveEvent, [Next]_vars PROVE RequestsHaveEvent'
    OBVIOUS
  <2> USE DEF RequestsHaveEvent
  <2>1. CASE Client
    BY <2>1 DEF Client, WriteEmpty, WriteFramed, WriteBare
  <2>2. CASE Read
    <3>1. CASE EnqueueOne
      BY <3>1 DEF EnqueueOne, PostReq
    <3>2. CASE EnqueueNone \/ EnqueueFails
      BY <3>2 DEF EnqueueNone, EnqueueFails
    <3>3. ASSUME NEW j \in 1 .. Len(stream), SocketReadable(j)
          PROVE  RequestsHaveEvent'
      BY <3>3 DEF SocketReadable
    <3> QED
      BY <2>2, <3>1, <3>2, <3>3 DEF Read, ReadLoop
  <2>3. CASE RunReqEvent
    BY <2>3 DEF RunReqEvent
  <2>4. CASE ProcessReq
    BY <2>4 DEF ProcessReq, StillDraining
  <2>5. CASE NoMoreReqs
    BY <2>5 DEF NoMoreReqs
  <2>6. CASE UNCHANGED vars
    BY <2>6 DEF vars
  <2> QED
    BY <2>1, <2>2, <2>3, <2>4, <2>5, <2>6 DEF Next, Process
<1> QED
  BY <1>1, <1>2, PTL DEF Spec

-----------------------------------------------------------------------------
(* The refinement.                                                         *)

\* The messages handled so far, by the bytes at their front.
Sent == [i \in 1 .. Len(handled) |-> Head(handled[i]).m]

LEMMA HeadOfText ==
  ASSUME NEW n \in Nat \ {0}, NEW m
  PROVE  Head(Text(n, m)).m = m
<1>1. Text(n, m) \in Seq([v : {Base - 1}, m : {m}, k : Nat]) /\ Len(Text(n, m)) = n
  BY DEF Text, Byte
<1>2. Head(Text(n, m)) = Text(n, m)[1]
  BY <1>1
<1> QED
  BY <1>2 DEF Text, Byte

\* The requests handled are numbers 1, 2, ...
LEMMA SentInOrder ==
  ASSUME IInv
  PROVE  /\ Len(handled) \in Nat /\ Len(msgs) \in Nat
         /\ Done <= Len(msgs)
         /\ \A i \in 1 .. Len(handled) : Head(handled[i]).m = i
         /\ req_mq # << >> => Head(Head(req_mq)).m = Len(handled) + 1
<1>1. /\ handled \in Seq(Seq(Bytes)) /\ req_mq \in Seq(Seq(Bytes))
      /\ msgs \in Seq(Msgs) /\ RequestsAreMessages
  BY DEF IInv, Typed
<1> DEFINE reqs == handled \o req_mq
<1>2. /\ Len(reqs) = Len(handled) + Len(req_mq)
      /\ \A i \in 1 .. Len(handled) : reqs[i] = handled[i]
      /\ req_mq # << >> => Len(req_mq) >= 1 /\ reqs[Len(handled) + 1] = Head(req_mq)
  BY <1>1
<1>3. \A i \in 1 .. Len(reqs) : i \in 1 .. Len(msgs) /\ reqs[i] = Text(msgs[i].len, i)
  BY <1>1, <1>2 DEF RequestsAreMessages
<1> HIDE DEF reqs
<1>4. \A i \in 1 .. Len(reqs) : Head(reqs[i]).m = i
  <2> TAKE i \in 1 .. Len(reqs)
  <2>1. i \in 1 .. Len(msgs) /\ reqs[i] = Text(msgs[i].len, i)
    BY <1>3
  <2>2. msgs[i] \in Msgs
    BY <1>1, <2>1
  <2>3. msgs[i].len \in Nat \ {0}
    BY <2>2 DEF Msgs
  <2> QED
    BY <2>1, <2>3, HeadOfText
<1>5. Len(reqs) <= Len(msgs)
  BY <1>1 DEF RequestsAreMessages, reqs
<1>6. Len(handled) \in Nat /\ Len(req_mq) \in Nat /\ Len(msgs) \in Nat
  BY <1>1
<1>7. \A i \in 1 .. Len(handled) : Head(handled[i]).m = i
  BY <1>2, <1>4, <1>6
<1>8. ASSUME req_mq # << >> PROVE Head(Head(req_mq)).m = Len(handled) + 1
  BY <1>2, <1>4, <1>6, <1>8
<1> QED
  BY <1>2, <1>5, <1>6, <1>7, <1>8 DEF Done

\* Seen from outside, the input path is an ordered channel: writing a message
\* accepts it, handling a request sends the next one, whatever lies between.
THEOREM InputChannel ==
  ASSUME SplitHeaders = FALSE
  PROVE  Spec => ImplementsChannel
<1>1. Init => IInv /\ Chan!Init
  <2> SUFFICES ASSUME Init PROVE Chan!Init
    BY InitRight
  <2>1. Len(msgs) = 0 /\ 1 .. Len(handled) = {}
    BY DEF Init
  <2> QED
    BY <2>1 DEF Chan!Init
<1>2. IInv /\ [Next]_vars => IInv'
  BY NextRight
<1>3. ASSUME IInv, [Next]_vars PROVE [Chan!Next]_(Chan!chanVars)
  <2>0. /\ handled \in Seq(Seq(Bytes)) /\ req_mq \in Seq(Seq(Bytes)) /\ msgs \in Seq(Msgs)
    BY <1>3 DEF IInv, Typed
  <2>1. ASSUME NEW r, msgs' = Append(msgs, r), UNCHANGED handled PROVE Chan!Next
    <3>1. Len(msgs') = Len(msgs) + 1
      BY <2>0, <2>1
    <3> QED
      BY <2>1, <3>1 DEF Chan!Next, Chan!Accept
  <2>2. CASE ProcessReq
    <3> DEFINE n == Len(handled)
               m == Head(Head(req_mq)).m
    <3>1. /\ req_mq # << >> /\ handled' = Append(handled, Head(req_mq))
          /\ UNCHANGED msgs
      BY <2>2 DEF ProcessReq
    <3>2. /\ n \in Nat /\ Len(msgs) \in Nat /\ m = n + 1
          /\ \A i \in 1 .. n : Head(handled[i]).m = i
          /\ Done <= Len(msgs) /\ Len(req_mq) >= 1
      BY <1>3, <2>0, <3>1, SentInOrder
    <3>3. m \in 1 .. Len(msgs)
      BY <2>0, <3>2 DEF Done
    <3>4. /\ Len(handled') = n + 1
          /\ \A i \in 1 .. n : handled'[i] = handled[i]
          /\ handled'[n + 1] = Head(req_mq)
      BY <2>0, <3>1
    <3>5. Sent \in Seq(Nat) /\ Len(Sent) = n /\ \A i \in DOMAIN Sent : Sent[i] = i
      BY <3>2 DEF Sent
    <3>6. Sent' = Append(Sent, m)
      <4>1. Sent' = [i \in 1 .. n + 1 |-> Head(handled'[i]).m]
        BY <3>4 DEF Sent
      <4>2. /\ Append(Sent, m) \in Seq(Nat) /\ Len(Append(Sent, m)) = n + 1
            /\ \A i \in 1 .. n : Append(Sent, m)[i] = i
            /\ Append(Sent, m)[n + 1] = n + 1
        BY <3>2, <3>5
      <4>3. \A i \in 1 .. n + 1 : Head(handled'[i]).m = i
        BY <3>2, <3>4
      <4> QED
        BY <3>2, <4>1, <4>2, <4>3
    <3>7. PICK p \in 1 .. Len(msgs) : p = m
      BY <3>3
    <3>8. Chan!Send(p)
      <4>1. \A i \in DOMAIN Sent : Sent[i] # p
        BY <3>2, <3>5, <3>7
      <4>2. p = Len(Sent) + 1 /\ UNCHANGED Len(msgs)
        BY <3>1, <3>2, <3>5, <3>7
      <4>3. Sent' = Append(Sent, p)
        BY <3>6, <3>7
      <4> QED
        BY <4>1, <4>2, <4>3, Zenon DEF Chan!Send, Sent
    <3> QED
      BY <3>8 DEF Chan!Next
  <2>3. ASSUME UNCHANGED <<msgs, handled>> PROVE UNCHANGED Chan!chanVars
    BY <2>3 DEF Chan!chanVars
  <2>4. CASE Client
    BY <2>1, <2>3, <2>4 DEF Client, WriteEmpty, WriteFramed, WriteBare
  <2>5. CASE Read
    BY <2>3, <2>5
       DEF Read, ReadLoop, SocketReadable, EnqueueOne, EnqueueNone, EnqueueFails
  <2>6. CASE RunReqEvent \/ NoMoreReqs \/ UNCHANGED vars
    BY <2>3, <2>6 DEF RunReqEvent, NoMoreReqs, vars
  <2> QED
    BY <1>3, <2>2, <2>4, <2>5, <2>6 DEF Next, Process
<1> QED
  BY <1>1, <1>2, <1>3, PTL DEF Spec, ImplementsChannel, Chan!Spec

=============================================================================
