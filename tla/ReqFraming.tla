----------------------------- MODULE ReqFraming -----------------------------
(***************************************************************************)
(* The input path of main.c.                                               *)
(*                                                                         *)
(* The client writes messages to a stream socket, each one behind a        *)
(* two-byte big-endian length, or, alone in a read, without it.  The       *)
(* socket's readable callback collects what it reads in blehostd_packet    *)
(* and calls blehostd_enqueue_one() until it returns 0; every call that    *)
(* finds a whole message puts it on blehostd_req_mq.  The blehostd task    *)
(* runs the queue's event and handles the requests.                        *)
(*                                                                         *)
(* A byte is a record: its value "v", the message "m" it belongs to and    *)
(* its place "k" in it (1 and 2: the header, from 3 on: the text).  Values *)
(* are below Base instead of 256; the text of a message starts with a      *)
(* value so large that two bytes of it exceed BLEHOSTD_MAX_MSG_SZ.  Only   *)
(* the contents of a read are abstract, the arithmetic on lengths is that  *)
(* of the code.                                                            *)
(***************************************************************************)
EXTENDS Naturals, Sequences

CONSTANTS Base,         \* number of byte values
          MaxMsgSz,     \* BLEHOSTD_MAX_MSG_SZ
          Lens,         \* lengths of the messages the client writes
          MaxMsgs,      \* bound: messages the client writes
          MaxEmpties,   \* bound: headers of length 0
          MaxFails,     \* bound: failed mbuf allocations
          SplitHeaders  \* may a read end inside the header of a long message?

ASSUME FramingAssumption ==
  /\ Base \in Nat \ {0, 1}
  /\ MaxMsgSz \in 1 .. (Base - 1) * Base
  /\ Lens \subseteq 1 .. MaxMsgSz
  /\ MaxMsgs \in Nat
  /\ {MaxEmpties, MaxFails} \subseteq Nat
  /\ SplitHeaders \in BOOLEAN

VARIABLES msgs,        \* the messages the client wrote: length, bare or not
          stream,      \* the bytes written and not read
          packet,      \* blehostd_packet, empty when it is NULL
          packet_len,  \* blehostd_packet_len
          looping,     \* blehostd_socket_readable() is in its loop
          req_mq,      \* blehostd_req_mq
          req_ev,      \* the event of the queue is in blehostd_evq
          draining,    \* the blehostd task is in blehostd_process_req_mq()
          handled,     \* the requests handled, in order
          fails,       \* number of failed allocations
          empties      \* number of headers of length 0

vars == <<msgs, stream, packet, packet_len, looping, req_mq, req_ev, draining,
          handled, fails, empties>>

Init ==
  /\ msgs = << >>
  /\ stream = << >>
  /\ packet = << >>
  /\ packet_len = 0
  /\ looping = FALSE
  /\ req_mq = << >>
  /\ req_ev = FALSE
  /\ draining = FALSE
  /\ handled = << >>
  /\ fails = 0
  /\ empties = 0

-----------------------------------------------------------------------------
(* The client.                                                             *)

Byte(v, m, k) == [v |-> v, m |-> m, k |-> k]
Text(n, m) == [i \in 1 .. n |-> Byte(Base - 1, m, i + 2)]
Header(n, m) == <<Byte(n \div Base, m, 1), Byte(n % Base, m, 2)>>

\* A bare message must be alone in its read.
BareUnread == stream # << >> /\ Head(stream).m # 0 /\ msgs[Head(stream).m].bare

\* A message behind its length.
WriteFramed(n) ==
  /\ Len(msgs) < MaxMsgs
  /\ ~BareUnread
  /\ msgs' = Append(msgs, [len |-> n, bare |-> FALSE])
  /\ stream' = stream \o Header(n, Len(msgs) + 1) \o Text(n, Len(msgs) + 1)
  /\ UNCHANGED <<packet, packet_len, looping, req_mq, req_ev, draining, handled, fails, empties>>

\* "Temporary hack: Allow user to bypass length header; assume entire packet
\* received in one read": the client writes it when everything else is read.
WriteBare(n) ==
  /\ Len(msgs) < MaxMsgs
  /\ n >= 2
  /\ stream = << >> /\ packet = << >> /\ ~looping
  /\ msgs' = Append(msgs, [len |-> n, bare |-> TRUE])
  /\ stream' = Text(n, Len(msgs) + 1)
  /\ UNCHANGED <<packet, packet_len, looping, req_mq, req_ev, draining, handled, fails, empties>>

\* A header of length 0, with nothing behind it.
WriteEmpty ==
  /\ empties < MaxEmpties
  /\ ~BareUnread
  /\ empties' = empties + 1
  /\ stream' = stream \o Header(0, 0)
  /\ UNCHANGED <<msgs, packet, packet_len, looping, req_mq, req_ev, draining, handled, fails>>

-----------------------------------------------------------------------------
(* blehostd_socket_readable().                                             *)

\* What one read may return.
Readable(j) ==
  /\ j \in 1 .. Len(stream)
  /\ BareUnread => j = Len(stream)
  /\ stream[j].k = 1 /\ stream[j].v # 0 => SplitHeaders

\* mn_recvfrom() returns the next bytes; they begin or continue the packet.
SocketReadable(j) ==
  /\ ~looping
  /\ Readable(j)
  /\ packet' = packet \o SubSeq(stream, 1, j)
  /\ stream' = SubSeq(stream, j + 1, Len(stream))
  /\ looping' = TRUE
  /\ UNCHANGED <<msgs, packet_len, req_mq, req_ev, draining, handled, fails, empties>>

\* Mutant: the length is taken in host order.
NtohsM(b) == b[1].v + Base * b[2].v

\* The length in a header that is complete.
Ntohs(b) == Base * b[1].v + b[2].v

\* Mutant: the length is decoded again on every call.
DecodedM ==
  IF Len(packet) < 2 THEN [p |-> packet, n |-> 0]
  ELSE IF Ntohs(packet) > MaxMsgSz THEN [p |-> packet, n |-> Len(packet)]
  ELSE [p |-> SubSeq(packet, 3, Len(packet)), n |-> Ntohs(packet)]

\* The packet and its length after the first part of blehostd_enqueue_one().
\* os_mbuf_copydata() copies the byte there is before it fails: a little-endian
\* host then reads it as the whole length.
Decoded ==
  IF packet_len # 0 THEN [p |-> packet, n |-> packet_len]
  ELSE IF packet = << >> THEN [p |-> packet, n |-> 0]
  ELSE IF Len(packet) = 1 THEN [p |-> packet, n |-> packet[1].v]
  ELSE IF Ntohs(packet) > MaxMsgSz THEN [p |-> packet, n |-> Len(packet)]
  ELSE [p |-> SubSeq(packet, 3, Len(packet)), n |-> Ntohs(packet)]

\* A whole message is there.
IsWhole(d) == d.n # 0 /\ Len(d.p) >= d.n

\* Mutant: one message per read.
GoesOnM(d) == FALSE

\* It returns 1: the loop goes on.
GoesOn(d) == TRUE

\* Mutant: the event of the queue is not posted.
PostReqM == UNCHANGED req_ev

\* The second argument of os_mqueue_put().
PostReq == req_ev' = TRUE

\* os_mqueue_put() of the first d.n bytes.
EnqueueOne ==
  /\ looping
  /\ IsWhole(Decoded)
  /\ req_mq' = Append(req_mq, SubSeq(Decoded.p, 1, Decoded.n))
  /\ packet' = SubSeq(Decoded.p, Decoded.n + 1, Len(Decoded.p))
  /\ packet_len' = 0
  /\ PostReq
  /\ looping' = GoesOn(Decoded)
  /\ UNCHANGED <<msgs, stream, draining, handled, fails, empties>>

\* It returns 0: the loop ends.  So it does after a header of length 0, which is taken
\* off the packet, whatever there is behind it.
EnqueueNone ==
  /\ looping
  /\ ~IsWhole(Decoded)
  /\ packet' = Decoded.p
  /\ packet_len' = Decoded.n
  /\ looping' = FALSE
  /\ UNCHANGED <<msgs, stream, req_mq, req_ev, draining, handled, fails, empties>>

\* More than one message is there and no mbuf for the first: it returns 0 too.  Either of
\* two allocations can fail, the packet header or what the copy needs; packet and length
\* stay as they are.  (After the second the new mbuf is lost; the pool is not modelled.)
EnqueueFails ==
  /\ looping
  /\ fails < MaxFails
  /\ IsWhole(Decoded) /\ Len(Decoded.p) # Decoded.n
  /\ packet' = Decoded.p
  /\ packet_len' = Decoded.n
  /\ looping' = FALSE
  /\ fails' = fails + 1
  /\ UNCHANGED <<msgs, stream, req_mq, req_ev, draining, handled, empties>>

-----------------------------------------------------------------------------
(* The blehostd task.                                                      *)

\* os_eventq_run() calls blehostd_process_req_mq().
RunReqEvent ==
  /\ req_ev /\ ~draining
  /\ req_ev' = FALSE
  /\ draining' = TRUE
  /\ UNCHANGED <<msgs, stream, packet, packet_len, looping, req_mq, handled, fails, empties>>

\* Mutant: one request per event.
StillDrainingM == FALSE

\* while ((om = os_mqueue_get(&blehostd_req_mq)) != NULL)
StillDraining == TRUE

\* blehostd_process_req().
ProcessReq ==
  /\ draining
  /\ req_mq # << >>
  /\ handled' = Append(handled, Head(req_mq))
  /\ req_mq' = Tail(req_mq)
  /\ draining' = StillDraining
  /\ UNCHANGED <<msgs, stream, packet, packet_len, looping, req_ev, fails, empties>>

NoMoreReqs ==
  /\ draining
  /\ req_mq = << >>
  /\ draining' = FALSE
  /\ UNCHANGED <<msgs, stream, packet, packet_len, looping, req_mq, req_ev, handled, fails, empties>>

Client == WriteEmpty \/ \E n \in Lens : WriteFramed(n) \/ WriteBare(n)
ReadLoop == EnqueueOne \/ EnqueueNone \/ EnqueueFails
Read == ReadLoop \/ \E j \in 1 .. Len(stream) : SocketReadable(j)
Process == RunReqEvent \/ ProcessReq \/ NoMoreReqs

Next == Client \/ Read \/ Process

Spec == Init /\ [][Next]_vars

\* The socket task reads what there is, the blehostd task runs its events.
FairSpec == Spec /\ WF_vars(Read) /\ WF_vars(Process)

-----------------------------------------------------------------------------
(* Properties.                                                             *)

\* Every request is the text of the client's next message, byte for byte: the
\* boundaries found in the stream are those of the client, wherever its reads
\* are cut ("Continuation of packet.", "Full packet plus some (or all) of next
\* packet received.").
RequestsAreMessages ==
  LET reqs == handled \o req_mq IN
    /\ Len(reqs) <= Len(msgs)
    /\ \A i \in 1 .. Len(reqs) : reqs[i] = Text(msgs[i].len, i)

\* When the callback has returned, no whole message is left in the packet, unless an
\* allocation failed or a header said 0: nothing would look at it before the next read.
NothingWholeLeft ==
  ~looping /\ fails = 0 /\ empties = 0 => ~IsWhole(Decoded)

\* A queued request has its event posted or its handler running.
RequestsHaveEvent == req_mq # << >> => req_ev \/ draining

\* Seen from outside, the input path is an ordered channel of messages.
Chan == INSTANCE MsgChannel WITH
  Ordered <- TRUE,
  accepted <- Len(msgs),
  sent <- [i \in 1 .. Len(handled) |-> Head(handled[i]).m]
ImplementsChannel == Chan!Spec

\* Every message is eventually handled, unless an allocation failed, or a header of
\* length 0 ended the loop and no read has come since.
AllHandled ==
  \A i \in 1 .. MaxMsgs :
    Len(msgs) >= i ~> \/ Len(handled) >= i
                      \/ fails > 0
                      \/ empties > 0 /\ stream = << >> /\ IsWhole(Decoded)
=============================================================================
