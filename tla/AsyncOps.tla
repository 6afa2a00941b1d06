------------------------------ MODULE AsyncOps ------------------------------
(***************************************************************************)
(* Requests that start procedures of the BLE host, and the events that     *)
(* report them (bhd_gattc.c, bhd_gap.c, bhd_req_dec() of bhd_proto.c).     *)
(*                                                                         *)
(* The blehostd task takes one request after the other, calls the host     *)
(* with the request's sequence number as the argument of a callback, and   *)
(* sends the response.  The main task runs the callbacks, which send       *)
(* events with that number.  It has the higher priority and a host call    *)
(* may wait, so that a callback can run before the response is sent.       *)
(*                                                                         *)
(* Discovery of characteristics and descriptors passes a structure from    *)
(* the heap instead; whoever learns that the procedure is over frees it.   *)
(* A connection keeps the number of the connect or adv_start request that  *)
(* made it, and reports with it until it ends.  When the host resets, it    *)
(* reports the end of everything in the same way.                          *)
(***************************************************************************)
EXTENDS Naturals, Sequences

CONSTANTS Seqs,       \* sequence numbers the client uses
          EvtSeq,     \* a number of bhd_next_evt_seq()
          NoSeq,      \* none of them
          MaxInbox    \* bound: requests waiting in blehostd_req_mq

ASSUME AsyncAssumption == {EvtSeq, NoSeq} \intersect Seqs = {} /\ MaxInbox \in Nat

\* Requests, grouped by what they do to the host:
\*   disc_svcs   disc_all_svcs, disc_svc_uuid
\*   disc_attrs  disc_all_chrs, disc_chr_uuid, disc_all_dscs
\*   once        write, exchange_mtu
\*   plain       every request that starts and stops nothing
OnConn == {"disc_svcs", "disc_attrs", "once"}
Starts == OnConn \union {"connect", "scan", "adv_start"}
Stops == {"scan_cancel", "adv_stop"}
Types == Starts \union Stops \union {"plain"}

NoReq == [seq |-> NoSeq, type |-> "none", rc |-> "ok"]

VARIABLES inbox,   \* requests the client sent
          cur,     \* the request in process, NoReq when there is none
          called,  \* its host call has returned, cur.rc is the result
          procs,   \* what the host has in progress
          heap,    \* numbers of the structures allocated
          last     \* the last message sent

vars == <<inbox, cur, called, procs, heap, last>>

Init ==
  /\ inbox = << >>
  /\ cur = NoReq
  /\ called = FALSE
  /\ procs = {}
  /\ heap = {}
  /\ last = [op |-> "none", seq |-> 0, status |-> "ok", bit |-> 0]

-----------------------------------------------------------------------------
(* Sessions: where a sequence number is, from the client's side.           *)

Waiting(s) == (\E i \in 1 .. Len(inbox) : inbox[i].seq = s) \/ (cur.seq = s /\ ~called)
Owned(s) == \E p \in procs : p.seq = s
Answering(s) == cur.seq = s /\ called

State(s) ==
  IF Waiting(s) THEN "asked"
  ELSE IF Answering(s) THEN
    (IF cur.rc # "ok" \/ cur.type \notin Starts THEN "asked"
     ELSE IF Owned(s) THEN "accepted" ELSE "ended")
  ELSE IF Owned(s) THEN "running" ELSE "free"

\* bhd_rsp_send() and bhd_evt_send() drop a message that is too long or finds no
\* buffer; their callers do not look at the result.
Says(op, s, status) ==
  \/ last' = [op |-> op, seq |-> s, status |-> status, bit |-> 1 - last.bit]
  \/ UNCHANGED last

\* The client sends a request with a number that is free.
ClientAsks(s, type) ==
  /\ Len(inbox) < MaxInbox
  /\ State(s) = "free"
  /\ inbox' = Append(inbox, [seq |-> s, type |-> type, rc |-> "ok"])
  /\ UNCHANGED <<cur, called, procs, heap, last>>

-----------------------------------------------------------------------------
(* The blehostd task.                                                      *)

\* blehostd_process_req() takes the next request.
TakeReq ==
  /\ cur = NoReq
  /\ inbox # << >>
  /\ cur' = Head(inbox)
  /\ inbox' = Tail(inbox)
  /\ UNCHANGED <<called, procs, heap, last>>

\* bhd_req_dec() finds a parameter missing or invalid: the host is not called.
BadParam ==
  /\ cur # NoReq /\ ~called
  /\ called' = TRUE
  /\ cur' = [cur EXCEPT !.rc = "error"]
  /\ UNCHANGED <<inbox, procs, heap, last>>

\* Mutants: the callback's argument is that of another request, or is not set.
SeqArgM == CHOOSE s \in Seqs : TRUE
SeqArgUnsetM == NoSeq

\* bhd_seq_arg(req->hdr.seq).
SeqArg == cur.seq

\* What the host lets in: GATT procedures need a connection, connecting and
\* scanning exclude each other, there is one advertisement.
HostFree(type) ==
  CASE type \in {"connect", "scan"} -> \A p \in procs : p.kind \notin {"connect", "scan"}
    [] type = "adv_start" -> \A p \in procs : p.kind # "adv_start"
    [] OTHER -> TRUE

\* ble_gattc_*(), ble_gap_connect(), _disc(), _adv_start() return 0.
HostAccepts ==
  /\ cur.type \in Starts /\ ~called
  /\ HostFree(cur.type)
  /\ IF cur.type \in OnConn
     THEN \E c \in procs : /\ c.kind = "conn"
                           /\ procs' = procs \union {[seq |-> SeqArg, kind |-> cur.type, on |-> c.seq]}
     ELSE procs' = procs \union {[seq |-> SeqArg, kind |-> cur.type, on |-> SeqArg]}
  /\ heap' = IF cur.type = "disc_attrs" THEN heap \union {SeqArg} ELSE heap
  /\ called' = TRUE
  /\ UNCHANGED <<inbox, cur, last>>

\* They return an error: not connected, busy, out of memory.  The structure
\* allocated for the call is freed again.
HostRefuses ==
  /\ cur.type \in Starts /\ ~called
  /\ called' = TRUE
  /\ cur' = [cur EXCEPT !.rc = "error"]
  /\ UNCHANGED <<inbox, procs, heap, last>>

\* ble_gap_disc_cancel() and ble_gap_adv_stop() end what they find, or fail.
Stopped(type) ==
  {p \in procs : p.kind = IF type = "scan_cancel" THEN "scan" ELSE "adv_start"}

HostStops ==
  /\ cur.type \in Stops /\ ~called
  /\ called' = TRUE
  /\ cur' = [cur EXCEPT !.rc = IF Stopped(cur.type) = {} THEN "error" ELSE "ok"]
  /\ procs' = procs \ Stopped(cur.type)
  /\ UNCHANGED <<inbox, heap, last>>

\* Any other request: its status is whatever the call in it returned.
RunPlain ==
  /\ cur.type = "plain" /\ ~called
  /\ called' = TRUE
  /\ \E rc \in {"ok", "error"} : cur' = [cur EXCEPT !.rc = rc]
  /\ UNCHANGED <<inbox, procs, heap, last>>

\* bhd_rsp_send(): the response has the request's number and the status of the
\* host call.
SendRsp ==
  /\ cur # NoReq /\ called
  /\ Says("rsp", cur.seq, cur.rc)
  /\ cur' = NoReq
  /\ called' = FALSE
  /\ UNCHANGED <<inbox, procs, heap>>

-----------------------------------------------------------------------------
(* The main task: callbacks of the host.                                   *)

\* An event that is not the last one: a discovered attribute, an advertising
\* report, or (connection) mtu_change, enc_change and passkey.
MoreEvt(p) ==
  /\ p.kind \in {"disc_svcs", "disc_attrs", "scan", "conn"}
  /\ Says("evt", p.seq, "more")
  /\ UNCHANGED <<inbox, cur, called, procs, heap>>

\* Mutant: the structure of a finished discovery is kept.
AfterEndM(p) == heap

\* bhd_gattc_disc_chr_cb(), _dsc_cb(): free() when the status is not 0.
AfterEnd(p) == IF p.kind = "disc_attrs" THEN heap \ {p.seq} ELSE heap

\* Mutant: a connection ends without telling which request it came from.
EndSeqM(p) == IF p.kind = "conn" THEN EvtSeq ELSE p.seq

\* evt.hdr.seq = seq.
EndSeq(p) == p.seq

\* The last event: the end or failure of a discovery, a write_ack or mtu_change,
\* a failed connect, scan_tmo, adv_complete, disconnect.  The host ends the
\* procedures of a connection before the connection.
LastEvt(p) ==
  /\ \A q \in procs : q.on = p.seq => q = p
  /\ procs' = procs \ {p}
  /\ heap' = AfterEnd(p)
  /\ Says("evt", EndSeq(p), "last")
  /\ UNCHANGED <<inbox, cur, called>>

\* BLE_GAP_EVENT_CONNECT with status 0: from here on the connection has the
\* number.
Connected(p) ==
  /\ p.kind \in {"connect", "adv_start"}
  /\ procs' = (procs \ {p}) \union {[p EXCEPT !.kind = "conn"]}
  /\ Says("evt", p.seq, "more")
  /\ UNCHANGED <<inbox, cur, called, heap>>

\* blehostd_on_sync(), blehostd_on_reset(), bhd_gatts_access() and
\* bhd_gap_send_notify_rx_evt() take a number of their own.
UnsolicitedEvt ==
  /\ Says("evt", EvtSeq, "more")
  /\ UNCHANGED <<inbox, cur, called, procs, heap>>

HandleReq ==
  TakeReq \/ BadParam \/ HostAccepts \/ HostRefuses \/ HostStops \/ RunPlain \/ SendRsp

Next ==
  \/ \E s \in Seqs, type \in Types : ClientAsks(s, type)
  \/ HandleReq
  \/ \E p \in procs : MoreEvt(p) \/ LastEvt(p) \/ Connected(p)
  \/ UnsolicitedEvt

Spec == Init /\ [][Next]_vars

-----------------------------------------------------------------------------
(* Properties.                                                             *)

Reqs == [seq : Seqs, type : Types, rc : {"ok", "error"}]
Procs == [seq : Seqs, kind : Starts \union {"conn"}, on : Seqs]
Messages == [op : {"none", "rsp", "evt"}, seq : Seqs \union {0, EvtSeq},
             status : {"ok", "error", "more", "last"}, bit : {0, 1}]

\* Type invariant.
TypeOK ==
  /\ inbox \in Seq(Reqs) /\ Len(inbox) <= MaxInbox
  /\ cur \in Reqs \union {NoReq}
  /\ called \in BOOLEAN
  /\ procs \subseteq Procs
  /\ heap \subseteq Seqs
  /\ last \in Messages
  /\ called => cur # NoReq

\* A sequence number names one thing: two procedures never report with the same
\* number, nor does one still report when the number is asked for again.
OneOwner ==
  /\ \A p, q \in procs : p.seq = q.seq => p = q
  /\ \A s \in Seqs : Waiting(s) => ~Owned(s)
  /\ \A i, j \in 1 .. Len(inbox) : inbox[i].seq = inbox[j].seq => i = j
  /\ \A i \in 1 .. Len(inbox) : inbox[i].seq # cur.seq

\* A structure is allocated exactly while a callback can still use it: none is
\* used after it was freed, freed twice, or never freed.
HeapMatches == heap = {p.seq : p \in {q \in procs : q.kind = "disc_attrs"}}

\* What happens with a number is a session: one answer, events only while what
\* was asked for is in progress, nothing after the last one.
Session == INSTANCE ReqSession WITH st <- [s \in Seqs |-> State(s)]
ImplementsSession == Session!Spec
=============================================================================
