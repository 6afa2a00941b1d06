------------------------------ MODULE ReqParams ------------------------------
(***************************************************************************)
(* Decoding of one request (bhd_proto.c, the JSON readers of bhd_util.c):  *)
(* bhd_req_dec() reads the header, finds the handler of the type, and the  *)
(* handler reads the parameters in a fixed order.  The first one that is   *)
(* missing or invalid ends it with a refusal; otherwise it calls the host  *)
(* with what it stored and answers with the result.                        *)
(*                                                                         *)
(* A message is its header and, for each parameter its type knows, a token *)
(* for the JSON value: absent, one the reader rejects, or a valid one.     *)
(***************************************************************************)
EXTENDS Naturals, SequencesExt, FiniteSetsExt

CONSTANT MaxOdd    \* bound: parameters of a message that are not the usual ones

ASSUME ReqParamsAssumption == MaxOdd \in Nat

-----------------------------------------------------------------------------
(* How a handler reads a parameter.                                        *)
(*   must  missing or invalid: refused       may   refused if invalid      *)
(*   flag  may, a boolean                    list  may, an array           *)
(*   any   the result of reading it is not looked at                       *)
(*   stack may, read into variables nobody initialised                     *)
(* "on" and "is" restrict a must to requests where an earlier parameter    *)
(* has one of the values.                                                  *)

Param(name, rule) == [name |-> name, rule |-> rule, on |-> "nothing", is |-> {}]
Musts(names) == [n \in 1 .. Len(names) |-> Param(names[n], "must")]
Mays(names) == [n \in 1 .. Len(names) |-> Param(names[n], "may")]
MustIf(name, on, is) == << [Param(name, "must") EXCEPT !.on = on, !.is = is] >>
List(name, complete) == << Param(name, "list"), Param(complete, "flag") >>

NoParams == {"sync", "conn_cancel", "scan_cancel", "reset", "adv_stop", "clear_svcs", "commit_svcs"}

ConnectParams ==
  Musts(<<"own_addr_type", "peer_addr_type", "peer_addr", "duration_ms",
          "scan_itvl", "scan_window", "itvl_min", "itvl_max", "latency",
          "supervision_timeout", "min_ce_len", "max_ce_len">>)

DiscParams ==
  LET range == <<"conn_handle", "start_handle", "end_handle">>
  IN [ disc_all_svcs |-> Musts(<<"conn_handle">>),
       disc_svc_uuid |-> Musts(<<"conn_handle", "svc_uuid">>),
       disc_all_chrs |-> Musts(range),
       disc_chr_uuid |-> Musts(range) \o Musts(<<"chr_uuid">>),
       disc_all_dscs |-> Musts(range) ]

WriteParams == Musts(<<"conn_handle", "attr_handle", "data">>)

TerminateParams == Musts(<<"conn_handle", "hci_reason">>)
AdvSetParams == Musts(<<"data">>)

ShortParams ==
  [ terminate |-> TerminateParams,
    exchange_mtu |-> Musts(<<"conn_handle">>),
    gen_rand_addr |-> Musts(<<"nrpa">>),
    set_rand_addr |-> Musts(<<"addr">>),
    adv_set_data |-> AdvSetParams,
    adv_rsp_set_data |-> AdvSetParams ]

OneParam == [ set_preferred_mtu |-> Musts(<<"mtu">>),
              security_initiate |-> Musts(<<"conn_handle">>),
              conn_find |-> Musts(<<"conn_handle">>) ]

ScanParams ==
  Musts(<<"own_addr_type", "duration_ms", "itvl", "window", "filter_policy",
          "limited", "passive", "filter_duplicates">>)

AdvStartParams ==
  Musts(<<"own_addr_type">>) \o Mays(<<"peer_addr_type">>)
  \o MustIf("peer_addr", "peer_addr_type", {"v"})
  \o Musts(<<"duration_ms", "conn_mode", "disc_mode", "itvl_min", "itvl_max",
             "channel_map", "filter_policy", "high_duty_cycle">>)

AdvNames ==
  Mays(<<"flags">>) \o List("uuids16", "uuids16_is_complete")
  \o List("uuids32", "uuids32_is_complete") \o List("uuids128", "uuids128_is_complete")
  \o Mays(<<"name">>) \o << Param("name_is_complete", "flag") >> \o Mays(<<"tx_pwr_lvl">>)

AdvMore ==
  Mays(<<"slave_itvl_min">>) \o MustIf("slave_itvl_max", "slave_itvl_min", {"v"})
  \o Mays(<<"svc_data_uuid16">>) \o << Param("public_tgt_addrs", "list") >>
  \o Mays(<<"appearance", "adv_itvl", "svc_data_uuid32", "svc_data_uuid128", "uri", "mfg_data">>)

AdvFieldsParams == AdvNames \o AdvMore

\* The parameter of add_svcs is valid when every service, characteristic and
\* descriptor in it is.
GattsParams ==
  [ add_svcs |-> Musts(<<"services">>),
    access_status |-> Musts(<<"att_status">>) \o << Param("data", "stack") >>,
    notify |-> Musts(<<"conn_handle", "attr_handle">>) \o << Param("data", "any") >>,
    find_chr |-> Musts(<<"svc_uuid", "chr_uuid">>) ]

SmParams ==
  Musts(<<"conn_handle", "action">>)
  \o MustIf("oob_data", "action", {"oob"})
  \o MustIf("passkey", "action", {"input", "disp"})
  \o MustIf("numcmp_accept", "action", {"numcmp"})

\* bhd_req_dispatch.
ReqTypes ==
  NoParams \union DOMAIN DiscParams \union DOMAIN ShortParams \union DOMAIN OneParam \union DOMAIN GattsParams
  \union {"connect", "write", "write_cmd", "scan", "adv_start", "adv_fields", "sm_inject_io"}

Params ==
  [t \in ReqTypes |->
     CASE t \in NoParams -> << >>
       [] t \in DOMAIN DiscParams -> DiscParams[t]
       [] t \in DOMAIN ShortParams -> ShortParams[t]
       [] t \in DOMAIN OneParam -> OneParam[t]
       [] t \in DOMAIN GattsParams -> GattsParams[t]
       [] t \in {"write", "write_cmd"} -> WriteParams
       [] t = "connect" -> ConnectParams
       [] t = "scan" -> ScanParams
       [] t = "adv_start" -> AdvStartParams
       [] t = "adv_fields" -> AdvFieldsParams
       [] t = "sm_inject_io" -> SmParams]

\* Handlers that refuse with bhd_err_build(): the answer's type is "error".
\* The others keep the type of the request and fill in the status.
ErrorTypes == {"connect", "scan", "adv_start", "adv_fields"} \union DOMAIN OneParam

\* Mutant: a response without an encoder.
RspEncodersM == {"error"} \union (ReqTypes \ {"write_cmd"})

\* bhd_rsp_dispatch.
RspEncoders ==
  {"error"} \union NoParams \union DOMAIN ShortParams \union DOMAIN OneParam
  \union DOMAIN DiscParams \union DOMAIN GattsParams
  \union {"connect", "write", "write_cmd", "scan", "adv_start", "adv_fields", "sm_inject_io"}

\* What a response says beyond its status: the error text; what the host gave, always
\* or only with status 0.  The others have a status and nothing else, or nothing at all
\* (reset).  The list of commit_svcs is empty unless it was stored.
SaysAlways == {"error", "conn_find", "find_chr", "sync", "commit_svcs"}
SaysIfOk == {"gen_rand_addr", "adv_fields"}

\* bhd_gatts_clear_svcs() does not look at what ble_gatts_reset() returns.
ResultIgnored == {"clear_svcs"}

\* Handlers that refuse with a status and nothing else.
StatusAlone == {"add_svcs", "access_status", "notify", "find_chr", "sm_inject_io"}

\* Requests whose value is copied to mbufs before the host is called.
ValueTypes == {"write", "write_cmd", "notify"}

-----------------------------------------------------------------------------
(* JSON values.                                                            *)

\* The elements of an array; any other valid value is one element.
Items(token) ==
  CASE token = "two" -> <<"v", "w">>
    [] token = "mixed" -> <<"bad", "v">>
    [] token = "none" -> << >>
    [] OTHER -> <<token>>

GoodTokens(p) ==
  CASE p.rule = "list" -> {"v", "two", "mixed", "none"}
    [] p.name = "action" -> {"oob", "input", "disp", "numcmp"}
    [] OTHER -> {"v"}

Tokens(p) == GoodTokens(p) \union {"absent", "bad"}

\* The ordinary is to give every parameter, or only those that are required.
Ordinary(p, full) ==
  IF full \/ p.rule \in {"must", "any"} THEN CHOOSE v \in GoodTokens(p) : TRUE ELSE "absent"

\* The object that has the tokens of odd, and is ordinary otherwise.
Object(ps, odd, full) ==
  [n \in {ps[m].name : m \in 1 .. Len(ps)} |->
     LET m == CHOOSE m \in 1 .. Len(ps) : ps[m].name = n
     IN IF m \in DOMAIN odd THEN odd[m] ELSE Ordinary(ps[m], full)]

\* Objects with at most MaxOdd parameters out of the ordinary.
Objects(type) ==
  LET ps == Params[type]
      all == UNION {Tokens(ps[n]) : n \in 1 .. Len(ps)}
      odd(s) == {f \in [s -> all] : \A m \in s : f[m] \in Tokens(ps[m])}
  IN {Object(ps, f, full) :
        f \in UNION {odd(s) : s \in UNION {kSubset(k, 1 .. Len(ps)) : k \in 0 .. MaxOdd}},
        full \in BOOLEAN}

Message(op, type, seq, par) == [op |-> op, type |-> type, seq |-> seq, par |-> par]

\* Well-formed requests; headers that are not; "garbage" is no JSON at all.
Requests == UNION {{Message("request", t, 1, o) : o \in Objects(t)} : t \in ReqTypes}
Headers == {Message(op, t, s, << >>) : op \in {"request", "response", "bad", "garbage"},
              t \in {"sync", "sync_evt", "error", "bad"}, s \in {1, 2}}
Messages == Requests \union Headers

BadSeq == 2

-----------------------------------------------------------------------------
VARIABLES msg,    \* the message
          pc,     \* how far its handling has come
          next,   \* the parameter to be read
          req,    \* struct bhd_req: what was stored
          host,   \* whether the host was called, and the result (whoever looks at it)
          rsp,    \* struct bhd_rsp; "rest" is what follows the status in its union
          told    \* what the answer says beyond its status

vars == <<msg, pc, next, req, host, rsp, told>>

Init ==
  /\ msg \in Messages
  /\ pc = "header"
  /\ next = 1
  /\ req = << >>
  /\ host = "not called"
  /\ rsp = [type |-> "none", seq |-> 0, status |-> "ok", rest |-> "zero"]
  /\ told = "nothing"

\* bhd_msg_hdr_dec() succeeds: op and type are ones of the protocol.
HdrOk == msg.op \in {"request", "response"} /\ msg.type # "bad" /\ msg.seq # BadSeq

\* Mutant: the number is taken over only when the request has a handler.
AnswerSeqM == IF HdrOk /\ msg.op = "request" /\ msg.type \in ReqTypes THEN msg.seq ELSE 0

\* out_rsp->hdr.seq = req.hdr.seq, once the header was decoded.
AnswerSeq == IF HdrOk THEN msg.seq ELSE 0

\* bhd_req_dec() up to the call of the handler.
ReadHeader ==
  /\ pc = "header"
  /\ IF HdrOk /\ msg.op = "request" /\ msg.type \in ReqTypes
     THEN pc' = "params" /\ rsp' = [rsp EXCEPT !.type = msg.type, !.seq = AnswerSeq]
     ELSE pc' = "encode" /\ rsp' = [type |-> "error", seq |-> AnswerSeq, status |-> "invalid", rest |-> "msg"]
  /\ UNCHANGED <<msg, next, req, host, told>>

\* bhd_json_*(): rc.  An array is looked into by bhd_json_arr_gen(), which
\* never fails on account of an element.
Read(p) ==
  CASE msg.par[p.name] = "absent" -> "missing"
    [] msg.par[p.name] = "bad" -> "invalid"
    [] OTHER -> "ok"

\* bhd_json_arr_gen(): the callbacks return 0 after storing an element, which ends
\* the loop, and 1 for one they reject, which goes on.  The bound on the number
\* of elements is at least 1 and cannot be met.
ListElements(items) ==
  LET kept[n \in 0 .. Len(items)] ==
        IF n = 0 THEN << >>
        ELSE IF kept[n - 1] # << >> \/ items[n] = "bad" THEN kept[n - 1] ELSE << items[n] >>
  IN kept[Len(items)]

\* Mutant: an optional parameter is read and not stored.
StoredM(p) == {IF Read(p) # "ok" \/ p.rule = "may" THEN << >> ELSE Items(msg.par[p.name])}

\* What the handler may have stored.  A boolean that is not there reads as -1, and a bit
\* field holds 1 then.  bhd_json_hex_string() leaves buffer and length alone when there
\* is no string: req was zeroed, so the length is 0, but those of access_status are on the
\* stack, and any bytes of it are the attribute's value.
Stored(p) ==
  IF Read(p) = "ok"
  THEN {IF p.rule = "list" THEN ListElements(Items(msg.par[p.name])) ELSE Items(msg.par[p.name])}
  ELSE CASE p.rule = "flag" -> {<<"true">>}
         [] p.rule = "stack" -> {<< >>, <<"stack">>}
         [] OTHER -> {<< >>}

\* Whether the parameter is read at all.
Applies(p) == p.on = "nothing" \/ (req[p.on] # << >> /\ Head(req[p.on]) \in p.is)

\* Mutant: a handler that goes on after it built the refusal.
AfterRefusalM == "params"

Refuses(p) ==
  \/ p.rule = "must" /\ Read(p) # "ok"
  \/ p.rule \in {"may", "flag", "list", "stack"} /\ Read(p) = "invalid"

RefusalStatus(p) == Read(p)

AfterRefusal == "encode"

\* Mutant: every handler refuses with bhd_err_fill() or bhd_err_build().
RefusalRestM == "msg"

\* bhd_err_fill() and bhd_err_build() write the pointer to the text over what the
\* response of the request has after its status.
RefusalRest == IF msg.type \in StatusAlone THEN "zero" ELSE "msg"

ParamsLeft == next <= Len(Params[msg.type])

\* The handler reads its next parameter.
ReadParam ==
  /\ pc = "params" /\ ParamsLeft
  /\ next' = next + 1
  /\ LET p == Params[msg.type][next]
     IN IF Applies(p) /\ Refuses(p)
        THEN /\ pc' = AfterRefusal
             /\ rsp' = [rsp EXCEPT !.status = RefusalStatus(p), !.rest = RefusalRest,
                                   !.type = IF msg.type \in ErrorTypes THEN "error" ELSE msg.type]
             /\ UNCHANGED req
        ELSE /\ \E value \in IF Applies(p) THEN Stored(p) ELSE {<< >>} :
                  req' = [n \in DOMAIN req \union {p.name} |-> IF n = p.name THEN value ELSE req[n]]
             /\ UNCHANGED <<pc, rsp>>
  /\ UNCHANGED <<msg, host, told>>

\* ble_hs_synced() and ble_hs_sched_reset() cannot fail.
HostResults == IF msg.type \in {"sync", "reset"} THEN {"ok"} ELSE {"ok", "error"}

\* What of it becomes the status.
StatusOf(result) == IF msg.type \in ResultIgnored THEN "ok" ELSE result

\* What is written behind the status: nothing if the host failed, and nothing by
\* commit_svcs when it finds no memory for the list, or has nothing to list: its status
\* is then still that of ble_gatts_start().
Rests(result) ==
  IF result # "ok" \/ msg.type \notin SaysAlways \union SaysIfOk THEN {"zero"}
  ELSE IF msg.type = "commit_svcs" THEN {"host", "zero"} ELSE {"host"}

\* All parameters are read: bhd_gap_*(), bhd_gattc_*(), bhd_gatts_*(), ...
CallHost ==
  /\ pc = "params" /\ ~ParamsLeft
  /\ pc' = "encode"
  /\ host' \in HostResults
  /\ \E rest \in Rests(host') : rsp' = [rsp EXCEPT !.status = StatusOf(host'), !.rest = rest]
  /\ UNCHANGED <<msg, next, req, told>>

\* ble_hs_mbuf_from_flat() finds no mbufs: an error instead of the call.
NoMbufs ==
  /\ pc = "params" /\ ~ParamsLeft
  /\ msg.type \in ValueTypes
  /\ pc' = "encode"
  /\ host' = "no mbufs"
  /\ rsp' = [rsp EXCEPT !.type = "error", !.status = "no mbufs", !.rest = "msg"]
  /\ UNCHANGED <<msg, next, req, told>>

\* The encoder of the response's type.
Encoded ==
  IF rsp.type \in SaysAlways \/ (rsp.type \in SaysIfOk /\ rsp.status = "ok")
  THEN rsp.rest ELSE "nothing"

\* bhd_rsp_send(): bhd_rsp_dispatch_find() asserts that there is an encoder; a response
\* that is too long or finds no buffer is dropped, and nobody looks at the result.
SendRsp ==
  /\ pc = "encode"
  /\ IF rsp.type \in RspEncoders
     THEN /\ pc' \in {"answered", "dropped"}
          /\ told' = IF pc' = "answered" THEN Encoded ELSE told
     ELSE pc' = "assert" /\ UNCHANGED told
  /\ UNCHANGED <<msg, next, req, host, rsp>>

Next == ReadHeader \/ ReadParam \/ CallHost \/ NoMbufs \/ SendRsp

\* A handler runs without waiting for anything.
Spec == Init /\ [][Next]_vars /\ WF_vars(Next)

-----------------------------------------------------------------------------
(* Properties.                                                             *)

\* What the protocol asks of a request, whatever the order of reading: required
\* parameters are there, and none that counts is invalid (except that nobody
\* looks whether the data of notify is).
Counts(p) == p.on = "nothing" \/ msg.par[p.on] \in p.is
Right ==
  /\ HdrOk /\ msg.op = "request" /\ msg.type \in ReqTypes
  /\ \A n \in 1 .. Len(Params[msg.type]) :
       LET p == Params[msg.type][n]
       IN Counts(p) => CASE p.rule = "must" -> msg.par[p.name] \notin {"absent", "bad"}
                         [] p.rule = "any" -> TRUE
                         [] OTHER -> msg.par[p.name] # "bad"

\* The host is called for a request that is right and for no other: an error in
\* the last parameter leaves no trace of the ones before it.  (That there are no mbufs
\* for the value of a right request is found where the host would be called.)
HostCalledIffRight == pc \in {"answered", "dropped"} => (host # "not called" <=> Right)

\* The host gets the values of the request; of a list it gets the first valid element
\* (bhd_json_arr_gen() ends there), that is all of it if it has one.  What is not there or,
\* with notify's data, not valid is empty, and nothing of an earlier request or of the
\* stack takes its place.  The exception is an access_status without data: its value is
\* whatever bytes the handler finds on its stack.
HostGetsWhatWasAsked ==
  host # "not called" =>
    \A n \in 1 .. Len(Params[msg.type]) :
      LET p == Params[msg.type][n]
          items == Items(msg.par[p.name])
          valid == {i \in DOMAIN items : items[i] # "bad"}
      IN \/ p.rule = "stack" /\ msg.par[p.name] = "absent"
         \/ req[p.name] =
              IF ~Counts(p) THEN << >>
              ELSE IF msg.par[p.name] \in {"absent", "bad"} THEN IF p.rule = "flag" THEN <<"true">> ELSE << >>
              ELSE IF p.rule = "list" THEN IF valid = {} THEN << >> ELSE << items[Min(valid)] >>
              ELSE items

\* The client can tell what an answer belongs to and what became of the request: it has
\* the number and the type of the request, or is an error; the number is lost only with
\* a header that could not be read.  Status 0 is the word of the host, except that
\* clear_svcs says 0 whatever the host said.  What is said beyond the status is the error
\* text in an error and nowhere else, or what a host that succeeded gave, although the
\* fields of all responses share their memory; status 0 comes with what the host gave
\* wherever there is something to say, except that commit_svcs may say 0 with an empty
\* list after the host took the services (no memory for the list).
AnswerMatches ==
  pc = "answered" =>
    /\ rsp.type \in {msg.type, "error"}
    /\ rsp.seq # msg.seq => ~HdrOk /\ rsp.seq = 0 /\ rsp.type = "error"
    /\ rsp.status = "ok" <=> host = "ok" \/ (host = "error" /\ msg.type = "clear_svcs")
    /\ told = "msg" <=> rsp.type = "error"
    /\ told = "host" => host = "ok"
    /\ rsp.status = "ok" /\ told = "zero" => host = "ok" /\ msg.type = "commit_svcs"

\* Every message is answered, if there is memory for it: no handler runs into the
\* assertion that there is an encoder for its response.
Answered == <>(pc \in {"answered", "dropped"})
=============================================================================
