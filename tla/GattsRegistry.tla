---------------------------- MODULE GattsRegistry ----------------------------
(***************************************************************************)
(* The attribute registry of bhd_gatts.c: the client's add_svcs,           *)
(* commit_svcs and clear_svcs requests against fixed tables of service,    *)
(* characteristic and descriptor definitions.                              *)
(*                                                                         *)
(* The tables are what the BLE host is given: a list ends at the first     *)
(* entry whose uuid is NULL.  The code never writes such an entry: it      *)
(* steps over it by incrementing the counter.  The host keeps pointers to  *)
(* the definitions it has registered.                                      *)
(*                                                                         *)
(* A request is a sequence of services, a service a name and the number of *)
(* descriptors of each of its characteristics.  The uuid of an attribute   *)
(* is written as the path to it: the service, the characteristic, the      *)
(* descriptor.                                                             *)
(***************************************************************************)
EXTENDS Integers, SequencesExt

CONSTANTS MaxSvcs, MaxChrs, MaxDscs,  \* BHD_GATTS_MAX_SVCS, _CHRS, _DSCS
          Requests,                   \* the add_svcs requests of the client
          EvtNumbers,                 \* BHD_SEQ_EVT_MIN .. BHD_SEQ_MAX: 241
          MaxOps,                     \* bound: requests and events
          ResetMayFail                \* may ble_gatts_reset() fail?

ASSUME RegistryAssumption ==
  /\ {MaxSvcs, MaxChrs, MaxDscs, EvtNumbers} \subseteq Nat \ {0}
  /\ Requests \subseteq Seq([uuid : STRING, chrs : Seq(Nat)])
  /\ MaxOps \in Nat
  /\ ResetMayFail \in BOOLEAN

MaxUuids == MaxSvcs + MaxChrs + MaxDscs
MaxVals == MaxChrs

\* NULL, as a uuid and as an index into a table.
NULL == << >>
NoIndex == -1

VARIABLES t,        \* the tables and their counters; "seq" is next_seq, counted
                    \* from BHD_SEQ_EVT_MIN, and "given" how many numbers were
                    \* handed out since start-up; "ok" is false once an assert
                    \* has failed
          host,     \* what the host has registered: index and arg of each chr
          wanted,   \* the services added since the last clear
          fresh,    \* no clear_svcs has emptied the tables yet
          single,   \* one add_svcs since the last clear, of services that all
                    \* have characteristics
          reply,    \* the last response
          crashed,  \* the process is dead: a failed assert, a bad pointer
          ops       \* requests so far

vars == <<t, host, wanted, fresh, single, reply, crashed, ops>>

NoSvc == [uuid |-> NULL, chrs |-> NoIndex]
NoChr == [uuid |-> NULL, dscs |-> NoIndex, arg |-> 0]
NoDsc == [uuid |-> NULL, arg |-> 0]

Init ==
  /\ t = [svcs |-> [i \in 0 .. MaxSvcs - 1 |-> NoSvc],
          chrs |-> [i \in 0 .. MaxChrs - 1 |-> NoChr],
          dscs |-> [i \in 0 .. MaxDscs - 1 |-> NoDsc],
          nsvcs |-> 0, nchrs |-> 0, ndscs |-> 0, nuuids |-> 0, nvals |-> 0,
          seq |-> 0, given |-> 0, ok |-> TRUE]
  /\ host = << >>
  /\ wanted = << >>
  /\ fresh = TRUE
  /\ single = TRUE
  /\ reply = [op |-> "none", status |-> "ok", svcs |-> << >>]
  /\ crashed = FALSE
  /\ ops = 0

-----------------------------------------------------------------------------
(* Counting.  The loops of the code are recursive functions of the number  *)
(* of rounds.                                                              *)

SumOf(s) ==
  LET sum[n \in 0 .. Len(s)] == IF n = 0 THEN 0 ELSE sum[n - 1] + s[n]
  IN  sum[Len(s)]

\* Mutant: the terminators of the descriptor lists are not counted.
CountDscsM(s) == SumOf(s.chrs)

CountDscs(s) == SumOf([c \in 1 .. Len(s.chrs) |-> s.chrs[c] + IF s.chrs[c] > 0 THEN 1 ELSE 0])

\* Mutant: no characteristic list has a terminator.
CountChrsM(n, s) == n + Len(s.chrs)

\* The terminator is added when there was a characteristic in this service or
\* in one before it.
CountChrs(n, s) == LET m == n + Len(s.chrs) IN IF m > 0 THEN m + 1 ELSE m

CntChrs(r) ==
  LET count[n \in 0 .. Len(r)] == IF n = 0 THEN 0 ELSE CountChrs(count[n - 1], r[n])
  IN  count[Len(r)]

\* bhd_gatts_cnt_resources().
CntResources(r) ==
  LET svcs == Len(r) + 1
      chrs == CntChrs(r)
      dscs == SumOf([s \in 1 .. Len(r) |-> CountDscs(r[s])])
  IN  [svcs |-> svcs, chrs |-> chrs, dscs |-> dscs, uuids |-> svcs + chrs + dscs,
       vals |-> SumOf([s \in 1 .. Len(r) |-> Len(r[s].chrs)])]

\* bhd_gatts_verify_resource_cnt().
VerifyResourceCnt(r) ==
  LET n == CntResources(r) IN
    /\ t.nsvcs + n.svcs <= MaxSvcs
    /\ t.nchrs + n.chrs <= MaxChrs
    /\ t.ndscs + n.dscs <= MaxDscs
    /\ t.nuuids + n.uuids <= MaxUuids
    /\ t.nvals + n.vals <= MaxVals

-----------------------------------------------------------------------------
(* Saving: what the tables w become.                                       *)

\* Mutant: the last number is left out.
NextEvtSeqM(n) == IF n + 1 >= EvtNumbers - 1 THEN 0 ELSE n + 1

\* bhd_next_evt_seq(): what next_seq becomes after n.
NextEvtSeq(n) == IF n + 1 >= EvtNumbers THEN 0 ELSE n + 1

\* The number is taken for an attribute, whose definition keeps it.
TakeSeq(w) == [w EXCEPT !.seq = NextEvtSeq(w.seq), !.given = w.given + 1]

\* bhd_gatts_save_uuid(): an entry of bhd_gatts_uuids.
SaveUuid(w) ==
  [w EXCEPT !.ok = w.ok /\ w.nuuids < MaxUuids, !.nuuids = w.nuuids + 1]

\* bhd_gatts_save_dsc(): descriptor d.
SaveDsc(w0, d) ==
  LET w == SaveUuid(w0) IN
    IF ~w.ok \/ w.ndscs >= MaxDscs THEN [w EXCEPT !.ok = FALSE]
    ELSE TakeSeq([w EXCEPT !.dscs[w.ndscs] = [uuid |-> d, arg |-> w.seq],
                           !.ndscs = w.ndscs + 1])

SaveDscs(w, s, c) ==
  LET saved[d \in 0 .. s.chrs[c]] ==
        IF d = 0 THEN w ELSE SaveDsc(saved[d - 1], <<s.uuid, c, d>>)
  IN  saved[s.chrs[c]]

\* Mutant: the counter stays on the entry after the last characteristic.
SkipChrM(w) == w

\* "Null terminator": the counters step over an entry that is not written.
SkipDsc(w) == [w EXCEPT !.ndscs = @ + 1]
SkipChr(w) == [w EXCEPT !.nchrs = @ + 1]
SkipSvc(w) == [w EXCEPT !.nsvcs = @ + 1]

\* bhd_gatts_save_chr(): characteristic c of service s.
SaveChr(w0, s, c) ==
  LET w == SaveUuid(w0)
      def == [uuid |-> <<s.uuid, c>>,
              dscs |-> IF s.chrs[c] > 0 THEN w.ndscs ELSE w.chrs[w.nchrs].dscs,
              arg |-> w.seq]
  IN  IF ~w.ok \/ w.nchrs >= MaxChrs THEN [w EXCEPT !.ok = FALSE]
      ELSE LET x == TakeSeq([w EXCEPT !.chrs[w.nchrs] = def, !.nvals = @ + 1])
               y == IF s.chrs[c] > 0 THEN SkipDsc(SaveDscs(x, s, c)) ELSE x
           IN  [y EXCEPT !.nchrs = @ + 1]

SaveChrs(w, s) ==
  LET saved[c \in 0 .. Len(s.chrs)] == IF c = 0 THEN w ELSE SaveChr(saved[c - 1], s, c)
  IN  saved[Len(s.chrs)]

\* bhd_gatts_save_svc(): without characteristics the pointer is left alone.
SaveSvc(w0, s) ==
  LET w == SaveUuid(w0)
      def == [uuid |-> <<s.uuid>>,
              chrs |-> IF s.chrs # << >> THEN w.nchrs ELSE w.svcs[w.nsvcs].chrs]
  IN  IF ~w.ok \/ w.nsvcs >= MaxSvcs THEN [w EXCEPT !.ok = FALSE]
      ELSE LET x == [w EXCEPT !.svcs[w.nsvcs] = def]
               y == IF s.chrs # << >> THEN SkipChr(SaveChrs(x, s)) ELSE x
           IN  [y EXCEPT !.nsvcs = @ + 1]

SaveSvcs(w, r) ==
  LET saved[n \in 0 .. Len(r)] == IF n = 0 THEN w ELSE SaveSvc(saved[n - 1], r[n])
  IN  saved[Len(r)]

\* Mutant: every request begins at the first characteristic again.
SavedM(r) == SkipSvc(SaveSvcs([t EXCEPT !.nchrs = 0], r))

\* All services of the request, then the terminator.
Saved(r) == SkipSvc(SaveSvcs(t, r))

-----------------------------------------------------------------------------
(* Requests.                                                               *)

Running == ~crashed /\ ops < MaxOps

Reply(op, status, svcs) == reply' = [op |-> op, status |-> status, svcs |-> svcs]

\* bhd_gatts_add_svcs().
AddSvcs(r) ==
  /\ Running
  /\ VerifyResourceCnt(r)
  /\ t' = Saved(r)
  /\ crashed' = ~Saved(r).ok
  /\ wanted' = wanted \o r
  /\ single' = (single /\ t.nsvcs = 0 /\ \A i \in 1 .. Len(r) : r[i].chrs # << >>)
  /\ Reply("add_svcs", "ok", << >>)
  /\ ops' = ops + 1
  /\ UNCHANGED <<host, fresh>>

\* bhd_gatts_verify_resource_cnt() returns BLE_HS_ENOMEM.
RefuseSvcs(r) ==
  /\ Running
  /\ ~VerifyResourceCnt(r)
  /\ Reply("add_svcs", "BLE_HS_ENOMEM", << >>)
  /\ ops' = ops + 1
  /\ UNCHANGED <<t, host, wanted, fresh, single, crashed>>

\* The index of the NULL entry that ends the list from index i on.
EndOf(table, i) == Min({j \in DOMAIN table : j >= i /\ table[j].uuid = NULL})
ListAt(table, i) == [k \in 1 .. EndOf(table, i) - i |-> table[i + k - 1]]

\* What ble_gatts_start() registers: every characteristic it can walk to.
ChrsOf(svc) ==
  IF svc.chrs = NoIndex THEN << >>
  ELSE [k \in 1 .. EndOf(t.chrs, svc.chrs) - svc.chrs |->
          [def |-> svc.chrs + k - 1, arg |-> t.chrs[svc.chrs + k - 1].arg]]

HostList == FlattenSeq([k \in 1 .. EndOf(t.svcs, 0) |-> ChrsOf(t.svcs[k - 1])])

\* Mutant: the terminator is taken for a service.
VisitedM == 0 .. t.nsvcs - 1

\* The entries the loop of bhd_gatts_commit_svcs() visits.
Visited == 0 .. t.nsvcs - 2

\* ble_uuid_copy() from NULL, or a characteristics pointer that is NULL.
BadPointer == \E i \in Visited : t.svcs[i].uuid = NULL \/ t.svcs[i].chrs = NoIndex

\* The services the response lists, with their characteristics.
CommitRsp ==
  [k \in 1 .. t.nsvcs - 1 |->
     [uuid |-> t.svcs[k - 1].uuid,
      chrs |-> LET l == ListAt(t.chrs, t.svcs[k - 1].chrs)
               IN  [c \in 1 .. Len(l) |-> l[c].uuid]]]

\* bhd_gatts_commit_svcs(): the host takes the tables.  Nothing is added when
\* there is nothing, calloc(-1) then fails and the status is the last rc, 0.
CommitSvcs ==
  /\ Running
  /\ host' = host \o HostList
  /\ crashed' = BadPointer
  /\ IF BadPointer THEN UNCHANGED reply
     ELSE Reply("commit_svcs", "ok", IF t.nsvcs = 0 THEN << >> ELSE CommitRsp)
  /\ ops' = ops + 1
  /\ UNCHANGED <<t, wanted, fresh, single>>

\* ble_gatts_count_cfg(), ble_gatts_add_svcs() or ble_gatts_start() fails.
CommitRefused ==
  /\ Running
  /\ Reply("commit_svcs", "host error", << >>)
  /\ ops' = ops + 1
  /\ UNCHANGED <<t, host, wanted, fresh, single, crashed>>

\* The counters go back, the entries stay.
Cleared == [t EXCEPT !.nsvcs = 0, !.nchrs = 0, !.ndscs = 0, !.nuuids = 0, !.nvals = 0]

\* bhd_gatts_clear_svcs() does not look at the result of ble_gatts_reset().
ClearSvcs ==
  /\ Running
  /\ \E reset \in {TRUE, ~ResetMayFail} : host' = IF reset THEN << >> ELSE host
  /\ t' = Cleared
  /\ wanted' = << >>
  /\ fresh' = (fresh /\ t.nsvcs = 0)
  /\ single' = TRUE
  /\ Reply("clear_svcs", "ok", << >>)
  /\ ops' = ops + 1
  /\ UNCHANGED crashed

\* blehostd_on_sync(), blehostd_on_reset() and bhd_gap_send_notify_rx_evt() send
\* events with a number of their own.
SendEvt ==
  /\ Running
  /\ t' = TakeSeq(t)
  /\ ops' = ops + 1
  /\ UNCHANGED <<host, wanted, fresh, single, reply, crashed>>

Next ==
  \/ \E r \in Requests : AddSvcs(r) \/ RefuseSvcs(r)
  \/ CommitSvcs
  \/ CommitRefused
  \/ ClearSvcs
  \/ SendEvt

Spec == Init /\ [][Next]_vars

-----------------------------------------------------------------------------
(* Properties.                                                             *)

Uuids == UNION {{r[i].uuid : i \in DOMAIN r} : r \in Requests}

\* Type invariant: every counter is within its table, "characteristics" points
\* into the table of characteristics, numbers are between BHD_SEQ_EVT_MIN and
\* BHD_SEQ_MAX.
TypeOK ==
  /\ t.nsvcs \in 0 .. MaxSvcs /\ t.nchrs \in 0 .. MaxChrs /\ t.ndscs \in 0 .. MaxDscs
  /\ t.nuuids \in 0 .. MaxUuids /\ t.nvals \in 0 .. MaxVals
  /\ \A i \in DOMAIN t.svcs :
       /\ t.svcs[i].uuid \in {<<u>> : u \in Uuids} \union {NULL}
       /\ t.svcs[i].chrs \in -1 .. MaxChrs - 1
  /\ t.seq \in 0 .. EvtNumbers - 1 /\ t.given \in Nat /\ ops \in 0 .. MaxOps
  /\ {fresh, single, crashed} \subseteq BOOLEAN

\* What bhd_gatts_verify_resource_cnt() lets pass can be saved: the asserts in
\* bhd_gatts_save_uuid(), _dsc(), _chr() and _svc() never fail, however often
\* the tables were filled and cleared.
AssertsHold == t.ok

\* The last entry of each table is always NULL, so that no walk over a list
\* leaves its table, not even over the entries a clear left behind.
WalksStayInside ==
  /\ t.svcs[MaxSvcs - 1].uuid = NULL
  /\ t.chrs[MaxChrs - 1].uuid = NULL
  /\ t.dscs[MaxDscs - 1].uuid = NULL

\* The host calls back with the arguments it registered: the definitions it
\* points to are not overwritten while it holds them, until a clear leaves old
\* entries behind the counters.
HostDefsUntouched ==
  fresh => \A i \in 1 .. Len(host) : t.chrs[host[i].def].arg = host[i].arg

\* commit_svcs is answered, and the answer lists exactly the services added,
\* when one request added them to tables that were never cleared, and each has
\* a characteristic.  None of the three conditions can be dropped: the process
\* dies on a terminator between two requests or on a service without
\* characteristics, and a cleared table has no terminators of its own.
CommitListsWhatWasAdded ==
  fresh /\ single =>
    /\ ~crashed
    /\ reply.op = "commit_svcs" /\ reply.status = "ok" =>
         reply.svcs = [k \in 1 .. Len(wanted) |->
                         [uuid |-> <<wanted[k].uuid>>,
                          chrs |-> [c \in 1 .. Len(wanted[k].chrs) |-> <<wanted[k].uuid, c>>]]]

\* The entry a counter has stepped over is a terminator ("Null terminator."),
\* as long as no clear has left entries behind.
TerminatorsAreNull ==
  fresh /\ t.nsvcs > 0 =>
    /\ t.svcs[t.nsvcs - 1].uuid = NULL
    /\ t.nchrs > 0 => t.chrs[t.nchrs - 1].uuid = NULL
    /\ t.ndscs > 0 => t.dscs[t.ndscs - 1].uuid = NULL

\* The arguments of the attributes in the tables.
InUse ==
  {<<"chr", i>> : i \in {j \in 0 .. t.nchrs - 1 : t.chrs[j].uuid # NULL}} \union
  {<<"dsc", i>> : i \in {j \in 0 .. t.ndscs - 1 : t.dscs[j].uuid # NULL}}

ArgOf(a) == IF a[1] = "chr" THEN t.chrs[a[2]].arg ELSE t.dscs[a[2]].arg

\* The number of an access event tells the attribute, and no event without a
\* request has the number of an attribute, until all numbers were handed out
\* once; from then on both happen, since attributes keep theirs.
NumbersIdentify ==
  fresh =>
    /\ t.given <= EvtNumbers => \A a, b \in InUse : ArgOf(a) = ArgOf(b) => a = b
    /\ t.given < EvtNumbers => \A a \in InUse : ArgOf(a) # t.seq
=============================================================================
