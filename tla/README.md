# A TLA+ model of blehostd

blehostd is a daemon that runs the NimBLE host in Mynewt's simulator and lets a
client drive it with JSON messages over a UNIX domain socket. This directory
holds TLA+ modules for its parts, TLC configurations that check them, and
theorems proved with TLAPS. Line numbers refer to `src/apps/blehostd/src/`.

## The system

Two tasks matter. The *main* task (priority 1) runs the default event queue: the
BLE host and its callbacks. The *blehostd* task (priority 3, lower) runs
`blehostd_evq`: it takes requests, calls the host and sends responses. Socket
callbacks come from the native sockets poller.

| component | state | operations | hard behaviour |
|---|---|---|---|
| Input framing (`main.c`) | `blehostd_packet`, `blehostd_packet_len`, `blehostd_req_mq` | `blehostd_socket_readable`, `blehostd_enqueue_one`, `blehostd_process_req_mq` | messages cut and joined by reads, allocation failures, the wake-up of the handler |
| Output queue (`main.c`) | `blehostd_rsp_mq`, its one event, the socket | `blehostd_enqueue_rsp`, `blehostd_process_rsp_mq`, `blehostd_socket_writable` | two tasks drain one queue; a full socket; a lost wake-up |
| Access rendezvous (`bhd_gatts.c`) | `bhd_gatts_access_sem`, `_att_status`, `_value` | `bhd_gatts_access`, `bhd_gatts_set_access_result` | the main task waits ten seconds for the client; late, doubled, unasked answers |
| GATT registry (`bhd_gatts.c`) | five tables and their counters, heap blocks of requests and responses | add, commit, clear services | fixed sizes, terminators nobody writes, pointers the host keeps, failures halfway |
| Requests and procedures (`bhd_gap.c`, `bhd_gattc.c`) | procedures of the host, heap arguments of discoveries | 32 request types, the host's callbacks | callbacks before the response, freed arguments, reuse of sequence numbers |
| Decoding (`bhd_proto.c`, `bhd_util.c`) | one request and one response | `bhd_req_dec`, `bhd_*_req_run`, `bhd_json_*` | early returns, parallel tables, lists |
| Encoding (`bhd_proto.c`, `bhd_util.c`) | a union of all responses, one of all events | `bhd_rsp_enc`, `bhd_evt_enc` | a type without an encoder, one response's fields shown as another's |
| Values as text (`parse.c`, `bhd_util.c`, `bhd_gap.c`) | buffers of the request and of the advertisement | `parse_arg_*`, `bhd_process_json_*`, `bhd_hex_str`, `bhd_gap_adv_fields`, `bhd_gap_send_scan_evt` | four conversions in a row, buffers filled to the last byte |
| Event numbers (`bhd_util.c`) | `next_seq` | `bhd_next_evt_seq` | wrap-around, overlap with the numbers of requests |
| `bhd_sm.c`, `bhd_id.c` | none | one host call each | none |
| Start-up, options, log (`main.c`) | file names, log file | `main` | none the rest depends on |

How they interact: framing puts requests into `blehostd_req_mq`; the blehostd
task decodes each and calls gap, gattc, gatts, sm or id, which call the host;
the response goes to the output queue. The host's callbacks put events into the
same queue from the main task. One callback, the attribute access, blocks the
main task until an `access_status` request, handled by the blehostd task, gives
it a status. `AccessPath` composes the rendezvous and the output queue with both tasks and a
client. The other modules share no variables and are composed by what they assume of each
other: `RspQueue` has the main task block at any time (the rendezvous), `AsyncOps`
and `ReqParams` have any message dropped (the output queue refuses it), `SvcHeap` has the registry
take or refuse the services (`GattsRegistry`).

What makes them correct: framing hands on exactly the client's messages, in
order; the output queue sends each accepted message once, in order, eventually;
an access gets the client's status for that access, with the value that came with
it; the registry never overruns a table, and the host sees the services that were
added; every sequence number goes through one session; the host is called for
valid requests only, with the values of the request; every heap block is freed once; what the
program writes as text it can read again, and says the same.

## Modules

**`AccessStatus`**, abstract specification **`Mailbox`**. Variables carry the names
of the C ones; `main` and `setter` are the program points of the two tasks.
`StartAccess`/`FailAccess` are `bhd_gatts_access()` up to the wait,
`PendOk`/`PendTimeout` the return of `os_sem_pend()` with the reset of the slot,
`FinishAccess` the copy of the value. `SetResult`/`RejectResult` are the critical
section of `bhd_gatts_set_access_result()`, `ReleaseSem` what follows it. The main
task has the higher priority, so that the blehostd task does not run between reset
and copy (`MainBlocked`). `access`, `answer` and `owner` are histories for the
properties. A request without data has an uninitialised length: any length.

**`RspQueue`**, abstract specification **`MsgChannel`**. `mq_ev` is the event's place,
`pc` the program point of each task, `om` the message in hand, `room` what the socket
takes. `Get`, `SendOk`, `SendAgain`, `PutBack` are the steps of
`blehostd_process_rsp_mq()`; between them another task may run if `Preemptive`.
The OS may preempt; the shipped `syscfg.yml` (`MCU_NATIVE_USE_SIGNALS: 0`) does not
deliver the signals that would, and a task runs until it waits. Both are checked.

**`AccessPath`** instantiates `AccessStatus` and `RspQueue` and conjoins their actions: an
access queues its event and blocks the main task in one step (`Access`), the blehostd task
takes an answer, stores it, releases the semaphore and responds (`HandleReq`, `Release`,
`Respond`) unless the main task has something to do (`MainAwake`), `Drain` is either task in
`blehostd_process_rsp_mq()`. The client is prompt: it reads what the socket holds and answers each
access event once. Ten seconds are long, so that `Timeout` happens only when nothing else is
left to happen (`Quiet`).

**`ReqFraming`**, also against `MsgChannel` (ordered). The stream is a sequence of
bytes of base `Base`, each tagged with its message and its place in it. `SocketReadable(j)`
takes `j` bytes, `EnqueueOne`, `EnqueueNone` and `EnqueueFails` are the three ways through
`blehostd_enqueue_one()`; `WriteEmpty` is a client's header of length 0. Either of two allocations can
fail (`main.c:241`, `main.c:247`) and both end the call alike; the mbuf lost by the second is not in view.

**`GattsRegistry`**. The tables are functions from indexes to entries, entries hold
indexes for pointers, and `t` holds them with all counters; `SaveSvc`, `SaveChr`, `SaveDsc` are
the loops over the request, functions of the number of rounds. `host` is what the host was given
pointers to. `t.seq` is `next_seq` of `bhd_next_evt_seq()`, taken by attributes (`TakeSeq`) and by
events (`SendEvt`), `t.given` counts the numbers since start-up.
`ble_gatts_reset()` may fail unnoticed (`ResetMayFail`).

**`SvcHeap`** runs one `add_svcs` or `commit_svcs` request with the heap in view: `live` are
the arrays, named by their place in the tree, `ptr` what the pointer to each holds, `wild` what
was freed without being one, `past` the arrays written or freed behind their end.
`DecodeSvc`, `DecodeChr`, `DecodeDsc` are `bhd_json_svc()` and its callees, which may find
any element invalid.

**`AsyncOps`**, abstract specification **`ReqSession`**. Request types are grouped by what
they do to the host. `HandleReq` is the blehostd task, from `TakeReq` to `SendRsp`;
`MoreEvt`, `LastEvt`, `Connected`, `UnsolicitedEvt` are callbacks. Any message may be dropped
on the way out (`Says`). The refinement mapping
computes from queue, current request and procedures where each number is in its session.

**`ReqParams`**. The tables of parameters are translated handler by handler; `ReadParam`
reads one parameter, refuses or stores it, `CallHost` (or `NoMbufs`) and `SendRsp` end the
request. `Right` states what a valid request is without the order of reading. `rsp.rest` is
what lies behind the status in the union of all responses, `told` what the encoder shows of it.
`Stored` is the set of values a handler may have stored: one, except for an `access_status` without data,
whose handler reads into variables of the stack that nobody initialised (rule `stack`). `StatusOf` is what
becomes of the host's result (`clear_svcs` drops it), `Rests` what is written behind the status
(`commit_svcs` writes no list if it finds no memory, or has nothing to list, and keeps status 0).

**`WireText`** has the conversions of `parse.c` and `bhd_util.c` between JSON values and bytes,
both ways, and **`AdvData`** the way of advertising data through them: `RunAdvFields`
(parameters to fields), `SetFields` (fields to bytes and to the text of the response), `AdvSetData`
(text to bytes), `ScanReport` (bytes to fields, and to parameters), `AskAgain` and `ConnectReported`
(a client that uses what it was told). Texts are sequences of pieces, a numeral being one piece.

`MC*` modules and their `.cfg` files are the TLC instances. Names ending in `M` are
wrong variants of the definition below them; none is used by a specification.

## Runs

| run | shows | bounds |
|---|---|---|
| `access_status` | tokens follow statuses; a read returns the value of its status; a polite client is heard; refinement of `Mailbox` | 2 accesses, 3 answers: a late answer, its victim, and one more; statuses 0 and 255; values of 0 and 1 byte and one that is too long |
| `access_path` | with a prompt client an access times out only while its event cannot leave the queue; answers go where they belong until the first timeout; every access is announced and ends | 3 accesses: one that times out, the one its late answer goes to, one more; socket room 2; 2 other requests or events |
| `access_path_stall` (violation) | a prompt client is not always waited for | 2 accesses |
| `rsp_queue_preempted` | nothing lost or doubled under preemption; unordered channel | 6 messages, socket room 2: both tasks hold one, the socket is full, others wait |
| `rsp_queue` | without preemption: a wake-up is always coming, order, every accepted message is sent | same |
| `req_framing` | requests are the messages, in order, all of them | 3 messages of 1, 2 or 5 bytes, framed or bare; base 4, so that 5 needs both header bytes; one header of length 0; one allocation failure |
| `req_framing_split` (violation) | a read that splits a header derails the stream | 2 messages of 5 bytes |
| `gatts_registry` | the count protects the assertions; walks end inside; the host's definitions are not overwritten; a first commit lists what was added; numbers identify attributes until they wrap | 6 operations, tables of 6: two or three requests fill them; 8 event numbers, which wrap |
| `svc_heap` | nothing is freed twice or through a pointer nobody wrote, but for one known error path; which blocks leak; what the registry reads | every tree of at most 2 services, characteristics and descriptors, with invalid ones at every level |
| `async_ops` | one owner per number; heap arguments freed once; refinement of `ReqSession` | 3 numbers: a connection, a procedure on it, another request; one queued request |
| `req_params` | the host is called exactly for right requests, with their values, but for an `access_status` without one; answers can be assigned, have the host's status, but for `clear_svcs`, and show nothing it does not warrant; every message is answered | all 32 types; up to 2 parameters missing, invalid or unusual, on top of "all given" and "only required given"; every kind of header |
| `adv_data` | what is asked to be advertised is what is reported; what is reported can be asked for; no buffer is overrun | each field alone and in pairs, valid, invalid, as long as its buffer and one longer; data of other devices; two rounds |

The counters of accesses, messages, operations and failures grow without end in the
program; the bounds above stop them, so most instances end in states without a
successor and their `.cfg` has `CHECK_DEADLOCK FALSE`; those of `SvcHeap`, `ReqParams` and `AdvData`
end because a request ends. Data is small: the code never
compares two payloads, so that one or two values per kind show every case. Sets of
sequence numbers and messages are left without symmetry because the instances are small.

### Fairness

`rsp_queue`: weak fairness of each task's next step and of the socket being emptied (the
client reads, the poller reports it); the OS runs a ready task, and the main task's wait is
bounded by its timeout. `access_path`: the same, with the client's reading (and answering) as the
socket being emptied, and weak fairness of the main task returning from its wait; none for new
accesses, requests and events. `req_framing`: weak fairness of reading and of the handler, not of
the client nor of failures. `req_params`: the handler runs without waiting. The other
specifications are safety only.

### Where the code and its comments disagree

The violation runs record two, `PROJECT.json` quotes the lines: a header split by a read
(`main.c:212`); an access that is never announced although the client would answer at once
(`main.c:304`).

Met as well, and part of what the passing runs say:

- An access can take the status of an earlier one that timed out (`bhd_gatts.c:153`): an answer
  that comes late is stored with its token. `HeardUntilTimeout` and `PoliteClientIsHeard` end there.
- Terminators are not NULL after a `clear_svcs` (`bhd_gatts.c:345`), and `commit_svcs` does not
  survive a service without characteristics or two `add_svcs` requests (`bhd_gatts.c:393`):
  the conditions `fresh` and `single` of `GattsRegistry`. Its error path frees one pointer too many
  (`bhd_gatts.c:422`): `LoopCallocFailed` of `SvcHeap`.
- Of `add_svcs` the array of characteristics of each service is never freed
  (`bhd_util.c:1150`, `Leak`), and descriptors are stored one place too far (`bhd_util.c:1073`).
- Lists are cut after their first valid element (`bhd_util.c:541`): `ListAsAsked`,
  `HostGetsWhatWasAsked`. The length and bytes of an `access_status` without data are those the stack
  holds (`bhd_proto.c:1425`): the exception of `HostGetsWhatWasAsked`, and any length in `AccessStatus`.
- `clear_svcs` answers 0 also when `ble_gatts_reset()` fails (`bhd_gatts.c:321`); a failed allocation of
  `commit_svcs` is answered with 0 and an empty list (`bhd_gatts.c:380`, `bhd_gatts.c:398`): the exceptions
  of `AnswerMatches`.
- A number in a list of 128-bit UUIDs is advertised with bytes nobody
  wrote (`bhd_proto.c:1152`). 32-bit UUIDs are bounded by 0xffff (`bhd_proto.c:1135`).
- "Socket cannot accommodate packet; try again later." (`main.c:174`) is not assured when
  tasks may preempt each other: the writable callback and
  the main task's drain of the empty queue can come between MN_EAGAIN and the put-back, and
  the message then waits without an event (`WakeupComing` of `MCRspQueueCoop.cfg` with
  `Preemptive = TRUE` and without fairness).
- The parameters that `bhd_proto.h:85` calls "Optional." are required by `bhd_connect_req_run()`;
  a boolean that is absent from adv_fields is stored as -1 in a bit field, that is, as true.
  `syscfg.yml` defines `BLEHOSTD_PACKET_COUNTER`, the code asks for `BLEHOSTD_FRAME_COUNTER`
  (`bhd_proto.c:314`). Discovery events write every UUID with `ble_uuid_to_str()`
  (`bhd_proto.c:2054`), whose short form for 16 bits `bhd_process_json_uuid()` does not take back.

## What is proved

TLAPS proves the following for every value of the constants allowed by the
assumptions. The bounds (`MaxAccesses`, `MaxMsgs`, `MaxInbox`, ...) are arbitrary naturals,
so that no bound of a run limits a theorem.

**`AccessStatus_proofs`**, under `AccessAssumption` (bounds are naturals, statuses are
0 to 255): `TypeCorrect`, `TokenAccounting`, `AnswersUsedOnce`, `ReadsMatchStatus`,
`PoliteClientsAreHeard` and the refinement `MailboxRefinement`. They share the inductive
invariant `IInv`, the properties with four strengthenings. `CurrentAccess`: only the latest access can
be waiting, and the program point of the main task says in which state it is. `OwnerFresh`:
a stored status belongs to an accepted answer that no access has used; without it, the step that
takes the status could use an answer again. `ValueOfStatus`: the value buffer goes with the
stored status, and with the status just taken until its value is copied; this is where
the priorities matter, because an answer between the reset of the slot and the copy would
replace the value. `NothingLeftOver`: with a polite client there are as many tokens as stored
statuses, and none between two accesses. Each action has a lemma or a step.

**`RspQueue_proofs`**, under `RspAssumption`: `RspTypeCorrect`; `NothingLostOrDuplicated`
(`ExactlyOnce` is inductive with the types, under either scheduler); `NoLostWakeup`, under the
additional assumption `Preemptive = FALSE`; `ChannelRefinement`, which needs `ExactlyOnce` for the
unordered channel and `Fifo` for the ordered one. `Fifo` says that one task drains
at a time and that what was sent, what is held and what is queued are consecutive; order alone is
not inductive because a refused message goes back to the head of the queue. `NoLostWakeup`
rests on `Fifo` as well: a message is put back only while the socket is still full.

**`AsyncOps_proofs`**, under `AsyncAssumption` (the client keeps out of the event
numbers): `AsyncTypeCorrect`, `NumbersAreUnique`, `HeapIsSafe` and the refinement
`SessionRefinement`. The invariant adds to the properties: `Fresh` (a request carries no
error before its host call), `AcceptedOnly` (a procedure with the number being answered was
accepted, or the answer could free a number that still reports) and `OneAtATime` (the host's own
exclusions, by which a cancel ends one session only). Every action of the code is shown to be
one action of `ReqSession` or a stutter: `ClientAsksMaps` to `LastEvtMaps`.

**`ReqFraming_proofs`**, under `FramingAssumption` (Base at least 2, lengths below `MaxMsgSz`,
which two bytes can say): `RequestsFaithful`, `PacketDrained` and the refinement `InputChannel`, all
three under the additional assumption `SplitHeaders = FALSE`, without which `req_framing_split` refutes the
first; `NoRequestForgotten` needs neither. The invariant `IInv` is about the bytes that are pending,
those of the packet followed by those of the stream. `Framed`: they are whole frames one after the
other, each byte is the one its message has at that place, messages come in order and none after
the last one handed on is missing. `AtPlace`: the first of them begins a frame when `packet_len` is 0,
and otherwise begins the text whose length `packet_len` is. `BareAlone`: a message without header
is pending alone and whole, so that the length its first two bytes seem to say, which exceeds
`MaxMsgSz` (`TextExceedsMax`), makes the code take the packet for the message. `HeaderWhole`: the packet does not end inside the header of a long message.
`EmptiesCounted`: headers of length 0 are the only bytes of no message. `RequestsAreMessages` says
nothing of the bytes not yet read and is not inductive without these. `DecodedRight` then
says what the first part of `blehostd_enqueue_one()` finds: the text of the next message is in
front, or something of it is missing, or it was a header of length 0.

**`AccessPath_proofs`**, under `PathAssumption` (at least one message fits in the socket):
`PromptClientIsHeard` and `TimeoutMeansUnheard`, about the rendezvous, the output queue and a client
put together. Every step of the composition is shown to be a step of each half (`OutStep`,
`RdvStep`), so that the inductive invariants of `RspQueue_proofs` and `AccessStatus_proofs`, instantiated, hold
without being proved again; `PathInv` adds what relates the halves. `EventsDiffer` and `Fifo`: the
client meets the event of an access once, and in order. `RequestsMatch`, `AnswersMatch` and
`ReadIsAnswered`: an access whose event was read has exactly one answer, queued or handled. With
that the client is the polite one of `AccessStatus` until a timeout, and `SlotIsFree` follows from
`NothingLeftOver`. `AnswerWakes`: the answer to the current access leaves a token, also when it is refused.
`RoomIsUsed`, stronger than `WakeupComing`, which a client that reads unnoticed would break.

**`GattsRegistry_proofs`**, under `RegistryAssumption` (tables have at least one entry; a request is any
sequence of services): `RegistryTypes`, `NoAssertFails`, `LastEntriesNull`, `HostDefsKept`,
`ListsTerminated`, `NumbersTell` and `CommitListsAll`. The loops are shown by induction over their rounds:
saving one descriptor, characteristic or service leaves the entries behind the counters alone and advances the
counters by no more than `bhd_gatts_cnt_resources()` has counted for it (`NoAssertFails` is the sum of that, with
the terminators). The invariant `RegInv` joins what holds between two requests. `TablesInv`: the counters are
inside the tables and the last entry of each is NULL, whatever was there before, because the
count includes a terminator that saving steps over. `KeptInv`: until the first `clear_svcs` the entries behind the
counters are NULL as at start-up, so that each list ends where saving stepped over an entry, and
every number an attribute has is below `t.given` until they wrap (`Numbered`); without it
`HostDefsUntouched`, `TerminatorsAreNull` and `NumbersIdentify` are not inductive. `AddedInv`: after one `add_svcs` the tables say
what the request said, which a later `commit_svcs` walks over and lists.

**`SvcHeap_proofs`**, under `HeapAssumption` (trees of any size and depth three; what has no array has no
elements): `HeapRespected`, `LeaksKnown`, `ReadsDecoded`. `HeapInv` has one part for each point of the
program, from `AtSvc` to `AtDone`. Each says, as functions of the place that was reached,
which pointers were written (`PtrOf`), which arrays are allocated, and which elements are filled: those of
the services before it, and of its own service those before it. `HeapIsRespected` alone is not inductive, because
the loop that destroys services relies on the pointers that decoding left. Decoding stops at the first
invalid element (`Reached`, `ReachedFirstBad`), and that is where `Leak` comes from.

**`Decoding_proofs`** is about `ReqParams` and `AdvData`. Of `ReqParams`, for every `MaxOdd`, that is, for any
number of parameters out of the ordinary: `ParamsMade`, `HostCalledRightly`, `HostGetsIt`, `AnswersMatch`. First the tables: `ParamsMade` says of all 32
types that names are unique and that a parameter on which another depends comes before it and is always read,
table by table with `Joined` for concatenations. The invariant `ParamsInv` has a part for each point of a
request. `StoredSoFar`: the parameters that were read are stored as they ought to be and none is to
be refused, so that a handler that looks at an earlier parameter sees what the client gave
(`AppliesIfCounts`), although it looks at what it stored and `Right` at the message. `Over`: a request
ends in one of four ways, each with its response; `AnswersMatch` goes through them, with the
exceptions that `clear_svcs` and `commit_svcs` make. `FirstIsKept` shows that the
loop of `bhd_json_arr_gen()` keeps the first valid element of a list of any length.

Of `AdvData` and the conversions of `WireText`, for texts, arrays, lists and data of any length: `AlwaysFedBack`,
`AlwaysAsAsked`, `AlwaysStaysInside`. The assumptions say what comes from outside. `SizeAssumption`: an element has two
bytes before its payload, and a UUID of 128 bits fits. `AskAssumption`: requests are JSON objects with parameters of
`adv_fields`; each value is of one kind and strings end before their first NUL, nothing else is asked of them. `ForeignAssumption` and
`PeerAssumption`: what `ble_hs_adv_parse_fields()` and the controller let through. Every conversion is a loop over its
text or list, and a lemma per loop gives its states as a function of the number of rounds (`LoopRuns`, with `UpTo` for
induction up to the length). From them:

- a text is read back as the bytes it was written from, for the text of a response, an address, a UUID and the name
  of an address type (`ParsedBack`, `AddrBack`, `UuidBack`, `TypeBack`);
- a text that was not written by the program is read as the numerals between its separators or refused (`ParsedSays`), and
  a UUID is read exactly when `IsUuid` says so (`UuidSays`);
- of a list the first valid element is kept (`ListTold`; a list without one gives no field);
- the elements made of fields are in order, one for each field that is there (`ElementsGood`); unless they are refused for
  their size, `adv_set_data` takes their text, and they are parsed as they were (`BytesKnown`);
- data that can be said, in the program's order, are reported as a request that is read as the same fields (`ReadBack`).

`AdvInv` joins them along the stages of a request. `FedBack` is not inductive: in the second round it speaks of data that are
long off the air, so that `AdvInv` keeps the report equal to `Report(data)` and the request equal to the report. For
`AdvertisedAsAsked` it keeps that the fields are what was read of this request (`WasRead`), and that the data on the
air are made of these fields (`OnAir`, `Reported`). `StaysInside` needs the bounds of each reader (`ReadFieldFits`).

Every invariant and action property of a passing run is the property of a theorem. Only model-checked: liveness (`AllSent`,
`AllHandled`, `Answered`, `EveryAccessAnnounced`), since temporal proofs with fairness need ENABLED, which the prover does
not handle.

## Not modelled

- The encoders of events other than the scan event: each writes the fields of a structure one
  after the other, and no state depends on them. Repeat pairing, which deletes a bond in the host.
- That the sync or reset event finds no buffer, on which `main.c:398` asserts: it needs the pool of
  the OS to be empty.
- Requests with a number of the events (`bhd_proto.c:302`) or, in `ReqParams`, with number 0: the client
  could not tell its answers apart, and nothing in the code prevents it.
- The conversion of JSON text to JSON values and back (cJSON), the digits of a numeral.
- The pool of mbufs: that an allocation fails is a choice, and the one lost at `main.c:247` is not counted.
- Logging, the command line, `sysinit()`, signal masks.
- The NimBLE host, the OS and the sockets: external, modelled by how the code uses them.

## Plan

1. Done: rendezvous, output queue and the two composed; requests and procedures, framing, registry,
   heap of the services, decoding, advertising data; proofs about all of them.
2. Next models: the fields of the remaining events, with the way of an event's parameters back into a
   request, as `AdvData` has it for the scan event.
