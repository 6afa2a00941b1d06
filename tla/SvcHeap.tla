------------------------------- MODULE SvcHeap -------------------------------
(***************************************************************************)
(* The heap blocks of add_svcs and commit_svcs requests.                   *)
(*                                                                         *)
(* bhd_add_svcs_req_run() decodes the client's services into a tree of     *)
(* arrays, gives it to bhd_gatts_add_svcs() and frees it.  Any element may *)
(* be invalid, and decoding stops there.  bhd_gatts_commit_svcs() builds   *)
(* such a tree for the response, and bhd_commit_svcs_rsp_enc() frees it.   *)
(*                                                                         *)
(* An array is named by where it hangs: << >> is the array of services,    *)
(* <<i>> the characteristics of service i, <<i, j>> the descriptors of its *)
(* characteristic j; <<i, j, k>> is one descriptor.  A name is also used   *)
(* for the pointer to that array and for the element that holds it.        *)
(***************************************************************************)
EXTENDS Integers, Sequences, FiniteSets, SequencesExt

CONSTANTS Trees,      \* the "services" of the client's add_svcs requests
          MaxCommit   \* bound: services a commit_svcs request lists

\* A service or characteristic has a kind and the elements of its array: it is
\* "invalid" when a field before the array is, "plain" when there is no array.
\* A descriptor is valid or not.
Kinds == {"invalid", "plain", "array"}
Elems(of) == [kind : Kinds, elems : Seq(of)]

\* Without an array there are no elements.
NoArrayNoElems(elems) ==
  \A i \in DOMAIN elems : elems[i].kind # "array" => elems[i].elems = << >>

ASSUME HeapAssumption ==
  /\ Trees \subseteq Seq(Elems(Elems(BOOLEAN)))
  /\ \A t \in Trees :
       /\ NoArrayNoElems(t)
       /\ \A i \in DOMAIN t : NoArrayNoElems(t[i].elems)
  /\ MaxCommit \in Nat

\* Services to commit; their characteristics hang in one array each.
Registered(n) == [i \in 1 .. n |-> [kind |-> "plain", elems |-> << >>]]

VARIABLES op,       \* the request: "add_svcs" or "commit_svcs"
          tree,     \* its services
          at,       \* the element that is worked on
          pc,
          num_svcs, \* req->add_svcs.num_svcs, or the services of the response
          live,     \* arrays that are allocated
          ptr,      \* the pointers that were written: NULL or an array
          wild,     \* pointers passed to free() that were never written, or twice
          past,     \* arrays written or read behind their end
          filled,   \* elements that hold what the client asked for
          read,     \* elements the registry has read
          status

vars == <<op, tree, at, pc, num_svcs, live, ptr, wild, past, filled, read, status>>

Init ==
  /\ \/ op = "add_svcs" /\ tree \in Trees
     \/ op = "commit_svcs" /\ tree \in {Registered(n) : n \in 0 .. MaxCommit}
  /\ at = << >>
  /\ pc = "start"
  /\ num_svcs = 0
  /\ live = {}
  /\ ptr = << >>
  /\ wild = {}
  /\ past = {}
  /\ filled = {}
  /\ read = {}
  /\ status = "ok"

-----------------------------------------------------------------------------
(* malloc_success() and free().                                            *)

\* A pointer that was not written, that hangs in an array that is gone, or whose
\* own array is gone.
IsWild(p) ==
  \/ p \notin DOMAIN ptr
  \/ p # << >> /\ Front(p) \notin live
  \/ ptr[p] = "array" /\ p \notin live

\* free() of the pointers ps.
Free(ps) ==
  /\ wild' = wild \union {p \in ps : IsWild(p)}
  /\ live' = live \ ps

\* The pointer p is written.
Set(p, v) == [q \in DOMAIN ptr \union {p} |-> IF q = p THEN v ELSE ptr[q]]

-----------------------------------------------------------------------------
(* add_svcs: decoding.                                                     *)

Svc(i) == tree[i]
Chr(i, j) == tree[i].elems[j]

\* The element after this one, or the end of its array.
After(p) == [p EXCEPT ![Len(p)] = @ + 1]

\* "services" is missing or not an array: req->add_svcs.svcs is still NULL.
NoServices ==
  /\ pc = "start" /\ op = "add_svcs"
  /\ status' = "invalid"
  /\ pc' = "free"
  /\ ptr' = Set(<< >>, "NULL")
  /\ UNCHANGED <<op, tree, at, num_svcs, live, wild, past, filled, read>>

AllocSvcs ==
  /\ pc = "start" /\ op = "add_svcs"
  /\ live' = {<< >>}
  /\ ptr' = Set(<< >>, "array")
  /\ at' = <<1>>
  /\ pc' = "svc"
  /\ UNCHANGED <<op, tree, num_svcs, wild, past, filled, read, status>>

\* Mutant: a service counts as soon as its decoding begins.
CountedM(begun, ended) == begun

\* req->add_svcs.num_svcs counts the services that were decoded.
Counted(begun, ended) == ended

\* An element is invalid: the error goes up to bhd_add_svcs_req_run().
Fail(p) ==
  /\ status' = "invalid"
  /\ num_svcs' = Counted(p[1], p[1] - 1)
  /\ at' = <<1>>
  /\ pc' = "destroy"

\* bhd_json_svc() returned 0.
EndSvc(i) ==
  /\ filled' = filled \union {<<i>>}
  /\ num_svcs' = i
  /\ at' = <<i + 1>>
  /\ pc' = "svc"

\* bhd_json_svc(): *out_svc = {0}, then type and uuid, then "characteristics".
DecodeSvc ==
  LET i == at[1] IN
  /\ pc = "svc"
  /\ i <= Len(tree)
  /\ IF Svc(i).kind = "invalid"
       THEN /\ ptr' = Set(<<i>>, "NULL")
            /\ Fail(<<i>>)
            /\ UNCHANGED <<live, filled>>
     ELSE IF Svc(i).kind = "plain"
       THEN /\ ptr' = Set(<<i>>, "NULL")
            /\ EndSvc(i)
            /\ UNCHANGED <<live, status>>
     ELSE /\ live' = live \union {<<i>>}
          /\ ptr' = Set(<<i>>, "array")
          /\ at' = <<i, 1>>
          /\ pc' = "chr"
          /\ UNCHANGED <<num_svcs, filled, status>>
  /\ UNCHANGED <<op, tree, wild, past, read>>

\* The loop over the characteristics is over.
EndChrs ==
  /\ pc = "chr"
  /\ at[2] > Len(Svc(at[1]).elems)
  /\ EndSvc(at[1])
  /\ UNCHANGED <<op, tree, live, ptr, wild, past, read, status>>

\* bhd_json_chr(): *out_chr = {0}, then its fields, then "descriptors".
DecodeChr ==
  LET i == at[1]
      j == at[2]
  IN
  /\ pc = "chr"
  /\ j <= Len(Svc(i).elems)
  /\ IF Chr(i, j).kind = "invalid"
       THEN /\ ptr' = Set(at, "NULL")
            /\ Fail(at)
            /\ UNCHANGED <<live, filled>>
     ELSE IF Chr(i, j).kind = "plain"
       THEN /\ ptr' = Set(at, "NULL")
            /\ filled' = filled \union {at}
            /\ at' = After(at)
            /\ UNCHANGED <<pc, num_svcs, live, status>>
     ELSE /\ live' = live \union {at}
          /\ ptr' = Set(at, "array")
          /\ at' = Append(at, 1)
          /\ pc' = "dsc"
          /\ UNCHANGED <<num_svcs, filled, status>>
  /\ UNCHANGED <<op, tree, wild, past, read>>

\* The loop over the descriptors is over.
EndDscs ==
  LET c == Front(at) IN
  /\ pc = "dsc"
  /\ Last(at) > Len(Chr(at[1], at[2]).elems)
  /\ filled' = filled \union {c}
  /\ at' = After(c)
  /\ pc' = "chr"
  /\ UNCHANGED <<op, tree, num_svcs, live, ptr, wild, past, read, status>>

\* bhd_json_dsc() for out_chr->dscs + out_chr->num_dscs: num_dscs is the length
\* of the whole array already, so that every descriptor is written behind it.
DecodeDsc ==
  LET c == Front(at) IN
  /\ pc = "dsc"
  /\ Last(at) <= Len(Chr(at[1], at[2]).elems)
  /\ past' = past \union {c}
  /\ IF Chr(at[1], at[2]).elems[Last(at)]
       THEN /\ at' = After(at)
            /\ UNCHANGED <<pc, num_svcs, status>>
       ELSE Fail(at)
  /\ UNCHANGED <<op, tree, live, ptr, wild, filled, read>>

-----------------------------------------------------------------------------
(* add_svcs: use and destruction.                                          *)

SvcElems == {<<i>> : i \in DOMAIN tree}
ChrElems == UNION {{<<i, j>> : j \in DOMAIN tree[i].elems} : i \in DOMAIN tree}
DscElems == UNION {{<<c[1], c[2], k>> : k \in DOMAIN Chr(c[1], c[2]).elems} : c \in ChrElems}

\* Mutant: the loop ends one service early.
SvcsDoneM == at[1] >= Len(tree)

\* cJSON_ArrayForEach(item, arr) in bhd_add_svcs_req_run() is over.
SvcsDone == at[1] > Len(tree)

\* bhd_gatts_add_svcs() reads the whole tree, or counts it and refuses it.
UseSvcs ==
  /\ pc = "svc"
  /\ SvcsDone
  /\ \/ read' = SvcElems \union ChrElems \union DscElems /\ UNCHANGED status
     \/ status' = "ENOMEM" /\ UNCHANGED read
  /\ at' = <<1>>
  /\ pc' = "destroy"
  /\ UNCHANGED <<op, tree, num_svcs, live, ptr, wild, past, filled>>

\* Mutant: the array of characteristics is freed, the descriptors are not.
DestroyedM(i) == {<<i>>}

\* What bhd_destroy_svc() frees: the descriptors of each of the num_chrs
\* characteristics, and not the array of characteristics.
Destroyed(i) == {<<i, j>> : j \in DOMAIN tree[i].elems}

DestroySvc ==
  LET i == at[1] IN
  /\ pc = "destroy"
  /\ i <= num_svcs
  /\ Free(Destroyed(i))
  /\ at' = <<i + 1>>
  /\ UNCHANGED <<op, tree, pc, num_svcs, ptr, past, filled, read, status>>

EndDestroy ==
  /\ pc = "destroy"
  /\ at[1] > num_svcs
  /\ pc' = "free"
  /\ UNCHANGED <<op, tree, at, num_svcs, live, ptr, wild, past, filled, read, status>>

\* free(req->add_svcs.svcs), or free(rsp->commit_svcs.svcs).
FreeSvcs ==
  /\ pc = "free"
  /\ Free({<< >>})
  /\ pc' = "done"
  /\ UNCHANGED <<op, tree, at, num_svcs, ptr, past, filled, read, status>>

-----------------------------------------------------------------------------
(* commit_svcs: the registry's counter is one more than the services, for  *)
(* the terminator, and 0 when nothing was added.                           *)

\* The host refuses; or calloc() for the services fails, as it does for the -1
\* services of an empty registry: nothing is allocated, the response keeps its
\* zeroes, and the status is that of the last call to the host.
CommitNothing ==
  /\ pc = "start" /\ op = "commit_svcs"
  /\ \E s \in {"ok", "host error"} : status' = s
  /\ ptr' = Set(<< >>, "NULL")
  /\ pc' = "free"
  /\ UNCHANGED <<op, tree, at, num_svcs, live, wild, past, filled, read>>

\* calloc(bhd_gatts_num_svcs - 1): the pointers in it are NULL.
CommitAlloc ==
  /\ pc = "start" /\ op = "commit_svcs"
  /\ live' = {<< >>}
  /\ ptr' = [p \in {<< >>} \union SvcElems |-> IF p = << >> THEN "array" ELSE "NULL"]
  /\ at' = <<1>>
  /\ pc' = "commit"
  /\ UNCHANGED <<op, tree, num_svcs, wild, past, filled, read, status>>

\* One service of the loop: its characteristics are allocated and copied.
CommitSvc ==
  LET i == at[1] IN
  /\ pc = "commit"
  /\ i <= Len(tree)
  /\ live' = live \union {at}
  /\ ptr' = Set(at, "array")
  /\ filled' = filled \union {at}
  /\ at' = <<i + 1>>
  /\ UNCHANGED <<op, tree, pc, num_svcs, wild, past, read, status>>

\* calloc() for the characteristics of a service fails: the error path frees
\* bhd_gatts_num_svcs pointers, one more than the array has, and the status is
\* what ble_gatts_start() returned, 0.
CommitFails ==
  LET all == {<<i>> : i \in 1 .. Len(tree) + 1} IN
  /\ pc = "commit"
  /\ at[1] <= Len(tree)
  /\ Free(all)
  /\ past' = past \union {<< >>}
  /\ pc' = "free"
  /\ UNCHANGED <<op, tree, at, num_svcs, ptr, filled, read, status>>

\* out_rsp->commit_svcs.num_svcs and .svcs are set.
CommitDone ==
  /\ pc = "commit"
  /\ at[1] > Len(tree)
  /\ num_svcs' = Len(tree)
  /\ pc' = "encode"
  /\ UNCHANGED <<op, tree, at, live, ptr, wild, past, filled, read, status>>

\* Mutant: the loop is bounded by the counter of the registry.
EncodedM == {<<i>> : i \in 1 .. num_svcs + 1}

\* The pointers the loop at the end of bhd_commit_svcs_rsp_enc() frees.
Encoded == {<<i>> : i \in 1 .. num_svcs}

\* bhd_commit_svcs_rsp_enc() reads the services, then frees them.
EncodeCommit ==
  /\ pc = "encode"
  /\ read' = {<<i>> : i \in 1 .. num_svcs}
  /\ Free(Encoded)
  /\ pc' = "free"
  /\ UNCHANGED <<op, tree, at, num_svcs, ptr, past, filled, status>>

-----------------------------------------------------------------------------
Next ==
  \/ NoServices \/ AllocSvcs
  \/ DecodeSvc \/ EndChrs \/ DecodeChr \/ EndDscs \/ DecodeDsc
  \/ UseSvcs \/ DestroySvc \/ EndDestroy
  \/ CommitNothing \/ CommitAlloc \/ CommitSvc \/ CommitFails \/ CommitDone \/ EncodeCommit
  \/ FreeSvcs

Spec == Init /\ [][Next]_vars

-----------------------------------------------------------------------------
(* Properties.                                                             *)

\* A calloc() in the loop of bhd_gatts_commit_svcs() failed.
LoopCallocFailed == op = "commit_svcs" /\ past # {}

\* Whatever element of the request is invalid, free() gets NULL or an array that
\* is allocated, once, through a pointer that was written; and without
\* descriptors nothing is written behind an array.  The exception is the error
\* path of commit_svcs, which frees the pointer behind its array.
HeapIsRespected ==
  /\ wild # {} => LoopCallocFailed /\ wild = {<<Len(tree) + 1>>}
  /\ past # {} => LoopCallocFailed \/ DscElems # {}

BadChr(c) == c.kind = "invalid" \/ ~\A k \in DOMAIN c.elems : c.elems[k]
BadSvc(s) == s.kind = "invalid" \/ \E j \in DOMAIN s.elems : BadChr(s.elems[j])

\* The elements of sequence q up to and including the first that is Bad.
UpToFirst(Bad(_), q) == {i \in DOMAIN q : \A h \in 1 .. i - 1 : ~Bad(q[h])}

\* What add_svcs leaves behind: the characteristics of every service it came to,
\* and the descriptors of the service it failed in.
Leak ==
  LET reached == {i \in UpToFirst(BadSvc, tree) : Svc(i).kind = "array"}
      failed  == {i \in reached : BadSvc(Svc(i))}
  IN  {<<i>> : i \in reached} \union
      UNION {{<<i, j>> : j \in {g \in UpToFirst(BadChr, Svc(i).elems) :
                                Chr(i, g).kind = "array"}} : i \in failed}

\* Everything else is freed: the services and the descriptors of decoded services,
\* and all of a commit_svcs response, on every error path.
OnlyKnownLeaks ==
  pc = "done" => live = IF op = "add_svcs" /\ ptr[<< >>] = "array" THEN Leak ELSE {}

\* The registry is given services and characteristics that were all decoded, and
\* the response lists services that were all filled in; descriptors, and only
\* they, are read as malloc() left them.  "ok" means that the registry was given
\* the whole tree.
ReadsWhatWasDecoded ==
  /\ read # {} => read \ filled = DscElems
  /\ (pc = "done" /\ op = "add_svcs" /\ status = "ok")
       => read = SvcElems \union ChrElems \union DscElems
=============================================================================
