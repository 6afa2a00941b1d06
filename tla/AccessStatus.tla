---------------------------- MODULE AccessStatus ----------------------------
(***************************************************************************)
(* The attribute-access rendezvous of bhd_gatts.c.                         *)
(*                                                                         *)
(* The main task runs the BLE host.  When a peer reads or writes an        *)
(* attribute, the host calls bhd_gatts_access(), which sends an "access"   *)
(* event to the client and blocks on bhd_gatts_access_sem for at most ten  *)
(* seconds.  The blehostd task executes the client's access_status         *)
(* requests: bhd_gatts_set_access_result() stores status and value in a    *)
(* critical section and, in a second step, releases the semaphore.         *)
(*                                                                         *)
(* An access carries a number, and so does an access_status request; the   *)
(* program has neither.  `for' is the access the client meant to answer    *)
(* (0: none).  Both histories exist only so that properties can relate an  *)
(* access to its answer.                                                   *)
(***************************************************************************)
EXTENDS Naturals

CONSTANTS MaxAccesses,   \* bound: attribute accesses by peers
          MaxAnswers,    \* bound: access_status requests that reach the store
          AttStatuses,   \* values of the request's "att_status" field
          MaxLen         \* BLE_ATT_ATTR_MAX_LEN, size of the value buffer

None            == 255   \* BHD_GATTS_ACCESS_STATUS_NONE, UINT8_MAX
Unlikely        == 14    \* BLE_ATT_ERR_UNLIKELY
InsufficientRes == 17    \* BLE_ATT_ERR_INSUFFICIENT_RES

ASSUME AccessAssumption ==
  /\ MaxAccesses \in Nat
  /\ MaxAnswers \in Nat
  /\ MaxLen \in Nat
  /\ AttStatuses \subseteq 0 .. None   \* bhd_json_int_bounds(.., 0, UINT8_MAX)

Accesses == 1 .. MaxAccesses
Answers  == 1 .. MaxAnswers
Ops      == {"read", "write"}

VARIABLES sem,        \* tokens of bhd_gatts_access_sem
          att_status, \* bhd_gatts_access_att_status
          value,      \* bhd_gatts_access_value(_len): .src is the answer whose
                      \* bytes it holds (0: bytes nobody sent), .len its length
          main,       \* where the main task is: "idle", "pend" or "copy"
          setter,     \* the blehostd task: "idle", or "accepted" between the
                      \* critical section and os_sem_release()
          accesses,   \* number of accesses so far; the last one is current
          access,     \* history of the accesses
          answers,    \* number of access_status requests so far
          answer,     \* history of the access_status requests
          owner       \* the answer that last wrote att_status

waiter == <<main, accesses, access>>
client == <<answers, answer, owner>>
vars   == <<sem, att_status, value, setter, waiter, client>>

\* A history entry that has no status yet.
Entry(op, state, rc) ==
  [op |-> op, state |-> state, st |-> 0, ans |-> 0, rc |-> rc, val |-> 0]
NoAccess == Entry("write", "none", 0)
NoAnswer == [for |-> 0, st |-> 0, data |-> FALSE, ok |-> FALSE]

\* Mutant: the semaphore starts with a token.
InitTokensM == 1

\* bhd_gatts_init(): os_sem_init(&bhd_gatts_access_sem, 0).
InitTokens == 0

Init ==
  /\ sem = InitTokens
  /\ att_status = None
  /\ value = [src |-> 0, len |-> 0]
  /\ main = "idle"
  /\ setter = "idle"
  /\ accesses = 0
  /\ access = [a \in Accesses |-> NoAccess]
  /\ answers = 0
  /\ answer = [i \in Answers |-> NoAnswer]
  /\ owner = 0

-----------------------------------------------------------------------------
(* The main task.                                                          *)

\* bhd_gatts_access() up to os_sem_pend(): the event went out.
StartAccess(op) ==
  /\ main = "idle"
  /\ accesses < MaxAccesses
  /\ main' = "pend"
  /\ accesses' = accesses + 1
  /\ access' = [access EXCEPT ![accesses + 1] = Entry(op, "wait", 0)]
  /\ UNCHANGED <<sem, att_status, value, setter, client>>

\* The written data does not fit in buf, or the event could not be sent.
FailAccess ==
  /\ main = "idle"
  /\ accesses < MaxAccesses
  /\ accesses' = accesses + 1
  /\ access' = [access EXCEPT ![accesses + 1] = Entry("write", "failed", Unlikely)]
  /\ UNCHANGED <<sem, att_status, value, main, setter, client>>

\* Mutant: the status is read and left in place.
StatusAfterReadM == att_status

\* The waiter reopens the status slot, whether it got a token or not.
StatusAfterRead == None

\* The tail of bhd_gatts_wait_for_access_status(): reset, return the status.
ResetAndReturn(state, st, ans) ==
  /\ att_status' = StatusAfterRead
  /\ main' = "copy"
  /\ access' = [access EXCEPT ![accesses].state = state,
                              ![accesses].st = st,
                              ![accesses].ans = ans]
  /\ UNCHANGED <<value, setter, accesses, client>>

\* os_sem_pend() obtains a token.
PendOk ==
  /\ main = "pend"
  /\ sem > 0
  /\ sem' = sem - 1
  /\ ResetAndReturn("answered", att_status,
                    IF att_status = None THEN 0 ELSE owner)

\* Mutant: on a timeout, a status that is just arriving is used and left.
PendTimeoutM ==
  /\ main = "pend"
  /\ sem = 0
  /\ main' = "copy"
  /\ access' = [access EXCEPT ![accesses].state = "timeout",
                   ![accesses].st = IF att_status = None THEN Unlikely ELSE att_status,
                   ![accesses].ans = IF att_status = None THEN 0 ELSE owner]
  /\ UNCHANGED <<sem, att_status, value, setter, accesses, client>>

\* os_sem_pend() times out; a token would have been handed over.
PendTimeout ==
  /\ main = "pend"
  /\ sem = 0
  /\ UNCHANGED sem
  /\ ResetAndReturn("timeout", Unlikely, 0)

\* What bhd_gatts_access() can return once it has the status; os_mbuf_append()
\* may fail for want of mbufs.
ReturnCodes(op, st) ==
  IF st # 0 THEN {st} ELSE IF op = "read" THEN {0, InsufficientRes} ELSE {0}

\* The rest of bhd_gatts_access(): a read appends the shared value buffer.
FinishAccess ==
  /\ main = "copy"
  /\ main' = "idle"
  /\ \E rc \in ReturnCodes(access[accesses].op, access[accesses].st) :
       access' = [access EXCEPT ![accesses].rc = rc,
                                ![accesses].val = value.src]
  /\ UNCHANGED <<sem, att_status, value, setter, accesses, client>>

-----------------------------------------------------------------------------
(* The blehostd task.                                                      *)

\* Mutant: the blehostd task may preempt the main task.
MainBlockedM == TRUE

\* OS_MAIN_TASK_PRIO is 1 and BLEHOSTD_TASK_PRIO is 3: the blehostd task runs
\* only while the main task is blocked.
MainBlocked == main # "copy"

\* Mutant: the length is not clipped.
ClipM(n) == n

\* bhd_gatts_set_access_result() clips the length to the buffer.
Clip(n) == IF n > MaxLen THEN MaxLen ELSE n

\* The lengths that can arrive: the decoder bounds a "data" string by MaxLen;
\* without "data" the local data_len is uninitialized, and MaxLen + 1 stands for
\* every int that compares greater than the buffer's size.
Lens(hasData) == IF hasData THEN 0 .. MaxLen ELSE 0 .. MaxLen + 1

\* The accesses the client knows of: those whose event went out.
Announced == {a \in 1 .. accesses : access[a].state # "failed"}

\* Mutant: the status slot is not tested.
SlotFreeM == TRUE

\* The test in the critical section.
SlotFree == att_status = None

Store(i, st, hasData) ==
  /\ att_status' = st
  /\ \E n \in Lens(hasData) :
       value' = [src |-> IF hasData THEN i ELSE 0, len |-> Clip(n)]

\* The critical section of bhd_gatts_set_access_result(), status slot free.
SetResult(for, st, hasData) ==
  /\ MainBlocked
  /\ setter = "idle"
  /\ answers < MaxAnswers
  /\ SlotFree
  /\ Store(answers + 1, st, hasData)
  /\ setter' = "accepted"
  /\ answers' = answers + 1
  /\ answer' = [answer EXCEPT ![answers + 1] =
                  [for |-> for, st |-> st, data |-> hasData, ok |-> TRUE]]
  /\ owner' = answers + 1
  /\ UNCHANGED <<sem, waiter>>

\* The critical section, status slot taken: SYS_ENOENT, nothing changes.
RejectResult(for, st, hasData) ==
  /\ MainBlocked
  /\ setter = "idle"
  /\ answers < MaxAnswers
  /\ ~SlotFree
  /\ answers' = answers + 1
  /\ answer' = [answer EXCEPT ![answers + 1] =
                  [for |-> for, st |-> st, data |-> hasData, ok |-> FALSE]]
  /\ UNCHANGED <<sem, att_status, value, setter, owner, waiter>>

\* os_sem_release(), outside the critical section.
ReleaseSem ==
  /\ MainBlocked
  /\ setter = "accepted"
  /\ setter' = "idle"
  /\ sem' = sem + 1
  /\ UNCHANGED <<att_status, value, waiter, client>>

-----------------------------------------------------------------------------
Next ==
  \/ \E op \in Ops : StartAccess(op)
  \/ FailAccess
  \/ PendOk
  \/ PendTimeout
  \/ FinishAccess
  \/ \E for \in Announced \union {0}, st \in AttStatuses, d \in BOOLEAN :
       SetResult(for, st, d) \/ RejectResult(for, st, d)
  \/ ReleaseSem

Spec == Init /\ [][Next]_vars

-----------------------------------------------------------------------------
(* Properties.                                                             *)

AccessRecord == [op : Ops, state : {"none", "wait", "answered", "timeout", "failed"},
                 st : 0 .. None, ans : 0 .. MaxAnswers, rc : 0 .. None,
                 val : 0 .. MaxAnswers]
AnswerRecord == [for : 0 .. MaxAccesses, st : AttStatuses \union {0},
                 data : BOOLEAN, ok : BOOLEAN]

\* Type invariant.  The length stays within the value buffer even when the
\* request carried no data and its length is uninitialized memory.
TypeOK ==
  /\ sem \in Nat
  /\ att_status \in 0 .. None
  /\ value \in [src : 0 .. MaxAnswers, len : 0 .. MaxLen]
  /\ main \in {"idle", "pend", "copy"}
  /\ setter \in {"idle", "accepted"}
  /\ accesses \in 0 .. MaxAccesses
  /\ access \in [Accesses -> AccessRecord]
  /\ answers \in 0 .. MaxAnswers
  /\ answer \in [Answers -> AnswerRecord]
  /\ owner \in 0 .. answers

\* Tokens that exist or are about to.
Tokens == sem + (IF setter = "accepted" THEN 1 ELSE 0)

\* A stored status has a token behind it: the access that waits for it, or the
\* next one, is woken (bhd_gatts_set_access_result releases what it accepted).
StatusHasToken == att_status # None => Tokens >= 1

\* The semaphore runs at most one token ahead of the stored status, however
\* accesses time out between the critical section and the release, unless the
\* client uses the "none" value 255 as a status.
SurplusBounded ==
  (\A i \in 1 .. answers : answer[i].st # None)
    => Tokens <= (IF att_status # None THEN 1 ELSE 0) + 1

\* Tokens follow statuses although neither task holds both at once: no stored status
\* waits without a token, which would leave its access to time out, and no more than
\* one token is ever left over, however many accesses time out while one is released.
TokensFollowStatuses == StatusHasToken /\ SurplusBounded

\* No answer of the client decides two accesses: the status is reset when read.
AnswerUsedOnce ==
  \A a, b \in 1 .. accesses :
    (access[a].ans # 0 /\ access[a].ans = access[b].ans) => a = b

\* A successful read returns the bytes that came with the very status that made
\* it successful (or garbage if that answer had no data), although the buffer is
\* read after the status slot was reopened.
ReadReturnsValueOfItsStatus ==
  \A a \in 1 .. accesses :
    LET acc == access[a]
        cur == a = accesses /\ main # "idle"
    IN  (~cur /\ acc.state = "answered" /\ acc.op = "read" /\ acc.rc = 0)
          => /\ acc.ans # 0
             /\ acc.val = IF answer[acc.ans].data THEN acc.ans ELSE 0

\* The client answers only what was announced, each access at most once, and
\* never with 255.
OneAnswerEach ==
  /\ \A i \in 1 .. answers : answer[i].for # 0 /\ answer[i].st # None
  /\ \A i, j \in 1 .. answers : answer[i].for = answer[j].for => i = j

\* ... and in time.
Polite ==
  /\ OneAnswerEach
  /\ \A a \in 1 .. accesses : access[a].state # "timeout"

\* With such a client every access gets the status the client gave for it: no
\* token or status survives from one access to the next.
PoliteClientIsHeard ==
  Polite => \A a \in 1 .. accesses :
              access[a].state = "answered"
                => /\ access[a].ans # 0
                   /\ answer[access[a].ans].for = a
                   /\ answer[access[a].ans].st = access[a].st

-----------------------------------------------------------------------------
(* The rendezvous as a one-place mailbox.                                  *)

Mail == INSTANCE Mailbox WITH
          Letters <- Answers,
          slot    <- IF att_status = None THEN 0 ELSE owner,
          posted  <- {i \in Answers : answer[i].ok /\ answer[i].st # None},
          read    <- {access[a].ans : a \in Accesses} \ {0}

\* Seen through its status slot the rendezvous is a mailbox: a letter is posted
\* only in the empty box, and read at most once.
ImplementsMailbox == Mail!Spec
=============================================================================
