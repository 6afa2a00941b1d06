------------------------- MODULE AccessStatus_proofs -------------------------
(***************************************************************************)
(* Proofs about the attribute-access rendezvous, for every number of       *)
(* accesses and answers, every set of statuses and every buffer size.      *)
(***************************************************************************)
EXTENDS AccessStatus, TLAPS

Occupied == IF att_status # None THEN 1 ELSE 0

\* The bytes an answer leaves in the value buffer.
Src(i) == IF answer[i].data THEN i ELSE 0

\* Only the last access can be in progress, and `main' says how far it is.
CurrentAccess ==
  /\ main # "idle" => accesses > 0
  /\ main = "pend" => access[accesses].state = "wait"
  /\ main = "copy" => access[accesses].state \in {"answered", "timeout"}
  /\ \A a \in Accesses :
       /\ a > accesses => access[a] = NoAccess
       /\ a <= accesses => access[a].state # "none"
       /\ access[a].state = "wait" => (a = accesses /\ main = "pend")
       /\ access[a].state \in {"wait", "failed", "timeout"} => access[a].ans = 0

\* The stored status belongs to an accepted answer no access has used yet.
OwnerFresh ==
  /\ att_status # None =>
       /\ owner # 0
       /\ answer[owner].ok
       /\ answer[owner].st = att_status
       /\ \A a \in Accesses : access[a].ans # owner
  /\ \A a \in Accesses : access[a].ans # 0 =>
       /\ access[a].ans <= answers
       /\ answer[access[a].ans].st = access[a].st
  /\ \A i \in 1 .. answers : answer[i].for <= accesses
  /\ \A i \in Answers : i > answers => ~answer[i].ok

\* The value buffer goes with the stored status, and with the status that was
\* just read until the access has copied it.
ValueOfStatus ==
  /\ att_status # None => value.src = Src(owner)
  /\ (main = "copy" /\ access[accesses].state = "answered"
       /\ access[accesses].st # None)
     => access[accesses].ans # 0 /\ value.src = Src(access[accesses].ans)

\* With a polite client nothing is left over between accesses.
NothingLeftOver ==
  Polite =>
    /\ main = "idle" => att_status = None
    /\ Tokens = Occupied
    /\ main = "copy" => att_status = None
    /\ main = "pend" =>
         IF att_status = None
         THEN \A i \in 1 .. answers : answer[i].for # accesses
         ELSE answer[owner].for = accesses

IInv ==
  /\ TypeOK
  /\ CurrentAccess
  /\ OwnerFresh
  /\ ValueOfStatus
  /\ NothingLeftOver
  /\ StatusHasToken
  /\ SurplusBounded
  /\ AnswerUsedOnce
  /\ ReadReturnsValueOfItsStatus
  /\ PoliteClientIsHeard

-----------------------------------------------------------------------------
(* Type correctness.                                                       *)

\* Recording the outcome of a wait keeps the history of accesses well typed.
LEMMA ReturnTyped ==
  ASSUME access \in [Accesses -> AccessRecord],
         NEW state \in {"answered", "timeout"}, NEW st \in 0 .. None,
         NEW ans \in 0 .. MaxAnswers,
         ResetAndReturn(state, st, ans)
  PROVE  access' \in [Accesses -> AccessRecord]
<1>1. CASE accesses \in Accesses
  <2>1. access[accesses] \in AccessRecord
    BY <1>1
  <2>2. [access[accesses] EXCEPT !.state = state, !.st = st, !.ans = ans]
          \in AccessRecord
    BY <2>1 DEF AccessRecord
  <2> QED
    BY <2>2 DEF ResetAndReturn
<1>2. CASE accesses \notin Accesses
  BY <1>2 DEF ResetAndReturn
<1> QED
  BY <1>1, <1>2

\* bhd_gatts_access() returns an 8-bit status.
LEMMA ReturnCodesTyped ==
  ASSUME NEW op, NEW st \in 0 .. None
  PROVE  ReturnCodes(op, st) \subseteq 0 .. None
BY DEF ReturnCodes, InsufficientRes, None

\* Every step keeps the variables in their ranges.
LEMMA TypeStep == ASSUME TypeOK, [Next]_vars PROVE TypeOK'
<1> USE AccessAssumption DEF TypeOK, Accesses, Answers, None
<1>1. ASSUME NEW op \in Ops, StartAccess(op) PROVE TypeOK'
  <2>1. Entry(op, "wait", 0) \in AccessRecord
    BY DEF Entry, AccessRecord
  <2>2. access' \in [Accesses -> AccessRecord]
    BY <1>1, <2>1 DEF StartAccess
  <2> QED
    BY <1>1, <2>2 DEF StartAccess, client
<1>2. CASE FailAccess
  <2>1. Entry("write", "failed", Unlikely) \in AccessRecord
    BY DEF Entry, AccessRecord, Ops, Unlikely
  <2>2. access' \in [Accesses -> AccessRecord]
    BY <1>2, <2>1 DEF FailAccess
  <2> QED
    BY <1>2, <2>2 DEF FailAccess, client
<1>3. CASE PendOk
  <2> DEFINE ans == IF att_status = None THEN 0 ELSE owner
  <2>1. ans \in 0 .. MaxAnswers
    OBVIOUS
  <2>2. access' \in [Accesses -> AccessRecord]
    <3>1. ResetAndReturn("answered", att_status, ans)
      BY <1>3 DEF PendOk
    <3> HIDE DEF ans
    <3> QED
      BY <2>1, <3>1, ReturnTyped
  <2> QED
    BY <1>3, <2>2 DEF PendOk, ResetAndReturn, StatusAfterRead, client
<1>4. CASE PendTimeout
  <2>1. access' \in [Accesses -> AccessRecord]
    <3>1. ResetAndReturn("timeout", Unlikely, 0)
      BY <1>4 DEF PendTimeout
    <3>2. Unlikely \in 0 .. None /\ 0 \in 0 .. MaxAnswers
      BY DEF Unlikely
    <3> QED
      BY <3>1, <3>2, ReturnTyped
  <2> QED
    BY <1>4, <2>1 DEF PendTimeout, ResetAndReturn, StatusAfterRead, client
<1>5. CASE FinishAccess
  <2>1. PICK rc \in ReturnCodes(access[accesses].op, access[accesses].st) :
          access' = [access EXCEPT ![accesses].rc = rc,
                                   ![accesses].val = value.src]
    BY <1>5 DEF FinishAccess
  <2>2. ASSUME accesses \in Accesses
        PROVE  access' \in [Accesses -> AccessRecord]
    <3>1. access[accesses] \in AccessRecord
      BY <2>2
    <3>2. rc \in 0 .. None
      <4>1. access[accesses].st \in 0 .. None
        BY <3>1 DEF AccessRecord
      <4> QED
        BY <4>1, ReturnCodesTyped
    <3>3. [access[accesses] EXCEPT !.rc = rc, !.val = value.src] \in AccessRecord
      BY <3>1, <3>2 DEF AccessRecord
    <3> QED
      BY <2>1, <3>3
  <2>3. access' \in [Accesses -> AccessRecord]
    BY <2>1, <2>2
  <2> QED
    BY <1>5, <2>3 DEF FinishAccess, client
<1>6. ASSUME NEW for \in Announced \union {0}, NEW st \in AttStatuses,
             NEW d \in BOOLEAN, SetResult(for, st, d)
      PROVE TypeOK'
  <2>1. for \in 0 .. MaxAccesses
    BY DEF Announced
  <2>2. PICK n \in Lens(d) :
          value' = [src |-> IF d THEN answers + 1 ELSE 0, len |-> Clip(n)]
    BY <1>6 DEF SetResult, Store
  <2>3. Clip(n) \in 0 .. MaxLen
    BY DEF Clip, Lens
  <2>4. answer' \in [Answers -> AnswerRecord]
    BY <1>6, <2>1 DEF SetResult, AnswerRecord
  <2> QED
    BY <1>6, <2>2, <2>3, <2>4 DEF SetResult, Store, waiter
<1>7. ASSUME NEW for \in Announced \union {0}, NEW st \in AttStatuses,
             NEW d \in BOOLEAN, RejectResult(for, st, d)
      PROVE TypeOK'
  <2>1. for \in 0 .. MaxAccesses
    BY DEF Announced
  <2> QED
    BY <1>7, <2>1 DEF RejectResult, AnswerRecord, waiter
<1>8. CASE ReleaseSem
  BY <1>8 DEF ReleaseSem, waiter, client
<1>9. CASE UNCHANGED vars
  BY <1>9 DEF vars, waiter, client
<1> QED
  <2> HIDE DEF TypeOK, Accesses, Answers, None
  <2> QED
    BY <1>1, <1>2, <1>3, <1>4, <1>5, <1>6, <1>7, <1>8, <1>9 DEF Next

\* bhd_gatts_access() and bhd_gatts_set_access_result() keep every variable in
\* its range, whatever the client sends; in particular the value length, though
\* it may come from uninitialized memory, never exceeds the value buffer.
THEOREM TypeCorrect == Spec => []TypeOK
<1>1. Init => TypeOK
  BY AccessAssumption
     DEF Init, InitTokens, TypeOK, AccessRecord, AnswerRecord, NoAccess, Entry,
         NoAnswer, Ops, Accesses, Answers, None
<1>2. TypeOK /\ [Next]_vars => TypeOK'
  BY TypeStep
<1> QED
  BY <1>1, <1>2, PTL DEF Spec

-----------------------------------------------------------------------------
(* Safety: IInv is inductive.  One lemma per action.                       *)

\* The client answers only what was announced to it.
LEMMA AnswerForBound ==
  ASSUME IInv PROVE \A i \in 1 .. answers : answer[i].for \in 0 .. accesses
<1> SUFFICES ASSUME NEW i \in 1 .. answers PROVE answer[i].for \in 0 .. accesses
  OBVIOUS
<1>1. answer[i] \in AnswerRecord
  BY AccessAssumption DEF IInv, TypeOK, Answers
<1>2. answer[i].for \in Nat /\ answer[i].for <= accesses /\ accesses \in Nat
  BY <1>1, AccessAssumption DEF AnswerRecord, IInv, OwnerFresh, TypeOK
<1> QED
  BY <1>2

\* Opening an access, whether it waits or fails at once.
LEMMA OpenInv ==
  ASSUME IInv, TypeOK', NEW e,
         (\E op \in Ops : StartAccess(op) /\ e = Entry(op, "wait", 0))
           \/ (FailAccess /\ e = Entry("write", "failed", Unlikely))
  PROVE  IInv'
<1> DEFINE n == accesses + 1
<1>1. /\ n \in Accesses /\ accesses \in Nat /\ accesses' = n /\ main = "idle"
      /\ access' = [access EXCEPT ![n] = e]
      /\ access \in [Accesses -> AccessRecord]
      /\ UNCHANGED <<sem, att_status, value, setter, answers, answer, owner>>
      /\ answers \in Nat /\ MaxAccesses \in Nat
  BY AccessAssumption
     DEF StartAccess, FailAccess, IInv, TypeOK, Accesses, client
<1>2. /\ e.ans = 0
      /\ \/ main' = "pend" /\ e.state = "wait"
         \/ main' = "idle" /\ e.state = "failed"
  <2>1. CASE \E op \in Ops : StartAccess(op) /\ e = Entry(op, "wait", 0)
    BY <2>1 DEF StartAccess, Entry
  <2>2. CASE FailAccess /\ e = Entry("write", "failed", Unlikely)
    BY <2>2 DEF FailAccess, Entry
  <2> QED
    BY <2>1, <2>2
<1>3. \A a \in Accesses : access'[a] = IF a = n THEN e ELSE access[a]
  BY <1>1
<1>4. \A a \in 1 .. n : a \in Accesses /\ (a # n => a \in 1 .. accesses)
  BY <1>1 DEF Accesses
<1> HIDE DEF n
<1>5. CurrentAccess'
  BY <1>1, <1>2, <1>3 DEF IInv, CurrentAccess, Accesses, n
<1>6. OwnerFresh'
  <2>1. \A a \in Accesses : access'[a].ans = access[a].ans
                              /\ (access[a].ans # 0 => access'[a].st = access[a].st)
    <3>1. access[n].ans = 0
      BY <1>1 DEF IInv, CurrentAccess, NoAccess, Entry, n
    <3> QED
      BY <1>2, <1>3, <3>1
  <2>2. \A i \in 1 .. answers : answer[i].for <= accesses + 1
    BY <1>1, AnswerForBound
  <2> QED
    BY <1>1, <2>1, <2>2 DEF IInv, OwnerFresh, n
<1>7. ValueOfStatus'
  BY <1>1, <1>2 DEF IInv, ValueOfStatus, Src
<1>8. Polite' => Polite
  BY <1>1, <1>3, <1>4 DEF Polite, OneAnswerEach, Accesses, n
<1>9. NothingLeftOver'
  <2> SUFFICES ASSUME Polite' PROVE NothingLeftOver'
    BY DEF NothingLeftOver
  <2>1. att_status = None /\ Tokens = Occupied
    BY <1>1, <1>8 DEF IInv, NothingLeftOver
  <2>2. \A i \in 1 .. answers : answer[i].for <= accesses /\ answer[i].for \in Nat
    BY <1>1, AnswerForBound
  <2>3. \A i \in 1 .. answers : answer[i].for # accesses'
    BY <1>1, <2>2 DEF n
  <2> QED
    BY <1>1, <1>2, <2>1, <2>3 DEF NothingLeftOver, Tokens, Occupied
<1>10. StatusHasToken' /\ SurplusBounded'
  BY <1>1 DEF IInv, StatusHasToken, SurplusBounded, Tokens
<1>11. AnswerUsedOnce'
  BY <1>1, <1>2, <1>3, <1>4 DEF IInv, AnswerUsedOnce
<1>12. ReadReturnsValueOfItsStatus'
  BY <1>1, <1>2, <1>3, <1>4 DEF IInv, ReadReturnsValueOfItsStatus
<1>13. PoliteClientIsHeard'
  BY <1>1, <1>2, <1>3, <1>4, <1>8 DEF IInv, PoliteClientIsHeard
<1> QED
  BY <1>5, <1>6, <1>7, <1>9, <1>10, <1>11, <1>12, <1>13 DEF IInv


\* The end of a wait, with a token or without.
LEMMA PendInv ==
  ASSUME IInv, TypeOK', NEW state, NEW st, NEW ans, main = "pend",
         ResetAndReturn(state, st, ans),
         \/ /\ sem > 0 /\ sem' = sem - 1
            /\ state = "answered" /\ st = att_status
            /\ ans = IF att_status = None THEN 0 ELSE owner
         \/ /\ sem = 0 /\ sem' = sem
            /\ state = "timeout" /\ ans = 0
  PROVE  IInv'
<1> DEFINE n == accesses
<1>1. /\ n \in Accesses /\ n \in Nat /\ main' = "copy" /\ att_status' = None
      /\ access' = [access EXCEPT ![n].state = state, ![n].st = st, ![n].ans = ans]
      /\ access \in [Accesses -> AccessRecord]
      /\ access[n].state = "wait" /\ access[n].ans = 0
      /\ sem \in Nat /\ answers \in Nat /\ owner \in 0 .. answers
      /\ UNCHANGED <<value, setter, accesses, answers, answer, owner>>
  BY AccessAssumption
     DEF IInv, CurrentAccess, TypeOK, Accesses, ResetAndReturn, StatusAfterRead, client
<1>2. /\ access'[n].state = state /\ access'[n].st = st /\ access'[n].ans = ans
      /\ \A a \in Accesses : a # n => access'[a] = access[a]
  <2>1. access[n] \in AccessRecord
    BY <1>1
  <2> QED
    BY <1>1, <2>1 DEF AccessRecord
<1>3. \A a \in 1 .. n : a \in Accesses
  BY <1>1, AccessAssumption DEF Accesses
<1>4. ans # 0 => /\ ans = owner /\ att_status # None /\ st = att_status
                 /\ state = "answered"
  OBVIOUS
<1>5. CurrentAccess'
  BY <1>1, <1>2, <1>4 DEF IInv, CurrentAccess, NoAccess, Entry, Accesses
<1>6. OwnerFresh'
  BY <1>1, <1>2, <1>4 DEF IInv, OwnerFresh
<1>7. ValueOfStatus'
  BY <1>1, <1>2 DEF IInv, ValueOfStatus, OwnerFresh, Src
<1>8. Polite' => Polite /\ state = "answered"
  BY <1>1, <1>2, <1>3 DEF Polite, OneAnswerEach, Accesses
<1>9. Polite' => /\ att_status # None /\ answer[owner].for = accesses
                 /\ Tokens = 1
  BY <1>1, <1>8 DEF IInv, NothingLeftOver, Tokens, Occupied
<1>10. NothingLeftOver'
  BY <1>1, <1>8, <1>9 DEF NothingLeftOver, Tokens, Occupied
<1>11. StatusHasToken' /\ SurplusBounded'
  BY <1>1 DEF IInv, StatusHasToken, SurplusBounded, Tokens
<1>12. AnswerUsedOnce'
  BY <1>1, <1>2, <1>3, <1>4 DEF IInv, AnswerUsedOnce, OwnerFresh
<1>13. ReadReturnsValueOfItsStatus'
  BY <1>1, <1>2, <1>3 DEF IInv, ReadReturnsValueOfItsStatus
<1>14. PoliteClientIsHeard'
  BY <1>1, <1>2, <1>3, <1>8, <1>9 DEF IInv, PoliteClientIsHeard, OwnerFresh
<1> QED
  BY <1>5, <1>6, <1>7, <1>10, <1>11, <1>12, <1>13, <1>14 DEF IInv

\* The access returns; a read has copied the value buffer.
LEMMA FinishInv == ASSUME IInv, TypeOK', FinishAccess PROVE IInv'
<1> DEFINE n == accesses
<1>1. PICK rc \in ReturnCodes(access[n].op, access[n].st) :
        access' = [access EXCEPT ![n].rc = rc, ![n].val = value.src]
  BY DEF FinishAccess
<1>2. /\ n \in Accesses /\ n \in Nat /\ main = "copy" /\ main' = "idle"
      /\ access \in [Accesses -> AccessRecord]
      /\ access[n].state \in {"answered", "timeout"}
      /\ UNCHANGED <<sem, att_status, value, setter, accesses, answers, answer, owner>>
  BY AccessAssumption DEF IInv, CurrentAccess, TypeOK, Accesses, FinishAccess, client
<1>3. /\ access'[n].rc = rc /\ access'[n].val = value.src
      /\ \A a \in Accesses :
           /\ access'[a].op = access[a].op /\ access'[a].state = access[a].state
           /\ access'[a].st = access[a].st /\ access'[a].ans = access[a].ans
           /\ a # n => access'[a] = access[a]
  <2>1. \A a \in Accesses : access[a] \in AccessRecord
    BY <1>2
  <2> QED
    BY <1>1, <1>2, <2>1 DEF AccessRecord
<1>4. \A a \in 1 .. n : a \in Accesses
  BY <1>2, AccessAssumption DEF Accesses
<1>5. rc = 0 => access[n].st = 0
  BY DEF ReturnCodes
<1>6. CurrentAccess'
  BY <1>2, <1>3 DEF IInv, CurrentAccess, NoAccess, Entry, Accesses
<1>7. OwnerFresh' /\ ValueOfStatus'
  BY <1>2, <1>3 DEF IInv, OwnerFresh, ValueOfStatus, Src
<1>8. Polite' => Polite
  BY <1>2, <1>3, <1>4 DEF Polite, OneAnswerEach
<1>9. NothingLeftOver'
  BY <1>2, <1>8 DEF IInv, NothingLeftOver, Tokens, Occupied
<1>10. StatusHasToken' /\ SurplusBounded' /\ AnswerUsedOnce'
  BY <1>2, <1>3, <1>4 DEF IInv, StatusHasToken, SurplusBounded, AnswerUsedOnce, Tokens
<1>11. ReadReturnsValueOfItsStatus'
  <2>1. (access[n].state = "answered" /\ rc = 0)
          => access[n].ans # 0 /\ value.src = Src(access[n].ans)
    BY <1>2, <1>5 DEF IInv, ValueOfStatus, None
  <2> QED
    BY <1>2, <1>3, <1>4, <2>1 DEF IInv, ReadReturnsValueOfItsStatus, Src
<1>12. PoliteClientIsHeard'
  BY <1>2, <1>3, <1>4, <1>8 DEF IInv, PoliteClientIsHeard
<1> QED
  BY <1>6, <1>7, <1>9, <1>10, <1>11, <1>12 DEF IInv

\* The critical section of bhd_gatts_set_access_result(), slot free or taken.
LEMMA AnswerInv ==
  ASSUME IInv, TypeOK', NEW for \in Announced \union {0}, NEW st \in AttStatuses,
         NEW d \in BOOLEAN, SetResult(for, st, d) \/ RejectResult(for, st, d)
  PROVE  IInv'
<1> DEFINE m == answers + 1
           ok == att_status = None
           new == answer'[m]
<1>1. /\ m \in Answers /\ answers \in Nat /\ answers' = m
      /\ main # "copy" /\ setter = "idle"
      /\ UNCHANGED <<sem, main, accesses, access>>
      /\ answer \in [Answers -> AnswerRecord] /\ owner \in 0 .. answers
      /\ accesses \in Nat /\ sem \in Nat
  <2>1. CASE SetResult(for, st, d)
    BY <2>1, AccessAssumption
       DEF IInv, TypeOK, Answers, SetResult, SlotFree, MainBlocked, waiter
  <2>2. CASE RejectResult(for, st, d)
    BY <2>2, AccessAssumption
       DEF IInv, TypeOK, Answers, RejectResult, SlotFree, MainBlocked, waiter
  <2> QED
    BY <2>1, <2>2
<1>2. ok => /\ att_status' = st /\ owner' = m /\ setter' = "accepted"
            /\ value'.src = IF d THEN m ELSE 0
  BY DEF SetResult, RejectResult, SlotFree, Store
<1>3. ~ok => UNCHANGED <<att_status, owner, setter, value>>
  BY DEF SetResult, RejectResult, SlotFree
<1>4. /\ new.for = for /\ new.st = st /\ new.data = d /\ (ok => new.ok)
      /\ \A i \in 1 .. answers : i \in Answers /\ i # m /\ answer'[i] = answer[i]
      /\ \A i \in Answers : i # m => answer'[i] = answer[i]
      /\ \A i \in 1 .. m : i \in 1 .. answers \/ i = m
  <2>1. /\ new.for = for /\ new.st = st /\ new.data = d /\ (ok => new.ok)
        /\ \A i \in Answers : i # m => answer'[i] = answer[i]
    <3>1. CASE SetResult(for, st, d)
      BY <1>1, <3>1 DEF SetResult
    <3>2. CASE RejectResult(for, st, d)
      BY <1>1, <3>2 DEF RejectResult, SlotFree
    <3> QED
      BY <3>1, <3>2
  <2> QED
    BY <1>1, <2>1, AccessAssumption DEF Answers, IInv, TypeOK
<1>5. for \in 0 .. accesses
  BY <1>1 DEF Announced
<1>6. \A a \in Accesses : access[a].ans \in 0 .. answers
  <2>1. \A a \in Accesses : access[a].ans \in 0 .. MaxAnswers
    BY DEF IInv, TypeOK, AccessRecord
  <2> QED
    BY <1>1, <2>1, AccessAssumption DEF IInv, OwnerFresh
<1>18. \A a \in 1 .. accesses :
         a \in Accesses /\ (access[a].ans # 0
                            => answer'[access[a].ans] = answer[access[a].ans])
  BY <1>1, <1>4, <1>6, AccessAssumption DEF IInv, TypeOK, Accesses
<1> HIDE DEF m, new
<1>7. CurrentAccess'
  BY <1>1 DEF IInv, CurrentAccess, NoAccess, Entry
<1>8. OwnerFresh'
  <2>1. (att_status # None =>
           /\ owner # 0 /\ answer[owner].ok /\ answer[owner].st = att_status
           /\ \A a \in Accesses : access[a].ans # owner)'
    <3>1. CASE ok
      BY <1>1, <1>2, <1>4, <1>6, <3>1 DEF m, new
    <3>2. CASE ~ok
      BY <1>1, <1>3, <1>4, <3>2 DEF IInv, OwnerFresh
    <3> QED
      BY <3>1, <3>2
  <2>2. \A a \in Accesses : access[a].ans # 0 =>
          /\ access[a].ans <= answers + 1
          /\ answer'[access[a].ans].st = access[a].st
    <3> SUFFICES ASSUME NEW a \in Accesses, access[a].ans # 0
                 PROVE  /\ access[a].ans <= answers + 1
                        /\ answer'[access[a].ans].st = access[a].st
      OBVIOUS
    <3>1. access[a].ans \in 1 .. answers
      BY <1>1, <1>6
    <3> QED
      BY <1>1, <1>4, <3>1 DEF IInv, OwnerFresh
  <2>3. \A i \in 1 .. m : answer'[i].for <= accesses
    BY <1>1, <1>4, <1>5 DEF IInv, OwnerFresh, new
  <2>4. \A i \in Answers : i > m => ~answer'[i].ok
    <3>1. \A i \in Answers : i > m => i > answers /\ i # m
      BY <1>1 DEF m, Answers
    <3>2. \A i \in Answers : i > answers => ~answer[i].ok
      BY DEF IInv, OwnerFresh
    <3> QED
      BY <1>4, <3>1, <3>2
  <2> QED
    BY <1>1, <2>1, <2>2, <2>3, <2>4 DEF OwnerFresh, m
<1>9. ValueOfStatus'
  BY <1>1, <1>2, <1>3, <1>4 DEF IInv, ValueOfStatus, OwnerFresh, Src, new
<1>10. Polite' => Polite /\ for # 0 /\ st # None
                  /\ \A i \in 1 .. answers : answer[i].for # for
  BY <1>1, <1>4 DEF Polite, OneAnswerEach, new, m
<1>11. Polite' => main = "pend" /\ for = accesses
  <2> SUFFICES ASSUME Polite' PROVE main = "pend" /\ for = accesses
    OBVIOUS
  <2>1. for \in 1 .. accesses /\ for \in Accesses
    BY <1>1, <1>5, <1>10, AccessAssumption DEF IInv, TypeOK, Accesses
  <2>2. access[for].state \in {"none", "wait", "answered", "timeout", "failed"}
    BY <2>1 DEF IInv, TypeOK, AccessRecord
  <2>3. access[for].state \notin {"none", "failed", "timeout"}
    BY <1>5, <1>10, <2>1 DEF Announced, Polite, OneAnswerEach, IInv, CurrentAccess
  <2>4. access[for].state # "answered"
    <3>1. access[for].state = "answered" =>
            access[for].ans # 0 /\ answer[access[for].ans].for = for
      BY <1>10, <2>1 DEF IInv, PoliteClientIsHeard
    <3> QED
      BY <1>1, <1>6, <1>10, <2>1, <3>1
  <2> QED
    BY <2>1, <2>2, <2>3, <2>4 DEF IInv, CurrentAccess
<1>12. NothingLeftOver'
  BY <1>1, <1>2, <1>3, <1>4, <1>10, <1>11
     DEF IInv, NothingLeftOver, OwnerFresh, Tokens, Occupied, new
<1>13. StatusHasToken'
  BY <1>1, <1>2, <1>3 DEF IInv, StatusHasToken, Tokens
<1>14. SurplusBounded'
  BY <1>1, <1>2, <1>3, <1>4 DEF IInv, SurplusBounded, Tokens, new, m
<1>15. AnswerUsedOnce'
  BY <1>1 DEF IInv, AnswerUsedOnce
<1>16. ReadReturnsValueOfItsStatus'
  BY <1>1, <1>18 DEF IInv, ReadReturnsValueOfItsStatus
<1>17. PoliteClientIsHeard'
  BY <1>1, <1>10, <1>18 DEF IInv, PoliteClientIsHeard
<1> QED
  BY <1>7, <1>8, <1>9, <1>12, <1>13, <1>14, <1>15, <1>16, <1>17 DEF IInv

\* os_sem_release(): the token that was on its way arrives.
LEMMA ReleaseInv == ASSUME IInv, TypeOK', ReleaseSem PROVE IInv'
<1>1. /\ setter = "accepted" /\ setter' = "idle" /\ sem' = sem + 1 /\ sem \in Nat
      /\ UNCHANGED <<att_status, value, main, accesses, access, answers, answer, owner>>
  BY DEF IInv, TypeOK, ReleaseSem, waiter, client
<1> QED
  BY <1>1
     DEF IInv, CurrentAccess, NoAccess, Entry, OwnerFresh, ValueOfStatus, Src,
         NothingLeftOver, Polite, OneAnswerEach, StatusHasToken, SurplusBounded, AnswerUsedOnce,
         ReadReturnsValueOfItsStatus, PoliteClientIsHeard, Tokens, Occupied

LEMMA Inductive == ASSUME IInv, [Next]_vars PROVE IInv'
<1>0. TypeOK'
  BY TypeStep DEF IInv
<1>1. ASSUME NEW op \in Ops, StartAccess(op) PROVE IInv'
  BY <1>0, <1>1, OpenInv
<1>2. CASE FailAccess
  BY <1>0, <1>2, OpenInv
<1>3. CASE PendOk
  BY <1>0, <1>3, PendInv DEF PendOk
<1>4. CASE PendTimeout
  BY <1>0, <1>4, PendInv DEF PendTimeout
<1>5. CASE FinishAccess
  BY <1>0, <1>5, FinishInv
<1>6. ASSUME NEW for \in Announced \union {0}, NEW st \in AttStatuses,
             NEW d \in BOOLEAN, SetResult(for, st, d) \/ RejectResult(for, st, d)
      PROVE IInv'
  BY <1>0, <1>6, AnswerInv
<1>7. CASE ReleaseSem
  BY <1>0, <1>7, ReleaseInv
<1>8. CASE UNCHANGED vars
  BY <1>8
     DEF vars, waiter, client, IInv, TypeOK, CurrentAccess, NoAccess, Entry, OwnerFresh,
         ValueOfStatus, Src, NothingLeftOver, Polite, OneAnswerEach, StatusHasToken, SurplusBounded,
         AnswerUsedOnce, ReadReturnsValueOfItsStatus, PoliteClientIsHeard, Tokens, Occupied
<1> QED
  BY <1>1, <1>2, <1>3, <1>4, <1>5, <1>6, <1>7, <1>8 DEF Next

LEMMA InitInv == Init => IInv
<1> SUFFICES ASSUME Init PROVE IInv
  OBVIOUS
<1>1. TypeOK
  BY AccessAssumption
     DEF Init, InitTokens, TypeOK, AccessRecord, AnswerRecord, NoAccess, Entry,
         NoAnswer, Ops, Accesses, Answers, None
<1>2. OwnerFresh
  <2>1. \A i \in Answers : ~answer[i].ok
    BY DEF Init, NoAnswer
  <2>2. \A i \in 1 .. answers : answer[i].for <= accesses
    BY DEF Init
  <2> QED
    BY <2>1, <2>2 DEF Init, OwnerFresh, NoAccess, Entry
<1> QED
  BY <1>1, <1>2, AccessAssumption
     DEF Init, InitTokens, IInv, CurrentAccess, NoAccess, Entry, Accesses,
         ValueOfStatus, Src, NothingLeftOver, Polite, OneAnswerEach, StatusHasToken, SurplusBounded,
         AnswerUsedOnce, ReadReturnsValueOfItsStatus, PoliteClientIsHeard, Tokens, Occupied

LEMMA InvariantHolds == Spec => []IInv
BY InitInv, Inductive, PTL DEF Spec

-----------------------------------------------------------------------------
(* The theorems.                                                           *)

\* The token accounting of bhd_gatts_set_access_result() and
\* bhd_gatts_wait_for_access_status(): no stored status without a token, and
\* never more than one token beyond the stored status.
THEOREM TokenAccounting == Spec => []TokensFollowStatuses
<1>1. IInv => TokensFollowStatuses
  BY DEF IInv, TokensFollowStatuses
<1> QED
  BY <1>1, InvariantHolds, PTL

\* An answer of the client decides at most one access.
THEOREM AnswersUsedOnce == Spec => []AnswerUsedOnce
<1>1. IInv => AnswerUsedOnce
  BY DEF IInv
<1> QED
  BY <1>1, InvariantHolds, PTL

\* A successful read returns the bytes of the answer that made it succeed.
THEOREM ReadsMatchStatus == Spec => []ReadReturnsValueOfItsStatus
<1>1. IInv => ReadReturnsValueOfItsStatus
  BY DEF IInv
<1> QED
  BY <1>1, InvariantHolds, PTL

\* A client that answers every access once, in time, and never with 255 is
\* heard: each access returns the status given for it.
THEOREM PoliteClientsAreHeard == Spec => []PoliteClientIsHeard
<1>1. IInv => PoliteClientIsHeard
  BY DEF IInv
<1> QED
  BY <1>1, InvariantHolds, PTL

\* A step that touches neither the status slot nor the answers is a stutter.
LEMMA MailStutter ==
  ASSUME UNCHANGED <<att_status, answer, owner>>,
         \A a \in Accesses : access'[a].ans = access[a].ans
  PROVE  UNCHANGED Mail!mailVars
BY DEF Mail!mailVars

\* The rendezvous implements the one-place mailbox.
THEOREM MailboxRefinement == Spec => ImplementsMailbox
<1>1. Init => Mail!Init
  BY DEF Init, Mail!Init, NoAccess, Entry, NoAnswer
<1>2. ASSUME IInv, IInv', [Next]_vars PROVE [Mail!Next]_(Mail!mailVars)
  <2> USE AccessAssumption
  <2>1. access \in [Accesses -> AccessRecord] /\ accesses \in 0 .. MaxAccesses
    BY <1>2 DEF IInv, TypeOK
  <2>2. ASSUME NEW op \in Ops, StartAccess(op) PROVE UNCHANGED Mail!mailVars
    <3>1. \A a \in Accesses : access'[a].ans = access[a].ans
      BY <1>2, <2>1, <2>2
         DEF StartAccess, IInv, CurrentAccess, NoAccess, Entry, Accesses
    <3> QED
      BY <2>2, <3>1, MailStutter DEF StartAccess, client
  <2>3. ASSUME FailAccess PROVE UNCHANGED Mail!mailVars
    <3>1. \A a \in Accesses : access'[a].ans = access[a].ans
      BY <1>2, <2>1, <2>3
         DEF FailAccess, IInv, CurrentAccess, NoAccess, Entry, Accesses
    <3> QED
      BY <2>3, <3>1, MailStutter DEF FailAccess, client
  <2>4. ASSUME FinishAccess PROVE UNCHANGED Mail!mailVars
    <3>1. \A a \in Accesses : access[a] \in AccessRecord
      BY <2>1
    <3>2. \A a \in Accesses : access'[a].ans = access[a].ans
      BY <2>1, <2>4, <3>1 DEF FinishAccess, AccessRecord
    <3> QED
      BY <2>4, <3>2, MailStutter DEF FinishAccess, client
  <2>5. ASSUME ReleaseSem PROVE UNCHANGED Mail!mailVars
    BY <2>5, MailStutter DEF ReleaseSem, waiter, client
  <2>6. ASSUME NEW state, NEW st, NEW ans, ResetAndReturn(state, st, ans),
               main = "pend"
        PROVE  /\ att_status' = None /\ UNCHANGED <<answer, owner>>
               /\ accesses \in Accesses /\ access[accesses].ans = 0
               /\ access'[accesses].ans = ans
               /\ \A a \in Accesses : a # accesses => access'[a].ans = access[a].ans
    <3>1. accesses \in Accesses /\ access[accesses].ans = 0
      BY <1>2, <2>6 DEF IInv, CurrentAccess, TypeOK, Accesses
    <3>2. access[accesses] \in AccessRecord
      BY <2>1, <3>1
    <3> QED
      BY <2>1, <2>6, <3>1, <3>2
         DEF ResetAndReturn, StatusAfterRead, client, AccessRecord
  <2>7. ASSUME PendOk PROVE [Mail!Next]_(Mail!mailVars)
    <3> DEFINE ans == IF att_status = None THEN 0 ELSE owner
    <3>1. ResetAndReturn("answered", att_status, ans) /\ main = "pend"
      BY <2>7 DEF PendOk
    <3>2. /\ att_status' = None /\ UNCHANGED <<answer, owner>>
          /\ accesses \in Accesses /\ access[accesses].ans = 0
          /\ access'[accesses].ans = ans
          /\ \A a \in Accesses : a # accesses => access'[a].ans = access[a].ans
      BY <2>6, <3>1
    <3>3. CASE att_status = None
      BY <3>2, <3>3, MailStutter
    <3>4. CASE att_status # None
      <4>1. owner # 0 /\ \A a \in Accesses : access[a].ans # owner
        BY <1>2, <3>4 DEF IInv, OwnerFresh
      <4>2. {access'[a].ans : a \in Accesses} \ {0}
              = ({access[a].ans : a \in Accesses} \ {0}) \union {owner}
        BY <3>2, <3>4, <4>1
      <4>3. Mail!Read
        BY <3>2, <3>4, <4>1, <4>2 DEF Mail!Read
      <4> QED
        BY <4>3 DEF Mail!Next
    <3> QED
      BY <3>3, <3>4
  <2>8. ASSUME PendTimeout PROVE [Mail!Next]_(Mail!mailVars)
    <3>1. ResetAndReturn("timeout", Unlikely, 0) /\ main = "pend"
      BY <2>8 DEF PendTimeout
    <3>2. /\ att_status' = None /\ UNCHANGED <<answer, owner>>
          /\ \A a \in Accesses : access'[a].ans = access[a].ans
      BY <2>6, <3>1
    <3>3. CASE att_status = None
      BY <3>2, <3>3, MailStutter
    <3>4. CASE att_status # None
      <4>1. owner # 0
        BY <1>2, <3>4 DEF IInv, OwnerFresh
      <4>2. Mail!Discard
        BY <3>2, <3>4, <4>1 DEF Mail!Discard
      <4> QED
        BY <4>2 DEF Mail!Next
    <3> QED
      BY <3>3, <3>4
  <2>9. ASSUME NEW for \in Announced \union {0}, NEW st \in AttStatuses,
               NEW d \in BOOLEAN, SetResult(for, st, d)
        PROVE  [Mail!Next]_(Mail!mailVars)
    <3> DEFINE m == answers + 1
    <3>1. /\ m \in Answers /\ att_status = None /\ ~answer[m].ok
          /\ att_status' = st /\ owner' = m /\ UNCHANGED access
      BY <1>2, <2>9
         DEF SetResult, SlotFree, Store, waiter, IInv, TypeOK, Answers, OwnerFresh
    <3>2. /\ answer'[m].ok /\ answer'[m].st = st
          /\ \A i \in Answers : i # m => answer'[i] = answer[i]
      BY <1>2, <2>9, <3>1 DEF SetResult, IInv, TypeOK
    <3> HIDE DEF m
    <3>3. m # 0
      BY <3>1 DEF Answers
    <3>4. CASE st = None
      BY <3>1, <3>2, <3>4 DEF Mail!mailVars
    <3>5. CASE st # None
      <4>1. {i \in Answers : answer'[i].ok /\ answer'[i].st # None}
              = {i \in Answers : answer[i].ok /\ answer[i].st # None} \union {m}
        BY <3>1, <3>2, <3>5
      <4>2. m \notin {i \in Answers : answer[i].ok /\ answer[i].st # None}
        BY <3>1
      <4>3. PICK l \in Answers : l = m
        BY <3>1
      <4>4. Mail!Post(l)
        BY <3>1, <3>3, <3>5, <4>1, <4>2, <4>3 DEF Mail!Post
      <4> QED
        BY <4>4 DEF Mail!Next
    <3> QED
      BY <3>4, <3>5
  <2>10. ASSUME NEW for \in Announced \union {0}, NEW st \in AttStatuses,
                NEW d \in BOOLEAN, RejectResult(for, st, d)
         PROVE  UNCHANGED Mail!mailVars
    <3> DEFINE m == answers + 1
    <3>1. /\ m \in Answers /\ ~answer[m].ok
          /\ UNCHANGED <<access, att_status, owner>>
      BY <1>2, <2>10 DEF RejectResult, waiter, IInv, TypeOK, Answers, OwnerFresh
    <3>2. /\ ~answer'[m].ok
          /\ \A i \in Answers : i # m => answer'[i] = answer[i]
      BY <1>2, <2>10, <3>1 DEF RejectResult, IInv, TypeOK
    <3> HIDE DEF m
    <3> QED
      BY <3>1, <3>2 DEF Mail!mailVars
  <2>11. CASE UNCHANGED vars
    BY <2>11, MailStutter DEF vars, waiter, client
  <2> QED
    BY <1>2, <2>2, <2>3, <2>4, <2>5, <2>7, <2>8, <2>9, <2>10, <2>11 DEF Next
<1> QED
  BY <1>1, <1>2, InvariantHolds, PTL DEF Spec, ImplementsMailbox, Mail!Spec
=============================================================================
