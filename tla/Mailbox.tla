------------------------------- MODULE Mailbox -------------------------------
(***************************************************************************)
(* A one-place mailbox: what bhd_gatts.c promises of the answer to an      *)
(* attribute access.  A letter is posted into the empty box, and leaves it *)
(* by being read, once, or by being thrown away unread.                    *)
(***************************************************************************)
EXTENDS Naturals

CONSTANT Letters       \* a set of positive numbers

VARIABLES slot,        \* the letter in the box, 0 if it is empty
          posted,      \* the letters posted so far
          read         \* the letters read so far

mailVars == <<slot, posted, read>>

Init == slot = 0 /\ posted = {} /\ read = {}

Post(l) ==
  /\ slot = 0
  /\ l \notin posted
  /\ slot' = l
  /\ posted' = posted \union {l}
  /\ UNCHANGED read

Read ==
  /\ slot # 0
  /\ slot \notin read
  /\ read' = read \union {slot}
  /\ slot' = 0
  /\ UNCHANGED posted

Discard ==
  /\ slot # 0
  /\ slot' = 0
  /\ UNCHANGED <<posted, read>>

Next == (\E l \in Letters : Post(l)) \/ Read \/ Discard

Spec == Init /\ [][Next]_mailVars
=============================================================================
