------------------------ MODULE GattsRegistry_proofs ------------------------
(***************************************************************************)
(* Proofs about the tables of bhd_gatts.c, for tables of every size and    *)
(* requests of every shape.                                                *)
(*                                                                         *)
(* What a loop of the code has done is shown by induction over its rounds  *)
(* (NatSetInduction), for one service, characteristic or descriptor after  *)
(* the other: each leaves the entries before it alone, writes its own, and *)
(* touches nothing behind it.  RegInv then says what the tables look like  *)
(* between two requests.                                                   *)
(***************************************************************************)
EXTENDS GattsRegistry, WellFoundedInduction, TLAPS

-----------------------------------------------------------------------------
(* Induction, and the recursive functions of the model.                    *)

\* What holds of 0, and of n + 1 whenever it holds of n, holds of every number.
LEMMA NatSetInduction ==
  ASSUME NEW S, 0 \in S, \A n \in S : n \in Nat => n + 1 \in S
  PROVE  Nat \subseteq S
<1> SUFFICES ASSUME Nat \ S # {} PROVE FALSE
  OBVIOUS
<1> DEFINE Less == OpToRel(<, Nat)
<1>1. PICK x \in Nat \ S : \A y \in Nat \ S : <<y, x>> \notin Less
  <2>1. IsWellFoundedOn(Less, Nat)
    BY NatLessThanWellFounded
  <2> HIDE DEF Less
  <2> QED
    BY <2>1, WFMin
<1>2. x - 1 \in Nat \ S
  <2>0. x \in Nat /\ x # 0
    OBVIOUS
  <2>1. x - 1 \in Nat /\ x = (x - 1) + 1
    BY <2>0
  <2> QED
    BY <1>1, <2>1
<1>3. <<x - 1, x>> \in Less
  BY <1>2 DEF OpToRel
<1> QED
  BY <1>1, <1>2, <1>3
\* The same, up to N.
LEMMA UpTo ==
  ASSUME NEW N \in Nat, NEW S, 0 \in S, \A n \in 0 .. N - 1 : n \in S => n + 1 \in S
  PROVE  \A n \in 0 .. N : n \in S
<1> DEFINE T == {n \in Nat : n <= N => n \in S}
<1>1. 0 \in T
  OBVIOUS
<1>2. ASSUME NEW n \in T
      PROVE  n + 1 \in T
  <2>1. n \in Nat /\ n + 1 \in Nat /\ (n <= N => n \in S)
    OBVIOUS
  <2>2. ASSUME n + 1 <= N
        PROVE  n + 1 \in S
    <3>1. n \in 0 .. N - 1 /\ n \in S
      BY <2>1, <2>2
    <3> QED
      BY <3>1
  <2> QED
    BY <2>1, <2>2
<1>3. Nat \subseteq T
  <2> HIDE DEF T
  <2> QED
    BY <1>1, <1>2, NatSetInduction
<1> QED
  BY <1>3

\* Sums grow.
LEMMA Grows ==
  ASSUME NEW N \in Nat, NEW f, f[0] \in Nat,
         \A n \in 1 .. N : f[n - 1] \in Nat => f[n] \in Nat /\ f[n - 1] <= f[n]
  PROVE  \A n \in 0 .. N : f[n] \in Nat /\ f[n] <= f[N]
<1> DEFINE S == {m \in Nat : f[m] \in Nat /\ \A n \in 0 .. m : f[n] \in Nat /\ f[n] <= f[m]}
<1>1. 0 \in S
  OBVIOUS
<1>2. ASSUME NEW m \in 0 .. N - 1, m \in S
      PROVE  m + 1 \in S
  <2>1. /\ m \in Nat /\ m + 1 \in 1 .. N /\ (m + 1) - 1 = m
        /\ f[m] \in Nat /\ \A n \in 0 .. m : f[n] \in Nat /\ f[n] <= f[m]
    BY <1>2
  <2>2. f[m + 1] \in Nat /\ f[m] <= f[m + 1]
    BY <2>1
  <2>3. \A n \in 0 .. m + 1 : n \in 0 .. m \/ n = m + 1
    BY <2>1
  <2> QED
    BY <2>1, <2>2, <2>3
<1>3. N \in S
  <2> HIDE DEF S
  <2>1. \A n \in 0 .. N : n \in S
    BY <1>1, <1>2, UpTo
  <2> QED
    BY <2>1
<1> QED
  BY <1>3

\* The loops, as the functions that the recursive definitions define.
LEMMA SumLoop ==
  ASSUME NEW s, Len(s) \in Nat
  PROVE  \E f : /\ f[0] = 0
                /\ \A n \in 1 .. Len(s) : f[n] = f[n - 1] + s[n]
                /\ SumOf(s) = f[Len(s)]
<1> DEFINE Step(x, n) == x + s[n]
           Is(f, m) == f = [n \in 0 .. m |-> IF n = 0 THEN 0 ELSE Step(f[n - 1], n)]
           S == {m \in Nat : \E f : Is(f, m)}
<1>1. 0 \in S
  <2> HIDE DEF Step
  <2>1. Is([n \in 0 .. 0 |-> 0], 0)
    OBVIOUS
  <2> QED
    BY <2>1
<1>2. ASSUME NEW m \in S
      PROVE  m + 1 \in S
  <2> HIDE DEF Step
  <2>1. PICK f : Is(f, m)
    OBVIOUS
  <2> DEFINE g == [n \in 0 .. m + 1 |-> IF n <= m THEN f[n] ELSE Step(f[m], m + 1)]
  <2>2. Is(g, m + 1)
    BY <2>1
  <2>3. m + 1 \in Nat
    OBVIOUS
  <2> HIDE DEF Is, g
  <2> QED
    BY <2>2, <2>3
<1>3. PICK f : Is(f, Len(s))
  <2>1. Nat \subseteq S
    <3> HIDE DEF S
    <3> QED
      BY <1>1, <1>2, NatSetInduction
  <2> QED
    BY <2>1
<1> DEFINE g == CHOOSE h : Is(h, Len(s))
<1>4. Is(g, Len(s))
  BY <1>3, Zenon
<1>5. SumOf(s) = g[Len(s)]
  BY Zenon DEF SumOf
<1>6. g[0] = 0 /\ \A n \in 1 .. Len(s) : g[n] = Step(g[n - 1], n)
  <2>1. 0 \in 0 .. Len(s) /\ \A n \in 1 .. Len(s) : n \in 0 .. Len(s) /\ n # 0
    OBVIOUS
  <2> HIDE DEF Step, g
  <2> QED
    BY <1>4, <2>1
<1> QED
  BY <1>5, <1>6

LEMMA CountLoop ==
  ASSUME NEW r, Len(r) \in Nat
  PROVE  \E f : /\ f[0] = 0
                /\ \A n \in 1 .. Len(r) : f[n] = CountChrs(f[n - 1], r[n])
                /\ CntChrs(r) = f[Len(r)]
<1> DEFINE Step(x, n) == CountChrs(x, r[n])
           Is(f, m) == f = [n \in 0 .. m |-> IF n = 0 THEN 0 ELSE Step(f[n - 1], n)]
           S == {m \in Nat : \E f : Is(f, m)}
<1>1. 0 \in S
  <2> HIDE DEF Step
  <2>1. Is([n \in 0 .. 0 |-> 0], 0)
    OBVIOUS
  <2> QED
    BY <2>1
<1>2. ASSUME NEW m \in S
      PROVE  m + 1 \in S
  <2> HIDE DEF Step
  <2>1. PICK f : Is(f, m)
    OBVIOUS
  <2> DEFINE g == [n \in 0 .. m + 1 |-> IF n <= m THEN f[n] ELSE Step(f[m], m + 1)]
  <2>2. Is(g, m + 1)
    BY <2>1
  <2>3. m + 1 \in Nat
    OBVIOUS
  <2> HIDE DEF Is, g
  <2> QED
    BY <2>2, <2>3
<1>3. PICK f : Is(f, Len(r))
  <2>1. Nat \subseteq S
    <3> HIDE DEF S
    <3> QED
      BY <1>1, <1>2, NatSetInduction
  <2> QED
    BY <2>1
<1> DEFINE g == CHOOSE h : Is(h, Len(r))
<1>4. Is(g, Len(r))
  BY <1>3, Zenon
<1>5. CntChrs(r) = g[Len(r)]
  BY Zenon DEF CntChrs
<1>6. g[0] = 0 /\ \A n \in 1 .. Len(r) : g[n] = Step(g[n - 1], n)
  <2>1. 0 \in 0 .. Len(r) /\ \A n \in 1 .. Len(r) : n \in 0 .. Len(r) /\ n # 0
    OBVIOUS
  <2> HIDE DEF Step, g
  <2> QED
    BY <1>4, <2>1
<1> QED
  BY <1>5, <1>6

LEMMA DscLoop ==
  ASSUME NEW w, NEW s, NEW c, s.chrs[c] \in Nat
  PROVE  \E f : /\ f[0] = w
                /\ \A n \in 1 .. s.chrs[c] : f[n] = SaveDsc(f[n - 1], <<s.uuid, c, n>>)
                /\ SaveDscs(w, s, c) = f[s.chrs[c]]
<1> DEFINE Step(x, n) == SaveDsc(x, <<s.uuid, c, n>>)
           Is(f, m) == f = [n \in 0 .. m |-> IF n = 0 THEN w ELSE Step(f[n - 1], n)]
           S == {m \in Nat : \E f : Is(f, m)}
<1>1. 0 \in S
  <2> HIDE DEF Step
  <2>1. Is([n \in 0 .. 0 |-> w], 0)
    OBVIOUS
  <2> QED
    BY <2>1
<1>2. ASSUME NEW m \in S
      PROVE  m + 1 \in S
  <2> HIDE DEF Step
  <2>1. PICK f : Is(f, m)
    OBVIOUS
  <2> DEFINE g == [n \in 0 .. m + 1 |-> IF n <= m THEN f[n] ELSE Step(f[m], m + 1)]
  <2>2. Is(g, m + 1)
    BY <2>1
  <2>3. m + 1 \in Nat
    OBVIOUS
  <2> HIDE DEF Is, g
  <2> QED
    BY <2>2, <2>3
<1>3. PICK f : Is(f, s.chrs[c])
  <2>1. Nat \subseteq S
    <3> HIDE DEF S
    <3> QED
      BY <1>1, <1>2, NatSetInduction
  <2> QED
    BY <2>1
<1> DEFINE g == CHOOSE h : Is(h, s.chrs[c])
<1>4. Is(g, s.chrs[c])
  BY <1>3, Zenon
<1>5. SaveDscs(w, s, c) = g[s.chrs[c]]
  BY Zenon DEF SaveDscs
<1>6. g[0] = w /\ \A n \in 1 .. s.chrs[c] : g[n] = Step(g[n - 1], n)
  <2>1. 0 \in 0 .. s.chrs[c] /\ \A n \in 1 .. s.chrs[c] : n \in 0 .. s.chrs[c] /\ n # 0
    OBVIOUS
  <2> HIDE DEF Step, g
  <2> QED
    BY <1>4, <2>1
<1> QED
  BY <1>5, <1>6

LEMMA ChrLoop ==
  ASSUME NEW w, NEW s, Len(s.chrs) \in Nat
  PROVE  \E f : /\ f[0] = w
                /\ \A n \in 1 .. Len(s.chrs) : f[n] = SaveChr(f[n - 1], s, n)
                /\ SaveChrs(w, s) = f[Len(s.chrs)]
<1> DEFINE Step(x, n) == SaveChr(x, s, n)
           Is(f, m) == f = [n \in 0 .. m |-> IF n = 0 THEN w ELSE Step(f[n - 1], n)]
           S == {m \in Nat : \E f : Is(f, m)}
<1>1. 0 \in S
  <2> HIDE DEF Step
  <2>1. Is([n \in 0 .. 0 |-> w], 0)
    OBVIOUS
  <2> QED
    BY <2>1
<1>2. ASSUME NEW m \in S
      PROVE  m + 1 \in S
  <2> HIDE DEF Step
  <2>1. PICK f : Is(f, m)
    OBVIOUS
  <2> DEFINE g == [n \in 0 .. m + 1 |-> IF n <= m THEN f[n] ELSE Step(f[m], m + 1)]
  <2>2. Is(g, m + 1)
    BY <2>1
  <2>3. m + 1 \in Nat
    OBVIOUS
  <2> HIDE DEF Is, g
  <2> QED
    BY <2>2, <2>3
<1>3. PICK f : Is(f, Len(s.chrs))
  <2>1. Nat \subseteq S
    <3> HIDE DEF S
    <3> QED
      BY <1>1, <1>2, NatSetInduction
  <2> QED
    BY <2>1
<1> DEFINE g == CHOOSE h : Is(h, Len(s.chrs))
<1>4. Is(g, Len(s.chrs))
  BY <1>3, Zenon
<1>5. SaveChrs(w, s) = g[Len(s.chrs)]
  BY Zenon DEF SaveChrs
<1>6. g[0] = w /\ \A n \in 1 .. Len(s.chrs) : g[n] = Step(g[n - 1], n)
  <2>1. 0 \in 0 .. Len(s.chrs) /\ \A n \in 1 .. Len(s.chrs) : n \in 0 .. Len(s.chrs) /\ n # 0
    OBVIOUS
  <2> HIDE DEF Step, g
  <2> QED
    BY <1>4, <2>1
<1> QED
  BY <1>5, <1>6

LEMMA SvcLoop ==
  ASSUME NEW w, NEW r, Len(r) \in Nat
  PROVE  \E f : /\ f[0] = w
                /\ \A n \in 1 .. Len(r) : f[n] = SaveSvc(f[n - 1], r[n])
                /\ SaveSvcs(w, r) = f[Len(r)]
<1> DEFINE Step(x, n) == SaveSvc(x, r[n])
           Is(f, m) == f = [n \in 0 .. m |-> IF n = 0 THEN w ELSE Step(f[n - 1], n)]
           S == {m \in Nat : \E f : Is(f, m)}
<1>1. 0 \in S
  <2> HIDE DEF Step
  <2>1. Is([n \in 0 .. 0 |-> w], 0)
    OBVIOUS
  <2> QED
    BY <2>1
<1>2. ASSUME NEW m \in S
      PROVE  m + 1 \in S
  <2> HIDE DEF Step
  <2>1. PICK f : Is(f, m)
    OBVIOUS
  <2> DEFINE g == [n \in 0 .. m + 1 |-> IF n <= m THEN f[n] ELSE Step(f[m], m + 1)]
  <2>2. Is(g, m + 1)
    BY <2>1
  <2>3. m + 1 \in Nat
    OBVIOUS
  <2> HIDE DEF Is, g
  <2> QED
    BY <2>2, <2>3
<1>3. PICK f : Is(f, Len(r))
  <2>1. Nat \subseteq S
    <3> HIDE DEF S
    <3> QED
      BY <1>1, <1>2, NatSetInduction
  <2> QED
    BY <2>1
<1> DEFINE g == CHOOSE h : Is(h, Len(r))
<1>4. Is(g, Len(r))
  BY <1>3, Zenon
<1>5. SaveSvcs(w, r) = g[Len(r)]
  BY Zenon DEF SaveSvcs
<1>6. g[0] = w /\ \A n \in 1 .. Len(r) : g[n] = Step(g[n - 1], n)
  <2>1. 0 \in 0 .. Len(r) /\ \A n \in 1 .. Len(r) : n \in 0 .. Len(r) /\ n # 0
    OBVIOUS
  <2> HIDE DEF Step, g
  <2> QED
    BY <1>4, <2>1
<1> QED
  BY <1>5, <1>6

-----------------------------------------------------------------------------
(* The tables.                                                             *)

\* The values of the tables.
SvcDefs == [uuid : {<<u>> : u \in Uuids} \union {NULL}, chrs : -1 .. MaxChrs - 1]
ChrDefs == [uuid : (Uuids \X Nat) \union {NULL}, dscs : -1 .. MaxDscs - 1, arg : Nat]
DscDefs == [uuid : (Uuids \X Nat \X Nat) \union {NULL}, arg : Nat]

\* w has the fields of the tables, and no others.
Shaped(w) ==
  w = [svcs |-> w.svcs, chrs |-> w.chrs, dscs |-> w.dscs,
       nsvcs |-> w.nsvcs, nchrs |-> w.nchrs, ndscs |-> w.ndscs,
       nuuids |-> w.nuuids, nvals |-> w.nvals,
       seq |-> w.seq, given |-> w.given, ok |-> w.ok]

Tables(w) ==
  /\ Shaped(w)
  /\ w.svcs \in [0 .. MaxSvcs - 1 -> SvcDefs]
  /\ w.chrs \in [0 .. MaxChrs - 1 -> ChrDefs]
  /\ w.dscs \in [0 .. MaxDscs - 1 -> DscDefs]
  /\ w.nsvcs \in Nat /\ w.nchrs \in Nat /\ w.ndscs \in Nat
  /\ w.nuuids \in Nat /\ w.nvals \in Nat
  /\ w.seq \in 0 .. EvtNumbers - 1 /\ w.given \in Nat

\* No assert has failed.
Fine(w) == w.ok

LEMMA Sizes ==
  /\ MaxSvcs \in Nat \ {0} /\ MaxChrs \in Nat \ {0} /\ MaxDscs \in Nat \ {0}
  /\ EvtNumbers \in Nat \ {0}
  /\ MaxUuids \in Nat \ {0} /\ MaxVals \in Nat \ {0}
BY RegistryAssumption DEF MaxUuids, MaxVals

LEMMA InTables ==
  ASSUME NEW w, Tables(w)
  PROVE  /\ w.nsvcs \in Nat /\ w.nchrs \in Nat /\ w.ndscs \in Nat
         /\ w.nuuids \in Nat /\ w.nvals \in Nat
         /\ w.seq \in 0 .. EvtNumbers - 1 /\ w.seq \in Nat /\ w.given \in Nat
BY Sizes DEF Tables

LEMMA NextSeq ==
  \A n \in 0 .. EvtNumbers - 1 : NextEvtSeq(n) \in 0 .. EvtNumbers - 1
BY Sizes DEF NextEvtSeq

-----------------------------------------------------------------------------
(* What the functions that save do.                                        *)

LEMMA SaveUuidDoes ==
  ASSUME NEW w, Tables(w), Fine(w), w.nuuids < MaxUuids, NEW x, x = SaveUuid(w)
  PROVE  /\ Tables(x) /\ Fine(x)
         /\ x.svcs = w.svcs /\ x.chrs = w.chrs /\ x.dscs = w.dscs
         /\ x.nsvcs = w.nsvcs /\ x.nchrs = w.nchrs /\ x.ndscs = w.ndscs
         /\ x.nuuids = w.nuuids + 1 /\ x.nvals = w.nvals
         /\ x.seq = w.seq /\ x.given = w.given
<1>1. (w.ok /\ w.nuuids < MaxUuids) = TRUE
  BY DEF Fine
<1>2. x = [w EXCEPT !.ok = TRUE, !.nuuids = w.nuuids + 1]
  BY <1>1, Zenon DEF SaveUuid
<1>3. /\ Shaped(x)
      /\ x.svcs = w.svcs /\ x.chrs = w.chrs /\ x.dscs = w.dscs
      /\ x.nsvcs = w.nsvcs /\ x.nchrs = w.nchrs /\ x.ndscs = w.ndscs
      /\ x.nuuids = w.nuuids + 1 /\ x.nvals = w.nvals
      /\ x.seq = w.seq /\ x.given = w.given
  BY <1>2 DEF Tables, Shaped
<1>4. x.ok = TRUE
  BY <1>2 DEF Tables, Shaped
<1>5. Tables(x)
  BY <1>3 DEF Tables
<1> QED
  BY <1>3, <1>4, <1>5 DEF Fine

\* Counters that change leave tables tables.
LEMMA Counted ==
  ASSUME NEW w, Tables(w), NEW x, Shaped(x),
         x.svcs = w.svcs, x.chrs = w.chrs, x.dscs = w.dscs,
         x.nsvcs \in Nat, x.nchrs \in Nat, x.ndscs \in Nat,
         x.nuuids = w.nuuids, x.nvals = w.nvals, x.seq = w.seq, x.given = w.given
  PROVE  Tables(x)
BY DEF Tables

LEMMA SaveDscDoes ==
  ASSUME NEW w, Tables(w), Fine(w), w.nuuids < MaxUuids, w.ndscs < MaxDscs,
         NEW d \in Uuids \X Nat \X Nat, NEW x, x = SaveDsc(w, d)
  PROVE  /\ Tables(x) /\ Fine(x)
         /\ x.svcs = w.svcs /\ x.chrs = w.chrs
         /\ x.dscs = [w.dscs EXCEPT ![w.ndscs] = [uuid |-> d, arg |-> w.seq]]
         /\ x.nsvcs = w.nsvcs /\ x.nchrs = w.nchrs /\ x.ndscs = w.ndscs + 1
         /\ x.nuuids = w.nuuids + 1 /\ x.nvals = w.nvals
         /\ x.seq = NextEvtSeq(w.seq) /\ x.given = w.given + 1
<1> DEFINE u == SaveUuid(w)
<1>1. /\ Tables(u) /\ Fine(u)
      /\ u.svcs = w.svcs /\ u.chrs = w.chrs /\ u.dscs = w.dscs
      /\ u.nsvcs = w.nsvcs /\ u.nchrs = w.nchrs /\ u.ndscs = w.ndscs
      /\ u.nuuids = w.nuuids + 1 /\ u.nvals = w.nvals
      /\ u.seq = w.seq /\ u.given = w.given
  BY SaveUuidDoes
<1>2. x = TakeSeq([u EXCEPT !.dscs[u.ndscs] = [uuid |-> d, arg |-> u.seq],
                            !.ndscs = u.ndscs + 1])
  <2>1. u.ok
    BY <1>1 DEF Fine
  <2>2. ~(u.ndscs >= MaxDscs)
    BY <1>1, InTables, Sizes
  <2> QED
    BY <2>1, <2>2, Zenon DEF SaveDsc
<1> HIDE DEF u
<1>3. /\ Shaped(x)
      /\ x.svcs = u.svcs /\ x.chrs = u.chrs
      /\ x.dscs = [u.dscs EXCEPT ![u.ndscs] = [uuid |-> d, arg |-> u.seq]]
      /\ x.nsvcs = u.nsvcs /\ x.nchrs = u.nchrs /\ x.ndscs = u.ndscs + 1
      /\ x.nuuids = u.nuuids /\ x.nvals = u.nvals
      /\ x.seq = NextEvtSeq(u.seq) /\ x.given = u.given + 1
  <2> DEFINE v == [u EXCEPT !.dscs[u.ndscs] = [uuid |-> d, arg |-> u.seq],
                            !.ndscs = u.ndscs + 1]
  <2>1. Shaped(u)
    BY <1>1 DEF Tables
  <2>2. /\ v.svcs = u.svcs /\ v.chrs = u.chrs
        /\ v.dscs = [u.dscs EXCEPT ![u.ndscs] = [uuid |-> d, arg |-> u.seq]]
        /\ v.nsvcs = u.nsvcs /\ v.nchrs = u.nchrs /\ v.ndscs = u.ndscs + 1
        /\ v.nuuids = u.nuuids /\ v.nvals = u.nvals
        /\ v.seq = u.seq /\ v.given = u.given
    BY <2>1 DEF Shaped
  <2> DEFINE e == [uuid |-> d, arg |-> u.seq]
             n == u.ndscs + 1
  <2>3. Shaped(v)
    <3>1. v = [u EXCEPT !.dscs[u.ndscs] = e, !.ndscs = n]
      OBVIOUS
    <3>2. u = [svcs |-> u.svcs, chrs |-> u.chrs, dscs |-> u.dscs,
               nsvcs |-> u.nsvcs, nchrs |-> u.nchrs, ndscs |-> u.ndscs,
               nuuids |-> u.nuuids, nvals |-> u.nvals,
               seq |-> u.seq, given |-> u.given, ok |-> u.ok]
      BY <2>1, Zenon DEF Shaped
    <3> HIDE DEF v, e, n
    <3>3. v = [svcs |-> v.svcs, chrs |-> v.chrs, dscs |-> v.dscs,
               nsvcs |-> v.nsvcs, nchrs |-> v.nchrs, ndscs |-> v.ndscs,
               nuuids |-> v.nuuids, nvals |-> v.nvals,
               seq |-> v.seq, given |-> v.given, ok |-> v.ok]
      BY <3>1, <3>2, Zenon
    <3> QED
      BY <3>3, Zenon DEF Shaped
  <2> HIDE DEF v
  <2>4. x = [v EXCEPT !.seq = NextEvtSeq(v.seq), !.given = v.given + 1]
    BY <1>2 DEF TakeSeq, v
  <2>5. /\ x.svcs = v.svcs /\ x.chrs = v.chrs /\ x.dscs = v.dscs
        /\ x.nsvcs = v.nsvcs /\ x.nchrs = v.nchrs /\ x.ndscs = v.ndscs
        /\ x.nuuids = v.nuuids /\ x.nvals = v.nvals
        /\ x.seq = NextEvtSeq(v.seq) /\ x.given = v.given + 1
    BY <2>3, <2>4 DEF Shaped
  <2>6. Shaped(x)
    BY <2>3, <2>4 DEF Shaped
  <2> QED
    BY <2>2, <2>5, <2>6
<1>4. x.ok = u.ok
  BY <1>1, <1>2 DEF TakeSeq, Tables, Shaped
<1>5. x.dscs \in [0 .. MaxDscs - 1 -> DscDefs]
  <2>1. u.ndscs \in 0 .. MaxDscs - 1
    BY <1>1, Sizes, InTables
  <2>2. [uuid |-> d, arg |-> u.seq] \in DscDefs
    BY <1>1, InTables DEF DscDefs
  <2>3. u.dscs \in [0 .. MaxDscs - 1 -> DscDefs]
    BY <1>1 DEF Tables
  <2> QED
    BY <1>3, <2>1, <2>2, <2>3
<1>6. Tables(x)
  <2>1. x.seq \in 0 .. EvtNumbers - 1
    BY <1>1, <1>3, NextSeq, InTables
  <2>2. /\ x.nsvcs \in Nat /\ x.nchrs \in Nat /\ x.ndscs \in Nat
        /\ x.nuuids \in Nat /\ x.nvals \in Nat /\ x.given \in Nat
    BY <1>1, <1>3, InTables
  <2>3. /\ x.svcs \in [0 .. MaxSvcs - 1 -> SvcDefs]
        /\ x.chrs \in [0 .. MaxChrs - 1 -> ChrDefs]
    BY <1>1, <1>3 DEF Tables
  <2> QED
    BY <1>3, <1>5, <2>1, <2>2, <2>3 DEF Tables
<1> QED
  BY <1>1, <1>3, <1>4, <1>6 DEF Fine

-----------------------------------------------------------------------------
(* What tables are like that were never cleared.                           *)

ChrUsed(w, i) == i \in 0 .. MaxChrs - 1 /\ w.chrs[i].uuid # NULL
DscUsed(w, i) == i \in 0 .. MaxDscs - 1 /\ w.dscs[i].uuid # NULL

\* Nothing is behind the counters.
NoSvcsBehind(w) == \A i \in w.nsvcs .. MaxSvcs - 1 : w.svcs[i].uuid = NULL
NoChrsBehind(w) == \A i \in w.nchrs .. MaxChrs - 1 : w.chrs[i].uuid = NULL
NoDscsBehind(w) == \A i \in w.ndscs .. MaxDscs - 1 : w.dscs[i].uuid = NULL

\* The last entry that a counter passed is a terminator.
ChrsEnded(w) == w.nchrs > 0 => w.chrs[w.nchrs - 1].uuid = NULL
DscsEnded(w) == w.ndscs > 0 => w.dscs[w.ndscs - 1].uuid = NULL

\* Until the numbers wrap, the next one is that of no attribute; until all were
\* handed out, attributes have different ones.
Numbered(w) ==
  /\ w.given < EvtNumbers => w.seq = w.given
  /\ w.given <= EvtNumbers =>
       /\ \A i : ChrUsed(w, i) => w.chrs[i].arg < w.given
       /\ \A i : DscUsed(w, i) => w.dscs[i].arg < w.given
       /\ \A i, j : ChrUsed(w, i) /\ ChrUsed(w, j) /\ i # j => w.chrs[i].arg # w.chrs[j].arg
       /\ \A i, j : DscUsed(w, i) /\ DscUsed(w, j) /\ i # j => w.dscs[i].arg # w.dscs[j].arg
       /\ \A i, j : ChrUsed(w, i) /\ DscUsed(w, j) => w.chrs[i].arg # w.dscs[j].arg

Clean(w) == NoChrsBehind(w) /\ NoDscsBehind(w) /\ DscsEnded(w) /\ Numbered(w)

\* The attributes in use have numbers.
LEMMA Args ==
  ASSUME NEW w, Tables(w)
  PROVE  /\ \A i : ChrUsed(w, i) => w.chrs[i].arg \in Nat
         /\ \A i : DscUsed(w, i) => w.dscs[i].arg \in Nat
BY DEF Tables, ChrUsed, DscUsed, ChrDefs, DscDefs

\* A new descriptor gets a number of its own.
LEMMA NumberedDsc ==
  ASSUME NEW w, Tables(w), Numbered(w), w.ndscs \in 0 .. MaxDscs - 1,
         ~DscUsed(w, w.ndscs), NEW x, NEW d,
         x.chrs = w.chrs,
         x.dscs = [w.dscs EXCEPT ![w.ndscs] = [uuid |-> d, arg |-> w.seq]],
         x.seq = NextEvtSeq(w.seq), x.given = w.given + 1
  PROVE  Numbered(x)
<1>1. /\ w.given \in Nat /\ w.seq \in Nat /\ EvtNumbers \in Nat
  BY InTables, Sizes
<1>2. x.given < EvtNumbers => x.seq = x.given
  BY <1>1 DEF Numbered, NextEvtSeq
<1>3. /\ \A i : ChrUsed(x, i) <=> ChrUsed(w, i)
      /\ \A i : ChrUsed(x, i) => x.chrs[i].arg = w.chrs[i].arg
  BY DEF ChrUsed
<1>4. /\ x.dscs[w.ndscs].arg = w.seq
      /\ \A i : DscUsed(x, i) => \/ i = w.ndscs
                                 \/ DscUsed(w, i) /\ i # w.ndscs /\ x.dscs[i].arg = w.dscs[i].arg
  <2>1. DOMAIN w.dscs = 0 .. MaxDscs - 1
    BY DEF Tables
  <2>2. x.dscs[w.ndscs] = [uuid |-> d, arg |-> w.seq]
    BY <2>1
  <2>3. \A i \in 0 .. MaxDscs - 1 : i # w.ndscs => x.dscs[i] = w.dscs[i]
    BY <2>1
  <2> QED
    BY <2>2, <2>3 DEF DscUsed
<1>5. ASSUME x.given <= EvtNumbers
      PROVE  /\ \A i : ChrUsed(x, i) => x.chrs[i].arg < x.given
             /\ \A i : DscUsed(x, i) => x.dscs[i].arg < x.given
             /\ \A i, j : ChrUsed(x, i) /\ ChrUsed(x, j) /\ i # j => x.chrs[i].arg # x.chrs[j].arg
             /\ \A i, j : DscUsed(x, i) /\ DscUsed(x, j) /\ i # j => x.dscs[i].arg # x.dscs[j].arg
             /\ \A i, j : ChrUsed(x, i) /\ DscUsed(x, j) => x.chrs[i].arg # x.dscs[j].arg
  <2>1. w.given < EvtNumbers /\ w.seq = w.given
    BY <1>1, <1>5 DEF Numbered
  <2>2. /\ \A i : ChrUsed(w, i) => w.chrs[i].arg \in Nat /\ w.chrs[i].arg < w.given
        /\ \A i : DscUsed(w, i) => w.dscs[i].arg \in Nat /\ w.dscs[i].arg < w.given
    BY <1>1, <2>1, Args DEF Numbered
  <2>3. /\ \A i, j : ChrUsed(w, i) /\ ChrUsed(w, j) /\ i # j => w.chrs[i].arg # w.chrs[j].arg
        /\ \A i, j : DscUsed(w, i) /\ DscUsed(w, j) /\ i # j => w.dscs[i].arg # w.dscs[j].arg
        /\ \A i, j : ChrUsed(w, i) /\ DscUsed(w, j) => w.chrs[i].arg # w.dscs[j].arg
    BY <1>1, <2>1 DEF Numbered
  <2> QED
    BY <1>1, <1>3, <1>4, <2>1, <2>2, <2>3
<1> QED
  BY <1>2, <1>5 DEF Numbered

\* So does a new characteristic.
LEMMA NumberedChr ==
  ASSUME NEW w, Tables(w), Numbered(w), w.nchrs \in 0 .. MaxChrs - 1,
         ~ChrUsed(w, w.nchrs), NEW x, NEW def, def.arg = w.seq,
         x.dscs = w.dscs,
         x.chrs = [w.chrs EXCEPT ![w.nchrs] = def],
         x.seq = NextEvtSeq(w.seq), x.given = w.given + 1
  PROVE  Numbered(x)
<1>1. /\ w.given \in Nat /\ w.seq \in Nat /\ EvtNumbers \in Nat
  BY InTables, Sizes
<1>2. x.given < EvtNumbers => x.seq = x.given
  BY <1>1 DEF Numbered, NextEvtSeq
<1>3. /\ \A i : DscUsed(x, i) <=> DscUsed(w, i)
      /\ \A i : DscUsed(x, i) => x.dscs[i].arg = w.dscs[i].arg
  BY DEF DscUsed
<1>4. /\ x.chrs[w.nchrs].arg = w.seq
      /\ \A i : ChrUsed(x, i) => \/ i = w.nchrs
                                 \/ ChrUsed(w, i) /\ i # w.nchrs /\ x.chrs[i].arg = w.chrs[i].arg
  <2>1. DOMAIN w.chrs = 0 .. MaxChrs - 1
    BY DEF Tables
  <2>2. x.chrs[w.nchrs] = def
    BY <2>1
  <2>3. \A i \in 0 .. MaxChrs - 1 : i # w.nchrs => x.chrs[i] = w.chrs[i]
    BY <2>1
  <2> QED
    BY <2>2, <2>3 DEF ChrUsed
<1>5. ASSUME x.given <= EvtNumbers
      PROVE  /\ \A i : ChrUsed(x, i) => x.chrs[i].arg < x.given
             /\ \A i : DscUsed(x, i) => x.dscs[i].arg < x.given
             /\ \A i, j : ChrUsed(x, i) /\ ChrUsed(x, j) /\ i # j => x.chrs[i].arg # x.chrs[j].arg
             /\ \A i, j : DscUsed(x, i) /\ DscUsed(x, j) /\ i # j => x.dscs[i].arg # x.dscs[j].arg
             /\ \A i, j : ChrUsed(x, i) /\ DscUsed(x, j) => x.chrs[i].arg # x.dscs[j].arg
  <2>1. w.given < EvtNumbers /\ w.seq = w.given
    BY <1>1, <1>5 DEF Numbered
  <2>2. /\ \A i : ChrUsed(w, i) => w.chrs[i].arg \in Nat /\ w.chrs[i].arg < w.given
        /\ \A i : DscUsed(w, i) => w.dscs[i].arg \in Nat /\ w.dscs[i].arg < w.given
    BY <1>1, <2>1, Args DEF Numbered
  <2>3. /\ \A i, j : ChrUsed(w, i) /\ ChrUsed(w, j) /\ i # j => w.chrs[i].arg # w.chrs[j].arg
        /\ \A i, j : DscUsed(w, i) /\ DscUsed(w, j) /\ i # j => w.dscs[i].arg # w.dscs[j].arg
        /\ \A i, j : ChrUsed(w, i) /\ DscUsed(w, j) => w.chrs[i].arg # w.dscs[j].arg
    BY <1>1, <2>1 DEF Numbered
  <2> QED
    BY <1>1, <1>3, <1>4, <2>1, <2>2, <2>3
<1> QED
  BY <1>2, <1>5 DEF Numbered

-----------------------------------------------------------------------------
(* The descriptors of a characteristic.                                    *)

\* What saving n descriptors makes of w.
DscsSaved(w, x, n) ==
  /\ Tables(x) /\ Fine(x)
  /\ x.svcs = w.svcs /\ x.chrs = w.chrs
  /\ x.nsvcs = w.nsvcs /\ x.nchrs = w.nchrs /\ x.ndscs = w.ndscs + n
  /\ x.nuuids = w.nuuids + n /\ x.nvals = w.nvals
  /\ \A i \in 0 .. MaxDscs - 1 : i < w.ndscs \/ i >= w.ndscs + n => x.dscs[i] = w.dscs[i]
  /\ NoDscsBehind(w) /\ Numbered(w) => Numbered(x)

LEMMA SaveDscsDoes ==
  ASSUME NEW w, Tables(w), Fine(w), NEW s, NEW c \in Nat, s.uuid \in Uuids, s.chrs[c] \in Nat,
         w.nuuids + s.chrs[c] <= MaxUuids, w.ndscs + s.chrs[c] <= MaxDscs
  PROVE  DscsSaved(w, SaveDscs(w, s, c), s.chrs[c])
<1> DEFINE N == s.chrs[c]
<1>1. PICK f : /\ f[0] = w
               /\ \A n \in 1 .. N : f[n] = SaveDsc(f[n - 1], <<s.uuid, c, n>>)
               /\ SaveDscs(w, s, c) = f[N]
  BY DscLoop
<1> DEFINE S == {n \in 0 .. N : DscsSaved(w, f[n], n)}
<1>2. 0 \in S
  BY <1>1, InTables DEF DscsSaved
<1>3. ASSUME NEW n \in 0 .. N - 1, n \in S
      PROVE  n + 1 \in S
  <2> DEFINE v == f[n]
             x == f[n + 1]
             d == <<s.uuid, c, n + 1>>
  <2>1. DscsSaved(w, v, n) /\ n \in Nat /\ n + 1 \in 1 .. N
    BY <1>3
  <2>2. x = SaveDsc(v, d)
    BY <1>1, <2>1
  <2>3. d \in Uuids \X Nat \X Nat
    BY <2>1
  <2> HIDE DEF v, x, d
  <2>4. /\ Tables(v) /\ Fine(v) /\ v.nuuids = w.nuuids + n /\ v.ndscs = w.ndscs + n
    BY <2>1 DEF DscsSaved
  <2>5. /\ v.nuuids < MaxUuids /\ v.ndscs \in 0 .. MaxDscs - 1 /\ v.ndscs < MaxDscs
    BY <2>1, <2>4, InTables, Sizes
  <2>6. /\ Tables(x) /\ Fine(x)
        /\ x.svcs = v.svcs /\ x.chrs = v.chrs
        /\ x.dscs = [v.dscs EXCEPT ![v.ndscs] = [uuid |-> d, arg |-> v.seq]]
        /\ x.nsvcs = v.nsvcs /\ x.nchrs = v.nchrs /\ x.ndscs = v.ndscs + 1
        /\ x.nuuids = v.nuuids + 1 /\ x.nvals = v.nvals
        /\ x.seq = NextEvtSeq(v.seq) /\ x.given = v.given + 1
    BY <2>2, <2>3, <2>4, <2>5, SaveDscDoes
  <2>7. /\ x.svcs = w.svcs /\ x.chrs = w.chrs
        /\ x.nsvcs = w.nsvcs /\ x.nchrs = w.nchrs /\ x.ndscs = w.ndscs + (n + 1)
        /\ x.nuuids = w.nuuids + (n + 1) /\ x.nvals = w.nvals
    BY <2>1, <2>6, InTables DEF DscsSaved
  <2>8. ASSUME NEW i \in 0 .. MaxDscs - 1, i < w.ndscs \/ i >= w.ndscs + (n + 1)
        PROVE  x.dscs[i] = w.dscs[i]
    <3>1. i # v.ndscs /\ (i < w.ndscs \/ i >= w.ndscs + n)
      BY <2>1, <2>4, <2>8, InTables
    <3>2. x.dscs[i] = v.dscs[i]
      BY <2>4, <2>6, <3>1 DEF Tables
    <3> QED
      BY <2>1, <3>1, <3>2 DEF DscsSaved
  <2>9. ASSUME NoDscsBehind(w), Numbered(w)
        PROVE  Numbered(x)
    <3>1. Numbered(v)
      BY <2>1, <2>9 DEF DscsSaved
    <3>2. v.dscs[v.ndscs].uuid = NULL
      <4>1. v.dscs[v.ndscs] = w.dscs[v.ndscs]
        BY <2>1, <2>4, <2>5, InTables DEF DscsSaved
      <4>2. v.ndscs \in w.ndscs .. MaxDscs - 1
        BY <2>1, <2>4, <2>5, InTables
      <4> QED
        BY <2>9, <4>1, <4>2 DEF NoDscsBehind
    <3> QED
      BY <2>4, <2>5, <2>6, <3>1, <3>2, NumberedDsc DEF DscUsed
  <2>10. DscsSaved(w, x, n + 1)
    BY <2>6, <2>7, <2>8, <2>9 DEF DscsSaved
  <2> QED
    BY <2>1, <2>10 DEF x
<1>4. N \in S
  <2> HIDE DEF S
  <2>1. \A n \in 0 .. N : n \in S
    BY <1>2, <1>3, UpTo
  <2> QED
    BY <2>1
<1> QED
  BY <1>1, <1>4

-----------------------------------------------------------------------------
(* One characteristic.                                                     *)

\* n entries and the terminator of their list, which an empty list does not have.
WithEnd(n) == n + IF n > 0 THEN 1 ELSE 0

\* What saving characteristic c of service s makes of w.
ChrSaved(w, x, s, c) ==
  /\ Tables(x) /\ Fine(x)
  /\ x.svcs = w.svcs /\ x.nsvcs = w.nsvcs
  /\ x.nchrs = w.nchrs + 1 /\ x.ndscs = w.ndscs + WithEnd(s.chrs[c])
  /\ x.nuuids = w.nuuids + 1 + s.chrs[c] /\ x.nvals = w.nvals + 1
  /\ x.chrs[w.nchrs].uuid = <<s.uuid, c>>
  /\ \A i \in 0 .. MaxChrs - 1 : i # w.nchrs => x.chrs[i] = w.chrs[i]
  /\ \A i \in 0 .. MaxDscs - 1 : i < w.ndscs \/ i >= w.ndscs + s.chrs[c] => x.dscs[i] = w.dscs[i]
  /\ Clean(w) => Clean(x)

LEMMA SaveChrDoes ==
  ASSUME NEW w, Tables(w), Fine(w), NEW s, NEW c \in Nat, s.uuid \in Uuids, s.chrs[c] \in Nat,
         w.nuuids + 1 + s.chrs[c] <= MaxUuids, w.nchrs < MaxChrs,
         w.ndscs + WithEnd(s.chrs[c]) <= MaxDscs
  PROVE  ChrSaved(w, SaveChr(w, s, c), s, c)
<1> DEFINE u == SaveUuid(w)
           def == [uuid |-> <<s.uuid, c>>,
                   dscs |-> IF s.chrs[c] > 0 THEN u.ndscs ELSE u.chrs[u.nchrs].dscs,
                   arg |-> u.seq]
           x == TakeSeq([u EXCEPT !.chrs[u.nchrs] = def, !.nvals = @ + 1])
           y == IF s.chrs[c] > 0 THEN SkipDsc(SaveDscs(x, s, c)) ELSE x
           z == SaveChr(w, s, c)
           N == s.chrs[c]
<1>1. /\ Tables(u) /\ Fine(u)
      /\ u.svcs = w.svcs /\ u.chrs = w.chrs /\ u.dscs = w.dscs
      /\ u.nsvcs = w.nsvcs /\ u.nchrs = w.nchrs /\ u.ndscs = w.ndscs
      /\ u.nuuids = w.nuuids + 1 /\ u.nvals = w.nvals
      /\ u.seq = w.seq /\ u.given = w.given
  <2>1. w.nuuids < MaxUuids
    BY InTables, Sizes
  <2> QED
    BY <2>1, SaveUuidDoes
<1>2. z = [y EXCEPT !.nchrs = @ + 1]
  <2>1. u.ok
    BY <1>1 DEF Fine
  <2>2. ~(u.nchrs >= MaxChrs)
    BY <1>1, InTables, Sizes
  <2> QED
    BY <2>1, <2>2, Zenon DEF SaveChr
<1> HIDE DEF u, z
<1>3. /\ w.nchrs \in 0 .. MaxChrs - 1 /\ w.ndscs \in Nat /\ N \in Nat /\ MaxDscs \in Nat
      /\ N > 0 => w.ndscs + N + 1 <= MaxDscs
      /\ N = 0 => WithEnd(N) = 0
      /\ N > 0 => WithEnd(N) = N + 1
  BY InTables, Sizes DEF WithEnd
<1>4. def \in ChrDefs /\ def.arg = w.seq /\ def.uuid = <<s.uuid, c>>
  <2>1. u.chrs[u.nchrs] \in ChrDefs
    BY <1>1, <1>3 DEF Tables
  <2>2. u.chrs[u.nchrs].dscs \in -1 .. MaxDscs - 1
    BY <2>1 DEF ChrDefs
  <2>3. s.chrs[c] > 0 => u.ndscs \in -1 .. MaxDscs - 1
    BY <1>1, <1>3
  <2>4. u.seq \in Nat
    BY <1>1, InTables
  <2> QED
    BY <1>1, <2>2, <2>3, <2>4 DEF ChrDefs
<1> HIDE DEF def
<1>5. /\ Shaped(x) /\ Tables(x)
      /\ x.svcs = w.svcs /\ x.dscs = w.dscs
      /\ x.chrs = [w.chrs EXCEPT ![w.nchrs] = def]
      /\ x.nsvcs = w.nsvcs /\ x.nchrs = w.nchrs /\ x.ndscs = w.ndscs
      /\ x.nuuids = w.nuuids + 1 /\ x.nvals = w.nvals + 1
      /\ x.seq = NextEvtSeq(w.seq) /\ x.given = w.given + 1
  <2>1. /\ Shaped(x)
        /\ x.svcs = u.svcs /\ x.dscs = u.dscs
        /\ x.chrs = [u.chrs EXCEPT ![u.nchrs] = def]
        /\ x.nsvcs = u.nsvcs /\ x.nchrs = u.nchrs /\ x.ndscs = u.ndscs
        /\ x.nuuids = u.nuuids /\ x.nvals = u.nvals + 1
        /\ x.seq = NextEvtSeq(u.seq) /\ x.given = u.given + 1
    <3>1. Shaped(u)
      BY <1>1 DEF Tables
    <3>2. x = [u EXCEPT !.chrs[u.nchrs] = def, !.nvals = u.nvals + 1,
                        !.seq = NextEvtSeq(u.seq), !.given = u.given + 1]
      BY <3>1 DEF TakeSeq, Shaped
    <3> HIDE DEF x
    <3> QED
      BY <3>1, <3>2 DEF Shaped
  <2> HIDE DEF x
  <2>2. x.chrs \in [0 .. MaxChrs - 1 -> ChrDefs]
    <3>1. w.chrs \in [0 .. MaxChrs - 1 -> ChrDefs]
      BY DEF Tables
    <3>2. x.chrs = [w.chrs EXCEPT ![w.nchrs] = def]
      BY <1>1, <2>1
    <3>3. def \in ChrDefs
      BY <1>4
    <3> QED
      BY <3>1, <3>2, <3>3
  <2>3. x.seq \in 0 .. EvtNumbers - 1
    BY <1>1, <2>1, NextSeq, InTables
  <2>4. /\ x.nsvcs \in Nat /\ x.nchrs \in Nat /\ x.ndscs \in Nat
        /\ x.nuuids \in Nat /\ x.nvals \in Nat /\ x.given \in Nat
    BY <1>1, <2>1, InTables
  <2>5. x.svcs \in [0 .. MaxSvcs - 1 -> SvcDefs] /\ x.dscs \in [0 .. MaxDscs - 1 -> DscDefs]
    BY <1>1, <2>1 DEF Tables
  <2>6. Tables(x)
    BY <2>1, <2>2, <2>3, <2>4, <2>5 DEF Tables
  <2> QED
    BY <1>1, <2>1, <2>6
<1>6. Fine(x)
  <2>1. x.ok = u.ok
    BY <1>1 DEF TakeSeq, Tables, Shaped
  <2> QED
    BY <1>1, <2>1 DEF Fine
<1> HIDE DEF x
\* The descriptors and their terminator.
<1>7. /\ Tables(y) /\ Fine(y)
      /\ y.svcs = w.svcs /\ y.chrs = x.chrs
      /\ y.nsvcs = w.nsvcs /\ y.nchrs = w.nchrs /\ y.ndscs = w.ndscs + WithEnd(N)
      /\ y.nuuids = w.nuuids + 1 + N /\ y.nvals = w.nvals + 1
      /\ \A i \in 0 .. MaxDscs - 1 : i < w.ndscs \/ i >= w.ndscs + N => y.dscs[i] = w.dscs[i]
      /\ NoDscsBehind(w) /\ Numbered(x) => Numbered(y)
  <2>1. CASE N = 0
    BY <1>3, <1>5, <1>6, <2>1, InTables
  <2>2. CASE N > 0
    <3> DEFINE v == SaveDscs(x, s, c)
    <3>1. DscsSaved(x, v, N)
      <4>1. x.nuuids + N <= MaxUuids /\ x.ndscs + N <= MaxDscs
        BY <1>3, <1>5, <2>2, InTables, Sizes
      <4> QED
        BY <1>5, <1>6, <4>1, SaveDscsDoes
    <3> HIDE DEF v
    <3>2. /\ Shaped(y)
          /\ y.svcs = v.svcs /\ y.chrs = v.chrs /\ y.dscs = v.dscs
          /\ y.nsvcs = v.nsvcs /\ y.nchrs = v.nchrs /\ y.ndscs = v.ndscs + 1
          /\ y.nuuids = v.nuuids /\ y.nvals = v.nvals
          /\ y.seq = v.seq /\ y.given = v.given
      BY <2>2, <3>1 DEF DscsSaved, Tables, Shaped, SkipDsc, v
    <3>3. y.ok = v.ok
      BY <2>2, <3>1 DEF DscsSaved, Tables, Shaped, SkipDsc, v
    <3> HIDE DEF y
    <3>4. Tables(v) /\ Fine(v)
      BY <3>1 DEF DscsSaved
    <3>5. Tables(y)
      <4>1. y.nsvcs \in Nat /\ y.nchrs \in Nat /\ y.ndscs \in Nat
        BY <3>2, <3>4, InTables
      <4> QED
        BY <3>2, <3>4, <4>1, Counted
    <3>6. Fine(y)
      BY <3>3, <3>4 DEF Fine
    <3>7. Numbered(v) => Numbered(y)
      BY <3>2 DEF Numbered, ChrUsed, DscUsed
    <3>8. NoDscsBehind(w) => NoDscsBehind(x)
      BY <1>5 DEF NoDscsBehind
    <3> QED
      BY <1>3, <1>5, <2>2, <3>1, <3>2, <3>5, <3>6, <3>7, <3>8, InTables DEF DscsSaved
  <2> QED
    BY <1>3, <2>1, <2>2
<1> HIDE DEF y
<1>8. /\ Shaped(z)
      /\ z.svcs = y.svcs /\ z.chrs = y.chrs /\ z.dscs = y.dscs
      /\ z.nsvcs = y.nsvcs /\ z.nchrs = y.nchrs + 1 /\ z.ndscs = y.ndscs
      /\ z.nuuids = y.nuuids /\ z.nvals = y.nvals
      /\ z.seq = y.seq /\ z.given = y.given
  BY <1>2, <1>7 DEF Tables, Shaped
<1>9. Tables(z)
  <2>1. z.nsvcs \in Nat /\ z.nchrs \in Nat /\ z.ndscs \in Nat
    BY <1>7, <1>8, InTables
  <2> QED
    BY <1>7, <1>8, <2>1, Counted
<1>10. Fine(z)
  <2>1. z.ok = y.ok
    BY <1>2, <1>7 DEF Tables, Shaped
  <2> QED
    BY <1>7, <2>1 DEF Fine
<1>11. /\ z.chrs[w.nchrs] = def
       /\ \A i \in 0 .. MaxChrs - 1 : i # w.nchrs => z.chrs[i] = w.chrs[i]
  <2>1. w.chrs \in [0 .. MaxChrs - 1 -> ChrDefs]
    BY DEF Tables
  <2>2. z.chrs = [w.chrs EXCEPT ![w.nchrs] = def]
    BY <1>5, <1>7, <1>8
  <2>3. w.nchrs \in 0 .. MaxChrs - 1
    BY <1>3
  <2> QED
    BY <2>1, <2>2, <2>3
<1>12. ASSUME Clean(w)
       PROVE  Clean(z)
  <2>1. NoChrsBehind(z)
    BY <1>3, <1>7, <1>8, <1>11, <1>12 DEF Clean, NoChrsBehind
  <2>2. NoDscsBehind(z)
    BY <1>3, <1>7, <1>8, <1>12 DEF Clean, NoDscsBehind, WithEnd
  <2>3. DscsEnded(z)
    <3>1. CASE N = 0
      <4>1. z.ndscs = w.ndscs
        BY <1>3, <1>7, <1>8, <3>1
      <4>2. z.ndscs > 0 => z.dscs[z.ndscs - 1] = w.dscs[z.ndscs - 1]
        BY <1>3, <1>7, <1>8, <3>1, <4>1
      <4> QED
        BY <1>12, <4>1, <4>2 DEF Clean, DscsEnded
    <3>2. CASE N > 0
      <4>1. z.ndscs - 1 = w.ndscs + N /\ z.ndscs - 1 \in 0 .. MaxDscs - 1
        BY <1>3, <1>7, <1>8, <3>2
      <4>2. z.dscs[z.ndscs - 1] = w.dscs[z.ndscs - 1] /\ z.ndscs - 1 \in w.ndscs .. MaxDscs - 1
        BY <1>3, <1>7, <1>8, <3>2, <4>1
      <4> QED
        BY <1>12, <4>2 DEF Clean, NoDscsBehind, DscsEnded
    <3> QED
      BY <1>3, <3>1, <3>2
  <2>4. Numbered(z)
    <3>1. w.chrs[w.nchrs].uuid = NULL
      BY <1>3, <1>12 DEF Clean, NoChrsBehind
    <3>2. Numbered(x)
      BY <1>3, <1>4, <1>5, <1>12, <3>1, NumberedChr DEF Clean, ChrUsed
    <3>3. Numbered(y)
      BY <1>7, <1>12, <3>2 DEF Clean
    <3> QED
      BY <1>8, <3>3 DEF Numbered, ChrUsed, DscUsed
  <2> QED
    BY <2>1, <2>2, <2>3, <2>4 DEF Clean
<1>13. /\ z.svcs = w.svcs /\ z.nsvcs = w.nsvcs
       /\ z.nchrs = w.nchrs + 1 /\ z.ndscs = w.ndscs + WithEnd(N)
       /\ z.nuuids = w.nuuids + 1 + N /\ z.nvals = w.nvals + 1
       /\ \A i \in 0 .. MaxDscs - 1 : i < w.ndscs \/ i >= w.ndscs + N => z.dscs[i] = w.dscs[i]
  BY <1>7, <1>8
<1> QED
  BY <1>4, <1>9, <1>10, <1>11, <1>12, <1>13 DEF ChrSaved, z

-----------------------------------------------------------------------------
(* The characteristics of a service.                                       *)

\* What saving n characteristics of s, with d entries for descriptors, makes of w.
ChrsSaved(w, x, s, n, d) ==
  /\ Tables(x) /\ Fine(x)
  /\ x.svcs = w.svcs /\ x.nsvcs = w.nsvcs
  /\ x.nchrs = w.nchrs + n /\ x.ndscs = w.ndscs + d
  /\ x.nuuids <= w.nuuids + n + d /\ x.nvals = w.nvals + n
  /\ \A c \in 1 .. n : x.chrs[w.nchrs + c - 1].uuid = <<s.uuid, c>>
  /\ \A i \in 0 .. MaxChrs - 1 : i < w.nchrs \/ i >= w.nchrs + n => x.chrs[i] = w.chrs[i]
  /\ \A i \in 0 .. MaxDscs - 1 : i < w.ndscs \/ i = MaxDscs - 1 => x.dscs[i] = w.dscs[i]
  /\ Clean(w) => Clean(x)

\* Services a client may send.
Services == [uuid : STRING, chrs : Seq(Nat)]

\* The entries for the descriptors of the first n characteristics.
LEMMA DscSums ==
  ASSUME NEW s \in Services
  PROVE  \E f : /\ f[0] = 0 /\ f[Len(s.chrs)] = CountDscs(s)
                /\ \A n \in 0 .. Len(s.chrs) : f[n] \in Nat /\ f[n] <= CountDscs(s)
                /\ \A n \in 1 .. Len(s.chrs) : f[n] = f[n - 1] + WithEnd(s.chrs[n])
<1> DEFINE N == Len(s.chrs)
           e == [c \in 1 .. N |-> s.chrs[c] + IF s.chrs[c] > 0 THEN 1 ELSE 0]
<1>1. N \in Nat /\ \A n \in 1 .. N : s.chrs[n] \in Nat
  BY DEF Services
<1>2. Len(e) = N /\ \A n \in 1 .. N : e[n] = WithEnd(s.chrs[n]) /\ e[n] \in Nat
  BY <1>1 DEF WithEnd
<1>3. CountDscs(s) = SumOf(e)
  BY DEF CountDscs
<1> HIDE DEF e
<1>4. PICK f : /\ f[0] = 0
               /\ \A n \in 1 .. Len(e) : f[n] = f[n - 1] + e[n]
               /\ SumOf(e) = f[Len(e)]
  BY <1>1, <1>2, SumLoop
<1> HIDE DEF N
<1>5. \A n \in 1 .. N : f[n] = f[n - 1] + e[n]
  BY <1>2, <1>4
<1>6. \A n \in 1 .. N : f[n - 1] \in Nat => f[n] \in Nat /\ f[n - 1] <= f[n]
  BY <1>2, <1>5
<1>7. \A n \in 0 .. N : f[n] \in Nat /\ f[n] <= f[N]
  <2>1. N \in Nat /\ f[0] \in Nat
    BY <1>1, <1>4
  <2> QED
    BY <1>6, <2>1, Grows
<1>8. f[N] = CountDscs(s)
  BY <1>2, <1>3, <1>4
<1>9. \A n \in 1 .. N : f[n] = f[n - 1] + WithEnd(s.chrs[n])
  BY <1>2, <1>5
<1> QED
  BY <1>4, <1>7, <1>8, <1>9 DEF N

\* There is room for the characteristics of s and the entry that ends them.
ChrsFit(w, s) ==
  /\ w.nchrs + Len(s.chrs) < MaxChrs /\ w.ndscs + CountDscs(s) <= MaxDscs
  /\ w.nuuids + Len(s.chrs) + CountDscs(s) <= MaxUuids

LEMMA SaveChrsDoes ==
  ASSUME NEW w, Tables(w), Fine(w), NEW s \in Services, s.uuid \in Uuids, ChrsFit(w, s)
  PROVE  ChrsSaved(w, SaveChrs(w, s), s, Len(s.chrs), CountDscs(s))
<1> DEFINE N == Len(s.chrs)
           D == CountDscs(s)
<1>1. N \in Nat /\ \A n \in 1 .. N : s.chrs[n] \in Nat
  BY DEF Services
<1>2. PICK e : /\ e[0] = 0 /\ e[N] = D
               /\ \A n \in 0 .. N : e[n] \in Nat /\ e[n] <= D
               /\ \A n \in 1 .. N : e[n] = e[n - 1] + WithEnd(s.chrs[n])
  BY DscSums
<1>3. PICK f : /\ f[0] = w
               /\ \A n \in 1 .. N : f[n] = SaveChr(f[n - 1], s, n)
               /\ SaveChrs(w, s) = f[N]
  <2>1. Len(s.chrs) \in Nat
    BY <1>1
  <2> HIDE DEF N
  <2>2. N = Len(s.chrs)
    BY DEF N
  <2> QED
    BY <2>1, <2>2, ChrLoop
<1>4. D \in Nat /\ w.nchrs + N < MaxChrs /\ w.ndscs + D <= MaxDscs /\ w.nuuids + N + D <= MaxUuids
  BY <1>1, <1>2 DEF ChrsFit
<1> HIDE DEF N, D
<1> DEFINE S == {n \in 0 .. N : ChrsSaved(w, f[n], s, n, e[n])}
<1>5. 0 \in S
  BY <1>1, <1>2, <1>3, InTables DEF ChrsSaved
<1>6. ASSUME NEW n \in 0 .. N - 1, n \in S
      PROVE  n + 1 \in S
  <2> DEFINE v == f[n]
             x == f[n + 1]
             m == s.chrs[n + 1]
             a == e[n]
             b == e[n + 1]
             k == WithEnd(m)
  <2>1. ChrsSaved(w, v, s, n, e[n]) /\ n \in Nat /\ n + 1 \in 1 .. N /\ (n + 1) - 1 = n
    BY <1>1, <1>6
  <2>2. x = SaveChr(v, s, n + 1) /\ m \in Nat
    BY <1>1, <1>3, <2>1
  <2>3. a \in Nat /\ b \in Nat /\ b = a + k /\ b <= D
    BY <1>1, <1>2, <2>1
  <2> HIDE DEF v, x, a, b, S
  <2>4. /\ Tables(v) /\ Fine(v) /\ v.nuuids <= w.nuuids + n + a
        /\ v.nchrs = w.nchrs + n /\ v.ndscs = w.ndscs + a /\ v.nvals = w.nvals + n
    BY <2>1 DEF ChrsSaved, a
  <2>5. /\ w.nchrs \in Nat /\ w.ndscs \in Nat /\ w.nuuids \in Nat /\ w.nvals \in Nat
        /\ v.nuuids \in Nat /\ MaxUuids \in Nat /\ MaxChrs \in Nat /\ MaxDscs \in Nat
    BY <2>4, InTables, Sizes
  <2>6. m \in Nat /\ k \in Nat /\ m <= k /\ (m > 0 => k = m + 1)
    BY <2>2 DEF WithEnd
  <2> HIDE DEF m, k
  <2>6a. N \in Nat /\ n \in Nat /\ n + 1 <= N
    BY <1>1, <2>1
  <2>7. /\ v.nuuids + 1 + m <= MaxUuids /\ v.nchrs < MaxChrs /\ v.ndscs + k <= MaxDscs
    <3>1. v.nchrs < MaxChrs
      BY <1>4, <2>4, <2>5, <2>6a
    <3>2. v.ndscs + k <= MaxDscs
      BY <1>4, <2>3, <2>4, <2>5, <2>6
    <3>3. v.nuuids + 1 + m <= MaxUuids
      BY <1>4, <2>3, <2>4, <2>5, <2>6, <2>6a
    <3> QED
      BY <3>1, <3>2, <3>3
  <2>8. ChrSaved(v, x, s, n + 1)
    BY <1>1, <2>1, <2>2, <2>4, <2>7, SaveChrDoes DEF m, k
  <2>9. /\ Tables(x) /\ Fine(x) /\ x.svcs = w.svcs /\ x.nsvcs = w.nsvcs
        /\ Clean(w) => Clean(x)
    BY <2>1, <2>8 DEF ChrsSaved, ChrSaved
  <2>9a. /\ x.nchrs = v.nchrs + 1 /\ x.ndscs = v.ndscs + k
         /\ x.nuuids = v.nuuids + 1 + m /\ x.nvals = v.nvals + 1
    BY <2>8 DEF ChrSaved, m, k
  <2>10. /\ x.nchrs = w.nchrs + (n + 1) /\ x.ndscs = w.ndscs + b
         /\ x.nvals = w.nvals + (n + 1)
         /\ x.nuuids <= w.nuuids + (n + 1) + b
    <3>1. x.nchrs = w.nchrs + (n + 1) /\ x.nvals = w.nvals + (n + 1)
      BY <2>4, <2>5, <2>6a, <2>9a
    <3>2. x.ndscs = w.ndscs + b
      BY <2>3, <2>4, <2>5, <2>6, <2>9a
    <3>3. x.nuuids <= w.nuuids + (n + 1) + b
      BY <2>3, <2>4, <2>5, <2>6, <2>6a, <2>9a
    <3> QED
      BY <3>1, <3>2, <3>3
  <2>11. ASSUME NEW c \in 1 .. n + 1
         PROVE  x.chrs[w.nchrs + c - 1].uuid = <<s.uuid, c>>
    <3>1. CASE c = n + 1
      <4>1. w.nchrs + c - 1 = v.nchrs
        BY <2>4, <2>5, <2>6a, <3>1
      <4> QED
        BY <2>8, <3>1, <4>1 DEF ChrSaved
    <3>2. CASE c \in 1 .. n
      <4>1. w.nchrs + c - 1 # v.nchrs /\ w.nchrs + c - 1 \in 0 .. MaxChrs - 1
        BY <1>4, <2>4, <2>5, <2>6a, <3>2
      <4>2. x.chrs[w.nchrs + c - 1] = v.chrs[w.nchrs + c - 1]
        BY <2>8, <4>1 DEF ChrSaved
      <4> QED
        BY <2>1, <3>2, <4>2 DEF ChrsSaved
    <3> QED
      BY <2>6a, <3>1, <3>2
  <2>12. ASSUME NEW i \in 0 .. MaxChrs - 1, i < w.nchrs \/ i >= w.nchrs + (n + 1)
         PROVE  x.chrs[i] = w.chrs[i]
    <3>1. i # v.nchrs /\ (i < w.nchrs \/ i >= w.nchrs + n)
      BY <2>4, <2>5, <2>12, <2>6a
    <3> QED
      BY <2>1, <2>8, <3>1 DEF ChrsSaved, ChrSaved
  <2>13. ASSUME NEW i \in 0 .. MaxDscs - 1, i < w.ndscs \/ i = MaxDscs - 1
         PROVE  x.dscs[i] = w.dscs[i]
    <3>1. i < v.ndscs \/ i >= v.ndscs + m
      <4>1. v.ndscs \in Nat
        BY <2>3, <2>4, <2>5
      <4>2. i < w.ndscs => i < v.ndscs
        BY <2>3, <2>4, <2>5
      <4>3. m > 0 => v.ndscs + m + 1 <= MaxDscs
        BY <2>5, <2>6, <2>7, <4>1
      <4>4. i = MaxDscs - 1 => i < v.ndscs \/ i >= v.ndscs + m
        BY <2>5, <2>6, <4>1, <4>3
      <4> QED
        BY <2>13, <4>2, <4>4
    <3>2. x.dscs[i] = v.dscs[i]
      BY <2>8, <3>1 DEF ChrSaved, m
    <3> QED
      BY <2>1, <2>13, <3>2 DEF ChrsSaved
  <2>14. ChrsSaved(w, x, s, n + 1, e[n + 1])
    BY <2>9, <2>10, <2>11, <2>12, <2>13 DEF ChrsSaved, b
  <2> QED
    BY <2>1, <2>14 DEF x, S
<1>7. N \in S
  <2> HIDE DEF S
  <2>1. \A n \in 0 .. N : n \in S
    BY <1>1, <1>5, <1>6, UpTo
  <2> QED
    BY <1>1, <2>1
<1> QED
  BY <1>2, <1>3, <1>7 DEF N, D

-----------------------------------------------------------------------------
(* One service.                                                            *)

\* No service points behind the last characteristic.
Pointed(w) == \A i \in 0 .. MaxSvcs - 1 : w.svcs[i].chrs < w.nchrs

\* There is room for service s, and another entry behind it.
SvcFits(w, s) ==
  /\ w.nsvcs < MaxSvcs - 1
  /\ w.nuuids + 1 + Len(s.chrs) + CountDscs(s) <= MaxUuids
  /\ Len(s.chrs) > 0 => w.nchrs + Len(s.chrs) < MaxChrs
  /\ w.ndscs + CountDscs(s) <= MaxDscs

\* What saving service s makes of w.
SvcSaved(w, x, s) ==
  /\ Tables(x) /\ Fine(x)
  /\ x.nsvcs = w.nsvcs + 1
  /\ x.nchrs = w.nchrs + WithEnd(Len(s.chrs)) /\ x.ndscs = w.ndscs + CountDscs(s)
  /\ x.nuuids <= w.nuuids + 1 + Len(s.chrs) + CountDscs(s)
  /\ x.nvals = w.nvals + Len(s.chrs)
  /\ x.svcs[w.nsvcs].uuid = <<s.uuid>>
  /\ \A i \in 0 .. MaxSvcs - 1 : i # w.nsvcs => x.svcs[i] = w.svcs[i]
  /\ \A i \in 0 .. MaxChrs - 1 : i < w.nchrs \/ i = MaxChrs - 1 => x.chrs[i] = w.chrs[i]
  /\ \A i \in 0 .. MaxDscs - 1 : i < w.ndscs \/ i = MaxDscs - 1 => x.dscs[i] = w.dscs[i]
  /\ Clean(w) => Clean(x)
  /\ Clean(w) /\ ChrsEnded(w) => ChrsEnded(x)
  /\ Pointed(w) => Pointed(x)
  /\ Len(s.chrs) > 0 =>
       /\ x.svcs[w.nsvcs].chrs = w.nchrs
       /\ \A c \in 1 .. Len(s.chrs) : x.chrs[w.nchrs + c - 1].uuid = <<s.uuid, c>>
       /\ Clean(w) => x.chrs[w.nchrs + Len(s.chrs)].uuid = NULL

\* A service without characteristics has no descriptors.
LEMMA NoChrsNoDscs ==
  ASSUME NEW s \in Services
  PROVE  /\ CountDscs(s) \in Nat /\ Len(s.chrs) \in Nat
         /\ Len(s.chrs) = 0 => CountDscs(s) = 0
         /\ s.chrs # << >> <=> Len(s.chrs) > 0
<1>1. Len(s.chrs) \in Nat /\ (s.chrs # << >> <=> Len(s.chrs) > 0)
  BY DEF Services
<1>2. PICK f : /\ f[0] = 0 /\ f[Len(s.chrs)] = CountDscs(s)
               /\ \A n \in 0 .. Len(s.chrs) : f[n] \in Nat /\ f[n] <= CountDscs(s)
  BY DscSums
<1> DEFINE N == Len(s.chrs)
<1>3. N \in Nat /\ f[N] = CountDscs(s) /\ \A n \in 0 .. N : f[n] \in Nat
  BY <1>1, <1>2
<1> HIDE DEF N
<1>4. CountDscs(s) \in Nat /\ (N = 0 => CountDscs(s) = 0)
  BY <1>2, <1>3
<1> QED
  BY <1>1, <1>4 DEF N

LEMMA SaveSvcDoes ==
  ASSUME NEW w, Tables(w), Fine(w), NEW s \in Services, s.uuid \in Uuids, SvcFits(w, s)
  PROVE  SvcSaved(w, SaveSvc(w, s), s)
<1> DEFINE u == SaveUuid(w)
           def == [uuid |-> <<s.uuid>>,
                   chrs |-> IF s.chrs # << >> THEN u.nchrs ELSE u.svcs[u.nsvcs].chrs]
           x == [u EXCEPT !.svcs[u.nsvcs] = def]
           y == IF s.chrs # << >> THEN SkipChr(SaveChrs(x, s)) ELSE x
           z == SaveSvc(w, s)
           N == Len(s.chrs)
           D == CountDscs(s)
<1>1. /\ N \in Nat /\ D \in Nat /\ (N = 0 => D = 0) /\ (s.chrs # << >> <=> N > 0)
  BY NoChrsNoDscs
<1>2. /\ w.nsvcs < MaxSvcs - 1 /\ w.nuuids + 1 + N + D <= MaxUuids
      /\ N > 0 => w.nchrs + N < MaxChrs
      /\ w.ndscs + D <= MaxDscs
  BY DEF SvcFits
<1> HIDE DEF N, D
<1>3. /\ w.nsvcs \in Nat /\ w.nchrs \in Nat /\ w.ndscs \in Nat /\ w.nuuids \in Nat /\ w.nvals \in Nat
      /\ MaxSvcs \in Nat /\ MaxChrs \in Nat /\ MaxDscs \in Nat /\ MaxUuids \in Nat
  BY InTables, Sizes
<1>4. w.nsvcs \in 0 .. MaxSvcs - 1 /\ w.nsvcs < MaxSvcs /\ w.nuuids < MaxUuids
  BY <1>1, <1>2, <1>3, SMTT(60)
<1>5. N = 0 => WithEnd(N) = 0
  BY DEF WithEnd
<1>6. N > 0 => WithEnd(N) = N + 1
  BY DEF WithEnd
<1>7. /\ Tables(u) /\ Fine(u)
      /\ u.svcs = w.svcs /\ u.chrs = w.chrs /\ u.dscs = w.dscs
      /\ u.nsvcs = w.nsvcs /\ u.nchrs = w.nchrs /\ u.ndscs = w.ndscs
      /\ u.nuuids = w.nuuids + 1 /\ u.nvals = w.nvals
      /\ u.seq = w.seq /\ u.given = w.given
  BY <1>4, SaveUuidDoes
<1>8. z = [y EXCEPT !.nsvcs = @ + 1]
  <2>1. u.ok
    BY <1>7 DEF Fine
  <2>2. ~(u.nsvcs >= MaxSvcs)
    BY <1>3, <1>4, <1>7
  <2> QED
    BY <2>1, <2>2, Zenon DEF SaveSvc
<1> HIDE DEF u, z
<1>9. /\ def \in SvcDefs /\ def.uuid = <<s.uuid>>
      /\ def.chrs = IF N > 0 THEN w.nchrs ELSE w.svcs[w.nsvcs].chrs
  <2>1. u.svcs[u.nsvcs] \in SvcDefs
    BY <1>4, <1>7 DEF Tables
  <2>2. u.svcs[u.nsvcs].chrs \in -1 .. MaxChrs - 1
    BY <2>1 DEF SvcDefs
  <2>3. N > 0 => u.nchrs \in -1 .. MaxChrs - 1
    <3>1. N > 0 => w.nchrs + N < MaxChrs
      BY <1>2
    <3>2. N > 0 => w.nchrs \in -1 .. MaxChrs - 1
      BY <1>1, <1>3, <3>1, SMTT(60)
    <3>3. u.nchrs = w.nchrs
      BY <1>7
    <3> QED
      BY <3>2, <3>3, Zenon
  <2>4. def.chrs = IF N > 0 THEN u.nchrs ELSE u.svcs[u.nsvcs].chrs
    BY <1>1
  <2>5. def.chrs \in -1 .. MaxChrs - 1
    BY <2>2, <2>3, <2>4
  <2> QED
    BY <1>7, <2>4, <2>5 DEF SvcDefs
<1> HIDE DEF def
<1>10. /\ Shaped(x) /\ Tables(x)
       /\ x.chrs = w.chrs /\ x.dscs = w.dscs
       /\ x.svcs = [w.svcs EXCEPT ![w.nsvcs] = def]
       /\ x.nsvcs = w.nsvcs /\ x.nchrs = w.nchrs /\ x.ndscs = w.ndscs
       /\ x.nuuids = w.nuuids + 1 /\ x.nvals = w.nvals
       /\ x.seq = w.seq /\ x.given = w.given
  <2>1. /\ Shaped(x)
        /\ x.chrs = u.chrs /\ x.dscs = u.dscs
        /\ x.svcs = [u.svcs EXCEPT ![u.nsvcs] = def]
        /\ x.nsvcs = u.nsvcs /\ x.nchrs = u.nchrs /\ x.ndscs = u.ndscs
        /\ x.nuuids = u.nuuids /\ x.nvals = u.nvals
        /\ x.seq = u.seq /\ x.given = u.given
    <3>1. Shaped(u)
      BY <1>7 DEF Tables
    <3> QED
      BY <3>1 DEF Shaped
  <2> HIDE DEF x
  <2>2. x.svcs \in [0 .. MaxSvcs - 1 -> SvcDefs]
    <3>1. w.svcs \in [0 .. MaxSvcs - 1 -> SvcDefs]
      BY DEF Tables
    <3>2. x.svcs = [w.svcs EXCEPT ![w.nsvcs] = def]
      BY <1>7, <2>1
    <3> QED
      BY <1>9, <3>1, <3>2
  <2>3. /\ x.nsvcs \in Nat /\ x.nchrs \in Nat /\ x.ndscs \in Nat
        /\ x.nuuids \in Nat /\ x.nvals \in Nat /\ x.given \in Nat
        /\ x.seq \in 0 .. EvtNumbers - 1
    BY <1>7, <2>1, InTables
  <2>4. x.chrs \in [0 .. MaxChrs - 1 -> ChrDefs] /\ x.dscs \in [0 .. MaxDscs - 1 -> DscDefs]
    BY <1>7, <2>1 DEF Tables
  <2>5. Tables(x)
    BY <2>1, <2>2, <2>3, <2>4 DEF Tables
  <2> QED
    BY <1>7, <2>1, <2>5
<1>11. Fine(x)
  <2>1. x.ok = u.ok
    BY <1>7 DEF Tables, Shaped
  <2> QED
    BY <1>7, <2>1 DEF Fine
<1> HIDE DEF x
<1>12. /\ x.svcs[w.nsvcs] = def
       /\ \A i \in 0 .. MaxSvcs - 1 : i # w.nsvcs => x.svcs[i] = w.svcs[i]
  <2>1. w.svcs \in [0 .. MaxSvcs - 1 -> SvcDefs]
    BY DEF Tables
  <2> QED
    BY <1>4, <1>10, <2>1
<1>13. Clean(w) <=> Clean(x)
  BY <1>10 DEF Clean, NoChrsBehind, NoDscsBehind, DscsEnded, Numbered, ChrUsed, DscUsed
\* The characteristics and their terminator.
<1>14. /\ Tables(y) /\ Fine(y)
       /\ y.svcs = x.svcs /\ y.nsvcs = w.nsvcs
       /\ y.nchrs = w.nchrs + WithEnd(N) /\ y.ndscs = w.ndscs + D
       /\ y.nuuids <= w.nuuids + 1 + N + D /\ y.nvals = w.nvals + N
       /\ \A i \in 0 .. MaxChrs - 1 : i < w.nchrs \/ i = MaxChrs - 1 => y.chrs[i] = w.chrs[i]
       /\ \A i \in 0 .. MaxDscs - 1 : i < w.ndscs \/ i = MaxDscs - 1 => y.dscs[i] = w.dscs[i]
       /\ Clean(w) => Clean(y)
       /\ Clean(w) /\ ChrsEnded(w) => ChrsEnded(y)
       /\ N > 0 =>
            /\ \A c \in 1 .. N : y.chrs[w.nchrs + c - 1].uuid = <<s.uuid, c>>
            /\ Clean(w) => y.chrs[w.nchrs + N].uuid = NULL
  <2>1. CASE N = 0
    <3>1. y = x
      BY <1>1, <2>1
    <3> HIDE DEF y
    <3>2. /\ y.nchrs = w.nchrs + WithEnd(N) /\ y.ndscs = w.ndscs + D
          /\ y.nuuids <= w.nuuids + 1 + N + D /\ y.nvals = w.nvals + N
      BY <1>1, <1>3, <1>5, <1>10, <2>1, <3>1
    <3>3. ChrsEnded(w) => ChrsEnded(y)
      BY <1>10, <3>1 DEF ChrsEnded
    <3> QED
      BY <1>10, <1>11, <1>13, <2>1, <3>1, <3>2, <3>3
  <2>2. CASE N > 0
    <3> DEFINE v == SaveChrs(x, s)
    <3>1. ChrsSaved(x, v, s, N, D)
      <4>1. x.nchrs + N < MaxChrs /\ x.ndscs + D <= MaxDscs /\ x.nuuids + N + D <= MaxUuids
        BY <1>1, <1>2, <1>3, <1>10, <2>2
      <4>2. ChrsFit(x, s)
        BY <4>1 DEF ChrsFit, N, D
      <4> QED
        BY <1>10, <1>11, <4>2, SaveChrsDoes DEF N, D
    <3>2. y = SkipChr(v)
      BY <1>1, <2>2
    <3> HIDE DEF v, y
    <3>3. /\ Shaped(y)
          /\ y.svcs = v.svcs /\ y.chrs = v.chrs /\ y.dscs = v.dscs
          /\ y.nsvcs = v.nsvcs /\ y.nchrs = v.nchrs + 1 /\ y.ndscs = v.ndscs
          /\ y.nuuids = v.nuuids /\ y.nvals = v.nvals
          /\ y.seq = v.seq /\ y.given = v.given
      BY <3>1, <3>2 DEF ChrsSaved, Tables, Shaped, SkipChr
    <3>4. y.ok = v.ok
      BY <3>1, <3>2 DEF ChrsSaved, Tables, Shaped, SkipChr
    <3>5. /\ Tables(v) /\ Fine(v) /\ v.svcs = x.svcs /\ v.nsvcs = w.nsvcs
          /\ v.nchrs = w.nchrs + N /\ v.ndscs = w.ndscs + D
          /\ v.nuuids <= (w.nuuids + 1) + N + D /\ v.nvals = w.nvals + N
      BY <1>10, <3>1 DEF ChrsSaved
    <3>6. v.nuuids \in Nat /\ v.nchrs \in Nat
      BY <3>5, InTables
    <3>7. Tables(y)
      <4>1. y.nsvcs \in Nat /\ y.nchrs \in Nat /\ y.ndscs \in Nat
        BY <3>3, <3>5, InTables
      <4> QED
        BY <3>3, <3>5, <4>1, Counted
    <3>8. Fine(y)
      BY <3>4, <3>5 DEF Fine
    <3>9. /\ y.nchrs = w.nchrs + N + 1 /\ y.ndscs = w.ndscs + D
          /\ y.nuuids <= w.nuuids + 1 + N + D /\ y.nvals = w.nvals + N
      BY <1>1, <1>3, <3>3, <3>5, <3>6
    <3>10. y.nchrs = w.nchrs + WithEnd(N)
      <4>1. WithEnd(N) = N + 1
        BY <1>6, <2>2
      <4>2. y.nchrs = w.nchrs + N + 1 /\ w.nchrs + N + 1 = w.nchrs + (N + 1)
        BY <1>1, <1>3, <3>9, SMTT(60)
      <4> QED
        BY <4>1, <4>2, Zenon
    <3>11. ASSUME NEW i \in 0 .. MaxChrs - 1, i < w.nchrs \/ i = MaxChrs - 1
           PROVE  y.chrs[i] = w.chrs[i]
      <4>1. i < x.nchrs \/ i >= x.nchrs + N
        BY <1>1, <1>2, <1>3, <1>10, <2>2, <3>11, SMTT(60)
      <4> QED
        BY <1>10, <3>1, <3>3, <4>1 DEF ChrsSaved
    <3>12. ASSUME NEW i \in 0 .. MaxDscs - 1, i < w.ndscs \/ i = MaxDscs - 1
           PROVE  y.dscs[i] = w.dscs[i]
      BY <1>10, <3>1, <3>3, <3>12 DEF ChrsSaved
    <3>13. ASSUME NEW c \in 1 .. N
           PROVE  y.chrs[w.nchrs + c - 1].uuid = <<s.uuid, c>>
      BY <1>10, <3>1, <3>3 DEF ChrsSaved
    <3>14. ASSUME Clean(w)
           PROVE  y.chrs[w.nchrs + N].uuid = NULL /\ Clean(y)
      <4>1. Clean(v)
        BY <1>13, <3>1, <3>14 DEF ChrsSaved
      <4>2. w.nchrs + N \in v.nchrs .. MaxChrs - 1
        <5>1. w.nchrs + N < MaxChrs
          BY <1>2, <2>2
        <5> QED
          BY <1>1, <1>3, <3>5, <3>6, <5>1, SMTT(60)
      <4>3. y.chrs[w.nchrs + N].uuid = NULL
        BY <3>3, <4>1, <4>2 DEF Clean, NoChrsBehind
      <4>4. NoChrsBehind(y)
        <5>1. \A i \in y.nchrs .. MaxChrs - 1 : i \in v.nchrs .. MaxChrs - 1
          BY <1>3, <3>3, <3>6
        <5> QED
          BY <3>3, <4>1, <5>1 DEF Clean, NoChrsBehind
      <4>5. NoDscsBehind(y) /\ DscsEnded(y)
        BY <3>3, <4>1 DEF Clean, NoDscsBehind, DscsEnded
      <4>6. Numbered(y)
        BY <3>3, <4>1 DEF Clean, Numbered, ChrUsed, DscUsed
      <4> QED
        BY <4>3, <4>4, <4>5, <4>6 DEF Clean
    <3>15. Clean(w) => ChrsEnded(y)
      <4>1. y.nchrs - 1 = w.nchrs + N
        BY <1>1, <1>3, <3>9
      <4> QED
        BY <3>14, <4>1 DEF ChrsEnded
    <3> QED
      BY <3>3, <3>5, <3>7, <3>8, <3>9, <3>10, <3>11, <3>12, <3>13, <3>14, <3>15
  <2>3. N = 0 \/ N > 0
    BY <1>1
  <2> QED
    BY <2>1, <2>2, <2>3, Zenon
<1> HIDE DEF y
<1>15. /\ Shaped(z)
       /\ z.svcs = y.svcs /\ z.chrs = y.chrs /\ z.dscs = y.dscs
       /\ z.nsvcs = y.nsvcs + 1 /\ z.nchrs = y.nchrs /\ z.ndscs = y.ndscs
       /\ z.nuuids = y.nuuids /\ z.nvals = y.nvals
       /\ z.seq = y.seq /\ z.given = y.given
  BY <1>8, <1>14 DEF Tables, Shaped
<1>16. Tables(z)
  <2>1. z.nsvcs \in Nat /\ z.nchrs \in Nat /\ z.ndscs \in Nat
    BY <1>14, <1>15, InTables
  <2> QED
    BY <1>14, <1>15, <2>1, Counted
<1>17. Fine(z)
  <2>1. z.ok = y.ok
    BY <1>8, <1>14 DEF Tables, Shaped
  <2> QED
    BY <1>14, <2>1 DEF Fine
<1>18. Clean(y) => Clean(z)
  BY <1>15 DEF Clean, NoChrsBehind, NoDscsBehind, DscsEnded, Numbered, ChrUsed, DscUsed
<1>19. ChrsEnded(y) => ChrsEnded(z)
  BY <1>15 DEF ChrsEnded
<1>20. z.svcs[w.nsvcs].uuid = <<s.uuid>> /\ (N > 0 => z.svcs[w.nsvcs].chrs = w.nchrs)
  BY <1>9, <1>12, <1>14, <1>15
<1>21. \A i \in 0 .. MaxSvcs - 1 : i # w.nsvcs => z.svcs[i] = w.svcs[i]
  BY <1>12, <1>14, <1>15
<1>22. Pointed(w) => Pointed(z)
  <2> SUFFICES ASSUME Pointed(w), NEW i \in 0 .. MaxSvcs - 1
               PROVE  z.svcs[i].chrs < z.nchrs
    BY DEF Pointed
  <2> DEFINE a == w.svcs[i].chrs
  <2>1. a < w.nchrs /\ a \in Int
    <3>1. w.svcs[i] \in SvcDefs
      BY DEF Tables
    <3>2. w.svcs[i].chrs \in -1 .. MaxChrs - 1
      BY <3>1 DEF SvcDefs
    <3> QED
      BY <1>3, <3>2 DEF Pointed
  <2>2. z.nchrs = w.nchrs + WithEnd(N)
    BY <1>14, <1>15
  <2>3. WithEnd(N) \in Nat /\ (N > 0 => WithEnd(N) > 0)
    BY <1>1 DEF WithEnd
  <2>4. \/ z.svcs[i].chrs = a
        \/ N > 0 /\ z.svcs[i].chrs = w.nchrs
    <3>1. CASE i = w.nsvcs
      BY <1>9, <1>12, <1>14, <1>15, <3>1
    <3>2. CASE i # w.nsvcs
      BY <1>21, <3>2
    <3> QED
      BY <3>1, <3>2
  <2> HIDE DEF a
  <2> QED
    BY <1>3, <2>1, <2>2, <2>3, <2>4
<1> QED
  BY <1>14, <1>15, <1>16, <1>17, <1>18, <1>19, <1>20, <1>21, <1>22 DEF SvcSaved, z, N, D

-----------------------------------------------------------------------------
(* The services of a request.                                              *)

\* Service i of the tables has the characteristics of s, and their list ends.
SvcHeld(w, i, s) ==
  LET d == w.svcs[i].chrs IN
    /\ d \in Nat /\ d + Len(s.chrs) < w.nchrs
    /\ \A c \in 1 .. Len(s.chrs) : w.chrs[d + c - 1].uuid = <<s.uuid, c>>
    /\ w.chrs[d + Len(s.chrs)].uuid = NULL

\* A service that was saved is held.
LEMMA SavedIsHeld ==
  ASSUME NEW w, Tables(w), NEW s \in Services, Len(s.chrs) > 0, NEW x, SvcSaved(w, x, s), Clean(w)
  PROVE  SvcHeld(x, w.nsvcs, s)
<1> DEFINE N == Len(s.chrs)
           d == x.svcs[w.nsvcs].chrs
<1>1. N \in Nat /\ N > 0
  BY NoChrsNoDscs
<1>2. /\ x.nchrs = w.nchrs + WithEnd(N) /\ d = w.nchrs
      /\ \A c \in 1 .. N : x.chrs[w.nchrs + c - 1].uuid = <<s.uuid, c>>
      /\ x.chrs[w.nchrs + N].uuid = NULL
  BY DEF SvcSaved
<1> HIDE DEF N, d
<1>3. WithEnd(N) = N + 1 /\ w.nchrs \in Nat
  BY <1>1, InTables DEF WithEnd
<1>4. d \in Nat /\ d + N < x.nchrs
  BY <1>1, <1>2, <1>3
<1> QED
  BY <1>2, <1>4 DEF SvcHeld, N, d

\* It stays so while other services are saved.
LEMMA HeldStays ==
  ASSUME NEW w, Tables(w), NEW i \in 0 .. MaxSvcs - 1, i # w.nsvcs, NEW s \in Services,
         SvcHeld(w, i, s), w.nchrs <= MaxChrs, NEW q \in Services, NEW x, SvcSaved(w, x, q)
  PROVE  SvcHeld(x, i, s)
<1> DEFINE N == Len(s.chrs)
           d == w.svcs[i].chrs
           M == Len(q.chrs)
<1>1. N \in Nat /\ M \in Nat
  BY NoChrsNoDscs
<1>2. /\ d \in Nat /\ d + N < w.nchrs
      /\ \A c \in 1 .. N : w.chrs[d + c - 1].uuid = <<s.uuid, c>>
      /\ w.chrs[d + N].uuid = NULL
  BY DEF SvcHeld
<1>3. x.svcs[i].chrs = d /\ x.nchrs = w.nchrs + WithEnd(M)
  BY DEF SvcSaved
<1> HIDE DEF N, M, d
<1>4. w.nchrs \in Nat /\ WithEnd(M) \in Nat /\ MaxChrs \in Nat
  BY <1>1, InTables, Sizes DEF WithEnd
<1>5. d + N < x.nchrs
  BY <1>1, <1>2, <1>3, <1>4
<1>6. \A j \in 0 .. d + N : j \in 0 .. MaxChrs - 1 /\ j < w.nchrs
  BY <1>1, <1>2, <1>4
<1>7. \A j \in 0 .. d + N : x.chrs[j] = w.chrs[j]
  BY <1>6 DEF SvcSaved
<1>8. \A c \in 1 .. N : d + c - 1 \in 0 .. d + N
  BY <1>1, <1>2
<1>9. d + N \in 0 .. d + N
  BY <1>1, <1>2
<1> QED
  BY <1>2, <1>3, <1>5, <1>7, <1>8, <1>9 DEF SvcHeld, N, d

\* What saving the first n services of r makes of w: at most c entries for
\* characteristics, d for descriptors and v values are taken.
SvcsSaved(w, x, r, n, c, d, v) ==
  /\ Tables(x) /\ Fine(x)
  /\ x.nsvcs = w.nsvcs + n
  /\ w.nchrs <= x.nchrs /\ x.nchrs <= w.nchrs + c
  /\ x.ndscs = w.ndscs + d
  /\ x.nuuids <= w.nuuids + n + c + d /\ x.nvals = w.nvals + v
  /\ \A k \in 1 .. n : x.svcs[w.nsvcs + k - 1].uuid = <<r[k].uuid>>
  /\ \A i \in 0 .. MaxSvcs - 1 : i < w.nsvcs \/ i >= w.nsvcs + n => x.svcs[i] = w.svcs[i]
  /\ \A i \in 0 .. MaxChrs - 1 : i < w.nchrs \/ i = MaxChrs - 1 => x.chrs[i] = w.chrs[i]
  /\ \A i \in 0 .. MaxDscs - 1 : i < w.ndscs \/ i = MaxDscs - 1 => x.dscs[i] = w.dscs[i]
  /\ Clean(w) => Clean(x)
  /\ Clean(w) /\ ChrsEnded(w) => ChrsEnded(x)
  /\ Pointed(w) => Pointed(x)
  /\ Clean(w) => \A k \in 1 .. n : Len(r[k].chrs) > 0 => SvcHeld(x, w.nsvcs + k - 1, r[k])

\* There is room for n services and the entry that ends them, with c entries for
\* characteristics and d for descriptors.
Room(w, n, c, d) ==
  /\ w.nsvcs + n < MaxSvcs /\ w.nchrs + c <= MaxChrs /\ w.ndscs + d <= MaxDscs
  /\ w.nuuids + n + c + d <= MaxUuids

\* One more service.
LEMMA OneMore ==
  ASSUME NEW w, Tables(w), NEW r, NEW n \in Nat,
         \A k \in 1 .. n + 1 : r[k] \in Services /\ r[k].uuid \in Uuids,
         NEW c \in Nat, NEW d \in Nat, NEW v \in Nat,
         NEW e \in Nat, e = CountChrs(c, r[n + 1]),
         NEW x, SvcsSaved(w, x, r, n, c, d, v),
         Room(w, n + 1, e, d + CountDscs(r[n + 1])),
         NEW y, y = SaveSvc(x, r[n + 1])
  PROVE  SvcsSaved(w, y, r, n + 1, e, d + CountDscs(r[n + 1]), v + Len(r[n + 1].chrs))
<1> DEFINE s == r[n + 1]
           N == Len(s.chrs)
           D == CountDscs(s)
<1>1. s \in Services /\ s.uuid \in Uuids /\ N \in Nat /\ D \in Nat
  BY NoChrsNoDscs
<1>2. /\ w.nsvcs + (n + 1) < MaxSvcs /\ w.nchrs + e <= MaxChrs /\ w.ndscs + (d + D) <= MaxDscs
      /\ w.nuuids + (n + 1) + e + (d + D) <= MaxUuids
  BY DEF Room
<1>3. e = IF c + N > 0 THEN c + N + 1 ELSE c + N
  BY DEF CountChrs
<1>4. y = SaveSvc(x, s)
  OBVIOUS
<1> HIDE DEF s, N, D
<1>5. c + N <= e /\ (N > 0 => e = c + N + 1)
  BY <1>1, <1>3
<1>6. /\ w.nsvcs \in Nat /\ w.nchrs \in Nat /\ w.ndscs \in Nat /\ w.nuuids \in Nat /\ w.nvals \in Nat
      /\ MaxSvcs \in Nat /\ MaxChrs \in Nat /\ MaxDscs \in Nat /\ MaxUuids \in Nat
  BY InTables, Sizes
<1>7. /\ Tables(x) /\ Fine(x) /\ x.nsvcs = w.nsvcs + n
      /\ w.nchrs <= x.nchrs /\ x.nchrs <= w.nchrs + c
      /\ x.ndscs = w.ndscs + d
      /\ x.nuuids <= w.nuuids + n + c + d /\ x.nvals = w.nvals + v
  BY DEF SvcsSaved
<1>8. /\ x.nsvcs \in Nat /\ x.nchrs \in Nat /\ x.ndscs \in Nat /\ x.nuuids \in Nat /\ x.nvals \in Nat
  BY <1>7, InTables
<1>9. SvcFits(x, s)
  <2>1. x.nsvcs < MaxSvcs - 1
    BY <1>2, <1>6, <1>7, <1>8
  <2>2. x.ndscs + D <= MaxDscs
    BY <1>1, <1>2, <1>6, <1>7, <1>8
  <2>3. N > 0 => x.nchrs + N < MaxChrs
    BY <1>1, <1>2, <1>5, <1>6, <1>7, <1>8
  <2>4. x.nuuids + 1 + N + D <= MaxUuids
    BY <1>1, <1>2, <1>5, <1>6, <1>7, <1>8
  <2> QED
    BY <2>1, <2>2, <2>3, <2>4 DEF SvcFits, N, D
<1>10. SvcSaved(x, y, s)
  BY <1>1, <1>4, <1>7, <1>9, SaveSvcDoes
<1>11. /\ Tables(y) /\ Fine(y)
       /\ y.nsvcs = x.nsvcs + 1 /\ y.nchrs = x.nchrs + WithEnd(N) /\ y.ndscs = x.ndscs + D
       /\ y.nuuids <= x.nuuids + 1 + N + D /\ y.nvals = x.nvals + N
  BY <1>10 DEF SvcSaved, N, D
<1>12. y.nsvcs \in Nat /\ y.nchrs \in Nat /\ y.ndscs \in Nat /\ y.nuuids \in Nat /\ y.nvals \in Nat
  BY <1>11, InTables
<1>13. y.nsvcs = w.nsvcs + (n + 1) /\ y.ndscs = w.ndscs + (d + D) /\ y.nvals = w.nvals + (v + N)
  <2>1. y.nsvcs = w.nsvcs + (n + 1)
    BY <1>6, <1>7, <1>8, <1>11, <1>12
  <2>2. y.ndscs = w.ndscs + (d + D)
    BY <1>1, <1>6, <1>7, <1>8, <1>11, <1>12
  <2>3. y.nvals = w.nvals + (v + N)
    BY <1>1, <1>6, <1>7, <1>8, <1>11, <1>12
  <2> QED
    BY <2>1, <2>2, <2>3
<1>14. w.nchrs <= y.nchrs /\ y.nchrs <= w.nchrs + e
  <2>1. CASE N = 0
    <3>1. WithEnd(N) = 0
      BY <2>1 DEF WithEnd
    <3>2. y.nchrs = x.nchrs
      BY <1>8, <1>11, <3>1
    <3> QED
      BY <1>5, <1>6, <1>7, <1>8, <2>1, <3>2
  <2>2. CASE N > 0
    <3>1. WithEnd(N) = N + 1
      BY <2>2 DEF WithEnd
    <3>2. y.nchrs = x.nchrs + (N + 1)
      BY <1>11, <3>1
    <3>3. e = c + N + 1
      BY <1>5, <2>2
    <3> QED
      BY <1>1, <1>6, <1>7, <1>8, <3>2, <3>3
  <2> QED
    BY <1>1, <2>1, <2>2
<1>15. y.nuuids <= w.nuuids + (n + 1) + e + (d + D)
  BY <1>1, <1>5, <1>6, <1>7, <1>8, <1>11, <1>12
<1>16. ASSUME NEW k \in 1 .. n + 1
       PROVE  y.svcs[w.nsvcs + k - 1].uuid = <<r[k].uuid>>
  <2>1. CASE k = n + 1
    <3>1. w.nsvcs + k - 1 = x.nsvcs
      BY <1>6, <1>7, <2>1
    <3> QED
      BY <1>10, <2>1, <3>1 DEF SvcSaved, s
  <2>2. CASE k \in 1 .. n
    <3>1. w.nsvcs + k - 1 \in 0 .. MaxSvcs - 1 /\ w.nsvcs + k - 1 # x.nsvcs
      BY <1>2, <1>6, <1>7, <2>2
    <3>2. y.svcs[w.nsvcs + k - 1] = x.svcs[w.nsvcs + k - 1]
      BY <1>10, <3>1 DEF SvcSaved
    <3> QED
      BY <2>2, <3>2 DEF SvcsSaved
  <2> QED
    BY <2>1, <2>2
<1>17. ASSUME NEW i \in 0 .. MaxSvcs - 1, i < w.nsvcs \/ i >= w.nsvcs + (n + 1)
       PROVE  y.svcs[i] = w.svcs[i]
  <2>1. i # x.nsvcs /\ (i < w.nsvcs \/ i >= w.nsvcs + n)
    BY <1>6, <1>7, <1>17
  <2> QED
    BY <1>10, <2>1 DEF SvcSaved, SvcsSaved
<1>18. ASSUME NEW i \in 0 .. MaxChrs - 1, i < w.nchrs \/ i = MaxChrs - 1
       PROVE  y.chrs[i] = w.chrs[i]
  <2>1. i < x.nchrs \/ i = MaxChrs - 1
    BY <1>6, <1>7, <1>8, <1>18
  <2> QED
    BY <1>10, <1>18, <2>1 DEF SvcSaved, SvcsSaved
<1>19. ASSUME NEW i \in 0 .. MaxDscs - 1, i < w.ndscs \/ i = MaxDscs - 1
       PROVE  y.dscs[i] = w.dscs[i]
  <2>1. i < x.ndscs \/ i = MaxDscs - 1
    BY <1>6, <1>7, <1>8, <1>19
  <2> QED
    BY <1>10, <1>19, <2>1 DEF SvcSaved, SvcsSaved
<1>20. /\ Clean(w) => Clean(y)
       /\ Clean(w) /\ ChrsEnded(w) => ChrsEnded(y)
       /\ Pointed(w) => Pointed(y)
  BY <1>10 DEF SvcSaved, SvcsSaved
<1>21. ASSUME Clean(w), NEW k \in 1 .. n + 1, Len(r[k].chrs) > 0
       PROVE  SvcHeld(y, w.nsvcs + k - 1, r[k])
  <2>1. Clean(x)
    BY <1>21 DEF SvcsSaved
  <2>2. CASE k = n + 1
    <3>1. w.nsvcs + k - 1 = x.nsvcs
      BY <1>6, <1>7, <2>2
    <3>2. SvcHeld(y, x.nsvcs, s)
      BY <1>1, <1>7, <1>10, <1>21, <2>1, <2>2, SavedIsHeld DEF s
    <3> QED
      BY <2>2, <3>1, <3>2 DEF s
  <2>3. CASE k \in 1 .. n
    <3>1. w.nsvcs + k - 1 \in 0 .. MaxSvcs - 1 /\ w.nsvcs + k - 1 # x.nsvcs
      BY <1>2, <1>6, <1>7, <2>3
    <3>2. SvcHeld(x, w.nsvcs + k - 1, r[k])
      BY <1>21, <2>3 DEF SvcsSaved
    <3>3. x.nchrs <= MaxChrs
      BY <1>1, <1>2, <1>5, <1>6, <1>7, <1>8
    <3> QED
      BY <1>1, <1>7, <1>10, <3>1, <3>2, <3>3, HeldStays
  <2> QED
    BY <2>2, <2>3
<1>22. SvcsSaved(w, y, r, n + 1, e, d + D, v + N)
  BY <1>11, <1>13, <1>14, <1>15, <1>16, <1>17, <1>18, <1>19, <1>20, <1>21 DEF SvcsSaved
<1> QED
  BY <1>22 DEF s, N, D

\* What bhd_gatts_cnt_resources() counts, service by service.
LEMMA Resources ==
  ASSUME NEW r \in Seq(Services)
  PROVE  /\ CntResources(r).chrs \in Nat /\ CntResources(r).dscs \in Nat /\ CntResources(r).vals \in Nat
         /\ \E f : \E g : \E h :
           /\ f[0] = 0 /\ g[0] = 0 /\ h[0] = 0
           /\ \A n \in 0 .. Len(r) : f[n] \in Nat /\ f[n] <= f[Len(r)]
           /\ \A n \in 0 .. Len(r) : g[n] \in Nat /\ g[n] <= g[Len(r)]
           /\ \A n \in 0 .. Len(r) : h[n] \in Nat /\ h[n] <= h[Len(r)]
           /\ \A n \in 1 .. Len(r) : /\ f[n] = CountChrs(f[n - 1], r[n])
                                     /\ g[n] = g[n - 1] + CountDscs(r[n])
                                     /\ h[n] = h[n - 1] + Len(r[n].chrs)
           /\ CntResources(r).chrs = f[Len(r)]
           /\ CntResources(r).dscs = g[Len(r)]
           /\ CntResources(r).vals = h[Len(r)]
<1> DEFINE L == Len(r)
           dscs == [n \in 1 .. L |-> CountDscs(r[n])]
           vals == [n \in 1 .. L |-> Len(r[n].chrs)]
<1>1. L \in Nat /\ \A n \in 1 .. L : r[n] \in Services
  OBVIOUS
<1>2. \A n \in 1 .. L : CountDscs(r[n]) \in Nat /\ Len(r[n].chrs) \in Nat
  BY <1>1, NoChrsNoDscs
<1>3. /\ Len(dscs) = L /\ \A n \in 1 .. L : dscs[n] = CountDscs(r[n])
      /\ Len(vals) = L /\ \A n \in 1 .. L : vals[n] = Len(r[n].chrs)
  BY <1>1
<1>4. CntResources(r).dscs = SumOf(dscs) /\ CntResources(r).vals = SumOf(vals)
  BY DEF CntResources
<1> HIDE DEF dscs, vals
<1>5. PICK f : /\ f[0] = 0
               /\ \A n \in 1 .. Len(r) : f[n] = CountChrs(f[n - 1], r[n])
               /\ CntChrs(r) = f[Len(r)]
  BY <1>1, CountLoop
<1>6. PICK g : /\ g[0] = 0
               /\ \A n \in 1 .. L : g[n] = g[n - 1] + CountDscs(r[n])
               /\ SumOf(dscs) = g[L]
  <2>1. \E g : /\ g[0] = 0
               /\ \A n \in 1 .. Len(dscs) : g[n] = g[n - 1] + dscs[n]
               /\ SumOf(dscs) = g[Len(dscs)]
    BY <1>1, <1>3, SumLoop
  <2> HIDE DEF L
  <2> QED
    BY <1>3, <2>1
<1>7. PICK h : /\ h[0] = 0
               /\ \A n \in 1 .. L : h[n] = h[n - 1] + Len(r[n].chrs)
               /\ SumOf(vals) = h[L]
  <2>1. \E h : /\ h[0] = 0
               /\ \A n \in 1 .. Len(vals) : h[n] = h[n - 1] + vals[n]
               /\ SumOf(vals) = h[Len(vals)]
    BY <1>1, <1>3, SumLoop
  <2> HIDE DEF L
  <2> QED
    BY <1>3, <2>1
<1>8. \A n \in 1 .. L : f[n] = CountChrs(f[n - 1], r[n])
  BY <1>5
<1>9. CntResources(r).chrs = f[L]
  <2>1. CntResources(r).chrs = CntChrs(r)
    BY DEF CntResources
  <2> QED
    BY <1>5, <2>1
<1> HIDE DEF L
<1>10. \A n \in 1 .. L : f[n - 1] \in Nat => f[n] \in Nat /\ f[n - 1] <= f[n]
  <2> SUFFICES ASSUME NEW n \in 1 .. L, f[n - 1] \in Nat
               PROVE  f[n] \in Nat /\ f[n - 1] <= f[n]
    OBVIOUS
  <2> DEFINE a == f[n - 1]
             m == Len(r[n].chrs)
  <2>1. f[n] = CountChrs(a, r[n]) /\ a \in Nat /\ m \in Nat
    BY <1>2, <1>8
  <2>2. CountChrs(a, r[n]) = IF a + m > 0 THEN a + m + 1 ELSE a + m
    BY DEF CountChrs
  <2> HIDE DEF a, m
  <2>3. CountChrs(a, r[n]) \in Nat /\ a <= CountChrs(a, r[n])
    BY <2>1, <2>2
  <2> QED
    BY <2>1, <2>3 DEF a
<1>11. \A n \in 1 .. L : g[n - 1] \in Nat => g[n] \in Nat /\ g[n - 1] <= g[n]
  BY <1>2, <1>6
<1>12. \A n \in 1 .. L : h[n - 1] \in Nat => h[n] \in Nat /\ h[n - 1] <= h[n]
  BY <1>2, <1>7
<1>13. f[0] \in Nat /\ g[0] \in Nat /\ h[0] \in Nat
  BY <1>5, <1>6, <1>7
<1>14. \A n \in 0 .. L : f[n] \in Nat /\ f[n] <= f[L]
  BY <1>1, <1>10, <1>13, Grows
<1>15. \A n \in 0 .. L : g[n] \in Nat /\ g[n] <= g[L]
  BY <1>1, <1>11, <1>13, Grows
<1>16. \A n \in 0 .. L : h[n] \in Nat /\ h[n] <= h[L]
  BY <1>1, <1>12, <1>13, Grows
<1>17. \A n \in 1 .. L : /\ f[n] = CountChrs(f[n - 1], r[n])
                         /\ g[n] = g[n - 1] + CountDscs(r[n])
                         /\ h[n] = h[n - 1] + Len(r[n].chrs)
  BY <1>6, <1>7, <1>8
<1>18. CntResources(r).dscs = g[L] /\ CntResources(r).vals = h[L]
  BY <1>4, <1>6, <1>7
<1>19. /\ CntResources(r).chrs \in Nat /\ CntResources(r).dscs \in Nat
       /\ CntResources(r).vals \in Nat
  <2>1. L \in 0 .. L
    BY <1>1
  <2> QED
    BY <1>9, <1>14, <1>15, <1>16, <1>18, <2>1
<1> QED
  BY <1>5, <1>6, <1>7, <1>9, <1>14, <1>15, <1>16, <1>17, <1>18, <1>19, Zenon DEF L

\* A request for which there is room is saved.
LEMMA SaveSvcsDoes ==
  ASSUME NEW w, Tables(w), Fine(w), NEW r \in Seq(Services), \A k \in 1 .. Len(r) : r[k].uuid \in Uuids,
         Room(w, Len(r), CntResources(r).chrs, CntResources(r).dscs)
  PROVE  /\ CntResources(r).chrs \in Nat /\ CntResources(r).dscs \in Nat /\ CntResources(r).vals \in Nat
         /\ SvcsSaved(w, SaveSvcs(w, r), r, Len(r),
                      CntResources(r).chrs, CntResources(r).dscs, CntResources(r).vals)
<1> DEFINE L == Len(r)
           C == CntResources(r).chrs
           D == CntResources(r).dscs
           V == CntResources(r).vals
<1>1. L \in Nat /\ \A n \in 1 .. L : r[n] \in Services /\ r[n].uuid \in Uuids
  OBVIOUS
<1>3. PICK x : /\ x[0] = w
               /\ \A n \in 1 .. L : x[n] = SaveSvc(x[n - 1], r[n])
               /\ SaveSvcs(w, r) = x[L]
  <2>1. Len(r) \in Nat
    BY <1>1
  <2> QED
    BY <2>1, SvcLoop
<1>4. Room(w, L, C, D)
  OBVIOUS
<1> HIDE DEF L, C, D, V
<1>5. PICK f : \E g : \E h :
        /\ f[0] = 0 /\ g[0] = 0 /\ h[0] = 0
        /\ \A n \in 0 .. Len(r) : f[n] \in Nat /\ f[n] <= f[Len(r)]
        /\ \A n \in 0 .. Len(r) : g[n] \in Nat /\ g[n] <= g[Len(r)]
        /\ \A n \in 0 .. Len(r) : h[n] \in Nat /\ h[n] <= h[Len(r)]
        /\ \A n \in 1 .. Len(r) : /\ f[n] = CountChrs(f[n - 1], r[n])
                                  /\ g[n] = g[n - 1] + CountDscs(r[n])
                                  /\ h[n] = h[n - 1] + Len(r[n].chrs)
        /\ CntResources(r).chrs = f[Len(r)]
        /\ CntResources(r).dscs = g[Len(r)]
        /\ CntResources(r).vals = h[Len(r)]
  BY Resources, Zenon
<1>6. PICK g : \E h :
        /\ f[0] = 0 /\ g[0] = 0 /\ h[0] = 0
        /\ \A n \in 0 .. Len(r) : f[n] \in Nat /\ f[n] <= f[Len(r)]
        /\ \A n \in 0 .. Len(r) : g[n] \in Nat /\ g[n] <= g[Len(r)]
        /\ \A n \in 0 .. Len(r) : h[n] \in Nat /\ h[n] <= h[Len(r)]
        /\ \A n \in 1 .. Len(r) : /\ f[n] = CountChrs(f[n - 1], r[n])
                                  /\ g[n] = g[n - 1] + CountDscs(r[n])
                                  /\ h[n] = h[n - 1] + Len(r[n].chrs)
        /\ CntResources(r).chrs = f[Len(r)]
        /\ CntResources(r).dscs = g[Len(r)]
        /\ CntResources(r).vals = h[Len(r)]
  BY <1>5, Zenon
<1>7a. PICK h :
        /\ f[0] = 0 /\ g[0] = 0 /\ h[0] = 0
        /\ \A n \in 0 .. Len(r) : f[n] \in Nat /\ f[n] <= f[Len(r)]
        /\ \A n \in 0 .. Len(r) : g[n] \in Nat /\ g[n] <= g[Len(r)]
        /\ \A n \in 0 .. Len(r) : h[n] \in Nat /\ h[n] <= h[Len(r)]
        /\ \A n \in 1 .. Len(r) : /\ f[n] = CountChrs(f[n - 1], r[n])
                                  /\ g[n] = g[n - 1] + CountDscs(r[n])
                                  /\ h[n] = h[n - 1] + Len(r[n].chrs)
        /\ CntResources(r).chrs = f[Len(r)]
        /\ CntResources(r).dscs = g[Len(r)]
        /\ CntResources(r).vals = h[Len(r)]
  BY <1>6, Zenon
<1>7. /\ f[0] = 0 /\ g[0] = 0 /\ h[0] = 0
      /\ \A n \in 0 .. L : f[n] \in Nat /\ f[n] <= f[L]
      /\ \A n \in 0 .. L : g[n] \in Nat /\ g[n] <= g[L]
      /\ \A n \in 0 .. L : h[n] \in Nat /\ h[n] <= h[L]
      /\ \A n \in 1 .. L : /\ f[n] = CountChrs(f[n - 1], r[n])
                           /\ g[n] = g[n - 1] + CountDscs(r[n])
                           /\ h[n] = h[n - 1] + Len(r[n].chrs)
      /\ C = f[L] /\ D = g[L] /\ V = h[L]
  BY <1>7a, Zenon DEF L, C, D, V
<1>8. L \in 0 .. L
  BY <1>1
<1>9. L \in Nat /\ C \in Nat /\ D \in Nat /\ V \in Nat
  BY <1>1, <1>7, <1>8
<1>10. /\ w.nsvcs \in Nat /\ w.nchrs \in Nat /\ w.ndscs \in Nat /\ w.nuuids \in Nat /\ w.nvals \in Nat
       /\ MaxSvcs \in Nat /\ MaxChrs \in Nat /\ MaxDscs \in Nat /\ MaxUuids \in Nat
  BY InTables, Sizes
<1>11a. w.nsvcs + L < MaxSvcs
  BY <1>4 DEF Room
<1>11b. w.nchrs + C <= MaxChrs
  BY <1>4 DEF Room
<1>11c. w.ndscs + D <= MaxDscs
  BY <1>4 DEF Room
<1>11d. w.nuuids + L + C + D <= MaxUuids
  BY <1>4 DEF Room
<1> DEFINE S == {n \in 0 .. L : SvcsSaved(w, x[n], r, n, f[n], g[n], h[n])}
<1>12. 0 \in S
  <2>1. x[0] = w /\ f[0] = 0 /\ g[0] = 0 /\ h[0] = 0 /\ 0 \in 0 .. L
    BY <1>1, <1>3, <1>7
  <2>2. SvcsSaved(w, w, r, 0, 0, 0, 0)
    <3>1. /\ \A k \in 1 .. 0 : FALSE
          /\ w.nsvcs = w.nsvcs + 0 /\ w.nchrs <= w.nchrs /\ w.nchrs <= w.nchrs + 0
          /\ w.ndscs = w.ndscs + 0 /\ w.nuuids <= w.nuuids + 0 + 0 + 0 /\ w.nvals = w.nvals + 0
      BY <1>10
    <3> QED
      BY <3>1, Zenon DEF SvcsSaved
  <2> QED
    BY <2>1, <2>2
<1>13. ASSUME NEW n \in 0 .. L - 1, n \in S
       PROVE  n + 1 \in S
  <2> DEFINE c == f[n]
             d == g[n]
             v == h[n]
             e == f[n + 1]
             d2 == g[n + 1]
             v2 == h[n + 1]
             s == r[n + 1]
  <2>1. /\ SvcsSaved(w, x[n], r, n, c, d, v)
        /\ n \in Nat /\ n + 1 \in 1 .. L /\ (n + 1) - 1 = n
        /\ n \in 0 .. L /\ n + 1 \in 0 .. L /\ n + 1 <= L
    BY <1>1, <1>13
  <2>2. /\ x[n + 1] = SaveSvc(x[n], s) /\ e = CountChrs(c, s)
        /\ d2 = d + CountDscs(s) /\ v2 = v + Len(s.chrs)
    BY <1>3, <1>7, <2>1
  <2>3. c \in Nat /\ d \in Nat /\ v \in Nat
    BY <1>7, <2>1
  <2>4. e \in Nat /\ d2 \in Nat /\ e <= C /\ d2 <= D
    BY <1>7, <2>1
  <2> HIDE DEF S, c, d, v, e, d2, v2
  <2>5. Room(w, n + 1, e, d2)
    <3>. n \in Nat /\ n + 1 <= L
      BY <2>1
    <3>1. w.nsvcs + (n + 1) < MaxSvcs
      BY <1>9, <1>10, <1>11a
    <3>2. w.nchrs + e <= MaxChrs
      BY <1>9, <1>10, <1>11b, <2>4
    <3>3. w.ndscs + d2 <= MaxDscs
      BY <1>9, <1>10, <1>11c, <2>4
    <3>4. w.nuuids + (n + 1) + e + d2 <= MaxUuids
      BY <1>9, <1>10, <1>11d, <2>4, SMTT(60)
    <3> QED
      BY <3>1, <3>2, <3>3, <3>4 DEF Room
  <2>6. \A k \in 1 .. n + 1 : r[k] \in Services /\ r[k].uuid \in Uuids
    BY <1>1, <2>1
  <2>7. SvcsSaved(w, x[n + 1], r, n + 1, e, d2, v2)
    BY <2>1, <2>2, <2>3, <2>4, <2>5, <2>6, OneMore
  <2> QED
    BY <2>1, <2>7 DEF S, e, d2, v2
<1>14. L \in S
  <2> HIDE DEF S
  <2>1. \A n \in 0 .. L : n \in S
    BY <1>1, <1>12, <1>13, UpTo
  <2> QED
    BY <1>8, <2>1
<1>15. SvcsSaved(w, SaveSvcs(w, r), r, L, C, D, V)
  BY <1>3, <1>7, <1>14
<1> QED
  BY <1>9, <1>15 DEF L, C, D, V

-----------------------------------------------------------------------------
(* The inductive invariant.                                                *)

\* The counters are within their tables.
Within(w) ==
  /\ w.nsvcs <= MaxSvcs /\ w.nchrs <= MaxChrs /\ w.ndscs <= MaxDscs
  /\ w.nuuids <= MaxUuids /\ w.nvals <= MaxVals

\* The last entries are NULL.
LastsNull(w) ==
  /\ w.svcs[MaxSvcs - 1].uuid = NULL
  /\ w.chrs[MaxChrs - 1].uuid = NULL
  /\ w.dscs[MaxDscs - 1].uuid = NULL

SvcsEnded(w) == w.nsvcs > 0 => w.svcs[w.nsvcs - 1].uuid = NULL

\* What holds until a clear.
Kept(w) ==
  NoSvcsBehind(w) /\ SvcsEnded(w) /\ Clean(w) /\ ChrsEnded(w) /\ Pointed(w)

\* The definitions that the host may hold.
HostDefs(w) ==
  {h \in [def : 0 .. MaxChrs - 1, arg : Nat] : h.def < w.nchrs /\ w.chrs[h.def].arg = h.arg}

\* The tables are those of the services r.
Added(w, r) ==
  /\ r \in Seq(Services) /\ w.nsvcs = Len(r) + 1
  /\ \A k \in 1 .. Len(r) : /\ Len(r[k].chrs) > 0
                            /\ w.svcs[k - 1].uuid = <<r[k].uuid>>
                            /\ SvcHeld(w, k - 1, r[k])

TablesInv ==
  /\ Tables(t) /\ Fine(t) /\ Within(t) /\ LastsNull(t)
  /\ t.nsvcs = 0 => t.nchrs = 0 /\ t.ndscs = 0 /\ wanted = << >>

KeptInv == fresh => Kept(t) /\ host \in Seq(HostDefs(t))
AddedInv == fresh /\ single /\ t.nsvcs > 0 => Added(t, wanted)
FlagsInv == fresh \in BOOLEAN /\ single \in BOOLEAN /\ crashed \in BOOLEAN /\ ops \in 0 .. MaxOps

RegInv == TablesInv /\ KeptInv /\ AddedInv /\ FlagsInv /\ CommitListsWhatWasAdded

-----------------------------------------------------------------------------
(* Walks over the tables.                                                  *)

\* A walk ends at the first NULL entry, if there is one ahead.
LEMMA EndFound ==
  ASSUME NEW table, NEW M \in Nat, DOMAIN table = 0 .. M - 1,
         NEW i \in 0 .. M - 1, NEW j \in i .. M - 1, table[j].uuid = NULL
  PROVE  /\ EndOf(table, i) \in i .. j
         /\ table[EndOf(table, i)].uuid = NULL
         /\ \A k \in i .. EndOf(table, i) - 1 : table[k].uuid # NULL
<1> DEFINE S == {k \in DOMAIN table : k >= i /\ table[k].uuid = NULL}
           Less == OpToRel(<, Nat)
<1>1. S \subseteq Nat /\ j \in S /\ \A k \in S : k \in i .. M - 1 /\ table[k].uuid = NULL
  OBVIOUS
<1>2. \A k \in i .. M - 1 : table[k].uuid = NULL => k \in S
  OBVIOUS
<1>3. EndOf(table, i) = CHOOSE x \in S : \A y \in S : x =< y
  BY Zenon DEF EndOf, Min
<1> HIDE DEF S
<1>4. PICK x \in S : \A y \in S : <<y, x>> \notin Less
  <2>1. IsWellFoundedOn(Less, Nat)
    BY NatLessThanWellFounded
  <2> HIDE DEF Less
  <2> QED
    BY <1>1, <2>1, WFMin
<1>5. \A y \in S : x =< y
  <2> SUFFICES ASSUME NEW y \in S PROVE x =< y
    OBVIOUS
  <2>1. x \in Nat /\ y \in Nat /\ <<y, x>> \notin Less
    BY <1>1, <1>4
  <2>2. ~(y < x)
    BY <2>1, Zenon DEF OpToRel
  <2>3. x \in Nat /\ y \in Nat
    BY <2>1
  <2> HIDE DEF Less
  <2> QED
    BY <2>2, <2>3
<1> DEFINE e == CHOOSE z \in S : \A y \in S : z =< y
<1>6. e \in S /\ \A y \in S : e =< y
  BY <1>4, <1>5, Zenon
<1> HIDE DEF e
<1>7. e \in i .. M - 1 /\ e <= j /\ table[e].uuid = NULL
  BY <1>1, <1>6
<1>8. \A k \in i .. e - 1 : table[k].uuid # NULL
  <2> SUFFICES ASSUME NEW k \in i .. e - 1, table[k].uuid = NULL
               PROVE  FALSE
    OBVIOUS
  <2>1. k \in i .. M - 1 /\ k < e /\ k \in Int /\ e \in Int
    BY <1>7
  <2>2. e =< k
    BY <1>2, <1>6, <2>1
  <2> QED
    BY <2>1, <2>2
<1>9. e = EndOf(table, i)
  BY <1>3 DEF e
<1> QED
  BY <1>7, <1>8, <1>9

\* It ends there, when all entries before that one are in use.
LEMMA EndIs ==
  ASSUME NEW table, NEW M \in Nat, DOMAIN table = 0 .. M - 1,
         NEW i \in 0 .. M - 1, NEW j \in i .. M - 1, table[j].uuid = NULL,
         \A k \in i .. j - 1 : table[k].uuid # NULL
  PROVE  EndOf(table, i) = j
<1> DEFINE e == EndOf(table, i)
<1>1. e \in i .. j /\ table[e].uuid = NULL
  BY EndFound
<1> HIDE DEF e
<1>2. e \in i .. j - 1 \/ e = j
  BY <1>1
<1> QED
  BY <1>1, <1>2 DEF e

\* Sequences over X, one after the other.
LEMMA Flattened ==
  ASSUME NEW X, NEW F \in Seq(Seq(X))
  PROVE  FlattenSeq(F) \in Seq(X)
<1> DEFINE L == Len(F)
           Step(x, n) == x \o F[n]
           Is(f, m) == f = [n \in 1 .. m |-> IF n = 1 THEN F[n] ELSE Step(f[n - 1], n)]
           S == {m \in Nat : \E f : Is(f, m)}
<1>1. L \in Nat /\ \A n \in 1 .. L : F[n] \in Seq(X)
  OBVIOUS
<1>2. CASE L = 0
  <2>1. FlattenSeq(F) = F
    BY <1>2 DEF FlattenSeq
  <2>2. F = << >>
    BY <1>2
  <2> QED
    BY <2>1, <2>2
<1>3. CASE L # 0
  <2>1. 0 \in S
    <3> HIDE DEF Step
    <3>1. Is([n \in 1 .. 0 |-> 0], 0)
      OBVIOUS
    <3> QED
      BY <3>1
  <2>2. ASSUME NEW m \in S
        PROVE  m + 1 \in S
    <3> HIDE DEF Step
    <3>1. PICK f : Is(f, m)
      OBVIOUS
    <3> DEFINE g == [n \in 1 .. m + 1 |-> IF n <= m THEN f[n]
                                          ELSE IF n = 1 THEN F[n] ELSE Step(f[n - 1], n)]
    <3>2. Is(g, m + 1)
      BY <3>1
    <3>3. m + 1 \in Nat
      OBVIOUS
    <3> HIDE DEF Is, g
    <3> QED
      BY <3>2, <3>3
  <2>3. \E f : Is(f, L)
    <3>1. Nat \subseteq S
      <4> HIDE DEF S
      <4> QED
        BY <2>1, <2>2, NatSetInduction
    <3> QED
      BY <1>1, <3>1
  <2> DEFINE g == CHOOSE h : Is(h, L)
  <2>4. Is(g, L)
    BY <2>3, Zenon
  <2>5. FlattenSeq(F) = g[L]
    BY <1>3, Zenon DEF FlattenSeq
  <2>6. g[1] = F[1] /\ \A n \in 2 .. L : g[n] = Step(g[n - 1], n)
    <3>1. 1 \in 1 .. L /\ \A n \in 2 .. L : n \in 1 .. L /\ n # 1
      BY <1>1, <1>3
    <3> HIDE DEF Step, g
    <3> QED
      BY <2>4, <3>1
  <2> DEFINE G == {n \in 0 .. L - 1 : g[n + 1] \in Seq(X)}
  <2> HIDE DEF g
  <2>7. 0 \in G
    BY <1>1, <1>3, <2>6
  <2>8. ASSUME NEW n \in 0 .. (L - 1) - 1, n \in G
        PROVE  n + 1 \in G
    <3>1. /\ (n + 1) + 1 \in 2 .. L /\ ((n + 1) + 1) - 1 = n + 1 /\ n + 1 \in 0 .. L - 1
          /\ (n + 1) + 1 \in 1 .. L
      BY <1>1
    <3>2. g[n + 1] \in Seq(X) /\ F[(n + 1) + 1] \in Seq(X)
      BY <1>1, <2>8, <3>1
    <3>3. g[(n + 1) + 1] = g[n + 1] \o F[(n + 1) + 1]
      BY <2>6, <3>1
    <3>4. g[(n + 1) + 1] \in Seq(X)
      BY <3>2, <3>3
    <3> QED
      BY <3>1, <3>4
  <2>9. L - 1 \in G
    <3>1. L - 1 \in Nat /\ L - 1 \in 0 .. L - 1
      BY <1>1, <1>3
    <3> HIDE DEF G
    <3>2. \A n \in 0 .. L - 1 : n \in G
      BY <2>7, <2>8, <3>1, UpTo
    <3> QED
      BY <3>1, <3>2
  <2> QED
    BY <1>1, <2>5, <2>9
<1> QED
  BY <1>2, <1>3

-----------------------------------------------------------------------------
(* The requests.                                                           *)

LEMMA RegInit ==
  Init => RegInv
<1> SUFFICES ASSUME Init PROVE RegInv
  OBVIOUS
<1>1. t = [svcs |-> [i \in 0 .. MaxSvcs - 1 |-> NoSvc],
           chrs |-> [i \in 0 .. MaxChrs - 1 |-> NoChr],
           dscs |-> [i \in 0 .. MaxDscs - 1 |-> NoDsc],
           nsvcs |-> 0, nchrs |-> 0, ndscs |-> 0, nuuids |-> 0, nvals |-> 0,
           seq |-> 0, given |-> 0, ok |-> TRUE]
  BY DEF Init
<1>2. /\ Shaped(t)
      /\ t.svcs = [i \in 0 .. MaxSvcs - 1 |-> NoSvc]
      /\ t.chrs = [i \in 0 .. MaxChrs - 1 |-> NoChr]
      /\ t.dscs = [i \in 0 .. MaxDscs - 1 |-> NoDsc]
      /\ t.nsvcs = 0 /\ t.nchrs = 0 /\ t.ndscs = 0 /\ t.nuuids = 0 /\ t.nvals = 0
      /\ t.seq = 0 /\ t.given = 0
  BY <1>1 DEF Shaped
<1>3. Fine(t)
  <2>1. t.ok = TRUE
    BY <1>1
  <2> QED
    BY <2>1 DEF Fine
<1>4. /\ MaxSvcs \in Nat \ {0} /\ MaxChrs \in Nat \ {0} /\ MaxDscs \in Nat \ {0}
      /\ EvtNumbers \in Nat \ {0} /\ MaxUuids \in Nat \ {0} /\ MaxVals \in Nat \ {0}
      /\ MaxOps \in Nat
  BY Sizes, RegistryAssumption
<1>5. NoSvc \in SvcDefs /\ NoChr \in ChrDefs /\ NoDsc \in DscDefs
  BY <1>4 DEF NoSvc, NoChr, NoDsc, SvcDefs, ChrDefs, DscDefs, NoIndex
<1>6. /\ \A i \in 0 .. MaxSvcs - 1 : t.svcs[i].uuid = NULL /\ t.svcs[i].chrs = -1
      /\ \A i \in 0 .. MaxChrs - 1 : t.chrs[i].uuid = NULL
      /\ \A i \in 0 .. MaxDscs - 1 : t.dscs[i].uuid = NULL
  BY <1>2 DEF NoSvc, NoChr, NoDsc, NoIndex
<1>7. Tables(t)
  <2>1. /\ t.svcs \in [0 .. MaxSvcs - 1 -> SvcDefs]
        /\ t.chrs \in [0 .. MaxChrs - 1 -> ChrDefs]
        /\ t.dscs \in [0 .. MaxDscs - 1 -> DscDefs]
    BY <1>2, <1>5
  <2> QED
    BY <1>2, <1>4, <2>1, SMTT(60) DEF Tables
<1>8. Within(t) /\ LastsNull(t)
  <2>1. Within(t)
    BY <1>2, <1>4 DEF Within
  <2>2. LastsNull(t)
    BY <1>4, <1>6 DEF LastsNull
  <2> QED
    BY <2>1, <2>2
<1>9. wanted = << >> /\ host = << >> /\ reply.op = "none" /\ ops = 0
  BY DEF Init
<1>10. TablesInv
  BY <1>2, <1>3, <1>7, <1>8, <1>9 DEF TablesInv
<1>11. Kept(t)
  <2>1. NoSvcsBehind(t) /\ NoChrsBehind(t) /\ NoDscsBehind(t)
    BY <1>2, <1>6 DEF NoSvcsBehind, NoChrsBehind, NoDscsBehind
  <2>2. SvcsEnded(t) /\ ChrsEnded(t) /\ DscsEnded(t)
    BY <1>2 DEF SvcsEnded, ChrsEnded, DscsEnded
  <2>3. Numbered(t)
    <3>1. \A i : ~ChrUsed(t, i) /\ ~DscUsed(t, i)
      BY <1>6 DEF ChrUsed, DscUsed
    <3> QED
      BY <1>2, <3>1 DEF Numbered
  <2>4. Pointed(t)
    BY <1>2, <1>6 DEF Pointed
  <2> QED
    BY <2>1, <2>2, <2>3, <2>4 DEF Kept, Clean
<1>12. KeptInv
  BY <1>9, <1>11 DEF KeptInv
<1>13. AddedInv
  BY <1>2 DEF AddedInv
<1>14. FlagsInv
  <2>1. fresh = TRUE /\ single = TRUE /\ crashed = FALSE
    BY DEF Init
  <2>2. ops \in 0 .. MaxOps
    BY <1>4, <1>9
  <2> QED
    BY <2>1, <2>2, Zenon DEF FlagsInv
<1>15. CommitListsWhatWasAdded
  <2>1. crashed = FALSE
    BY DEF Init
  <2> QED
    BY <1>9, <2>1 DEF CommitListsWhatWasAdded
<1> QED
  BY <1>10, <1>12, <1>13, <1>14, <1>15 DEF RegInv

LEMMA RequestServices ==
  ASSUME NEW r \in Requests
  PROVE  r \in Seq(Services) /\ Len(r) \in Nat /\ \A k \in 1 .. Len(r) : r[k].uuid \in Uuids
<1>1. r \in Seq(Services)
  BY RegistryAssumption DEF Services
<1> QED
  BY <1>1 DEF Uuids

\* What was verified has room.
LEMMA VerifiedHasRoom ==
  ASSUME NEW r \in Requests, Tables(t), VerifyResourceCnt(r)
  PROVE  /\ Room(t, Len(r), CntResources(r).chrs, CntResources(r).dscs)
         /\ CntResources(r).chrs \in Nat /\ CntResources(r).dscs \in Nat /\ CntResources(r).vals \in Nat
         /\ t.nsvcs + Len(r) + 1 <= MaxSvcs
         /\ t.nuuids + (Len(r) + 1) + CntResources(r).chrs + CntResources(r).dscs <= MaxUuids
         /\ t.nvals + CntResources(r).vals <= MaxVals
<1> DEFINE L == Len(r)
           C == CntResources(r).chrs
           D == CntResources(r).dscs
           V == CntResources(r).vals
<1>1. L \in Nat
  BY RequestServices
<1>2. C \in Nat /\ D \in Nat /\ V \in Nat
  BY RequestServices, Resources, Zenon
<1>3. CntResources(r).svcs = L + 1 /\ CntResources(r).uuids = (L + 1) + C + D
  BY DEF CntResources
<1>4. /\ t.nsvcs + (L + 1) <= MaxSvcs /\ t.nchrs + C <= MaxChrs /\ t.ndscs + D <= MaxDscs
      /\ t.nuuids + ((L + 1) + C + D) <= MaxUuids /\ t.nvals + V <= MaxVals
  BY <1>3 DEF VerifyResourceCnt
<1> HIDE DEF L, C, D, V
<1>5. /\ t.nsvcs \in Nat /\ t.nchrs \in Nat /\ t.ndscs \in Nat /\ t.nuuids \in Nat /\ t.nvals \in Nat
      /\ MaxSvcs \in Nat /\ MaxChrs \in Nat /\ MaxDscs \in Nat /\ MaxUuids \in Nat
  BY InTables, Sizes
<1>6. Room(t, L, C, D)
  <2>1. t.nsvcs + L < MaxSvcs
    BY <1>1, <1>4, <1>5
  <2>2. t.nuuids + L + C + D <= MaxUuids
    BY <1>1, <1>2, <1>4, <1>5
  <2> QED
    BY <1>4, <2>1, <2>2 DEF Room
<1>7. /\ t.nsvcs + L + 1 <= MaxSvcs
      /\ t.nuuids + (L + 1) + C + D <= MaxUuids
  BY <1>1, <1>2, <1>4, <1>5
<1> QED
  BY <1>2, <1>4, <1>6, <1>7 DEF L, C, D, V

\* What bhd_gatts_add_svcs() makes of the tables.
LEMMA SavedDoes ==
  ASSUME TablesInv, NEW r \in Requests, VerifyResourceCnt(r), NEW x, x = Saved(r)
  PROVE  /\ Tables(x) /\ Fine(x) /\ Within(x) /\ LastsNull(x)
         /\ x.nsvcs = t.nsvcs + Len(r) + 1 /\ x.nsvcs > 0
         /\ Kept(t) => Kept(x)
         /\ HostDefs(t) \subseteq HostDefs(x)
         /\ Kept(t) /\ t.nsvcs = 0 /\ (\A i \in 1 .. Len(r) : r[i].chrs # << >>) => Added(x, r)
<1> DEFINE y == SaveSvcs(t, r)
           L == Len(r)
           C == CntResources(r).chrs
           D == CntResources(r).dscs
           V == CntResources(r).vals
<1>1. r \in Seq(Services) /\ L \in Nat /\ \A k \in 1 .. L : r[k] \in Services /\ r[k].uuid \in Uuids
  BY RequestServices
<1>2. Tables(t) /\ Fine(t) /\ Within(t) /\ LastsNull(t)
  BY DEF TablesInv
<1>3. /\ Room(t, L, C, D) /\ C \in Nat /\ D \in Nat /\ V \in Nat
      /\ t.nsvcs + L + 1 <= MaxSvcs
      /\ t.nuuids + (L + 1) + C + D <= MaxUuids
      /\ t.nvals + V <= MaxVals
  BY <1>2, VerifiedHasRoom
<1>4. SvcsSaved(t, y, r, L, C, D, V)
  BY <1>1, <1>2, <1>3, SaveSvcsDoes
<1>5. x = SkipSvc(y)
  BY DEF Saved
<1> HIDE DEF y, L, C, D, V
<1>6. /\ Tables(y) /\ Fine(y) /\ y.nsvcs = t.nsvcs + L
      /\ t.nchrs <= y.nchrs /\ y.nchrs <= t.nchrs + C
      /\ y.ndscs = t.ndscs + D
      /\ y.nuuids <= t.nuuids + L + C + D /\ y.nvals = t.nvals + V
      /\ \A i \in 0 .. MaxSvcs - 1 : i < t.nsvcs \/ i >= t.nsvcs + L => y.svcs[i] = t.svcs[i]
      /\ \A i \in 0 .. MaxChrs - 1 : i < t.nchrs \/ i = MaxChrs - 1 => y.chrs[i] = t.chrs[i]
      /\ \A i \in 0 .. MaxDscs - 1 : i < t.ndscs \/ i = MaxDscs - 1 => y.dscs[i] = t.dscs[i]
  BY <1>4 DEF SvcsSaved
<1>7. /\ Shaped(x)
      /\ x.svcs = y.svcs /\ x.chrs = y.chrs /\ x.dscs = y.dscs
      /\ x.nsvcs = y.nsvcs + 1 /\ x.nchrs = y.nchrs /\ x.ndscs = y.ndscs
      /\ x.nuuids = y.nuuids /\ x.nvals = y.nvals
      /\ x.seq = y.seq /\ x.given = y.given
  BY <1>5, <1>6 DEF Tables, Shaped, SkipSvc
<1>8. /\ t.nsvcs \in Nat /\ t.nchrs \in Nat /\ t.ndscs \in Nat /\ t.nuuids \in Nat /\ t.nvals \in Nat
      /\ MaxSvcs \in Nat \ {0} /\ MaxChrs \in Nat \ {0} /\ MaxDscs \in Nat \ {0}
      /\ MaxUuids \in Nat /\ MaxVals \in Nat
  BY <1>2, InTables, Sizes
<1>9. y.nsvcs \in Nat /\ y.nchrs \in Nat /\ y.ndscs \in Nat /\ y.nuuids \in Nat /\ y.nvals \in Nat
  BY <1>6, InTables
<1>10. L \in Nat /\ t.nsvcs + L + 1 <= MaxSvcs /\ x.nsvcs = t.nsvcs + L + 1 /\ x.nsvcs > 0
  <2>1. L \in Nat /\ t.nsvcs + L + 1 <= MaxSvcs /\ y.nsvcs = t.nsvcs + L /\ x.nsvcs = y.nsvcs + 1
    BY <1>1, <1>3, <1>6, <1>7
  <2>2. x.nsvcs = t.nsvcs + L + 1
    BY <2>1
  <2> QED
    BY <1>8, <2>1, <2>2
<1>11. Tables(x)
  <2>1. x.nsvcs \in Nat /\ x.nchrs \in Nat /\ x.ndscs \in Nat
    BY <1>7, <1>9
  <2> QED
    BY <1>6, <1>7, <2>1, Counted
<1>12. Fine(x)
  <2>1. x.ok = y.ok
    BY <1>5, <1>6 DEF Tables, Shaped, SkipSvc
  <2> QED
    BY <1>6, <2>1 DEF Fine
<1>13. Within(x)
  <2>1. t.nchrs + C <= MaxChrs /\ t.ndscs + D <= MaxDscs
    BY <1>3 DEF Room
  <2>2. x.nsvcs <= MaxSvcs
    BY <1>8, <1>10
  <2>3. x.nchrs <= MaxChrs
    BY <1>3, <1>6, <1>7, <1>8, <1>9, <2>1
  <2>4. x.ndscs <= MaxDscs
    BY <1>3, <1>6, <1>7, <1>8, <1>9, <2>1
  <2>5. x.nuuids <= MaxUuids
    BY <1>3, <1>6, <1>7, <1>8, <1>9, <1>10
  <2>6. x.nvals <= MaxVals
    BY <1>3, <1>6, <1>7, <1>8, <1>9
  <2> QED
    BY <2>2, <2>3, <2>4, <2>5, <2>6 DEF Within
<1>14. LastsNull(x)
  <2>1. MaxSvcs - 1 \in 0 .. MaxSvcs - 1 /\ MaxSvcs - 1 >= t.nsvcs + L
    BY <1>8, <1>10
  <2>2. MaxChrs - 1 \in 0 .. MaxChrs - 1 /\ MaxDscs - 1 \in 0 .. MaxDscs - 1
    BY <1>8
  <2>3. /\ x.svcs[MaxSvcs - 1] = t.svcs[MaxSvcs - 1]
        /\ x.chrs[MaxChrs - 1] = t.chrs[MaxChrs - 1]
        /\ x.dscs[MaxDscs - 1] = t.dscs[MaxDscs - 1]
    BY <1>6, <1>7, <2>1, <2>2
  <2> QED
    BY <1>2, <2>3 DEF LastsNull
<1>15. ASSUME Kept(t)
       PROVE  Kept(x)
  <2>1. NoSvcsBehind(t) /\ Clean(t) /\ ChrsEnded(t) /\ Pointed(t)
    BY <1>15 DEF Kept
  <2>2. Clean(y) /\ ChrsEnded(y) /\ Pointed(y)
    BY <1>4, <2>1 DEF SvcsSaved
  <2>3. ASSUME NEW i \in 0 .. MaxSvcs - 1, i >= t.nsvcs + L
        PROVE  x.svcs[i].uuid = NULL
    <3>1. i \in t.nsvcs .. MaxSvcs - 1
      BY <1>8, <1>10, <2>3
    <3>2. t.svcs[i].uuid = NULL
      BY <2>1, <3>1 DEF NoSvcsBehind
    <3> QED
      BY <1>6, <1>7, <2>3, <3>2
  <2>4. NoSvcsBehind(x)
    <3>1. \A i \in x.nsvcs .. MaxSvcs - 1 : i \in 0 .. MaxSvcs - 1 /\ i >= t.nsvcs + L
      BY <1>8, <1>10
    <3> QED
      BY <2>3, <3>1 DEF NoSvcsBehind
  <2>5. SvcsEnded(x)
    <3>1. x.nsvcs - 1 \in 0 .. MaxSvcs - 1 /\ x.nsvcs - 1 >= t.nsvcs + L
      BY <1>8, <1>10
    <3> QED
      BY <2>3, <3>1 DEF SvcsEnded
  <2>6. Clean(x) /\ ChrsEnded(x) /\ Pointed(x)
    BY <1>7, <2>2 DEF Clean, NoChrsBehind, NoDscsBehind, DscsEnded, Numbered, ChrUsed, DscUsed,
                      ChrsEnded, Pointed
  <2> QED
    BY <2>4, <2>5, <2>6 DEF Kept
<1>16. HostDefs(t) \subseteq HostDefs(x)
  <2> SUFFICES ASSUME NEW h \in HostDefs(t) PROVE h \in HostDefs(x)
    OBVIOUS
  <2>1. h \in [def : 0 .. MaxChrs - 1, arg : Nat] /\ h.def < t.nchrs /\ t.chrs[h.def].arg = h.arg
    BY DEF HostDefs
  <2>2. h.def \in 0 .. MaxChrs - 1
    BY <2>1
  <2>3. h.def < x.nchrs
    BY <1>6, <1>7, <1>8, <1>9, <2>1, <2>2
  <2>4. x.chrs[h.def] = t.chrs[h.def]
    BY <1>6, <1>7, <2>1, <2>2
  <2> QED
    BY <2>1, <2>3, <2>4 DEF HostDefs
<1>17. ASSUME Kept(t), t.nsvcs = 0, \A i \in 1 .. L : r[i].chrs # << >>
       PROVE  Added(x, r)
  <2>1. x.nsvcs = L + 1
    BY <1>10, <1>17
  <2>2. ASSUME NEW k \in 1 .. L
        PROVE  /\ Len(r[k].chrs) > 0
               /\ x.svcs[k - 1].uuid = <<r[k].uuid>>
               /\ SvcHeld(x, k - 1, r[k])
    <3>1. Len(r[k].chrs) > 0
      BY <1>1, <1>17, NoChrsNoDscs
    <3>2. t.nsvcs + k - 1 = k - 1
      BY <1>10, <1>17
    <3>3. y.svcs[k - 1].uuid = <<r[k].uuid>>
      BY <1>4, <3>2 DEF SvcsSaved
    <3>4. SvcHeld(y, k - 1, r[k])
      BY <1>4, <1>17, <3>1, <3>2 DEF SvcsSaved, Kept
    <3>5. SvcHeld(x, k - 1, r[k])
      BY <1>7, <3>4 DEF SvcHeld
    <3> QED
      BY <1>7, <3>1, <3>3, <3>5
  <2> QED
    BY <1>1, <2>1, <2>2 DEF Added, L
<1> QED
  BY <1>10, <1>11, <1>12, <1>13, <1>14, <1>15, <1>16, <1>17 DEF L

\* The host gets definitions that are in the tables.
LEMMA HostListed ==
  ASSUME TablesInv, Kept(t)
  PROVE  HostList \in Seq(HostDefs(t))
<1> DEFINE e == EndOf(t.svcs, 0)
           F == [k \in 1 .. e |-> ChrsOf(t.svcs[k - 1])]
<1>1. /\ Tables(t) /\ LastsNull(t) /\ t.nchrs \in Nat /\ t.nchrs <= MaxChrs
      /\ MaxSvcs \in Nat \ {0} /\ MaxChrs \in Nat \ {0}
      /\ t.svcs \in [0 .. MaxSvcs - 1 -> SvcDefs]
      /\ t.chrs \in [0 .. MaxChrs - 1 -> ChrDefs]
      /\ ChrsEnded(t) /\ Pointed(t)
  BY Sizes DEF TablesInv, Tables, Kept, Within
<1>2. e \in 0 .. MaxSvcs - 1
  <2>1. /\ MaxSvcs \in Nat /\ 0 \in 0 .. MaxSvcs - 1 /\ MaxSvcs - 1 \in 0 .. MaxSvcs - 1
        /\ DOMAIN t.svcs = 0 .. MaxSvcs - 1 /\ t.svcs[MaxSvcs - 1].uuid = NULL
    BY <1>1 DEF LastsNull
  <2> QED
    BY <2>1, EndFound
<1> HIDE DEF e
<1>3. ASSUME NEW i \in 0 .. MaxSvcs - 1
      PROVE  ChrsOf(t.svcs[i]) \in Seq(HostDefs(t))
  <2> DEFINE d == t.svcs[i].chrs
             g == EndOf(t.chrs, d)
  <2>1. d \in -1 .. MaxChrs - 1 /\ d < t.nchrs
    <3>1. t.svcs[i] \in SvcDefs
      BY <1>1
    <3> QED
      BY <1>1, <3>1 DEF SvcDefs, Pointed
  <2>2. CASE d = -1
    BY <2>2 DEF ChrsOf, NoIndex
  <2>3. CASE d # -1
    <3> HIDE DEF d
    <3>1. /\ d \in 0 .. MaxChrs - 1 /\ t.nchrs - 1 \in d .. MaxChrs - 1 /\ t.nchrs > 0
          /\ MaxChrs \in Nat
      BY <1>1, <2>1, <2>3
    <3>2. t.chrs[t.nchrs - 1].uuid = NULL /\ DOMAIN t.chrs = 0 .. MaxChrs - 1
      BY <1>1, <3>1 DEF ChrsEnded
    <3>3. g \in d .. t.nchrs - 1
      BY <3>1, <3>2, EndFound
    <3> DEFINE list == [k \in 1 .. g - d |-> [def |-> d + k - 1, arg |-> t.chrs[d + k - 1].arg]]
    <3>4. ChrsOf(t.svcs[i]) = list
      BY <2>3 DEF ChrsOf, NoIndex, d
    <3> HIDE DEF g
    <3>5. ASSUME NEW k \in 1 .. g - d
          PROVE  [def |-> d + k - 1, arg |-> t.chrs[d + k - 1].arg] \in HostDefs(t)
      <4>1. d + k - 1 \in 0 .. MaxChrs - 1 /\ d + k - 1 < t.nchrs
        BY <3>1, <3>3, <1>1
      <4>2. t.chrs[d + k - 1].arg \in Nat
        <5>1. t.chrs[d + k - 1] \in ChrDefs
          BY <1>1, <4>1
        <5> QED
          BY <5>1 DEF ChrDefs
      <4> QED
        BY <4>1, <4>2 DEF HostDefs
    <3>6. g - d \in Nat
      BY <3>1, <3>3
    <3>7. list \in Seq(HostDefs(t))
      BY <3>5, <3>6
    <3> QED
      BY <3>4, <3>7
  <2> QED
    BY <2>2, <2>3
<1>4. F \in Seq(Seq(HostDefs(t)))
  <2>1. \A k \in 1 .. e : k - 1 \in 0 .. MaxSvcs - 1
    BY <1>1, <1>2
  <2>2. \A k \in 1 .. e : ChrsOf(t.svcs[k - 1]) \in Seq(HostDefs(t))
    BY <1>3, <2>1
  <2>3. e \in Nat
    BY <1>2
  <2> QED
    BY <2>2, <2>3
<1>5. HostList = FlattenSeq(F)
  BY DEF HostList, e
<1> QED
  BY <1>4, <1>5, Flattened

\* The answer to commit_svcs, when r was added.
LEMMA CommitAnswers ==
  ASSUME TablesInv, NEW r, Added(t, r)
  PROVE  /\ ~BadPointer
         /\ CommitRsp = [k \in 1 .. Len(r) |->
                           [uuid |-> <<r[k].uuid>>,
                            chrs |-> [c \in 1 .. Len(r[k].chrs) |-> <<r[k].uuid, c>>]]]
<1> DEFINE L == Len(r)
           Rsp(k) == [uuid |-> <<r[k].uuid>>,
                      chrs |-> [c \in 1 .. Len(r[k].chrs) |-> <<r[k].uuid, c>>]]
           Own(k) == [uuid |-> t.svcs[k - 1].uuid,
                      chrs |-> LET l == ListAt(t.chrs, t.svcs[k - 1].chrs)
                               IN  [c \in 1 .. Len(l) |-> l[c].uuid]]
<1>1. /\ r \in Seq(Services) /\ L \in Nat /\ t.nsvcs = L + 1
      /\ \A k \in 1 .. L : r[k] \in Services /\ t.svcs[k - 1].uuid = <<r[k].uuid>>
      /\ \A k \in 1 .. L : SvcHeld(t, k - 1, r[k])
  BY DEF Added
<1>2. /\ t.nchrs \in Nat /\ t.nchrs <= MaxChrs /\ MaxChrs \in Nat
      /\ DOMAIN t.chrs = 0 .. MaxChrs - 1
  BY Sizes DEF TablesInv, Tables, Within
<1>3. ASSUME NEW k \in 1 .. L
      PROVE  Own(k) = Rsp(k)
  <2> DEFINE d == t.svcs[k - 1].chrs
             s == r[k]
             N == Len(s.chrs)
             l == ListAt(t.chrs, d)
  <2>1. N \in Nat
    BY <1>1, NoChrsNoDscs
  <2>2. /\ d \in Nat /\ d + N < t.nchrs
        /\ \A c \in 1 .. N : t.chrs[d + c - 1].uuid = <<s.uuid, c>>
        /\ t.chrs[d + N].uuid = NULL
    BY <1>1 DEF SvcHeld
  <2> HIDE DEF d, s, N
  <2>3. EndOf(t.chrs, d) = d + N
    <3>1. d \in 0 .. MaxChrs - 1 /\ d + N \in d .. MaxChrs - 1
      BY <1>2, <2>1, <2>2
    <3>2. \A j \in d .. (d + N) - 1 : t.chrs[j].uuid # NULL
      <4> SUFFICES ASSUME NEW j \in d .. (d + N) - 1 PROVE t.chrs[j].uuid # NULL
        OBVIOUS
      <4>1. j - d + 1 \in 1 .. N /\ d + (j - d + 1) - 1 = j
        BY <2>1, <2>2
      <4>2. t.chrs[j].uuid = <<s.uuid, j - d + 1>>
        BY <2>2, <4>1
      <4> QED
        BY <4>2 DEF NULL
    <3> DEFINE e == d + N
    <3>3. t.chrs[e].uuid = NULL /\ e \in d .. MaxChrs - 1
      BY <2>2, <3>1, Zenon
    <3>4. \A j \in d .. e - 1 : t.chrs[j].uuid # NULL
      BY <3>2, Zenon
    <3> HIDE DEF e
    <3>5. EndOf(t.chrs, d) = e
      BY <1>2, <3>1, <3>3, <3>4, EndIs, ZenonT(60)
    <3> QED
      BY <3>5 DEF e
  <2>4. l = [c \in 1 .. N |-> t.chrs[d + c - 1]]
    <3>1. (d + N) - d = N
      BY <2>1, <2>2
    <3> QED
      BY <2>3, <3>1 DEF ListAt
  <2>5. Len(l) = N /\ \A c \in 1 .. N : l[c].uuid = <<s.uuid, c>>
    <3>1. Len(l) = N
      BY <2>1, <2>4
    <3>2. \A c \in 1 .. N : l[c] = t.chrs[d + c - 1]
      BY <2>4
    <3> HIDE DEF l
    <3> QED
      BY <2>2, <3>1, <3>2
  <2> HIDE DEF l
  <2>6. [c \in 1 .. Len(l) |-> l[c].uuid] = [c \in 1 .. N |-> <<s.uuid, c>>]
    BY <2>5
  <2>7. t.svcs[k - 1].uuid = <<s.uuid>>
    BY <1>1 DEF s
  <2>8. /\ Own(k) = [uuid |-> t.svcs[k - 1].uuid, chrs |-> [c \in 1 .. Len(l) |-> l[c].uuid]]
        /\ Rsp(k) = [uuid |-> <<s.uuid>>, chrs |-> [c \in 1 .. N |-> <<s.uuid, c>>]]
    BY Zenon DEF d, s, N, l
  <2> QED
    BY <2>6, <2>7, <2>8, Zenon
<1>4. CommitRsp = [k \in 1 .. L |-> Rsp(k)]
  <2>1. t.nsvcs - 1 = L
    BY <1>1
  <2>2. CommitRsp = [k \in 1 .. t.nsvcs - 1 |-> Own(k)]
    BY Zenon DEF CommitRsp
  <2> HIDE DEF L, Own, Rsp
  <2> QED
    BY <1>3, <2>1, <2>2
<1>5. ~BadPointer
  <2> SUFFICES ASSUME NEW i \in Visited
               PROVE  t.svcs[i].uuid # NULL /\ t.svcs[i].chrs # NoIndex
    BY DEF BadPointer
  <2>1. i + 1 \in 1 .. L /\ (i + 1) - 1 = i
    BY <1>1 DEF Visited
  <2>2. t.svcs[i].uuid = <<r[i + 1].uuid>> /\ SvcHeld(t, i, r[i + 1])
    BY <1>1, <2>1
  <2>3. t.svcs[i].chrs \in Nat
    BY <2>2 DEF SvcHeld
  <2> QED
    BY <2>2, <2>3 DEF NULL, NoIndex
<1> QED
  BY <1>4, <1>5

LEMMA AddKeeps ==
  ASSUME RegInv, NEW r \in Requests, AddSvcs(r)
  PROVE  RegInv'
<1> DEFINE x == Saved(r)
<1>1. /\ TablesInv /\ KeptInv /\ AddedInv /\ FlagsInv
      /\ VerifyResourceCnt(r) /\ Running
      /\ t' = x /\ wanted' = wanted \o r /\ ops' = ops + 1
      /\ host' = host /\ fresh' = fresh
  BY DEF RegInv, AddSvcs
<1>2. crashed' = ~x.ok /\ single' = (single /\ t.nsvcs = 0 /\ \A i \in 1 .. Len(r) : r[i].chrs # << >>)
  BY DEF AddSvcs
<1>3. reply'.op = "add_svcs"
  BY DEF AddSvcs, Reply
<1>4. /\ Tables(x) /\ Fine(x) /\ Within(x) /\ LastsNull(x)
      /\ x.nsvcs > 0
      /\ Kept(t) => Kept(x)
      /\ HostDefs(t) \subseteq HostDefs(x)
      /\ Kept(t) /\ t.nsvcs = 0 /\ (\A i \in 1 .. Len(r) : r[i].chrs # << >>) => Added(x, r)
  BY <1>1, SavedDoes
<1> HIDE DEF x
<1>5. TablesInv'
  <2>1. t'.nsvcs # 0
    <3>1. x.nsvcs \in Nat
      BY <1>4, InTables
    <3> QED
      BY <1>1, <1>4, <3>1
  <2> QED
    BY <1>1, <1>4, <2>1 DEF TablesInv
<1>6. KeptInv'
  <2> SUFFICES ASSUME fresh PROVE Kept(x) /\ host \in Seq(HostDefs(x))
    BY <1>1 DEF KeptInv
  <2>1. Kept(t) /\ host \in Seq(HostDefs(t))
    BY <1>1 DEF KeptInv
  <2>2. host \in Seq(HostDefs(x))
    BY <1>4, <2>1
  <2> QED
    BY <1>4, <2>1, <2>2
<1>7. AddedInv'
  <2> SUFFICES ASSUME fresh, single' PROVE Added(x, wanted')
    BY <1>1 DEF AddedInv
  <2>1. t.nsvcs = 0 /\ \A i \in 1 .. Len(r) : r[i].chrs # << >>
    BY <1>2
  <2>2. Kept(t)
    BY <1>1 DEF KeptInv
  <2>3. wanted' = r
    <3>1. wanted = << >> /\ wanted' = wanted \o r
      BY <1>1, <2>1 DEF TablesInv
    <3>2. r \in Seq(Services)
      BY RequestServices
    <3> QED
      BY <3>1, <3>2
  <2> QED
    BY <1>4, <2>1, <2>2, <2>3
<1>8. crashed' = FALSE
  BY <1>2, <1>4, Zenon DEF Fine
<1>9. FlagsInv'
  <2>1. fresh' \in BOOLEAN
    BY <1>1, Zenon DEF FlagsInv
  <2>2. single' \in BOOLEAN
    BY <1>2, Zenon
  <2>3. ops' \in 0 .. MaxOps
    <3>1. ops \in 0 .. MaxOps /\ ops < MaxOps /\ ops' = ops + 1
      BY <1>1 DEF FlagsInv, Running
    <3> QED
      BY <3>1, RegistryAssumption
  <2> QED
    BY <1>8, <2>1, <2>2, <2>3, Zenon DEF FlagsInv
<1>10. CommitListsWhatWasAdded'
  BY <1>3, <1>8 DEF CommitListsWhatWasAdded
<1> QED
  BY <1>5, <1>6, <1>7, <1>9, <1>10 DEF RegInv

\* Steps that leave the tables alone.
LEMMA Counting ==
  ASSUME FlagsInv, Running, ops' = ops + 1
  PROVE  ops' \in 0 .. MaxOps
<1>1. ops \in 0 .. MaxOps /\ ops < MaxOps /\ ops' = ops + 1
  BY DEF FlagsInv, Running
<1> QED
  BY <1>1, RegistryAssumption

LEMMA RefuseKeeps ==
  ASSUME RegInv, NEW r \in Requests, RefuseSvcs(r)
  PROVE  RegInv'
<1>1. /\ TablesInv /\ KeptInv /\ AddedInv /\ FlagsInv /\ CommitListsWhatWasAdded
      /\ Running /\ ops' = ops + 1 /\ reply'.op = "add_svcs"
      /\ t' = t /\ host' = host /\ wanted' = wanted
      /\ fresh' = fresh /\ single' = single /\ crashed' = crashed
  BY DEF RegInv, RefuseSvcs, Reply
<1>2. TablesInv' /\ KeptInv' /\ AddedInv'
  BY <1>1 DEF TablesInv, KeptInv, AddedInv
<1>3. FlagsInv'
  <2>1. ops' \in 0 .. MaxOps
    BY <1>1, Counting
  <2> QED
    BY <1>1, <2>1, Zenon DEF FlagsInv
<1>4. CommitListsWhatWasAdded'
  BY <1>1 DEF CommitListsWhatWasAdded
<1> QED
  BY <1>2, <1>3, <1>4 DEF RegInv

LEMMA CommitKeeps ==
  ASSUME RegInv, CommitSvcs
  PROVE  RegInv'
<1>1. /\ TablesInv /\ KeptInv /\ AddedInv /\ FlagsInv /\ CommitListsWhatWasAdded
      /\ Running /\ ops' = ops + 1
      /\ t' = t /\ host' = host \o HostList /\ wanted' = wanted
      /\ fresh' = fresh /\ single' = single /\ crashed' = BadPointer
  BY DEF RegInv, CommitSvcs
<1>2. TablesInv' /\ AddedInv'
  BY <1>1 DEF TablesInv, AddedInv
<1>3. KeptInv'
  <2> SUFFICES ASSUME fresh PROVE Kept(t) /\ host' \in Seq(HostDefs(t))
    BY <1>1 DEF KeptInv
  <2>1. Kept(t) /\ host \in Seq(HostDefs(t))
    BY <1>1 DEF KeptInv
  <2>2. HostList \in Seq(HostDefs(t))
    BY <1>1, <2>1, HostListed
  <2> QED
    BY <1>1, <2>1, <2>2
<1>4. FlagsInv'
  <2>1. ops' \in 0 .. MaxOps
    BY <1>1, Counting
  <2>2. crashed' \in BOOLEAN
    BY <1>1, Zenon DEF BadPointer
  <2> QED
    BY <1>1, <2>1, <2>2, Zenon DEF FlagsInv
<1>5. CommitListsWhatWasAdded'
  <2> SUFFICES ASSUME fresh, single
               PROVE  /\ ~crashed'
                      /\ reply'.svcs = [k \in 1 .. Len(wanted) |->
                            [uuid |-> <<wanted[k].uuid>>,
                             chrs |-> [c \in 1 .. Len(wanted[k].chrs) |-> <<wanted[k].uuid, c>>]]]
    BY <1>1 DEF CommitListsWhatWasAdded
  <2>1. CASE t.nsvcs = 0
    <3>1. Visited = {}
      BY <2>1 DEF Visited
    <3>2. ~BadPointer
      BY <3>1 DEF BadPointer
    <3>3. reply' = [op |-> "commit_svcs", status |-> "ok", svcs |-> << >>]
      BY <2>1, <3>2 DEF CommitSvcs, Reply
    <3>4. wanted = << >>
      BY <1>1, <2>1 DEF TablesInv
    <3>5. reply'.svcs = << >> /\ Len(wanted) = 0
      BY <3>3, <3>4
    <3> QED
      BY <1>1, <3>2, <3>5
  <2>2. CASE t.nsvcs # 0
    <3>1. t.nsvcs > 0
      <4>1. t.nsvcs \in Nat
        BY <1>1 DEF TablesInv, Tables
      <4> QED
        BY <2>2, <4>1
    <3>2. Added(t, wanted)
      BY <1>1, <3>1 DEF AddedInv
    <3>3. /\ ~BadPointer
          /\ CommitRsp = [k \in 1 .. Len(wanted) |->
                            [uuid |-> <<wanted[k].uuid>>,
                             chrs |-> [c \in 1 .. Len(wanted[k].chrs) |-> <<wanted[k].uuid, c>>]]]
      BY <1>1, <3>2, CommitAnswers
    <3>4. reply' = [op |-> "commit_svcs", status |-> "ok", svcs |-> CommitRsp]
      BY <2>2, <3>3, Zenon DEF CommitSvcs, Reply
    <3>5. reply'.svcs = CommitRsp
      BY <3>4
    <3> QED
      BY <1>1, <3>3, <3>5
  <2> QED
    BY <2>1, <2>2
<1> QED
  BY <1>2, <1>3, <1>4, <1>5 DEF RegInv

LEMMA RefusedKeeps ==
  ASSUME RegInv, CommitRefused
  PROVE  RegInv'
<1>1. /\ TablesInv /\ KeptInv /\ AddedInv /\ FlagsInv /\ CommitListsWhatWasAdded
      /\ Running /\ ops' = ops + 1 /\ reply'.status = "host error"
      /\ t' = t /\ host' = host /\ wanted' = wanted
      /\ fresh' = fresh /\ single' = single /\ crashed' = crashed
  BY DEF RegInv, CommitRefused, Reply
<1>2. TablesInv' /\ KeptInv' /\ AddedInv'
  BY <1>1 DEF TablesInv, KeptInv, AddedInv
<1>3. FlagsInv'
  <2>1. ops' \in 0 .. MaxOps
    BY <1>1, Counting
  <2> QED
    BY <1>1, <2>1, Zenon DEF FlagsInv
<1>4. CommitListsWhatWasAdded'
  BY <1>1 DEF CommitListsWhatWasAdded
<1> QED
  BY <1>2, <1>3, <1>4 DEF RegInv

LEMMA ClearKeeps ==
  ASSUME RegInv, ClearSvcs
  PROVE  RegInv'
<1>1. /\ TablesInv /\ KeptInv /\ AddedInv /\ FlagsInv /\ CommitListsWhatWasAdded
      /\ Running /\ ops' = ops + 1 /\ reply'.op = "clear_svcs"
      /\ t' = Cleared /\ wanted' = << >> /\ single' = TRUE /\ crashed' = crashed
  BY DEF RegInv, ClearSvcs, Reply
<1>2. fresh' = (fresh /\ t.nsvcs = 0) /\ (host' = << >> \/ host' = host)
  BY Zenon DEF ClearSvcs
<1>3. Tables(t) /\ Fine(t) /\ Within(t) /\ LastsNull(t)
  BY <1>1 DEF TablesInv
<1> DEFINE x == Cleared
<1>4. /\ Shaped(x) /\ x.svcs = t.svcs /\ x.chrs = t.chrs /\ x.dscs = t.dscs
      /\ x.nsvcs = 0 /\ x.nchrs = 0 /\ x.ndscs = 0 /\ x.nuuids = 0 /\ x.nvals = 0
      /\ x.seq = t.seq /\ x.given = t.given
  <2>1. Shaped(t)
    BY <1>3 DEF Tables
  <2>2. /\ x.svcs = t.svcs /\ x.chrs = t.chrs /\ x.dscs = t.dscs
        /\ x.seq = t.seq /\ x.given = t.given
    BY <2>1 DEF Cleared, Shaped
  <2>3. /\ x.nsvcs = 0 /\ x.nchrs = 0 /\ x.ndscs = 0 /\ x.nuuids = 0 /\ x.nvals = 0
    BY <2>1 DEF Cleared, Shaped
  <2>4. Shaped(x)
    <3>1. t = [svcs |-> t.svcs, chrs |-> t.chrs, dscs |-> t.dscs,
               nsvcs |-> t.nsvcs, nchrs |-> t.nchrs, ndscs |-> t.ndscs,
               nuuids |-> t.nuuids, nvals |-> t.nvals,
               seq |-> t.seq, given |-> t.given, ok |-> t.ok]
      BY <2>1, Zenon DEF Shaped
    <3>2. x = [t EXCEPT !.nsvcs = 0, !.nchrs = 0, !.ndscs = 0, !.nuuids = 0, !.nvals = 0]
      BY Zenon DEF Cleared
    <3> HIDE DEF x
    <3>3. x = [svcs |-> x.svcs, chrs |-> x.chrs, dscs |-> x.dscs,
               nsvcs |-> x.nsvcs, nchrs |-> x.nchrs, ndscs |-> x.ndscs,
               nuuids |-> x.nuuids, nvals |-> x.nvals,
               seq |-> x.seq, given |-> x.given, ok |-> x.ok]
      BY <3>1, <3>2, Zenon
    <3> QED
      BY <3>3, Zenon DEF Shaped
  <2> QED
    BY <2>2, <2>3, <2>4
<1>5. x.ok = t.ok
  BY <1>3 DEF Cleared, Tables, Shaped
<1> HIDE DEF x
<1>6. Tables(x) /\ Fine(x) /\ Within(x) /\ LastsNull(x)
  <2>1. Tables(x)
    BY <1>3, <1>4 DEF Tables
  <2>2. Fine(x)
    BY <1>3, <1>5 DEF Fine
  <2>3. Within(x)
    BY <1>4, Sizes DEF Within
  <2>4. LastsNull(x)
    BY <1>3, <1>4 DEF LastsNull
  <2> QED
    BY <2>1, <2>2, <2>3, <2>4
<1>7. t' = x
  BY <1>1 DEF x
<1>8. TablesInv'
  BY <1>1, <1>4, <1>6, <1>7 DEF TablesInv
\* Nothing changes in tables that were empty already.
<1>9. KeptInv'
  <2> SUFFICES ASSUME fresh, t.nsvcs = 0 PROVE Kept(x) /\ host' \in Seq(HostDefs(x))
    BY <1>2, <1>7 DEF KeptInv
  <2>1. Kept(t) /\ host \in Seq(HostDefs(t)) /\ t.nchrs = 0 /\ t.ndscs = 0
    BY <1>1 DEF KeptInv, TablesInv
  <2>2. Kept(x)
    <3>1. NoSvcsBehind(x) /\ SvcsEnded(x)
      BY <1>4, <2>1 DEF Kept, NoSvcsBehind, SvcsEnded
    <3>2. NoChrsBehind(x) /\ NoDscsBehind(x) /\ DscsEnded(x) /\ ChrsEnded(x)
      BY <1>4, <2>1 DEF Kept, Clean, NoChrsBehind, NoDscsBehind, DscsEnded, ChrsEnded
    <3>3. Numbered(x)
      BY <1>4, <2>1 DEF Kept, Clean, Numbered, ChrUsed, DscUsed
    <3>4. Pointed(x)
      BY <1>4, <2>1 DEF Kept, Pointed
    <3> QED
      BY <3>1, <3>2, <3>3, <3>4 DEF Kept, Clean
  <2>3. HostDefs(x) = HostDefs(t)
    BY <1>4, <2>1 DEF HostDefs
  <2>4. << >> \in Seq(HostDefs(x))
    OBVIOUS
  <2> QED
    BY <1>2, <2>1, <2>2, <2>3, <2>4, Zenon
<1>10. AddedInv'
  BY <1>4, <1>7 DEF AddedInv
<1>11. FlagsInv'
  <2>1. ops' \in 0 .. MaxOps
    BY <1>1, Counting
  <2>2. fresh' \in BOOLEAN /\ single' \in BOOLEAN
    BY <1>1, <1>2, Zenon
  <2> QED
    BY <1>1, <2>1, <2>2, Zenon DEF FlagsInv
<1>12. CommitListsWhatWasAdded'
  <2>1. ~crashed
    BY <1>1 DEF Running
  <2> QED
    BY <1>1, <2>1 DEF CommitListsWhatWasAdded
<1> QED
  BY <1>8, <1>9, <1>10, <1>11, <1>12 DEF RegInv

\* An event takes a number that no attribute has.
LEMMA EvtKeeps ==
  ASSUME RegInv, SendEvt
  PROVE  RegInv'
<1>1. /\ TablesInv /\ KeptInv /\ AddedInv /\ FlagsInv /\ CommitListsWhatWasAdded
      /\ Running /\ ops' = ops + 1 /\ reply' = reply
      /\ t' = TakeSeq(t) /\ host' = host /\ wanted' = wanted
      /\ fresh' = fresh /\ single' = single /\ crashed' = crashed
  BY DEF RegInv, SendEvt
<1>2. Tables(t) /\ Fine(t) /\ Within(t) /\ LastsNull(t)
  BY <1>1 DEF TablesInv
<1> DEFINE x == TakeSeq(t)
<1>3. /\ Shaped(x) /\ x.svcs = t.svcs /\ x.chrs = t.chrs /\ x.dscs = t.dscs
      /\ x.nsvcs = t.nsvcs /\ x.nchrs = t.nchrs /\ x.ndscs = t.ndscs
      /\ x.nuuids = t.nuuids /\ x.nvals = t.nvals
      /\ x.seq = NextEvtSeq(t.seq) /\ x.given = t.given + 1
  <2>1. Shaped(t)
    BY <1>2 DEF Tables
  <2>2. /\ x.svcs = t.svcs /\ x.chrs = t.chrs /\ x.dscs = t.dscs
        /\ x.nsvcs = t.nsvcs /\ x.nchrs = t.nchrs /\ x.ndscs = t.ndscs
        /\ x.nuuids = t.nuuids /\ x.nvals = t.nvals
    BY <2>1 DEF TakeSeq, Shaped
  <2>3. x.seq = NextEvtSeq(t.seq) /\ x.given = t.given + 1
    BY <2>1 DEF TakeSeq, Shaped
  <2>4. Shaped(x)
    <3>1. t = [svcs |-> t.svcs, chrs |-> t.chrs, dscs |-> t.dscs,
               nsvcs |-> t.nsvcs, nchrs |-> t.nchrs, ndscs |-> t.ndscs,
               nuuids |-> t.nuuids, nvals |-> t.nvals,
               seq |-> t.seq, given |-> t.given, ok |-> t.ok]
      BY <2>1, Zenon DEF Shaped
    <3>2. x = [t EXCEPT !.seq = NextEvtSeq(t.seq), !.given = t.given + 1]
      BY Zenon DEF TakeSeq
    <3> HIDE DEF x
    <3>3. x = [svcs |-> x.svcs, chrs |-> x.chrs, dscs |-> x.dscs,
               nsvcs |-> x.nsvcs, nchrs |-> x.nchrs, ndscs |-> x.ndscs,
               nuuids |-> x.nuuids, nvals |-> x.nvals,
               seq |-> x.seq, given |-> x.given, ok |-> x.ok]
      BY <3>1, <3>2, Zenon
    <3> QED
      BY <3>3, Zenon DEF Shaped
  <2> QED
    BY <2>2, <2>3, <2>4
<1>4. x.ok = t.ok
  BY <1>2 DEF TakeSeq, Tables, Shaped
<1> HIDE DEF x
<1>5. t' = x
  BY <1>1 DEF x
<1>6. Tables(x) /\ Fine(x) /\ Within(x) /\ LastsNull(x)
  <2>1. Tables(x)
    <3>1. x.seq \in 0 .. EvtNumbers - 1 /\ x.given \in Nat
      BY <1>2, <1>3, NextSeq, InTables
    <3> QED
      BY <1>2, <1>3, <3>1 DEF Tables
  <2>2. Fine(x)
    BY <1>2, <1>4 DEF Fine
  <2>3. Within(x) /\ LastsNull(x)
    BY <1>2, <1>3 DEF Within, LastsNull
  <2> QED
    BY <2>1, <2>2, <2>3
<1>7. TablesInv'
  BY <1>1, <1>3, <1>5, <1>6 DEF TablesInv
<1>8. KeptInv'
  <2> SUFFICES ASSUME fresh PROVE Kept(x) /\ host \in Seq(HostDefs(x))
    BY <1>1, <1>5 DEF KeptInv
  <2>1. Kept(t) /\ host \in Seq(HostDefs(t))
    BY <1>1 DEF KeptInv
  <2>2. Numbered(x)
    <3>1. Numbered(t) /\ t.given \in Nat /\ t.seq \in Nat /\ EvtNumbers \in Nat
      BY <1>2, <2>1, InTables, Sizes DEF Kept, Clean
    <3>2. x.given < EvtNumbers => x.seq = x.given
      BY <1>3, <3>1 DEF Numbered, NextEvtSeq
    <3>3. /\ \A i : ChrUsed(t, i) => t.chrs[i].arg \in Nat
          /\ \A i : DscUsed(t, i) => t.dscs[i].arg \in Nat
      BY <1>2, Args
    <3>4. /\ \A i : ChrUsed(x, i) <=> ChrUsed(t, i)
          /\ \A i : DscUsed(x, i) <=> DscUsed(t, i)
      BY <1>3 DEF ChrUsed, DscUsed
    <3>5. ASSUME x.given <= EvtNumbers
          PROVE  /\ \A i : ChrUsed(x, i) => x.chrs[i].arg < x.given
                 /\ \A i : DscUsed(x, i) => x.dscs[i].arg < x.given
                 /\ \A i, j : ChrUsed(x, i) /\ ChrUsed(x, j) /\ i # j => x.chrs[i].arg # x.chrs[j].arg
                 /\ \A i, j : DscUsed(x, i) /\ DscUsed(x, j) /\ i # j => x.dscs[i].arg # x.dscs[j].arg
                 /\ \A i, j : ChrUsed(x, i) /\ DscUsed(x, j) => x.chrs[i].arg # x.dscs[j].arg
      <4>1. t.given <= EvtNumbers /\ x.given = t.given + 1
        BY <1>3, <3>1, <3>5
      <4>2. /\ \A i : ChrUsed(t, i) => t.chrs[i].arg < t.given
            /\ \A i : DscUsed(t, i) => t.dscs[i].arg < t.given
            /\ \A i, j : ChrUsed(t, i) /\ ChrUsed(t, j) /\ i # j => t.chrs[i].arg # t.chrs[j].arg
            /\ \A i, j : DscUsed(t, i) /\ DscUsed(t, j) /\ i # j => t.dscs[i].arg # t.dscs[j].arg
            /\ \A i, j : ChrUsed(t, i) /\ DscUsed(t, j) => t.chrs[i].arg # t.dscs[j].arg
        BY <3>1, <4>1 DEF Numbered
      <4>3. /\ \A i : ChrUsed(x, i) => x.chrs[i].arg < x.given
            /\ \A i : DscUsed(x, i) => x.dscs[i].arg < x.given
        BY <1>3, <3>1, <3>3, <3>4, <4>1, <4>2
      <4> QED
        BY <1>3, <3>4, <4>2, <4>3
    <3> QED
      BY <3>2, <3>5 DEF Numbered
  <2>3. Kept(x)
    BY <1>3, <2>1, <2>2 DEF Kept, Clean, NoSvcsBehind, SvcsEnded, NoChrsBehind, NoDscsBehind,
                            DscsEnded, ChrsEnded, Pointed
  <2>4. HostDefs(x) = HostDefs(t)
    BY <1>3 DEF HostDefs
  <2> QED
    BY <2>1, <2>3, <2>4
<1>9. AddedInv'
  <2>1. Added(t, wanted) => Added(x, wanted)
    BY <1>3 DEF Added, SvcHeld
  <2> QED
    BY <1>1, <1>3, <1>5, <2>1 DEF AddedInv
<1>10. FlagsInv'
  <2>1. ops' \in 0 .. MaxOps
    BY <1>1, Counting
  <2> QED
    BY <1>1, <2>1, Zenon DEF FlagsInv
<1>11. CommitListsWhatWasAdded'
  BY <1>1 DEF CommitListsWhatWasAdded
<1> QED
  BY <1>7, <1>8, <1>9, <1>10, <1>11 DEF RegInv

LEMMA RegStep ==
  RegInv /\ [Next]_vars => RegInv'
<1> SUFFICES ASSUME RegInv, [Next]_vars PROVE RegInv'
  OBVIOUS
<1>1. CASE \E r \in Requests : AddSvcs(r)
  BY <1>1, AddKeeps
<1>2. CASE \E r \in Requests : RefuseSvcs(r)
  BY <1>2, RefuseKeeps
<1>3. CASE CommitSvcs
  BY <1>3, CommitKeeps
<1>4. CASE CommitRefused
  BY <1>4, RefusedKeeps
<1>5. CASE ClearSvcs
  BY <1>5, ClearKeeps
<1>6. CASE SendEvt
  BY <1>6, EvtKeeps
<1>7. CASE UNCHANGED vars
  <2>1. /\ t' = t /\ host' = host /\ wanted' = wanted /\ fresh' = fresh /\ single' = single
        /\ reply' = reply /\ crashed' = crashed /\ ops' = ops
    BY <1>7 DEF vars
  <2>2. TablesInv' /\ KeptInv' /\ AddedInv'
    BY <2>1 DEF RegInv, TablesInv, KeptInv, AddedInv
  <2>3. FlagsInv'
    BY <2>1, Zenon DEF RegInv, FlagsInv
  <2>4. CommitListsWhatWasAdded'
    BY <2>1 DEF RegInv, CommitListsWhatWasAdded
  <2> QED
    BY <2>2, <2>3, <2>4 DEF RegInv
<1> QED
  BY <1>1, <1>2, <1>3, <1>4, <1>5, <1>6, <1>7, Zenon DEF Next

LEMMA RegAlways ==
  Spec => []RegInv
BY RegInit, RegStep, PTL DEF Spec

-----------------------------------------------------------------------------
(* The theorems.                                                           *)

\* bhd_gatts_verify_resource_cnt() keeps every counter of bhd_gatts.c within
\* its table, whatever services the client asks for and however long the
\* tables are; every service definition has the uuid of a service a client
\* asked for, or none, and points into the table of characteristics.
THEOREM RegistryTypes ==
  Spec => []TypeOK
<1>1. RegInv => TypeOK
  <2> SUFFICES ASSUME RegInv PROVE TypeOK
    OBVIOUS
  <2>1. Tables(t) /\ Within(t) /\ FlagsInv
    BY DEF RegInv, TablesInv
  <2>2. /\ MaxSvcs \in Nat /\ MaxChrs \in Nat /\ MaxDscs \in Nat /\ MaxUuids \in Nat /\ MaxVals \in Nat
    BY Sizes
  <2>3. /\ t.nsvcs \in Nat /\ t.nchrs \in Nat /\ t.ndscs \in Nat /\ t.nuuids \in Nat /\ t.nvals \in Nat
        /\ t.seq \in 0 .. EvtNumbers - 1 /\ t.given \in Nat
    BY <2>1, InTables
  <2>4. /\ t.nsvcs <= MaxSvcs /\ t.nchrs <= MaxChrs /\ t.ndscs <= MaxDscs
        /\ t.nuuids <= MaxUuids /\ t.nvals <= MaxVals
    BY <2>1 DEF Within
  <2>5. /\ t.nsvcs \in 0 .. MaxSvcs /\ t.nchrs \in 0 .. MaxChrs /\ t.ndscs \in 0 .. MaxDscs
        /\ t.nuuids \in 0 .. MaxUuids /\ t.nvals \in 0 .. MaxVals
    BY <2>2, <2>3, <2>4
  <2>6. ASSUME NEW i \in DOMAIN t.svcs
        PROVE  /\ t.svcs[i].uuid \in {<<u>> : u \in Uuids} \union {NULL}
               /\ t.svcs[i].chrs \in -1 .. MaxChrs - 1
    <3>1. t.svcs[i] \in SvcDefs
      BY <2>1 DEF Tables
    <3> QED
      BY <3>1 DEF SvcDefs
  <2>7. ops \in 0 .. MaxOps
    BY <2>1 DEF FlagsInv
  <2>8. {fresh, single, crashed} \subseteq BOOLEAN
    BY <2>1, Zenon DEF FlagsInv
  <2> QED
    BY <2>3, <2>5, <2>6, <2>7, <2>8 DEF TypeOK
<1> QED
  BY <1>1, RegAlways, PTL

\* The asserts of bhd_gatts_save_uuid(), _dsc(), _chr() and _svc() cannot fail:
\* bhd_gatts_cnt_resources() counts at least what saving a request takes, for
\* every request and every size of the tables.
THEOREM NoAssertFails ==
  Spec => []AssertsHold
<1>1. RegInv => AssertsHold
  BY Zenon DEF RegInv, TablesInv, Fine, AssertsHold
<1> QED
  BY <1>1, RegAlways, PTL

\* No walk of the host over a list of definitions leaves its table, since the
\* last entry of each table is never written.
THEOREM LastEntriesNull ==
  Spec => []WalksStayInside
<1>1. RegInv => WalksStayInside
  BY DEF RegInv, TablesInv, LastsNull, WalksStayInside
<1> QED
  BY <1>1, RegAlways, PTL

\* Until a clear leaves entries behind, no later request overwrites a
\* definition that ble_gatts_start() gave the host.
THEOREM HostDefsKept ==
  Spec => []HostDefsUntouched
<1>1. RegInv => HostDefsUntouched
  <2> SUFFICES ASSUME RegInv, fresh, NEW i \in 1 .. Len(host)
               PROVE  t.chrs[host[i].def].arg = host[i].arg
    BY DEF HostDefsUntouched
  <2>1. host \in Seq(HostDefs(t))
    BY DEF RegInv, KeptInv
  <2>2. host[i] \in HostDefs(t)
    BY <2>1
  <2> QED
    BY <2>2 DEF HostDefs
<1> QED
  BY <1>1, RegAlways, PTL

\* Every list that a request added is followed by an entry with a NULL uuid,
\* although the code never writes one.
THEOREM ListsTerminated ==
  Spec => []TerminatorsAreNull
<1>1. RegInv => TerminatorsAreNull
  <2> SUFFICES ASSUME RegInv, fresh, t.nsvcs > 0
               PROVE  /\ t.svcs[t.nsvcs - 1].uuid = NULL
                      /\ t.nchrs > 0 => t.chrs[t.nchrs - 1].uuid = NULL
                      /\ t.ndscs > 0 => t.dscs[t.ndscs - 1].uuid = NULL
    BY DEF TerminatorsAreNull
  <2>1. Kept(t)
    BY DEF RegInv, KeptInv
  <2> QED
    BY <2>1 DEF Kept, Clean, SvcsEnded, ChrsEnded, DscsEnded
<1> QED
  BY <1>1, RegAlways, PTL

\* Until bhd_next_evt_seq() has wrapped, no two attributes have the same number
\* and no event without a request has that of an attribute.
THEOREM NumbersTell ==
  Spec => []NumbersIdentify
<1>1. RegInv => NumbersIdentify
  <2> SUFFICES ASSUME RegInv, fresh
               PROVE  /\ t.given <= EvtNumbers => \A a, b \in InUse : ArgOf(a) = ArgOf(b) => a = b
                      /\ t.given < EvtNumbers => \A a \in InUse : ArgOf(a) # t.seq
    BY DEF NumbersIdentify
  <2>1. Tables(t) /\ Numbered(t) /\ t.nchrs <= MaxChrs /\ t.ndscs <= MaxDscs
    BY DEF RegInv, TablesInv, Within, KeptInv, Kept, Clean
  <2>2. /\ t.nchrs \in Nat /\ t.ndscs \in Nat /\ t.given \in Nat
        /\ MaxChrs \in Nat /\ MaxDscs \in Nat /\ EvtNumbers \in Nat
    BY <2>1, InTables, Sizes
  <2>3. ASSUME NEW a \in InUse
        PROVE  \/ \E i : a = <<"chr", i>> /\ ChrUsed(t, i) /\ ArgOf(a) = t.chrs[i].arg
               \/ \E i : a = <<"dsc", i>> /\ DscUsed(t, i) /\ ArgOf(a) = t.dscs[i].arg
    <3>1. CASE a \in {<<"chr", i>> : i \in {j \in 0 .. t.nchrs - 1 : t.chrs[j].uuid # NULL}}
      <4>1. PICK i \in 0 .. t.nchrs - 1 : t.chrs[i].uuid # NULL /\ a = <<"chr", i>>
        BY <3>1
      <4>2. ChrUsed(t, i)
        BY <2>1, <2>2, <4>1 DEF ChrUsed
      <4> QED
        BY <4>1, <4>2 DEF ArgOf
    <3>2. CASE a \in {<<"dsc", i>> : i \in {j \in 0 .. t.ndscs - 1 : t.dscs[j].uuid # NULL}}
      <4>1. PICK i \in 0 .. t.ndscs - 1 : t.dscs[i].uuid # NULL /\ a = <<"dsc", i>>
        BY <3>2
      <4>2. DscUsed(t, i)
        BY <2>1, <2>2, <4>1 DEF DscUsed
      <4> QED
        BY <4>1, <4>2 DEF ArgOf
    <3> QED
      BY <3>1, <3>2 DEF InUse
  <2>4. ASSUME t.given <= EvtNumbers, NEW a \in InUse, NEW b \in InUse, ArgOf(a) = ArgOf(b)
        PROVE  a = b
    <3>1. /\ \A i, j : ChrUsed(t, i) /\ ChrUsed(t, j) /\ i # j => t.chrs[i].arg # t.chrs[j].arg
          /\ \A i, j : DscUsed(t, i) /\ DscUsed(t, j) /\ i # j => t.dscs[i].arg # t.dscs[j].arg
          /\ \A i, j : ChrUsed(t, i) /\ DscUsed(t, j) => t.chrs[i].arg # t.dscs[j].arg
      BY <2>1, <2>4 DEF Numbered
    <3>2. /\ \/ \E i : a = <<"chr", i>> /\ ChrUsed(t, i) /\ ArgOf(a) = t.chrs[i].arg
             \/ \E i : a = <<"dsc", i>> /\ DscUsed(t, i) /\ ArgOf(a) = t.dscs[i].arg
          /\ \/ \E i : b = <<"chr", i>> /\ ChrUsed(t, i) /\ ArgOf(b) = t.chrs[i].arg
             \/ \E i : b = <<"dsc", i>> /\ DscUsed(t, i) /\ ArgOf(b) = t.dscs[i].arg
      BY <2>3
    <3> QED
      BY <2>4, <3>1, <3>2
  <2>5. ASSUME t.given < EvtNumbers, NEW a \in InUse
        PROVE  ArgOf(a) # t.seq
    <3>1. /\ t.seq = t.given
          /\ \A i : ChrUsed(t, i) => t.chrs[i].arg \in Nat /\ t.chrs[i].arg < t.given
          /\ \A i : DscUsed(t, i) => t.dscs[i].arg \in Nat /\ t.dscs[i].arg < t.given
      BY <2>1, <2>2, <2>5, Args DEF Numbered
    <3> QED
      BY <2>2, <2>3, <3>1
  <2> QED
    BY <2>4, <2>5
<1> QED
  BY <1>1, RegAlways, PTL

\* commit_svcs is answered with exactly the services that the one add_svcs
\* before it added, for every request whose services all have characteristics.
THEOREM CommitListsAll ==
  Spec => []CommitListsWhatWasAdded
<1>1. RegInv => CommitListsWhatWasAdded
  BY DEF RegInv
<1> QED
  BY <1>1, RegAlways, PTL
=============================================================================
