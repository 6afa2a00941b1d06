--------------------------- MODULE SvcHeap_proofs ---------------------------
(***************************************************************************)
(* Proofs about the heap blocks of add_svcs and commit_svcs: for every     *)
(* tree of services a client can send, and any number of services to       *)
(* commit, free() gets what was allocated, once, and what is left behind   *)
(* is exactly Leak.                                                        *)
(*                                                                         *)
(* The invariant has one part for each point of the program, which says    *)
(* which pointers were written, which arrays are allocated, and which      *)
(* elements were filled, as functions of the place that was reached.       *)
(***************************************************************************)
EXTENDS SvcHeap, TLAPS

-----------------------------------------------------------------------------
(* Names.                                                                  *)

\* The services up to number i; the characteristics of the services before
\* number i, and those of service i up to number j.
SvcsTo(i) == {s \in SvcElems : s[1] <= i}
ChrsTo(i, j) == {c \in ChrElems : c[1] < i \/ (c[1] = i /\ c[2] <= j)}

KindOf(p) == IF Len(p) = 1 THEN Svc(p[1]).kind ELSE Chr(p[1], p[2]).kind
Arrays(names) == {p \in names : KindOf(p) = "array"}

\* The pointers after the elements in names were begun.
PtrOf(names) ==
  [p \in {<< >>} \union names |->
     IF p = << >> THEN "array" ELSE IF KindOf(p) = "array" THEN "array" ELSE "NULL"]

GoodSvcs(n) == \A h \in 1 .. n : ~BadSvc(Svc(h))
GoodChrs(i, n) == \A g \in 1 .. n : ~BadChr(Chr(i, g))

\* The elements that decoding begins: up to the first that is invalid.
Reached ==
  {s \in SvcElems : s[1] \in UpToFirst(BadSvc, tree)} \union
  {c \in ChrElems : /\ c[1] \in UpToFirst(BadSvc, tree)
                    /\ c[2] \in UpToFirst(BadChr, Svc(c[1]).elems)}

-----------------------------------------------------------------------------
(* The invariant.                                                          *)

TreeOK ==
  /\ op \in {"add_svcs", "commit_svcs"}
  /\ tree \in Seq(Elems(Elems(BOOLEAN)))
  /\ NoArrayNoElems(tree)
  /\ \A i \in DOMAIN tree : NoArrayNoElems(tree[i].elems)
  /\ op = "commit_svcs" => \A i \in DOMAIN tree : tree[i].elems = << >>

\* Nothing was freed that should not be; add_svcs writes behind an array only
\* when there are descriptors.
Sound ==
  /\ wild = {}
  /\ past # {} => op = "add_svcs" /\ DscElems # {}

AtStart ==
  /\ pc = "start"
  /\ ptr = << >> /\ live = {} /\ filled = {} /\ read = {}
  /\ wild = {} /\ past = {} /\ num_svcs = 0 /\ status = "ok"

\* Decoding: the elements in "names" were begun, i - 1 services are decoded.
Decoding(i, names) ==
  /\ op = "add_svcs" /\ status = "ok" /\ read = {}
  /\ ptr = PtrOf(names)
  /\ live = {<< >>} \union Arrays(names)
  /\ num_svcs = i - 1
  /\ GoodSvcs(i - 1)
  /\ Sound

AtSvc ==
  /\ pc = "svc"
  /\ \E i \in 1 .. Len(tree) + 1 :
       /\ at = <<i>>
       /\ Decoding(i, SvcsTo(i - 1) \union ChrsTo(i, 0))
       /\ filled = SvcsTo(i - 1) \union ChrsTo(i, 0)

AtChr ==
  /\ pc = "chr"
  /\ \E i \in 1 .. Len(tree) : \E j \in 1 .. Len(Svc(i).elems) + 1 :
       /\ at = <<i, j>>
       /\ Svc(i).kind = "array"
       /\ Decoding(i, SvcsTo(i) \union ChrsTo(i, j - 1))
       /\ filled = SvcsTo(i - 1) \union ChrsTo(i, j - 1)
       /\ GoodChrs(i, j - 1)

AtDsc ==
  /\ pc = "dsc"
  /\ \E i \in 1 .. Len(tree) : \E j \in 1 .. Len(Svc(i).elems) :
     \E k \in 1 .. Len(Chr(i, j).elems) + 1 :
       /\ at = <<i, j, k>>
       /\ Svc(i).kind = "array" /\ Chr(i, j).kind = "array"
       /\ Decoding(i, SvcsTo(i) \union ChrsTo(i, j))
       /\ filled = SvcsTo(i - 1) \union ChrsTo(i, j - 1)
       /\ GoodChrs(i, j - 1)
       /\ \A m \in 1 .. k - 1 : Chr(i, j).elems[m]

\* Decoding is over: num_svcs services were decoded, and the next one, if there
\* is one, is invalid.  What "ok" and the elements read mean.
Decoded ==
  /\ op = "add_svcs"
  /\ num_svcs \in 0 .. Len(tree)
  /\ GoodSvcs(num_svcs)
  /\ num_svcs # Len(tree) => BadSvc(Svc(num_svcs + 1)) /\ read = {} /\ status = "invalid"
  /\ num_svcs = Len(tree) => filled = SvcElems \union ChrElems
  /\ ptr = PtrOf(Reached)
  /\ read = {} \/ read = SvcElems \union ChrElems \union DscElems
  /\ status = "ok" => read = SvcElems \union ChrElems \union DscElems
  /\ Sound

\* What is allocated when the services before number d were destroyed.
LeftAt(d) == Arrays(Reached) \ ChrsTo(d, 0)

AtDestroy ==
  /\ pc = "destroy"
  /\ Decoded
  /\ \E d \in 1 .. num_svcs + 1 :
       /\ at = <<d>>
       /\ live = {<< >>} \union LeftAt(d)

\* The request had no array of services, or nothing was committed.
Nothing ==
  /\ << >> \in DOMAIN ptr /\ ptr[<< >>] = "NULL"
  /\ live = {} /\ wild = {} /\ past = {} /\ read = {}
  /\ op = "add_svcs" => status = "invalid"

\* The error path of commit_svcs.
Botched ==
  /\ op = "commit_svcs" /\ read = {}
  /\ wild = {<<Len(tree) + 1>>} /\ past = {<< >>}
  /\ << >> \in DOMAIN ptr /\ ptr[<< >>] = "array"

Committed(n) ==
  /\ op = "commit_svcs"
  /\ ptr = [p \in {<< >>} \union SvcElems |->
              IF p = << >> THEN "array" ELSE IF p[1] <= n THEN "array" ELSE "NULL"]
  /\ filled = SvcsTo(n)
  /\ wild = {} /\ past = {}

AtCommit ==
  /\ pc = "commit"
  /\ read = {}
  /\ \E i \in 1 .. Len(tree) + 1 :
       /\ at = <<i>>
       /\ Committed(i - 1)
       /\ live = {<< >>} \union SvcsTo(i - 1)

AtEncode ==
  /\ pc = "encode"
  /\ read = {}
  /\ num_svcs = Len(tree)
  /\ Committed(Len(tree))
  /\ live = {<< >>} \union SvcElems

Listed == Committed(Len(tree)) /\ read = SvcElems

AtFree ==
  /\ pc = "free"
  /\ \/ Nothing
     \/ Decoded /\ live = {<< >>} \union LeftAt(num_svcs + 1)
     \/ (Botched \/ Listed) /\ live = {<< >>}

AtDone ==
  /\ pc = "done"
  /\ \/ Nothing
     \/ Decoded /\ live = LeftAt(num_svcs + 1)
     \/ (Botched \/ Listed) /\ live = {}

HeapInv ==
  /\ TreeOK
  /\ \/ AtStart \/ AtSvc \/ AtChr \/ AtDsc \/ AtDestroy
     \/ AtCommit \/ AtEncode \/ AtFree \/ AtDone

-----------------------------------------------------------------------------
(* Lemmas about names.                                                     *)

\* A name is a service or a characteristic, and says which.
LEMMA NamesOfSvcs ==
  /\ \A h \in DOMAIN tree : <<h>> \in SvcElems /\ KindOf(<<h>>) = Svc(h).kind
  /\ \A s \in SvcElems : s[1] \in DOMAIN tree /\ s = <<s[1]>>
BY DEF SvcElems, KindOf

LEMMA NamesOfChrs ==
  /\ \A h \in DOMAIN tree : \A g \in DOMAIN tree[h].elems :
       <<h, g>> \in ChrElems /\ KindOf(<<h, g>>) = Chr(h, g).kind
  /\ \A c \in ChrElems : /\ c[1] \in DOMAIN tree /\ c[2] \in DOMAIN tree[c[1]].elems
                          /\ c = <<c[1], c[2]>>
<1>1. ASSUME NEW h \in DOMAIN tree, NEW g \in DOMAIN tree[h].elems
      PROVE  <<h, g>> \in ChrElems /\ KindOf(<<h, g>>) = Chr(h, g).kind
  BY <1>1 DEF ChrElems, KindOf
<1>2. ASSUME NEW c \in ChrElems
      PROVE  /\ c[1] \in DOMAIN tree /\ c[2] \in DOMAIN tree[c[1]].elems
             /\ c = <<c[1], c[2]>>
  <2>1. PICK i \in DOMAIN tree : c \in {<<i, j>> : j \in DOMAIN tree[i].elems}
    BY <1>2 DEF ChrElems
  <2> QED
    BY <2>1
<1> QED
  BY <1>1, <1>2

LEMMA TreeShape ==
  ASSUME TreeOK
  PROVE  /\ Len(tree) \in Nat /\ DOMAIN tree = 1 .. Len(tree)
         /\ \A i \in 1 .. Len(tree) :
              /\ Svc(i).kind \in Kinds
              /\ Len(Svc(i).elems) \in Nat
              /\ DOMAIN Svc(i).elems = 1 .. Len(Svc(i).elems)
              /\ Svc(i).kind # "array" => Len(Svc(i).elems) = 0
              /\ \A j \in 1 .. Len(Svc(i).elems) :
                   /\ Chr(i, j).kind \in Kinds
                   /\ Chr(i, j).elems \in Seq(BOOLEAN)
                   /\ Len(Chr(i, j).elems) \in Nat
                   /\ DOMAIN Chr(i, j).elems = 1 .. Len(Chr(i, j).elems)
                   /\ Chr(i, j).kind # "array" => Len(Chr(i, j).elems) = 0
<1>1. Len(tree) \in Nat /\ DOMAIN tree = 1 .. Len(tree)
  BY DEF TreeOK
<1>2. ASSUME NEW i \in 1 .. Len(tree)
      PROVE  /\ Svc(i).kind \in Kinds
             /\ Svc(i).elems \in Seq(Elems(BOOLEAN))
             /\ Len(Svc(i).elems) \in Nat
             /\ DOMAIN Svc(i).elems = 1 .. Len(Svc(i).elems)
             /\ Svc(i).kind # "array" => Len(Svc(i).elems) = 0
  <2>1. Svc(i) \in Elems(Elems(BOOLEAN))
    BY <1>1 DEF TreeOK, Svc
  <2>2. Svc(i).elems \in Seq(Elems(BOOLEAN)) /\ Svc(i).kind \in Kinds
    BY <2>1 DEF Elems
  <2>3. Svc(i).kind # "array" => Svc(i).elems = << >>
    BY <1>1 DEF TreeOK, NoArrayNoElems, Svc
  <2> QED
    BY <2>2, <2>3
<1>3. ASSUME NEW i \in 1 .. Len(tree), NEW j \in 1 .. Len(Svc(i).elems)
      PROVE  /\ Chr(i, j).kind \in Kinds
             /\ Chr(i, j).elems \in Seq(BOOLEAN)
             /\ Len(Chr(i, j).elems) \in Nat
             /\ DOMAIN Chr(i, j).elems = 1 .. Len(Chr(i, j).elems)
             /\ Chr(i, j).kind # "array" => Len(Chr(i, j).elems) = 0
  <2>1. Chr(i, j) \in Elems(BOOLEAN)
    BY <1>2 DEF Chr, Svc
  <2>2. Chr(i, j).elems \in Seq(BOOLEAN) /\ Chr(i, j).kind \in Kinds
    BY <2>1 DEF Elems
  <2>3. Chr(i, j).kind # "array" => Chr(i, j).elems = << >>
    BY <1>1, <1>2 DEF TreeOK, NoArrayNoElems, Svc, Chr
  <2> QED
    BY <2>2, <2>3
<1> QED
  BY <1>1, <1>2, <1>3

\* How the sets of names grow with the place.
LEMMA SvcsGrow ==
  ASSUME TreeOK, NEW i \in 1 .. Len(tree)
  PROVE  SvcsTo(i) = SvcsTo(i - 1) \union {<<i>>}
BY NamesOfSvcs, TreeShape DEF SvcsTo

LEMMA ChrsGrow ==
  ASSUME TreeOK, NEW i \in 1 .. Len(tree)
  PROVE  /\ \A j \in 1 .. Len(Svc(i).elems) :
              ChrsTo(i, j) = ChrsTo(i, j - 1) \union {<<i, j>>}
         /\ ChrsTo(i + 1, 0) = ChrsTo(i, Len(Svc(i).elems))
<1>1. ASSUME NEW j \in 1 .. Len(Svc(i).elems)
      PROVE  ChrsTo(i, j) = ChrsTo(i, j - 1) \union {<<i, j>>}
  BY NamesOfChrs, TreeShape DEF ChrsTo, Svc
<1>2. ASSUME NEW c \in ChrElems
      PROVE  c[1] < i + 1 \/ (c[1] = i + 1 /\ c[2] <= 0)
             <=> c[1] < i \/ (c[1] = i /\ c[2] <= Len(Svc(i).elems))
  BY NamesOfChrs, TreeShape DEF Svc
<1> QED
  BY <1>1, <1>2 DEF ChrsTo

LEMMA AllNames ==
  ASSUME TreeOK
  PROVE  /\ SvcsTo(0) = {} /\ ChrsTo(1, 0) = {}
         /\ SvcsTo(Len(tree)) = SvcElems /\ ChrsTo(Len(tree) + 1, 0) = ChrElems
<1>1. SvcsTo(0) = {} /\ SvcsTo(Len(tree)) = SvcElems
  BY NamesOfSvcs, TreeShape DEF SvcsTo
<1>2. \A c \in ChrElems : c[1] \in 1 .. Len(tree) /\ c[2] \in Nat \ {0}
  BY NamesOfChrs, TreeShape DEF Svc
<1> QED
  BY <1>1, <1>2, TreeShape DEF ChrsTo

LEMMA ArraysGrow ==
  ASSUME NEW names, NEW p
  PROVE  Arrays(names \union {p}) =
           Arrays(names) \union (IF KindOf(p) = "array" THEN {p} ELSE {})
BY DEF Arrays

LEMMA PtrGrows ==
  ASSUME NEW names, NEW p, p # << >>, ptr = PtrOf(names)
  PROVE  PtrOf(names \union {p}) = Set(p, IF KindOf(p) = "array" THEN "array" ELSE "NULL")
BY DEF PtrOf, Set

-----------------------------------------------------------------------------
(* The tree of a request does not change.                                  *)

LEMMA SameTree ==
  ASSUME UNCHANGED tree
  PROVE  /\ \A i : SvcsTo(i)' = SvcsTo(i) /\ GoodSvcs(i)' = GoodSvcs(i)
         /\ \A i, j : ChrsTo(i, j)' = ChrsTo(i, j) /\ GoodChrs(i, j)' = GoodChrs(i, j)
         /\ \A names : Arrays(names)' = Arrays(names) /\ PtrOf(names)' = PtrOf(names)
         /\ Reached' = Reached
         /\ SvcElems' = SvcElems /\ ChrElems' = ChrElems /\ DscElems' = DscElems
BY DEF SvcsTo, ChrsTo, GoodSvcs, GoodChrs, Arrays, PtrOf, KindOf, Reached,
       SvcElems, ChrElems, DscElems, Svc, Chr

LEMMA SameTreeOK ==
  ASSUME TreeOK, UNCHANGED <<op, tree>>
  PROVE  TreeOK'
BY DEF TreeOK

-----------------------------------------------------------------------------
(* Places.                                                                 *)

\* A sequence is told by its elements.
LEMMA ShortSeqs ==
  ASSUME NEW s \in Seq(Nat)
  PROVE  /\ Len(s) = 0 => s = << >>
         /\ Len(s) = 1 => s = <<s[1]>>
         /\ Len(s) = 2 => s = <<s[1], s[2]>>
         /\ Len(s) = 3 => s = <<s[1], s[2], s[3]>>
OBVIOUS

LEMMA Places ==
  ASSUME NEW i \in Nat, NEW j \in Nat, NEW k \in Nat
  PROVE  /\ After(<<i, j>>) = <<i, j + 1>>
         /\ After(<<i, j, k>>) = <<i, j, k + 1>>
         /\ Append(<<i, j>>, k) = <<i, j, k>>
         /\ Front(<<i, j, k>>) = <<i, j>> /\ Last(<<i, j, k>>) = k
         /\ Front(<<i>>) = << >> /\ Front(<<i, j>>) = <<i>>
<1>1. <<i>> \in Seq(Nat) /\ <<i, j>> \in Seq(Nat) /\ <<i, j, k>> \in Seq(Nat)
  OBVIOUS
<1>2. After(<<i, j>>) = <<i, j + 1>>
  <2>1. /\ After(<<i, j>>) \in Seq(Nat) /\ Len(After(<<i, j>>)) = 2
        /\ After(<<i, j>>)[1] = i /\ After(<<i, j>>)[2] = j + 1
    BY <1>1 DEF After
  <2> QED
    BY <2>1, ShortSeqs
<1>3. After(<<i, j, k>>) = <<i, j, k + 1>>
  <2>1. /\ After(<<i, j, k>>) \in Seq(Nat) /\ Len(After(<<i, j, k>>)) = 3
        /\ After(<<i, j, k>>)[1] = i /\ After(<<i, j, k>>)[2] = j
        /\ After(<<i, j, k>>)[3] = k + 1
    BY <1>1 DEF After
  <2> QED
    BY <2>1, ShortSeqs
<1>4. Append(<<i, j>>, k) = <<i, j, k>>
  <2>1. /\ Append(<<i, j>>, k) \in Seq(Nat) /\ Len(Append(<<i, j>>, k)) = 3
        /\ Append(<<i, j>>, k)[1] = i /\ Append(<<i, j>>, k)[2] = j
        /\ Append(<<i, j>>, k)[3] = k
    BY <1>1
  <2> QED
    BY <2>1, ShortSeqs
<1>5. Front(<<i, j, k>>) = <<i, j>> /\ Last(<<i, j, k>>) = k
  <2>1. /\ Front(<<i, j, k>>) \in Seq(Nat) /\ Len(Front(<<i, j, k>>)) = 2
        /\ Front(<<i, j, k>>)[1] = i /\ Front(<<i, j, k>>)[2] = j
    BY <1>1 DEF Front
  <2> QED
    BY <2>1, ShortSeqs DEF Last
<1>6. Front(<<i, j>>) = <<i>>
  <2>1. /\ Front(<<i, j>>) \in Seq(Nat) /\ Len(Front(<<i, j>>)) = 1
        /\ Front(<<i, j>>)[1] = i
    BY <1>1 DEF Front
  <2> QED
    BY <2>1, ShortSeqs
<1>7. Front(<<i>>) = << >>
  <2>1. Front(<<i>>) \in Seq(Nat) /\ Len(Front(<<i>>)) = 0
    BY <1>1 DEF Front
  <2> QED
    BY <2>1, ShortSeqs
<1> QED
  BY <1>2, <1>3, <1>4, <1>5, <1>6, <1>7

LEMMA FrontOfSvc ==
  \A i \in Nat : Front(<<i>>) = << >>
<1> TAKE i \in Nat
<1> QED
  BY Places

LEMMA FirstDsc ==
  ASSUME NEW i \in Nat, NEW j \in Nat
  PROVE  Append(<<i, j>>, 1) = <<i, j, 1>>
<1>1. 1 \in Nat
  OBVIOUS
<1> QED
  BY <1>1, Places

\* Before the first invalid service, nothing is invalid.
LEMMA GoodBelow ==
  ASSUME TreeOK, NEW n \in 0 .. Len(tree), GoodSvcs(n)
  PROVE  \A h \in 1 .. n : /\ Svc(h).kind # "invalid"
                           /\ GoodChrs(h, Len(Svc(h).elems))
                           /\ UpToFirst(BadChr, Svc(h).elems) = 1 .. Len(Svc(h).elems)
<1> TAKE h \in 1 .. n
<1>1. h \in 1 .. Len(tree)
  OBVIOUS
<1>2. Svc(h).kind # "invalid" /\ \A g \in DOMAIN Svc(h).elems : ~BadChr(Svc(h).elems[g])
  BY DEF GoodSvcs, BadSvc
<1>3. GoodChrs(h, Len(Svc(h).elems))
  BY <1>1, <1>2, TreeShape DEF GoodChrs, Chr, Svc
<1>4. UpToFirst(BadChr, Svc(h).elems) = 1 .. Len(Svc(h).elems)
  BY <1>1, <1>2, TreeShape DEF UpToFirst
<1> QED
  BY <1>2, <1>3, <1>4

\* Decoding fails in service i, at its characteristic j if there is one.
LEMMA ReachedFirstBad ==
  ASSUME TreeOK, NEW i \in 1 .. Len(tree), GoodSvcs(i - 1), BadSvc(Svc(i)),
         NEW j \in 0 .. Len(Svc(i).elems), GoodChrs(i, j - 1),
         IF j = 0 THEN Len(Svc(i).elems) = 0 ELSE BadChr(Chr(i, j))
  PROVE  Reached = SvcsTo(i) \union ChrsTo(i, j)
<1>1. UpToFirst(BadSvc, tree) = 1 .. i
  BY TreeShape DEF UpToFirst, GoodSvcs, Svc
<1>2. UpToFirst(BadChr, Svc(i).elems) = 1 .. j
  BY TreeShape DEF UpToFirst, GoodChrs, Chr, Svc
<1>3. \A h \in 1 .. i - 1 : UpToFirst(BadChr, Svc(h).elems) = 1 .. Len(Svc(h).elems)
  BY GoodBelow, TreeShape
<1>4. ASSUME NEW s \in SvcElems
      PROVE  s[1] \in 1 .. i <=> s[1] <= i
  BY NamesOfSvcs, TreeShape
<1>5. ASSUME NEW c \in ChrElems
      PROVE  (c[1] \in 1 .. i /\ c[2] \in UpToFirst(BadChr, Svc(c[1]).elems))
             <=> (c[1] < i \/ (c[1] = i /\ c[2] <= j))
  <2>1. /\ c[1] \in 1 .. Len(tree) /\ c[2] \in 1 .. Len(Svc(c[1]).elems)
        /\ Len(Svc(c[1]).elems) \in Nat
    BY NamesOfChrs, TreeShape DEF Svc
  <2> QED
    BY <1>2, <1>3, <2>1, SMTT(30)
<1> QED
  BY <1>1, <1>4, <1>5 DEF Reached, SvcsTo, ChrsTo

LEMMA ReachedAll ==
  ASSUME TreeOK, GoodSvcs(Len(tree))
  PROVE  Reached = SvcElems \union ChrElems
<1>1. UpToFirst(BadSvc, tree) = 1 .. Len(tree)
  BY TreeShape DEF UpToFirst, GoodSvcs, Svc
<1>2. ASSUME NEW c \in ChrElems
      PROVE  c[1] \in 1 .. Len(tree) /\ c[2] \in UpToFirst(BadChr, Svc(c[1]).elems)
  <2>1. c[1] \in 1 .. Len(tree) /\ c[2] \in 1 .. Len(Svc(c[1]).elems)
    BY NamesOfChrs, TreeShape DEF Svc
  <2> QED
    BY <2>1, GoodBelow, TreeShape
<1>3. \A s \in SvcElems : s[1] \in 1 .. Len(tree)
  BY NamesOfSvcs, TreeShape
<1> QED
  BY <1>1, <1>2, <1>3 DEF Reached

-----------------------------------------------------------------------------
(* add_svcs: decoding.                                                     *)

\* An element is begun: its pointer is written, and its array allocated.
LEMMA Begins ==
  ASSUME NEW names, NEW p, p # << >>,
         ptr = PtrOf(names), live = {<< >>} \union Arrays(names),
         IF KindOf(p) = "array" THEN ptr' = Set(p, "array") /\ live' = live \union {p}
                                ELSE ptr' = Set(p, "NULL") /\ live' = live
  PROVE  ptr' = PtrOf(names \union {p}) /\ live' = {<< >>} \union Arrays(names \union {p})
<1>1. ptr' = PtrOf(names \union {p})
  BY PtrGrows
<1>2. live' = {<< >>} \union Arrays(names \union {p})
  BY ArraysGrow
<1> QED
  BY <1>1, <1>2

\* The three places of decoding, as what is written of the next state.
StillDecoding(i) ==
  /\ UNCHANGED <<op, tree>> /\ op = "add_svcs"
  /\ GoodSvcs(i - 1)
  /\ status' = "ok" /\ read' = {} /\ wild' = {}
  /\ past' # {} => DscElems # {}
  /\ num_svcs' = i - 1

LEMMA ToSvc ==
  ASSUME NEW i \in 1 .. Len(tree) + 1, StillDecoding(i), pc' = "svc", at' = <<i>>,
         ptr' = PtrOf(SvcsTo(i - 1) \union ChrsTo(i, 0)),
         live' = {<< >>} \union Arrays(SvcsTo(i - 1) \union ChrsTo(i, 0)),
         filled' = SvcsTo(i - 1) \union ChrsTo(i, 0)
  PROVE  AtSvc'
<1>1. Decoding(i, SvcsTo(i - 1) \union ChrsTo(i, 0))'
  BY SameTree DEF Decoding, Sound, StillDecoding
<1> QED
  BY <1>1, SameTree DEF AtSvc, StillDecoding

LEMMA ToChr ==
  ASSUME NEW i \in 1 .. Len(tree), NEW j \in 1 .. Len(Svc(i).elems) + 1,
         StillDecoding(i), pc' = "chr", at' = <<i, j>>, Svc(i).kind = "array",
         ptr' = PtrOf(SvcsTo(i) \union ChrsTo(i, j - 1)),
         live' = {<< >>} \union Arrays(SvcsTo(i) \union ChrsTo(i, j - 1)),
         filled' = SvcsTo(i - 1) \union ChrsTo(i, j - 1), GoodChrs(i, j - 1)
  PROVE  AtChr'
<1>1. Decoding(i, SvcsTo(i) \union ChrsTo(i, j - 1))'
  BY SameTree DEF Decoding, Sound, StillDecoding
<1> QED
  BY <1>1, SameTree DEF AtChr, Svc, StillDecoding

LEMMA ToDsc ==
  ASSUME NEW i \in 1 .. Len(tree), NEW j \in 1 .. Len(Svc(i).elems),
         NEW k \in 1 .. Len(Chr(i, j).elems) + 1,
         StillDecoding(i), pc' = "dsc", at' = <<i, j, k>>,
         Svc(i).kind = "array", Chr(i, j).kind = "array",
         ptr' = PtrOf(SvcsTo(i) \union ChrsTo(i, j)),
         live' = {<< >>} \union Arrays(SvcsTo(i) \union ChrsTo(i, j)),
         filled' = SvcsTo(i - 1) \union ChrsTo(i, j - 1), GoodChrs(i, j - 1),
         \A m \in 1 .. k - 1 : Chr(i, j).elems[m]
  PROVE  AtDsc'
<1>1. Decoding(i, SvcsTo(i) \union ChrsTo(i, j))'
  BY SameTree DEF Decoding, Sound, StillDecoding
<1> QED
  BY <1>1, SameTree DEF AtDsc, Svc, Chr, StillDecoding

LEMMA NoServicesStep ==
  ASSUME HeapInv, NoServices
  PROVE  AtFree'
<1>1. AtStart
  BY DEF HeapInv, NoServices, AtSvc, AtChr, AtDsc, AtDestroy, AtCommit, AtEncode, AtFree, AtDone
<1> QED
  BY <1>1 DEF AtStart, NoServices, AtFree, Nothing, Set

LEMMA AllocSvcsStep ==
  ASSUME HeapInv, AllocSvcs
  PROVE  AtSvc'
<1>1. AtStart /\ TreeOK
  BY DEF HeapInv, AllocSvcs, AtSvc, AtChr, AtDsc, AtDestroy, AtCommit, AtEncode, AtFree, AtDone
<1>2. SvcsTo(0) = {} /\ ChrsTo(1, 0) = {} /\ 1 \in 1 .. Len(tree) + 1
  BY <1>1, AllNames, TreeShape
<1>3. ptr' = PtrOf({}) /\ live' = {<< >>} \union Arrays({})
  BY <1>1 DEF AtStart, AllocSvcs, Set, PtrOf, Arrays
<1>4. GoodSvcs(0)
  BY DEF GoodSvcs
<1>5. StillDecoding(1)
  BY <1>1, <1>4 DEF StillDecoding, AllocSvcs, AtStart
<1>6. /\ pc' = "svc" /\ at' = <<1>> /\ filled' = {}
      /\ {} = SvcsTo(1 - 1) \union ChrsTo(1, 0)
  BY <1>1, <1>2 DEF AllocSvcs, AtStart
<1> QED
  BY <1>2, <1>3, <1>5, <1>6, ToSvc

\* Where an element is invalid, the tree is destroyed up to its service.
LEMMA FailStep ==
  ASSUME TreeOK, op = "add_svcs", UNCHANGED <<op, tree, wild, read>>,
         NEW i \in 1 .. Len(tree), GoodSvcs(i - 1), BadSvc(Svc(i)),
         NEW j \in 0 .. Len(Svc(i).elems), GoodChrs(i, j - 1),
         IF j = 0 THEN Len(Svc(i).elems) = 0 ELSE BadChr(Chr(i, j)),
         ptr' = PtrOf(SvcsTo(i) \union ChrsTo(i, j)),
         live' = {<< >>} \union Arrays(SvcsTo(i) \union ChrsTo(i, j)),
         read = {}, wild = {}, past' # {} => DscElems # {},
         status' = "invalid", num_svcs' = i - 1, at' = << 1 >>, pc' = "destroy"
  PROVE  AtDestroy'
<1>1. Reached = SvcsTo(i) \union ChrsTo(i, j)
  BY ReachedFirstBad
<1>2. LeftAt(1) = Arrays(Reached)
  BY AllNames DEF LeftAt
<1>3. LeftAt(1)' = LeftAt(1) /\ Svc(i)' = Svc(i) /\ BadSvc(Svc(i))' = BadSvc(Svc(i))
  BY SameTree DEF LeftAt, Svc, BadSvc, BadChr
<1>4. i - 1 \in 0 .. Len(tree) /\ i - 1 # Len(tree) /\ (i - 1) + 1 = i /\ 1 \in 1 .. (i - 1) + 1
  BY TreeShape
<1>5. Sound'
  BY SameTree DEF Sound
<1>6. Decoded'
  BY <1>1, <1>3, <1>4, <1>5, SameTree DEF Decoded
<1> QED
  BY <1>1, <1>2, <1>3, <1>4, <1>6 DEF AtDestroy

LEMMA DecodeSvcStep ==
  ASSUME HeapInv, DecodeSvc
  PROVE  AtSvc' \/ AtChr' \/ AtDestroy'
<1>1. AtSvc /\ TreeOK
  BY DEF HeapInv, DecodeSvc, AtStart, AtChr, AtDsc, AtDestroy, AtCommit, AtEncode, AtFree, AtDone
<1>2. PICK i \in 1 .. Len(tree) + 1 :
        /\ at = <<i>>
        /\ Decoding(i, SvcsTo(i - 1) \union ChrsTo(i, 0))
        /\ filled = SvcsTo(i - 1) \union ChrsTo(i, 0)
  BY <1>1 DEF AtSvc
<1> DEFINE N == SvcsTo(i - 1) \union ChrsTo(i, 0)
<1>3. /\ i \in 1 .. Len(tree) /\ i \in Nat /\ Len(tree) \in Nat /\ i \in DOMAIN tree
      /\ Len(Svc(i).elems) \in Nat
      /\ Svc(i).kind # "array" => Len(Svc(i).elems) = 0 /\ DOMAIN Svc(i).elems = {}
      /\ at[1] = i /\ <<i>>[1] = i
  BY <1>1, <1>2, TreeShape DEF DecodeSvc
<1>4. KindOf(<<i>>) = Svc(i).kind /\ N \union {<<i>>} = SvcsTo(i) \union ChrsTo(i, 0)
  BY <1>1, <1>3, NamesOfSvcs, SvcsGrow
<1>5. /\ op = "add_svcs" /\ status = "ok" /\ read = {} /\ wild = {} /\ num_svcs = i - 1
      /\ ptr = PtrOf(N) /\ live = {<< >>} \union Arrays(N)
      /\ GoodSvcs(i - 1) /\ (past # {} => DscElems # {})
  BY <1>2 DEF Decoding, Sound
<1>6. UNCHANGED <<op, tree, wild, past, read>>
  BY DEF DecodeSvc
<1>7. IF Svc(i).kind = "array" THEN ptr' = Set(<<i>>, "array") /\ live' = live \union {<<i>>}
                               ELSE ptr' = Set(<<i>>, "NULL") /\ live' = live
  <2>1. at[1] = i
    BY <1>3
  <2>2. CASE Svc(i).kind = "array"
    BY <2>1, <2>2 DEF DecodeSvc
  <2>3. CASE Svc(i).kind # "array"
    BY <1>1, <1>3, <2>1, <2>3, TreeShape DEF DecodeSvc, Kinds
  <2> QED
    BY <2>2, <2>3
<1>8. /\ ptr' = PtrOf(SvcsTo(i) \union ChrsTo(i, 0))
      /\ live' = {<< >>} \union Arrays(SvcsTo(i) \union ChrsTo(i, 0))
  <2>1. <<i>> # << >>
    OBVIOUS
  <2> HIDE DEF N
  <2>2. ptr' = PtrOf(N \union {<<i>>}) /\ live' = {<< >>} \union Arrays(N \union {<<i>>})
    BY <1>4, <1>5, <1>7, <2>1, Begins
  <2> QED
    BY <1>4, <2>2
<1>9. CASE Svc(i).kind = "invalid"
  <2>1. /\ status' = "invalid" /\ num_svcs' = i - 1 /\ at' = <<1>> /\ pc' = "destroy"
    BY <1>3, <1>9 DEF DecodeSvc, Fail, Counted
  <2>2. BadSvc(Svc(i)) /\ GoodChrs(i, 0 - 1) /\ Len(Svc(i).elems) = 0 /\ 0 \in 0 .. 0
    BY <1>3, <1>9 DEF BadSvc, GoodChrs
  <2> QED
    BY <1>1, <1>3, <1>5, <1>6, <1>8, <2>1, <2>2, FailStep
<1>10. CASE Svc(i).kind = "plain"
  <2>1. /\ filled' = filled \union {<<i>>} /\ num_svcs' = i /\ at' = <<i + 1>> /\ pc' = "svc"
        /\ status' = "ok"
    BY <1>3, <1>5, <1>10 DEF DecodeSvc, EndSvc
  <2>2. ChrsTo(i + 1, 0) = ChrsTo(i, 0)
    BY <1>1, <1>3, <1>10, ChrsGrow
  <2>3. GoodSvcs(i)
    BY <1>3, <1>5, <1>10 DEF GoodSvcs, BadSvc
  <2>4. /\ SvcsTo(i) \union ChrsTo(i, 0) = SvcsTo((i + 1) - 1) \union ChrsTo(i + 1, 0)
        /\ i = (i + 1) - 1 /\ i + 1 \in 1 .. Len(tree) + 1
    BY <1>3, <2>2
  <2>5. filled' = SvcsTo(i) \union ChrsTo(i, 0)
    BY <1>2, <1>4, <2>1
  <2>6. StillDecoding(i + 1)
    BY <1>5, <1>6, <2>1, <2>3, <2>4 DEF StillDecoding
  <2> QED
    BY <1>8, <2>1, <2>4, <2>5, <2>6, ToSvc
<1>11. CASE Svc(i).kind = "array"
  <2>1. /\ filled' = filled /\ num_svcs' = num_svcs /\ at' = <<i, 1>> /\ pc' = "chr"
        /\ status' = "ok"
    BY <1>3, <1>5, <1>11 DEF DecodeSvc
  <2>2. StillDecoding(i)
    BY <1>5, <1>6, <2>1 DEF StillDecoding
  <2>3. GoodChrs(i, 1 - 1) /\ 1 \in 1 .. Len(Svc(i).elems) + 1 /\ 1 - 1 = 0
    BY <1>3 DEF GoodChrs
  <2> QED
    BY <1>2, <1>3, <1>8, <1>11, <2>1, <2>2, <2>3, ToChr
<1> QED
  BY <1>1, <1>3, <1>9, <1>10, <1>11, TreeShape DEF Kinds

\* The service that decoding is at when its last characteristic is decoded.
LEMMA EndChrsStep ==
  ASSUME HeapInv, EndChrs
  PROVE  AtSvc'
<1>1. AtChr /\ TreeOK
  BY DEF HeapInv, EndChrs, AtStart, AtSvc, AtDsc, AtDestroy, AtCommit, AtEncode, AtFree, AtDone
<1>0. PICK i \in 1 .. Len(tree) :
        \E j \in 1 .. Len(Svc(i).elems) + 1 :
          /\ at = <<i, j>> /\ Svc(i).kind = "array"
          /\ Decoding(i, SvcsTo(i) \union ChrsTo(i, j - 1))
          /\ filled = SvcsTo(i - 1) \union ChrsTo(i, j - 1)
          /\ GoodChrs(i, j - 1)
  BY <1>1 DEF AtChr
<1>2. PICK j \in 1 .. Len(Svc(i).elems) + 1 :
        /\ at = <<i, j>> /\ Svc(i).kind = "array"
        /\ Decoding(i, SvcsTo(i) \union ChrsTo(i, j - 1))
        /\ filled = SvcsTo(i - 1) \union ChrsTo(i, j - 1)
        /\ GoodChrs(i, j - 1)
  BY <1>0
<1>3. /\ i \in Nat /\ Len(tree) \in Nat /\ Len(Svc(i).elems) \in Nat
      /\ at[1] = i /\ at[2] = j /\ j - 1 = Len(Svc(i).elems)
      /\ DOMAIN Svc(i).elems = 1 .. Len(Svc(i).elems)
  BY <1>1, <1>2, TreeShape DEF EndChrs
<1>4. /\ ChrsTo(i + 1, 0) = ChrsTo(i, j - 1)
      /\ SvcsTo(i) = SvcsTo(i - 1) \union {<<i>>}
  BY <1>1, <1>3, ChrsGrow, SvcsGrow
<1>5. /\ op = "add_svcs" /\ status = "ok" /\ read = {} /\ wild = {} /\ num_svcs = i - 1
      /\ ptr = PtrOf(SvcsTo(i) \union ChrsTo(i, j - 1))
      /\ live = {<< >>} \union Arrays(SvcsTo(i) \union ChrsTo(i, j - 1))
      /\ GoodSvcs(i - 1) /\ (past # {} => DscElems # {})
  BY <1>2 DEF Decoding, Sound
<1>6. GoodSvcs(i)
  <2>1. ~BadSvc(Svc(i))
    BY <1>2, <1>3 DEF BadSvc, GoodChrs, Chr, Svc
  <2> QED
    BY <1>3, <1>5, <2>1 DEF GoodSvcs
<1>7. /\ SvcsTo(i) \union ChrsTo(i, j - 1) = SvcsTo((i + 1) - 1) \union ChrsTo(i + 1, 0)
      /\ i = (i + 1) - 1 /\ i + 1 \in 1 .. Len(tree) + 1
  BY <1>3, <1>4
<1>8. /\ filled' = filled \union {<<i>>} /\ num_svcs' = i /\ at' = <<i + 1>> /\ pc' = "svc"
      /\ UNCHANGED <<op, tree, live, ptr, wild, past, read, status>>
  BY <1>3 DEF EndChrs, EndSvc
<1>9. StillDecoding(i + 1)
  BY <1>5, <1>6, <1>7, <1>8 DEF StillDecoding
<1>10. filled' = SvcsTo(i) \union ChrsTo(i, j - 1)
  BY <1>2, <1>4, <1>8
<1> QED
  BY <1>5, <1>7, <1>8, <1>9, <1>10, ToSvc

LEMMA DecodeChrStep ==
  ASSUME HeapInv, DecodeChr
  PROVE  AtChr' \/ AtDsc' \/ AtDestroy'
<1>1. AtChr /\ TreeOK
  BY DEF HeapInv, DecodeChr, AtStart, AtSvc, AtDsc, AtDestroy, AtCommit, AtEncode, AtFree, AtDone
<1>0. PICK i \in 1 .. Len(tree) :
        \E j \in 1 .. Len(Svc(i).elems) + 1 :
          /\ at = <<i, j>> /\ Svc(i).kind = "array"
          /\ Decoding(i, SvcsTo(i) \union ChrsTo(i, j - 1))
          /\ filled = SvcsTo(i - 1) \union ChrsTo(i, j - 1)
          /\ GoodChrs(i, j - 1)
  BY <1>1 DEF AtChr
<1>2. PICK j \in 1 .. Len(Svc(i).elems) + 1 :
        /\ at = <<i, j>> /\ Svc(i).kind = "array"
        /\ Decoding(i, SvcsTo(i) \union ChrsTo(i, j - 1))
        /\ filled = SvcsTo(i - 1) \union ChrsTo(i, j - 1)
        /\ GoodChrs(i, j - 1)
  BY <1>0
<1> DEFINE N == SvcsTo(i) \union ChrsTo(i, j - 1)
<1>3. /\ i \in DOMAIN tree /\ i \in Nat /\ j \in Nat
      /\ Len(tree) \in Nat /\ Len(Svc(i).elems) \in Nat
      /\ at[1] = i /\ at[2] = j
      /\ j \in 1 .. Len(Svc(i).elems) /\ j \in DOMAIN tree[i].elems
      /\ Chr(i, j).kind \in Kinds /\ Len(Chr(i, j).elems) \in Nat
      /\ DOMAIN Chr(i, j).elems = 1 .. Len(Chr(i, j).elems)
      /\ Chr(i, j).kind # "array" => Len(Chr(i, j).elems) = 0
  BY <1>1, <1>2, TreeShape DEF DecodeChr, Svc
<1>4. /\ KindOf(<<i, j>>) = Chr(i, j).kind
      /\ ChrsTo(i, j) = ChrsTo(i, j - 1) \union {<<i, j>>}
      /\ N \union {<<i, j>>} = SvcsTo(i) \union ChrsTo(i, j)
  BY <1>1, <1>3, NamesOfChrs, ChrsGrow
<1>5. /\ op = "add_svcs" /\ status = "ok" /\ read = {} /\ wild = {} /\ num_svcs = i - 1
      /\ ptr = PtrOf(N) /\ live = {<< >>} \union Arrays(N)
      /\ GoodSvcs(i - 1) /\ (past # {} => DscElems # {})
  BY <1>2 DEF Decoding, Sound
<1>6. UNCHANGED <<op, tree, wild, past, read>>
  BY DEF DecodeChr
<1>7. IF Chr(i, j).kind = "array" THEN ptr' = Set(<<i, j>>, "array") /\ live' = live \union {<<i, j>>}
                                  ELSE ptr' = Set(<<i, j>>, "NULL") /\ live' = live
  <2>1. CASE Chr(i, j).kind = "array"
    BY <1>2, <1>3, <2>1 DEF DecodeChr
  <2>2. CASE Chr(i, j).kind # "array"
    BY <1>2, <1>3, <2>2 DEF DecodeChr, Kinds
  <2> QED
    BY <2>1, <2>2
<1>8. /\ ptr' = PtrOf(SvcsTo(i) \union ChrsTo(i, j))
      /\ live' = {<< >>} \union Arrays(SvcsTo(i) \union ChrsTo(i, j))
  <2>1. <<i, j>> # << >>
    OBVIOUS
  <2> HIDE DEF N
  <2>2. ptr' = PtrOf(N \union {<<i, j>>}) /\ live' = {<< >>} \union Arrays(N \union {<<i, j>>})
    BY <1>4, <1>5, <1>7, <2>1, Begins
  <2> QED
    BY <1>4, <2>2
<1>9. CASE Chr(i, j).kind = "invalid"
  <2>1. /\ status' = "invalid" /\ num_svcs' = i - 1 /\ at' = <<1>> /\ pc' = "destroy"
    BY <1>2, <1>3, <1>9 DEF DecodeChr, Fail, Counted
  <2>2. BadChr(Chr(i, j))
    BY <1>9 DEF BadChr
  <2>3. BadSvc(Svc(i)) /\ j \in 0 .. Len(Svc(i).elems) /\ j # 0
    BY <1>3, <2>2 DEF BadSvc, Chr, Svc
  <2> QED
    BY <1>1, <1>2, <1>3, <1>5, <1>6, <1>8, <2>1, <2>2, <2>3, FailStep
<1>10. CASE Chr(i, j).kind = "plain"
  <2>1. /\ filled' = filled \union {<<i, j>>} /\ num_svcs' = num_svcs /\ at' = <<i, j + 1>>
        /\ pc' = "chr" /\ status' = "ok"
    BY <1>2, <1>3, <1>5, <1>10, Places DEF DecodeChr, AtChr
  <2>2. ~BadChr(Chr(i, j))
    BY <1>3, <1>10 DEF BadChr
  <2>3. GoodChrs(i, j)
    BY <1>2, <1>3, <2>2 DEF GoodChrs
  <2>4. j = (j + 1) - 1 /\ j + 1 \in 1 .. Len(Svc(i).elems) + 1
    BY <1>3
  <2>5. filled' = SvcsTo(i - 1) \union ChrsTo(i, j)
    BY <1>2, <1>4, <2>1
  <2>6. StillDecoding(i)
    BY <1>5, <1>6, <2>1 DEF StillDecoding
  <2> QED
    BY <1>2, <1>8, <2>1, <2>3, <2>4, <2>5, <2>6, ToChr
<1>11. CASE Chr(i, j).kind = "array"
  <2>1. /\ filled' = filled /\ num_svcs' = num_svcs /\ at' = <<i, j, 1>>
        /\ pc' = "dsc" /\ status' = "ok"
    <3>1. Append(<<i, j>>, 1) = <<i, j, 1>>
      BY <1>3, FirstDsc
    <3> QED
      BY <1>2, <1>3, <1>5, <1>11, <3>1 DEF DecodeChr
  <2>2. 1 \in 1 .. Len(Chr(i, j).elems) + 1 /\ \A m \in 1 .. 1 - 1 : Chr(i, j).elems[m]
    BY <1>3
  <2>3. StillDecoding(i)
    BY <1>5, <1>6, <2>1 DEF StillDecoding
  <2> QED
    BY <1>2, <1>3, <1>8, <1>11, <2>1, <2>2, <2>3, ToDsc
<1> QED
  BY <1>3, <1>9, <1>10, <1>11 DEF Kinds

LEMMA EndDscsStep ==
  ASSUME HeapInv, EndDscs
  PROVE  AtChr'
<1>1. AtDsc /\ TreeOK
  BY DEF HeapInv, EndDscs, AtStart, AtSvc, AtChr, AtDestroy, AtCommit, AtEncode, AtFree, AtDone
<1>0. PICK i \in 1 .. Len(tree) :
        \E j \in 1 .. Len(Svc(i).elems) : \E k \in 1 .. Len(Chr(i, j).elems) + 1 :
          /\ at = <<i, j, k>>
          /\ Svc(i).kind = "array" /\ Chr(i, j).kind = "array"
          /\ Decoding(i, SvcsTo(i) \union ChrsTo(i, j))
          /\ filled = SvcsTo(i - 1) \union ChrsTo(i, j - 1)
          /\ GoodChrs(i, j - 1)
          /\ \A m \in 1 .. k - 1 : Chr(i, j).elems[m]
  BY <1>1 DEF AtDsc
<1>2. PICK j \in 1 .. Len(Svc(i).elems) :
        \E k \in 1 .. Len(Chr(i, j).elems) + 1 :
          /\ at = <<i, j, k>>
          /\ Svc(i).kind = "array" /\ Chr(i, j).kind = "array"
          /\ Decoding(i, SvcsTo(i) \union ChrsTo(i, j))
          /\ filled = SvcsTo(i - 1) \union ChrsTo(i, j - 1)
          /\ GoodChrs(i, j - 1)
          /\ \A m \in 1 .. k - 1 : Chr(i, j).elems[m]
  BY <1>0
<1>3. PICK k \in 1 .. Len(Chr(i, j).elems) + 1 :
        /\ at = <<i, j, k>>
        /\ Svc(i).kind = "array" /\ Chr(i, j).kind = "array"
        /\ Decoding(i, SvcsTo(i) \union ChrsTo(i, j))
        /\ filled = SvcsTo(i - 1) \union ChrsTo(i, j - 1)
        /\ GoodChrs(i, j - 1)
        /\ \A m \in 1 .. k - 1 : Chr(i, j).elems[m]
  BY <1>2
<1>4. /\ i \in DOMAIN tree /\ i \in Nat /\ j \in Nat /\ k \in Nat
      /\ Len(tree) \in Nat /\ Len(Svc(i).elems) \in Nat /\ Len(Chr(i, j).elems) \in Nat
      /\ j \in DOMAIN tree[i].elems
      /\ Chr(i, j).elems \in Seq(BOOLEAN)
      /\ DOMAIN Chr(i, j).elems = 1 .. Len(Chr(i, j).elems)
      /\ at[1] = i /\ at[2] = j
  <2>1. /\ i \in DOMAIN tree /\ i \in Nat /\ Len(tree) \in Nat /\ Len(Svc(i).elems) \in Nat
        /\ j \in DOMAIN Svc(i).elems /\ j \in Nat
    BY <1>1, TreeShape
  <2>2. /\ Chr(i, j).elems \in Seq(BOOLEAN) /\ Len(Chr(i, j).elems) \in Nat
        /\ DOMAIN Chr(i, j).elems = 1 .. Len(Chr(i, j).elems)
    BY <1>1, TreeShape
  <2>3. at[1] = i /\ at[2] = j /\ k \in Nat
    BY <1>3, <2>2
  <2> QED
    BY <2>1, <2>2, <2>3 DEF Svc
<1>5. /\ Front(at) = <<i, j>> /\ Last(at) = k /\ After(at) = <<i, j, k + 1>>
      /\ After(Front(at)) = <<i, j + 1>>
  <2>1. i \in Nat /\ j \in Nat /\ k \in Nat /\ at = <<i, j, k>>
    BY <1>3, <1>4
  <2>2. /\ Front(<<i, j, k>>) = <<i, j>> /\ Last(<<i, j, k>>) = k
        /\ After(<<i, j, k>>) = <<i, j, k + 1>> /\ After(<<i, j>>) = <<i, j + 1>>
    BY <2>1, Places
  <2> QED
    BY <2>1, <2>2, Zenon
<1>6. /\ op = "add_svcs" /\ status = "ok" /\ read = {} /\ wild = {} /\ num_svcs = i - 1
      /\ ptr = PtrOf(SvcsTo(i) \union ChrsTo(i, j))
      /\ live = {<< >>} \union Arrays(SvcsTo(i) \union ChrsTo(i, j))
      /\ GoodSvcs(i - 1) /\ (past # {} => DscElems # {})
  BY <1>3 DEF Decoding, Sound
<1>7. /\ k - 1 = Len(Chr(i, j).elems)
      /\ filled' = filled \union {<<i, j>>} /\ at' = <<i, j + 1>> /\ pc' = "chr"
      /\ UNCHANGED <<op, tree, num_svcs, live, ptr, wild, past, read, status>>
  <2>1. k > Len(Chr(i, j).elems)
    BY <1>4, <1>5 DEF EndDscs
  <2>2. k - 1 = Len(Chr(i, j).elems)
    BY <1>3, <1>4, <2>1
  <2> QED
    BY <1>5, <2>2 DEF EndDscs
<1>8. ~BadChr(Chr(i, j))
  BY <1>3, <1>4, <1>7 DEF BadChr
<1>9. GoodChrs(i, j)
  BY <1>3, <1>4, <1>8 DEF GoodChrs
<1>10. j = (j + 1) - 1 /\ j + 1 \in 1 .. Len(Svc(i).elems) + 1
  BY <1>4
<1>11. filled' = SvcsTo(i - 1) \union ChrsTo(i, j)
  BY <1>1, <1>3, <1>4, <1>7, ChrsGrow, SMTT(30)
<1>12. StillDecoding(i)
  BY <1>6, <1>7 DEF StillDecoding
<1> QED
  BY <1>3, <1>6, <1>7, <1>9, <1>10, <1>11, <1>12, ToChr

LEMMA DecodeDscStep ==
  ASSUME HeapInv, DecodeDsc
  PROVE  AtDsc' \/ AtDestroy'
<1>1. AtDsc /\ TreeOK
  BY DEF HeapInv, DecodeDsc, AtStart, AtSvc, AtChr, AtDestroy, AtCommit, AtEncode, AtFree, AtDone
<1>0. PICK i \in 1 .. Len(tree) :
        \E j \in 1 .. Len(Svc(i).elems) : \E k \in 1 .. Len(Chr(i, j).elems) + 1 :
          /\ at = <<i, j, k>>
          /\ Svc(i).kind = "array" /\ Chr(i, j).kind = "array"
          /\ Decoding(i, SvcsTo(i) \union ChrsTo(i, j))
          /\ filled = SvcsTo(i - 1) \union ChrsTo(i, j - 1)
          /\ GoodChrs(i, j - 1)
          /\ \A m \in 1 .. k - 1 : Chr(i, j).elems[m]
  BY <1>1 DEF AtDsc
<1>2. PICK j \in 1 .. Len(Svc(i).elems) :
        \E k \in 1 .. Len(Chr(i, j).elems) + 1 :
          /\ at = <<i, j, k>>
          /\ Svc(i).kind = "array" /\ Chr(i, j).kind = "array"
          /\ Decoding(i, SvcsTo(i) \union ChrsTo(i, j))
          /\ filled = SvcsTo(i - 1) \union ChrsTo(i, j - 1)
          /\ GoodChrs(i, j - 1)
          /\ \A m \in 1 .. k - 1 : Chr(i, j).elems[m]
  BY <1>0
<1>3. PICK k \in 1 .. Len(Chr(i, j).elems) + 1 :
        /\ at = <<i, j, k>>
        /\ Svc(i).kind = "array" /\ Chr(i, j).kind = "array"
        /\ Decoding(i, SvcsTo(i) \union ChrsTo(i, j))
        /\ filled = SvcsTo(i - 1) \union ChrsTo(i, j - 1)
        /\ GoodChrs(i, j - 1)
        /\ \A m \in 1 .. k - 1 : Chr(i, j).elems[m]
  BY <1>2
<1>4. /\ i \in DOMAIN tree /\ i \in Nat /\ j \in Nat /\ k \in Nat
      /\ Len(tree) \in Nat /\ Len(Svc(i).elems) \in Nat /\ Len(Chr(i, j).elems) \in Nat
      /\ j \in DOMAIN tree[i].elems
      /\ Chr(i, j).elems \in Seq(BOOLEAN)
      /\ DOMAIN Chr(i, j).elems = 1 .. Len(Chr(i, j).elems)
      /\ at[1] = i /\ at[2] = j
  <2>1. /\ i \in DOMAIN tree /\ i \in Nat /\ Len(tree) \in Nat /\ Len(Svc(i).elems) \in Nat
        /\ j \in DOMAIN Svc(i).elems /\ j \in Nat
    BY <1>1, TreeShape
  <2>2. /\ Chr(i, j).elems \in Seq(BOOLEAN) /\ Len(Chr(i, j).elems) \in Nat
        /\ DOMAIN Chr(i, j).elems = 1 .. Len(Chr(i, j).elems)
    BY <1>1, TreeShape
  <2>3. at[1] = i /\ at[2] = j /\ k \in Nat
    BY <1>3, <2>2
  <2> QED
    BY <2>1, <2>2, <2>3 DEF Svc
<1>5. /\ Front(at) = <<i, j>> /\ Last(at) = k /\ After(at) = <<i, j, k + 1>>
      /\ After(Front(at)) = <<i, j + 1>>
  <2>1. i \in Nat /\ j \in Nat /\ k \in Nat /\ at = <<i, j, k>>
    BY <1>3, <1>4
  <2>2. /\ Front(<<i, j, k>>) = <<i, j>> /\ Last(<<i, j, k>>) = k
        /\ After(<<i, j, k>>) = <<i, j, k + 1>> /\ After(<<i, j>>) = <<i, j + 1>>
    BY <2>1, Places
  <2> QED
    BY <2>1, <2>2, Zenon
<1>6. /\ op = "add_svcs" /\ status = "ok" /\ read = {} /\ wild = {} /\ num_svcs = i - 1
      /\ ptr = PtrOf(SvcsTo(i) \union ChrsTo(i, j))
      /\ live = {<< >>} \union Arrays(SvcsTo(i) \union ChrsTo(i, j))
      /\ GoodSvcs(i - 1) /\ (past # {} => DscElems # {})
  BY <1>3 DEF Decoding, Sound
<1>7. /\ k \in 1 .. Len(Chr(i, j).elems)
      /\ UNCHANGED <<op, tree, live, ptr, wild, filled, read>>
  BY <1>4, <1>5 DEF DecodeDsc
<1>8. DscElems # {}
  <2>1. k \in DOMAIN Chr(i, j).elems
    BY <1>4, <1>7
  <2>2. <<i, j>> \in ChrElems /\ <<i, j>>[1] = i /\ <<i, j>>[2] = j
    BY <1>4, NamesOfChrs
  <2>3. <<i, j, k>> \in DscElems
    BY <2>1, <2>2 DEF DscElems
  <2> QED
    BY <2>3
<1>9. CASE Chr(i, j).elems[k]
  <2>1. at' = <<i, j, k + 1>> /\ pc' = pc /\ num_svcs' = num_svcs /\ status' = status
    BY <1>4, <1>5, <1>9 DEF DecodeDsc
  <2>2. /\ k + 1 \in 1 .. Len(Chr(i, j).elems) + 1
        /\ \A m \in 1 .. (k + 1) - 1 : Chr(i, j).elems[m]
    BY <1>3, <1>4, <1>7, <1>9, SMTT(30)
  <2>3. StillDecoding(i)
    BY <1>6, <1>7, <1>8, <2>1 DEF StillDecoding
  <2>4. pc' = "dsc"
    BY <1>1, <2>1 DEF AtDsc
  <2> QED
    BY <1>3, <1>6, <1>7, <2>1, <2>2, <2>3, <2>4, ToDsc
<1>10. CASE ~Chr(i, j).elems[k]
  <2>1. /\ status' = "invalid" /\ num_svcs' = i - 1 /\ at' = <<1>> /\ pc' = "destroy"
    BY <1>4, <1>5, <1>10 DEF DecodeDsc, Fail, Counted
  <2>2. BadChr(Chr(i, j))
    BY <1>4, <1>7, <1>10 DEF BadChr
  <2>3. BadSvc(Svc(i)) /\ j \in 0 .. Len(Svc(i).elems) /\ j # 0
    BY <1>4, <2>2 DEF BadSvc, Chr, Svc
  <2> QED
    BY <1>1, <1>3, <1>4, <1>6, <1>7, <1>8, <2>1, <2>2, <2>3, FailStep
<1> QED
  BY <1>9, <1>10

-----------------------------------------------------------------------------
(* add_svcs: use and destruction.                                          *)

LEMMA UseSvcsStep ==
  ASSUME HeapInv, UseSvcs
  PROVE  AtDestroy'
<1>1. AtSvc /\ TreeOK
  BY DEF HeapInv, UseSvcs, AtStart, AtChr, AtDsc, AtDestroy, AtCommit, AtEncode, AtFree, AtDone
<1>2. PICK i \in 1 .. Len(tree) + 1 :
        /\ at = <<i>>
        /\ Decoding(i, SvcsTo(i - 1) \union ChrsTo(i, 0))
        /\ filled = SvcsTo(i - 1) \union ChrsTo(i, 0)
  BY <1>1 DEF AtSvc
<1>3. i = Len(tree) + 1 /\ i - 1 = Len(tree) /\ Len(tree) \in Nat
  BY <1>1, <1>2, TreeShape DEF UseSvcs, SvcsDone
<1>4. SvcsTo(i - 1) \union ChrsTo(i, 0) = Reached /\ Reached = SvcElems \union ChrElems
  BY <1>1, <1>2, <1>3, AllNames, ReachedAll DEF Decoding
<1>5. /\ op = "add_svcs" /\ num_svcs = Len(tree) /\ GoodSvcs(Len(tree))
      /\ ptr = PtrOf(Reached) /\ live = {<< >>} \union Arrays(Reached)
      /\ read = {} /\ status = "ok" /\ Sound /\ filled = SvcElems \union ChrElems
  BY <1>2, <1>3, <1>4 DEF Decoding
<1>6. /\ UNCHANGED <<op, tree, num_svcs, live, ptr, wild, past, filled>>
      /\ at' = <<1>> /\ pc' = "destroy"
      /\ \/ read' = SvcElems \union ChrElems \union DscElems /\ status' = status
         \/ status' = "ENOMEM" /\ read' = read
  BY DEF UseSvcs
<1>7. Decoded'
  BY <1>3, <1>5, <1>6, SameTree DEF Decoded, Sound
<1>8. LeftAt(1)' = Arrays(Reached)
  BY <1>1, <1>6, AllNames, SameTree DEF LeftAt
<1>9. 1 \in 1 .. num_svcs' + 1
  BY <1>3, <1>5, <1>6
<1> QED
  BY <1>5, <1>6, <1>7, <1>8, <1>9 DEF AtDestroy

\* What Free() leaves of the pointers and arrays.
LEMMA LeftAtShape ==
  ASSUME TreeOK, NEW d
  PROVE  << >> \notin LeftAt(d) /\ LeftAt(d) \subseteq Arrays(Reached)
<1>1. \A p \in Reached : p # << >>
  BY NamesOfSvcs, NamesOfChrs DEF Reached
<1> QED
  BY <1>1 DEF LeftAt, Arrays

LEMMA SameDecoded ==
  ASSUME Decoded, UNCHANGED <<op, tree, num_svcs, ptr, wild, past, filled, read, status>>
  PROVE  Decoded' /\ \A d : LeftAt(d)' = LeftAt(d)
<1>1. \A i : Svc(i)' = Svc(i) /\ BadSvc(Svc(i))' = BadSvc(Svc(i))
  BY DEF Svc, BadSvc, BadChr
<1> QED
  BY <1>1, SameTree DEF Decoded, Sound, LeftAt

LEMMA DestroySvcStep ==
  ASSUME HeapInv, DestroySvc
  PROVE  AtDestroy'
<1>1. AtDestroy /\ TreeOK
  BY DEF HeapInv, DestroySvc, AtStart, AtSvc, AtChr, AtDsc, AtCommit, AtEncode, AtFree, AtDone
<1>2. PICK d \in 1 .. num_svcs + 1 : at = <<d>> /\ live = {<< >>} \union LeftAt(d)
  BY <1>1 DEF AtDestroy
<1>3. /\ d \in 1 .. num_svcs /\ d \in 1 .. Len(tree) /\ d \in Nat /\ num_svcs \in Nat
      /\ Len(tree) \in Nat /\ at[1] = d
  BY <1>1, <1>2, TreeShape DEF AtDestroy, Decoded, DestroySvc
<1>4. /\ Free(Destroyed(d)) /\ at' = <<d + 1>> /\ pc' = "destroy"
      /\ UNCHANGED <<op, tree, num_svcs, ptr, past, filled, read, status>>
  BY <1>1, <1>3 DEF DestroySvc, AtDestroy
<1>5. ASSUME NEW p \in Destroyed(d)
      PROVE  ~IsWild(p)
  <2>1. PICK j \in DOMAIN tree[d].elems : p = <<d, j>>
    BY DEF Destroyed
  <2>2. /\ j \in 1 .. Len(Svc(d).elems) /\ Svc(d).kind = "array" /\ d \in DOMAIN tree
        /\ j \in Nat /\ Len(Svc(d).elems) \in Nat
    BY <1>1, <1>3, <2>1, TreeShape DEF Svc
  <2>3. /\ d \in UpToFirst(BadSvc, tree)
        /\ UpToFirst(BadChr, Svc(d).elems) = 1 .. Len(Svc(d).elems)
    <3>1. GoodSvcs(num_svcs) /\ num_svcs \in 0 .. Len(tree)
      BY <1>1 DEF AtDestroy, Decoded
    <3>2. \A h \in 1 .. d - 1 : ~BadSvc(tree[h])
      BY <1>3, <3>1 DEF GoodSvcs, Svc
    <3> QED
      BY <1>1, <1>3, <2>2, <3>1, <3>2, GoodBelow DEF UpToFirst
  <2>4. p \in Reached /\ <<d>> \in Reached
    BY <2>1, <2>2, <2>3, NamesOfChrs, NamesOfSvcs DEF Reached
  <2>5. p \in DOMAIN ptr /\ ptr = PtrOf(Reached) /\ p # << >>
    BY <1>1, <2>1, <2>4 DEF AtDestroy, Decoded, PtrOf
  <2>6. Front(p) = <<d>>
    BY <1>3, <2>1, <2>2, Places
  <2>7. <<d>> \in live
    <3>1. KindOf(<<d>>) = "array"
      BY <2>2, NamesOfSvcs
    <3>2. <<d>> \notin ChrsTo(d, 0)
      BY NamesOfChrs DEF ChrsTo
    <3> QED
      BY <1>2, <2>4, <3>1, <3>2 DEF LeftAt, Arrays
  <2>8. ptr[p] = "array" => p \in live
    <3>1. p \notin ChrsTo(d, 0)
      BY <1>3, <2>1, <2>2 DEF ChrsTo
    <3> QED
      BY <1>2, <2>4, <2>5, <3>1 DEF LeftAt, Arrays, PtrOf
  <2> QED
    BY <2>5, <2>6, <2>7, <2>8 DEF IsWild
<1>6. wild' = wild
  BY <1>4, <1>5 DEF Free
<1>7. live' = {<< >>} \union LeftAt(d + 1)
  <2>1. ChrsTo(d + 1, 0) = ChrsTo(d, 0) \union Destroyed(d)
    <3>1. ASSUME NEW c \in ChrElems
          PROVE  c[1] < d + 1 \/ (c[1] = d + 1 /\ c[2] <= 0)
                 <=> c[1] < d \/ (c[1] = d /\ c[2] <= 0) \/ c \in Destroyed(d)
      BY <1>1, <1>3, <3>1, NamesOfChrs, TreeShape DEF Destroyed, Svc
    <3>2. Destroyed(d) \subseteq ChrElems
      BY <1>1, <1>3, NamesOfChrs, TreeShape DEF Destroyed
    <3> QED
      BY <3>1, <3>2 DEF ChrsTo
  <2>2. live' = live \ Destroyed(d) /\ << >> \notin Destroyed(d)
    BY <1>4 DEF Free, Destroyed
  <2> QED
    BY <1>2, <2>1, <2>2 DEF LeftAt
<1>8. Decoded' /\ LeftAt(d + 1)' = LeftAt(d + 1)
  BY <1>1, <1>4, <1>6, SameDecoded DEF AtDestroy
<1>9. d + 1 \in 1 .. num_svcs' + 1
  BY <1>3, <1>4
<1> QED
  BY <1>4, <1>7, <1>8, <1>9 DEF AtDestroy

LEMMA EndDestroyStep ==
  ASSUME HeapInv, EndDestroy
  PROVE  AtFree'
<1>1. AtDestroy /\ TreeOK
  BY DEF HeapInv, EndDestroy, AtStart, AtSvc, AtChr, AtDsc, AtCommit, AtEncode, AtFree, AtDone
<1>2. PICK d \in 1 .. num_svcs + 1 : at = <<d>> /\ live = {<< >>} \union LeftAt(d)
  BY <1>1 DEF AtDestroy
<1>3. d = num_svcs + 1
  <2>1. num_svcs \in 0 .. Len(tree) /\ Len(tree) \in Nat
    BY <1>1, TreeShape DEF AtDestroy, Decoded
  <2>2. at[1] = d /\ at[1] > num_svcs
    BY <1>2 DEF EndDestroy
  <2> QED
    BY <2>1, <2>2
<1>4. Decoded' /\ LeftAt(d)' = LeftAt(d)
  BY <1>1, SameDecoded DEF AtDestroy, EndDestroy
<1> QED
  BY <1>2, <1>3, <1>4 DEF AtFree, EndDestroy

-----------------------------------------------------------------------------
(* commit_svcs.                                                            *)

LEMMA CommitNothingStep ==
  ASSUME HeapInv, CommitNothing
  PROVE  AtFree'
<1>1. AtStart
  BY DEF HeapInv, CommitNothing, AtSvc, AtChr, AtDsc, AtDestroy, AtCommit, AtEncode, AtFree, AtDone
<1> QED
  BY <1>1 DEF AtStart, CommitNothing, AtFree, Nothing, Set

\* Where the loop is, as what is written of the next state.
LEMMA ToCommit ==
  ASSUME UNCHANGED <<op, tree>>, op = "commit_svcs",
         NEW i \in 1 .. Len(tree) + 1, pc' = "commit", at' = <<i>>, read' = {},
         ptr' = [p \in {<< >>} \union SvcElems |->
                   IF p = << >> THEN "array" ELSE IF p[1] <= i - 1 THEN "array" ELSE "NULL"],
         filled' = SvcsTo(i - 1), wild' = {}, past' = {},
         live' = {<< >>} \union SvcsTo(i - 1)
  PROVE  AtCommit'
<1>1. Committed(i - 1)'
  BY SameTree DEF Committed
<1> QED
  BY <1>1, SameTree DEF AtCommit

LEMMA CommitAllocStep ==
  ASSUME HeapInv, CommitAlloc
  PROVE  AtCommit'
<1>1. AtStart /\ TreeOK
  BY DEF HeapInv, CommitAlloc, AtSvc, AtChr, AtDsc, AtDestroy, AtCommit, AtEncode, AtFree, AtDone
<1>2. SvcsTo(1 - 1) = {} /\ 1 \in 1 .. Len(tree) + 1
  BY <1>1, AllNames, TreeShape
<1>3. \A p \in SvcElems : p # << >> /\ p[1] \in Nat /\ p[1] >= 1
  BY <1>1, NamesOfSvcs, TreeShape
<1>4. ptr' = [p \in {<< >>} \union SvcElems |->
                IF p = << >> THEN "array" ELSE IF p[1] <= 1 - 1 THEN "array" ELSE "NULL"]
  BY <1>3 DEF CommitAlloc
<1>5. /\ pc' = "commit" /\ at' = <<1>> /\ UNCHANGED <<op, tree>> /\ op = "commit_svcs"
      /\ read' = {} /\ filled' = {} /\ wild' = {} /\ past' = {}
      /\ live' = {<< >>}
  BY <1>1 DEF CommitAlloc, AtStart
<1> QED
  BY <1>2, <1>4, <1>5, ToCommit

LEMMA CommitPlace ==
  ASSUME HeapInv, pc = "commit"
  PROVE  /\ TreeOK /\ Len(tree) \in Nat /\ read = {}
         /\ \E i \in 1 .. Len(tree) + 1 :
              /\ at = <<i>> /\ at[1] = i
              /\ Committed(i - 1)
              /\ live = {<< >>} \union SvcsTo(i - 1)
<1>1. AtCommit /\ TreeOK
  BY DEF HeapInv, AtStart, AtSvc, AtChr, AtDsc, AtDestroy, AtEncode, AtFree, AtDone
<1> QED
  BY <1>1, TreeShape DEF AtCommit

LEMMA CommitSvcStep ==
  ASSUME HeapInv, CommitSvc
  PROVE  AtCommit'
<1>1. TreeOK /\ Len(tree) \in Nat /\ read = {}
  BY CommitPlace DEF CommitSvc
<1>2. PICK i \in 1 .. Len(tree) + 1 :
        /\ at = <<i>> /\ at[1] = i
        /\ Committed(i - 1)
        /\ live = {<< >>} \union SvcsTo(i - 1)
  BY CommitPlace DEF CommitSvc
<1>3. /\ i \in 1 .. Len(tree) /\ i + 1 \in 1 .. Len(tree) + 1 /\ (i + 1) - 1 = i
      /\ i \in DOMAIN tree /\ i \in Nat
  BY <1>1, <1>2, TreeShape DEF CommitSvc
<1>4. /\ live' = live \union {<<i>>} /\ ptr' = Set(<<i>>, "array")
      /\ filled' = filled \union {<<i>>} /\ at' = <<i + 1>> /\ pc' = "commit"
      /\ UNCHANGED <<op, tree, wild, past, read>>
  BY <1>2 DEF CommitSvc
<1>5. SvcsTo(i) = SvcsTo(i - 1) \union {<<i>>}
  BY <1>1, <1>3, SvcsGrow
<1>6. ptr' = [p \in {<< >>} \union SvcElems |->
                IF p = << >> THEN "array" ELSE IF p[1] <= (i + 1) - 1 THEN "array" ELSE "NULL"]
  <2>1. <<i>> \in SvcElems /\ <<i>> # << >>
    BY <1>3, NamesOfSvcs
  <2>2. \A p \in SvcElems : p # << >> /\ p[1] \in Nat /\ p = <<p[1]>>
    BY <1>1, NamesOfSvcs, TreeShape
  <2>3. \A p \in SvcElems : p[1] <= i <=> p[1] <= i - 1 \/ p = <<i>>
    BY <1>3, <2>2
  <2>4. ptr = [p \in {<< >>} \union SvcElems |->
                 IF p = << >> THEN "array" ELSE IF p[1] <= i - 1 THEN "array" ELSE "NULL"]
    BY <1>2 DEF Committed
  <2> QED
    BY <1>3, <1>4, <2>1, <2>2, <2>3, <2>4 DEF Set
<1>7. op = "commit_svcs" /\ filled = SvcsTo(i - 1) /\ wild = {} /\ past = {}
  BY <1>2 DEF Committed
<1>8. filled' = SvcsTo((i + 1) - 1) /\ live' = {<< >>} \union SvcsTo((i + 1) - 1)
  BY <1>2, <1>3, <1>4, <1>5, <1>7
<1> QED
  BY <1>1, <1>3, <1>4, <1>6, <1>7, <1>8, ToCommit

\* The error path frees the services, and one pointer behind them.
LEMMA CommitFailsStep ==
  ASSUME HeapInv, CommitFails
  PROVE  AtFree'
<1> DEFINE all == {<<h>> : h \in 1 .. Len(tree) + 1}
<1>1. TreeOK /\ Len(tree) \in Nat /\ read = {}
  BY CommitPlace DEF CommitFails
<1>2. PICK i \in 1 .. Len(tree) + 1 :
        /\ at = <<i>> /\ at[1] = i
        /\ Committed(i - 1)
        /\ live = {<< >>} \union SvcsTo(i - 1)
  BY CommitPlace DEF CommitFails
<1>3. /\ Free(all) /\ past' = past \union {<< >>} /\ pc' = "free"
      /\ UNCHANGED <<op, tree, at, num_svcs, ptr, filled, read, status>>
  BY DEF CommitFails
<1>4. /\ op = "commit_svcs" /\ wild = {} /\ past = {}
      /\ ptr = [p \in {<< >>} \union SvcElems |->
                  IF p = << >> THEN "array" ELSE IF p[1] <= i - 1 THEN "array" ELSE "NULL"]
  BY <1>2 DEF Committed
<1>5. ASSUME NEW h \in 1 .. Len(tree)
      PROVE  ~IsWild(<<h>>)
  <2>1. <<h>> \in SvcElems /\ Front(<<h>>) = << >> /\ <<h>> # << >> /\ <<h>>[1] = h
    BY <1>1, NamesOfSvcs, FrontOfSvc, TreeShape
  <2>2. ptr[<<h>>] = "array" => <<h>> \in live
    BY <1>2, <1>4, <2>1 DEF SvcsTo
  <2> QED
    BY <1>2, <1>4, <2>1, <2>2 DEF IsWild
<1>6. IsWild(<<Len(tree) + 1>>)
  <2>1. <<Len(tree) + 1>> \notin SvcElems
    BY <1>1, NamesOfSvcs, TreeShape
  <2>2. <<Len(tree) + 1>> # << >>
    OBVIOUS
  <2> QED
    BY <1>4, <2>1, <2>2 DEF IsWild
<1>7. wild' = {<<Len(tree) + 1>>}
  <2>1. \A p \in all : IsWild(p) <=> p = <<Len(tree) + 1>>
    BY <1>1, <1>5, <1>6
  <2>2. <<Len(tree) + 1>> \in all
    BY <1>1
  <2> QED
    BY <1>3, <1>4, <2>1, <2>2 DEF Free
<1>8. live' = {<< >>}
  <2>1. SvcsTo(i - 1) \subseteq all /\ << >> \notin all
    BY <1>1, NamesOfSvcs, TreeShape DEF SvcsTo
  <2> QED
    BY <1>2, <1>3, <2>1 DEF Free
<1>9. << >> \in DOMAIN ptr /\ ptr[<< >>] = "array"
  BY <1>4
<1> QED
  BY <1>1, <1>3, <1>4, <1>7, <1>8, <1>9 DEF AtFree, Botched

LEMMA CommitDoneStep ==
  ASSUME HeapInv, CommitDone
  PROVE  AtEncode'
<1>1. TreeOK /\ Len(tree) \in Nat /\ read = {}
  BY CommitPlace DEF CommitDone
<1>2. PICK i \in 1 .. Len(tree) + 1 :
        /\ at = <<i>> /\ at[1] = i
        /\ Committed(i - 1)
        /\ live = {<< >>} \union SvcsTo(i - 1)
  BY CommitPlace DEF CommitDone
<1>3. i - 1 = Len(tree)
  BY <1>1, <1>2 DEF CommitDone
<1>4. Committed(Len(tree)) /\ live = {<< >>} \union SvcElems
  BY <1>1, <1>2, <1>3, AllNames
<1>5. /\ num_svcs' = Len(tree) /\ pc' = "encode"
      /\ UNCHANGED <<op, tree, live, ptr, wild, past, filled, read>>
  BY DEF CommitDone
<1>6. Committed(Len(tree))'
  BY <1>4, <1>5, SameTree DEF Committed
<1> QED
  BY <1>1, <1>4, <1>5, <1>6, SameTree DEF AtEncode

LEMMA EncodeCommitStep ==
  ASSUME HeapInv, EncodeCommit
  PROVE  AtFree'
<1>1. AtEncode /\ TreeOK
  BY DEF HeapInv, EncodeCommit, AtStart, AtSvc, AtChr, AtDsc, AtDestroy, AtCommit, AtFree, AtDone
<1>2. /\ op = "commit_svcs" /\ wild = {} /\ past = {} /\ num_svcs = Len(tree)
      /\ live = {<< >>} \union SvcElems
      /\ ptr = [p \in {<< >>} \union SvcElems |->
                  IF p = << >> THEN "array" ELSE IF p[1] <= Len(tree) THEN "array" ELSE "NULL"]
  BY <1>1 DEF AtEncode, Committed
<1>3. Encoded = SvcElems
  BY <1>1, <1>2, TreeShape DEF Encoded, SvcElems
<1>4. /\ read' = SvcElems /\ Free(SvcElems) /\ pc' = "free"
      /\ UNCHANGED <<op, tree, at, num_svcs, ptr, past, filled, status>>
  BY <1>3 DEF EncodeCommit, Encoded
<1>5. ASSUME NEW p \in SvcElems
      PROVE  ~IsWild(p) /\ p # << >>
  <2>1. p = <<p[1]>> /\ p[1] \in Nat
    BY <1>1, NamesOfSvcs, TreeShape
  <2>2. Front(p) = << >>
    BY <2>1, FrontOfSvc, Zenon
  <2>3. <<p[1]>> # << >>
    OBVIOUS
  <2>4. p # << >>
    BY <2>1, <2>3, Zenon
  <2> QED
    BY <1>2, <2>2, <2>4 DEF IsWild
<1>6. wild' = {} /\ live' = {<< >>}
  BY <1>2, <1>4, <1>5 DEF Free
<1>7. Committed(Len(tree))'
  BY <1>1, <1>2, <1>4, <1>6, SameTree DEF Committed, AtEncode
<1>8. Listed'
  BY <1>4, <1>7, SameTree DEF Listed
<1> QED
  BY <1>4, <1>6, <1>8 DEF AtFree

-----------------------------------------------------------------------------
(* The array of services.                                                  *)

LEMMA FreeSvcsStep ==
  ASSUME HeapInv, FreeSvcs
  PROVE  AtDone'
<1>1. AtFree /\ TreeOK
  BY DEF HeapInv, FreeSvcs, AtStart, AtSvc, AtChr, AtDsc, AtDestroy, AtCommit, AtEncode, AtDone
<1>2. /\ Free({<< >>}) /\ pc' = "done"
      /\ UNCHANGED <<op, tree, at, num_svcs, ptr, past, filled, read, status>>
  BY DEF FreeSvcs
<1>3. ASSUME << >> \in DOMAIN ptr, ptr[<< >>] = "array" => << >> \in live
      PROVE  wild' = wild /\ live' = live \ {<< >>}
  <2>1. ~IsWild(<< >>)
    BY <1>3 DEF IsWild
  <2> QED
    BY <1>2, <2>1 DEF Free
<1>4. CASE Nothing
  <2>1. wild' = wild /\ live' = live \ {<< >>}
    BY <1>3, <1>4 DEF Nothing
  <2>2. Nothing'
    BY <1>2, <1>4, <2>1 DEF Nothing
  <2> QED
    BY <1>2, <2>2 DEF AtDone
<1>5. CASE Decoded /\ live = {<< >>} \union LeftAt(num_svcs + 1)
  <2>1. << >> \in DOMAIN ptr
    BY <1>5 DEF Decoded, PtrOf
  <2>2. wild' = wild /\ live' = live \ {<< >>}
    BY <1>3, <1>5, <2>1
  <2>3. live' = LeftAt(num_svcs + 1)
    BY <1>1, <1>5, <2>2, LeftAtShape
  <2>4. Decoded' /\ LeftAt(num_svcs + 1)' = LeftAt(num_svcs + 1)
    <3>1. Decoded' /\ \A d : LeftAt(d)' = LeftAt(d)
      BY <1>2, <1>5, <2>2, SameDecoded
    <3> QED
      BY <1>2, <3>1
  <2> QED
    BY <1>2, <2>3, <2>4 DEF AtDone
<1>6. CASE (Botched \/ Listed) /\ live = {<< >>}
  <2>1. << >> \in DOMAIN ptr
    BY <1>6 DEF Botched, Listed, Committed
  <2>2. wild' = wild /\ live' = {}
    BY <1>3, <1>6, <2>1
  <2>3. CASE Botched
    BY <1>2, <2>2, <2>3 DEF AtDone, Botched
  <2>4. CASE Listed
    <3>1. Listed'
      BY <1>2, <2>2, <2>4, SameTree DEF Listed, Committed
    <3> QED
      BY <1>2, <2>2, <3>1 DEF AtDone
  <2> QED
    BY <1>6, <2>3, <2>4
<1> QED
  BY <1>1, <1>4, <1>5, <1>6 DEF AtFree

-----------------------------------------------------------------------------
(* The invariant is inductive.                                             *)

LEMMA HeapInit ==
  Init => HeapInv
<1> SUFFICES ASSUME Init PROVE HeapInv
  OBVIOUS
<1>1. AtStart
  BY DEF Init, AtStart
<1>2. CASE op = "add_svcs" /\ tree \in Trees
  BY <1>1, <1>2, HeapAssumption DEF HeapInv, TreeOK
<1>3. CASE op = "commit_svcs" /\ \E n \in 0 .. MaxCommit : tree = Registered(n)
  <2>1. PICK n \in 0 .. MaxCommit : tree = Registered(n)
    BY <1>3
  <2>2. n \in Nat /\ DOMAIN tree = 1 .. n
    BY <2>1, HeapAssumption DEF Registered
  <2>3. \A i \in 1 .. n : tree[i].elems = << >> /\ tree[i] \in Elems(Elems(BOOLEAN))
    BY <2>1 DEF Registered, Elems, Kinds
  <2>4. tree \in Seq(Elems(Elems(BOOLEAN)))
    BY <2>1, <2>2, <2>3 DEF Registered
  <2>5. \A i \in DOMAIN tree : NoArrayNoElems(tree[i].elems)
    BY <2>2, <2>3 DEF NoArrayNoElems
  <2>6. NoArrayNoElems(tree)
    BY <2>2, <2>3 DEF NoArrayNoElems
  <2> QED
    BY <1>1, <1>3, <2>2, <2>3, <2>4, <2>5, <2>6 DEF HeapInv, TreeOK
<1> QED
  BY <1>2, <1>3 DEF Init

\* Every step goes on to a point of the program that the invariant describes.
LEMMA HeapStep ==
  HeapInv /\ [Next]_vars => HeapInv'
<1> SUFFICES ASSUME HeapInv, [Next]_vars PROVE HeapInv'
  OBVIOUS
<1>1. TreeOK'
  <2>1. TreeOK
    BY DEF HeapInv
  <2>2. UNCHANGED <<op, tree>>
    BY DEF vars, Next, NoServices, AllocSvcs, DecodeSvc, EndChrs, DecodeChr, EndDscs,
           DecodeDsc, UseSvcs, DestroySvc, EndDestroy, CommitNothing, CommitAlloc,
           CommitSvc, CommitFails, CommitDone, EncodeCommit, FreeSvcs
  <2> QED
    BY <2>1, <2>2, SameTreeOK
<1>2. CASE NoServices
  BY <1>1, <1>2, NoServicesStep DEF HeapInv
<1>3. CASE AllocSvcs
  BY <1>1, <1>3, AllocSvcsStep DEF HeapInv
<1>4. CASE DecodeSvc
  BY <1>1, <1>4, DecodeSvcStep DEF HeapInv
<1>5. CASE EndChrs
  BY <1>1, <1>5, EndChrsStep DEF HeapInv
<1>6. CASE DecodeChr
  BY <1>1, <1>6, DecodeChrStep DEF HeapInv
<1>7. CASE EndDscs
  BY <1>1, <1>7, EndDscsStep DEF HeapInv
<1>8. CASE DecodeDsc
  BY <1>1, <1>8, DecodeDscStep DEF HeapInv
<1>9. CASE UseSvcs
  BY <1>1, <1>9, UseSvcsStep DEF HeapInv
<1>10. CASE DestroySvc
  BY <1>1, <1>10, DestroySvcStep DEF HeapInv
<1>11. CASE EndDestroy
  BY <1>1, <1>11, EndDestroyStep DEF HeapInv
<1>12. CASE CommitNothing
  BY <1>1, <1>12, CommitNothingStep DEF HeapInv
<1>13. CASE CommitAlloc
  BY <1>1, <1>13, CommitAllocStep DEF HeapInv
<1>14. CASE CommitSvc
  BY <1>1, <1>14, CommitSvcStep DEF HeapInv
<1>15. CASE CommitFails
  BY <1>1, <1>15, CommitFailsStep DEF HeapInv
<1>16. CASE CommitDone
  BY <1>1, <1>16, CommitDoneStep DEF HeapInv
<1>17. CASE EncodeCommit
  BY <1>1, <1>17, EncodeCommitStep DEF HeapInv
<1>18. CASE FreeSvcs
  BY <1>1, <1>18, FreeSvcsStep DEF HeapInv
<1>19. CASE UNCHANGED vars
  <2>1. UNCHANGED <<op, tree, at, pc, num_svcs, live, ptr, wild, past, filled, read, status>>
    BY <1>19 DEF vars
  <2>2. CASE AtStart \/ AtSvc \/ AtChr \/ AtDsc
    <3>1. \A i, names : Decoding(i, names) => Decoding(i, names)'
      BY <2>1, SameTree DEF Decoding, Sound
    <3>2. AtStart => AtStart'
      BY <2>1 DEF AtStart
    <3>3. AtSvc => AtSvc'
      BY <2>1, <3>1, SameTree DEF AtSvc
    <3>4. AtChr => AtChr'
      BY <2>1, <3>1, SameTree DEF AtChr, Svc
    <3>5. AtDsc => AtDsc'
      <4> SUFFICES ASSUME AtDsc PROVE AtDsc'
        OBVIOUS
      <4>1. PICK i \in 1 .. Len(tree) : \E j \in 1 .. Len(Svc(i).elems) :
            \E k \in 1 .. Len(Chr(i, j).elems) + 1 :
              /\ at = <<i, j, k>>
              /\ Svc(i).kind = "array" /\ Chr(i, j).kind = "array"
              /\ Decoding(i, SvcsTo(i) \union ChrsTo(i, j))
              /\ filled = SvcsTo(i - 1) \union ChrsTo(i, j - 1)
              /\ GoodChrs(i, j - 1)
              /\ \A m \in 1 .. k - 1 : Chr(i, j).elems[m]
        BY DEF AtDsc
      <4>2. PICK j \in 1 .. Len(Svc(i).elems) :
            \E k \in 1 .. Len(Chr(i, j).elems) + 1 :
              /\ at = <<i, j, k>>
              /\ Svc(i).kind = "array" /\ Chr(i, j).kind = "array"
              /\ Decoding(i, SvcsTo(i) \union ChrsTo(i, j))
              /\ filled = SvcsTo(i - 1) \union ChrsTo(i, j - 1)
              /\ GoodChrs(i, j - 1)
              /\ \A m \in 1 .. k - 1 : Chr(i, j).elems[m]
        BY <4>1
      <4>3. PICK k \in 1 .. Len(Chr(i, j).elems) + 1 :
              /\ at = <<i, j, k>>
              /\ Svc(i).kind = "array" /\ Chr(i, j).kind = "array"
              /\ Decoding(i, SvcsTo(i) \union ChrsTo(i, j))
              /\ filled = SvcsTo(i - 1) \union ChrsTo(i, j - 1)
              /\ GoodChrs(i, j - 1)
              /\ \A m \in 1 .. k - 1 : Chr(i, j).elems[m]
        BY <4>2
      <4>4. StillDecoding(i)
        BY <2>1, <4>3 DEF StillDecoding, Decoding, Sound
      <4>5. /\ pc' = "dsc" /\ at' = <<i, j, k>>
            /\ ptr' = PtrOf(SvcsTo(i) \union ChrsTo(i, j))
            /\ live' = {<< >>} \union Arrays(SvcsTo(i) \union ChrsTo(i, j))
            /\ filled' = SvcsTo(i - 1) \union ChrsTo(i, j - 1)
        BY <2>1, <4>3 DEF AtDsc, Decoding
      <4> QED
        BY <4>3, <4>4, <4>5, ToDsc
    <3> QED
      BY <1>1, <2>2, <3>2, <3>3, <3>4, <3>5 DEF HeapInv
  <2>3. CASE AtDestroy
    BY <1>1, <2>1, <2>3, SameTree, SameDecoded DEF HeapInv, AtDestroy
  <2>4. CASE AtCommit \/ AtEncode
    BY <1>1, <2>1, <2>4, SameTree DEF HeapInv, AtCommit, AtEncode, Committed
  <2>5. CASE AtFree \/ AtDone
    <3>1. Decoded => Decoded' /\ LeftAt(num_svcs + 1)' = LeftAt(num_svcs + 1)
      BY <2>1, SameDecoded
    <3>2. (Nothing => Nothing') /\ (Botched => Botched') /\ (Listed => Listed')
      BY <2>1, SameTree DEF Nothing, Botched, Listed, Committed
    <3> QED
      BY <1>1, <2>1, <2>5, <3>1, <3>2 DEF HeapInv, AtFree, AtDone
  <2> QED
    BY <2>2, <2>3, <2>4, <2>5 DEF HeapInv
<1> QED
  BY <1>2, <1>3, <1>4, <1>5, <1>6, <1>7, <1>8, <1>9, <1>10, <1>11, <1>12, <1>13, <1>14,
     <1>15, <1>16, <1>17, <1>18, <1>19 DEF Next

LEMMA HeapAlways ==
  Spec => []HeapInv
<1>1. Init => HeapInv
  BY HeapInit
<1>2. HeapInv /\ [Next]_vars => HeapInv'
  BY HeapStep
<1> QED
  BY <1>1, <1>2, PTL DEF Spec

-----------------------------------------------------------------------------
(* What the invariant says.                                                *)

\* free() gets NULL or an array that is allocated, once, whatever element of the
\* request is invalid: bhd_destroy_svc() and the error paths free no pointer that
\* decoding did not write.  The exception is the error path of commit_svcs.
THEOREM HeapRespected ==
  Spec => []HeapIsRespected
<1>1. HeapInv => HeapIsRespected
  <2> SUFFICES ASSUME HeapInv PROVE HeapIsRespected
    OBVIOUS
  <2>1. CASE wild = {} /\ (past # {} => DscElems # {})
    BY <2>1 DEF HeapIsRespected
  <2>2. CASE Botched
    BY <2>2 DEF HeapIsRespected, Botched, LoopCallocFailed
  <2> QED
    BY <2>1, <2>2 DEF HeapInv, AtStart, AtSvc, AtChr, AtDsc, AtDestroy, AtCommit, AtEncode,
       AtFree, AtDone, Decoding, Decoded, Sound, Nothing, Committed, Listed
<1> QED
  BY <1>1, HeapAlways, PTL

\* What is allocated when everything was destroyed is what bhd_destroy_svc()
\* forgets.
LEMMA LeakIsLeft ==
  ASSUME TreeOK, Decoded
  PROVE  LeftAt(num_svcs + 1) = Leak
<1> DEFINE n == num_svcs
           reached == {i \in UpToFirst(BadSvc, tree) : Svc(i).kind = "array"}
           failed == {i \in reached : BadSvc(Svc(i))}
           dscs(i) == {<<i, j>> : j \in {g \in UpToFirst(BadChr, Svc(i).elems) :
                                          Chr(i, g).kind = "array"}}
<1> HIDE DEF n, reached, failed, dscs
<1>1. /\ n \in 0 .. Len(tree) /\ GoodSvcs(n)
      /\ n # Len(tree) => BadSvc(Svc(n + 1))
  BY DEF Decoded, n
<1>2. DOMAIN tree = 1 .. Len(tree)
  BY TreeShape
<1>3. n \in Nat /\ Len(tree) \in Nat /\ n <= Len(tree)
  <2>1. n \in 0 .. Len(tree)
    BY <1>1
  <2>2. Len(tree) \in Nat
    BY TreeShape
  <2> QED
    BY <2>1, <2>2
<1>4. UpToFirst(BadSvc, tree) = {i \in 1 .. Len(tree) : i <= n + 1}
  <2>1. \A h \in 1 .. n : ~BadSvc(tree[h])
    BY <1>1 DEF GoodSvcs, Svc
  <2>2. n # Len(tree) => BadSvc(tree[n + 1])
    BY <1>1 DEF Svc
  <2>3. ASSUME NEW i \in 1 .. Len(tree)
        PROVE  (\A h \in 1 .. i - 1 : ~BadSvc(tree[h])) <=> i <= n + 1
    <3>1. CASE i <= n + 1
      BY <2>1, <1>3, <3>1
    <3>2. CASE i > n + 1
      <4>1. n + 1 \in 1 .. i - 1 /\ n # Len(tree)
        BY <1>3, <3>2
      <4> QED
        BY <1>3, <2>2, <3>2, <4>1
    <3> QED
      BY <1>3, <3>1, <3>2
  <2> QED
    BY <1>2, <2>3 DEF UpToFirst
<1>5. \A i \in UpToFirst(BadSvc, tree) : BadSvc(Svc(i)) <=> i = n + 1
  <2>1. ASSUME NEW i \in 1 .. Len(tree), i <= n + 1
        PROVE  BadSvc(Svc(i)) <=> i = n + 1
    <3>1. CASE i = n + 1
      BY <1>1, <1>3, <2>1, <3>1
    <3>2. CASE i # n + 1
      <4>1. i \in 1 .. n
        BY <1>1, <1>3, <2>1, <3>2
      <4> QED
        BY <1>1, <3>2, <4>1 DEF GoodSvcs
    <3> QED
      BY <3>1, <3>2
  <2> QED
    BY <1>4, <2>1
<1>6. ASSUME NEW p \in SvcElems
      PROVE  p \in LeftAt(n + 1) <=> p \in {<<i>> : i \in reached}
  <2>1. p[1] \in DOMAIN tree /\ p = <<p[1]>> /\ KindOf(p) = Svc(p[1]).kind
    BY NamesOfSvcs
  <2>2. p \notin ChrElems
    BY <2>1, NamesOfChrs
  <2> QED
    BY <2>1, <2>2 DEF LeftAt, Arrays, Reached, ChrsTo, reached
<1>7. ASSUME NEW p \in ChrElems
      PROVE  p \in LeftAt(n + 1) <=> p \in UNION {dscs(i) : i \in failed}
  <2>1. /\ p[1] \in 1 .. Len(tree) /\ p[2] \in DOMAIN Svc(p[1]).elems /\ p = <<p[1], p[2]>>
        /\ KindOf(p) = Chr(p[1], p[2]).kind
    BY NamesOfChrs, TreeShape DEF Svc
  <2>2. p \notin SvcElems /\ p[2] \in Nat \ {0} /\ Svc(p[1]).kind = "array"
    BY <2>1, NamesOfSvcs, TreeShape
  <2>3. p \in LeftAt(n + 1) <=>
          /\ KindOf(p) = "array"
          /\ p[1] \in UpToFirst(BadSvc, tree) /\ p[2] \in UpToFirst(BadChr, Svc(p[1]).elems)
          /\ p[1] = n + 1
    BY <1>1, <1>4, <2>1, <2>2 DEF LeftAt, Arrays, Reached, ChrsTo
  <2>4. p \in UNION {dscs(i) : i \in failed} <=> p[1] \in failed /\ p \in dscs(p[1])
    BY <2>1 DEF dscs
  <2>5. p \in dscs(p[1]) <=> /\ KindOf(p) = "array"
                              /\ p[2] \in UpToFirst(BadChr, Svc(p[1]).elems)
    BY <2>1 DEF dscs
  <2> QED
    BY <1>5, <2>2, <2>3, <2>4, <2>5 DEF reached, failed
<1>8. LeftAt(n + 1) \subseteq SvcElems \union ChrElems
  BY DEF LeftAt, Arrays, Reached
<1>9. Leak \subseteq SvcElems \union ChrElems
  <2>1. {<<i>> : i \in reached} \subseteq SvcElems
    BY <1>4, <1>2, NamesOfSvcs DEF reached
  <2>2. ASSUME NEW i \in failed, NEW p \in dscs(i)
        PROVE  p \in ChrElems
    <3>1. PICK g \in UpToFirst(BadChr, Svc(i).elems) : p = <<i, g>>
      BY <2>2 DEF dscs
    <3>2. i \in DOMAIN tree /\ g \in DOMAIN tree[i].elems
      BY <1>4, <1>2, <2>2, <3>1 DEF UpToFirst, Svc, reached, failed
    <3> QED
      BY <3>1, <3>2, NamesOfChrs
  <2> QED
    BY <2>1, <2>2 DEF Leak, reached, failed, dscs
<1>10. ASSUME NEW p \in SvcElems
      PROVE  p \in Leak <=> p \in {<<i>> : i \in reached}
  <2>1. p \notin ChrElems
    BY NamesOfSvcs, NamesOfChrs
  <2>2. \A i : p \notin dscs(i)
    BY NamesOfSvcs DEF dscs
  <2> QED
    BY <2>2 DEF Leak, reached, failed, dscs
<1>11. ASSUME NEW p \in ChrElems
      PROVE  p \in Leak <=> p \in UNION {dscs(i) : i \in failed}
  <2>1. p \notin {<<i>> : i \in reached}
    BY NamesOfChrs
  <2> QED
    BY <2>1 DEF Leak, reached, failed, dscs
<1> QED
  BY <1>6, <1>7, <1>8, <1>9, <1>10, <1>11 DEF n

\* When a request is over, everything is freed but what is in Leak.
THEOREM LeaksKnown ==
  Spec => []OnlyKnownLeaks
<1>1. HeapInv => OnlyKnownLeaks
  <2> SUFFICES ASSUME HeapInv, pc = "done"
               PROVE  live = IF op = "add_svcs" /\ ptr[<< >>] = "array" THEN Leak ELSE {}
    BY DEF OnlyKnownLeaks
  <2>1. AtDone /\ TreeOK
    BY DEF HeapInv, AtStart, AtSvc, AtChr, AtDsc, AtDestroy, AtCommit, AtEncode, AtFree
  <2>2. CASE Nothing
    BY <2>2 DEF Nothing
  <2>3. CASE Decoded /\ live = LeftAt(num_svcs + 1)
    <3>1. op = "add_svcs" /\ ptr[<< >>] = "array"
      BY <2>3 DEF Decoded, PtrOf
    <3> QED
      BY <2>1, <2>3, <3>1, LeakIsLeft
  <2>4. CASE (Botched \/ Listed) /\ live = {}
    BY <2>4 DEF Botched, Listed, Committed
  <2> QED
    BY <2>1, <2>2, <2>3, <2>4 DEF AtDone
<1> QED
  BY <1>1, HeapAlways, PTL

\* bhd_gatts_add_svcs() and the encoder of the response read elements that were
\* filled, except for descriptors; and "ok" means that the whole tree was read.
THEOREM ReadsDecoded ==
  Spec => []ReadsWhatWasDecoded
<1>1. HeapInv => ReadsWhatWasDecoded
  <2> SUFFICES ASSUME HeapInv PROVE ReadsWhatWasDecoded
    OBVIOUS
  <2>1. TreeOK
    BY DEF HeapInv
  <2>2. CASE read = {} /\ ~(pc = "done" /\ op = "add_svcs" /\ status = "ok")
    BY <2>2 DEF ReadsWhatWasDecoded
  <2>3. CASE Decoded
    <3>1. /\ op = "add_svcs"
          /\ read = {} \/ (/\ read = SvcElems \union ChrElems \union DscElems
                            /\ filled = SvcElems \union ChrElems)
          /\ status = "ok" => read = SvcElems \union ChrElems \union DscElems
      BY <2>3 DEF Decoded
    <3>2. DscElems \cap (SvcElems \union ChrElems) = {}
      <4>1. \A s \in DscElems : \E c \in ChrElems : \E k : s = <<c[1], c[2], k>>
        BY DEF DscElems
      <4> QED
        BY <4>1, NamesOfSvcs, NamesOfChrs
    <3> QED
      BY <3>1, <3>2 DEF ReadsWhatWasDecoded
  <2>4. CASE Listed
    <3>1. op = "commit_svcs" /\ read = SvcElems /\ filled = SvcElems
      BY <2>1, <2>4, AllNames DEF Listed, Committed
    <3>2. DscElems = {}
      BY <2>1, <3>1, NamesOfChrs DEF TreeOK, DscElems
    <3> QED
      BY <3>1, <3>2 DEF ReadsWhatWasDecoded
  <2> QED
    BY <2>2, <2>3, <2>4 DEF HeapInv, AtStart, AtSvc, AtChr, AtDsc, AtDestroy, AtCommit,
       AtEncode, AtFree, AtDone, Decoding, Nothing, Botched
<1> QED
  BY <1>1, HeapAlways, PTL
=============================================================================
