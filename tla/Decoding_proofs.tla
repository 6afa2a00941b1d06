--------------------------- MODULE Decoding_proofs ---------------------------
(***************************************************************************)
(* Proofs about the decoding of requests.                                  *)
(*                                                                         *)
(* ReqParams, for every object a client can send: any combination of       *)
(* missing, invalid and valid parameters of each of the 32 types, however  *)
(* many of them are out of the ordinary.  First the tables of parameters:  *)
(* names differ, and a parameter that depends on another comes after it.   *)
(* The invariant then says what was stored of the parameters that were     *)
(* read so far.                                                            *)
(*                                                                         *)
(* AdvData, for texts, lists and data of any length: what the program      *)
(* writes it reads as it was, from bytes over addresses and UUIDs to all   *)
(* the elements of advertising data, and nothing it reads is longer than   *)
(* the buffer it is put into.                                              *)
(***************************************************************************)
EXTENDS ReqParams, AdvData, SequenceTheorems, WellFoundedInduction, TLAPS

-----------------------------------------------------------------------------
(* Least elements, and induction up to a number.                            *)

\* A set of naturals that is not empty has a least element, and Min is it.
LEMMA LeastOf ==
  ASSUME NEW S \in SUBSET Nat, S # {}
  PROVE  Min(S) \in S /\ \A y \in S : Min(S) <= y
<1> DEFINE Less == OpToRel(<, Nat)
<1>1. PICK x \in S : \A y \in S : <<y, x>> \notin Less
  <2>1. IsWellFoundedOn(Less, Nat)
    BY NatLessThanWellFounded
  <2> HIDE DEF Less
  <2> QED
    BY <2>1, WFMin
<1>2. ASSUME NEW y \in S PROVE x <= y
  <2>1. y \in Nat /\ x \in Nat
    OBVIOUS
  <2>2. y < x => <<y, x>> \in Less
    BY <2>1 DEF OpToRel
  <2> HIDE DEF Less
  <2>3. ~(y < x)
    BY <1>1, <2>2
  <2> QED
    BY <2>1, <2>3
<1> QED
  BY <1>2, Zenon DEF Min

\* What is in the set and above nothing in it is its Min.
LEMMA LeastIs ==
  ASSUME NEW S \in SUBSET Nat, NEW x \in S, \A y \in S : x <= y
  PROVE  Min(S) = x
<1>1. Min(S) \in S /\ \A y \in S : Min(S) <= y
  BY LeastOf
<1>2. Min(S) <= x /\ x <= Min(S) /\ Min(S) \in Nat /\ x \in Nat
  BY <1>1
<1> QED
  BY <1>2

\* What holds of 0, and of n + 1 whenever it holds of n, holds up to N.
LEMMA UpTo ==
  ASSUME NEW N \in Nat, NEW S, 0 \in S, \A n \in 0 .. N - 1 : n \in S => n + 1 \in S
  PROVE  \A n \in 0 .. N : n \in S
<1> SUFFICES ASSUME NEW k \in 0 .. N, k \notin S PROVE FALSE
  OBVIOUS
<1> DEFINE T == {n \in 0 .. N : n \notin S}
           x == Min(T)
<1>1. x \in T /\ \A y \in T : x <= y
  <2>1. T \in SUBSET Nat /\ T # {}
    OBVIOUS
  <2> HIDE DEF T
  <2> QED
    BY <2>1, LeastOf
<1> HIDE DEF x
<1>2. x \in 0 .. N /\ x \notin S /\ x # 0
  BY <1>1
<1>3. x - 1 \in 0 .. N - 1 /\ (x - 1) + 1 = x /\ ~(x <= x - 1)
  BY <1>2
<1>4. x - 1 \in S
  BY <1>1, <1>3
<1> QED
  BY <1>2, <1>3, <1>4

-----------------------------------------------------------------------------
(* The tables of parameters.                                               *)

Rules == {"must", "may", "flag", "list", "any", "stack"}
Words == {"v", "oob", "input", "disp", "numcmp"}

Names(ps) == {ps[n].name : n \in DOMAIN ps}

\* The parameters that are always read.
Always(ps) ==
  {ps[n].name : n \in {m \in DOMAIN ps : ps[m].on = "nothing" /\ ps[m].rule \in {"must", "may"}}}

\* The parameter r depends on, if any, is one of them.
Settled(ps, r) == r.on # "nothing" => r.on \in Always(ps)

IsSeq(ps) == \E S : ps \in Seq(S)

WellMade(ps) ==
  /\ IsSeq(ps)
  /\ \A n \in DOMAIN ps : ps[n].rule \in Rules /\ ps[n].is \subseteq Words
  /\ \A m, n \in DOMAIN ps : ps[m].name = ps[n].name => m = n
  /\ \A n \in DOMAIN ps :
       ps[n].on # "nothing" => \E m \in 1 .. n - 1 : /\ ps[m].name = ps[n].on /\ ps[m].on = "nothing"
                                              /\ ps[m].rule \in {"must", "may"}

\* A table of the parameters in S, of which those in A are always read.
Made(ps, S, A) == WellMade(ps) /\ Names(ps) = S /\ A \subseteq Always(ps)

\* Concatenation, entry by entry.
LEMMA Concatenated ==
  ASSUME NEW S, NEW ps \in Seq(S), NEW qs \in Seq(S)
  PROVE  /\ ps \o qs \in Seq(S)
         /\ Len(ps) \in Nat /\ DOMAIN ps = 1 .. Len(ps)
         /\ Len(qs) \in Nat /\ DOMAIN qs = 1 .. Len(qs)
         /\ DOMAIN (ps \o qs) = 1 .. Len(ps) + Len(qs)
         /\ \A n \in 1 .. Len(ps) : (ps \o qs)[n] = ps[n]
         /\ \A n \in 1 .. Len(qs) : (ps \o qs)[Len(ps) + n] = qs[n]
<1>1. ps \o qs \in Seq(S) /\ Len(ps \o qs) = Len(ps) + Len(qs)
  BY ConcatProperties
<1>2. /\ Len(ps) \in Nat /\ DOMAIN ps = 1 .. Len(ps)
      /\ Len(qs) \in Nat /\ DOMAIN qs = 1 .. Len(qs)
      /\ DOMAIN (ps \o qs) = 1 .. Len(ps \o qs)
  BY <1>1, LenProperties
<1>3. /\ \A n \in 1 .. Len(ps) : (ps \o qs)[n] = ps[n]
      /\ \A n \in 1 .. Len(qs) : (ps \o qs)[Len(ps) + n] = qs[n]
  BY <1>2, ConcatProperties
<1> QED
  BY <1>1, <1>2, <1>3

\* One table behind another.
LEMMA Joined ==
  ASSUME NEW ps, NEW qs, NEW S, NEW A, NEW T, NEW B, Made(ps, S, A), Made(qs, T, B), S \intersect T = {}
  PROVE  Made(ps \o qs, S \union T, A \union B)
<1> USE DEF Made
<1> DEFINE M == Len(ps)
           N == Len(qs)
           rs == ps \o qs
<1>0. PICK E : ps \in Seq(E) /\ qs \in Seq(E)
  <2>1. PICK C : ps \in Seq(C)
    BY DEF WellMade, IsSeq
  <2>2. PICK D : qs \in Seq(D)
    BY DEF WellMade, IsSeq
  <2>3. ps \in Seq(C \union D) /\ qs \in Seq(C \union D)
    BY <2>1, <2>2
  <2> QED
    BY <2>3
<1>1. /\ IsSeq(rs)
      /\ M \in Nat /\ N \in Nat /\ DOMAIN ps = 1 .. M /\ DOMAIN qs = 1 .. N /\ DOMAIN rs = 1 .. M + N
      /\ \A n \in 1 .. M : rs[n] = ps[n]
      /\ \A n \in 1 .. N : rs[M + n] = qs[n]
  <2> HIDE DEF rs, M, N
  <2>1. /\ rs \in Seq(E)
        /\ M \in Nat /\ N \in Nat /\ DOMAIN ps = 1 .. M /\ DOMAIN qs = 1 .. N /\ DOMAIN rs = 1 .. M + N
        /\ \A n \in 1 .. M : rs[n] = ps[n]
        /\ \A n \in 1 .. N : rs[M + n] = qs[n]
    BY <1>0, Concatenated DEF rs, M, N
  <2> QED
    BY <2>1 DEF IsSeq
<1> HIDE DEF M, N, rs
<1>2. /\ \A n \in 1 .. M : rs[n] = ps[n] /\ n \in DOMAIN rs
      /\ \A n \in 1 .. N : rs[M + n] = qs[n] /\ M + n \in DOMAIN rs
      /\ \A n \in DOMAIN rs : n \in 1 .. M \/ (n - M \in 1 .. N /\ rs[n] = qs[n - M])
  BY <1>1
<1>2a. \A m \in DOMAIN ps, n \in DOMAIN qs : ps[m].name # qs[n].name
  BY DEF Names
<1>2b. \A n \in DOMAIN rs : rs[n].rule \in Rules /\ rs[n].is \subseteq Words
  BY <1>1, <1>2 DEF WellMade
<1>3. ASSUME NEW m \in DOMAIN rs, NEW n \in DOMAIN rs, rs[m].name = rs[n].name
      PROVE  m = n
  <2>1. CASE m \in 1 .. M /\ n \in 1 .. M
    BY <1>1, <1>2, <1>3, <2>1 DEF WellMade
  <2>2. CASE m \in 1 .. M /\ n \notin 1 .. M
    BY <1>1, <1>2, <1>3, <1>2a, <2>2
  <2>3. CASE m \notin 1 .. M /\ n \in 1 .. M
    BY <1>1, <1>2, <1>3, <1>2a, <2>3
  <2>4. CASE m \notin 1 .. M /\ n \notin 1 .. M
    <3>1. m - M = n - M
      BY <1>1, <1>2, <1>3, <2>4 DEF WellMade
    <3> QED
      BY <1>1, <3>1
  <2> QED
    BY <2>1, <2>2, <2>3, <2>4
<1>4. ASSUME NEW n \in DOMAIN rs, rs[n].on # "nothing"
      PROVE  \E m \in 1 .. n - 1 : /\ rs[m].name = rs[n].on /\ rs[m].on = "nothing"
                                   /\ rs[m].rule \in {"must", "may"}
  <2>1. CASE n \in 1 .. M
    <3>1. PICK m \in 1 .. n - 1 : /\ ps[m].name = ps[n].on /\ ps[m].on = "nothing"
                                  /\ ps[m].rule \in {"must", "may"}
      BY <1>1, <1>2, <1>4, <2>1 DEF WellMade
    <3>2. m \in 1 .. M
      BY <1>1, <2>1
    <3> QED
      BY <1>2, <2>1, <3>1, <3>2
  <2>2. CASE n \notin 1 .. M
    <3>1. PICK m \in 1 .. (n - M) - 1 : /\ qs[m].name = qs[n - M].on /\ qs[m].on = "nothing"
                                        /\ qs[m].rule \in {"must", "may"}
      BY <1>1, <1>2, <1>4, <2>2 DEF WellMade
    <3>2. m \in 1 .. N /\ M + m \in 1 .. n - 1
      BY <1>1, <1>2, <2>2
    <3>3. rs[M + m] = qs[m] /\ rs[n] = qs[n - M]
      BY <1>2, <2>2, <3>2
    <3> QED
      BY <3>1, <3>2, <3>3
  <2> QED
    BY <2>1, <2>2
<1>5. Names(rs) = Names(ps) \union Names(qs)
  <2>1. \A n \in DOMAIN rs : rs[n].name \in Names(ps) \union Names(qs)
    BY <1>1, <1>2 DEF Names
  <2>2. \A n \in DOMAIN ps : ps[n].name \in Names(rs)
    BY <1>1, <1>2 DEF Names
  <2>3. \A n \in DOMAIN qs : qs[n].name \in Names(rs)
    <3> SUFFICES ASSUME NEW n \in 1 .. N PROVE rs[M + n].name \in Names(rs)
      BY <1>1
    <3>1. M + n \in DOMAIN rs
      BY <1>2
    <3> QED
      BY <3>1 DEF Names
  <2> QED
    BY <2>1, <2>2, <2>3 DEF Names
<1> HIDE DEF rs
<1>6. WellMade(rs)
  BY <1>1, <1>2b, <1>3, <1>4 DEF WellMade
<1>7. A \union B \subseteq Always(rs)
  <2>1. \A n \in DOMAIN ps : n \in DOMAIN rs /\ rs[n] = ps[n]
    BY <1>1, <1>2
  <2>2. \A n \in DOMAIN qs : M + n \in DOMAIN rs /\ rs[M + n] = qs[n]
    BY <1>1, <1>2
  <2>3. Always(ps) \subseteq Always(rs)
    BY <2>1 DEF Always
  <2>4. Always(qs) \subseteq Always(rs)
    BY <2>2 DEF Always
  <2> QED
    BY <2>3, <2>4
<1> QED
  BY <1>5, <1>6, <1>7 DEF rs

\* One more parameter, which may depend on one of the table.
LEMMA OneMoreRow ==
  ASSUME NEW ps, NEW S, NEW A, Made(ps, S, A), NEW r, r.rule \in Rules, r.is \subseteq Words,
         r.name \notin S, Settled(ps, r)
  PROVE  Made(ps \o << r >>, S \union {r.name}, A)
<1> USE DEF Made
<1> DEFINE M == Len(ps)
           rs == ps \o << r >>
<1>1. /\ IsSeq(rs)
      /\ M \in Nat /\ DOMAIN ps = 1 .. M /\ DOMAIN rs = 1 .. M + 1
      /\ \A n \in 1 .. M : rs[n] = ps[n]
      /\ rs[M + 1] = r
  <2>1. PICK C : ps \in Seq(C)
    BY DEF WellMade, IsSeq
  <2>2. ps \in Seq(C \union {r}) /\ << r >> \in Seq(C \union {r}) /\ Len(<< r >>) = 1 /\ << r >>[1] = r
    BY <2>1
  <2> HIDE DEF rs, M
  <2>3. /\ rs \in Seq(C \union {r})
        /\ M \in Nat /\ DOMAIN ps = 1 .. M /\ DOMAIN rs = 1 .. M + 1
        /\ \A n \in 1 .. M : rs[n] = ps[n]
        /\ rs[M + 1] = r
    BY <2>2, Concatenated DEF rs, M
  <2> QED
    BY <2>3 DEF IsSeq
<1> HIDE DEF M, rs
<1>2. /\ \A n \in 1 .. M : rs[n] = ps[n] /\ n \in DOMAIN rs
      /\ rs[M + 1] = r
      /\ \A n \in DOMAIN rs : n \in 1 .. M \/ n = M + 1
  BY <1>1
<1>3. ASSUME NEW m \in DOMAIN rs, NEW n \in DOMAIN rs, rs[m].name = rs[n].name
      PROVE  m = n
  BY <1>1, <1>2, <1>3 DEF WellMade, Names
<1>4. ASSUME NEW n \in DOMAIN rs, rs[n].on # "nothing"
      PROVE  \E m \in 1 .. n - 1 : /\ rs[m].name = rs[n].on /\ rs[m].on = "nothing"
                                   /\ rs[m].rule \in {"must", "may"}
  <2>1. CASE n \in 1 .. M
    <3>1. PICK m \in 1 .. n - 1 : /\ ps[m].name = ps[n].on /\ ps[m].on = "nothing"
                                  /\ ps[m].rule \in {"must", "may"}
      BY <1>1, <1>2, <1>4, <2>1 DEF WellMade
    <3>2. m \in 1 .. M
      BY <1>1, <2>1
    <3> QED
      BY <1>2, <2>1, <3>1, <3>2
  <2>2. CASE n = M + 1
    <3>1. PICK m \in 1 .. M : /\ ps[m].name = r.on /\ ps[m].on = "nothing"
                              /\ ps[m].rule \in {"must", "may"}
      BY <1>1, <1>2, <1>4, <2>2 DEF Settled, Always
    <3> QED
      BY <1>1, <1>2, <2>2, <3>1
  <2> QED
    BY <1>2, <2>1, <2>2
<1>5. Names(rs) = Names(ps) \union {r.name}
  BY <1>1, <1>2 DEF Names
<1> HIDE DEF rs
<1>6. WellMade(rs)
  BY <1>1, <1>3, <1>4 DEF WellMade
<1>7. A \subseteq Always(rs)
  <2>1. \A n \in DOMAIN ps : n \in DOMAIN rs /\ rs[n] = ps[n]
    BY <1>1, <1>2
  <2> QED
    BY <2>1 DEF Always
<1> QED
  BY <1>5, <1>6, <1>7 DEF rs

\* A table without parameters.
LEMMA EmptyTable == Made(<< >>, {}, {})
<1>1. << >> \in Seq({}) /\ DOMAIN << >> = {}
  OBVIOUS
<1> QED
  BY <1>1 DEF WellMade, Names, IsSeq, Made

\* A table of one parameter.
LEMMA OneRow ==
  ASSUME NEW r, r.on = "nothing", r.rule \in Rules, r.is \subseteq Words
  PROVE  Made(<< r >>, {r.name}, {})
<1> DEFINE rs == << r >>
<1>1. rs \in Seq({r}) /\ DOMAIN rs = {1} /\ rs[1] = r
  OBVIOUS
<1> HIDE DEF rs
<1>2. Made(rs, {r.name}, {})
  BY <1>1 DEF WellMade, Names, IsSeq, Made
<1> QED
  BY <1>2 DEF rs

\* Names that differ, all of them those of S.
Listed(names, S) ==
  /\ names \in Seq(S)
  /\ \A m, n \in DOMAIN names : names[m] = names[n] => m = n
  /\ \A s \in S : \E n \in DOMAIN names : names[n] = s

\* They make a table of parameters that depend on nothing.
LEMMA Lone ==
  ASSUME NEW names, NEW S, Listed(names, S)
  PROVE  Made(Musts(names), S, S) /\ Made(Mays(names), S, S)
<1> DEFINE R(rule) == {Param(name, rule) : name \in S}
           musts == Musts(names)
           mays == Mays(names)
<1>1. /\ Len(names) \in Nat /\ DOMAIN names = 1 .. Len(names)
      /\ \A n \in DOMAIN names : names[n] \in S
  BY DEF Listed
<1>2. musts \in Seq(R("must")) /\ mays \in Seq(R("may"))
  BY <1>1 DEF Musts, Mays
<1>3. /\ DOMAIN musts = 1 .. Len(names)
      /\ \A n \in 1 .. Len(names) : musts[n] = Param(names[n], "must")
      /\ DOMAIN mays = 1 .. Len(names)
      /\ \A n \in 1 .. Len(names) : mays[n] = Param(names[n], "may")
  BY DEF Musts, Mays
<1> HIDE DEF musts, mays
<1>4. /\ \A n \in 1 .. Len(names) : musts[n].name = names[n] /\ musts[n].on = "nothing"
                                   /\ musts[n].rule \in Rules \intersect {"must", "may"} /\ musts[n].is = {}
      /\ \A n \in 1 .. Len(names) : mays[n].name = names[n] /\ mays[n].on = "nothing"
                                   /\ mays[n].rule \in Rules \intersect {"must", "may"} /\ mays[n].is = {}
  BY <1>3 DEF Param, Rules
<1>5. WellMade(musts) /\ WellMade(mays)
  <2> HIDE DEF R
  <2> QED
    BY <1>1, <1>2, <1>3, <1>4 DEF WellMade, IsSeq, Listed
<1>6. \A n \in 1 .. Len(names) : musts[n].name \in S /\ mays[n].name \in S
  BY <1>1, <1>4
<1>7. \A s \in S : \E n \in 1 .. Len(names) : musts[n].name = s /\ mays[n].name = s
  BY <1>1, <1>4 DEF Listed
<1>8. Names(musts) = S /\ Names(mays) = S
  <2>1. Names(musts) \subseteq S /\ Names(mays) \subseteq S
    BY <1>3, <1>6 DEF Names
  <2>2. S \subseteq Names(musts) /\ S \subseteq Names(mays)
    BY <1>3, <1>7 DEF Names
  <2> QED
    BY <2>1, <2>2
<1>9. S \subseteq Always(musts) /\ S \subseteq Always(mays)
  BY <1>3, <1>4, <1>7 DEF Always
<1> QED
  BY <1>5, <1>8, <1>9 DEF musts, mays, Made

-----------------------------------------------------------------------------
(* Each handler's table.                                                   *)

\* Lists of different names, one for each handler that reads a list of parameters.
LEMMA OneName == \A name : Listed(<< name >>, {name})
BY DEF Listed

\* bhd_connect_req_run().
LEMMA ConnectNames ==
  Listed(<<"own_addr_type", "peer_addr_type", "peer_addr", "duration_ms", "scan_itvl",
         "scan_window", "itvl_min", "itvl_max", "latency", "supervision_timeout",
         "min_ce_len", "max_ce_len">>,
         {"own_addr_type", "peer_addr_type", "peer_addr", "duration_ms", "scan_itvl",
         "scan_window", "itvl_min", "itvl_max", "latency", "supervision_timeout",
         "min_ce_len", "max_ce_len"})
BY DEF Listed

\* bhd_scan_req_run().
LEMMA ScanNames ==
  Listed(<<"own_addr_type", "duration_ms", "itvl", "window", "filter_policy",
         "limited", "passive", "filter_duplicates">>,
         {"own_addr_type", "duration_ms", "itvl", "window", "filter_policy",
         "limited", "passive", "filter_duplicates"})
BY DEF Listed

\* The writing requests.
LEMMA WriteNames ==
  Listed(<<"conn_handle", "attr_handle", "data">>,
         {"conn_handle", "attr_handle", "data"})
BY DEF Listed

\* The requests with a range of handles.
LEMMA RangeNames ==
  Listed(<<"conn_handle", "start_handle", "end_handle">>,
         {"conn_handle", "start_handle", "end_handle"})
BY DEF Listed

\* bhd_adv_start_req_run().
LEMMA AdvStartNames ==
  Listed(<<"duration_ms", "conn_mode", "disc_mode", "itvl_min", "itvl_max",
         "channel_map", "filter_policy", "high_duty_cycle">>,
         {"duration_ms", "conn_mode", "disc_mode", "itvl_min", "itvl_max",
         "channel_map", "filter_policy", "high_duty_cycle"})
BY DEF Listed

\* The last ones of bhd_adv_fields_req_run().
LEMMA LastFieldNames ==
  Listed(<<"appearance", "adv_itvl", "svc_data_uuid32", "svc_data_uuid128", "uri",
         "mfg_data">>,
         {"appearance", "adv_itvl", "svc_data_uuid32", "svc_data_uuid128", "uri",
         "mfg_data"})
BY DEF Listed

\* Two names.
LEMMA TwoNames == \A a, b : a # b => Listed(<<a, b>>, {a, b})
BY DEF Listed

\* A list, with the boolean that says whether it is complete.
LEMMA ListMade ==
  ASSUME NEW name, NEW complete, name # complete
  PROVE  Made(List(name, complete), {name, complete}, {})
<1> DEFINE r == Param(name, "list")
           q == Param(complete, "flag")
<1>1. /\ r.on = "nothing" /\ r.rule \in Rules /\ r.is \subseteq Words /\ r.name = name
      /\ q.on = "nothing" /\ q.rule \in Rules /\ q.is \subseteq Words /\ q.name = complete
  BY DEF Param, Rules
<1> HIDE DEF r, q
<1>2. Made(<< r >>, {r.name}, {})
  BY <1>1, OneRow
<1>3. Made(<< r >> \o << q >>, {r.name} \union {q.name}, {})
  <2>1. q.name \notin {r.name} /\ Settled(<< r >>, q)
    BY <1>1 DEF Settled
  <2> QED
    BY <1>1, <1>2, <2>1, OneMoreRow
<1>4. List(name, complete) = << r >> \o << q >>
  BY DEF List, r, q
<1>5. {r.name} \union {q.name} = {name, complete}
  BY <1>1
<1> QED
  BY <1>3, <1>4, <1>5

\* A parameter that depends on another.
LEMMA IfMade ==
  ASSUME NEW ps, NEW S, NEW A, Made(ps, S, A), NEW name, name \notin S, NEW on \in A,
         NEW is \in SUBSET Words
  PROVE  Made(ps \o MustIf(name, on, is), S \union {name}, A)
<1> DEFINE r == [Param(name, "must") EXCEPT !.on = on, !.is = is]
<1>1. r.on = on /\ r.rule \in Rules /\ r.is \subseteq Words /\ r.name = name
  BY DEF Param, Rules
<1>2. MustIf(name, on, is) = << r >>
  BY DEF MustIf
<1> HIDE DEF r
<1>3. Settled(ps, r)
  BY <1>1 DEF Settled, Made
<1>4. Made(ps \o << r >>, S \union {r.name}, A)
  BY <1>1, <1>3, OneMoreRow
<1> QED
  BY <1>1, <1>2, <1>4

\* bhd_adv_start_req_run() reads peer_addr after what decides whether it is read.
LEMMA AdvStartMade == WellMade(AdvStartParams)
<1> DEFINE D == {"duration_ms", "conn_mode", "disc_mode", "itvl_min", "itvl_max", "channel_map",
                 "filter_policy", "high_duty_cycle"}
           a == Musts(<<"own_addr_type">>)
           b == Mays(<<"peer_addr_type">>)
           d == Musts(<<"duration_ms", "conn_mode", "disc_mode", "itvl_min", "itvl_max",
                        "channel_map", "filter_policy", "high_duty_cycle">>)
           bc == a \o b \o MustIf("peer_addr", "peer_addr_type", {"v"})
<1>1. Made(a, {"own_addr_type"}, {"own_addr_type"}) /\ Made(b, {"peer_addr_type"}, {"peer_addr_type"})
  BY OneName, Lone
<1>2. Made(d, D, D)
  BY AdvStartNames, Lone
<1> HIDE DEF a, b, d, D
<1>3. Made(a \o b, {"own_addr_type"} \union {"peer_addr_type"}, {"own_addr_type"} \union {"peer_addr_type"})
  BY <1>1, Joined
<1>4. Made(bc, ({"own_addr_type"} \union {"peer_addr_type"}) \union {"peer_addr"},
           {"own_addr_type"} \union {"peer_addr_type"})
  BY <1>3, IfMade DEF Words
<1> HIDE DEF bc
<1>5. (({"own_addr_type"} \union {"peer_addr_type"}) \union {"peer_addr"}) \intersect D = {}
  BY DEF D
<1>6. WellMade(bc \o d)
  BY <1>2, <1>4, <1>5, Joined DEF Made
<1> QED
  BY <1>6 DEF AdvStartParams, a, b, bc, d

\* bhd_sm_inject_io_req_run() reads the action before what belongs to it.
LEMMA SmMade == WellMade(SmParams)
<1> DEFINE S == {"conn_handle", "action"}
           a == Musts(<<"conn_handle", "action">>)
           b == a \o MustIf("oob_data", "action", {"oob"})
           c == b \o MustIf("passkey", "action", {"input", "disp"})
           d == c \o MustIf("numcmp_accept", "action", {"numcmp"})
<1>1. Made(a, S, S)
  BY TwoNames, Lone
<1> HIDE DEF a
<1>2. Made(b, S \union {"oob_data"}, S)
  BY <1>1, IfMade DEF Words
<1> HIDE DEF b
<1>3. Made(c, S \union {"oob_data"} \union {"passkey"}, S)
  BY <1>2, IfMade DEF Words
<1> HIDE DEF c
<1>4. Made(d, S \union {"oob_data"} \union {"passkey"} \union {"numcmp_accept"}, S)
  BY <1>3, IfMade DEF Words
<1> QED
  BY <1>4 DEF SmParams, Made, a, b, c

\* Tables without dependencies, one after the other.
LEMMA JoinedFields ==
  ASSUME NEW ps, NEW qs, NEW S, NEW T, Made(ps, S, {}), Made(qs, T, {}), S \intersect T = {}
  PROVE  Made(ps \o qs, S \union T, {})
<1>1. Made(ps \o qs, S \union T, {} \union {})
  BY Joined
<1> QED
  BY <1>1 DEF Made

\* The fields of an advertisement, one or two at a time.
LEMMA AdvFieldsMade == WellMade(AdvFieldsParams)
<1> DEFINE Flag(n) == << Param(n, "flag") >>
           S1 == {"flags"}
           S2 == S1 \union {"uuids16", "uuids16_is_complete"}
           S3 == S2 \union {"uuids32", "uuids32_is_complete"}
           S4 == S3 \union {"uuids128", "uuids128_is_complete"}
           S5 == S4 \union {"name"}
           S6 == S5 \union {"name_is_complete"}
           S7 == S6 \union {"tx_pwr_lvl"}
           a1 == Mays(<<"flags">>)
           a2 == a1 \o List("uuids16", "uuids16_is_complete")
           a3 == a2 \o List("uuids32", "uuids32_is_complete")
           a4 == a3 \o List("uuids128", "uuids128_is_complete")
           a5 == a4 \o Mays(<<"name">>)
           a6 == a5 \o Flag("name_is_complete")
           a7 == a6 \o Mays(<<"tx_pwr_lvl">>)
<1>0. /\ \A n : Made(Mays(<< n >>), {n}, {n}) /\ Made(Mays(<< n >>), {n}, {})
      /\ \A n : Made(Flag(n), {n}, {})
      /\ \A n : Made(<< Param(n, "list") >>, {n}, {})
  <2>1. \A n : Made(Mays(<< n >>), {n}, {n})
    BY OneName, Lone
  <2>2. ASSUME NEW n, NEW rule \in {"flag", "list"}
        PROVE  Made(<< Param(n, rule) >>, {n}, {})
    <3> DEFINE r == Param(n, rule)
    <3>1. r.on = "nothing" /\ r.rule \in Rules /\ r.is \subseteq Words /\ r.name = n
      BY DEF Param, Rules
    <3> HIDE DEF r
    <3>2. Made(<< r >>, {r.name}, {})
      BY <3>1, OneRow
    <3> QED
      BY <3>1, <3>2 DEF r
  <2>3. \A n : Made(Mays(<< n >>), {n}, {})
    BY <2>1 DEF Made
  <2> QED
    BY <2>1, <2>2, <2>3
<1>1. Made(a7, S7, {})
  <2>1. Made(a1, S1, {})
    BY <1>0 DEF Made
  <2> HIDE DEF a1
  <2>2. Made(a2, S2, {})
    BY <2>1, ListMade, JoinedFields
  <2> HIDE DEF a2
  <2>3. Made(a3, S3, {})
    BY <2>2, ListMade, JoinedFields
  <2> HIDE DEF a3
  <2>4. Made(a4, S4, {})
    BY <2>3, ListMade, JoinedFields
  <2> HIDE DEF a4
  <2>5. Made(a5, S5, {})
    BY <1>0, <2>4, JoinedFields
  <2> HIDE DEF a5
  <2>6. Made(a6, S6, {})
    BY <1>0, <2>5, JoinedFields
  <2> HIDE DEF a6
  <2> QED
    BY <1>0, <2>6, JoinedFields
<1> DEFINE T1 == {"slave_itvl_min"}
           T2 == T1 \union {"slave_itvl_max"}
           T3 == T2 \union {"svc_data_uuid16"}
           T4 == T3 \union {"public_tgt_addrs"}
           L == {"appearance", "adv_itvl", "svc_data_uuid32", "svc_data_uuid128", "uri", "mfg_data"}
           T5 == T4 \union L
           b1 == Mays(<<"slave_itvl_min">>)
           b2 == b1 \o MustIf("slave_itvl_max", "slave_itvl_min", {"v"})
           b3 == b2 \o Mays(<<"svc_data_uuid16">>)
           b4 == b3 \o << Param("public_tgt_addrs", "list") >>
           b5 == b4 \o Mays(<<"appearance", "adv_itvl", "svc_data_uuid32", "svc_data_uuid128",
                              "uri", "mfg_data">>)
<1>2. Made(b5, T5, {})
  <2>1. Made(b1, T1, T1)
    BY <1>0
  <2> HIDE DEF b1
  <2>2. Made(b2, T2, {})
    <3>1. Made(b2, T2, T1)
      BY <2>1, IfMade DEF Words
    <3> QED
      BY <3>1 DEF Made
  <2> HIDE DEF b2
  <2>3. Made(b3, T3, {})
    BY <1>0, <2>2, JoinedFields
  <2> HIDE DEF b3
  <2>4. Made(b4, T4, {})
    BY <1>0, <2>3, JoinedFields
  <2> HIDE DEF b4
  <2>5. Made(b5, T5, {})
    <3>1. T4 \intersect L = {}
      OBVIOUS
    <3>2. Made(Mays(<<"appearance", "adv_itvl", "svc_data_uuid32", "svc_data_uuid128",
                      "uri", "mfg_data">>), L, L)
      BY LastFieldNames, Lone
    <3> HIDE DEF T4, L
    <3>3. Made(Mays(<<"appearance", "adv_itvl", "svc_data_uuid32", "svc_data_uuid128",
                      "uri", "mfg_data">>), L, {})
      BY <3>2 DEF Made
    <3> QED
      BY <2>4, <3>1, <3>3, JoinedFields
  <2> QED
    BY <2>5
<1>3. S7 \intersect T5 = {}
  OBVIOUS
<1>4. AdvFieldsParams = a7 \o b5
  BY DEF AdvFieldsParams, AdvNames, AdvMore
<1> HIDE DEF a7, b5, S7, T5
<1>5. Made(a7 \o b5, S7 \union T5, {})
  BY <1>1, <1>2, <1>3, JoinedFields
<1> QED
  BY <1>4, <1>5 DEF Made

\* The request types that share a handler.
LEMMA TypesOf ==
  /\ DOMAIN DiscParams = {"disc_all_svcs", "disc_svc_uuid", "disc_all_chrs", "disc_chr_uuid", "disc_all_dscs"}
  /\ DOMAIN ShortParams = {"terminate", "exchange_mtu", "gen_rand_addr", "set_rand_addr",
                           "adv_set_data", "adv_rsp_set_data"}
  /\ DOMAIN OneParam = {"set_preferred_mtu", "security_initiate", "conn_find"}
  /\ DOMAIN GattsParams = {"add_svcs", "access_status", "notify", "find_chr"}
BY DEF DiscParams, ShortParams, OneParam, GattsParams

\* The handlers read each parameter once, and one that decides whether another is read
\* before it: every request type has a well-made table.
THEOREM ParamsMade == \A t \in ReqTypes : WellMade(Params[t])
<1>1. WellMade(<< >>)
  BY EmptyTable DEF Made
<1>2. \A t \in DOMAIN DiscParams : WellMade(DiscParams[t])
  <2>1. \A n : WellMade(Musts(<< n >>))
    BY OneName, Lone DEF Made
  <2>2. WellMade(Musts(<<"conn_handle", "svc_uuid">>))
    BY TwoNames, Lone DEF Made
  <2>3. WellMade(Musts(<<"conn_handle", "start_handle", "end_handle">>))
    BY RangeNames, Lone DEF Made
  <2>4. WellMade(Musts(<<"conn_handle", "start_handle", "end_handle">>) \o Musts(<<"chr_uuid">>))
    <3> DEFINE range == {"conn_handle", "start_handle", "end_handle"}
    <3>1. /\ Made(Musts(<<"conn_handle", "start_handle", "end_handle">>), range, range)
          /\ Made(Musts(<<"chr_uuid">>), {"chr_uuid"}, {"chr_uuid"})
      BY RangeNames, OneName, Lone
    <3>2. range \intersect {"chr_uuid"} = {}
      OBVIOUS
    <3> HIDE DEF range
    <3> QED
      BY <3>1, <3>2, Joined DEF Made
  <2>5. /\ WellMade(DiscParams.disc_all_svcs) /\ WellMade(DiscParams.disc_svc_uuid)
        /\ WellMade(DiscParams.disc_all_chrs) /\ WellMade(DiscParams.disc_chr_uuid)
        /\ WellMade(DiscParams.disc_all_dscs)
    BY <2>1, <2>2, <2>3, <2>4 DEF DiscParams
  <2> QED
    BY <2>5, TypesOf
<1>3. /\ \A t \in DOMAIN ShortParams : WellMade(ShortParams[t])
      /\ \A t \in DOMAIN OneParam : WellMade(OneParam[t])
  <2>1. \A n : WellMade(Musts(<< n >>))
    BY OneName, Lone DEF Made
  <2>2. WellMade(Musts(<<"conn_handle", "hci_reason">>))
    BY TwoNames, Lone DEF Made
  <2> QED
    BY <2>1, <2>2 DEF ShortParams, OneParam, TerminateParams, AdvSetParams
<1>4. \A t \in DOMAIN GattsParams : WellMade(GattsParams[t])
  <2>1. WellMade(Musts(<<"services">>)) /\ WellMade(Musts(<<"svc_uuid", "chr_uuid">>))
    BY OneName, TwoNames, Lone DEF Made
  <2>2. ASSUME NEW ps, NEW S, Made(ps, S, S), "data" \notin S, NEW rule \in {"any", "stack"}
        PROVE  WellMade(ps \o << Param("data", rule) >>)
    <3> DEFINE r == Param("data", rule)
    <3>1. r.on = "nothing" /\ r.rule \in Rules /\ r.is \subseteq Words /\ r.name = "data"
      BY DEF Param, Rules
    <3> HIDE DEF r
    <3>2. Settled(ps, r)
      BY <3>1 DEF Settled
    <3>3. WellMade(ps \o << r >>)
      BY <2>2, <3>1, <3>2, OneMoreRow DEF Made
    <3> QED
      BY <3>3 DEF r
  <2>3. /\ WellMade(Musts(<<"att_status">>) \o << Param("data", "stack") >>)
        /\ WellMade(Musts(<<"conn_handle", "attr_handle">>) \o << Param("data", "any") >>)
    <3> DEFINE one == Musts(<<"att_status">>)
               two == Musts(<<"conn_handle", "attr_handle">>)
               S1 == {"att_status"}
               S2 == {"conn_handle", "attr_handle"}
    <3>1. Made(one, S1, S1) /\ Made(two, S2, S2)
      BY OneName, TwoNames, Lone
    <3>2. "data" \notin S1 /\ "data" \notin S2
      OBVIOUS
    <3> HIDE DEF one, two, S1, S2
    <3>3. WellMade(one \o << Param("data", "stack") >>) /\ WellMade(two \o << Param("data", "any") >>)
      BY <2>2, <3>1, <3>2
    <3> QED
      BY <3>3 DEF one, two
  <2>4. /\ WellMade(GattsParams.add_svcs) /\ WellMade(GattsParams.access_status)
        /\ WellMade(GattsParams.notify) /\ WellMade(GattsParams.find_chr)
    BY <2>1, <2>2, <2>3 DEF GattsParams
  <2> QED
    BY <2>4, TypesOf
<1>5. WellMade(WriteParams) /\ WellMade(ConnectParams) /\ WellMade(ScanParams)
  BY WriteNames, ConnectNames, ScanNames, Lone DEF Made, WriteParams, ConnectParams, ScanParams
<1> QED
  <2> HIDE DEF DiscParams, ShortParams, OneParam, GattsParams
  <2> SUFFICES ASSUME NEW t \in ReqTypes PROVE WellMade(Params[t])
    OBVIOUS
  <2>1. \/ t \in NoParams \/ t \in DOMAIN DiscParams \/ t \in DOMAIN ShortParams
        \/ t \in DOMAIN OneParam \/ t \in DOMAIN GattsParams \/ t \in {"write", "write_cmd"}
        \/ t \in {"connect", "scan", "adv_start", "adv_fields", "sm_inject_io"}
    BY DEF ReqTypes
  <2>2. /\ t \in NoParams => Params[t] = << >>
        /\ t \in DOMAIN DiscParams => Params[t] = DiscParams[t]
        /\ t \in DOMAIN ShortParams => Params[t] = ShortParams[t]
        /\ t \in DOMAIN OneParam => Params[t] = OneParam[t]
        /\ t \in DOMAIN GattsParams => Params[t] = GattsParams[t]
        /\ t \in {"write", "write_cmd"} => Params[t] = WriteParams
    BY TypesOf DEF Params, NoParams
  <2>3. /\ t = "connect" => Params[t] = ConnectParams
        /\ t = "scan" => Params[t] = ScanParams
        /\ t = "adv_start" => Params[t] = AdvStartParams
        /\ t = "adv_fields" => Params[t] = AdvFieldsParams
        /\ t = "sm_inject_io" => Params[t] = SmParams
    BY TypesOf DEF Params, NoParams
  <2> QED
    BY <1>1, <1>2, <1>3, <1>4, <1>5, <2>1, <2>2, <2>3, AdvStartMade, SmMade, AdvFieldsMade

\* "sync" and "commit_svcs" have no parameters; "error" and "sync_evt" are no requests.
LEMMA TypesApart ==
  /\ "sync" \in ReqTypes /\ Params["sync"] = << >>
  /\ "commit_svcs" \in ReqTypes /\ Params["commit_svcs"] = << >>
  /\ "error" \notin ReqTypes /\ "sync_evt" \notin ReqTypes /\ "bad" \notin ReqTypes
BY TypesOf DEF ReqTypes, Params, NoParams

-----------------------------------------------------------------------------
(* What is stored of a list.                                               *)

\* bhd_json_arr_gen() keeps the first valid element of a list, of any length.
LEMMA FirstIsKept ==
  ASSUME NEW items, Len(items) \in Nat, DOMAIN items = 1 .. Len(items)
  PROVE  LET valid == {i \in DOMAIN items : items[i] # "bad"}
         IN ListElements(items) = IF valid = {} THEN << >> ELSE << items[Min(valid)] >>
<1> DEFINE N == Len(items)
           V(n) == {i \in 1 .. n : items[i] # "bad"}
           First(n) == IF V(n) = {} THEN << >> ELSE << items[Min(V(n))] >>
           Step(x, n) == IF x # << >> \/ items[n] = "bad" THEN x ELSE << items[n] >>
           Is(f) == f = [n \in 0 .. N |-> IF n = 0 THEN << >> ELSE Step(f[n - 1], n)]
           g == CHOOSE f : Is(f)
<1>1. First(0) = << >>
  OBVIOUS
<1>2. ASSUME NEW n \in 1 .. N
      PROVE  First(n) = Step(First(n - 1), n)
  <2>1. n - 1 \in Nat /\ \A i \in 1 .. n : i \in 1 .. n - 1 \/ i = n
    OBVIOUS
  <2>2. CASE V(n - 1) # {}
    <3>1. V(n - 1) \in SUBSET Nat /\ V(n) \in SUBSET Nat
      OBVIOUS
    <3>2. Min(V(n - 1)) \in V(n - 1) /\ \A y \in V(n - 1) : Min(V(n - 1)) <= y
      <4> HIDE DEF V
      <4> QED
        BY <2>2, <3>1, LeastOf
    <3>3. Min(V(n - 1)) \in V(n) /\ \A y \in V(n) : Min(V(n - 1)) <= y
      <4> DEFINE x == Min(V(n - 1))
      <4> HIDE DEF x
      <4>1. x \in V(n - 1) /\ \A y \in V(n - 1) : x <= y
        BY <3>2 DEF x
      <4>2. x \in V(n) /\ \A y \in V(n) : x <= y
        BY <2>1, <4>1
      <4> QED
        BY <4>2 DEF x
    <3>4. Min(V(n)) = Min(V(n - 1))
      <4> HIDE DEF V
      <4> QED
        BY <3>1, <3>3, LeastIs
    <3>5. V(n) # {} /\ First(n - 1) # << >>
      <4>1. V(n) # {}
        BY <3>3
      <4>2. << items[Min(V(n - 1))] >> # << >>
        OBVIOUS
      <4> HIDE DEF V
      <4> QED
        BY <2>2, <4>1, <4>2
    <3> HIDE DEF V
    <3> QED
      BY <2>2, <3>4, <3>5
  <2>3. CASE V(n - 1) = {} /\ items[n] = "bad"
    <3>1. V(n) = {}
      BY <2>1, <2>3
    <3> HIDE DEF V
    <3> QED
      BY <2>3, <3>1
  <2>4. CASE V(n - 1) = {} /\ items[n] # "bad"
    <3>1. V(n) = {n}
      BY <2>1, <2>4
    <3>2. Min({n}) = n
      BY LeastIs
    <3>3. First(n - 1) = << >> /\ First(n) = << items[n] >>
      <4> HIDE DEF V
      <4> QED
        BY <2>4, <3>1, <3>2
    <3> HIDE DEF First
    <3> QED
      BY <2>4, <3>3
  <2> QED
    BY <2>2, <2>3, <2>4
<1>3. Is([n \in 0 .. N |-> First(n)])
  <2> HIDE DEF First, Step
  <2>1. \A n \in 0 .. N : n # 0 => n \in 1 .. N /\ n - 1 \in 0 .. N
    OBVIOUS
  <2> QED
    BY <1>1, <1>2, <2>1
<1>4. Is(g)
  BY <1>3, Zenon
<1>5. ListElements(items) = g[N]
  BY Zenon DEF ListElements
<1> HIDE DEF g
<1>6. \A n \in 0 .. N : n \in {k \in 0 .. N : g[k] = First(k)}
  <2> HIDE DEF First, Step
  <2> DEFINE S == {k \in 0 .. N : g[k] = First(k)}
  <2>1. 0 \in S
    BY <1>1, <1>4
  <2>2. ASSUME NEW n \in 0 .. N - 1, n \in S PROVE n + 1 \in S
    <3>1. n + 1 \in 1 .. N /\ n + 1 \in 0 .. N /\ (n + 1) - 1 = n /\ n + 1 # 0
      OBVIOUS
    <3>2. g[n + 1] = Step(g[n], n + 1)
      BY <1>4, <3>1
    <3> QED
      BY <1>2, <2>2, <3>1, <3>2
  <2> HIDE DEF S
  <2>3. \A n \in 0 .. N : n \in S
    BY <2>1, <2>2, UpTo
  <2> QED
    BY <2>3 DEF S
<1>7. N \in 0 .. N /\ V(N) = {i \in DOMAIN items : items[i] # "bad"}
  OBVIOUS
<1>8. ListElements(items) = First(N)
  BY <1>5, <1>6, <1>7
<1> QED
  BY <1>7, <1>8

-----------------------------------------------------------------------------
(* What a client can send.                                                 *)

\* Every parameter has a good value.
LEMMA SomeGoodToken == \A p : (CHOOSE v \in GoodTokens(p) : TRUE) \in GoodTokens(p)
<1> SUFFICES ASSUME NEW p PROVE GoodTokens(p) # {}
  OBVIOUS
<1> QED
  BY DEF GoodTokens

\* Each parameter of an object is absent, bad, or good.
LEMMA ObjectTokens ==
  ASSUME NEW t \in ReqTypes, NEW o \in Objects(t), NEW n \in DOMAIN Params[t]
  PROVE  o[Params[t][n].name] \in Tokens(Params[t][n])
<1> DEFINE ps == Params[t]
<1>1. WellMade(ps)
  BY ParamsMade
<1> HIDE DEF ps
<1>2. PICK odd, full : /\ o = Object(ps, odd, full)
                       /\ full \in BOOLEAN
                       /\ \A m \in DOMAIN odd : odd[m] \in Tokens(ps[m])
  <2> DEFINE all == UNION {Tokens(ps[m]) : m \in 1 .. Len(ps)}
             Odd(s) == {f \in [s -> all] : \A m \in s : f[m] \in Tokens(ps[m])}
             odds == UNION {Odd(s) : s \in UNION {kSubset(k, 1 .. Len(ps)) : k \in 0 .. MaxOdd}}
  <2>1. Objects(t) = {Object(ps, f, full) : f \in odds, full \in BOOLEAN}
    BY DEF Objects, ps
  <2> HIDE DEF odds
  <2>2. PICK odd \in odds, full \in BOOLEAN : o = Object(ps, odd, full)
    BY <2>1
  <2>3. PICK s : odd \in Odd(s)
    <3> HIDE DEF Odd
    <3> QED
      BY Zenon DEF odds
  <2>4. \A m \in DOMAIN odd : odd[m] \in Tokens(ps[m])
    BY <2>3
  <2> QED
    BY <2>2, <2>4
<1>3. DOMAIN ps = 1 .. Len(ps) /\ n \in DOMAIN ps
  BY <1>1 DEF WellMade, IsSeq, ps
<1>4. (CHOOSE m \in 1 .. Len(ps) : ps[m].name = ps[n].name) = n
  <2>1. \A m \in 1 .. Len(ps) : ps[m].name = ps[n].name => m = n
    BY <1>1, <1>3 DEF WellMade
  <2> QED
    BY <1>3, <2>1
<1>5. o[ps[n].name] = IF n \in DOMAIN odd THEN odd[n] ELSE Ordinary(ps[n], full)
  <2>1. ps[n].name \in {ps[m].name : m \in 1 .. Len(ps)}
    BY <1>3
  <2> DEFINE x == ps[n].name
             m == CHOOSE m \in 1 .. Len(ps) : ps[m].name = x
  <2>2. Object(ps, odd, full)[x] = IF m \in DOMAIN odd THEN odd[m] ELSE Ordinary(ps[m], full)
    <3> HIDE DEF x
    <3> QED
      BY <2>1, Zenon DEF Object, x
  <2>3. m = n
    BY <1>4
  <2> HIDE DEF m
  <2> QED
    BY <1>2, <2>2, <2>3
<1>6. Ordinary(ps[n], full) \in Tokens(ps[n])
  BY SomeGoodToken DEF Ordinary, Tokens
<1> QED
  BY <1>2, <1>5, <1>6 DEF ps

Handled == HdrOk /\ msg.op = "request" /\ msg.type \in ReqTypes

Ps == Params[msg.type]

Given(p) == msg.par[p.name]

\* Every parameter of a request has one of its tokens.
LEMMA MessageTokens ==
  ASSUME msg \in Messages, Handled
  PROVE  /\ WellMade(Ps) /\ DOMAIN Ps = 1 .. Len(Ps) /\ Len(Ps) \in Nat
         /\ \A n \in DOMAIN Ps : Given(Ps[n]) \in Tokens(Ps[n])
<1>1. WellMade(Ps) /\ DOMAIN Ps = 1 .. Len(Ps) /\ Len(Ps) \in Nat
  <2>1. WellMade(Ps)
    BY ParamsMade, Zenon DEF Handled, Ps
  <2>2. PICK S : Ps \in Seq(S)
    BY <2>1, Zenon DEF WellMade, IsSeq
  <2> QED
    BY <2>1, <2>2
<1>2. CASE \E t \in ReqTypes : \E o \in Objects(t) : msg = Message("request", t, 1, o)
  <2>1. PICK t \in ReqTypes : \E o \in Objects(t) : msg = Message("request", t, 1, o)
    BY <1>2
  <2>2. PICK o \in Objects(t) : msg = Message("request", t, 1, o)
    BY <2>1
  <2>3. msg.type = t /\ msg.par = o
    BY <2>2 DEF Message
  <2> QED
    BY <1>1, <2>3, ObjectTokens DEF Ps, Given
<1>3. CASE \E op, t, s : /\ msg = Message(op, t, s, << >>)
                         /\ t \in {"sync", "sync_evt", "error", "bad"}
  <2>1. msg.type \in {"sync", "sync_evt", "error", "bad"}
    BY <1>3 DEF Message
  <2>2. Ps = << >>
    BY <2>1, TypesApart DEF Handled, Ps
  <2> QED
    BY <1>1, <2>2
<1>4. CASE msg \in Requests
  BY <1>2, <1>4, Zenon DEF Requests
<1>6. CASE msg \in Headers
  BY <1>3, <1>6 DEF Headers
<1> QED
  BY <1>4, <1>6 DEF Messages

-----------------------------------------------------------------------------
(* The invariant.                                                          *)

\* What the program may keep of a parameter.
Wanted(p) == IF Counts(p) THEN Stored(p) ELSE {<< >>}

\* The parameters that were read are stored, and none of them was refused.
StoredSoFar ==
  /\ DOMAIN req = {Ps[m].name : m \in 1 .. next - 1}
  /\ \A m \in 1 .. next - 1 : req[Ps[m].name] \in Wanted(Ps[m]) /\ ~(Counts(Ps[m]) /\ Refuses(Ps[m]))

Response(type, seq, status, rest) == [type |-> type, seq |-> seq, status |-> status, rest |-> rest]

AtHeader ==
  pc = "header" => /\ next = 1 /\ req = << >> /\ host = "not called"
                   /\ rsp = Response("none", 0, "ok", "zero")

Reading ==
  pc = "params" => /\ Handled /\ host = "not called"
                   /\ next \in 1 .. Len(Ps) + 1 /\ StoredSoFar
                   /\ rsp = Response(msg.type, msg.seq, "ok", "zero")

\* The four ways a message can end.
BadHeader == /\ ~Handled /\ host = "not called"
             /\ rsp = Response("error", AnswerSeq, "invalid", "msg")

Refused == /\ Handled /\ ~Right /\ host = "not called"
           /\ rsp.status \in {"missing", "invalid"}
           /\ rsp = Response(IF msg.type \in ErrorTypes THEN "error" ELSE msg.type, msg.seq,
                             rsp.status, RefusalRest)

Called == /\ Handled /\ Right /\ next = Len(Ps) + 1 /\ StoredSoFar
          /\ host \in HostResults
          /\ rsp.rest \in Rests(host)
          /\ rsp = Response(msg.type, msg.seq, StatusOf(host), rsp.rest)

OutOfMbufs == /\ Handled /\ Right /\ next = Len(Ps) + 1 /\ StoredSoFar
              /\ host = "no mbufs"
              /\ rsp = Response("error", msg.seq, "no mbufs", "msg")

Over == pc \notin {"header", "params"} => BadHeader \/ Refused \/ Called \/ OutOfMbufs

ToldWhatIsEncoded == told = IF pc = "answered" THEN Encoded ELSE "nothing"

ParamsInv ==
  /\ msg \in Messages /\ pc \in {"header", "params", "encode", "answered", "dropped", "assert"}
  /\ AtHeader /\ Reading /\ Over /\ ToldWhatIsEncoded

-----------------------------------------------------------------------------
(* What is read, and what ought to be.                                     *)

\* What an earlier parameter is stored as tells what the client gave.
LEMMA StoredTells ==
  ASSUME NEW q, q.rule \in {"must", "may"}, msg.par[q.name] \in Tokens(q),
         NEW is, is \subseteq Words, NEW v \in Stored(q)
  PROVE  v # << >> /\ Head(v) \in is <=> msg.par[q.name] \in is
<1> DEFINE token == msg.par[q.name]
<1>1. token \in {"absent", "bad"} \union Words
  <2> HIDE DEF token
  <2> QED
    BY DEF Tokens, GoodTokens, Words, token
<1>2. Items(token) = << token >>
  <2> HIDE DEF token
  <2> QED
    BY <1>1 DEF Items, Words
<1>3. (Read(q) # "ok") <=> token \in {"absent", "bad"}
  BY DEF Read
<1>4. Stored(q) = {IF Read(q) # "ok" THEN << >> ELSE Items(token)}
  <2>1. q.rule # "flag" /\ q.rule # "list" /\ q.rule # "stack"
    OBVIOUS
  <2>2. CASE Read(q) = "ok"
    <3>1. Stored(q) = {Items(token)}
      BY <2>1, <2>2, Zenon DEF Stored
    <3> QED
      BY <2>2, <3>1, Zenon
  <2>3. CASE Read(q) # "ok"
    <3>1. Stored(q) = {<< >>}
      BY <2>1, <2>3, Zenon DEF Stored
    <3> QED
      BY <2>3, <3>1, Zenon
  <2> QED
    BY <2>2, <2>3
<1>5. << token >> # << >> /\ Head(<< token >>) = token
  OBVIOUS
<1> HIDE DEF token
<1>6. CASE token \in {"absent", "bad"}
  <2>1. Stored(q) = {<< >>}
    BY <1>3, <1>4, <1>6, Zenon
  <2>2. token \notin is
    BY <1>6 DEF Words
  <2>3. v = << >>
    BY <2>1
  <2> QED
    BY <2>2, <2>3, Zenon DEF token
<1>7. CASE token \notin {"absent", "bad"}
  <2>1. Stored(q) = {<< token >>}
    BY <1>2, <1>3, <1>4, <1>7, Zenon
  <2>2. v = << token >>
    BY <2>1
  <2> QED
    BY <1>5, <2>2, Zenon DEF token
<1> QED
  BY <1>6, <1>7, Zenon

\* A handler that looks whether an earlier parameter was given finds what the client gave.
LEMMA AppliesIfCounts ==
  ASSUME msg \in Messages, Handled, next \in 1 .. Len(Ps), StoredSoFar
  PROVE  Applies(Ps[next]) <=> Counts(Ps[next])
<1> DEFINE p == Ps[next]
<1>1. /\ WellMade(Ps) /\ DOMAIN Ps = 1 .. Len(Ps) /\ Len(Ps) \in Nat
      /\ \A n \in DOMAIN Ps : Given(Ps[n]) \in Tokens(Ps[n])
  BY MessageTokens
<1>2. CASE p.on = "nothing"
  BY <1>2, Zenon DEF Applies, Counts
<1>3. CASE p.on # "nothing"
  <2>1. PICK m \in 1 .. next - 1 : /\ Ps[m].name = p.on /\ Ps[m].on = "nothing"
                                   /\ Ps[m].rule \in {"must", "may"}
    BY <1>1, <1>3 DEF WellMade
  <2> DEFINE q == Ps[m]
  <2>2. p.is \subseteq Words
    BY <1>1 DEF WellMade
  <2>3. msg.par[q.name] \in Tokens(q)
    BY <1>1 DEF Given
  <2> DEFINE v == req[p.on]
  <2>4. v \in Stored(q)
    BY <2>1 DEF StoredSoFar, Wanted, Counts
  <2>5. q.name = p.on /\ q.rule \in {"must", "may"}
    BY <2>1
  <2> HIDE DEF q, p, v
  <2>6. v # << >> /\ Head(v) \in p.is <=> msg.par[q.name] \in p.is
    BY <2>2, <2>3, <2>4, <2>5, StoredTells
  <2>7. Applies(p) <=> v # << >> /\ Head(v) \in p.is
    BY <1>3, Zenon DEF Applies, v
  <2>8. Counts(p) <=> msg.par[q.name] \in p.is
    BY <1>3, <2>5, Zenon DEF Counts
  <2> QED
    BY <2>6, <2>7, <2>8, Zenon DEF p
<1> QED
  BY <1>2, <1>3, Zenon

\* A request is right if none of its parameters is to be refused.
LEMMA RightIs ==
  ASSUME msg \in Messages, Handled
  PROVE  Right <=> \A m \in 1 .. Len(Ps) : ~(Counts(Ps[m]) /\ Refuses(Ps[m]))
<1>1. WellMade(Ps) /\ DOMAIN Ps = 1 .. Len(Ps)
  BY MessageTokens
<1> DEFINE Ok(p) == CASE p.rule = "must" -> msg.par[p.name] \notin {"absent", "bad"}
                      [] p.rule = "any" -> TRUE
                      [] OTHER -> msg.par[p.name] # "bad"
<1>2. ASSUME NEW m \in 1 .. Len(Ps)
      PROVE  Ok(Ps[m]) <=> ~Refuses(Ps[m])
  <2> DEFINE p == Ps[m]
             token == msg.par[p.name]
  <2>1. p.rule \in Rules
    BY <1>1 DEF WellMade
  <2>2. Read(p) = IF token = "absent" THEN "missing" ELSE IF token = "bad" THEN "invalid" ELSE "ok"
    BY DEF Read
  <2>3. Refuses(p) <=> \/ p.rule = "must" /\ Read(p) # "ok"
                       \/ p.rule \in {"may", "flag", "list", "stack"} /\ Read(p) = "invalid"
    BY DEF Refuses
  <2>4. Ok(p) <=> \/ p.rule = "must" /\ token \notin {"absent", "bad"}
                  \/ p.rule = "any"
                  \/ p.rule \notin {"must", "any"} /\ token # "bad"
    BY Zenon
  <2> HIDE DEF p, token, Ok
  <2> QED
    BY <2>1, <2>2, <2>3, <2>4 DEF Rules, p
<1>3. Right <=> \A m \in 1 .. Len(Ps) : Counts(Ps[m]) => Ok(Ps[m])
  BY Zenon DEF Right, Handled, Ps
<1> HIDE DEF Ok
<1> QED
  BY <1>2, <1>3

-----------------------------------------------------------------------------
(* The invariant is preserved.                                             *)

\* The invariant holds of a message that was not looked at,
LEMMA ParamsInit == Init => ParamsInv
BY DEF Init, ParamsInv, AtHeader, Reading, Over, ToldWhatIsEncoded, Response

\* What depends on the message alone.
LEMMA SameMessage ==
  ASSUME UNCHANGED msg
  PROVE  /\ (Handled' <=> Handled) /\ (Right' <=> Right) /\ Ps' = Ps
         /\ AnswerSeq' = AnswerSeq /\ RefusalRest' = RefusalRest /\ HostResults' = HostResults
         /\ \A h : StatusOf(h)' = StatusOf(h) /\ Rests(h)' = Rests(h)
<1>1. HdrOk' = HdrOk
  BY DEF HdrOk
<1>2. Ps' = Ps
  BY DEF Ps
<1>3. Handled' <=> Handled
  BY <1>1, Zenon DEF Handled
<1>4. AnswerSeq' = AnswerSeq /\ RefusalRest' = RefusalRest /\ HostResults' = HostResults
  BY <1>1 DEF AnswerSeq, RefusalRest, HostResults
<1>5. Right' <=> Right
  BY <1>1, Zenon DEF Right, Counts
<1>6. \A h : StatusOf(h)' = StatusOf(h) /\ Rests(h)' = Rests(h)
  BY DEF StatusOf, Rests
<1> QED
  BY <1>2, <1>3, <1>4, <1>5, <1>6

\* What is wanted of a parameter does not change.
LEMMA StoredNow ==
  ASSUME msg' = msg, Ps' = Ps, DOMAIN req' = {Ps'[m].name : m \in 1 .. next' - 1},
         \A m \in 1 .. next' - 1 : /\ req'[Ps'[m].name] \in Wanted(Ps[m])
                                 /\ ~(Counts(Ps[m]) /\ Refuses(Ps[m]))
  PROVE  StoredSoFar'
<1>1. \A p : Read(p)' = Read(p)
  BY DEF Read
<1>2. \A p : Stored(p)' = Stored(p)
  BY <1>1, Zenon DEF Stored
<1>3. \A p : (Counts(p)' <=> Counts(p)) /\ (Refuses(p)' <=> Refuses(p))
  BY <1>1, Zenon DEF Counts, Refuses
<1>4. \A p : Wanted(p)' = Wanted(p)
  BY <1>2, <1>3, Zenon DEF Wanted
<1> QED
  BY <1>3, <1>4, Zenon DEF StoredSoFar

\* Nothing is stored or forgotten unless a parameter is read.
LEMMA SameStore ==
  ASSUME UNCHANGED <<msg, next, req>>, StoredSoFar
  PROVE  StoredSoFar'
<1>1. next' = next /\ req' = req /\ Ps' = Ps
  BY SameMessage
<1>2. DOMAIN req' = {Ps'[m].name : m \in 1 .. next' - 1}
  BY <1>1 DEF StoredSoFar
<1>3. \A m \in 1 .. next' - 1 : req'[Ps'[m].name] \in Wanted(Ps[m]) /\ ~(Counts(Ps[m]) /\ Refuses(Ps[m]))
  BY <1>1 DEF StoredSoFar
<1> QED
  BY <1>1, <1>2, <1>3, StoredNow

\* after bhd_req_dec() found its type or refused it,
LEMMA HeaderKeeps ==
  ASSUME ParamsInv, ReadHeader
  PROVE  ParamsInv'
<1>1. /\ pc = "header" /\ UNCHANGED <<msg, next, req, host, told>>
      /\ next = 1 /\ req = << >> /\ host = "not called" /\ rsp = Response("none", 0, "ok", "zero")
      /\ told = "nothing" /\ msg \in Messages
  BY DEF ParamsInv, ReadHeader, AtHeader, ToldWhatIsEncoded
<1>2. CASE Handled
  <2>1. pc' = "params" /\ rsp' = [rsp EXCEPT !.type = msg.type, !.seq = msg.seq]
    BY <1>2 DEF ReadHeader, Handled, AnswerSeq
  <2>2. rsp' = Response(msg.type, msg.seq, "ok", "zero")
    BY <1>1, <2>1 DEF Response
  <2>3. next \in 1 .. Len(Ps) + 1
    <3>1. Len(Ps) \in Nat
      BY <1>1, <1>2, MessageTokens
    <3>2. \A n \in Nat : 1 \in 1 .. n + 1
      OBVIOUS
    <3> QED
      BY <1>1, <3>1, <3>2, Zenon
  <2>4. StoredSoFar
    <3>1. DOMAIN << >> = {} /\ \A m : m \notin 1 .. 1 - 1
      OBVIOUS
    <3>2. DOMAIN req = {} /\ \A m : m \notin 1 .. next - 1
      BY <1>1, <3>1, Zenon
    <3> QED
      BY <3>2, Zenon DEF StoredSoFar
  <2>5. Handled' /\ Ps' = Ps /\ StoredSoFar'
    BY <1>1, <1>2, <2>4, SameMessage, SameStore
  <2>6. Reading'
    BY <1>1, <2>1, <2>2, <2>3, <2>5 DEF Reading, Response
  <2> QED
    BY <1>1, <2>1, <2>6 DEF ParamsInv, AtHeader, Over, ToldWhatIsEncoded
<1>3. CASE ~Handled
  <2>1. pc' = "encode" /\ rsp' = Response("error", AnswerSeq, "invalid", "msg")
    BY <1>3 DEF ReadHeader, Handled, Response
  <2>2. BadHeader'
    <3>1. AnswerSeq' = AnswerSeq /\ ~Handled' /\ host' = "not called"
      BY <1>1, <1>3, SameMessage
    <3> QED
      BY <2>1, <3>1 DEF BadHeader, Response
  <2> QED
    BY <1>1, <2>1, <2>2 DEF ParamsInv, AtHeader, Reading, Over, ToldWhatIsEncoded
<1> QED
  BY <1>2, <1>3

\* after each parameter, read or refused,
LEMMA ReadKeeps ==
  ASSUME ParamsInv, ReadParam
  PROVE  ParamsInv'
<1> DEFINE p == Ps[next]
<1>1. /\ pc = "params" /\ UNCHANGED <<msg, host, told>>
      /\ Handled /\ host = "not called" /\ StoredSoFar /\ msg \in Messages
      /\ rsp = Response(msg.type, msg.seq, "ok", "zero") /\ told = "nothing"
  BY DEF ParamsInv, ReadParam, Reading, ToldWhatIsEncoded
<1>2. WellMade(Ps) /\ DOMAIN Ps = 1 .. Len(Ps) /\ Len(Ps) \in Nat
  BY <1>1, MessageTokens
<1>3. PICK k : k = next
  OBVIOUS
<1>4. PICK l \in Nat : l = Len(Ps)
  BY <1>2
<1>5. k \in 1 .. l /\ next' = k + 1
  <2>1. k \in 1 .. l + 1 /\ k <= l /\ next' = k + 1
    BY <1>1, <1>3, <1>4, Zenon DEF ParamsInv, ReadParam, Reading, ParamsLeft, Ps
  <2> QED
    BY <1>4, <2>1
<1>6. Applies(p) <=> Counts(p)
  BY <1>1, <1>3, <1>4, <1>5, AppliesIfCounts
<1>7. CASE Applies(p) /\ Refuses(p)
  <2>1. /\ pc' = "encode"
        /\ rsp' = [rsp EXCEPT !.status = RefusalStatus(p), !.rest = RefusalRest,
                              !.type = IF msg.type \in ErrorTypes THEN "error" ELSE msg.type]
    BY <1>7 DEF ReadParam, Ps, AfterRefusal
  <2>2. RefusalStatus(p) \in {"missing", "invalid"}
    BY <1>7 DEF RefusalStatus, Refuses, Read
  <2>3. ~Right
    BY <1>1, <1>3, <1>4, <1>5, <1>6, <1>7, RightIs
  <2>4. Refused'
    <3> DEFINE type == IF msg.type \in ErrorTypes THEN "error" ELSE msg.type
               status == RefusalStatus(p)
    <3>1. rsp' = Response(type, msg.seq, status, RefusalRest)
      <4> HIDE DEF type, status
      <4> QED
        BY <1>1, <2>1 DEF Response, type, status
    <3>2. rsp'.status = status
      <4> HIDE DEF type, status
      <4> QED
        BY <3>1 DEF Response
    <3>3. /\ Handled' /\ ~Right' /\ host' = "not called" /\ RefusalRest' = RefusalRest
          /\ msg' = msg
      BY <1>1, <2>3, SameMessage
    <3>4. rsp'.status \in {"missing", "invalid"}
      BY <2>2, <3>2
    <3>5. rsp' = Response(IF msg'.type \in ErrorTypes THEN "error" ELSE msg'.type, msg'.seq,
                          rsp'.status, RefusalRest')
      <4> HIDE DEF status
      <4> QED
        BY <3>1, <3>2, <3>3, Zenon
    <3> QED
      BY <3>3, <3>4, <3>5, Zenon DEF Refused, Response
  <2> QED
    BY <1>1, <2>1, <2>4 DEF ParamsInv, AtHeader, Reading, Over, ToldWhatIsEncoded
<1>8. CASE ~(Applies(p) /\ Refuses(p))
  <2>0. /\ UNCHANGED <<pc, rsp>>
        /\ \E value \in IF Applies(p) THEN Stored(p) ELSE {<< >>} :
             req' = [n \in DOMAIN req \union {p.name} |-> IF n = p.name THEN value ELSE req[n]]
    BY <1>8 DEF ReadParam, Ps
  <2>2. (IF Applies(p) THEN Stored(p) ELSE {<< >>}) = Wanted(p)
    BY <1>6, Zenon DEF Wanted
  <2>1. PICK value \in Wanted(p) :
           /\ UNCHANGED <<pc, rsp>>
           /\ req' = [n \in DOMAIN req \union {p.name} |-> IF n = p.name THEN value ELSE req[n]]
    BY <2>0, <2>2
  <2>3. \A m \in 1 .. k : m \in 1 .. k - 1 \/ m = k
    BY <1>5
  <2>4. (\A m \in 1 .. k - 1 : m \in 1 .. k /\ m \in 1 .. l /\ m # k) /\ k \in 1 .. k /\ next' - 1 = k
    BY <1>5
  <2>5. /\ DOMAIN req = {Ps[m].name : m \in 1 .. k - 1}
        /\ \A m \in 1 .. k - 1 : req[Ps[m].name] \in Wanted(Ps[m]) /\ ~(Counts(Ps[m]) /\ Refuses(Ps[m]))
    BY <1>1, <1>3 DEF StoredSoFar
  <2>6. DOMAIN req' = {Ps[m].name : m \in 1 .. k}
    <3>1. DOMAIN req' = DOMAIN req \union {Ps[k].name}
      BY <1>3, <2>1
    <3> QED
      BY <2>3, <2>4, <2>5, <3>1
  <2>7. ASSUME NEW m \in 1 .. k
        PROVE  req'[Ps[m].name] \in Wanted(Ps[m]) /\ ~(Counts(Ps[m]) /\ Refuses(Ps[m]))
    <3>1. CASE m = k
      BY <1>3, <1>6, <1>8, <2>1, <3>1
    <3>2. CASE m \in 1 .. k - 1
      <4>1. Ps[m].name # p.name
        BY <1>2, <1>3, <1>4, <1>5, <2>4, <3>2 DEF WellMade
      <4>2. Ps[m].name \in DOMAIN req
        BY <2>5, <3>2
      <4>3. req'[Ps[m].name] = req[Ps[m].name]
        BY <2>1, <4>1, <4>2
      <4> QED
        BY <2>5, <3>2, <4>3
    <3> QED
      BY <2>3, <3>1, <3>2
  <2>8. StoredSoFar'
    <3>1. msg' = msg /\ Ps' = Ps
      BY <1>1, SameMessage
    <3>2. DOMAIN req' = {Ps'[m].name : m \in 1 .. next' - 1}
      BY <2>4, <2>6, <3>1
    <3>3. \A m \in 1 .. next' - 1 : req'[Ps'[m].name] \in Wanted(Ps[m]) /\ ~(Counts(Ps[m]) /\ Refuses(Ps[m]))
      BY <2>4, <2>7, <3>1
    <3> QED
      BY <3>1, <3>2, <3>3, StoredNow
  <2>9. next' \in 1 .. Len(Ps') + 1
    <3>1. k + 1 \in 1 .. l + 1
      BY <1>5
    <3>2. Ps' = Ps
      BY <1>1, SameMessage
    <3> QED
      BY <1>4, <1>5, <3>1, <3>2, Zenon
  <2>10. Reading'
    BY <1>1, <2>1, <2>8, <2>9, SameMessage DEF Reading, Response
  <2> QED
    BY <1>1, <2>1, <2>10 DEF ParamsInv, AtHeader, Over, ToldWhatIsEncoded
<1> QED
  BY <1>7, <1>8, Zenon

\* A handler that has read all parameters has a request that is right.
LEMMA AllRead ==
  ASSUME ParamsInv, pc = "params", ~ParamsLeft
  PROVE  /\ Handled /\ Right /\ next = Len(Ps) + 1 /\ StoredSoFar
         /\ rsp = Response(msg.type, msg.seq, "ok", "zero")
<1>1. /\ Handled /\ StoredSoFar /\ msg \in Messages /\ next \in 1 .. Len(Ps) + 1
      /\ rsp = Response(msg.type, msg.seq, "ok", "zero") /\ ~(next <= Len(Ps))
  BY DEF ParamsInv, Reading, ParamsLeft, Ps
<1>2. PICK l \in Nat : l = Len(Ps)
  BY <1>1, MessageTokens
<1>3. next = l + 1 /\ next - 1 = l
  BY <1>1, <1>2
<1>4. Right
  BY <1>1, <1>2, <1>3, RightIs DEF StoredSoFar
<1> QED
  BY <1>1, <1>2, <1>3, <1>4

\* The host is called once all parameters were read.
LEMMA CallKeeps ==
  ASSUME ParamsInv, CallHost
  PROVE  ParamsInv'
<1>1. /\ pc' = "encode" /\ UNCHANGED <<msg, next, req, told>>
      /\ host' \in HostResults /\ told = "nothing" /\ msg \in Messages
      /\ \E rest \in Rests(host') : rsp' = [rsp EXCEPT !.status = StatusOf(host'), !.rest = rest]
  BY DEF ParamsInv, CallHost, ToldWhatIsEncoded
<1>2. /\ Handled /\ Right /\ next = Len(Ps) + 1 /\ StoredSoFar
      /\ rsp = Response(msg.type, msg.seq, "ok", "zero")
  BY AllRead DEF CallHost
<1>3. PICK rest \in Rests(host') : rsp' = Response(msg.type, msg.seq, StatusOf(host'), rest)
  <2>1. PICK rest \in Rests(host') : rsp' = [rsp EXCEPT !.status = StatusOf(host'), !.rest = rest]
    BY <1>1
  <2>2. rsp' = Response(msg.type, msg.seq, StatusOf(host'), rest)
    BY <1>2, <2>1 DEF Response
  <2> QED
    BY <2>2
<1>3a. rsp'.rest = rest
  BY <1>3 DEF Response
<1>4. /\ Handled' /\ Right' /\ next' = Len(Ps') + 1 /\ StoredSoFar'
      /\ HostResults' = HostResults /\ msg' = msg
      /\ \A h : StatusOf(h)' = StatusOf(h) /\ Rests(h)' = Rests(h)
  BY <1>1, <1>2, SameMessage, SameStore
<1>5. Called'
  BY <1>1, <1>3, <1>3a, <1>4, Zenon DEF Called, Response, StatusOf, Rests
<1> QED
  BY <1>1, <1>5 DEF ParamsInv, AtHeader, Reading, Over, ToldWhatIsEncoded

\* when there is no memory for the call of the host,
LEMMA MbufsKeep ==
  ASSUME ParamsInv, NoMbufs
  PROVE  ParamsInv'
<1>1. /\ pc' = "encode" /\ UNCHANGED <<msg, next, req, told>>
      /\ host' = "no mbufs" /\ told = "nothing" /\ msg \in Messages
      /\ rsp' = [rsp EXCEPT !.type = "error", !.status = "no mbufs", !.rest = "msg"]
  BY DEF ParamsInv, NoMbufs, ToldWhatIsEncoded
<1>2. /\ Handled /\ Right /\ next = Len(Ps) + 1 /\ StoredSoFar
      /\ rsp = Response(msg.type, msg.seq, "ok", "zero")
  BY AllRead DEF NoMbufs
<1>3. rsp' = Response("error", msg.seq, "no mbufs", "msg")
  BY <1>1, <1>2 DEF Response
<1>4. Handled' /\ Right' /\ next' = Len(Ps') + 1 /\ StoredSoFar' /\ msg' = msg
  BY <1>1, <1>2, SameMessage, SameStore
<1>5. OutOfMbufs'
  BY <1>1, <1>3, <1>4, Zenon DEF OutOfMbufs, Response
<1> QED
  BY <1>1, <1>5 DEF ParamsInv, AtHeader, Reading, Over, ToldWhatIsEncoded

\* How a message ended is not changed any more.
LEMMA StaysOver ==
  ASSUME UNCHANGED <<msg, next, req, host, rsp>>, BadHeader \/ Refused \/ Called \/ OutOfMbufs
  PROVE  (BadHeader \/ Refused \/ Called \/ OutOfMbufs)'
<1>1. /\ (Handled' <=> Handled) /\ (Right' <=> Right) /\ Ps' = Ps
      /\ AnswerSeq' = AnswerSeq /\ RefusalRest' = RefusalRest /\ HostResults' = HostResults
      /\ msg' = msg /\ next' = next /\ host' = host /\ rsp' = rsp
      /\ \A h : StatusOf(h)' = StatusOf(h) /\ Rests(h)' = Rests(h)
  BY SameMessage
<1>2. StoredSoFar => StoredSoFar'
  BY SameStore
<1>3. BadHeader => BadHeader'
  BY <1>1, Zenon DEF BadHeader, Response
<1>4. Refused => Refused'
  BY <1>1, Zenon DEF Refused, Response
<1>5. Called => Called'
  BY <1>1, <1>2, Zenon DEF Called, Response
<1>6. OutOfMbufs => OutOfMbufs'
  BY <1>1, <1>2, Zenon DEF OutOfMbufs, Response
<1> QED
  BY <1>3, <1>4, <1>5, <1>6, Zenon

\* when the response is encoded,
LEMMA SendKeeps ==
  ASSUME ParamsInv, SendRsp
  PROVE  ParamsInv'
<1>1. /\ pc = "encode" /\ UNCHANGED <<msg, next, req, host, rsp>> /\ msg \in Messages
      /\ BadHeader \/ Refused \/ Called \/ OutOfMbufs
      /\ told = "nothing"
  BY DEF ParamsInv, SendRsp, Over, ToldWhatIsEncoded
<1>2. (BadHeader \/ Refused \/ Called \/ OutOfMbufs)'
  BY <1>1, StaysOver
<1>3. pc' \in {"answered", "dropped", "assert"}
  BY DEF SendRsp
<1>4. told' = IF pc' = "answered" THEN Encoded ELSE "nothing"
  BY <1>1, <1>3 DEF SendRsp
<1>5. Encoded' = Encoded
  BY <1>1 DEF Encoded
<1>6. Over' /\ ToldWhatIsEncoded'
  BY <1>2, <1>4, <1>5, Zenon DEF Over, ToldWhatIsEncoded
<1> QED
  BY <1>1, <1>3, <1>6 DEF ParamsInv, AtHeader, Reading

\* and when nothing happens.
LEMMA IdleKeeps ==
  ASSUME ParamsInv, UNCHANGED vars
  PROVE  ParamsInv'
<1>1. UNCHANGED <<msg, pc, next, req, host, rsp, told>>
  BY DEF vars
<1>2. AtHeader'
  BY <1>1 DEF ParamsInv, AtHeader, Response
<1>3. Reading'
  <2>1. pc = "params" => StoredSoFar'
    BY <1>1, SameStore DEF ParamsInv, Reading
  <2>2. (Handled' <=> Handled) /\ Ps' = Ps
    BY <1>1, SameMessage
  <2> QED
    BY <1>1, <2>1, <2>2, Zenon DEF ParamsInv, Reading, Response
<1>4. Over'
  BY <1>1, StaysOver DEF ParamsInv, Over
<1>5. ToldWhatIsEncoded'
  BY <1>1 DEF ParamsInv, ToldWhatIsEncoded, Encoded
<1> QED
  BY <1>1, <1>2, <1>3, <1>4, <1>5 DEF ParamsInv

\* So it holds after every step,
LEMMA ParamsStep == ParamsInv /\ [Next]_vars => ParamsInv'
BY HeaderKeeps, ReadKeeps, CallKeeps, MbufsKeep, SendKeeps, IdleKeeps DEF Next

\* and always.
LEMMA ParamsAlways == Spec => []ParamsInv
BY ParamsInit, ParamsStep, PTL DEF Spec

-----------------------------------------------------------------------------
(* What follows from it.                                                   *)

\* The host is called for a request that is right and for no other, whatever the
\* client leaves out or gets wrong, and in however many parameters.
THEOREM HostCalledRightly == Spec => []HostCalledIffRight
<1>1. ParamsInv => HostCalledIffRight
  <2> SUFFICES ASSUME ParamsInv, pc \in {"answered", "dropped"}
               PROVE  host # "not called" <=> Right
    BY DEF HostCalledIffRight
  <2>1. BadHeader \/ Refused \/ Called \/ OutOfMbufs
    BY DEF ParamsInv, Over
  <2>2. Right => Handled
    BY Zenon DEF Right, Handled
  <2>3. \A h \in HostResults : h # "not called"
    BY DEF HostResults
  <2> QED
    BY <2>1, <2>2, <2>3 DEF BadHeader, Refused, Called, OutOfMbufs
<1> QED
  BY <1>1, ParamsAlways, PTL

\* What is stored of a parameter that is not refused is what the client gave, or the
\* first valid element of it, unless it is the value of access_status and not there.
LEMMA StoredIs ==
  ASSUME NEW p, NEW v \in Stored(p), ~Refuses(p), ~(p.rule = "stack" /\ msg.par[p.name] = "absent")
  PROVE  LET items == Items(msg.par[p.name])
             valid == {i \in DOMAIN items : items[i] # "bad"}
         IN v = IF msg.par[p.name] \in {"absent", "bad"} THEN IF p.rule = "flag" THEN <<"true">> ELSE << >>
                ELSE IF p.rule = "list" THEN IF valid = {} THEN << >> ELSE << items[Min(valid)] >>
                ELSE items
<1> DEFINE token == msg.par[p.name]
           items == Items(token)
           valid == {i \in DOMAIN items : items[i] # "bad"}
           first == IF valid = {} THEN << >> ELSE << items[Min(valid)] >>
<1>1. (Read(p) # "ok") <=> token \in {"absent", "bad"}
  BY DEF Read
<1>2. Len(items) \in Nat /\ DOMAIN items = 1 .. Len(items)
  <2> HIDE DEF token
  <2>1. items \in {<<"v", "w">>, <<"bad", "v">>, << >>, << token >>}
    BY Zenon DEF Items
  <2>2. \A s \in {<<"v", "w">>, <<"bad", "v">>, << >>, << token >>} :
          Len(s) \in Nat /\ DOMAIN s = 1 .. Len(s)
    OBVIOUS
  <2> HIDE DEF items
  <2> QED
    BY <2>1, <2>2
<1>3. ListElements(items) = first
  <2> HIDE DEF items
  <2> QED
    BY <1>2, FirstIsKept
<1>4. CASE Read(p) = "ok"
  <2>1. v = IF p.rule = "list" THEN first ELSE items
    <3> HIDE DEF first
    <3>1. Stored(p) = {IF p.rule = "list" THEN first ELSE items}
      BY <1>3, <1>4, Zenon DEF Stored
    <3> QED
      BY <3>1
  <2> QED
    BY <1>1, <1>4, <2>1, Zenon
<1>5. CASE Read(p) # "ok"
  <2>1. p.rule # "stack"
    <3>1. token = "absent" \/ Read(p) = "invalid"
      BY <1>5 DEF Read
    <3> QED
      BY <3>1 DEF Refuses
  <2>2. v = IF p.rule = "flag" THEN <<"true">> ELSE << >>
    <3>1. p.rule = "flag" => Stored(p) = {<<"true">>}
      BY <1>5, Zenon DEF Stored
    <3>2. p.rule # "flag" => Stored(p) = {<< >>}
      BY <1>5, <2>1, Zenon DEF Stored
    <3> QED
      BY <3>1, <3>2
  <2> QED
    BY <1>1, <1>5, <2>2, Zenon
<1> QED
  BY <1>4, <1>5, Zenon

\* Every handler hands the host the values of the request it answers: none is lost,
\* exchanged or left over, of a list the first valid element is taken.  Of the value of an
\* access_status nothing is said if the request has none.
THEOREM HostGetsIt == Spec => []HostGetsWhatWasAsked
<1>1. ASSUME ParamsInv, host # "not called", NEW n \in 1 .. Len(Ps)
      PROVE  /\ req[Ps[n].name] \in IF Counts(Ps[n]) THEN Stored(Ps[n]) ELSE {<< >>}
             /\ Counts(Ps[n]) => ~Refuses(Ps[n])
  <2>1. pc \notin {"header", "params"}
    BY <1>1 DEF ParamsInv, AtHeader, Reading
  <2>2. Called \/ OutOfMbufs
    BY <1>1, <2>1 DEF ParamsInv, Over, BadHeader, Refused
  <2>3. Handled /\ msg \in Messages /\ next = Len(Ps) + 1 /\ StoredSoFar
    BY <1>1, <2>2 DEF ParamsInv, Called, OutOfMbufs
  <2>4. PICK l \in Nat : l = Len(Ps)
    BY <2>3, MessageTokens
  <2>5. next - 1 = Len(Ps)
    BY <2>3, <2>4
  <2> QED
    BY <2>3, <2>5, Zenon DEF StoredSoFar, Wanted
<1>2. ParamsInv => HostGetsWhatWasAsked
  <2> SUFFICES ASSUME ParamsInv, host # "not called", NEW n \in 1 .. Len(Params[msg.type])
               PROVE  LET p == Params[msg.type][n]
                          items == Items(msg.par[p.name])
                          valid == {i \in DOMAIN items : items[i] # "bad"}
                      IN \/ p.rule = "stack" /\ msg.par[p.name] = "absent"
                         \/ req[p.name] =
                              IF ~Counts(p) THEN << >>
                              ELSE IF msg.par[p.name] \in {"absent", "bad"}
                              THEN IF p.rule = "flag" THEN <<"true">> ELSE << >>
                              ELSE IF p.rule = "list"
                              THEN IF valid = {} THEN << >> ELSE << items[Min(valid)] >>
                              ELSE items
    BY Zenon DEF HostGetsWhatWasAsked
  <2> DEFINE p == Params[msg.type][n]
             v == req[p.name]
  <2>1. /\ v \in IF Counts(p) THEN Stored(p) ELSE {<< >>}
        /\ Counts(p) => ~Refuses(p)
    BY <1>1 DEF Ps
  <2> HIDE DEF p, v
  <2>2. CASE ~Counts(p)
    <3>1. v = << >>
      BY <2>1, <2>2
    <3> QED
      BY <2>2, <3>1, Zenon DEF p, v
  <2>3. CASE Counts(p) /\ ~(p.rule = "stack" /\ msg.par[p.name] = "absent")
    <3>1. v \in Stored(p) /\ ~Refuses(p)
      BY <2>1, <2>3
    <3> QED
      BY <2>3, <3>1, StoredIs, Zenon DEF p, v
  <2>4. CASE p.rule = "stack" /\ msg.par[p.name] = "absent"
    BY <2>4, Zenon DEF p
  <2> QED
    BY <2>2, <2>3, <2>4, Zenon
<1> QED
  BY <1>2, ParamsAlways, PTL

\* The types whose responses say more than a status do not change places.
LEMMA SayingTypes ==
  /\ "error" \in SaysAlways /\ "error" \notin SaysIfOk
  /\ \A t \in SaysAlways : t \in {"error", "conn_find", "find_chr", "sync", "commit_svcs"}
  /\ "conn_find" \in ErrorTypes /\ \A t \in StatusAlone : t \notin ErrorTypes
  /\ "find_chr" \in StatusAlone /\ "commit_svcs" \in SaysAlways
BY DEF SaysAlways, SaysIfOk, ErrorTypes, StatusAlone, OneParam

\* An answer belongs to its request, its status 0 is the word of the host, except in an
\* answer to clear_svcs, and what it says beyond the status was put there by whoever gave
\* the status.
THEOREM AnswersMatch == Spec => []AnswerMatches
<1>1. ParamsInv => AnswerMatches
  <2> SUFFICES ASSUME ParamsInv, pc = "answered"
               PROVE  /\ rsp.type \in {msg.type, "error"}
                      /\ rsp.seq # msg.seq => ~HdrOk /\ rsp.seq = 0 /\ rsp.type = "error"
                      /\ rsp.status = "ok" <=> host = "ok" \/ (host = "error" /\ msg.type = "clear_svcs")
                      /\ told = "msg" <=> rsp.type = "error"
                      /\ told = "host" => host = "ok"
                      /\ rsp.status = "ok" /\ told = "zero" => host = "ok" /\ msg.type = "commit_svcs"
    BY DEF AnswerMatches
  <2>1. told = Encoded /\ msg \in Messages
    BY DEF ParamsInv, ToldWhatIsEncoded
  <2>2. Handled => msg.type # "error"
    BY TypesApart DEF Handled
  <2>3. CASE BadHeader
    <3>1. /\ rsp.type = "error" /\ rsp.seq = AnswerSeq /\ rsp.status = "invalid"
          /\ rsp.rest = "msg" /\ host = "not called"
      BY <2>3 DEF BadHeader, Response
    <3>2. AnswerSeq = msg.seq \/ (~HdrOk /\ AnswerSeq = 0)
      <4>1. CASE HdrOk
        BY <4>1, Zenon DEF AnswerSeq
      <4>2. CASE ~HdrOk
        BY <4>2, Zenon DEF AnswerSeq
      <4> QED
        BY <4>1, <4>2, Zenon
    <3>3. told = "msg"
      BY <2>1, <3>1, SayingTypes DEF Encoded
    <3> QED
      BY <3>1, <3>2, <3>3
  <2>4. CASE Refused
    <3>1. /\ rsp.type = IF msg.type \in ErrorTypes THEN "error" ELSE msg.type
          /\ rsp.seq = msg.seq /\ rsp.status \in {"missing", "invalid"}
          /\ rsp.rest = RefusalRest /\ host = "not called" /\ Handled /\ ~Right
      <4> DEFINE type == IF msg.type \in ErrorTypes THEN "error" ELSE msg.type
      <4>1. /\ rsp = Response(type, msg.seq, rsp.status, RefusalRest)
            /\ Handled /\ ~Right /\ host = "not called" /\ rsp.status \in {"missing", "invalid"}
        BY <2>4, Zenon DEF Refused
      <4> HIDE DEF type
      <4>2. PICK status : rsp = Response(type, msg.seq, status, RefusalRest)
        BY <4>1, Zenon
      <4>3. rsp.type = type /\ rsp.seq = msg.seq /\ rsp.rest = RefusalRest
        BY <4>2 DEF Response
      <4> QED
        BY <4>1, <4>3 DEF type
    <3>2. CASE msg.type \in ErrorTypes
      <4>1. rsp.type = "error" /\ rsp.rest = "msg"
        BY <3>1, <3>2, SayingTypes DEF RefusalRest
      <4>2. told = "msg"
        BY <2>1, <4>1, SayingTypes DEF Encoded
      <4> QED
        BY <3>1, <4>1, <4>2
    <3>3. CASE msg.type \notin ErrorTypes
      <4>1. rsp.type = msg.type /\ rsp.status # "ok" /\ msg.type # "error"
        BY <2>2, <3>1, <3>3
      <4>2. msg.type \notin {"sync", "commit_svcs"}
        <5>1. Len(<< >>) = 0 /\ \A m : m \notin 1 .. 0
          OBVIOUS
        <5>2. msg.type \in {"sync", "commit_svcs"} => \A m : m \notin 1 .. Len(Ps)
          BY <5>1, TypesApart DEF Ps
        <5> QED
          BY <2>1, <3>1, <5>2, RightIs
      <4>3. told \in {"zero", "nothing"}
        <5>1. CASE msg.type = "find_chr"
          BY <2>1, <3>1, <5>1, SayingTypes DEF Encoded, RefusalRest
        <5>2. CASE msg.type # "find_chr"
          BY <2>1, <3>3, <4>1, <4>2, <5>2, SayingTypes DEF Encoded
        <5> QED
          BY <5>1, <5>2
      <4> QED
        BY <3>1, <4>1, <4>3
    <3> QED
      BY <3>2, <3>3
  <2>5. CASE Called
    <3>1. /\ rsp.type = msg.type /\ rsp.seq = msg.seq /\ rsp.status = StatusOf(host)
          /\ rsp.rest \in Rests(host) /\ host \in {"ok", "error"} /\ Handled
      <4>1. /\ rsp = Response(msg.type, msg.seq, StatusOf(host), rsp.rest)
            /\ rsp.rest \in Rests(host) /\ host \in HostResults /\ Handled
        BY <2>5 DEF Called
      <4>2. PICK rest : rsp = Response(msg.type, msg.seq, StatusOf(host), rest)
        BY <4>1
      <4>3. rsp.type = msg.type /\ rsp.seq = msg.seq /\ rsp.status = StatusOf(host)
        BY <4>2 DEF Response
      <4> QED
        BY <4>1, <4>3 DEF HostResults
    <3>2. rsp.status = "ok" <=> host = "ok" \/ (host = "error" /\ msg.type = "clear_svcs")
      BY <3>1 DEF StatusOf, ResultIgnored
    <3>3. rsp.rest \in {"host", "zero"} /\ (rsp.rest = "host" => host = "ok")
      BY <3>1 DEF Rests
    <3>4. told \in {rsp.rest, "nothing"}
      BY <2>1 DEF Encoded
    <3>5. ASSUME rsp.status = "ok", told = "zero"
          PROVE  host = "ok" /\ msg.type = "commit_svcs"
      <4>1. msg.type \in SaysAlways \/ msg.type \in SaysIfOk
        BY <2>1, <3>1, <3>5 DEF Encoded
      <4>2. msg.type # "clear_svcs"
        BY <4>1 DEF SaysAlways, SaysIfOk
      <4>3. host = "ok"
        BY <3>2, <3>5, <4>2
      <4>4. rsp.rest = "zero"
        BY <3>4, <3>5
      <4>5. msg.type # "commit_svcs" => Rests(host) = {"host"}
        BY <4>1, <4>3 DEF Rests
      <4> QED
        BY <3>1, <4>3, <4>4, <4>5
    <3>6. rsp.type # "error" /\ told # "msg"
      BY <2>2, <3>1, <3>3, <3>4
    <3>7. told = "host" => host = "ok"
      BY <3>3, <3>4
    <3> QED
      BY <3>1, <3>2, <3>5, <3>6, <3>7
  <2>6. CASE OutOfMbufs
    <3>1. /\ rsp.type = "error" /\ rsp.seq = msg.seq /\ rsp.status = "no mbufs"
          /\ rsp.rest = "msg" /\ host = "no mbufs"
      BY <2>6 DEF OutOfMbufs, Response
    <3>2. told = "msg"
      BY <2>1, <3>1, SayingTypes DEF Encoded
    <3> QED
      BY <3>1, <3>2
  <2> QED
    BY <2>3, <2>4, <2>5, <2>6 DEF ParamsInv, Over
<1> QED
  BY <1>1, ParamsAlways, PTL

-----------------------------------------------------------------------------
(* Sequences.                                                              *)

\* A sequence is a function on 1 .. n.
LEMMA SequenceIs ==
  ASSUME NEW s, IsSequence(s)
  PROVE  /\ Len(s) \in Nat /\ DOMAIN s = 1 .. Len(s)
         /\ s \in Seq({s[k] : k \in 1 .. Len(s)})
<1>1. Len(s) \in Nat /\ s = [k \in 1 .. Len(s) |-> s[k]]
  BY DEF IsSequence
<1>2. DOMAIN s = 1 .. Len(s)
  BY <1>1
<1>3. s \in [1 .. Len(s) -> {s[k] : k \in 1 .. Len(s)}]
  <2> DEFINE N == Len(s)
  <2>1. N \in Nat /\ s = [k \in 1 .. N |-> s[k]]
    BY <1>1
  <2> HIDE DEF N
  <2>2. s \in [1 .. N -> {s[k] : k \in 1 .. N}]
    BY <2>1
  <2> QED
    BY <2>2 DEF N
<1> QED
  BY <1>1, <1>2, <1>3, SeqDef

\* An element of Seq(S) is a sequence of elements of S.
LEMMA IsIn ==
  ASSUME NEW S, NEW s \in Seq(S)
  PROVE  IsSequence(s) /\ DOMAIN s = 1 .. Len(s) /\ \A k \in 1 .. Len(s) : s[k] \in S
<1>1. Len(s) \in Nat /\ DOMAIN s = 1 .. Len(s)
  BY LenProperties
<1>2. s = [k \in 1 .. Len(s) |-> s[k]]
  BY <1>1, SeqDef
<1> QED
  BY <1>1, <1>2, ElementOfSeq DEF IsSequence

\* A function on 1 .. n is a sequence of length n.
LEMMA MadeSequence ==
  ASSUME NEW N \in Nat, NEW s, s = [k \in 1 .. N |-> s[k]]
  PROVE  IsSequence(s) /\ Len(s) = N /\ DOMAIN s = 1 .. N
<1>1. s \in [1 .. N -> {s[k] : k \in 1 .. N}]
  OBVIOUS
<1>2. s \in Seq({s[k] : k \in 1 .. N}) /\ DOMAIN s = 1 .. N
  BY <1>1, SeqDef
<1>3. Len(s) = N
  BY <1>2, LenProperties
<1> QED
  BY <1>2, <1>3 DEF IsSequence

\* Sequences of the same length with the same entries are equal.
LEMMA SameSequence ==
  ASSUME NEW s, NEW t, IsSequence(s), IsSequence(t), Len(s) = Len(t), \A k \in 1 .. Len(s) : s[k] = t[k]
  PROVE  s = t
BY DEF IsSequence

\* What Append adds is last, and nothing else changes.
LEMMA Appended ==
  ASSUME NEW s, NEW x, IsSequence(s)
  PROVE  /\ IsSequence(Append(s, x)) /\ Len(Append(s, x)) = Len(s) + 1
         /\ \A k \in 1 .. Len(s) : Append(s, x)[k] = s[k]
         /\ Append(s, x)[Len(s) + 1] = x
         /\ Append(s, x) # << >>
<1> DEFINE S == {s[k] : k \in 1 .. Len(s)} \cup {x}
<1>1. s \in Seq(S)
  <2> DEFINE A == {s[k] : k \in 1 .. Len(s)}
  <2>1. A \subseteq S
    OBVIOUS
  <2>2. s \in Seq(A)
    BY SequenceIs
  <2> HIDE DEF A, S
  <2> QED
    BY <2>1, <2>2, SeqMonotonic
<1>2. x \in S
  OBVIOUS
<1> HIDE DEF S
<1>3. Append(s, x) \in Seq(S)
  BY <1>1, <1>2, AppendProperties
<1>4. /\ Len(Append(s, x)) = Len(s) + 1
      /\ \A k \in 1 .. Len(s) : Append(s, x)[k] = s[k]
      /\ Append(s, x)[Len(s) + 1] = x
      /\ Append(s, x) # << >>
  BY <1>1, <1>2, AppendProperties
<1> QED
  BY <1>3, <1>4, IsIn

-----------------------------------------------------------------------------
(* Loops: a recursive function of the number of rounds.                    *)

\* N rounds from "base"; round k applies F[k].
Rounds(f, N, base, F) == f = [k \in 0 .. N |-> IF k = 0 THEN base ELSE F[k][f[k - 1]]]

\* A loop of n rounds runs: there is a function from the number of rounds to its state.
LEMMA LoopRuns ==
  ASSUME NEW N \in Nat, NEW T, NEW base \in T, NEW F, \A k \in 1 .. N : \A x \in T : F[k][x] \in T
  PROVE  \E f : Rounds(f, N, base, F) /\ \A k \in 0 .. N : f[k] \in T
<1> DEFINE Runs(n, f) == /\ f = [k \in 0 .. n |-> IF k = 0 THEN base ELSE F[k][f[k - 1]]]
                         /\ \A k \in 0 .. n : f[k] \in T
           S == {n \in 0 .. N : \E f : Runs(n, f)}
<1>1. 0 \in S
  <2> DEFINE g == [k \in 0 .. 0 |-> base]
  <2>1. \A k \in 0 .. 0 : k = 0 /\ g[k] = base
    OBVIOUS
  <2>2. g = [k \in 0 .. 0 |-> g[k]]
    OBVIOUS
  <2> HIDE DEF g
  <2>3. g = [k \in 0 .. 0 |-> IF k = 0 THEN base ELSE F[k][g[k - 1]]]
    BY <2>1, <2>2
  <2>4. Runs(0, g)
    BY <2>1, <2>3
  <2> HIDE DEF Runs
  <2> QED
    BY <2>4
<1>2. ASSUME NEW n \in 0 .. N - 1, n \in S PROVE n + 1 \in S
  <2>1. PICK f : Runs(n, f)
    BY <1>2
  <2> DEFINE g == [k \in 0 .. n + 1 |-> IF k = n + 1 THEN F[n + 1][f[n]] ELSE f[k]]
  <2>2. /\ n + 1 \in 1 .. N /\ n \in 0 .. n /\ n + 1 # 0 /\ (n + 1) - 1 = n /\ n # n + 1
        /\ \A k \in 0 .. n + 1 : k # n + 1 => k \in 0 .. n
        /\ \A k \in 0 .. n : k # 0 => k - 1 \in 0 .. n
        /\ \A k \in 0 .. n : k \in 0 .. n + 1 /\ k # n + 1
    OBVIOUS
  <2>3. \A k \in 0 .. n : g[k] = f[k]
    BY <2>2
  <2>4. g[n + 1] = F[n + 1][g[n]] /\ g[n + 1] \in T
    <3>1. g[n + 1] = F[n + 1][f[n]]
      OBVIOUS
    <3>2. g[n] = f[n] /\ f[n] \in T
      BY <2>1, <2>2, <2>3
    <3> HIDE DEF g
    <3> QED
      BY <2>2, <3>1, <3>2
  <2>5. \A k \in 0 .. n + 1 : g[k] = (IF k = 0 THEN base ELSE F[k][g[k - 1]]) /\ g[k] \in T
    <3> SUFFICES ASSUME NEW k \in 0 .. n + 1
                 PROVE  g[k] = (IF k = 0 THEN base ELSE F[k][g[k - 1]]) /\ g[k] \in T
      OBVIOUS
    <3>1. CASE k = n + 1
      BY <2>2, <2>4, <3>1
    <3>2. CASE k # n + 1
      <4>1. k \in 0 .. n /\ (k # 0 => k - 1 \in 0 .. n)
        BY <2>2, <3>2
      <4>2. f[k] = (IF k = 0 THEN base ELSE F[k][f[k - 1]]) /\ f[k] \in T
        BY <2>1, <4>1
      <4> HIDE DEF g
      <4> QED
        BY <2>3, <4>1, <4>2
    <3> QED
      BY <3>1, <3>2
  <2>6. g = [k \in 0 .. n + 1 |-> g[k]]
    OBVIOUS
  <2> HIDE DEF g
  <2>7. Runs(n + 1, g)
    <3>1. g = [k \in 0 .. n + 1 |-> IF k = 0 THEN base ELSE F[k][g[k - 1]]]
      BY <2>5, <2>6
    <3> QED
      BY <2>5, <3>1
  <2>8. n + 1 \in 0 .. N
    OBVIOUS
  <2> HIDE DEF Runs
  <2> QED
    BY <2>7, <2>8
<1>3. N \in 0 .. N
  OBVIOUS
<1>4. N \in S
  <2> HIDE DEF S
  <2> QED
    BY <1>1, <1>2, <1>3, UpTo
<1> QED
  BY <1>4 DEF Rounds

-----------------------------------------------------------------------------
(* Texts: bytes that are read and written.                                 *)

\* Return codes: what was got is not a failure.
LEMMA Codes ==
  /\ \A x : Got(x).rc = "ok" /\ Got(x).val = x
  /\ \A c : Failed(c).rc = c
BY DEF Got, Failed

\* A piece of a text, and a JSON value, is of the kind it was made.
LEMMA Kinds ==
  /\ \A b : IsHex(Hex(b)) /\ ~IsSep(Hex(b)) /\ Hex(b).hex = b
  /\ \A c : ~IsHex(Sep(c)) /\ IsSep(Sep(c))
  /\ \A n : IsNum(Num(n)) /\ ~IsStr(Num(n)) /\ ~IsArr(Num(n)) /\ Num(n).num = n
  /\ \A s : ~IsNum(Str(s)) /\ IsStr(Str(s)) /\ ~IsArr(Str(s)) /\ Str(s).str = s
  /\ \A a : ~IsStr(Arr(a)) /\ IsArr(Arr(a)) /\ Arr(a).arr = a
  /\ \A b : ~IsStr(Bool(b)) /\ ~IsArr(Bool(b)) /\ IsBool(Bool(b)) /\ Bool(b).bool = b
BY DEF Hex, Sep, Num, Str, Arr, Bool, IsHex, IsSep, IsNum, IsStr, IsArr, IsBool

\* The empty sequence is one.
LEMMA EmptySequence == IsSequence(<< >>) /\ Len(<< >>) = 0
<1> QED
  BY EmptySeq, IsIn

\* A loop over a text: the text is a sequence of pieces.
LEMMA ParseLoop ==
  ASSUME NEW str, IsSequence(str), NEW max_len \in Nat
  PROVE  \E dst : /\ dst[0] = Got(<< >>)
                  /\ \A k \in 1 .. Len(str) : dst[k] = ByteStep(dst[k - 1], str[k], max_len)
                  /\ \A k \in 0 .. Len(str) : IsSequence(dst[k].val) /\ Len(dst[k].val) <= max_len
                  /\ ParseByteStream(str, max_len) = dst[Len(str)]
<1> DEFINE N == Len(str)
           S == {str[k].hex : k \in 1 .. N}
           T == {r \in [rc : {"ok", "SYS_EINVAL", "-1"}, val : Seq(S)] : Len(r.val) <= max_len}
           F == [k \in 1 .. N |-> [x \in T |-> ByteStep(x, str[k], max_len)]]
           Is(f) == f = [k \in 0 .. N |-> IF k = 0 THEN Got(<< >>) ELSE ByteStep(f[k - 1], str[k], max_len)]
           dst == CHOOSE f : Is(f)
<1>1. N \in Nat
  BY SequenceIs
<1>2. Got(<< >>) \in T
  <2>1. << >> \in Seq(S) /\ Len(<< >>) = 0
    BY EmptySeq
  <2> HIDE DEF S
  <2> QED
    BY <2>1 DEF Got
<1>3. ASSUME NEW k \in 1 .. N, NEW x \in T PROVE ByteStep(x, str[k], max_len) \in T
  <2>1. str[k].hex \in S
    OBVIOUS
  <2> HIDE DEF S
  <2>2. x \in [rc : {"ok", "SYS_EINVAL", "-1"}, val : Seq(S)] /\ Len(x.val) <= max_len /\ Len(x.val) \in Nat
    BY LenProperties
  <2>3. /\ Append(x.val, str[k].hex) \in Seq(S)
        /\ Len(Append(x.val, str[k].hex)) = Len(x.val) + 1
    BY <2>1, <2>2, AppendProperties
  <2>4. CASE x.rc # "ok" \/ IsSep(str[k])
    BY <2>4 DEF ByteStep
  <2>5. CASE ~(x.rc # "ok" \/ IsSep(str[k])) /\ TooMany(Len(x.val), max_len)
    <3> DEFINE y == [rc |-> "SYS_EINVAL", val |-> x.val]
    <3>1. ByteStep(x, str[k], max_len) = y
      BY <2>5 DEF ByteStep
    <3>2. y \in T
      BY <2>2
    <3> QED
      BY <3>1, <3>2
  <2>6. CASE ~(x.rc # "ok" \/ IsSep(str[k])) /\ ~TooMany(Len(x.val), max_len) /\ ~IsHex(str[k])
    <3> DEFINE y == [rc |-> "-1", val |-> x.val]
    <3>1. ByteStep(x, str[k], max_len) = y
      BY <2>6 DEF ByteStep
    <3>2. y \in T
      BY <2>2
    <3> QED
      BY <3>1, <3>2
  <2>7. CASE ~(x.rc # "ok" \/ IsSep(str[k])) /\ ~TooMany(Len(x.val), max_len) /\ IsHex(str[k])
    <3> DEFINE y == [rc |-> "ok", val |-> Append(x.val, str[k].hex)]
    <3>1. ByteStep(x, str[k], max_len) = y
      BY <2>7 DEF ByteStep, Got
    <3>2. Len(x.val) + 1 <= max_len
      BY <2>2, <2>7 DEF TooMany
    <3>3. y \in T
      BY <2>3, <3>2
    <3> QED
      BY <3>1, <3>3
  <2> QED
    BY <2>4, <2>5, <2>6, <2>7
<1>4. PICK f : Rounds(f, N, Got(<< >>), F) /\ \A k \in 0 .. N : f[k] \in T
  <2> HIDE DEF T
  <2>1. \A k \in 1 .. N : \A x \in T : F[k][x] \in T
    BY <1>3
  <2> HIDE DEF F, N
  <2> QED
    BY <1>1, <1>2, <2>1, LoopRuns
<1>5. Is(f)
  <2> HIDE DEF T
  <2>1. \A k \in 0 .. N : k # 0 => k \in 1 .. N /\ k - 1 \in 0 .. N
    BY <1>1
  <2>2. \A k \in 0 .. N : k # 0 => F[k][f[k - 1]] = ByteStep(f[k - 1], str[k], max_len)
    BY <1>4, <2>1
  <2> HIDE DEF F, N
  <2> QED
    BY <1>4, <2>2 DEF Rounds
<1>6. Is(dst)
  BY <1>5, Zenon
<1>7. ParseByteStream(str, max_len) = dst[N]
  BY Zenon DEF ParseByteStream
<1> HIDE DEF dst
<1>8. \A k \in 0 .. N : dst[k] \in T
  <2> DEFINE A == {k \in 0 .. N : dst[k] \in T}
  <2> HIDE DEF T
  <2>1. 0 \in A
    BY <1>1, <1>2, <1>6
  <2>2. ASSUME NEW n \in 0 .. N - 1, n \in A PROVE n + 1 \in A
    <3>1. n + 1 \in 1 .. N /\ n + 1 \in 0 .. N /\ (n + 1) - 1 = n /\ n + 1 # 0
      BY <1>1
    <3>2. dst[n + 1] = ByteStep(dst[n], str[n + 1], max_len)
      BY <1>6, <3>1
    <3> QED
      BY <1>3, <2>2, <3>1, <3>2
  <2>3. \A n \in 0 .. N : n \in A
    <3> HIDE DEF A
    <3> QED
      BY <1>1, <2>1, <2>2, UpTo
  <2> QED
    BY <2>3
<1>9. \A k \in 0 .. N : IsSequence(dst[k].val) /\ Len(dst[k].val) <= max_len
  <2> SUFFICES ASSUME NEW k \in 0 .. N PROVE IsSequence(dst[k].val) /\ Len(dst[k].val) <= max_len
    OBVIOUS
  <2>1. dst[k].val \in Seq(S) /\ Len(dst[k].val) <= max_len
    <3>1. dst[k] \in T
      BY <1>8
    <3> HIDE DEF S
    <3> QED
      BY <3>1
  <2> HIDE DEF S
  <2> QED
    BY <2>1, IsIn
<1>10. /\ dst[0] = Got(<< >>)
       /\ \A k \in 1 .. N : dst[k] = ByteStep(dst[k - 1], str[k], max_len)
  <2>1. 0 \in 0 .. N /\ \A k \in 1 .. N : k \in 0 .. N /\ k # 0
    BY <1>1
  <2> HIDE DEF N
  <2> QED
    BY <1>6, <2>1
<1> QED
  BY <1>7, <1>9, <1>10

\* What is read fits.
LEMMA ParsedFits ==
  ASSUME NEW str, IsSequence(str), NEW max_len \in Nat
  PROVE  IsSequence(ParseByteStream(str, max_len).val) /\ Len(ParseByteStream(str, max_len).val) <= max_len
<1>1. PICK dst : /\ \A k \in 0 .. Len(str) : IsSequence(dst[k].val) /\ Len(dst[k].val) <= max_len
                 /\ ParseByteStream(str, max_len) = dst[Len(str)]
  BY ParseLoop
<1>2. Len(str) \in 0 .. Len(str)
  BY SequenceIs
<1> QED
  BY <1>1, <1>2

\* Bytes with separators between them are read as they are.
LEMMA ParsedBack ==
  ASSUME NEW bytes, IsSequence(bytes), NEW max_len \in Nat, Len(bytes) <= max_len
  PROVE  ParseByteStream(WithColons(bytes), max_len) = Got(bytes)
<1> DEFINE L == Len(bytes)
           N == 2 * L - 1
           str == WithColons(bytes)
           First(n) == [k \in 1 .. n |-> bytes[k]]
<1>0. L \in Nat /\ (L # 0 => N \in Nat)
  BY SequenceIs
<1>a. CASE L = 0
  <2>1. bytes = << >>
    BY <1>a DEF IsSequence
  <2>2. str = [k \in 1 .. 0 |-> str[k]]
    <3>1. N = -1
      BY <1>a
    <3>2. 1 .. -1 = {} /\ 1 .. 0 = {}
      OBVIOUS
    <3> QED
      BY <3>1, <3>2 DEF WithColons
  <2> HIDE DEF str
  <2>3. IsSequence(str) /\ Len(str) = 0
    BY <2>2, MadeSequence
  <2>4. PICK dst : dst[0] = Got(<< >>) /\ ParseByteStream(str, max_len) = dst[Len(str)]
    BY <2>3, ParseLoop
  <2> QED
    BY <2>1, <2>3, <2>4 DEF str
<1>b. CASE L # 0
  <2>1. IsSequence(str) /\ Len(str) = N
    <3>1. str = [k \in 1 .. N |-> str[k]]
      BY DEF WithColons
    <3> HIDE DEF str, N
    <3> QED
      BY <1>0, <1>b, <3>1, MadeSequence
  <2>2. /\ \A k \in 1 .. N : k % 2 = 1 => str[k] = Hex(bytes[(k + 1) \div 2])
        /\ \A k \in 1 .. N : k % 2 # 1 => str[k] = Sep(":")
    BY DEF WithColons
  <2>3. \A b : ~IsSep(Hex(b)) /\ IsHex(Hex(b)) /\ Hex(b).hex = b
    BY DEF IsSep, IsHex, Hex
  <2>4. IsSep(Sep(":"))
    BY DEF IsSep, Sep
  <2> HIDE DEF str
  <2>5. PICK dst : /\ dst[0] = Got(<< >>)
                   /\ \A k \in 1 .. N : dst[k] = ByteStep(dst[k - 1], str[k], max_len)
                   /\ ParseByteStream(str, max_len) = dst[N]
    BY <2>1, ParseLoop
  <2> DEFINE A == {k \in 0 .. N : dst[k] = Got(First((k + 1) \div 2))}
  <2>6. 0 \in A
    <3>1. First(0) = << >> /\ (0 + 1) \div 2 = 0 /\ 0 \in 0 .. N
      BY <1>0, <1>b
    <3> QED
      BY <2>5, <3>1
  <2>7. ASSUME NEW n \in 0 .. N - 1, n \in A PROVE n + 1 \in A
    <3>1. n + 1 \in 1 .. N /\ n + 1 \in 0 .. N /\ (n + 1) - 1 = n
      BY <1>0, <1>b
    <3>2. dst[n + 1] = ByteStep(Got(First((n + 1) \div 2)), str[n + 1], max_len)
      <4> HIDE DEF First, N
      <4> QED
        BY <2>5, <2>7, <3>1
    <3>3. CASE (n + 1) % 2 = 1
      <4> DEFINE m == (n + 1) \div 2
      <4>1. m \in Nat /\ (n + 2) \div 2 = m + 1 /\ m + 1 \in 1 .. L
        BY <1>0, <1>b, <3>3
      <4>2. ((n + 1) + 1) \div 2 = m + 1
        BY <4>1
      <4> HIDE DEF m
      <4>3. str[n + 1] = Hex(bytes[m + 1])
        BY <2>2, <3>1, <3>3, <4>2
      <4>4. IsSequence(First(m)) /\ Len(First(m)) = m
        <5>1. First(m) = [k \in 1 .. m |-> First(m)[k]]
          OBVIOUS
        <5> HIDE DEF First
        <5> QED
          BY <4>1, <5>1, MadeSequence
      <4>5. Append(First(m), bytes[m + 1]) = First(m + 1)
        <5> DEFINE s == Append(First(m), bytes[m + 1])
                   t == First(m + 1)
        <5>1. t = [k \in 1 .. m + 1 |-> t[k]] /\ m + 1 \in Nat
          BY <4>1
        <5>2. IsSequence(t) /\ Len(t) = m + 1
          <6> HIDE DEF t
          <6> QED
            BY <5>1, MadeSequence
        <5>3. \A k \in 1 .. m : t[k] = First(m)[k]
          BY <4>1
        <5>4. t[m + 1] = bytes[m + 1]
          BY <4>1
        <5> HIDE DEF First, t
        <5>5. /\ IsSequence(s) /\ Len(s) = m + 1
              /\ \A k \in 1 .. m : s[k] = First(m)[k]
              /\ s[m + 1] = bytes[m + 1]
          BY <4>4, Appended
        <5> HIDE DEF s
        <5>6. \A k \in 1 .. m + 1 : s[k] = t[k]
          BY <4>1, <5>3, <5>4, <5>5
        <5>7. s = t
          BY <5>2, <5>5, <5>6, SameSequence
        <5> QED
          BY <5>7 DEF s, t
      <4>6. ~TooMany(m, max_len)
        <5> L \in Nat
          BY <1>0
        <5> HIDE DEF L
        <5> QED
          BY <4>1 DEF TooMany, L
      <4> HIDE DEF First
      <4>7. /\ Got(First(m)).rc = "ok" /\ Got(First(m)).val = First(m)
        BY DEF Got
      <4>8. dst[n + 1] = ByteStep(Got(First(m)), str[n + 1], max_len)
        BY <3>2 DEF m
      <4>9. dst[n + 1] = Got(First(m + 1))
        BY <2>3, <4>3, <4>4, <4>5, <4>6, <4>7, <4>8 DEF ByteStep
      <4> QED
        BY <3>1, <4>2, <4>9
    <3>4. CASE (n + 1) % 2 # 1
      <4> DEFINE m == (n + 1) \div 2
      <4>1. ((n + 1) + 1) \div 2 = m
        BY <1>0, <1>b, <3>4
      <4> HIDE DEF m
      <4>3. str[n + 1] = Sep(":")
        BY <2>2, <3>1, <3>4
      <4>4. dst[n + 1] = Got(First(m))
        <5> HIDE DEF First
        <5> QED
          BY <2>4, <3>2, <4>3 DEF ByteStep, m
      <4> QED
        BY <3>1, <4>1, <4>4
    <3> QED
      BY <3>3, <3>4
  <2>8. \A n \in 0 .. N : n \in A
    <3> N \in Nat
      BY <1>0, <1>b
    <3> HIDE DEF A, N
    <3> QED
      BY <2>6, <2>7, UpTo
  <2>9. N \in 0 .. N /\ (N + 1) \div 2 = L
    BY <1>0, <1>b
  <2>10. First(L) = bytes
    BY DEF IsSequence
  <2> HIDE DEF First
  <2>11. dst[N] = Got(First(L))
    BY <2>8, <2>9
  <2> QED
    BY <2>5, <2>10, <2>11 DEF str
<1> QED
  BY <1>a, <1>b

\* One value behind a sequence.
LEMMA PutBehind ==
  ASSUME NEW s, NEW x, IsSequence(s)
  PROVE  /\ IsSequence(s \o << x >>) /\ Len(s \o << x >>) = Len(s) + 1
         /\ \A k \in 1 .. Len(s) : (s \o << x >>)[k] = s[k]
         /\ (s \o << x >>)[Len(s) + 1] = x
<1> DEFINE S == {s[k] : k \in 1 .. Len(s)} \cup {x}
<1>1. s \in Seq(S)
  <2> DEFINE A == {s[k] : k \in 1 .. Len(s)}
  <2>1. A \subseteq S
    OBVIOUS
  <2>2. s \in Seq(A)
    BY SequenceIs
  <2> HIDE DEF A, S
  <2> QED
    BY <2>1, <2>2, SeqMonotonic
<1>2. x \in S
  OBVIOUS
<1> HIDE DEF S
<1> DEFINE t == s \o << x >>
<1>3. t = Append(s, x)
  BY <1>1, <1>2, AppendIsConcat
<1>4. /\ IsSequence(Append(s, x)) /\ Len(Append(s, x)) = Len(s) + 1
      /\ \A k \in 1 .. Len(s) : Append(s, x)[k] = s[k]
      /\ Append(s, x)[Len(s) + 1] = x
  BY Appended
<1> HIDE DEF t
<1>5. /\ IsSequence(t) /\ Len(t) = Len(s) + 1
      /\ \A k \in 1 .. Len(s) : t[k] = s[k]
      /\ t[Len(s) + 1] = x
  BY <1>3, <1>4
<1> QED
  BY <1>5 DEF t

\* The buffer of bhd_json_create_byte_string() has room for all bytes: the text has every
\* byte, and a colon between any two.
LEMMA HexStrWhole ==
  ASSUME NEW src, IsSequence(src)
  PROVE  ByteString(src) = WithColons(src)
<1> DEFINE L == Len(src)
           Text(k) == [j \in 1 .. 2 * k - 1 |-> IF j % 2 = 1 THEN Hex(src[(j + 1) \div 2]) ELSE Sep(":")]
           Rem(k) == IF k = 0 THEN L * 5 + 1 ELSE (L - k) * 5 + 2
           Out(k) == [text |-> Text(k), rem |-> Rem(k), full |-> FALSE]
           Start == [text |-> << >>, rem |-> HexRoom(L), full |-> FALSE]
           Is(f) == f = [k \in 0 .. L |-> IF k = 0 THEN Start ELSE HexStep(f[k - 1], src[k])]
           dst == CHOOSE f : Is(f)
<1>0. L \in Nat
  BY SequenceIs
<1>1. Out(0) = Start
  <2>1. Text(0) = << >>
    OBVIOUS
  <2> QED
    BY <2>1 DEF HexRoom
<1>2. ASSUME NEW k \in 1 .. L
      PROVE  Out(k) = HexStep(Out(k - 1), src[k])
  <2>0. k - 1 \in Nat /\ k \in Nat /\ L - k \in Nat
    BY <1>0
  <2>1. CASE k = 1
    <3>1. Text(k - 1) = << >> /\ Rem(k - 1) = L * 5 + 1 /\ Rem(k) = L * 5 - 3
      BY <1>0, <2>1
    <3>2. << >> \o << >> \o << Hex(src[k]) >> = Text(k)
      <4>1. << >> \o << >> \o << Hex(src[k]) >> = << Hex(src[k]) >>
        OBVIOUS
      <4>2. Text(1) = << Hex(src[1]) >>
        OBVIOUS
      <4> QED
        BY <2>1, <4>1, <4>2
    <3>3. Len(<< >>) = 0
      OBVIOUS
    <3> HIDE DEF Text, Rem
    <3>4. ~(4 + Len(<< >>) >= Rem(k - 1)) /\ Rem(k - 1) - (4 + Len(<< >>)) = Rem(k)
      BY <1>0, <2>1, <3>1, <3>3
    <3> QED
      BY <3>1, <3>2, <3>4 DEF HexStep
  <2>2. CASE k # 1
    <3>0. k - 1 \in 1 .. L
      BY <1>0, <2>2
    <3>1. IsSequence(Text(k - 1)) /\ Len(Text(k - 1)) = 2 * (k - 1) - 1
      <4> DEFINE t == Text(k - 1)
                 n == 2 * (k - 1) - 1
      <4>1. t = [j \in 1 .. n |-> t[j]] /\ n \in Nat
        BY <3>0
      <4> HIDE DEF t, n
      <4>2. IsSequence(t) /\ Len(t) = n
        BY <4>1, MadeSequence
      <4> QED
        BY <4>2 DEF t, n
    <3>2. Text(k - 1) # << >>
      <4> HIDE DEF Text
      <4>1. Len(<< >>) = 0
        OBVIOUS
      <4> QED
        BY <3>0, <3>1, <4>1
    <3>3. Text(k - 1) \o << Sep(":") >> \o << Hex(src[k]) >> = Text(k)
      <4> DEFINE s == Text(k - 1)
                 n == 2 * (k - 1) - 1
                 u == s \o << Sep(":") >>
                 v == u \o << Hex(src[k]) >>
                 t == Text(k)
      <4>1. /\ n \in Nat /\ 2 * k - 1 = n + 2 /\ (n + 1) % 2 # 1 /\ (n + 2) % 2 = 1
            /\ (n + 3) \div 2 = k /\ (n + 2) + 1 = n + 3
        BY <2>0, <3>0
      <4>2. t = [j \in 1 .. n + 2 |-> t[j]] /\ (\A j \in 1 .. n : t[j] = s[j])
        BY <4>1
      <4>3. t[n + 1] = Sep(":") /\ t[n + 2] = Hex(src[k])
        <5>1. n + 1 \in 1 .. 2 * k - 1 /\ n + 2 \in 1 .. 2 * k - 1 /\ ((n + 2) + 1) \div 2 = k
          BY <4>1
        <5> HIDE DEF n
        <5> QED
          BY <4>1, <5>1
      <4> HIDE DEF t
      <4>4. IsSequence(t) /\ Len(t) = n + 2
        <5>1. n + 2 \in Nat
          BY <4>1
        <5> HIDE DEF n
        <5> QED
          BY <4>2, <5>1, MadeSequence
      <4>5. IsSequence(s) /\ Len(s) = n
        BY <3>1
      <4> HIDE DEF s, n
      <4>6. /\ IsSequence(u) /\ Len(u) = n + 1
            /\ \A j \in 1 .. n : u[j] = s[j]
            /\ u[n + 1] = Sep(":")
        BY <4>5, PutBehind
      <4> HIDE DEF u
      <4>7. /\ IsSequence(v) /\ Len(v) = (n + 1) + 1
            /\ \A j \in 1 .. n + 1 : v[j] = u[j]
            /\ v[(n + 1) + 1] = Hex(src[k])
        BY <4>6, PutBehind
      <4> HIDE DEF v
      <4>8. (n + 1) + 1 = n + 2 /\ n + 1 \in 1 .. n + 1 /\ \A j \in 1 .. n + 2 : j \in 1 .. n \/ j = n + 1 \/ j = n + 2
        BY <4>1
      <4>8a. \A j \in 1 .. n : j \in 1 .. n + 1
        BY <4>1
      <4>9. \A j \in 1 .. n + 2 : v[j] = t[j]
        BY <4>2, <4>3, <4>6, <4>7, <4>8, <4>8a
      <4>10. v = t
        BY <4>4, <4>7, <4>8, <4>9, SameSequence
      <4> QED
        BY <4>10 DEF v, u, s, t
    <3>4. Len(<< Sep(":") >>) = 1
      OBVIOUS
    <3>5. Rem(k - 1) = (L - k) * 5 + 7 /\ Rem(k) = (L - k) * 5 + 2
      BY <1>0, <2>0, <2>2, <3>0
    <3> HIDE DEF Text, Rem
    <3>6. ~(4 + Len(<< Sep(":") >>) >= Rem(k - 1)) /\ Rem(k - 1) - (4 + Len(<< Sep(":") >>)) = Rem(k)
      <4> DEFINE d == L - k
      <4>1. d \in Nat
        BY <2>0
      <4> HIDE DEF d
      <4>2. ~(5 >= d * 5 + 7) /\ (d * 5 + 7) - 5 = d * 5 + 2
        BY <4>1
      <4> QED
        BY <3>4, <3>5, <4>2 DEF d
    <3> QED
      BY <3>2, <3>3, <3>6 DEF HexStep
  <2> QED
    BY <2>1, <2>2
<1>3. Is([k \in 0 .. L |-> Out(k)])
  <2> HIDE DEF Out, Start
  <2>1. \A k \in 0 .. L : k # 0 => k \in 1 .. L /\ k - 1 \in 0 .. L
    BY <1>0
  <2> HIDE DEF L
  <2> QED
    BY <1>1, <1>2, <2>1
<1>4. Is(dst)
  BY <1>3, Zenon
<1>5. HexStr(src, HexRoom(L)) = dst[L].text
  BY Zenon DEF HexStr
<1> HIDE DEF dst
<1>6. \A k \in 0 .. L : k \in {n \in 0 .. L : dst[n] = Out(n)}
  <2> HIDE DEF Out, Start
  <2> DEFINE S == {n \in 0 .. L : dst[n] = Out(n)}
  <2>1. 0 \in S
    BY <1>0, <1>1, <1>4
  <2>2. ASSUME NEW n \in 0 .. L - 1, n \in S PROVE n + 1 \in S
    <3>1. n + 1 \in 1 .. L /\ n + 1 \in 0 .. L /\ (n + 1) - 1 = n /\ n + 1 # 0
      BY <1>0
    <3>2. dst[n + 1] = HexStep(dst[n], src[n + 1])
      BY <1>4, <3>1
    <3> QED
      BY <1>2, <2>2, <3>1, <3>2
  <2> HIDE DEF S
  <2>3. \A n \in 0 .. L : n \in S
    BY <1>0, <2>1, <2>2, UpTo
  <2> QED
    BY <2>3 DEF S
<1>7. dst[L] = Out(L) /\ L \in 0 .. L
  BY <1>0, <1>6
<1>8. Out(L).text = WithColons(src)
  BY DEF WithColons
<1> QED
  BY <1>5, <1>7, <1>8 DEF ByteString

-----------------------------------------------------------------------------
(* Addresses.                                                              *)

\* parse_reverse_bytes() twice gives the bytes as they were.
LEMMA Reversed ==
  ASSUME NEW s, IsSequence(s)
  PROVE  /\ IsSequence(Reverse(s)) /\ Len(Reverse(s)) = Len(s)
         /\ Reverse(Reverse(s)) = s
<1> DEFINE N == Len(s)
           r == Reverse(s)
<1>0. N \in Nat
  BY SequenceIs
<1>1. r = [k \in 1 .. N |-> s[(N - k) + 1]]
  BY DEF Reverse
<1> HIDE DEF r, N
<1>2. r = [k \in 1 .. N |-> r[k]]
  BY <1>1
<1>3. IsSequence(r) /\ Len(r) = N
  BY <1>0, <1>2, MadeSequence
<1>4. \A k \in 1 .. N : (N - k) + 1 \in 1 .. N /\ (N - ((N - k) + 1)) + 1 = k
  BY <1>0
<1>5. Reverse(r) = [k \in 1 .. N |-> r[(N - k) + 1]]
  BY <1>3 DEF Reverse
<1>6. Reverse(r) = [k \in 1 .. N |-> s[k]]
  BY <1>1, <1>4, <1>5
<1>7. s = [k \in 1 .. N |-> s[k]]
  BY DEF IsSequence, N
<1> QED
  BY <1>3, <1>6, <1>7 DEF r, N

\* An address that is written is read as it was.
LEMMA AddrBack ==
  ASSUME NEW addr, IsSequence(addr), Len(addr) = 6
  PROVE  JsonAddr(Str(AddrStr(addr))) = Got(addr)
<1> DEFINE rev == Reverse(addr)
<1>1. IsSequence(rev) /\ Len(rev) = 6 /\ Reverse(rev) = addr
  BY Reversed
<1> HIDE DEF rev
<1>1a. 6 \in Nat /\ Len(rev) <= 6
  BY <1>1
<1>2. ParseByteStream(WithColons(rev), 6) = Got(rev)
  BY <1>1, <1>1a, ParsedBack
<1>3. \A x : Got(x).rc = "ok" /\ Got(x).val = x
  BY DEF Got
<1>4. ParseExactLength(WithColons(rev), 6) = Got(rev)
  BY <1>1, <1>2, <1>3 DEF ParseExactLength
<1>5. ParseMac(WithColons(rev)) = Got(addr)
  BY <1>1, <1>3, <1>4 DEF ParseMac
<1>6. \A x : IsStr(Str(x)) /\ Str(x).str = x
  BY DEF IsStr, Str
<1> QED
  BY <1>5, <1>6 DEF JsonAddr, AddrStr, rev

\* What is read as an address has six bytes.
LEMMA AddrRead ==
  ASSUME NEW item, IsStr(item) => IsSequence(item.str), JsonAddr(item).rc = "ok"
  PROVE  IsSequence(JsonAddr(item).val) /\ Len(JsonAddr(item).val) = 6
<1>0. \A rc : Failed(rc).rc = rc
  BY DEF Failed
<1>0a. \A x : Got(x).rc = "ok" /\ Got(x).val = x
  BY DEF Got
<1>1. IsStr(item)
  BY <1>0 DEF JsonAddr
<1> DEFINE r == ParseByteStream(item.str, 6)
           e == ParseExactLength(item.str, 6)
<1>2. IsSequence(r.val)
  BY <1>1, ParsedFits
<1>3. JsonAddr(item) = ParseMac(item.str)
  BY <1>1 DEF JsonAddr
<1>4. e.rc = "ok" /\ JsonAddr(item) = Got(Reverse(e.val))
  BY <1>0, <1>0a, <1>3 DEF ParseMac
<1>5. e = r /\ Len(r.val) = 6
  BY <1>0, <1>4 DEF ParseExactLength
<1> HIDE DEF r, e
<1> QED
  BY <1>0a, <1>2, <1>4, <1>5, Reversed

\* bhd_json_arr_gen() keeps the first element that can be read.
LEMMA FirstIsRead ==
  ASSUME NEW item, IsArr(item), NEW read, IsSequence(read), NEW max_elems, max_elems # 0
  PROVE  LET good == {k \in 1 .. Len(read) : read[k].rc = "ok"}
         IN ArrGen(item, read, max_elems) = Got(IF good = {} THEN << >> ELSE << read[Min(good)].val >>)
<1> DEFINE N == Len(read)
           V(n) == {i \in 1 .. n : read[i].rc = "ok"}
           First(n) == IF V(n) = {} THEN << >> ELSE << read[Min(V(n))].val >>
           Step(x, n) == IF x # << >> \/ max_elems = 0 \/ read[n].rc # "ok" THEN x ELSE << read[n].val >>
           Is(f) == f = [n \in 0 .. N |-> IF n = 0 THEN << >> ELSE Step(f[n - 1], n)]
           g == CHOOSE f : Is(f)
<1>0. N \in Nat
  BY SequenceIs
<1>1. First(0) = << >>
  OBVIOUS
<1>2. ASSUME NEW n \in 1 .. N
      PROVE  First(n) = Step(First(n - 1), n)
  <2>1. n - 1 \in Nat /\ \A i \in 1 .. n : i \in 1 .. n - 1 \/ i = n
    OBVIOUS
  <2>2. CASE V(n - 1) # {}
    <3>1. V(n - 1) \in SUBSET Nat /\ V(n) \in SUBSET Nat
      OBVIOUS
    <3>2. Min(V(n - 1)) \in V(n - 1) /\ \A y \in V(n - 1) : Min(V(n - 1)) <= y
      <4> HIDE DEF V
      <4> QED
        BY <2>2, <3>1, LeastOf
    <3>3. Min(V(n - 1)) \in V(n) /\ \A y \in V(n) : Min(V(n - 1)) <= y
      <4> DEFINE x == Min(V(n - 1))
      <4> HIDE DEF x
      <4>1. x \in V(n - 1) /\ \A y \in V(n - 1) : x <= y
        BY <3>2 DEF x
      <4>2. x \in V(n) /\ \A y \in V(n) : x <= y
        BY <2>1, <4>1
      <4> QED
        BY <4>2 DEF x
    <3>4. Min(V(n)) = Min(V(n - 1))
      <4> HIDE DEF V
      <4> QED
        BY <3>1, <3>3, LeastIs
    <3>5. V(n) # {} /\ First(n - 1) # << >>
      <4>1. V(n) # {}
        BY <3>3
      <4>2. << read[Min(V(n - 1))].val >> # << >>
        OBVIOUS
      <4> HIDE DEF V
      <4> QED
        BY <2>2, <4>1, <4>2
    <3> HIDE DEF V
    <3> QED
      BY <2>2, <3>4, <3>5
  <2>3. CASE V(n - 1) = {} /\ read[n].rc # "ok"
    <3>1. V(n) = {}
      BY <2>1, <2>3
    <3> HIDE DEF V
    <3> QED
      BY <2>3, <3>1
  <2>4. CASE V(n - 1) = {} /\ read[n].rc = "ok"
    <3>1. V(n) = {n}
      BY <2>1, <2>4
    <3>2. Min({n}) = n
      BY LeastIs
    <3>3. First(n - 1) = << >> /\ First(n) = << read[n].val >>
      <4> HIDE DEF V
      <4> QED
        BY <2>4, <3>1, <3>2
    <3> HIDE DEF First
    <3> QED
      BY <2>4, <3>3
  <2> QED
    BY <2>2, <2>3, <2>4
<1>3. Is([n \in 0 .. N |-> First(n)])
  <2> HIDE DEF First, Step
  <2>1. \A n \in 0 .. N : n # 0 => n \in 1 .. N /\ n - 1 \in 0 .. N
    OBVIOUS
  <2> QED
    BY <1>1, <1>2, <2>1
<1>4. Is(g)
  BY <1>3, Zenon
<1>5. ArrGen(item, read, max_elems) = Got(g[N])
  BY Zenon DEF ArrGen
<1> HIDE DEF g
<1>6. \A n \in 0 .. N : n \in {k \in 0 .. N : g[k] = First(k)}
  <2> HIDE DEF First, Step
  <2> DEFINE S == {k \in 0 .. N : g[k] = First(k)}
  <2>1. 0 \in S
    BY <1>1, <1>4
  <2>2. ASSUME NEW n \in 0 .. N - 1, n \in S PROVE n + 1 \in S
    <3>1. n + 1 \in 1 .. N /\ n + 1 \in 0 .. N /\ (n + 1) - 1 = n /\ n + 1 # 0
      OBVIOUS
    <3>2. g[n + 1] = Step(g[n], n + 1)
      BY <1>4, <3>1
    <3> QED
      BY <1>2, <2>2, <3>1, <3>2
  <2> HIDE DEF S
  <2>3. \A n \in 0 .. N : n \in S
    BY <2>1, <2>2, UpTo
  <2> QED
    BY <2>3 DEF S
<1>7. N \in 0 .. N
  BY <1>0
<1>8. ArrGen(item, read, max_elems) = Got(First(N))
  BY <1>5, <1>6, <1>7
<1> QED
  BY <1>8

-----------------------------------------------------------------------------
(* UUIDs of 128 bits.                                                      *)

\* One value in front of a sequence.
LEMMA PutInFront ==
  ASSUME NEW s, NEW x, IsSequence(s)
  PROVE  /\ IsSequence(<< x >> \o s) /\ Len(<< x >> \o s) = Len(s) + 1
         /\ (<< x >> \o s)[1] = x
         /\ \A k \in 1 .. Len(s) : (<< x >> \o s)[k + 1] = s[k]
<1> DEFINE S == {s[k] : k \in 1 .. Len(s)}
           T == S \cup {x}
           t == << x >> \o s
<1>1. s \in Seq(S) /\ Len(s) \in Nat
  BY SequenceIs
<1>2. s \in Seq(T) /\ << x >> \in Seq(T)
  <2>1. S \subseteq T /\ x \in T
    OBVIOUS
  <2> HIDE DEF S, T
  <2> QED
    BY <1>1, <2>1
<1>3. /\ t \in Seq(T) /\ Len(t) = Len(<< x >>) + Len(s)
      /\ \A k \in 1 .. Len(<< x >>) + Len(s) :
           t[k] = IF k <= Len(<< x >>) THEN << x >>[k] ELSE s[k - Len(<< x >>)]
  <2> HIDE DEF T
  <2> QED
    BY <1>2, ConcatProperties
<1>4. Len(<< x >>) = 1 /\ << x >>[1] = x
  OBVIOUS
<1> HIDE DEF T, S, t
<1>5. Len(t) = Len(s) + 1 /\ t[1] = x
  BY <1>1, <1>3, <1>4
<1>6. \A k \in 1 .. Len(s) : t[k + 1] = s[k]
  <2> SUFFICES ASSUME NEW k \in 1 .. Len(s) PROVE t[k + 1] = s[k]
    OBVIOUS
  <2>1. k + 1 \in 1 .. 1 + Len(s) /\ ~(k + 1 <= 1) /\ (k + 1) - 1 = k
    BY <1>1
  <2> QED
    BY <1>3, <1>4, <2>1
<1>7. IsSequence(t)
  BY <1>3, IsIn
<1> QED
  BY <1>5, <1>6, <1>7 DEF t

UuidStart == [rc |-> "ok", i |-> 0, val |-> << >>]

\* The loop over the characters.
LEMMA UuidLoop ==
  ASSUME NEW str, IsSequence(str)
  PROVE  \E dst : /\ dst[0] = UuidStart
                  /\ \A k \in 1 .. Len(str) : dst[k] = Uuid128Step(dst[k - 1], str[k])
                  /\ \A k \in 0 .. Len(str) : IsSequence(dst[k].val)
                  /\ Uuid128(str) = dst[Len(str)]
<1> DEFINE N == Len(str)
           S == {str[k].hex : k \in 1 .. N}
           T == [rc : {"ok", "SYS_ERANGE"}, i : Nat, val : Seq(S)]
           F == [k \in 1 .. N |-> [x \in T |-> Uuid128Step(x, str[k])]]
           Is(f) == f = [k \in 0 .. N |-> IF k = 0 THEN UuidStart ELSE Uuid128Step(f[k - 1], str[k])]
           dst == CHOOSE f : Is(f)
<1>1. N \in Nat
  BY SequenceIs
<1>2. UuidStart \in T
  <2>1. << >> \in Seq(S)
    BY EmptySeq
  <2> HIDE DEF S
  <2> QED
    BY <2>1 DEF UuidStart
<1>3. ASSUME NEW k \in 1 .. N, NEW x \in T PROVE Uuid128Step(x, str[k]) \in T
  <2> DEFINE p == str[k]
             v == << p.hex >> \o x.val
  <2>1. p.hex \in S
    OBVIOUS
  <2> HIDE DEF S, p
  <2>2. v \in Seq(S)
    BY <2>1
  <2> HIDE DEF v
  <2>3. x.i + 1 \in Nat /\ x.i + 2 \in Nat
    OBVIOUS
  <2>4. \A i \in Nat : \A s \in Seq(S) : [rc |-> "ok", i |-> i, val |-> s] \in T
    OBVIOUS
  <2>5. [rc |-> "SYS_ERANGE", i |-> x.i, val |-> x.val] \in T
    OBVIOUS
  <2>6. x.i \in Nat /\ x.val \in Seq(S)
    OBVIOUS
  <2> HIDE DEF T
  <2>7. \/ Uuid128Step(x, p) = x
        \/ Uuid128Step(x, p) = [rc |-> "SYS_ERANGE", i |-> x.i, val |-> x.val]
        \/ Uuid128Step(x, p) = [rc |-> "ok", i |-> x.i + 1, val |-> x.val]
        \/ Uuid128Step(x, p) = [rc |-> "ok", i |-> x.i + 2, val |-> v]
    BY Zenon DEF Uuid128Step, v
  <2> QED
    BY <2>2, <2>3, <2>4, <2>5, <2>6, <2>7 DEF p
<1>4. PICK f : Rounds(f, N, UuidStart, F) /\ \A k \in 0 .. N : f[k] \in T
  <2> HIDE DEF T
  <2>1. \A k \in 1 .. N : \A x \in T : F[k][x] \in T
    BY <1>3
  <2> HIDE DEF F, N
  <2> QED
    BY <1>1, <1>2, <2>1, LoopRuns
<1>5. Is(f)
  <2> HIDE DEF T
  <2>1. \A k \in 0 .. N : k # 0 => k \in 1 .. N /\ k - 1 \in 0 .. N
    BY <1>1
  <2>2. \A k \in 0 .. N : k # 0 => F[k][f[k - 1]] = Uuid128Step(f[k - 1], str[k])
    BY <1>4, <2>1
  <2> HIDE DEF F, N
  <2> QED
    BY <1>4, <2>2 DEF Rounds
<1>6. Is(dst)
  BY <1>5, Zenon
<1>7. Uuid128(str) = dst[N]
  BY Zenon DEF Uuid128, UuidStart
<1> HIDE DEF dst
<1>8. \A k \in 0 .. N : dst[k] \in T
  <2> DEFINE A == {k \in 0 .. N : dst[k] \in T}
  <2> HIDE DEF T
  <2>1. 0 \in A
    BY <1>1, <1>2, <1>6
  <2>2. ASSUME NEW n \in 0 .. N - 1, n \in A PROVE n + 1 \in A
    <3>1. n + 1 \in 1 .. N /\ n + 1 \in 0 .. N /\ (n + 1) - 1 = n /\ n + 1 # 0
      BY <1>1
    <3>2. dst[n + 1] = Uuid128Step(dst[n], str[n + 1])
      BY <1>6, <3>1
    <3> QED
      BY <1>3, <2>2, <3>1, <3>2
  <2>3. \A n \in 0 .. N : n \in A
    <3> HIDE DEF A
    <3> QED
      BY <1>1, <2>1, <2>2, UpTo
  <2> QED
    BY <2>3
<1>9. \A k \in 0 .. N : IsSequence(dst[k].val)
  <2> HIDE DEF S
  <2> QED
    BY <1>8, IsIn
<1>10. /\ dst[0] = UuidStart
       /\ \A k \in 1 .. N : dst[k] = Uuid128Step(dst[k - 1], str[k])
  <2>1. 0 \in 0 .. N /\ \A k \in 1 .. N : k \in 0 .. N /\ k # 0
    BY <1>1
  <2> HIDE DEF N
  <2> QED
    BY <1>6, <2>1
<1> QED
  BY <1>7, <1>9, <1>10

\* The characters of a text, piece by piece.
LEMMA CharsLoop ==
  ASSUME NEW str, IsSequence(str)
  PROVE  \E chars : /\ chars[0] = 0
                    /\ \A k \in 1 .. Len(str) : chars[k] = chars[k - 1] + (IF IsSep(str[k]) THEN 1 ELSE 2)
                    /\ \A k \in 0 .. Len(str) : chars[k] \in Nat
                    /\ CharsOf(str) = chars[Len(str)]
<1> DEFINE N == Len(str)
           W(k) == IF IsSep(str[k]) THEN 1 ELSE 2
           F == [k \in 1 .. N |-> [x \in Nat |-> x + W(k)]]
           Is(f) == f = [k \in 0 .. N |-> IF k = 0 THEN 0 ELSE f[k - 1] + W(k)]
           chars == CHOOSE f : Is(f)
<1>1. N \in Nat
  BY SequenceIs
<1>2. \A k \in 1 .. N : W(k) \in Nat
  OBVIOUS
<1>3. \A k \in 1 .. N : \A x \in Nat : F[k][x] \in Nat
  <2> HIDE DEF W
  <2> QED
    BY <1>2
<1>4. PICK f : Rounds(f, N, 0, F) /\ \A k \in 0 .. N : f[k] \in Nat
  <2> HIDE DEF F, N
  <2>1. 0 \in Nat
    OBVIOUS
  <2> QED
    BY <1>1, <1>3, <2>1, LoopRuns
<1>5. Is(f)
  <2> HIDE DEF W
  <2>1. \A k \in 0 .. N : k # 0 => k \in 1 .. N /\ k - 1 \in 0 .. N
    BY <1>1
  <2>2. \A k \in 0 .. N : k # 0 => F[k][f[k - 1]] = f[k - 1] + W(k)
    BY <1>4, <2>1
  <2> HIDE DEF F, N
  <2> QED
    BY <1>4, <2>2 DEF Rounds
<1>6. Is(chars)
  BY <1>5, Zenon
<1>7. CharsOf(str) = chars[N]
  BY Zenon DEF CharsOf
<1> HIDE DEF chars
<1>8. \A k \in 0 .. N : chars[k] \in Nat
  <2> DEFINE A == {k \in 0 .. N : chars[k] \in Nat}
  <2> HIDE DEF W
  <2>1. 0 \in A
    BY <1>1, <1>6
  <2>2. ASSUME NEW n \in 0 .. N - 1, n \in A PROVE n + 1 \in A
    <3>1. n + 1 \in 1 .. N /\ n + 1 \in 0 .. N /\ (n + 1) - 1 = n /\ n + 1 # 0
      BY <1>1
    <3>2. chars[n + 1] = chars[n] + W(n + 1)
      BY <1>6, <3>1
    <3> QED
      BY <1>2, <2>2, <3>1, <3>2
  <2>3. \A n \in 0 .. N : n \in A
    <3> HIDE DEF A
    <3> QED
      BY <1>1, <2>1, <2>2, UpTo
  <2> QED
    BY <2>3
<1>9. /\ chars[0] = 0
      /\ \A k \in 1 .. N : chars[k] = chars[k - 1] + W(k)
  <2>1. 0 \in 0 .. N /\ \A k \in 1 .. N : k \in 0 .. N /\ k # 0
    BY <1>1
  <2> HIDE DEF N, W
  <2> QED
    BY <1>6, <2>1
<1> QED
  BY <1>7, <1>8, <1>9

\* After k pieces of a UUID: n bytes are read, and it goes on at character i.
Reached(k, i, n) ==
  \/ k \in 0 .. 4 /\ n = k /\ i = 2 * n
  \/ k \in 5 .. 7 /\ n = k - 1 /\ i = 2 * n + 1
  \/ k \in 8 .. 10 /\ n = k - 2 /\ i = 2 * n + 2
  \/ k \in 11 .. 13 /\ n = k - 3 /\ i = 2 * n + 3
  \/ k \in 14 .. 20 /\ n = k - 4 /\ i = 2 * n + 4

\* The piece that has the h-th byte of the text.
PieceOf(h) ==
  IF h <= 4 THEN h ELSE IF h <= 6 THEN h + 1 ELSE IF h <= 8 THEN h + 2 ELSE IF h <= 10 THEN h + 3 ELSE h + 4

Fits(k, p) == IF k \in UuidDashes THEN p = Sep("-") ELSE IsHex(p)

\* One more piece of a UUID: the counters of the loop go on to the next place.
LEMMA ReachedMoves ==
  ASSUME NEW k \in 0 .. 19, NEW i, NEW n, Reached(k, i, n)
  PROVE  /\ i \in 0 .. 35 /\ n \in 0 .. 15
         /\ k + 1 \in UuidDashes <=> i \in DashAt
         /\ i \in DashAt => Reached(k + 1, i + 1, n)
         /\ i \notin DashAt => Reached(k + 1, i + 2, n + 1) /\ PieceOf(n + 1) = k + 1
<1>1. i \in 0 .. 35 /\ n \in 0 .. 15
  BY DEF Reached
<1>2. k + 1 \in UuidDashes <=> i \in DashAt
  BY DEF Reached, UuidDashes, DashAt
<1>3. CASE i \in DashAt
  <2>1. Reached(k + 1, i + 1, n)
    BY <1>3 DEF Reached, DashAt
  <2> QED
    BY <1>1, <1>2, <1>3, <2>1
<1>4. CASE i \notin DashAt
  <2>1. Reached(k + 1, i + 2, n + 1)
    BY <1>4 DEF Reached, DashAt
  <2>2. PieceOf(n + 1) = k + 1
    BY <1>4 DEF Reached, DashAt, PieceOf
  <2> QED
    BY <1>1, <1>2, <1>4, <2>1, <2>2
<1> QED
  BY <1>3, <1>4

\* After 20 pieces all 36 characters and 16 bytes were read.
LEMMA ReachedEnds ==
  ASSUME NEW i, NEW n, Reached(20, i, n)
  PROVE  i = 36 /\ n = 16
BY DEF Reached

\* Before that the loop has not ended.
LEMMA Below36 == \A i \in 0 .. 35 : i < 36 /\ ~(i >= 36)
OBVIOUS

\* A text is read as a UUID if it is one, and its bytes are those of the text.
LEMMA UuidSays ==
  ASSUME NEW str, IsText(str)
  PROVE  /\ Uuid128(str).rc = "ok" /\ ~(CharsOf(str) < 36) <=> IsUuid(str)
         /\ IsUuid(str) => /\ IsSequence(Uuid128(str).val) /\ Len(Uuid128(str).val) = 16
                           /\ \A h \in 1 .. 16 : Uuid128(str).val[17 - h] = str[PieceOf(h)].hex
<1> DEFINE N == Len(str)
<1>1. IsSequence(str) /\ N \in Nat /\ N \in 0 .. N /\ \A k \in 1 .. N : ~(IsHex(str[k]) /\ IsSep(str[k]))
  BY SequenceIs DEF IsText, IsPiece
<1>2. PICK chars : /\ chars[0] = 0
                   /\ \A k \in 1 .. N : chars[k] = chars[k - 1] + (IF IsSep(str[k]) THEN 1 ELSE 2)
                   /\ \A k \in 0 .. N : chars[k] \in Nat
                   /\ CharsOf(str) = chars[N]
  BY <1>1, CharsLoop
<1>3. PICK dst : /\ dst[0] = UuidStart
                 /\ \A k \in 1 .. N : dst[k] = Uuid128Step(dst[k - 1], str[k])
                 /\ \A k \in 0 .. N : IsSequence(dst[k].val)
                 /\ Uuid128(str) = dst[N]
  BY <1>1, UuidLoop
<1> DEFINE Fit(k) == \A j \in 1 .. k : Fits(j, str[j])
           Taken(k, x) == /\ Reached(k, x.i, Len(x.val)) /\ chars[k] = x.i
                         /\ \A h \in 1 .. Len(x.val) : x.val[(Len(x.val) + 1) - h] = str[PieceOf(h)].hex
           Claim(k, x) == /\ x.rc = "ok" <=> Fit(k)
                          /\ x.rc = "ok" => Taken(k, x)
           A == {k \in 0 .. N : k <= 20 => Claim(k, dst[k])}
<1> HIDE DEF N
<1>4. 0 \in A
  <2>1. UuidStart.rc = "ok" /\ UuidStart.i = 0 /\ UuidStart.val = << >> /\ Len(<< >>) = 0
    BY EmptySequence DEF UuidStart
  <2>2. Reached(0, 0, 0) /\ Fit(0)
    BY DEF Reached
  <2>3. Taken(0, UuidStart)
    BY <1>2, <2>1, <2>2
  <2> HIDE DEF Taken, Fit
  <2> QED
    BY <1>1, <1>3, <2>1, <2>2, <2>3
<1>5. ASSUME NEW k \in 0 .. N - 1, k \in A PROVE k + 1 \in A
  <2> SUFFICES ASSUME k + 1 <= 20 PROVE Claim(k + 1, dst[k + 1])
    BY <1>1
  <2> DEFINE x == dst[k]
             y == dst[k + 1]
             p == str[k + 1]
             n == Len(x.val)
  <2>1. k + 1 \in 1 .. N /\ k \in 0 .. N /\ (k + 1) - 1 = k /\ k \in 0 .. 19 /\ k <= 20
    BY <1>1
  <2>2. /\ y = Uuid128Step(x, p) /\ ~(IsHex(p) /\ IsSep(p))
        /\ chars[k + 1] = chars[k] + (IF IsSep(p) THEN 1 ELSE 2)
    BY <1>1, <1>2, <1>3, <2>1
  <2>3. Claim(k, x) /\ IsSequence(x.val)
    BY <1>3, <1>5, <2>1
  <2>4. Fit(k + 1) <=> Fit(k) /\ Fits(k + 1, p)
    <3>1. \A j \in 1 .. k + 1 : j \in 1 .. k \/ j = k + 1
      BY <2>1
    <3>2. k + 1 \in 1 .. k + 1 /\ \A j \in 1 .. k : j \in 1 .. k + 1
      BY <2>1
    <3> QED
      BY <3>1, <3>2
  <2> HIDE DEF x, y, p, Fit
  <2>5. CASE x.rc # "ok"
    <3>1. y = x
      BY <2>2, <2>5 DEF Uuid128Step
    <3>2. y.rc # "ok" /\ ~Fit(k + 1)
      BY <2>3, <2>4, <2>5, <3>1
    <3> QED
      BY <3>2 DEF y
  <2>6. CASE x.rc = "ok"
    <3>1. Taken(k, x)
      BY <2>3, <2>6
    <3>2. /\ x.i \in 0 .. 35 /\ n \in 0 .. 15
          /\ k + 1 \in UuidDashes <=> x.i \in DashAt
          /\ x.i \in DashAt => Reached(k + 1, x.i + 1, n)
          /\ x.i \notin DashAt => Reached(k + 1, x.i + 2, n + 1) /\ PieceOf(n + 1) = k + 1
      <4> HIDE DEF n
      <4>1. Reached(k, x.i, n)
        BY <3>1 DEF n
      <4> QED
        BY <2>1, <4>1, ReachedMoves
    <3>3. ~(x.i >= 36) /\ ~(x.rc # "ok" \/ x.i >= 36)
      BY <2>6, <3>2, Below36
    <3>4. CASE x.i \in DashAt
      <4>1. CASE p = Sep("-")
        <5>1. y = [rc |-> "ok", i |-> x.i + 1, val |-> x.val]
          BY <2>2, <3>3, <3>4, <4>1 DEF Uuid128Step
        <5>2. y.rc = "ok" /\ y.i = x.i + 1 /\ y.val = x.val
          BY <5>1
        <5>3. IsSep(p) /\ Fits(k + 1, p)
          BY <3>2, <3>4, <4>1, Kinds DEF Fits
        <5>4. chars[k + 1] = y.i
          BY <2>2, <3>1, <5>2, <5>3
        <5>5. Taken(k + 1, y)
          BY <3>1, <3>2, <3>4, <5>2, <5>4
        <5>6. Fit(k + 1)
          BY <2>3, <2>4, <2>6, <5>3
        <5> HIDE DEF Taken
        <5> QED
          BY <5>2, <5>5, <5>6 DEF y
      <4>2. CASE p # Sep("-")
        <5>1. y = [rc |-> "SYS_ERANGE", i |-> x.i, val |-> x.val]
          BY <2>2, <3>3, <3>4, <4>2 DEF Uuid128Step
        <5>2. y.rc # "ok"
          BY <5>1
        <5>3. ~Fits(k + 1, p)
          BY <3>2, <3>4, <4>2 DEF Fits
        <5> HIDE DEF Taken
        <5> QED
          BY <2>4, <5>2, <5>3 DEF y
      <4> QED
        BY <4>1, <4>2
    <3>5. CASE x.i \notin DashAt
      <4>1. CASE IsHex(p)
        <5> DEFINE v == << p.hex >> \o x.val
        <5>1. y = [rc |-> "ok", i |-> x.i + 2, val |-> v]
          BY <2>2, <3>3, <3>5, <4>1 DEF Uuid128Step
        <5>2. /\ IsSequence(v) /\ Len(v) = n + 1 /\ v[1] = p.hex
              /\ \A j \in 1 .. n : v[j + 1] = x.val[j]
          BY <2>3, PutInFront
        <5> HIDE DEF v
        <5>3. y.rc = "ok" /\ y.i = x.i + 2 /\ y.val = v
          BY <5>1
        <5>4. ~IsSep(p) /\ Fits(k + 1, p)
          BY <2>2, <3>2, <3>5, <4>1 DEF Fits
        <5>5. chars[k + 1] = y.i
          BY <2>2, <3>1, <5>3, <5>4
        <5>6. \A h \in 1 .. n + 1 : v[((n + 1) + 1) - h] = str[PieceOf(h)].hex
          <6> SUFFICES ASSUME NEW h \in 1 .. n + 1 PROVE v[((n + 1) + 1) - h] = str[PieceOf(h)].hex
            OBVIOUS
          <6>0. n \in Nat /\ \A j \in 1 .. n : x.val[(n + 1) - j] = str[PieceOf(j)].hex
            BY <3>1, <3>2
          <6>1. CASE h = n + 1
            <7>1. ((n + 1) + 1) - h = 1 /\ PieceOf(h) = k + 1
              BY <3>2, <3>5, <6>1
            <7> QED
              BY <5>2, <7>1 DEF p
          <6>2. CASE h # n + 1
            <7> HIDE DEF n
            <7>1. h \in 1 .. n /\ (n + 1) - h \in 1 .. n /\ ((n + 1) + 1) - h = ((n + 1) - h) + 1
              BY <6>0, <6>2
            <7> QED
              BY <5>2, <6>0, <7>1
          <6> QED
            BY <6>1, <6>2
        <5>7. Taken(k + 1, y)
          BY <3>2, <3>5, <5>2, <5>3, <5>5, <5>6
        <5>8. Fit(k + 1)
          BY <2>3, <2>4, <2>6, <5>4
        <5> HIDE DEF Taken
        <5> QED
          BY <5>3, <5>7, <5>8 DEF y
      <4>2. CASE ~IsHex(p)
        <5>1. y = [rc |-> "SYS_ERANGE", i |-> x.i, val |-> x.val]
          BY <2>2, <3>3, <3>5, <4>2 DEF Uuid128Step
        <5>2. y.rc # "ok"
          BY <5>1
        <5>3. ~Fits(k + 1, p)
          BY <3>2, <3>5, <4>2 DEF Fits
        <5> HIDE DEF Taken
        <5> QED
          BY <2>4, <5>2, <5>3 DEF y
      <4> QED
        BY <4>1, <4>2
    <3> QED
      BY <3>4, <3>5
  <2> QED
    BY <2>5, <2>6
<1> HIDE DEF Claim
<1>6. \A k \in 0 .. N : k <= 20 => Claim(k, dst[k])
  <2>1. \A k \in 0 .. N : k \in A
    <3> HIDE DEF A
    <3> QED
      BY <1>1, <1>4, <1>5, UpTo
  <2> QED
    BY <2>1
<1> DEFINE After(k) == /\ dst[k].rc = "ok" <=> dst[20].rc = "ok"
                       /\ dst[20].rc = "ok" => dst[k] = dst[20]
                       /\ chars[k] >= chars[20]
<1>7. ASSUME N >= 20 PROVE After(N)
  <2> DEFINE B == {k \in 0 .. N : k >= 20 => After(k)}
  <2>0. 20 \in 0 .. N /\ chars[20] \in Nat /\ Claim(20, dst[20])
    BY <1>1, <1>2, <1>6, <1>7
  <2>1. 0 \in B
    BY <1>1
  <2>2. ASSUME NEW k \in 0 .. N - 1, k \in B PROVE k + 1 \in B
    <3>1. k + 1 \in 1 .. N /\ k + 1 \in 0 .. N /\ k \in 0 .. N /\ (k + 1) - 1 = k
      BY <1>1
    <3>2. CASE ~(k + 1 >= 20)
      BY <3>1, <3>2
    <3>3. CASE k + 1 = 20
      <4>1. After(20)
        BY <2>0
      <4> HIDE DEF After
      <4> QED
        BY <3>1, <3>3, <4>1
    <3>4. CASE k >= 20
      <4>1. After(k)
        BY <2>2, <3>4
      <4>2. chars[k + 1] >= chars[20]
        <5>1. chars[k + 1] = chars[k] + (IF IsSep(str[k + 1]) THEN 1 ELSE 2) /\ chars[k] \in Nat
          BY <1>2, <3>1
        <5> QED
          BY <2>0, <4>1, <5>1
      <4>3. dst[k + 1] = Uuid128Step(dst[k], str[k + 1])
        BY <1>3, <3>1
      <4>4. CASE dst[20].rc = "ok"
        <5>1. dst[20].i = 36
          BY <2>0, <4>4, ReachedEnds DEF Claim
        <5>2. dst[k] = dst[20] /\ dst[k].i >= 36
          BY <4>1, <4>4, <5>1
        <5>3. dst[k + 1] = dst[k]
          BY <4>3, <5>2 DEF Uuid128Step
        <5>4. After(k + 1)
          BY <4>2, <4>4, <5>2, <5>3
        <5> HIDE DEF After
        <5> QED
          BY <3>1, <5>4
      <4>5. CASE dst[20].rc # "ok"
        <5>1. dst[k].rc # "ok"
          BY <4>1, <4>5
        <5>2. dst[k + 1] = dst[k]
          BY <4>3, <5>1 DEF Uuid128Step
        <5>3. After(k + 1)
          BY <4>2, <4>5, <5>1, <5>2
        <5> HIDE DEF After
        <5> QED
          BY <3>1, <5>3
      <4> QED
        BY <4>4, <4>5
    <3> QED
      BY <3>1, <3>2, <3>3, <3>4
  <2>3. \A k \in 0 .. N : k \in B
    <3> HIDE DEF B
    <3> QED
      BY <1>1, <2>1, <2>2, UpTo
  <2> HIDE DEF After
  <2> QED
    BY <1>1, <1>7, <2>3
<1>8. CASE ~(N >= 20)
  <2>1. ~IsUuid(str)
    BY <1>1, <1>8 DEF IsUuid, N
  <2>2. ASSUME dst[N].rc = "ok" PROVE chars[N] < 36
    <3>1. Claim(N, dst[N]) /\ N \in 0 .. 19
      BY <1>1, <1>6, <1>8
    <3>2. Reached(N, dst[N].i, Len(dst[N].val)) /\ chars[N] = dst[N].i
      BY <2>2, <3>1 DEF Claim
    <3>3. dst[N].i \in 0 .. 35
      BY <3>1, <3>2, ReachedMoves
    <3> QED
      BY <3>2, <3>3, Below36
  <2> QED
    BY <1>2, <1>3, <2>1, <2>2
<1>9. CASE N >= 20
  <2>1. After(N) /\ Claim(20, dst[20]) /\ chars[20] \in Nat /\ chars[N] \in Nat /\ 20 \in 0 .. N
    BY <1>1, <1>2, <1>6, <1>7, <1>9
  <2>2. IsUuid(str) <=> Fit(20)
    BY <1>9 DEF IsUuid, Fits, N
  <2>3. dst[N].rc = "ok" <=> IsUuid(str)
    BY <2>1, <2>2 DEF Claim
  <2>4. ASSUME IsUuid(str)
        PROVE  /\ ~(chars[N] < 36) /\ dst[N] = dst[20] /\ Len(dst[20].val) = 16
               /\ \A h \in 1 .. 16 : dst[20].val[17 - h] = str[PieceOf(h)].hex
    <3>1. dst[N] = dst[20] /\ Taken(20, dst[20])
      BY <2>1, <2>2, <2>4 DEF Claim
    <3>2. Len(dst[20].val) = 16 /\ dst[20].i = 36 /\ chars[20] = 36
      BY <3>1, ReachedEnds
    <3>3. ~(chars[N] < 36)
      BY <2>1, <3>2
    <3>4. \A h \in 1 .. 16 : (16 + 1) - h = 17 - h
      OBVIOUS
    <3> QED
      BY <3>1, <3>2, <3>3, <3>4
  <2>5. IsSequence(dst[20].val)
    BY <1>3, <2>1
  <2> HIDE DEF After, Fit
  <2> QED
    BY <1>2, <1>3, <2>3, <2>4, <2>5
<1> QED
  BY <1>8, <1>9

\* Whatever is read as a UUID of 128 bits gives 16 bytes.
LEMMA UuidRead ==
  ASSUME NEW item, IsStr(item) => IsText(item.str), JsonUuid(item).rc = "ok"
  PROVE  IsSequence(U128Bytes(JsonUuid(item).val)) /\ Len(U128Bytes(JsonUuid(item).val)) = 16
<1>1. CASE IntBounds(item, 1, UINT16_MAX).rc = "ok"
  <2> DEFINE u == [i \in 1 .. 16 |-> IF i \in {2, 3} THEN "half of the number" ELSE "unwritten"]
  <2>1. JsonUuid(item).val = [type |-> 16, value |-> << item.num >>]
    BY <1>1, Codes DEF JsonUuid
  <2>2. U128Bytes(JsonUuid(item).val) = u
    BY <2>1 DEF U128Bytes
  <2>3. u = [k \in 1 .. 16 |-> u[k]] /\ 16 \in Nat
    OBVIOUS
  <2> HIDE DEF u
  <2>4. IsSequence(u) /\ Len(u) = 16
    BY <2>3, MadeSequence
  <2> QED
    BY <2>2, <2>4
<1>2. CASE IntBounds(item, 1, UINT16_MAX).rc # "ok"
  <2> DEFINE str == item.str
             r == Uuid128(str)
  <2>1. IsStr(item) /\ ~(CharsOf(str) < 36)
    BY <1>2, Codes DEF JsonUuid
  <2>2. JsonUuid(item) = IF r.rc = "ok" THEN Got([type |-> 128, value |-> r.val]) ELSE Failed(r.rc)
    BY <1>2, <2>1 DEF JsonUuid
  <2> HIDE DEF r
  <2>3. r.rc = "ok" /\ JsonUuid(item).val = [type |-> 128, value |-> r.val]
    BY <2>2, Codes
  <2>4. U128Bytes(JsonUuid(item).val) = r.val
    BY <2>3 DEF U128Bytes
  <2>5. IsSequence(r.val) /\ Len(r.val) = 16
    BY <2>1, <2>3, UuidSays DEF r
  <2> QED
    BY <2>4, <2>5
<1> QED
  BY <1>1, <1>2

\* The pieces that are no dashes are those of the bytes.
LEMMA Pieces ==
  /\ \A h \in 1 .. 16 : PieceOf(h) \in 1 .. 20 /\ PieceOf(h) \notin UuidDashes
  /\ \A k \in 1 .. 20 : k \notin UuidDashes => \E h \in 1 .. 16 : PieceOf(h) = k
<1>1. \A h \in 1 .. 16 : PieceOf(h) \in 1 .. 20 /\ PieceOf(h) \notin UuidDashes
  BY DEF PieceOf, UuidDashes
<1>2. ASSUME NEW k \in 1 .. 20, k \notin UuidDashes PROVE \E h \in 1 .. 16 : PieceOf(h) = k
  <2> DEFINE h == IF k < 5 THEN k ELSE IF k < 8 THEN k - 1 ELSE IF k < 11 THEN k - 2 ELSE IF k < 14 THEN k - 3 ELSE k - 4
  <2>1. h \in 1 .. 16 /\ PieceOf(h) = k
    BY <1>2 DEF PieceOf, UuidDashes
  <2> QED
    BY <2>1, Zenon
<1> QED
  BY <1>1, <1>2

\* The text of a UUID: 16 bytes in reverse and four dashes between them.
LEMMA UuidText ==
  ASSUME NEW v
  PROVE  LET str == Uuid128Str(v)
         IN /\ IsSequence(str) /\ Len(str) = 20
            /\ \A k \in UuidDashes : str[k] = Sep("-")
            /\ \A h \in 1 .. 16 : str[PieceOf(h)] = Hex(v[17 - h])
<1> DEFINE str == Uuid128Str(v)
<1>1. str = [k \in 1 .. 20 |-> str[k]] /\ 20 \in Nat
  BY DEF Uuid128Str
<1>2. IsSequence(str) /\ Len(str) = 20
  <2> HIDE DEF str
  <2> QED
    BY <1>1, MadeSequence
<1>3. str[5] = Sep("-") /\ str[8] = Sep("-") /\ str[11] = Sep("-") /\ str[14] = Sep("-")
  BY DEF Uuid128Str
<1>4. str[1] = Hex(v[16]) /\ str[2] = Hex(v[15]) /\ str[3] = Hex(v[14]) /\ str[4] = Hex(v[13])
  BY DEF Uuid128Str
<1>5. str[6] = Hex(v[12]) /\ str[7] = Hex(v[11]) /\ str[9] = Hex(v[10]) /\ str[10] = Hex(v[9])
  BY DEF Uuid128Str
<1>6. str[12] = Hex(v[8]) /\ str[13] = Hex(v[7]) /\ str[15] = Hex(v[6]) /\ str[16] = Hex(v[5])
  BY DEF Uuid128Str
<1>7. str[17] = Hex(v[4]) /\ str[18] = Hex(v[3]) /\ str[19] = Hex(v[2]) /\ str[20] = Hex(v[1])
  BY DEF Uuid128Str
<1> HIDE DEF str
<1>8. \A k \in UuidDashes : str[k] = Sep("-")
  BY <1>3 DEF UuidDashes
<1>9. ASSUME NEW h \in 1 .. 16 PROVE str[PieceOf(h)] = Hex(v[17 - h])
  <2>1. CASE h \in 1 .. 4
    BY <1>4, <2>1 DEF PieceOf
  <2>2. CASE h \in 5 .. 8
    BY <1>5, <2>2 DEF PieceOf
  <2>3. CASE h \in 9 .. 12
    BY <1>6, <2>3 DEF PieceOf
  <2>4. CASE h \in 13 .. 16
    BY <1>7, <2>4 DEF PieceOf
  <2> QED
    BY <2>1, <2>2, <2>3, <2>4
<1> QED
  BY <1>2, <1>8, <1>9 DEF str

\* The text of a UUID is one.
LEMMA UuidIsText ==
  ASSUME NEW v
  PROVE  IsText(Uuid128Str(v)) /\ IsUuid(Uuid128Str(v))
<1> DEFINE str == Uuid128Str(v)
<1>1. /\ IsSequence(str) /\ Len(str) = 20
      /\ \A k \in UuidDashes : str[k] = Sep("-")
      /\ \A h \in 1 .. 16 : str[PieceOf(h)] = Hex(v[17 - h])
  BY UuidText
<1> HIDE DEF str
<1>2. \A b : IsPiece(Hex(b)) /\ IsPiece(Sep(b)) /\ IsHex(Hex(b))
  BY Kinds DEF IsPiece
<1>3. \A k \in 1 .. 20 : k \notin UuidDashes => \E b : str[k] = Hex(b)
  BY <1>1, Pieces
<1>4. \A k \in 1 .. 20 : IsPiece(str[k])
  BY <1>1, <1>2, <1>3
<1>5. \A k \in 1 .. 20 : IF k \in UuidDashes THEN str[k] = Sep("-") ELSE IsHex(str[k])
  BY <1>1, <1>2, <1>3
<1>6. Len(str) >= 20
  BY <1>1
<1>7. IsText(str) /\ IsUuid(str)
  BY <1>1, <1>4, <1>5, <1>6 DEF IsText, IsUuid
<1> QED
  BY <1>7 DEF str

\* What is written as a UUID is read again.
LEMMA UuidBack ==
  ASSUME NEW v, IsSequence(v), Len(v) = 16
  PROVE  JsonUuid(Str(Uuid128Str(v))) = Got([type |-> 128, value |-> v])
<1> DEFINE str == Uuid128Str(v)
           r == Uuid128(str)
<1>1. IsText(str) /\ IsUuid(str)
  BY UuidIsText
<1>2. \A h \in 1 .. 16 : str[PieceOf(h)] = Hex(v[17 - h])
  BY UuidText
<1> HIDE DEF str
<1>3. /\ r.rc = "ok" /\ ~(CharsOf(str) < 36) /\ IsSequence(r.val) /\ Len(r.val) = 16
      /\ \A h \in 1 .. 16 : r.val[17 - h] = str[PieceOf(h)].hex
  BY <1>1, UuidSays
<1> HIDE DEF r
<1>4. \A h \in 1 .. 16 : r.val[17 - h] = v[17 - h]
  BY <1>2, <1>3, Kinds
<1>5. \A k \in 1 .. 16 : 17 - k \in 1 .. 16 /\ 17 - (17 - k) = k
  OBVIOUS
<1>6. \A k \in 1 .. 16 : r.val[k] = v[k]
  BY <1>4, <1>5
<1>7. r.val = v
  BY <1>3, <1>6, SameSequence
<1>8. IsStr(Str(str)) /\ Str(str).str = str /\ ~IsNum(Str(str))
  BY Kinds
<1>9. IntBounds(Str(str), 1, UINT16_MAX).rc # "ok"
  BY <1>8, Codes DEF IntBounds
<1>10. JsonUuid(Str(str)) = Got([type |-> 128, value |-> r.val])
  BY <1>3, <1>8, <1>9 DEF JsonUuid, r
<1> QED
  BY <1>7, <1>10 DEF str

-----------------------------------------------------------------------------
(* Units of fields, and the size of elements.                              *)

SingleUnit == {"flags", "tx_pwr_lvl", "appearance", "adv_itvl"}

IsUnits(f, units) ==
  /\ IsSequence(units)
  /\ Len(units) * UnitSz(f) <= MaxFieldSz
  /\ f \in SingleUnit => Len(units) <= 1
  /\ IF f = "slave_itvl" THEN units = << >> \/ (Len(units) = 2 /\ {units[1], units[2]} \subseteq 0 .. UINT16_MAX)
                         ELSE \A k \in 1 .. Len(units) : IsUnit(f, units[k])

IsRead(a) == \A f \in Fields : IsUnits(f, a.units[f])

-----------------------------------------------------------------------------
(* Fields and sizes.                                                       *)

\* The fields, by their place.
LEMMA FieldsAre ==
  /\ DOMAIN FieldOrder = 1 .. 15 /\ Len(FieldOrder) = 15
  /\ Fields = {"flags", "uuids16", "uuids32", "uuids128", "name", "tx_pwr_lvl", "slave_itvl",
               "svc_data_uuid16", "public_tgt_addrs", "appearance", "adv_itvl",
               "svc_data_uuid32", "svc_data_uuid128", "uri", "mfg_data"}
  /\ Fields = {FieldOrder[n] : n \in 1 .. 15}
<1>1. DOMAIN FieldOrder = 1 .. 15 /\ Len(FieldOrder) = 15
  BY DEF FieldOrder
<1>2. Fields = {FieldOrder[n] : n \in 1 .. 15}
  BY <1>1 DEF Fields, ToSet
<1>3. 1 .. 15 = {1, 2, 3, 4, 5, 6, 7, 8, 9, 10, 11, 12, 13, 14, 15}
  OBVIOUS
<1>4. {FieldOrder[n] : n \in {1, 2, 3, 4, 5, 6, 7, 8, 9, 10, 11, 12, 13, 14, 15}}
      = {FieldOrder[1], FieldOrder[2], FieldOrder[3], FieldOrder[4], FieldOrder[5], FieldOrder[6],
         FieldOrder[7], FieldOrder[8], FieldOrder[9], FieldOrder[10], FieldOrder[11], FieldOrder[12],
         FieldOrder[13], FieldOrder[14], FieldOrder[15]}
  OBVIOUS
<1>5. /\ FieldOrder[1] = "flags" /\ FieldOrder[2] = "uuids16" /\ FieldOrder[3] = "uuids32"
      /\ FieldOrder[4] = "uuids128" /\ FieldOrder[5] = "name" /\ FieldOrder[6] = "tx_pwr_lvl"
      /\ FieldOrder[7] = "slave_itvl" /\ FieldOrder[8] = "svc_data_uuid16"
      /\ FieldOrder[9] = "public_tgt_addrs" /\ FieldOrder[10] = "appearance"
      /\ FieldOrder[11] = "adv_itvl" /\ FieldOrder[12] = "svc_data_uuid32"
      /\ FieldOrder[13] = "svc_data_uuid128" /\ FieldOrder[14] = "uri" /\ FieldOrder[15] = "mfg_data"
  BY DEF FieldOrder
<1> QED
  BY <1>1, <1>2, <1>3, <1>4, <1>5

\* No field has two places.
LEMMA FieldsDiffer ==
  ASSUME NEW m \in 1 .. 15, NEW n \in 1 .. 15, FieldOrder[m] = FieldOrder[n]
  PROVE  m = n
BY DEF FieldOrder

\* A unit of a field has at least one byte.
LEMMA UnitSizes == \A f : UnitSz(f) \in {1, 2, 4, 6, 16}
BY DEF UnitSz

\* So that n units have at least n bytes.
LEMMA Weight ==
  ASSUME NEW n \in Nat, NEW f
  PROVE  n * UnitSz(f) \in Nat /\ n <= n * UnitSz(f)
<1> DEFINE u == UnitSz(f)
<1>1. u \in {1, 2, 4, 6, 16}
  BY UnitSizes
<1> HIDE DEF u
<1>2. n * u \in Nat /\ n <= n * u
  BY <1>1
<1> QED
  BY <1>2 DEF u

\* The bytes of an element without its length and type.
WeightOf(e) == Len(e.payload) * UnitSz(e.field)

Sized(elements) ==
  IsSequence(elements) /\ \A n \in 1 .. Len(elements) : IsSequence(elements[n].payload)

\* The loop of SizeOf.
LEMMA SizeLoop ==
  ASSUME NEW els, Sized(els)
  PROVE  \E size : /\ size[0] = 0
                   /\ \A k \in 1 .. Len(els) : size[k] = size[k - 1] + 2 + WeightOf(els[k])
                   /\ \A k \in 0 .. Len(els) : size[k] \in Nat
                   /\ \A k \in 1 .. Len(els) : WeightOf(els[k]) \in Nat
                   /\ SizeOf(els) = size[Len(els)]
<1> DEFINE N == Len(els)
           W(k) == WeightOf(els[k])
           F == [k \in 1 .. N |-> [x \in Nat |-> x + 2 + W(k)]]
           Is(f) == f = [k \in 0 .. N |-> IF k = 0 THEN 0 ELSE f[k - 1] + 2 + W(k)]
           size == CHOOSE f : Is(f)
<1>1. N \in Nat
  BY SequenceIs DEF Sized
<1>2. \A k \in 1 .. N : W(k) \in Nat
  BY Weight, SequenceIs DEF Sized, WeightOf
<1>3. \A k \in 1 .. N : \A x \in Nat : F[k][x] \in Nat
  <2> HIDE DEF W
  <2> QED
    BY <1>2
<1>4. PICK f : Rounds(f, N, 0, F) /\ \A k \in 0 .. N : f[k] \in Nat
  <2> HIDE DEF F, N
  <2>1. 0 \in Nat
    OBVIOUS
  <2> QED
    BY <1>1, <1>3, <2>1, LoopRuns
<1>5. Is(f)
  <2> HIDE DEF W
  <2>1. \A k \in 0 .. N : k # 0 => k \in 1 .. N /\ k - 1 \in 0 .. N
    BY <1>1
  <2>2. \A k \in 0 .. N : k # 0 => F[k][f[k - 1]] = f[k - 1] + 2 + W(k)
    BY <1>4, <2>1
  <2> HIDE DEF F, N
  <2> QED
    BY <1>4, <2>2 DEF Rounds
<1>6. Is(size)
  BY <1>5, Zenon
<1>7. SizeOf(els) = size[N]
  BY Zenon DEF SizeOf, WeightOf
<1> HIDE DEF size
<1>8. \A k \in 0 .. N : size[k] \in Nat
  <2> DEFINE A == {k \in 0 .. N : size[k] \in Nat}
  <2> HIDE DEF W
  <2>1. 0 \in A
    BY <1>1, <1>6
  <2>2. ASSUME NEW n \in 0 .. N - 1, n \in A PROVE n + 1 \in A
    <3>1. n + 1 \in 1 .. N /\ n + 1 \in 0 .. N /\ (n + 1) - 1 = n /\ n + 1 # 0
      BY <1>1
    <3>2. size[n + 1] = size[n] + 2 + W(n + 1)
      BY <1>6, <3>1
    <3> QED
      BY <1>2, <2>2, <3>1, <3>2
  <2>3. \A n \in 0 .. N : n \in A
    <3> HIDE DEF A
    <3> QED
      BY <1>1, <2>1, <2>2, UpTo
  <2> QED
    BY <2>3
<1>9. /\ size[0] = 0
      /\ \A k \in 1 .. N : size[k] = size[k - 1] + 2 + W(k)
  <2>1. 0 \in 0 .. N /\ \A k \in 1 .. N : k \in 0 .. N /\ k # 0
    BY <1>1
  <2> HIDE DEF N, W
  <2> QED
    BY <1>6, <2>1
<1> QED
  BY <1>2, <1>7, <1>8, <1>9

\* Every element is within the size of all.
LEMMA SizeBounds ==
  ASSUME NEW els, Sized(els)
  PROVE  /\ SizeOf(els) \in Nat
         /\ \A n \in 1 .. Len(els) : WeightOf(els[n]) \in Nat /\ WeightOf(els[n]) + 2 <= SizeOf(els)
<1> DEFINE N == Len(els)
<1>1. PICK size : /\ size[0] = 0
                  /\ \A k \in 1 .. N : size[k] = size[k - 1] + 2 + WeightOf(els[k])
                  /\ \A k \in 0 .. N : size[k] \in Nat
                  /\ \A k \in 1 .. N : WeightOf(els[k]) \in Nat
                  /\ SizeOf(els) = size[N]
  BY SizeLoop
<1>2. N \in Nat /\ N \in 0 .. N
  BY SequenceIs DEF Sized
<1> HIDE DEF N
<1> DEFINE A == {k \in 0 .. N : \A n \in 1 .. N : n <= k => WeightOf(els[n]) + 2 <= size[k]}
<1>3. 0 \in A
  BY <1>2
<1>4. ASSUME NEW k \in 0 .. N - 1, k \in A PROVE k + 1 \in A
  <2>1. k + 1 \in 1 .. N /\ k + 1 \in 0 .. N /\ (k + 1) - 1 = k /\ k \in 0 .. N
    BY <1>2
  <2>2. size[k + 1] = size[k] + 2 + WeightOf(els[k + 1]) /\ size[k] \in Nat /\ size[k + 1] \in Nat
    BY <1>1, <2>1
  <2>3. ASSUME NEW n \in 1 .. N, n <= k + 1 PROVE WeightOf(els[n]) + 2 <= size[k + 1]
    <3>0. WeightOf(els[n]) \in Nat /\ WeightOf(els[k + 1]) \in Nat
      BY <1>1, <2>1
    <3>1. CASE n = k + 1
      BY <2>2, <3>0, <3>1
    <3>2. CASE n # k + 1
      <4>1. n <= k
        BY <2>3, <3>2
      <4>2. WeightOf(els[n]) + 2 <= size[k]
        BY <1>4, <4>1
      <4> QED
        BY <2>2, <3>0, <4>2
    <3> QED
      BY <3>1, <3>2
  <2> QED
    BY <2>1, <2>3
<1>5. \A k \in 0 .. N : k \in A
  <2> HIDE DEF A
  <2> QED
    BY <1>2, <1>3, <1>4, UpTo
<1>6. N \in A
  BY <1>2, <1>5
<1>7. \A n \in 1 .. N : n <= N
  BY <1>2
<1> QED
  BY <1>1, <1>2, <1>6, <1>7 DEF N

\* The bytes of some elements, and the elements in some bytes.
LEMMA BytesFit ==
  ASSUME NEW els, Sized(els)
  PROVE  IsSequence(BytesOf(els)) /\ Len(BytesOf(els)) = SizeOf(els)
<1> DEFINE N == SizeOf(els)
           b == BytesOf(els)
<1>1. N \in Nat
  BY SizeBounds
<1>2. b = [k \in 1 .. N |-> b[k]]
  BY DEF BytesOf
<1> HIDE DEF b, N
<1>3. IsSequence(b) /\ Len(b) = N
  BY <1>1, <1>2, MadeSequence
<1> QED
  BY <1>3 DEF b, N

\* Elements put on the air are parsed as they were.
LEMMA ElementsBack ==
  ASSUME NEW els, Sized(els)
  PROVE  ElementsOf(BytesOf(els)) = els
<1> DEFINE b == BytesOf(els)
<1>1. IsSequence(b) /\ Len(b) = SizeOf(els) /\ SizeOf(els) \in Nat
  BY BytesFit, SizeBounds
<1>2. CASE b = << >>
  <2>1. SizeOf(els) = 0
    <3> HIDE DEF b
    <3>1. Len(<< >>) = 0
      OBVIOUS
    <3> QED
      BY <1>1, <1>2, <3>1
  <2>2. Len(els) = 0
    <3>1. Len(els) \in Nat
      BY SequenceIs DEF Sized
    <3>2. SUFFICES ASSUME Len(els) # 0 PROVE FALSE
      OBVIOUS
    <3>3. 1 \in 1 .. Len(els)
      BY <3>1, <3>2
    <3>4. WeightOf(els[1]) \in Nat /\ WeightOf(els[1]) + 2 <= SizeOf(els)
      BY <3>3, SizeBounds
    <3> QED
      BY <2>1, <3>4
  <2>3. els = << >>
    BY <2>2 DEF Sized, IsSequence
  <2> QED
    BY <1>2, <2>3 DEF ElementsOf
<1>3. CASE b # << >>
  <2>1. SizeOf(els) # 0
    <3>1. SUFFICES ASSUME SizeOf(els) = 0 PROVE FALSE
      OBVIOUS
    <3>2. b = [k \in 1 .. 0 |-> b[k]]
      BY <3>1 DEF BytesOf
    <3>3. b = << >>
      <4> HIDE DEF b
      <4> QED
        BY <3>2
    <3> QED
      BY <1>3, <3>3
  <2>2. 1 \in 1 .. SizeOf(els)
    BY <1>1, <2>1
  <2>3. b[1].of = els
    BY <2>2 DEF BytesOf
  <2> HIDE DEF b
  <2>4. b = BytesOf(b[1].of)
    BY <2>3 DEF b
  <2>5. ElementsOf(b) = els
    BY <1>3, <2>3, <2>4 DEF ElementsOf
  <2> QED
    BY <2>5 DEF b
<1> QED
  BY <1>2, <1>3

-----------------------------------------------------------------------------
(* What is read of a request fits.                                         *)

\* A sequence of one unit.
LEMMA OneUnit ==
  ASSUME NEW x
  PROVE  IsSequence(<< x >>) /\ Len(<< x >>) = 1 /\ << x >>[1] = x /\ << x >> # << >>
<1> DEFINE s == << x >>
<1>1. s = [k \in 1 .. 1 |-> s[k]] /\ s[1] = x
  OBVIOUS
<1>2. s # << >>
  BY EmptySeq
<1> HIDE DEF s
<1>3. IsSequence(s) /\ Len(s) = 1
  BY <1>1, MadeSequence
<1> QED
  BY <1>1, <1>2, <1>3 DEF s

\* A field that is not there fits.
LEMMA NoUnits ==
  ASSUME NEW f
  PROVE  IsUnits(f, << >>)
<1>1. Len(<< >>) * UnitSz(f) = 0
  <2>1. UnitSz(f) \in {1, 2, 4, 6, 16}
    BY UnitSizes
  <2> QED
    BY <2>1, EmptySequence
<1>2. 0 <= MaxFieldSz /\ 0 <= 1
  BY SizeAssumption
<1>3. \A k \in 1 .. Len(<< >>) : FALSE
  BY EmptySequence
<1> QED
  BY <1>1, <1>2, <1>3, EmptySequence DEF IsUnits

\* One unit fits.
LEMMA SingleFits ==
  ASSUME NEW f, f # "slave_itvl", NEW x, IsUnit(f, x)
  PROVE  IsUnits(f, << x >>)
<1>1. Len(<< x >>) * UnitSz(f) <= MaxFieldSz
  <2>1. UnitSz(f) \in {1, 2, 4, 6, 16}
    BY UnitSizes
  <2>2. 1 * UnitSz(f) = UnitSz(f) /\ UnitSz(f) <= 16
    BY <2>1
  <2>3. UnitSz(f) \in Nat
    BY <2>1
  <2> QED
    BY <2>2, <2>3, OneUnit, SizeAssumption
<1>2. \A k \in 1 .. Len(<< x >>) : << x >>[k] = x
  BY OneUnit
<1>3. Len(<< x >>) <= 1
  BY OneUnit
<1> QED
  BY <1>1, <1>2, <1>3, OneUnit DEF IsUnits

\* bhd_process_json_int_bounds() keeps its bounds.
LEMMA BoundsKept ==
  ASSUME NEW item, NEW minval, NEW maxval, IntBounds(item, minval, maxval).rc = "ok"
  PROVE  IntBounds(item, minval, maxval).val \in minval .. maxval
BY Codes DEF IntBounds

\* A single value that was read is one unit.
LEMMA OneOf ==
  ASSUME NEW r, One(r).rc = "ok"
  PROVE  r.rc = "ok" /\ One(r).val = << r.val >>
BY Codes DEF One

\* An element of a list that was read is a unit of the field.
LEMMA ElemFits ==
  ASSUME NEW f \in Lists, NEW x, IsStr(x) => IsText(x.str), ReadElem(f, x).rc = "ok"
  PROVE  IsUnit(f, ReadElem(f, x).val)
<1>1. CASE f = "uuids128"
  <2> DEFINE r == JsonUuid(x)
  <2>1. ReadElem(f, x) = IF r.rc = "ok" THEN Got(U128Bytes(r.val)) ELSE r
    BY <1>1 DEF ReadElem, Uuid128Elem
  <2>2. r.rc = "ok" /\ ReadElem(f, x).val = U128Bytes(r.val)
    <3> HIDE DEF r
    <3> QED
      BY <2>1, Codes
  <2>3. IsSequence(U128Bytes(r.val)) /\ Len(U128Bytes(r.val)) = 16
    BY <2>2, UuidRead
  <2>4. \A u : IsUnit("uuids128", u) <=> IsSequence(u) /\ Len(u) = 16
    BY DEF IsUnit, Texts
  <2> QED
    BY <1>1, <2>2, <2>3, <2>4
<1>2. CASE f = "public_tgt_addrs"
  <2>1. ReadElem(f, x) = JsonAddr(x)
    BY <1>2 DEF ReadElem
  <2>2. IsSequence(JsonAddr(x).val) /\ Len(JsonAddr(x).val) = 6
    BY <2>1, AddrRead DEF IsText
  <2>3. \A u : IsUnit("public_tgt_addrs", u) <=> IsSequence(u) /\ Len(u) = 6
    BY DEF IsUnit, Texts
  <2> QED
    BY <1>2, <2>1, <2>2, <2>3
<1>3. CASE f \in {"uuids16", "uuids32"}
  <2>1. ReadElem(f, x) = Uuid16Elem(x)
    BY <1>3 DEF ReadElem
  <2>2. Uuid16Elem(x).val \in 0 .. UINT16_MAX
    BY <1>3, <2>1, BoundsKept DEF Uuid16Elem
  <2>4. \A u \in 0 .. UINT16_MAX : IsUnit("uuids16", u)
    BY DEF IsUnit, Texts
  <2>5. \A u \in 0 .. UINT16_MAX : IsUnit("uuids32", u)
    BY DEF IsUnit, Texts
  <2> QED
    BY <1>3, <2>1, <2>2, <2>4, <2>5
<1> QED
  BY <1>1, <1>2, <1>3 DEF Lists

\* Every array of struct bhd_adv_fields_req has room for an element.
LEMMA Room == \A f : MaxFieldSz \div UnitSz(f) # 0
<1> SUFFICES ASSUME NEW f PROVE MaxFieldSz \div UnitSz(f) # 0
  OBVIOUS
<1>1. UnitSz(f) \in {1, 2, 4, 6, 16}
  BY UnitSizes
<1> QED
  BY <1>1, SizeAssumption

\* A list is cut to its first valid element.
LEMMA ListRead ==
  ASSUME NEW f, NEW item, IsArr(item), IsSequence(item.arr)
  PROVE  LET good == {k \in 1 .. Len(item.arr) : ReadElem(f, item.arr[k]).rc = "ok"}
         IN ReadList(f, item) =
              Got(IF good = {} THEN << >> ELSE << ReadElem(f, item.arr[Min(good)]).val >>)
<1> DEFINE N == Len(item.arr)
           read == [i \in 1 .. N |-> ReadElem(f, item.arr[i])]
           good == {k \in 1 .. N : ReadElem(f, item.arr[k]).rc = "ok"}
           good2 == {k \in 1 .. Len(read) : read[k].rc = "ok"}
           M == MaxFieldSz \div UnitSz(f)
<1>1. N \in Nat
  BY SequenceIs
<1>2. ReadList(f, item) = ArrGen(item, read, M)
  BY Zenon DEF ReadList
<1>3. \A i \in 1 .. N : read[i] = ReadElem(f, item.arr[i])
  OBVIOUS
<1>4. read = [i \in 1 .. N |-> read[i]]
  OBVIOUS
<1> HIDE DEF read
<1>5. IsSequence(read) /\ Len(read) = N
  <2> HIDE DEF N
  <2> QED
    BY <1>1, <1>4, MadeSequence
<1>6. good = good2
  BY <1>3, <1>5
<1>7. M # 0
  BY Room
<1> HIDE DEF M
<1>8. ArrGen(item, read, M) = Got(IF good2 = {} THEN << >> ELSE << read[Min(good2)].val >>)
  BY <1>5, <1>7, FirstIsRead
<1>9. good # {} => read[Min(good)] = ReadElem(f, item.arr[Min(good)])
  <2> SUFFICES ASSUME good # {} PROVE Min(good) \in 1 .. N
    BY <1>3
  <2>1. good \in SUBSET Nat /\ good \subseteq 1 .. N
    BY <1>1
  <2> HIDE DEF good
  <2> QED
    BY <2>1, LeastOf
<1> HIDE DEF good, good2
<1>10. ReadList(f, item) = Got(IF good = {} THEN << >> ELSE << ReadElem(f, item.arr[Min(good)]).val >>)
  BY <1>2, <1>6, <1>8, <1>9
<1> QED
  BY <1>10 DEF good

\* A list that was read fits its array.
LEMMA ListFits ==
  ASSUME NEW f \in Lists, NEW item, IsItem(item), ReadList(f, item).rc = "ok"
  PROVE  IsUnits(f, ReadList(f, item).val)
<1>1. IsArr(item)
  <2> SUFFICES ASSUME ~IsArr(item) PROVE FALSE
    OBVIOUS
  <2>1. ReadList(f, item) = Failed("SYS_ERANGE")
    BY DEF ReadList, ArrGen
  <2> QED
    BY <2>1, Codes
<1>2. IsSequence(item.arr) /\ \A k \in 1 .. Len(item.arr) : IsStr(item.arr[k]) => IsText(item.arr[k].str)
  BY <1>1 DEF IsItem
<1> DEFINE good == {k \in 1 .. Len(item.arr) : ReadElem(f, item.arr[k]).rc = "ok"}
<1>3. ReadList(f, item) = Got(IF good = {} THEN << >> ELSE << ReadElem(f, item.arr[Min(good)]).val >>)
  BY <1>1, <1>2, ListRead
<1>4. CASE good = {}
  <2> HIDE DEF good
  <2> QED
    BY <1>3, <1>4, NoUnits, Codes
<1>5. CASE good # {}
  <2> DEFINE x == item.arr[Min(good)]
  <2>1. Min(good) \in good
    <3>1. good \in SUBSET Nat
      BY <1>2, SequenceIs
    <3> HIDE DEF good
    <3> QED
      BY <1>5, <3>1, LeastOf
  <2>2. ReadElem(f, x).rc = "ok" /\ (IsStr(x) => IsText(x.str))
    BY <1>2, <2>1
  <2>3. ReadList(f, item).val = << ReadElem(f, x).val >>
    <3> HIDE DEF good
    <3> QED
      BY <1>3, <1>5, Codes
  <2>4. IsUnit(f, ReadElem(f, x).val)
    <3> HIDE DEF x
    <3> QED
      BY <2>2, ElemFits
  <2>5. f # "slave_itvl"
    BY DEF Lists
  <2>6. IsUnits(f, << ReadElem(f, x).val >>)
    <3> HIDE DEF x
    <3> QED
      BY <2>4, <2>5, SingleFits
  <2> QED
    BY <2>3, <2>6
<1> QED
  BY <1>4, <1>5

\* A range that was read has both its ends.
LEMMA RangeFits ==
  ASSUME NEW par, ReadRange(par).rc = "ok"
  PROVE  IsUnits("slave_itvl", ReadRange(par).val)
<1> DEFINE lo == IntBounds(par.slave_itvl_min, 0, UINT16_MAX)
           hi == IF "slave_itvl_max" \in DOMAIN par
                 THEN IntBounds(par.slave_itvl_max, 0, UINT16_MAX) ELSE Failed("SYS_ENOENT")
<1>1. ReadRange(par) = IF lo.rc # "ok" THEN lo ELSE IF hi.rc # "ok" THEN hi ELSE Got(<< lo.val, hi.val >>)
  BY Zenon DEF ReadRange
<1>2. lo.rc = "ok" => lo.val \in 0 .. UINT16_MAX
  BY BoundsKept
<1>3. hi.rc = "ok" => hi.val \in 0 .. UINT16_MAX
  BY BoundsKept, Codes
<1> HIDE DEF lo, hi
<1>4. lo.rc = "ok" /\ hi.rc = "ok" /\ ReadRange(par).val = << lo.val, hi.val >>
  BY <1>1, Codes
<1> DEFINE s == << lo.val, hi.val >>
<1>5. s = [k \in 1 .. 2 |-> s[k]] /\ s[1] = lo.val /\ s[2] = hi.val
  OBVIOUS
<1> HIDE DEF s
<1>6. IsSequence(s) /\ Len(s) = 2
  BY <1>5, MadeSequence
<1>7. Len(s) * UnitSz("slave_itvl") <= MaxFieldSz
  BY <1>6, SizeAssumption DEF UnitSz
<1>8. {s[1], s[2]} \subseteq 0 .. UINT16_MAX
  BY <1>2, <1>3, <1>4, <1>5
<1>9. IsUnits("slave_itvl", s)
  BY <1>6, <1>7, <1>8 DEF IsUnits, SingleUnit
<1> QED
  BY <1>4, <1>9 DEF s

\* A text that was read fits its buffer.
LEMMA TextFits ==
  ASSUME NEW f \in Texts, NEW item, IsItem(item), ReadText(item).rc = "ok"
  PROVE  IsUnits(f, ReadText(item).val)
<1>1. IsStr(item) /\ ~(Len(item.str) > MaxFieldSz) /\ ReadText(item).val = item.str
  BY Codes DEF ReadText
<1>2. IsText(item.str)
  BY <1>1 DEF IsItem
<1>3. UnitSz(f) = 1 /\ f \notin SingleUnit /\ f # "slave_itvl"
  BY DEF UnitSz, Texts, SingleUnit
<1>4. \A p : IsPiece(p) => IsUnit(f, p)
  BY DEF IsUnit, Texts
<1>5. Len(item.str) * UnitSz(f) <= MaxFieldSz
  <2>1. Len(item.str) \in Nat
    BY <1>2, SequenceIs DEF IsText
  <2> QED
    BY <1>1, <1>3, <2>1, SizeAssumption
<1> QED
  BY <1>1, <1>2, <1>3, <1>4, <1>5 DEF IsUnits, IsText

\* Bytes that were read fit their buffer.
LEMMA BytesRead ==
  ASSUME NEW f \in ByteFields, NEW item, IsItem(item), HexString(item, MaxFieldSz).rc = "ok"
  PROVE  IsUnits(f, HexString(item, MaxFieldSz).val)
<1> DEFINE v == HexString(item, MaxFieldSz).val
<1>1. IsStr(item) /\ HexString(item, MaxFieldSz) = ParseByteStream(item.str, MaxFieldSz)
  BY Codes DEF HexString
<1>2. IsSequence(item.str)
  BY <1>1 DEF IsItem, IsText
<1>3. IsSequence(v) /\ Len(v) <= MaxFieldSz
  <2>1. MaxFieldSz \in Nat
    BY SizeAssumption
  <2> QED
    BY <1>1, <1>2, <2>1, ParsedFits
<1>4. UnitSz(f) = 1 /\ f \notin SingleUnit /\ f # "slave_itvl"
  BY DEF UnitSz, ByteFields, SingleUnit
<1>5. \A p : IsUnit(f, p)
  BY DEF IsUnit, ByteFields, Texts
<1> HIDE DEF v
<1>6. Len(v) * UnitSz(f) <= MaxFieldSz
  <2>1. Len(v) \in Nat
    BY <1>3, SequenceIs
  <2> QED
    BY <1>3, <1>4, <2>1, SizeAssumption
<1>7. IsUnits(f, v)
  BY <1>3, <1>4, <1>5, <1>6 DEF IsUnits
<1> QED
  BY <1>7 DEF v

\* A number that was read fits.
LEMMA IntFits ==
  ASSUME NEW f \in Ints, NEW item, ReadInt(f, item).rc = "ok"
  PROVE  IsUnits(f, ReadInt(f, item).val)
<1> DEFINE r == IF f = "tx_pwr_lvl" THEN IntBounds(item, -128, 127) ELSE IntBounds(item, 0, UINT16_MAX)
<1>1. ReadInt(f, item) = One(r)
  BY DEF ReadInt
<1>2. r.rc = "ok" => IF f = "tx_pwr_lvl" THEN r.val \in -128 .. 127 ELSE r.val \in 0 .. UINT16_MAX
  <2>1. CASE f = "tx_pwr_lvl"
    BY <2>1, BoundsKept
  <2>2. CASE f # "tx_pwr_lvl"
    BY <2>2, BoundsKept
  <2> QED
    BY <2>1, <2>2
<1> HIDE DEF r
<1>3. r.rc = "ok" /\ ReadInt(f, item).val = << r.val >>
  BY <1>1, OneOf
<1>4. IsUnit(f, r.val)
  BY <1>2, <1>3 DEF IsUnit, Ints, Texts
<1>5. f # "slave_itvl"
  BY DEF Ints
<1> QED
  BY <1>3, <1>4, <1>5, SingleFits

\* Flags that were read fit one byte.
LEMMA FlagsFit ==
  ASSUME NEW item, ReadFlags(item).rc = "ok"
  PROVE  IsUnits("flags", ReadFlags(item).val)
<1> DEFINE r == IntBounds(item, 0, UINT8_MAX)
<1>1. ReadFlags(item) = IF One(r) = Got(<< 0 >>) THEN Failed("SYS_EINVAL") ELSE One(r)
  BY DEF ReadFlags
<1>2. r.rc = "ok" => r.val \in 0 .. UINT8_MAX
  BY BoundsKept
<1> HIDE DEF r
<1>2a. ReadFlags(item) = One(r)
  BY <1>1, Codes
<1>3. r.rc = "ok" /\ ReadFlags(item).val = << r.val >>
  BY <1>2a, OneOf
<1>4. IsUnit("flags", r.val)
  BY <1>2, <1>3 DEF IsUnit, Texts
<1> QED
  BY <1>3, <1>4, SingleFits

\* Each field is of one of six kinds.
LEMMA FieldKinds ==
  \A f \in Fields : f \in {"slave_itvl", "flags"} \cup Ints \cup Lists \cup Texts \cup ByteFields
BY FieldsAre DEF Ints, Lists, Texts, ByteFields

\* Which reader reads a field that is there.
LEMMA ReadWith ==
  ASSUME NEW par, NEW f, ParamOf(f) \in DOMAIN par
  PROVE  /\ f = "slave_itvl" => ReadField(f, par) = ReadRange(par)
         /\ f = "flags" => ReadField(f, par) = ReadFlags(par[f])
         /\ f \in Ints => ReadField(f, par) = ReadInt(f, par[f])
         /\ f \in Lists => ReadField(f, par) = ReadList(f, par[f])
         /\ f \in Texts => ReadField(f, par) = ReadText(par[f])
         /\ f \in ByteFields => ReadField(f, par) = HexString(par[f], MaxFieldSz)
<1>1. CASE f = "slave_itvl"
  BY <1>1 DEF ReadField, Ints, Lists, Texts, ByteFields
<1>2. CASE f = "flags"
  BY <1>2 DEF ReadField, Ints, Lists, Texts, ByteFields
<1>3. CASE f \in Ints
  BY <1>3 DEF ReadField, Ints, Lists, Texts, ByteFields
<1>4. CASE f \in Lists
  BY <1>4 DEF ReadField, Ints, Lists, Texts, ByteFields
<1>5. CASE f \in Texts
  BY <1>5 DEF ReadField, Ints, Lists, Texts, ByteFields
<1>6. CASE f \in ByteFields
  BY <1>6 DEF ReadField, Ints, Lists, Texts, ByteFields
<1> QED
  BY <1>1, <1>2, <1>3, <1>4, <1>5, <1>6

\* Whatever a field is read from, it fits.
LEMMA ReadFieldFits ==
  ASSUME NEW par, IsObject(par), NEW f \in Fields, ReadField(f, par).rc = "ok"
  PROVE  IsUnits(f, ReadField(f, par).val)
<1>1. CASE ParamOf(f) \notin DOMAIN par
  <2>1. ReadField(f, par) = Got(<< >>)
    BY <1>1 DEF ReadField
  <2> QED
    BY <2>1, Codes, NoUnits
<1>2. CASE ParamOf(f) \in DOMAIN par
  <2>1. f # "slave_itvl" => f \in DOMAIN par /\ IsItem(par[f])
    BY <1>2 DEF ParamOf, IsObject
  <2>2. CASE f = "slave_itvl"
    BY <1>2, <2>2, ReadWith, RangeFits
  <2>3. CASE f = "flags"
    BY <1>2, <2>3, ReadWith, FlagsFit
  <2>4. CASE f \in Ints
    BY <1>2, <2>4, ReadWith, IntFits
  <2>5. CASE f \in Lists
    <3>1. f # "slave_itvl"
      BY <2>5 DEF Lists
    <3> QED
      BY <1>2, <2>1, <2>5, <3>1, ReadWith, ListFits
  <2>6. CASE f \in Texts
    <3>1. f # "slave_itvl"
      BY <2>6 DEF Texts
    <3> QED
      BY <1>2, <2>1, <2>6, <3>1, ReadWith, TextFits
  <2>7. CASE f \in ByteFields
    <3>1. f # "slave_itvl"
      BY <2>7 DEF ByteFields
    <3> QED
      BY <1>2, <2>1, <2>7, <3>1, ReadWith, BytesRead
  <2> QED
    BY <2>2, <2>3, <2>4, <2>5, <2>6, <2>7, FieldKinds
<1> QED
  BY <1>1, <1>2

-----------------------------------------------------------------------------
(* The elements of a request.                                              *)

\* The loop over the fields that makes elements.
LEMMA ElementsLoop ==
  ASSUME NEW a
  PROVE  \E list : /\ list[0] = << >>
                   /\ \A k \in 1 .. 15 :
                        list[k] = IF a.units[FieldOrder[k]] = << >> THEN list[k - 1]
                                  ELSE Append(list[k - 1], Element(FieldOrder[k], a))
                   /\ \A k \in 0 .. 15 : IsSequence(list[k])
                   /\ Elements(a) = list[15]
<1> DEFINE E(k) == Element(FieldOrder[k], a)
           None(k) == a.units[FieldOrder[k]] = << >>
           S == {E(k) : k \in 1 .. 15}
           T == Seq(S)
           F == [k \in 1 .. 15 |-> [x \in T |-> IF None(k) THEN x ELSE Append(x, E(k))]]
           Is(f) == f = [n \in 0 .. 15 |-> IF n = 0 THEN << >>
                                          ELSE IF None(n) THEN f[n - 1] ELSE Append(f[n - 1], E(n))]
           list == CHOOSE f : Is(f)
<1>1. \A k \in 1 .. 15 : \A x \in T : F[k][x] \in T
  <2> SUFFICES ASSUME NEW k \in 1 .. 15, NEW x \in T PROVE F[k][x] \in T
    OBVIOUS
  <2>1. E(k) \in S
    OBVIOUS
  <2>2. F[k][x] = IF None(k) THEN x ELSE Append(x, E(k))
    OBVIOUS
  <2> HIDE DEF E, None, S, F
  <2>3. Append(x, E(k)) \in T
    BY <2>1, AppendProperties
  <2> QED
    BY <2>2, <2>3
<1>2. << >> \in T
  <2> HIDE DEF S
  <2> QED
    BY EmptySeq
<1>3. PICK f : Rounds(f, 15, << >>, F) /\ \A k \in 0 .. 15 : f[k] \in T
  <2> HIDE DEF F, T
  <2>1. 15 \in Nat
    OBVIOUS
  <2> QED
    BY <1>1, <1>2, <2>1, LoopRuns
<1>4. Is(f)
  <2> HIDE DEF E, None, S
  <2>1. \A k \in 0 .. 15 : k # 0 => k \in 1 .. 15 /\ k - 1 \in 0 .. 15
    OBVIOUS
  <2>2. \A k \in 0 .. 15 : k # 0 => F[k][f[k - 1]] = IF None(k) THEN f[k - 1] ELSE Append(f[k - 1], E(k))
    <3> HIDE DEF T
    <3> QED
      BY <1>3, <2>1
  <2> HIDE DEF F, T
  <2>3. f = [n \in 0 .. 15 |-> IF n = 0 THEN << >> ELSE F[n][f[n - 1]]]
    BY <1>3 DEF Rounds
  <2> QED
    BY <2>2, <2>3
<1>5. Is(list)
  <2> HIDE DEF E, None
  <2> QED
    BY <1>4, Zenon
<1>6. Elements(a) = list[15]
  <2>1. Len(FieldOrder) = 15
    BY FieldsAre
  <2> DEFINE Ib(g) == g = [n \in 0 .. Len(FieldOrder) |-> IF n = 0 THEN << >>
                             ELSE LET h == FieldOrder[n]
                                  IN IF a.units[h] = << >> THEN g[n - 1] ELSE Append(g[n - 1], Element(h, a))]
  <2>2. Elements(a) = (CHOOSE g : Ib(g))[Len(FieldOrder)]
    BY Zenon DEF Elements
  <2>3. \A g : Ib(g) <=> Is(g)
    BY <2>1, Zenon
  <2> HIDE DEF Ib, Is
  <2>4. (CHOOSE g : Ib(g)) = (CHOOSE g : Is(g))
    BY <2>3, Zenon
  <2> QED
    BY <2>1, <2>2, <2>4, Zenon
<1> HIDE DEF list
<1>7. /\ list[0] = << >>
      /\ \A k \in 1 .. 15 : list[k] = IF None(k) THEN list[k - 1] ELSE Append(list[k - 1], E(k))
  <2> HIDE DEF E, None
  <2>1. 0 \in 0 .. 15 /\ \A k \in 1 .. 15 : k \in 0 .. 15 /\ k # 0
    OBVIOUS
  <2> QED
    BY <1>5, <2>1
<1>8. \A k \in 0 .. 15 : list[k] \in T
  <2> DEFINE A == {k \in 0 .. 15 : list[k] \in T}
  <2>1. 0 \in A
    <3>1. list[0] \in T
      BY <1>2, <1>7
    <3> HIDE DEF T
    <3> QED
      BY <3>1
  <2>2. ASSUME NEW n \in 0 .. 15 - 1, n \in A PROVE n + 1 \in A
    <3>1. n + 1 \in 1 .. 15 /\ n + 1 \in 0 .. 15 /\ (n + 1) - 1 = n
      OBVIOUS
    <3>2. list[n + 1] = IF None(n + 1) THEN list[n] ELSE Append(list[n], E(n + 1))
      <4> HIDE DEF E, None
      <4> QED
        BY <1>7, <3>1
    <3>3. E(n + 1) \in S
      BY <3>1
    <3>4. list[n] \in T
      BY <2>2
    <3> HIDE DEF E, None, S
    <3>5. Append(list[n], E(n + 1)) \in T
      BY <3>3, <3>4, AppendProperties
    <3> QED
      BY <3>1, <3>2, <3>4, <3>5
  <2>3. \A n \in 0 .. 15 : n \in A
    <3> HIDE DEF A
    <3>1. 15 \in Nat
      OBVIOUS
    <3> QED
      BY <2>1, <2>2, <3>1, UpTo
  <2> QED
    BY <2>3
<1>9. \A k \in 0 .. 15 : IsSequence(list[k])
  <2> HIDE DEF S
  <2> QED
    BY <1>8, IsIn
<1> QED
  BY <1>6, <1>7, <1>9

\* What the element of a field says.
LEMMA ElementFields ==
  ASSUME NEW f, NEW a
  PROVE  /\ Element(f, a).field = f
         /\ Element(f, a).payload = Payload(f, a.units[f])
         /\ Element(f, a).complete = (f \in HasComplete /\ a.complete[f])
         /\ Element(f, a) = [field |-> Element(f, a).field, payload |-> Element(f, a).payload,
                             complete |-> Element(f, a).complete]
BY DEF Element

\* Elements come from fields, and in their order.
LEMMA ElementsOrdered ==
  ASSUME NEW a
  PROVE  /\ IsSequence(Elements(a))
         /\ \A m \in 1 .. Len(Elements(a)) :
              \E i \in 1 .. 15 : /\ Elements(a)[m] = Element(FieldOrder[i], a)
                                 /\ a.units[FieldOrder[i]] # << >>
         /\ InOrder(Elements(a))
<1> DEFINE E(k) == Element(FieldOrder[k], a)
           None(k) == a.units[FieldOrder[k]] = << >>
<1>1. PICK list : /\ list[0] = << >>
                  /\ \A k \in 1 .. 15 : list[k] = IF None(k) THEN list[k - 1] ELSE Append(list[k - 1], E(k))
                  /\ \A k \in 0 .. 15 : IsSequence(list[k])
                  /\ Elements(a) = list[15]
  BY ElementsLoop
<1>0. \A k : E(k).field = FieldOrder[k]
  BY ElementFields
<1> HIDE DEF E, None
<1> DEFINE From(s, k) == \A m \in 1 .. Len(s) : \E i \in 1 .. k : s[m] = E(i) /\ ~None(i)
           Ord(s, k) == \A m, n \in 1 .. Len(s) :
                          m < n => \E i, j \in 1 .. k : /\ i < j /\ s[m].field = FieldOrder[i]
                                                        /\ s[n].field = FieldOrder[j]
           A == {k \in 0 .. 15 : From(list[k], k) /\ Ord(list[k], k)}
<1>2. 0 \in A
  <2>1. \A m \in 1 .. Len(list[0]) : FALSE
    BY <1>1, EmptySequence
  <2> QED
    BY <2>1
<1>3. ASSUME NEW k \in 0 .. 15 - 1, k \in A PROVE k + 1 \in A
  <2>1. k + 1 \in 1 .. 15 /\ k + 1 \in 0 .. 15 /\ (k + 1) - 1 = k /\ k \in 0 .. 15
    OBVIOUS
  <2>2. list[k + 1] = IF None(k + 1) THEN list[k] ELSE Append(list[k], E(k + 1))
    BY <1>1, <2>1
  <2> DEFINE s == list[k]
             t == list[k + 1]
  <2>3. IsSequence(s) /\ From(s, k) /\ Ord(s, k)
    BY <1>1, <1>3, <2>1
  <2>4. 1 .. k \subseteq 1 .. (k + 1) /\ k + 1 \in 1 .. (k + 1) /\ \A i \in 1 .. k : i < k + 1
    OBVIOUS
  <2>5. t = IF None(k + 1) THEN s ELSE Append(s, E(k + 1))
    BY <2>2
  <2> HIDE DEF s, t
  <2>6. CASE None(k + 1)
    <3>1. t = s
      BY <2>5, <2>6
    <3>2. From(s, k + 1)
      BY <2>3, <2>4
    <3>3. Ord(s, k + 1)
      <4> SUFFICES ASSUME NEW m \in 1 .. Len(s), NEW n \in 1 .. Len(s), m < n
                   PROVE  \E i, j \in 1 .. k + 1 : /\ i < j /\ s[m].field = FieldOrder[i]
                                                   /\ s[n].field = FieldOrder[j]
        OBVIOUS
      <4>1. PICK i \in 1 .. k, j \in 1 .. k : i < j /\ s[m].field = FieldOrder[i] /\ s[n].field = FieldOrder[j]
        BY <2>3
      <4> QED
        BY <2>4, <4>1
    <3>4. From(t, k + 1) /\ Ord(t, k + 1)
      BY <3>1, <3>2, <3>3
    <3> QED
      BY <2>1, <3>4 DEF t
  <2>7. CASE ~None(k + 1)
    <3>1. t = Append(s, E(k + 1))
      BY <2>5, <2>7
    <3>2. /\ Len(t) = Len(s) + 1 /\ \A m \in 1 .. Len(s) : t[m] = s[m]
          /\ t[Len(s) + 1] = E(k + 1)
      BY <2>3, <3>1, Appended
    <3>3. Len(s) \in Nat
      BY <2>3, SequenceIs
    <3>4. From(t, k + 1)
      <4> SUFFICES ASSUME NEW m \in 1 .. Len(t) PROVE \E i \in 1 .. k + 1 : t[m] = E(i) /\ ~None(i)
        OBVIOUS
      <4>1. CASE m = Len(s) + 1
        BY <2>4, <2>7, <3>2, <4>1
      <4>2. CASE m # Len(s) + 1
        <5>1. m \in 1 .. Len(s)
          BY <3>2, <3>3, <4>2
        <5>2. PICK i \in 1 .. k : s[m] = E(i) /\ ~None(i)
          BY <2>3, <5>1
        <5> QED
          BY <2>4, <3>2, <5>1, <5>2
      <4> QED
        BY <4>1, <4>2
    <3>5. Ord(t, k + 1)
      <4> SUFFICES ASSUME NEW m \in 1 .. Len(t), NEW n \in 1 .. Len(t), m < n
                   PROVE  \E i, j \in 1 .. k + 1 : /\ i < j /\ t[m].field = FieldOrder[i]
                                                   /\ t[n].field = FieldOrder[j]
        OBVIOUS
      <4>1. m \in 1 .. Len(s)
        BY <3>2, <3>3
      <4>2. CASE n = Len(s) + 1
        <5>1. PICK i \in 1 .. k : s[m] = E(i)
          BY <2>3, <4>1
        <5>2. t[m].field = FieldOrder[i] /\ t[n].field = FieldOrder[k + 1]
          BY <1>0, <3>2, <4>1, <4>2, <5>1
        <5> QED
          BY <2>4, <5>2
      <4>3. CASE n # Len(s) + 1
        <5>1. n \in 1 .. Len(s)
          BY <3>2, <3>3, <4>3
        <5>2. PICK i \in 1 .. k, j \in 1 .. k : i < j /\ s[m].field = FieldOrder[i] /\ s[n].field = FieldOrder[j]
          BY <2>3, <4>1, <5>1
        <5>3. t[m].field = FieldOrder[i] /\ t[n].field = FieldOrder[j]
          BY <3>2, <4>1, <5>1, <5>2
        <5> QED
          BY <2>4, <5>2, <5>3
      <4> QED
        BY <4>2, <4>3
    <3>6. From(t, k + 1) /\ Ord(t, k + 1)
      BY <3>4, <3>5
    <3> QED
      BY <2>1, <3>6 DEF t
  <2> QED
    BY <2>6, <2>7
<1>4. \A k \in 0 .. 15 : k \in A
  <2> HIDE DEF A
  <2>1. 15 \in Nat
    OBVIOUS
  <2> QED
    BY <1>2, <1>3, <2>1, UpTo
<1>5. 15 \in 0 .. 15
  OBVIOUS
<1> DEFINE els == Elements(a)
<1>6. IsSequence(els) /\ From(els, 15) /\ Ord(els, 15)
  <2>1. From(list[15], 15) /\ Ord(list[15], 15)
    <3>1. 15 \in A
      BY <1>4, <1>5
    <3> QED
      BY <3>1
  <2>2. els = list[15] /\ IsSequence(list[15])
    BY <1>1, <1>5
  <2> HIDE DEF els, From, Ord
  <2> QED
    BY <2>1, <2>2, Zenon
<1> HIDE DEF els
<1>7. InOrder(els)
  <2>1. DOMAIN els = 1 .. Len(els) /\ DOMAIN FieldOrder = 1 .. 15
    BY <1>6, SequenceIs, FieldsAre
  <2>2. \A m, n \in DOMAIN els :
          m < n => \E i, j \in DOMAIN FieldOrder : /\ i < j /\ els[m].field = FieldOrder[i]
                                                  /\ els[n].field = FieldOrder[j]
    <3> SUFFICES ASSUME NEW m \in DOMAIN els, NEW n \in DOMAIN els, m < n
                 PROVE  \E i, j \in DOMAIN FieldOrder : /\ i < j /\ els[m].field = FieldOrder[i]
                                                      /\ els[n].field = FieldOrder[j]
      OBVIOUS
    <3>1. m \in 1 .. Len(els) /\ n \in 1 .. Len(els)
      BY <2>1
    <3>2. PICK i \in 1 .. 15, j \in 1 .. 15 : i < j /\ els[m].field = FieldOrder[i] /\ els[n].field = FieldOrder[j]
      BY <1>6, <3>1
    <3> QED
      BY <2>1, <3>2
  <2> QED
    BY <2>2 DEF InOrder
<1>8. \A m \in 1 .. Len(els) : \E i \in 1 .. 15 : els[m] = Element(FieldOrder[i], a) /\ a.units[FieldOrder[i]] # << >>
  BY <1>6 DEF E, None
<1> QED
  BY <1>6, <1>7, <1>8 DEF els

\* A request whose fields are these elements has these elements again.
LEMMA ElementsAgain ==
  ASSUME NEW a, NEW els, IsSequence(els), InOrder(els),
         \A n \in 1 .. Len(els) : /\ els[n].field \in Fields
                                  /\ els[n] = Element(els[n].field, a)
                                  /\ a.units[els[n].field] # << >>,
         \A f \in Fields : (\A n \in 1 .. Len(els) : els[n].field # f) => a.units[f] = << >>
  PROVE  Elements(a) = els
<1> DEFINE E(k) == Element(FieldOrder[k], a)
           None(k) == a.units[FieldOrder[k]] = << >>
           L == Len(els)
           Pl(n) == CHOOSE i \in 1 .. 15 : FieldOrder[i] = els[n].field
<1>1. PICK list : /\ list[0] = << >>
                  /\ \A k \in 1 .. 15 : list[k] = IF None(k) THEN list[k - 1] ELSE Append(list[k - 1], E(k))
                  /\ \A k \in 0 .. 15 : IsSequence(list[k])
                  /\ Elements(a) = list[15]
  BY ElementsLoop
<1>2. L \in Nat /\ DOMAIN els = 1 .. L
  BY SequenceIs
<1>3. \A n \in 1 .. L : Pl(n) \in 1 .. 15 /\ FieldOrder[Pl(n)] = els[n].field
  <2> SUFFICES ASSUME NEW n \in 1 .. L PROVE Pl(n) \in 1 .. 15 /\ FieldOrder[Pl(n)] = els[n].field
    OBVIOUS
  <2>1. \E i \in 1 .. 15 : FieldOrder[i] = els[n].field
    BY FieldsAre
  <2> QED
    BY <2>1, Zenon
<1>4. \A n \in 1 .. L : els[n] = E(Pl(n)) /\ ~None(Pl(n))
  <2> HIDE DEF Pl
  <2> QED
    BY <1>3
<1>5. ASSUME NEW k \in 1 .. 15, ~None(k) PROVE \E n \in 1 .. L : Pl(n) = k
  <2>1. FieldOrder[k] \in Fields
    BY FieldsAre
  <2>2. PICK n \in 1 .. L : els[n].field = FieldOrder[k]
    BY <1>5, <2>1
  <2> HIDE DEF Pl
  <2>3. Pl(n) \in 1 .. 15 /\ FieldOrder[Pl(n)] = FieldOrder[k]
    BY <1>3, <2>2
  <2> QED
    BY <2>3, FieldsDiffer
<1> HIDE DEF Pl
<1>6. \A m, n \in 1 .. L : m < n => Pl(m) < Pl(n)
  <2> SUFFICES ASSUME NEW m \in 1 .. L, NEW n \in 1 .. L, m < n PROVE Pl(m) < Pl(n)
    OBVIOUS
  <2>1. PICK i \in 1 .. 15, j \in 1 .. 15 : i < j /\ els[m].field = FieldOrder[i] /\ els[n].field = FieldOrder[j]
    <3>1. DOMAIN FieldOrder = 1 .. 15
      BY FieldsAre
    <3>2. \E i, j \in DOMAIN FieldOrder : i < j /\ els[m].field = FieldOrder[i] /\ els[n].field = FieldOrder[j]
      BY <1>2 DEF InOrder
    <3> HIDE DEF L
    <3> QED
      BY <3>1, <3>2
  <2>2. Pl(m) = i /\ Pl(n) = j
    <3>1. /\ Pl(m) \in 1 .. 15 /\ FieldOrder[Pl(m)] = FieldOrder[i]
          /\ Pl(n) \in 1 .. 15 /\ FieldOrder[Pl(n)] = FieldOrder[j]
      <4> HIDE DEF L
      <4> QED
        BY <1>3, <2>1
    <3> QED
      BY <3>1, FieldsDiffer
  <2> QED
    BY <2>1, <2>2
<1> HIDE DEF E, None
<1> DEFINE Inv(s, k) == /\ Len(s) <= L
                        /\ \A m \in 1 .. Len(s) : s[m] = els[m] /\ Pl(m) <= k
                        /\ \A m \in 1 .. L : m > Len(s) => Pl(m) > k
           A == {k \in 0 .. 15 : Inv(list[k], k)}
<1>7. 0 \in A
  <2>1. Len(list[0]) = 0
    BY <1>1, EmptySequence
  <2>2. \A m \in 1 .. L : Pl(m) > 0
    <3> HIDE DEF L
    <3>1. \A m \in 1 .. L : Pl(m) \in 1 .. 15
      BY <1>3
    <3> QED
      BY <3>1
  <2> QED
    BY <1>2, <2>1, <2>2
<1>8. ASSUME NEW k \in 0 .. 15 - 1, k \in A PROVE k + 1 \in A
  <2>1. k + 1 \in 1 .. 15 /\ k + 1 \in 0 .. 15 /\ (k + 1) - 1 = k /\ k \in 0 .. 15
    OBVIOUS
  <2> DEFINE s == list[k]
             t == list[k + 1]
             c == Len(s)
  <2>2. t = IF None(k + 1) THEN s ELSE Append(s, E(k + 1))
    BY <1>1, <2>1
  <2>3. IsSequence(s) /\ Inv(s, k)
    BY <1>1, <1>8, <2>1
  <2>4. c \in Nat
    BY <2>3, SequenceIs
  <2> HIDE DEF s, t
  <2>5. CASE None(k + 1)
    <3>1. t = s
      BY <2>2, <2>5
    <3>2. \A m \in 1 .. L : Pl(m) # k + 1 /\ Pl(m) \in Int
      <4> SUFFICES ASSUME NEW m \in 1 .. L PROVE Pl(m) # k + 1 /\ Pl(m) \in Int
        OBVIOUS
      <4>1. Pl(m) \in 1 .. 15 /\ ~None(Pl(m))
        BY <1>3, <1>4
      <4> HIDE DEF Pl, None
      <4> QED
        BY <2>5, <4>1
    <3>3. \A m \in 1 .. c : Pl(m) <= k /\ m \in 1 .. L
      BY <1>2, <2>3, <2>4
    <3>4. \A m \in 1 .. c : Pl(m) <= k + 1
      <4> HIDE DEF Pl
      <4> QED
        BY <2>1, <3>2, <3>3
    <3>5. \A m \in 1 .. L : m > c => Pl(m) > k + 1
      <4> SUFFICES ASSUME NEW m \in 1 .. L, m > c PROVE Pl(m) > k + 1
        OBVIOUS
      <4>1. Pl(m) > k
        BY <2>3
      <4> HIDE DEF Pl
      <4> QED
        BY <2>1, <3>2, <4>1
    <3>6. Inv(s, k + 1)
      BY <2>3, <3>4, <3>5
    <3>7. Inv(t, k + 1)
      BY <3>1, <3>6
    <3> QED
      BY <2>1, <3>7 DEF t
  <2>6. CASE ~None(k + 1)
    <3>1. t = Append(s, E(k + 1))
      BY <2>2, <2>6
    <3>2. /\ Len(t) = c + 1 /\ \A m \in 1 .. c : t[m] = s[m]
          /\ t[c + 1] = E(k + 1)
      BY <2>3, <3>1, Appended
    <3>3. PICK n \in 1 .. L : Pl(n) = k + 1
      BY <1>5, <2>1, <2>6
    <3>4. ~(n <= c)
      <4> SUFFICES ASSUME n <= c PROVE FALSE
        OBVIOUS
      <4>1. n \in 1 .. c
        BY <2>4
      <4>2. Pl(n) <= k
        BY <2>3, <4>1
      <4>3. ~(k + 1 <= k)
        <5>1. k \in Int
          BY <2>1
        <5> HIDE DEF L, c, s, t
        <5> QED
          BY <5>1
      <4> HIDE DEF Pl
      <4> QED
        BY <3>3, <4>2, <4>3, Zenon
    <3>5. n = c + 1
      <4> SUFFICES ASSUME n # c + 1 PROVE FALSE
        OBVIOUS
      <4>1. c + 1 \in 1 .. L /\ c + 1 < n /\ c + 1 > c
        BY <1>2, <2>4, <3>4
      <4>2. Pl(c + 1) > k /\ Pl(c + 1) < Pl(n) /\ Pl(c + 1) \in 1 .. 15
        BY <1>3, <1>6, <2>3, <4>1
      <4>3. \A q \in Int : ~(q > k /\ q < k + 1)
        BY <2>1
      <4>4. Pl(c + 1) \in Int
        BY <4>2
      <4> HIDE DEF Pl
      <4> QED
        BY <3>3, <4>2, <4>3, <4>4, Zenon
    <3>6. \A m \in 1 .. c : t[m] = els[m] /\ Pl(m) <= k + 1
      <4> SUFFICES ASSUME NEW m \in 1 .. c PROVE t[m] = els[m] /\ Pl(m) <= k + 1
        OBVIOUS
      <4>1. Pl(m) <= k /\ s[m] = els[m] /\ m \in 1 .. L
        BY <1>2, <2>3, <2>4
      <4>2. Pl(m) \in Int
        <5>1. Pl(m) \in 1 .. 15
          <6> HIDE DEF L
          <6> QED
            BY <1>3, <4>1
        <5> QED
          BY <5>1
      <4> QED
        BY <3>2, <4>1, <4>2
    <3>7. t[c + 1] = els[c + 1] /\ Pl(c + 1) <= k + 1
      BY <1>4, <3>2, <3>3, <3>5
    <3>8. \A m \in 1 .. L : m > c + 1 => Pl(m) > k + 1
      BY <1>6, <3>3, <3>5, <1>3
    <3>9. Len(t) <= L
      BY <3>2, <3>5, <1>2
    <3>10. \A m \in 1 .. Len(t) : m \in 1 .. c \/ m = c + 1
      BY <2>4, <3>2
    <3>11. Inv(t, k + 1)
      <4>1. \A m \in 1 .. Len(t) : t[m] = els[m] /\ Pl(m) <= k + 1
        BY <3>6, <3>7, <3>10
      <4>2. \A m \in 1 .. L : m > Len(t) => Pl(m) > k + 1
        BY <3>2, <3>8
      <4> QED
        BY <3>9, <4>1, <4>2
    <3> QED
      BY <2>1, <3>11 DEF t
  <2> QED
    BY <2>5, <2>6
<1>9. \A k \in 0 .. 15 : k \in A
  <2> HIDE DEF A
  <2>1. 15 \in Nat
    OBVIOUS
  <2> QED
    BY <1>7, <1>8, <2>1, UpTo
<1>10. Inv(list[15], 15) /\ IsSequence(list[15])
  BY <1>1, <1>9
<1>11. Len(list[15]) = L
  <2> SUFFICES ASSUME Len(list[15]) # L PROVE FALSE
    OBVIOUS
  <2>1. Len(list[15]) \in Nat /\ Len(list[15]) <= L
    BY <1>10, SequenceIs
  <2>2. L \in 1 .. L /\ L > Len(list[15])
    BY <1>2, <2>1
  <2>3. Pl(L) > 15 /\ Pl(L) \in 1 .. 15
    BY <1>3, <1>10, <2>2
  <2> QED
    BY <2>3
<1>12. list[15] = els
  <2>1. \A k \in 1 .. Len(list[15]) : list[15][k] = els[k]
    BY <1>10
  <2> HIDE DEF L
  <2> QED
    BY <1>10, <1>11, <2>1, SameSequence DEF L
<1> QED
  BY <1>1, <1>12

\* Two numbers are four bytes.
LEMMA FourBytes ==
  ASSUME NEW x1, NEW x2, NEW y1, NEW y2
  PROVE  LET b == << x1, x2 >> \o << y1, y2 >>
         IN /\ IsSequence(b) /\ Len(b) = 4
            /\ b[1] = x1 /\ b[2] = x2 /\ b[3] = y1 /\ b[4] = y2
<1> DEFINE s == << x1, x2 >>
           t == << y1, y2 >>
           S == {x1, x2, y1, y2}
           b == s \o t
<1>1. s \in Seq(S) /\ t \in Seq(S) /\ Len(s) = 2 /\ Len(t) = 2
  OBVIOUS
<1>2. s[1] = x1 /\ s[2] = x2 /\ t[1] = y1 /\ t[2] = y2
  OBVIOUS
<1> HIDE DEF s, t, S
<1>3. b \in Seq(S) /\ Len(b) = 4
  BY <1>1, ConcatProperties
<1>4. \A i \in 1 .. Len(s) + Len(t) : b[i] = IF i <= Len(s) THEN s[i] ELSE t[i - Len(s)]
  BY <1>1, ConcatProperties
<1> DEFINE n == Len(s)
           m == Len(t)
<1> HIDE DEF b
<1>4a. n = 2 /\ m = 2 /\ \A i \in 1 .. n + m : b[i] = IF i <= n THEN s[i] ELSE t[i - n]
  BY <1>1, <1>4
<1> HIDE DEF n, m
<1>5. b[1] = s[1] /\ b[2] = s[2] /\ b[3] = t[1] /\ b[4] = t[2]
  BY <1>4a
<1>6. IsSequence(b)
  BY <1>3, IsIn
<1> QED
  BY <1>2, <1>3, <1>5, <1>6 DEF s, t, b

\* A number of 16 bits is two bytes, from which it can be put together.
LEMMA TwoBytes ==
  ASSUME NEW x \in 0 .. UINT16_MAX
  PROVE  /\ x \div 256 \in 0 .. UINT8_MAX /\ x % 256 \in 0 .. UINT8_MAX
         /\ \E q, r \in 0 .. UINT8_MAX : x \div 256 = q /\ x % 256 = r /\ q * 256 + r = x
<1>1. x \in Int /\ 0 <= x /\ x <= 256 * 256 - 1
  <2>1. UINT16_MAX = 256 * 256 - 1
    BY Zenon DEF UINT16_MAX
  <2>2. UINT16_MAX \in Int
    <3>1. 256 * 256 - 1 \in Int
      BY SMT
    <3> QED
      BY <2>1, <3>1, Zenon
  <2>3. \A n \in Int : x \in 0 .. n => x \in Int /\ 0 <= x /\ x <= n
    OBVIOUS
  <2>4. x \in Int /\ 0 <= x /\ x <= UINT16_MAX
    BY <2>2, <2>3, Zenon
  <2> QED
    BY <2>1, <2>4, Zenon
<1>2. x \div 256 \in Int /\ x % 256 \in Int
  BY <1>1, SMT
<1>3. 0 <= x \div 256 /\ x \div 256 <= 255
  BY <1>1, SMT
<1>4. 0 <= x % 256 /\ x % 256 <= 255
  BY <1>1, SMT
<1>5. x % 256 = x - 256 * (x \div 256)
  BY <1>1, SMT
<1>6. x \div 256 \in 0 .. UINT8_MAX /\ x % 256 \in 0 .. UINT8_MAX
  BY <1>2, <1>3, <1>4, SMT DEF UINT8_MAX
<1> DEFINE q == x \div 256
           r == x % 256
<1>7. q \in 0 .. UINT8_MAX /\ r \in 0 .. UINT8_MAX /\ q \in Int /\ r \in Int /\ r = x - 256 * q
  BY <1>2, <1>5, <1>6
<1>8. x \div 256 = q /\ x % 256 = r
  OBVIOUS
<1> HIDE DEF q, r
<1>9. q * 256 + r = x
  BY <1>1, <1>7, SMT
<1> QED
  BY <1>6, <1>7, <1>8, <1>9, SMT

\* Two bytes are one number, which can be taken apart.
LEMMA OneNumber ==
  ASSUME NEW x \in 0 .. UINT8_MAX, NEW y \in 0 .. UINT8_MAX
  PROVE  /\ x * 256 + y \in 0 .. UINT16_MAX
         /\ (x * 256 + y) \div 256 = x /\ (x * 256 + y) % 256 = y
<1>1. x \in Int /\ 0 <= x /\ x <= 255 /\ y \in Int /\ 0 <= y /\ y <= 255
  BY SMT DEF UINT8_MAX
<1>2. x * 256 + y \in 0 .. UINT16_MAX
  <2>1. x * 256 \in Int /\ 0 <= x * 256 /\ x * 256 <= 65280
    BY <1>1, SMT
  <2>2. x * 256 + y \in Int /\ 0 <= x * 256 + y /\ x * 256 + y <= 256 * 256 - 1
    BY <1>1, <2>1, SMT
  <2> DEFINE v == x * 256 + y
  <2> HIDE DEF v
  <2>3. v \in Int /\ 0 <= v /\ v <= 256 * 256 - 1
    BY <2>2, SMT DEF v
  <2>4. UINT16_MAX \in Int /\ 256 * 256 - 1 <= UINT16_MAX
    BY SMT DEF UINT16_MAX
  <2>5. v \in 0 .. UINT16_MAX
    BY <2>3, <2>4, SMT
  <2> QED
    BY <2>5 DEF v
<1>3. (x * 256 + y) \div 256 = x
  BY <1>1, SMT
<1>4. (x * 256 + y) % 256 = y
  BY <1>1, SMT
<1> QED
  BY <1>2, <1>3, <1>4, SMT

\* put_be16() of both ends of a range, and what bhd_gap_send_scan_evt() makes of it.
LEMMA RangeBytes ==
  ASSUME NEW lo \in 0 .. UINT16_MAX, NEW hi \in 0 .. UINT16_MAX
  PROVE  LET b == PutBe16(lo) \o PutBe16(hi)
         IN /\ IsSequence(b) /\ Len(b) = 4
            /\ \A k \in 1 .. 4 : b[k] \in 0 .. UINT8_MAX
            /\ Range16(b)[1] = lo /\ Range16(b)[2] = hi
<1> DEFINE b == PutBe16(lo) \o PutBe16(hi)
<1>1. /\ IsSequence(b) /\ Len(b) = 4
      /\ b[1] = lo \div 256 /\ b[2] = lo % 256 /\ b[3] = hi \div 256 /\ b[4] = hi % 256
  BY FourBytes, SMT DEF PutBe16
<1>2. PICK q1 \in 0 .. UINT8_MAX, r1 \in 0 .. UINT8_MAX :
        lo \div 256 = q1 /\ lo % 256 = r1 /\ q1 * 256 + r1 = lo
  BY TwoBytes
<1>2a. PICK q2 \in 0 .. UINT8_MAX, r2 \in 0 .. UINT8_MAX :
        hi \div 256 = q2 /\ hi % 256 = r2 /\ q2 * 256 + r2 = hi
  BY TwoBytes
<1>3. 1 .. 4 = {1, 2, 3, 4}
  OBVIOUS
<1>4. \A k \in {1, 2, 3, 4} : b[k] \in 0 .. UINT8_MAX
  <2> HIDE DEF b
  <2>1. /\ lo \div 256 \in 0 .. UINT8_MAX /\ lo % 256 \in 0 .. UINT8_MAX
        /\ hi \div 256 \in 0 .. UINT8_MAX /\ hi % 256 \in 0 .. UINT8_MAX
    BY <1>2, <1>2a, SMT
  <2> QED
    BY <1>1, <2>1
<1>5. GetBe16(b, 0) = b[1] * 256 + b[2] /\ GetBe16(b, 2) = b[3] * 256 + b[4]
  <2> HIDE DEF b
  <2> QED
    BY DEF GetBe16
<1>6. Range16(b) = << GetBe16(b, 0), GetBe16(b, 2) >>
  BY DEF Range16
<1> HIDE DEF b
<1>7. GetBe16(b, 0) = lo /\ GetBe16(b, 2) = hi
  BY <1>1, <1>2, <1>2a, <1>5, SMT
<1>8. Range16(b)[1] = lo /\ Range16(b)[2] = hi
  BY <1>6, <1>7
<1> QED
  BY <1>1, <1>3, <1>4, <1>8 DEF b

\* The other way round: four bytes are a range that is written as the same bytes.
LEMMA RangeBack ==
  ASSUME NEW b, IsSequence(b), Len(b) = 4, \A k \in 1 .. 4 : b[k] \in 0 .. UINT8_MAX
  PROVE  /\ Range16(b)[1] \in 0 .. UINT16_MAX /\ Range16(b)[2] \in 0 .. UINT16_MAX
         /\ PutBe16(Range16(b)[1]) \o PutBe16(Range16(b)[2]) = b
<1>0. b[1] \in 0 .. UINT8_MAX /\ b[2] \in 0 .. UINT8_MAX /\ b[3] \in 0 .. UINT8_MAX /\ b[4] \in 0 .. UINT8_MAX
  OBVIOUS
<1>1. GetBe16(b, 0) = b[1] * 256 + b[2] /\ GetBe16(b, 2) = b[3] * 256 + b[4]
  BY DEF GetBe16
<1>2. Range16(b)[1] = GetBe16(b, 0) /\ Range16(b)[2] = GetBe16(b, 2)
  BY DEF Range16
<1>3. \A x \in 0 .. UINT8_MAX : \A y \in 0 .. UINT8_MAX :
        /\ x * 256 + y \in 0 .. UINT16_MAX
        /\ (x * 256 + y) \div 256 = x /\ (x * 256 + y) % 256 = y
  BY OneNumber, SMT
<1>4. PutBe16(b[1] * 256 + b[2]) = << b[1], b[2] >> /\ PutBe16(b[3] * 256 + b[4]) = << b[3], b[4] >>
  BY <1>0, <1>3, SMT DEF PutBe16
<1> DEFINE c == << b[1], b[2] >> \o << b[3], b[4] >>
<1>5. IsSequence(c) /\ Len(c) = 4 /\ c[1] = b[1] /\ c[2] = b[2] /\ c[3] = b[3] /\ c[4] = b[4]
  BY FourBytes
<1>6. 1 .. 4 = {1, 2, 3, 4}
  OBVIOUS
<1> HIDE DEF c
<1>7. \A k \in 1 .. 4 : c[k] = b[k]
  BY <1>5, <1>6
<1>8. c = b
  BY <1>5, <1>7, SameSequence
<1> QED
  <2>1. Range16(b)[1] = b[1] * 256 + b[2] /\ Range16(b)[2] = b[3] * 256 + b[4]
    BY <1>1, <1>2, SMT
  <2>2. b[1] * 256 + b[2] \in 0 .. UINT16_MAX /\ b[3] * 256 + b[4] \in 0 .. UINT16_MAX
    BY <1>0, <1>3, SMT
  <2> DEFINE v == b[1] * 256 + b[2]
             w == b[3] * 256 + b[4]
  <2>3. /\ Range16(b)[1] = v /\ Range16(b)[2] = w /\ v \in 0 .. UINT16_MAX /\ w \in 0 .. UINT16_MAX
        /\ PutBe16(v) = << b[1], b[2] >> /\ PutBe16(w) = << b[3], b[4] >>
    BY <1>4, <2>1, <2>2
  <2> HIDE DEF v, w
  <2> QED
    BY <1>8, <2>3, SMT DEF c

-----------------------------------------------------------------------------
(* What is read of a request makes data.                                   *)

\* The element of a field that was read is one that other devices accept.
LEMMA ElementIs ==
  ASSUME NEW f \in Fields, NEW a, IsUnits(f, a.units[f]), a.units[f] # << >>
  PROVE  IsElement(Element(f, a)) /\ Element(f, a).payload # << >>
<1> DEFINE e == Element(f, a)
           u == a.units[f]
<1>1. /\ e.field = f /\ e.payload = Payload(f, u)
      /\ e.complete = (f \in HasComplete /\ a.complete[f])
      /\ e = [field |-> e.field, payload |-> e.payload, complete |-> e.complete]
  BY ElementFields
<1> HIDE DEF e
<1>2. e.complete \in BOOLEAN /\ (f \notin HasComplete => ~e.complete)
  BY <1>1
<1>3. CASE f = "slave_itvl"
  <2>1. Len(u) = 2 /\ u[1] \in 0 .. UINT16_MAX /\ u[2] \in 0 .. UINT16_MAX
    BY <1>3 DEF IsUnits
  <2>2. e.payload = PutBe16(u[1]) \o PutBe16(u[2])
    BY <1>1, <1>3 DEF Payload
  <2>3. IsSequence(e.payload) /\ Len(e.payload) = 4 /\ \A k \in 1 .. 4 : e.payload[k] \in 0 .. UINT8_MAX
    <3> DEFINE b == PutBe16(u[1]) \o PutBe16(u[2])
    <3>1. IsSequence(b) /\ Len(b) = 4 /\ \A k \in 1 .. 4 : b[k] \in 0 .. UINT8_MAX
      <4> HIDE DEF u
      <4> QED
        BY <2>1, RangeBytes
    <3> HIDE DEF b
    <3>2. e.payload = b
      BY <2>2 DEF b
    <3> QED
      BY <3>1, <3>2
  <2>4. e.payload # << >>
    BY <2>3, EmptySequence
  <2>5. \A x \in 0 .. UINT8_MAX : IsUnit("slave_itvl", x)
    BY DEF IsUnit, Texts
  <2>6. \A k \in 1 .. Len(e.payload) : IsUnit("slave_itvl", e.payload[k])
    BY <2>3, <2>5
  <2>7. f \notin {"flags", "tx_pwr_lvl", "appearance", "adv_itvl"}
    BY <1>3
  <2>8. IsElement(e)
    BY <1>1, <1>2, <1>3, <2>3, <2>6, <2>7 DEF IsElement
  <2> QED
    BY <2>4, <2>8 DEF e
<1>4. CASE f # "slave_itvl"
  <2>1. e.payload = u
    BY <1>1, <1>4 DEF Payload
  <2>2. IsSequence(u) /\ (\A k \in 1 .. Len(u) : IsUnit(f, u[k])) /\ (f \in SingleUnit => Len(u) <= 1)
    BY <1>4 DEF IsUnits
  <2>3. Len(u) \in Nat /\ Len(u) # 0
    <3>1. Len(u) \in Nat
      BY <2>2, SequenceIs
    <3>2. Len(u) = 0 => u = << >>
      BY <2>2 DEF IsSequence
    <3> QED
      BY <3>1, <3>2
  <2>4. f \in {"flags", "tx_pwr_lvl", "appearance", "adv_itvl"} => Len(u) = 1
    <3> DEFINE N == Len(u)
    <3>1. N \in Nat /\ N # 0 /\ (f \in SingleUnit => N <= 1)
      BY <2>2, <2>3
    <3> HIDE DEF N
    <3>2. f \in SingleUnit => N = 1
      BY <3>1
    <3> QED
      BY <3>2 DEF SingleUnit, N
  <2>5. IsElement(e)
    BY <1>1, <1>2, <1>4, <2>1, <2>2, <2>4 DEF IsElement
  <2> QED
    BY <2>1, <2>5 DEF e
<1> QED
  BY <1>3, <1>4

\* So are all the elements of a request, and they are in order.
LEMMA ElementsGood ==
  ASSUME NEW a, IsRead(a)
  PROVE  /\ IsSequence(Elements(a)) /\ InOrder(Elements(a))
         /\ \A n \in 1 .. Len(Elements(a)) : IsElement(Elements(a)[n]) /\ Elements(a)[n].payload # << >>
         /\ SizeOf(Elements(a)) <= MaxSz => IsData(Elements(a))
<1>1. IsSequence(Elements(a)) /\ InOrder(Elements(a))
  BY ElementsOrdered
<1>2. ASSUME NEW n \in 1 .. Len(Elements(a))
      PROVE  IsElement(Elements(a)[n]) /\ Elements(a)[n].payload # << >>
  <2>1. PICK i \in 1 .. 15 : Elements(a)[n] = Element(FieldOrder[i], a) /\ a.units[FieldOrder[i]] # << >>
    BY ElementsOrdered
  <2> DEFINE f == FieldOrder[i]
  <2>2. f \in Fields
    BY FieldsAre
  <2> HIDE DEF f
  <2>3. IsUnits(f, a.units[f]) /\ a.units[f] # << >> /\ Elements(a)[n] = Element(f, a)
    BY <2>1, <2>2 DEF IsRead, f
  <2> QED
    BY <2>2, <2>3, ElementIs
<1> QED
  BY <1>1, <1>2 DEF IsData

\* Elements have sizes.
LEMMA DataSized ==
  ASSUME NEW els, IsData(els)
  PROVE  Sized(els)
BY DEF IsData, Sized, IsElement

-----------------------------------------------------------------------------
(* Names of advertisers.                                                   *)

\* If one row matches, it is found.
LEMMA OnlyRow ==
  ASSUME NEW n \in Nat
  PROVE  Row({n}) = n
<1>1. {n} \in SUBSET Nat /\ n \in {n} /\ \A y \in {n} : n <= y
  OBVIOUS
<1>2. Min({n}) = n
  BY <1>1, LeastIs
<1> QED
  BY <1>2 DEF Row

\* The name of an address type is read as the type.
LEMMA TypeBack ==
  ASSUME NEW type \in 0 .. 3
  PROVE  JsonKv(AddrTypes, NameOf(type)) = Got(type)
<1>1. /\ DOMAIN AddrTypes = {1, 2, 3, 4}
      /\ AddrTypes[1].val = 0 /\ AddrTypes[2].val = 1 /\ AddrTypes[3].val = 2 /\ AddrTypes[4].val = 3
      /\ AddrTypes[1].key = "public" /\ AddrTypes[2].key = "random"
      /\ AddrTypes[3].key = "rpa_pub" /\ AddrTypes[4].key = "rpa_rnd"
  BY DEF AddrTypes
<1>2. type + 1 \in {1, 2, 3, 4} /\ type + 1 # 0 /\ type + 1 \in Nat
  OBVIOUS
<1>3. \A n \in {1, 2, 3, 4} : AddrTypes[n].val = n - 1
  BY <1>1
<1>4. \A m, n \in {1, 2, 3, 4} : AddrTypes[m].key = AddrTypes[n].key => m = n
  BY <1>1
<1> DEFINE key == AddrTypes[type + 1].key
<1>5. {n \in DOMAIN AddrTypes : AddrTypes[n].val = type} = {type + 1}
  BY <1>1, <1>2, <1>3
<1>6. KvRevFind(AddrTypes, type) = type + 1
  BY <1>2, <1>5, OnlyRow DEF KvRevFind
<1>7. NameOf(type) = Str(key)
  BY <1>2, <1>6 DEF NameOf
<1>8. {n \in DOMAIN AddrTypes : AddrTypes[n].key = key} = {type + 1}
  BY <1>1, <1>2, <1>4
<1>9. KvFind(AddrTypes, key) = type + 1
  BY <1>2, <1>8, OnlyRow DEF KvFind
<1> HIDE DEF key
<1>10. IsStr(Str(key)) /\ Str(key).str = key
  BY DEF IsStr, Str
<1>11. JsonKv(AddrTypes, Str(key)) = Got(AddrTypes[type + 1].val)
  BY <1>2, <1>9, <1>10 DEF JsonKv
<1>12. AddrTypes[type + 1].val = type
  BY <1>2, <1>3
<1> QED
  BY <1>7, <1>11, <1>12

-----------------------------------------------------------------------------
(* Reports.                                                                *)

\* Max of some numbers is one of them.
LEMMA GreatestOf ==
  ASSUME NEW N \in Nat, NEW S \in SUBSET (1 .. N), S # {}
  PROVE  Max(S) \in S
<1> DEFINE T == {N - x : x \in S}
<1>1. T \in SUBSET Nat /\ T # {}
  OBVIOUS
<1>2. Min(T) \in T /\ \A y \in T : Min(T) <= y
  <2> HIDE DEF T
  <2> QED
    BY <1>1, LeastOf
<1>3. PICK x \in S : Min(T) = N - x
  BY <1>2
<1>4. \A y \in S : x >= y
  <2> SUFFICES ASSUME NEW y \in S PROVE x >= y
    OBVIOUS
  <2>1. N - y \in T
    OBVIOUS
  <2>2. N - x <= N - y
    BY <1>2, <1>3, <2>1
  <2>3. x \in Int /\ y \in Int
    OBVIOUS
  <2> QED
    BY <2>2, <2>3
<1>5. Max(S) = CHOOSE z \in S : \A y \in S : z >= y
  BY DEF Max
<1> QED
  BY <1>4, <1>5

\* Max of one number.
LEMMA OnlyGreatest ==
  ASSUME NEW n \in Nat
  PROVE  Max({n}) = n
<1>1. {n} \in SUBSET (1 .. n) \/ n = 0
  OBVIOUS
<1>2. Max({n}) = CHOOSE z \in {n} : \A y \in {n} : z >= y
  BY DEF Max
<1>3. \E z \in {n} : \A y \in {n} : z >= y
  OBVIOUS
<1> QED
  BY <1>2, <1>3

\* The names of the parameters of a field, and the field of a name.
NamesOf(f) ==
  IF f = "slave_itvl" THEN {"slave_itvl_min", "slave_itvl_max"}
  ELSE {f} \cup {IsCompleteName[g] : g \in HasComplete \cap {f}}

Owner(p) ==
  IF p \in {"slave_itvl_min", "slave_itvl_max"} THEN "slave_itvl"
  ELSE IF p = "uuids16_is_complete" THEN "uuids16"
  ELSE IF p = "uuids32_is_complete" THEN "uuids32"
  ELSE IF p = "uuids128_is_complete" THEN "uuids128"
  ELSE IF p = "name_is_complete" THEN "name"
  ELSE p

\* The parameters that say whether a field is complete.
LEMMA CompletesAre ==
  /\ HasComplete = {"uuids16", "uuids32", "uuids128", "name"}
  /\ IsCompleteName["uuids16"] = "uuids16_is_complete"
  /\ IsCompleteName["uuids32"] = "uuids32_is_complete"
  /\ IsCompleteName["uuids128"] = "uuids128_is_complete"
  /\ IsCompleteName["name"] = "name_is_complete"
BY DEF HasComplete, IsCompleteName

\* A parameter of a report belongs to one field.
LEMMA NamesApart ==
  ASSUME NEW f \in Fields, NEW p \in NamesOf(f)
  PROVE  Owner(p) = f
<1>1. CASE f = "slave_itvl"
  BY <1>1 DEF NamesOf, Owner
<1>2. CASE f # "slave_itvl" /\ p = f
  <2>1. f \notin {"slave_itvl_min", "slave_itvl_max", "uuids16_is_complete", "uuids32_is_complete",
                  "uuids128_is_complete", "name_is_complete"}
    BY FieldsAre
  <2> QED
    BY <1>2, <2>1 DEF Owner
<1>3. CASE f # "slave_itvl" /\ p # f
  <2>1. f \in HasComplete /\ p = IsCompleteName[f]
    BY <1>3 DEF NamesOf
  <2> QED
    BY <2>1, CompletesAre DEF Owner
<1> QED
  BY <1>1, <1>2, <1>3

\* What a report says of an element, parameter by parameter.
LEMMA ReportNames ==
  ASSUME NEW e
  PROVE  /\ DOMAIN ReportOf(e) = NamesOf(e.field)
         /\ e.field = "slave_itvl" => /\ ReportOf(e)["slave_itvl_min"] = Num(Range16(e.payload)[1])
                                      /\ ReportOf(e)["slave_itvl_max"] = Num(Range16(e.payload)[2])
         /\ e.field # "slave_itvl" =>
              \A p \in NamesOf(e.field) :
                ReportOf(e)[p] = IF p = e.field THEN ValueOf(e) ELSE Bool(e.complete)
<1>1. CASE e.field = "slave_itvl"
  <2>1. ReportOf(e) = [slave_itvl_min |-> Num(Range16(e.payload)[1]), slave_itvl_max |-> Num(Range16(e.payload)[2])]
    BY <1>1 DEF ReportOf
  <2> QED
    BY <1>1, <2>1 DEF NamesOf
<1>2. CASE e.field # "slave_itvl"
  <2>1. ReportOf(e) = [p \in NamesOf(e.field) |-> IF p = e.field THEN ValueOf(e) ELSE Bool(e.complete)]
    BY <1>2, Zenon DEF ReportOf, NamesOf
  <2> QED
    BY <1>2, <2>1
<1> QED
  BY <1>1, <1>2

\* The parameters of a report: the last element with a name gives its value.
LEMMA ReportIs ==
  ASSUME NEW els
  PROVE  LET shown(p) == {n \in DOMAIN els : Shown(els[n]) /\ p \in DOMAIN ReportOf(els[n])}
         IN /\ DOMAIN Report(els) =
                 UNION {DOMAIN ReportOf(els[n]) : n \in {m \in DOMAIN els : Shown(els[m])}}
            /\ \A p \in DOMAIN Report(els) : /\ shown(p) # {}
                                             /\ Report(els)[p] = ReportOf(els[Max(shown(p))])[p]
<1> DEFINE shown(p) == {n \in DOMAIN els : Shown(els[n]) /\ p \in DOMAIN ReportOf(els[n])}
           D == UNION {DOMAIN ReportOf(els[n]) : n \in {m \in DOMAIN els : Shown(els[m])}}
<1>1. Report(els) = [p \in D |-> ReportOf(els[Max(shown(p))])[p]]
  BY Zenon DEF Report
<1>2. \A p \in D : shown(p) # {}
  OBVIOUS
<1> HIDE DEF D
<1>3. DOMAIN Report(els) = D
  BY <1>1, Zenon
<1>4. \A p \in D : Report(els)[p] = ReportOf(els[Max(shown(p))])[p]
  BY <1>1, Zenon
<1> QED
  BY <1>2, <1>3, <1>4, Zenon DEF D

\* In data whose elements are in order and all shown, a name has one element.
LEMMA ReportOne ==
  ASSUME NEW els, IsData(els), InOrder(els), \A n \in DOMAIN els : Shown(els[n])
  PROVE  /\ \A n \in 1 .. Len(els) : \A p \in NamesOf(els[n].field) :
              p \in DOMAIN Report(els) /\ Report(els)[p] = ReportOf(els[n])[p]
         /\ \A f \in Fields : \A p \in NamesOf(f) :
              p \in DOMAIN Report(els) => \E n \in 1 .. Len(els) : els[n].field = f
<1> DEFINE N == Len(els)
           shown(p) == {n \in DOMAIN els : Shown(els[n]) /\ p \in DOMAIN ReportOf(els[n])}
<1>1. N \in Nat /\ DOMAIN els = 1 .. N
  BY SequenceIs DEF IsData
<1>2. \A n \in 1 .. N : els[n].field \in Fields
  BY DEF IsData, IsElement
<1>3. ASSUME NEW m \in 1 .. N, NEW n \in 1 .. N, els[m].field = els[n].field PROVE m = n
  <2>1. ASSUME NEW i \in 1 .. N, NEW j \in 1 .. N, i < j PROVE els[i].field # els[j].field
    <3>1. PICK x \in DOMAIN FieldOrder, y \in DOMAIN FieldOrder :
            x < y /\ els[i].field = FieldOrder[x] /\ els[j].field = FieldOrder[y]
      BY <1>1, <2>1 DEF InOrder
    <3>2. x \in 1 .. 15 /\ y \in 1 .. 15
      BY FieldsAre
    <3>3. x # y
      BY <3>1, <3>2
    <3> QED
      BY <3>1, <3>2, <3>3, FieldsDiffer
  <2>2. m < n \/ n < m \/ m = n
    BY <1>1
  <2> QED
    BY <1>3, <2>1, <2>2
<1> HIDE DEF N
<1>4. ASSUME NEW n \in 1 .. N, NEW p \in NamesOf(els[n].field)
      PROVE  p \in DOMAIN Report(els) /\ shown(p) = {n}
  <2>1. p \in DOMAIN ReportOf(els[n]) /\ Shown(els[n]) /\ n \in DOMAIN els
    BY <1>1, ReportNames
  <2>2. p \in DOMAIN Report(els)
    BY <2>1, ReportIs
  <2>3. ASSUME NEW m \in shown(p) PROVE m = n
    <3>1. m \in 1 .. N /\ p \in NamesOf(els[m].field)
      BY <1>1, ReportNames
    <3>2. Owner(p) = els[m].field /\ Owner(p) = els[n].field
      BY <1>2, <3>1, NamesApart
    <3> QED
      BY <1>3, <3>1, <3>2
  <2>4. n \in shown(p)
    BY <2>1
  <2> QED
    BY <2>2, <2>3, <2>4
<1>5. ASSUME NEW n \in 1 .. N, NEW p \in NamesOf(els[n].field)
      PROVE  p \in DOMAIN Report(els) /\ Report(els)[p] = ReportOf(els[n])[p]
  <2>1. p \in DOMAIN Report(els) /\ shown(p) = {n}
    BY <1>4
  <2>2. Report(els)[p] = ReportOf(els[Max(shown(p))])[p]
    BY <2>1, ReportIs
  <2>3. n \in Nat
    BY <1>1
  <2> HIDE DEF shown
  <2>4. Max(shown(p)) = n
    BY <2>1, <2>3, OnlyGreatest
  <2> QED
    BY <2>1, <2>2, <2>4
<1>6. ASSUME NEW f \in Fields, NEW p \in NamesOf(f), p \in DOMAIN Report(els)
      PROVE  \E n \in 1 .. N : els[n].field = f
  <2>1. PICK n \in DOMAIN els : p \in DOMAIN ReportOf(els[n])
    BY <1>6, ReportIs
  <2>2. n \in 1 .. N /\ p \in NamesOf(els[n].field)
    BY <1>1, <2>1, ReportNames
  <2>3. Owner(p) = f /\ Owner(p) = els[n].field
    BY <1>2, <2>2, NamesApart
  <2> QED
    BY <2>2, <2>3
<1> QED
  BY <1>5, <1>6 DEF N

-----------------------------------------------------------------------------
(* Reports are JSON.                                                       *)

\* Bytes with separators between them are a text.
LEMMA ColonsText ==
  ASSUME NEW bytes, IsSequence(bytes)
  PROVE  IsText(WithColons(bytes))
<1> DEFINE L == Len(bytes)
           str == WithColons(bytes)
           N == IF L = 0 THEN 0 ELSE 2 * L - 1
<1>1. L \in Nat
  BY SequenceIs
<1>2. 1 .. 2 * L - 1 = 1 .. N /\ N \in Nat
  <2> HIDE DEF L
  <2>1. CASE L = 0
    BY <2>1
  <2>2. CASE L # 0
    BY <1>1, <2>2
  <2> QED
    BY <2>1, <2>2
<1>3. str = [k \in 1 .. N |-> IF k % 2 = 1 THEN Hex(bytes[(k + 1) \div 2]) ELSE Sep(":")]
  <2> HIDE DEF N
  <2> QED
    BY <1>2, Zenon DEF WithColons
<1> HIDE DEF str, N
<1>4. str = [k \in 1 .. N |-> str[k]]
  BY <1>3
<1>5. IsSequence(str) /\ Len(str) = N
  BY <1>2, <1>4, MadeSequence
<1>6. \A k \in 1 .. N : IsPiece(str[k])
  <2> SUFFICES ASSUME NEW k \in 1 .. N PROVE IsPiece(str[k])
    OBVIOUS
  <2>1. str[k] = Hex(bytes[(k + 1) \div 2]) \/ str[k] = Sep(":")
    BY <1>3
  <2> QED
    BY <2>1, Kinds DEF IsPiece
<1>7. IsText(str)
  BY <1>5, <1>6 DEF IsText
<1> QED
  BY <1>7 DEF str

\* So is a text that is cut at its first NUL.
LEMMA CutText ==
  ASSUME NEW chars, IsText(chars)
  PROVE  IsText(CStr(chars))
<1> DEFINE L == Len(chars)
           ends == {k \in DOMAIN chars : chars[k] = NUL}
           n == Min(ends) - 1
<1>1. IsSequence(chars) /\ L \in Nat /\ DOMAIN chars = 1 .. L /\ \A k \in 1 .. L : IsPiece(chars[k])
  BY SequenceIs DEF IsText
<1>2. CStr(chars) = IF ends = {} THEN chars ELSE SubSeq(chars, 1, n)
  BY DEF CStr
<1>3. CASE ends = {}
  BY <1>2, <1>3
<1>4. CASE ends # {}
  <2>1. Min(ends) \in 1 .. L
    <3>1. ends \in SUBSET Nat /\ ends \subseteq 1 .. L
      BY <1>1
    <3> HIDE DEF ends
    <3> QED
      BY <1>4, <3>1, LeastOf
  <2>2. n \in Nat /\ n <= L
    <3> HIDE DEF ends, L
    <3> QED
      BY <1>1, <2>1
  <2> HIDE DEF ends, n
  <2> DEFINE s == SubSeq(chars, 1, n)
             S == {chars[k] : k \in 1 .. L}
  <2>3. chars \in Seq(S)
    BY <1>1, SequenceIs
  <2> HIDE DEF S
  <2>4. s = [k \in 1 .. n |-> chars[k]]
    <3>1. s = [k \in 1 .. (1 + n) - 1 |-> chars[(1 + k) - 1]]
      BY <2>2
    <3> QED
      BY <2>2, <3>1
  <2>5. s = [k \in 1 .. n |-> s[k]] /\ \A k \in 1 .. n : s[k] = chars[k]
    <3> HIDE DEF s
    <3> QED
      BY <2>4
  <2> HIDE DEF s
  <2>6. IsSequence(s) /\ Len(s) = n
    BY <2>2, <2>5, MadeSequence
  <2>7. \A k \in 1 .. n : IsPiece(s[k])
    <3>1. \A k \in 1 .. n : k \in 1 .. L
      BY <1>1, <2>2
    <3> QED
      BY <1>1, <2>5, <3>1
  <2>8. IsText(s)
    BY <2>6, <2>7 DEF IsText
  <2> QED
    BY <1>2, <1>4, <2>8 DEF s
<1> QED
  BY <1>3, <1>4

\* A list in a report is JSON.
LEMMA ListItem ==
  ASSUME NEW f \in Lists, NEW units, IsSequence(units), \A k \in 1 .. Len(units) : IsUnit(f, units[k])
  PROVE  IsItem(ReportList(f, units))
<1> DEFINE N == Len(units)
           v(i) == CASE f = "uuids128" -> Str(Uuid128Str(units[i]))
                     [] f = "public_tgt_addrs" -> Str(AddrStr(units[i]))
                     [] OTHER -> Num(units[i])
           arr == [i \in 1 .. N |-> v(i)]
<1>1. ReportList(f, units) = Arr(arr)
  BY Zenon DEF ReportList
<1>2. N \in Nat
  BY SequenceIs
<1>3. ASSUME NEW i \in 1 .. N, IsStr(v(i)) PROVE IsText(v(i).str)
  <2>1. CASE f = "uuids128"
    <3>1. v(i) = Str(Uuid128Str(units[i]))
      BY <2>1
    <3> HIDE DEF v
    <3> QED
      BY <3>1, Kinds, UuidIsText
  <2>2. CASE f = "public_tgt_addrs"
    <3>1. v(i) = Str(WithColons(Reverse(units[i])))
      BY <2>2 DEF AddrStr
    <3>2. IsSequence(units[i])
      BY <2>2 DEF IsUnit
    <3>3. IsText(WithColons(Reverse(units[i])))
      BY <3>2, Reversed, ColonsText
    <3> HIDE DEF v
    <3> QED
      BY <3>1, <3>3, Kinds
  <2>3. CASE f # "uuids128" /\ f # "public_tgt_addrs"
    <3>1. v(i) = Num(units[i])
      BY <2>3
    <3> HIDE DEF v
    <3> QED
      BY <1>3, <3>1, Kinds
  <2> QED
    BY <2>1, <2>2, <2>3
<1> HIDE DEF v
<1>4. \A i \in 1 .. N : arr[i] = v(i)
  OBVIOUS
<1>5. arr = [i \in 1 .. N |-> arr[i]]
  OBVIOUS
<1> HIDE DEF arr
<1>6. IsSequence(arr) /\ Len(arr) = N
  BY <1>2, <1>5, MadeSequence
<1>7. \A k \in 1 .. Len(arr) : IsStr(arr[k]) => IsText(arr[k].str)
  BY <1>3, <1>4, <1>6
<1>8. IsItem(Arr(arr))
  BY <1>6, <1>7, Kinds DEF IsItem
<1> QED
  BY <1>1, <1>8

\* How the payload of an element is written.
LEMMA WrittenAs ==
  ASSUME NEW e
  PROVE  /\ e.field \in Lists => ValueOf(e) = ReportList(e.field, e.payload)
         /\ e.field \in Texts => ValueOf(e) = Str(CStr(e.payload))
         /\ e.field \in ByteFields => ValueOf(e) = Str(ByteString(e.payload))
         /\ e.field \notin Lists \cup Texts \cup ByteFields => ValueOf(e) = Num(e.payload[1])
<1>1. CASE e.field \in Lists
  BY <1>1 DEF ValueOf, Lists, Texts, ByteFields
<1>2. CASE e.field \in Texts
  BY <1>2 DEF ValueOf, Lists, Texts, ByteFields
<1>3. CASE e.field \in ByteFields
  BY <1>3 DEF ValueOf, Lists, Texts, ByteFields
<1>4. CASE e.field \notin Lists \cup Texts \cup ByteFields
  BY <1>4 DEF ValueOf
<1> QED
  BY <1>1, <1>2, <1>3, <1>4

\* So is every other value in it,
LEMMA ValueIsItem ==
  ASSUME NEW e, IsElement(e)
  PROVE  IsItem(ValueOf(e))
<1> DEFINE f == e.field
           u == e.payload
<1>1. IsSequence(u) /\ \A k \in 1 .. Len(u) : IsUnit(f, u[k])
  BY DEF IsElement
<1>2. CASE f \in Lists
  <2>1. ValueOf(e) = ReportList(f, u)
    BY <1>2, WrittenAs
  <2> HIDE DEF f, u
  <2> QED
    BY <1>1, <1>2, <2>1, ListItem
<1>3. CASE f \in Texts
  <2>1. ValueOf(e) = Str(CStr(u))
    BY <1>3, WrittenAs
  <2>2. IsText(u)
    BY <1>1, <1>3 DEF IsText, IsUnit
  <2>3. IsText(CStr(u))
    BY <2>2, CutText
  <2> QED
    BY <2>1, <2>3, Kinds DEF IsItem
<1>4. CASE f \in ByteFields
  <2>1. ValueOf(e) = Str(ByteString(u))
    BY <1>4, WrittenAs
  <2>2. IsText(ByteString(u))
    BY <1>1, HexStrWhole, ColonsText
  <2> QED
    BY <2>1, <2>2, Kinds DEF IsItem
<1>5. CASE f \notin Lists \cup Texts \cup ByteFields
  <2>1. ValueOf(e) = Num(u[1])
    BY <1>5, WrittenAs
  <2> QED
    BY <2>1, Kinds DEF IsItem
<1> QED
  BY <1>2, <1>3, <1>4, <1>5

\* and a report is an object that can be a request.
LEMMA ReportIsObject ==
  ASSUME NEW els, IsData(els)
  PROVE  IsObject(Report(els))
<1> SUFFICES ASSUME NEW p \in DOMAIN Report(els) PROVE IsItem(Report(els)[p])
  BY DEF IsObject
<1> DEFINE S == {n \in DOMAIN els : Shown(els[n]) /\ p \in DOMAIN ReportOf(els[n])}
           n == Max(S)
<1>1. S # {} /\ Report(els)[p] = ReportOf(els[n])[p]
  BY ReportIs
<1>2. DOMAIN els = 1 .. Len(els) /\ Len(els) \in Nat
  BY SequenceIs DEF IsData
<1>3. n \in S
  <2>1. S \in SUBSET (1 .. Len(els))
    BY <1>2
  <2> HIDE DEF S
  <2> QED
    BY <1>1, <1>2, <2>1, GreatestOf
<1>4. n \in 1 .. Len(els) /\ p \in DOMAIN ReportOf(els[n])
  BY <1>2, <1>3
<1> HIDE DEF n, S
<1>5. IsElement(els[n])
  BY <1>4 DEF IsData
<1>6. \A x : IsItem(Num(x)) /\ IsItem(Bool(x))
  BY Kinds DEF IsItem
<1>7. CASE els[n].field = "slave_itvl"
  <2> DEFINE e == els[n]
  <2>1. DOMAIN ReportOf(e) = NamesOf("slave_itvl")
    BY <1>7, ReportNames
  <2>2. p \in {"slave_itvl_min", "slave_itvl_max"}
    BY <1>4, <2>1 DEF NamesOf
  <2>3. /\ ReportOf(e)["slave_itvl_min"] = Num(Range16(e.payload)[1])
        /\ ReportOf(e)["slave_itvl_max"] = Num(Range16(e.payload)[2])
    <3> HIDE DEF e
    <3>1. e.field = "slave_itvl"
      BY <1>7 DEF e
    <3> QED
      BY <3>1, ReportNames
  <2> HIDE DEF e
  <2>4. IsItem(ReportOf(e)[p])
    BY <1>6, <2>2, <2>3
  <2> QED
    BY <1>1, <2>4 DEF e
<1>8. CASE els[n].field # "slave_itvl"
  <2>1. ReportOf(els[n])[p] = IF p = els[n].field THEN ValueOf(els[n]) ELSE Bool(els[n].complete)
    BY <1>4, <1>8, ReportNames
  <2>2. IsItem(ValueOf(els[n]))
    BY <1>5, ValueIsItem
  <2> QED
    BY <1>1, <1>6, <2>1, <2>2
<1> QED
  BY <1>7, <1>8

-----------------------------------------------------------------------------
(* What was reported is read as it was.                                    *)

\* A number in bounds is read as it is.
LEMMA NumBack ==
  ASSUME NEW x, NEW lo, NEW hi, x \in lo .. hi
  PROVE  IntBounds(Num(x), lo, hi) = Got(x)
BY Kinds DEF IntBounds

\* A sequence of length one is made of its element.
LEMMA OnlyUnit ==
  ASSUME NEW s, IsSequence(s), Len(s) = 1
  PROVE  << s[1] >> = s
<1> DEFINE t == << s[1] >>
<1>1. IsSequence(t) /\ Len(t) = 1 /\ t[1] = s[1]
  BY OneUnit
<1> HIDE DEF t
<1>2. \A k \in 1 .. 1 : k = 1
  OBVIOUS
<1>3. \A k \in 1 .. Len(t) : t[k] = s[k]
  BY <1>1, <1>2
<1>4. t = s
  BY <1>1, <1>3, SameSequence
<1> QED
  BY <1>4 DEF t

\* A parameter list that has what is reported of an element.
HasReport(par, e) == \A p \in NamesOf(e.field) : p \in DOMAIN par /\ par[p] = ReportOf(e)[p]

\* A range in a report is read as the range that was on the air.
LEMMA RangeAgain ==
  ASSUME NEW par, NEW e, IsElement(e), HasReport(par, e), e.field = "slave_itvl"
  PROVE  \E units : ReadRange(par) = Got(units) /\ Payload("slave_itvl", units) = e.payload /\ units # << >>
<1> DEFINE b == e.payload
           r1 == Range16(b)[1]
           r2 == Range16(b)[2]
           units == << r1, r2 >>
<1>1. IsSequence(b) /\ Len(b) = 4 /\ \A k \in 1 .. 4 : b[k] \in 0 .. UINT8_MAX
  <2>1. IsSequence(b) /\ Len(b) = 4 /\ \A k \in 1 .. Len(b) : IsUnit("slave_itvl", b[k])
    BY DEF IsElement
  <2>2. \A x : IsUnit("slave_itvl", x) => x \in 0 .. UINT8_MAX
    BY DEF IsUnit
  <2> HIDE DEF b
  <2> QED
    BY <2>1, <2>2
<1>2. /\ r1 \in 0 .. UINT16_MAX /\ r2 \in 0 .. UINT16_MAX
      /\ PutBe16(r1) \o PutBe16(r2) = b
  BY <1>1, RangeBack
<1>3. /\ "slave_itvl_max" \in DOMAIN par
      /\ par["slave_itvl_min"] = Num(r1) /\ par["slave_itvl_max"] = Num(r2)
  <2>1. NamesOf(e.field) = {"slave_itvl_min", "slave_itvl_max"}
    BY DEF NamesOf
  <2>2. ReportOf(e)["slave_itvl_min"] = Num(r1) /\ ReportOf(e)["slave_itvl_max"] = Num(r2)
    BY ReportNames
  <2> HIDE DEF r1, r2
  <2> QED
    BY <2>1, <2>2 DEF HasReport
<1> HIDE DEF r1, r2, b
<1>4. IntBounds(Num(r1), 0, UINT16_MAX) = Got(r1) /\ IntBounds(Num(r2), 0, UINT16_MAX) = Got(r2)
  BY <1>2, NumBack
<1>5. ReadRange(par) = Got(units)
  <2>1. par.slave_itvl_min = Num(r1) /\ par.slave_itvl_max = Num(r2)
    BY <1>3
  <2> QED
    BY <1>3, <1>4, <2>1, Codes DEF ReadRange
<1>6. Payload("slave_itvl", units) = b
  BY <1>2 DEF Payload
<1>7. units # << >>
  <2>1. units[1] = r1 /\ DOMAIN units = 1 .. 2
    OBVIOUS
  <2> QED
    BY EmptySeq
<1> QED
  BY <1>5, <1>6, <1>7 DEF b

\* So is a list of one element,
LEMMA ListAgain ==
  ASSUME NEW f \in Lists, NEW u, IsSequence(u), Len(u) = 1, IsUnit(f, u[1]),
         f = "uuids32" => u[1] <= UINT16_MAX
  PROVE  ReadList(f, ReportList(f, u)) = Got(u)
<1> DEFINE item == ReportList(f, u)
           x == item.arr[1]
<1>1. item = Arr([i \in 1 .. 1 |-> CASE f = "uuids128" -> Str(Uuid128Str(u[i]))
                                     [] f = "public_tgt_addrs" -> Str(AddrStr(u[i]))
                                     [] OTHER -> Num(u[i])])
  BY Zenon DEF ReportList
<1>2. /\ IsArr(item) /\ IsSequence(item.arr) /\ Len(item.arr) = 1
      /\ x = CASE f = "uuids128" -> Str(Uuid128Str(u[1]))
               [] f = "public_tgt_addrs" -> Str(AddrStr(u[1]))
               [] OTHER -> Num(u[1])
  <2> DEFINE v(i) == CASE f = "uuids128" -> Str(Uuid128Str(u[i]))
                       [] f = "public_tgt_addrs" -> Str(AddrStr(u[i]))
                       [] OTHER -> Num(u[i])
             arr == [i \in 1 .. 1 |-> v(i)]
  <2>1. item = Arr(arr)
    BY <1>1, Zenon
  <2> HIDE DEF v, item
  <2>2. arr[1] = v(1) /\ arr = [i \in 1 .. 1 |-> arr[i]]
    OBVIOUS
  <2> HIDE DEF arr
  <2>3. IsSequence(arr) /\ Len(arr) = 1
    BY <2>2, MadeSequence
  <2>4. IsArr(item) /\ item.arr = arr
    BY <2>1, Kinds
  <2> QED
    BY <2>2, <2>3, <2>4 DEF v
<1> HIDE DEF item
<1>3. ReadElem(f, x) = Got(u[1])
  <2>1. CASE f = "uuids128"
    <3>1. x = Str(Uuid128Str(u[1]))
      BY <1>2, <2>1
    <3>2. IsSequence(u[1]) /\ Len(u[1]) = 16
      BY <2>1 DEF IsUnit
    <3>3. JsonUuid(x) = Got([type |-> 128, value |-> u[1]])
      <4> HIDE DEF x
      <4> QED
        BY <3>1, <3>2, UuidBack
    <3>4. U128Bytes([type |-> 128, value |-> u[1]]) = u[1]
      BY DEF U128Bytes
    <3> HIDE DEF x
    <3>5. Uuid128Elem(x) = Got(u[1])
      BY <3>3, <3>4, Codes DEF Uuid128Elem
    <3> QED
      BY <2>1, <3>5 DEF ReadElem
  <2>2. CASE f = "public_tgt_addrs"
    <3>1. x = Str(AddrStr(u[1]))
      BY <1>2, <2>2
    <3>2. IsSequence(u[1]) /\ Len(u[1]) = 6
      BY <2>2 DEF IsUnit
    <3> HIDE DEF x
    <3>3. JsonAddr(x) = Got(u[1])
      BY <3>1, <3>2, AddrBack
    <3> QED
      BY <2>2, <3>3 DEF ReadElem
  <2>3. CASE f \in {"uuids16", "uuids32"}
    <3>1. x = Num(u[1])
      BY <1>2, <2>3
    <3>2. u[1] \in 0 .. UINT16_MAX
      <4>1. UINT16_MAX \in Nat
        BY DEF UINT16_MAX
      <4> QED
        BY <2>3, <4>1 DEF IsUnit
    <3> HIDE DEF x
    <3>3. Uuid16Elem(x) = Got(u[1])
      BY <3>1, <3>2, NumBack DEF Uuid16Elem
    <3> QED
      BY <2>3, <3>3 DEF ReadElem
  <2> QED
    BY <2>1, <2>2, <2>3 DEF Lists
<1> DEFINE good == {k \in 1 .. Len(item.arr) : ReadElem(f, item.arr[k]).rc = "ok"}
<1>4. ReadList(f, item) = Got(IF good = {} THEN << >> ELSE << ReadElem(f, item.arr[Min(good)]).val >>)
  <2>1. IsArr(item) /\ IsSequence(item.arr)
    BY <1>2
  <2> HIDE DEF item
  <2> QED
    BY <2>1, ListRead
<1>5. good = {1}
  <2>1. 1 .. Len(item.arr) = {1}
    BY <1>2
  <2>2. ReadElem(f, item.arr[1]).rc = "ok"
    BY <1>3, Codes
  <2> QED
    BY <2>1, <2>2
<1> HIDE DEF good
<1>6. Min(good) = 1
  <2>1. {1} \in SUBSET Nat /\ 1 \in {1} /\ \A y \in {1} : 1 <= y
    OBVIOUS
  <2> QED
    BY <1>5, <2>1, LeastIs
<1>7. ReadList(f, item) = Got(<< u[1] >>)
  BY <1>3, <1>4, <1>5, <1>6, Codes
<1>8. << u[1] >> = u
  BY OnlyUnit
<1> QED
  BY <1>7, <1>8 DEF item

\* and every field that can be said.
LEMMA FieldAgain ==
  ASSUME NEW par, NEW e, IsElement(e), HasReport(par, e), ~Unsayable(e), WeightOf(e) <= MaxFieldSz
  PROVE  \E units : /\ ReadField(e.field, par) = Got(units)
                    /\ Payload(e.field, units) = e.payload /\ units # << >>
<1> DEFINE f == e.field
           u == e.payload
<1>1. /\ f \in Fields /\ IsSequence(u) /\ u # << >>
      /\ \A k \in 1 .. Len(u) : IsUnit(f, u[k])
      /\ f \in SingleUnit => Len(u) = 1
      /\ f = "flags" => u[1] # 0
      /\ f \in Lists => ~(Len(u) > 1)
      /\ f = "uuids32" => ~(u[1] > UINT16_MAX)
      /\ f \in Texts => NUL \notin ToSet(u)
  BY DEF IsElement, Unsayable, Shown, SingleUnit
<1>2. Len(u) \in Nat /\ Len(u) # 0
  <2>1. Len(u) \in Nat
    BY <1>1, SequenceIs
  <2>2. Len(u) = 0 => u = << >>
    <3> HIDE DEF u
    <3> QED
      BY <1>1 DEF IsSequence
  <2> QED
    BY <1>1, <2>1, <2>2
<1>3. IsUnit(f, u[1])
  BY <1>1, <1>2
<1>4. ParamOf(f) \in DOMAIN par /\ (f # "slave_itvl" => par[f] = ValueOf(e))
  <2>1. CASE f = "slave_itvl"
    BY <2>1 DEF HasReport, NamesOf, ParamOf
  <2>2. CASE f # "slave_itvl"
    <3>1. f \in NamesOf(f) /\ ParamOf(f) = f
      BY <2>2 DEF NamesOf, ParamOf
    <3>2. ReportOf(e)[f] = ValueOf(e)
      BY <2>2, <3>1, ReportNames
    <3> QED
      BY <3>1, <3>2 DEF HasReport
  <2> QED
    BY <2>1, <2>2
<1>5. CASE f = "slave_itvl"
  <2>1. ReadField(f, par) = ReadRange(par)
    BY <1>4, <1>5, ReadWith
  <2> QED
    BY <1>5, <2>1, RangeAgain
<1>6. f # "slave_itvl" => Payload(f, u) = u
  BY DEF Payload
<1>7. SUFFICES ASSUME f # "slave_itvl" PROVE ReadField(f, par) = Got(u)
  BY <1>1, <1>5, <1>6
<1>8. CASE f \in SingleUnit
  <2>1. ValueOf(e) = Num(u[1])
    BY <1>8 DEF ValueOf, SingleUnit, Lists, Texts, ByteFields
  <2>2. << u[1] >> = u
    BY <1>1, <1>8, OnlyUnit
  <2>3. CASE f = "flags"
    <3>1. ReadField(f, par) = ReadFlags(Num(u[1]))
      <4>1. ReadField(f, par) = ReadFlags(par[f])
        BY <1>4, <2>3, ReadWith
      <4> QED
        BY <1>4, <1>7, <2>1, <4>1
    <3>2. u[1] \in 0 .. UINT8_MAX
      BY <1>3, <2>3 DEF IsUnit
    <3>3. IntBounds(Num(u[1]), 0, UINT8_MAX) = Got(u[1])
      BY <3>2, NumBack
    <3>4. One(Got(u[1])) = Got(u)
      BY <2>2, Codes DEF One
    <3>5. Got(u) # Got(<< 0 >>)
      <4>1. << 0 >>[1] = 0
        OBVIOUS
      <4>2. u # << 0 >>
        BY <1>1, <2>3, <4>1
      <4> QED
        BY <4>2, Codes
    <3> HIDE DEF u
    <3> QED
      BY <3>1, <3>3, <3>4, <3>5 DEF ReadFlags
  <2>4. CASE f # "flags"
    <3>1. f \in Ints
      BY <1>8, <2>4 DEF SingleUnit, Ints
    <3>2. ReadField(f, par) = ReadInt(f, Num(u[1]))
      <4>1. ReadField(f, par) = ReadInt(f, par[f])
        BY <1>4, <1>7, <3>1, ReadWith
      <4> QED
        BY <1>4, <1>7, <2>1, <4>1
    <3>3. One(Got(u[1])) = Got(u)
      BY <2>2, Codes DEF One
    <3>4. CASE f = "tx_pwr_lvl"
      <4>1. u[1] \in -128 .. 127
        BY <1>3, <3>4 DEF IsUnit
      <4>2. IntBounds(Num(u[1]), -128, 127) = Got(u[1])
        BY <4>1, NumBack
      <4> QED
        BY <3>2, <3>3, <3>4, <4>2 DEF ReadInt
    <3>5. CASE f # "tx_pwr_lvl"
      <4>1. u[1] \in 0 .. UINT16_MAX
        BY <1>3, <3>1, <3>5 DEF IsUnit, Ints
      <4>2. IntBounds(Num(u[1]), 0, UINT16_MAX) = Got(u[1])
        BY <4>1, NumBack
      <4> QED
        BY <3>2, <3>3, <3>5, <4>2 DEF ReadInt
    <3> QED
      BY <3>4, <3>5
  <2> QED
    BY <2>3, <2>4
<1>9. CASE f \in Lists
  <2>1. ValueOf(e) = ReportList(f, u)
    BY <1>9, WrittenAs
  <2>2. ReadField(f, par) = ReadList(f, ReportList(f, u))
    <3>1. ReadField(f, par) = ReadList(f, par[f])
      BY <1>4, <1>7, <1>9, ReadWith
    <3> QED
      BY <1>4, <1>7, <2>1, <3>1
  <2>3. Len(u) = 1
    <3> DEFINE n == Len(u)
    <3>1. n \in Nat /\ n # 0 /\ ~(n > 1)
      BY <1>1, <1>2, <1>9
    <3> HIDE DEF n
    <3>2. n = 1
      BY <3>1
    <3> QED
      BY <3>2 DEF n
  <2>4. f = "uuids32" => u[1] <= UINT16_MAX
    <3> SUFFICES ASSUME f = "uuids32" PROVE u[1] <= UINT16_MAX
      OBVIOUS
    <3> DEFINE x == u[1]
    <3>1. x \in Nat /\ ~(x > UINT16_MAX)
      BY <1>1, <1>3 DEF IsUnit
    <3>2. UINT16_MAX \in Nat
      BY DEF UINT16_MAX
    <3> HIDE DEF x
    <3>3. x <= UINT16_MAX
      BY <3>1, <3>2
    <3> QED
      BY <3>3 DEF x
  <2> HIDE DEF f, u
  <2>5. ReadList(f, ReportList(f, u)) = Got(u)
    BY <1>1, <1>3, <1>9, <2>3, <2>4, ListAgain
  <2> QED
    BY <2>2, <2>5
<1>10. CASE f \in Texts
  <2>1. ValueOf(e) = Str(CStr(u))
    BY <1>10, WrittenAs
  <2>2. CStr(u) = u
    <3>1. \A k \in DOMAIN u : u[k] # NUL
      BY <1>1, <1>10 DEF ToSet
    <3> QED
      BY <3>1 DEF CStr
  <2>3. ReadField(f, par) = ReadText(Str(u))
    <3>1. ReadField(f, par) = ReadText(par[f])
      BY <1>4, <1>7, <1>10, ReadWith
    <3> QED
      BY <1>4, <1>7, <2>1, <2>2, <3>1
  <2>4. ~(Len(u) > MaxFieldSz)
    <3> DEFINE n == Len(u)
    <3>1. n \in Nat /\ n * UnitSz(f) <= MaxFieldSz
      BY <1>2 DEF WeightOf
    <3>2. UnitSz(f) = 1
      BY <1>10 DEF UnitSz, Texts
    <3> HIDE DEF n
    <3>3. n <= MaxFieldSz /\ MaxFieldSz \in Nat
      BY <3>1, <3>2, SizeAssumption
    <3>4. ~(n > MaxFieldSz)
      BY <3>1, <3>3
    <3> QED
      BY <3>4 DEF n
  <2> HIDE DEF u
  <2> QED
    BY <2>3, <2>4, Kinds DEF ReadText
<1>11. CASE f \in ByteFields
  <2>1. ValueOf(e) = Str(ByteString(u))
    BY <1>11, WrittenAs
  <2>2. ReadField(f, par) = HexString(Str(WithColons(u)), MaxFieldSz)
    <3>1. ReadField(f, par) = HexString(par[f], MaxFieldSz)
      BY <1>4, <1>7, <1>11, ReadWith
    <3>2. ByteString(u) = WithColons(u)
      BY <1>1, HexStrWhole
    <3> QED
      BY <1>4, <1>7, <2>1, <3>1, <3>2
  <2>3. Len(u) <= MaxFieldSz
    <3> DEFINE n == Len(u)
    <3>1. n \in Nat /\ n * UnitSz(f) <= MaxFieldSz
      BY <1>2 DEF WeightOf
    <3>2. UnitSz(f) = 1
      BY <1>11 DEF UnitSz, ByteFields
    <3> HIDE DEF n
    <3>3. n <= MaxFieldSz
      BY <3>1, <3>2, SizeAssumption
    <3> QED
      BY <3>3 DEF n
  <2>4. MaxFieldSz \in Nat
    BY SizeAssumption
  <2> HIDE DEF u
  <2>5. ParseByteStream(WithColons(u), MaxFieldSz) = Got(u)
    BY <1>1, <2>3, <2>4, ParsedBack
  <2>6. HexString(Str(WithColons(u)), MaxFieldSz) = ParseByteStream(WithColons(u), MaxFieldSz)
    BY Kinds DEF HexString
  <2> QED
    BY <2>2, <2>5, <2>6
<1> QED
  BY <1>1, <1>7, <1>8, <1>9, <1>10, <1>11, FieldsAre DEF SingleUnit, Lists, Texts, ByteFields

\* A field is read as complete if it was.
LEMMA CompleteAgain ==
  ASSUME NEW par, NEW e, IsElement(e), HasReport(par, e), e.field \in HasComplete
  PROVE  ReadComplete(e.field, par) = Got(e.complete)
<1> DEFINE f == e.field
           p == IsCompleteName[f]
<1>1. f # "slave_itvl" /\ p \in NamesOf(f) /\ p # f
  BY CompletesAre DEF NamesOf
<1>2. p \in DOMAIN par /\ par[p] = Bool(e.complete)
  BY <1>1, ReportNames DEF HasReport
<1> HIDE DEF p
<1>3. JsonBool(par[p]) = Got(e.complete)
  BY <1>2, Kinds DEF JsonBool
<1> QED
  BY <1>2, <1>3 DEF ReadComplete, p

Sayable(elements) == InOrder(elements) /\ \A n \in DOMAIN elements : ~Unsayable(elements[n])

\* Data that a report and a request can say are read as they were.
LEMMA ReadBack ==
  ASSUME NEW els, IsData(els), Sayable(els)
  PROVE  /\ \A f \in Fields : ReadField(f, Report(els)).rc = "ok"
         /\ \A f \in HasComplete : ReadComplete(f, Report(els)).rc = "ok"
         /\ \A a : /\ \A f \in Fields : a.units[f] = ReadField(f, Report(els)).val
                   /\ \A f \in HasComplete : a.complete[f] = ReadComplete(f, Report(els)).val
                   => Elements(a) = els
<1> DEFINE par == Report(els)
           N == Len(els)
<1>1. N \in Nat /\ DOMAIN els = 1 .. N /\ IsSequence(els) /\ Sized(els) /\ InOrder(els)
  BY SequenceIs, DataSized DEF IsData, Sayable
<1>2. ASSUME NEW n \in 1 .. N
      PROVE  /\ IsElement(els[n]) /\ ~Unsayable(els[n]) /\ Shown(els[n])
             /\ WeightOf(els[n]) <= MaxFieldSz
  <2>1. IsElement(els[n]) /\ ~Unsayable(els[n])
    BY <1>1 DEF IsData, Sayable
  <2>2. Shown(els[n])
    BY <2>1 DEF Unsayable
  <2>3. WeightOf(els[n]) <= MaxFieldSz
    <3> DEFINE w == WeightOf(els[n])
               z == SizeOf(els)
    <3>1. w \in Nat /\ w + 2 <= z /\ z \in Nat /\ z <= MaxSz
      BY <1>1, SizeBounds DEF IsData
    <3> HIDE DEF w, z
    <3>2. w <= MaxFieldSz
      BY <3>1, SizeAssumption
    <3> QED
      BY <3>2 DEF w
  <2> QED
    BY <2>1, <2>2, <2>3
<1> HIDE DEF N
<1>3. /\ \A n \in 1 .. N : HasReport(par, els[n])
      /\ \A f \in Fields : \A p \in NamesOf(f) : p \in DOMAIN par => \E n \in 1 .. N : els[n].field = f
  <2>1. \A n \in DOMAIN els : Shown(els[n])
    BY <1>1, <1>2
  <2>2. /\ \A n \in 1 .. N : \A p \in NamesOf(els[n].field) : p \in DOMAIN par /\ par[p] = ReportOf(els[n])[p]
        /\ \A f \in Fields : \A p \in NamesOf(f) : p \in DOMAIN par => \E n \in 1 .. N : els[n].field = f
    BY <1>1, <2>1, ReportOne DEF N
  <2> HIDE DEF par
  <2> QED
    BY <2>2 DEF HasReport
<1> HIDE DEF par
<1>4. ASSUME NEW n \in 1 .. N
      PROVE  LET f == els[n].field
             IN /\ f \in Fields /\ ReadField(f, par).rc = "ok"
                /\ Payload(f, ReadField(f, par).val) = els[n].payload
                /\ ReadField(f, par).val # << >>
                /\ f \in HasComplete => ReadComplete(f, par) = Got(els[n].complete)
  <2> DEFINE e == els[n]
  <2>1. IsElement(e) /\ ~Unsayable(e) /\ WeightOf(e) <= MaxFieldSz /\ HasReport(par, e)
    BY <1>2, <1>3
  <2> HIDE DEF e
  <2>2. PICK units : ReadField(e.field, par) = Got(units) /\ Payload(e.field, units) = e.payload /\ units # << >>
    BY <2>1, FieldAgain
  <2>3. e.field \in HasComplete => ReadComplete(e.field, par) = Got(e.complete)
    BY <2>1, CompleteAgain
  <2>4. e.field \in Fields
    BY <2>1 DEF IsElement
  <2> QED
    BY <2>2, <2>3, <2>4, Codes DEF e
<1>5. ASSUME NEW f \in Fields, \A n \in 1 .. N : els[n].field # f
      PROVE  ReadField(f, par) = Got(<< >>) /\ (f \in HasComplete => ReadComplete(f, par) = Got(TRUE))
  <2>1. \A p \in NamesOf(f) : p \notin DOMAIN par
    BY <1>3, <1>5
  <2>2. ParamOf(f) \in NamesOf(f)
    BY DEF ParamOf, NamesOf
  <2>3. f \in HasComplete => IsCompleteName[f] \in NamesOf(f)
    BY CompletesAre DEF NamesOf
  <2>4. ReadField(f, par) = Got(<< >>)
    BY <2>1, <2>2 DEF ReadField
  <2>5. f \in HasComplete => ReadComplete(f, par) = Got(TRUE)
    BY <2>1, <2>3 DEF ReadComplete
  <2> QED
    BY <2>4, <2>5
<1>6. \A f \in Fields : ReadField(f, par).rc = "ok"
  <2> SUFFICES ASSUME NEW f \in Fields PROVE ReadField(f, par).rc = "ok"
    OBVIOUS
  <2>1. CASE \E n \in 1 .. N : els[n].field = f
    BY <1>4, <2>1
  <2>2. CASE \A n \in 1 .. N : els[n].field # f
    <3>1. ReadField(f, par) = Got(<< >>)
      BY <1>5, <2>2
    <3> QED
      BY <3>1, Codes
  <2> QED
    BY <2>1, <2>2
<1>7. \A f \in HasComplete : ReadComplete(f, par).rc = "ok"
  <2> SUFFICES ASSUME NEW f \in HasComplete PROVE ReadComplete(f, par).rc = "ok"
    OBVIOUS
  <2>0. f \in Fields
    BY CompletesAre, FieldsAre
  <2>1. CASE \E n \in 1 .. N : els[n].field = f
    <3>1. PICK n \in 1 .. N : els[n].field = f
      BY <2>1
    <3>2. ReadComplete(f, par) = Got(els[n].complete)
      BY <1>4, <3>1
    <3> QED
      BY <3>2, Codes
  <2>2. CASE \A n \in 1 .. N : els[n].field # f
    <3>1. ReadComplete(f, par) = Got(TRUE)
      BY <1>5, <2>0, <2>2
    <3> QED
      BY <3>1, Codes
  <2> QED
    BY <2>1, <2>2
<1>8. ASSUME NEW a, \A f \in Fields : a.units[f] = ReadField(f, par).val,
             \A f \in HasComplete : a.complete[f] = ReadComplete(f, par).val
      PROVE  Elements(a) = els
  <2>1. ASSUME NEW n \in 1 .. N
        PROVE  /\ els[n].field \in Fields
               /\ els[n] = Element(els[n].field, a)
               /\ a.units[els[n].field] # << >>
    <3> DEFINE e == els[n]
               f == e.field
    <3>1. /\ f \in Fields /\ a.units[f] # << >>
          /\ Payload(f, a.units[f]) = e.payload
          /\ f \in HasComplete => a.complete[f] = e.complete
      BY <1>4, <1>8, Codes
    <3>2. /\ e = [field |-> e.field, payload |-> e.payload, complete |-> e.complete]
          /\ e.complete \in BOOLEAN /\ (f \notin HasComplete => ~e.complete)
      BY <1>2 DEF IsElement
    <3> HIDE DEF e
    <3>3. (f \in HasComplete /\ a.complete[f]) = e.complete
      BY <3>1, <3>2
    <3>4. Element(f, a) = e
      BY <3>1, <3>2, <3>3 DEF Element
    <3> QED
      BY <3>1, <3>4 DEF e
  <2>2. ASSUME NEW f \in Fields, \A n \in 1 .. N : els[n].field # f
        PROVE  a.units[f] = << >>
    BY <1>5, <1>8, <2>2, Codes
  <2> QED
    BY <1>1, <2>1, <2>2, ElementsAgain DEF N
<1>9. \A a : /\ \A f \in Fields : a.units[f] = ReadField(f, par).val
             /\ \A f \in HasComplete : a.complete[f] = ReadComplete(f, par).val
             => Elements(a) = els
  BY <1>8
<1> QED
  BY <1>6, <1>7, <1>9 DEF par

-----------------------------------------------------------------------------
(* What a text says.                                                       *)

\* The loop of Numerals.
LEMMA NumeralsLoop ==
  ASSUME NEW str, IsSequence(str)
  PROVE  \E kept : /\ kept[0] = << >>
                   /\ \A k \in 1 .. Len(str) :
                        kept[k] = IF IsSep(str[k]) THEN kept[k - 1] ELSE Append(kept[k - 1], str[k])
                   /\ \A k \in 0 .. Len(str) : IsSequence(kept[k])
                   /\ Numerals(str) = kept[Len(str)]
<1> DEFINE N == Len(str)
           S == {str[k] : k \in 1 .. N}
           T == Seq(S)
           G(k, x) == IF IsSep(str[k]) THEN x ELSE Append(x, str[k])
           F == [k \in 1 .. N |-> [x \in T |-> G(k, x)]]
           Is(f) == f = [k \in 0 .. N |-> IF k = 0 THEN << >> ELSE G(k, f[k - 1])]
           kept == CHOOSE f : Is(f)
<1>1. N \in Nat
  BY SequenceIs
<1>2. << >> \in T
  <2> HIDE DEF S
  <2> QED
    BY EmptySeq
<1>3. ASSUME NEW k \in 1 .. N, NEW x \in T PROVE G(k, x) \in T
  <2>1. str[k] \in S
    OBVIOUS
  <2> HIDE DEF S
  <2> QED
    BY <2>1, AppendProperties
<1>4. PICK f : Rounds(f, N, << >>, F) /\ \A k \in 0 .. N : f[k] \in T
  <2> HIDE DEF T, G
  <2>1. \A k \in 1 .. N : \A x \in T : F[k][x] \in T
    BY <1>3
  <2> HIDE DEF F, N
  <2> QED
    BY <1>1, <1>2, <2>1, LoopRuns
<1>5. Is(f)
  <2> HIDE DEF T, G
  <2>1. \A k \in 0 .. N : k # 0 => k \in 1 .. N /\ k - 1 \in 0 .. N
    BY <1>1
  <2>2. \A k \in 0 .. N : k # 0 => F[k][f[k - 1]] = G(k, f[k - 1])
    BY <1>4, <2>1
  <2> HIDE DEF F, N
  <2> QED
    BY <1>4, <2>2 DEF Rounds
<1>6. Is(kept)
  BY <1>5, Zenon
<1>7. Numerals(str) = kept[N]
  BY Zenon DEF Numerals
<1> HIDE DEF kept
<1>8. \A k \in 0 .. N : kept[k] \in T
  <2> DEFINE A == {k \in 0 .. N : kept[k] \in T}
  <2> HIDE DEF T, G
  <2>1. 0 \in A
    BY <1>1, <1>2, <1>6
  <2>2. ASSUME NEW n \in 0 .. N - 1, n \in A PROVE n + 1 \in A
    <3>1. n + 1 \in 1 .. N /\ n + 1 \in 0 .. N /\ (n + 1) - 1 = n /\ n + 1 # 0
      BY <1>1
    <3>2. kept[n + 1] = G(n + 1, kept[n])
      BY <1>6, <3>1
    <3> QED
      BY <1>3, <2>2, <3>1, <3>2
  <2>3. \A n \in 0 .. N : n \in A
    <3> HIDE DEF A
    <3> QED
      BY <1>1, <2>1, <2>2, UpTo
  <2> QED
    BY <2>3
<1>9. \A k \in 0 .. N : IsSequence(kept[k])
  <2> HIDE DEF S
  <2> QED
    BY <1>8, IsIn
<1>10. /\ kept[0] = << >>
       /\ \A k \in 1 .. N : kept[k] = G(k, kept[k - 1])
  <2>1. 0 \in 0 .. N /\ \A k \in 1 .. N : k \in 0 .. N /\ k # 0
    BY <1>1
  <2> HIDE DEF N, G
  <2> QED
    BY <1>6, <2>1
<1> QED
  BY <1>7, <1>9, <1>10

\* A text is read if its numerals are bytes and not too many, and the bytes are those.
LEMMA ParsedSays ==
  ASSUME NEW str, IsSequence(str), NEW max_len \in Nat,
         \A k \in 1 .. Len(str) : IsHex(str[k]) => str[k] = Hex(str[k].hex)
  PROVE  /\ IsSequence(Numerals(str))
         /\ ParseByteStream(str, max_len).rc = "ok" <=>
              Len(Numerals(str)) <= max_len /\ \A j \in 1 .. Len(Numerals(str)) : IsHex(Numerals(str)[j])
         /\ ParseByteStream(str, max_len).rc = "ok" =>
              /\ Len(ParseByteStream(str, max_len).val) = Len(Numerals(str))
              /\ \A j \in 1 .. Len(Numerals(str)) : Numerals(str)[j] = Hex(ParseByteStream(str, max_len).val[j])
<1> DEFINE N == Len(str)
           Same(x, s) == /\ Len(x.val) = Len(s) /\ Len(s) <= max_len
                         /\ \A j \in 1 .. Len(s) : s[j] = Hex(x.val[j])
           Wrong(s) == Len(s) > max_len \/ \E j \in 1 .. Len(s) : ~IsHex(s[j])
           Claim(x, s) == IF x.rc = "ok" THEN Same(x, s) ELSE Wrong(s)
<1>1. PICK dst : /\ dst[0] = Got(<< >>)
                 /\ \A k \in 1 .. N : dst[k] = ByteStep(dst[k - 1], str[k], max_len)
                 /\ \A k \in 0 .. N : IsSequence(dst[k].val) /\ Len(dst[k].val) <= max_len
                 /\ ParseByteStream(str, max_len) = dst[N]
  BY ParseLoop
<1>2. PICK kept : /\ kept[0] = << >>
                  /\ \A k \in 1 .. N : kept[k] = IF IsSep(str[k]) THEN kept[k - 1] ELSE Append(kept[k - 1], str[k])
                  /\ \A k \in 0 .. N : IsSequence(kept[k])
                  /\ Numerals(str) = kept[N]
  BY NumeralsLoop
<1>3. N \in Nat /\ N \in 0 .. N
  BY SequenceIs
<1> DEFINE A == {k \in 0 .. N : Claim(dst[k], kept[k])}
<1>4. 0 \in A
  <2>1. Len(<< >>) = 0 /\ \A j \in 1 .. 0 : FALSE
    BY EmptySequence
  <2>2. Claim(Got(<< >>), << >>)
    BY <2>1, Codes
  <2> HIDE DEF Claim
  <2> QED
    BY <1>1, <1>2, <1>3, <2>2
<1>5. ASSUME NEW n \in 0 .. N - 1, n \in A PROVE n + 1 \in A
  <2> DEFINE x == dst[n]
             s == kept[n]
             p == str[n + 1]
  <2>1. n + 1 \in 1 .. N /\ n + 1 \in 0 .. N /\ n \in 0 .. N /\ (n + 1) - 1 = n
    BY <1>3
  <2>2. /\ dst[n + 1] = ByteStep(x, p, max_len)
        /\ kept[n + 1] = IF IsSep(p) THEN s ELSE Append(s, p)
        /\ IsHex(p) => p = Hex(p.hex)
    BY <1>1, <1>2, <2>1
  <2>3. Claim(x, s) /\ IsSequence(x.val) /\ IsSequence(s)
    BY <1>1, <1>2, <1>5, <2>1
  <2> HIDE DEF x, s, p
  <2>4. CASE IsSep(p)
    <3>1. dst[n + 1] = x /\ kept[n + 1] = s
      BY <2>2, <2>4 DEF ByteStep
    <3> HIDE DEF Claim
    <3> QED
      BY <2>1, <2>3, <3>1
  <2>5. CASE ~IsSep(p)
    <3> DEFINE t == Append(s, p)
    <3>1. /\ kept[n + 1] = t /\ IsSequence(t) /\ Len(t) = Len(s) + 1 /\ Len(s) \in Nat
          /\ \A j \in 1 .. Len(s) : t[j] = s[j]
          /\ t[Len(s) + 1] = p
      BY <2>2, <2>3, <2>5, Appended, SequenceIs
    <3> HIDE DEF t
    <3>2. Len(s) + 1 \in 1 .. Len(t) /\ \A j \in 1 .. Len(s) : j \in 1 .. Len(t)
      BY <3>1
    <3>3. CASE x.rc # "ok"
      <4>1. dst[n + 1] = x
        BY <2>2, <3>3 DEF ByteStep
      <4>2. Wrong(s)
        BY <2>3, <3>3
      <4>3. Wrong(t)
        BY <3>1, <3>2, <4>2
      <4> HIDE DEF Wrong
      <4> QED
        BY <2>1, <3>1, <3>3, <4>1, <4>3
    <3>4. CASE x.rc = "ok" /\ TooMany(Len(x.val), max_len)
      <4>1. dst[n + 1] = [rc |-> "SYS_EINVAL", val |-> x.val]
        BY <2>2, <2>5, <3>4 DEF ByteStep
      <4>2. dst[n + 1].rc # "ok"
        BY <4>1
      <4>3. Len(t) > max_len
        BY <2>3, <3>1, <3>4 DEF TooMany
      <4> QED
        BY <2>1, <3>1, <4>2, <4>3
    <3>5. CASE x.rc = "ok" /\ ~TooMany(Len(x.val), max_len) /\ ~IsHex(p)
      <4>1. dst[n + 1] = [rc |-> "-1", val |-> x.val]
        BY <2>2, <2>5, <3>5 DEF ByteStep
      <4>2. dst[n + 1].rc # "ok"
        BY <4>1
      <4>3. Wrong(t)
        BY <3>1, <3>2, <3>5
      <4> HIDE DEF Wrong
      <4> QED
        BY <2>1, <3>1, <4>2, <4>3
    <3>6. CASE x.rc = "ok" /\ ~TooMany(Len(x.val), max_len) /\ IsHex(p)
      <4> DEFINE v == Append(x.val, p.hex)
      <4>1. dst[n + 1] = Got(v)
        BY <2>2, <2>5, <3>6 DEF ByteStep
      <4>2. /\ IsSequence(v) /\ Len(v) = Len(x.val) + 1
            /\ \A j \in 1 .. Len(x.val) : v[j] = x.val[j]
            /\ v[Len(x.val) + 1] = p.hex
        BY <2>3, Appended
      <4> HIDE DEF v
      <4>3. Got(v).rc = "ok" /\ Got(v).val = v
        BY Codes
      <4>4. Same(x, s)
        BY <2>3, <3>6
      <4>5. Len(v) = Len(t) /\ Len(t) <= max_len
        BY <3>1, <3>6, <4>2, <4>4 DEF TooMany
      <4>6. \A j \in 1 .. Len(t) : t[j] = Hex(v[j])
        <5> SUFFICES ASSUME NEW j \in 1 .. Len(t) PROVE t[j] = Hex(v[j])
          OBVIOUS
        <5>1. j \in 1 .. Len(s) \/ j = Len(s) + 1
          BY <3>1
        <5>2. CASE j \in 1 .. Len(s)
          BY <3>1, <4>2, <4>4, <5>2
        <5>3. CASE j = Len(s) + 1
          BY <2>2, <3>1, <3>6, <4>2, <4>4, <5>3
        <5> QED
          BY <5>1, <5>2, <5>3
      <4>7. Same(Got(v), t)
        BY <4>3, <4>5, <4>6
      <4> HIDE DEF Same
      <4> QED
        BY <2>1, <3>1, <4>1, <4>3, <4>7
    <3> QED
      BY <3>3, <3>4, <3>5, <3>6
  <2> QED
    BY <2>4, <2>5
<1>6. N \in A
  <2>1. \A n \in 0 .. N : n \in A
    <3> HIDE DEF A
    <3> QED
      BY <1>3, <1>4, <1>5, UpTo
  <2> QED
    BY <1>3, <2>1
<1> DEFINE r == dst[N]
           u == kept[N]
<1>7. Claim(r, u) /\ IsSequence(u) /\ ParseByteStream(str, max_len) = r /\ Numerals(str) = u
  BY <1>1, <1>2, <1>3, <1>6
<1> HIDE DEF r, u
<1>8. CASE r.rc = "ok"
  <2>1. \A j \in 1 .. Len(u) : IsHex(u[j])
    BY <1>7, <1>8, Kinds
  <2> QED
    BY <1>7, <1>8, <2>1
<1>9. CASE r.rc # "ok"
  <2>1. ~(Len(u) <= max_len /\ \A j \in 1 .. Len(u) : IsHex(u[j]))
    <3>1. Len(u) \in Nat /\ Wrong(u)
      BY <1>7, <1>9, SequenceIs
    <3> QED
      BY <3>1
  <2> QED
    BY <1>7, <1>9, <2>1
<1> QED
  BY <1>8, <1>9

\* The text of bytes has numerals that are nothing else.
LEMMA ColonsPlain ==
  ASSUME NEW bytes, IsSequence(bytes)
  PROVE  /\ IsSequence(WithColons(bytes))
         /\ \A k \in 1 .. Len(WithColons(bytes)) :
              IsHex(WithColons(bytes)[k]) => WithColons(bytes)[k] = Hex(WithColons(bytes)[k].hex)
<1> DEFINE N == 2 * Len(bytes) - 1
           str == WithColons(bytes)
<1>1. IsSequence(str)
  BY ColonsText DEF IsText
<1>2. \A k \in DOMAIN str : str[k] = (IF k % 2 = 1 THEN Hex(bytes[(k + 1) \div 2]) ELSE Sep(":"))
  BY DEF WithColons
<1>3. \A k \in 1 .. Len(str) : str[k] = Sep(":") \/ \E b : str[k] = Hex(b)
  <2>1. \A k \in 1 .. Len(str) : k \in DOMAIN str
    BY <1>1, SequenceIs
  <2> HIDE DEF str
  <2> QED
    BY <1>2, <2>1
<1> HIDE DEF str
<1>4. \A k \in 1 .. Len(str) : IsHex(str[k]) => str[k] = Hex(str[k].hex)
  BY <1>3, Kinds
<1> QED
  BY <1>1, <1>4 DEF str

\* The text of bytes says the bytes.
LEMMA ColonsSay ==
  ASSUME NEW bytes, IsSequence(bytes)
  PROVE  /\ IsSequence(Numerals(WithColons(bytes))) /\ Len(Numerals(WithColons(bytes))) = Len(bytes)
         /\ \A j \in 1 .. Len(bytes) : Numerals(WithColons(bytes))[j] = Hex(bytes[j])
<1> DEFINE str == WithColons(bytes)
<1>1. Len(bytes) \in Nat /\ Len(bytes) <= Len(bytes)
  BY SequenceIs
<1>2. ParseByteStream(str, Len(bytes)) = Got(bytes)
  BY <1>1, ParsedBack
<1>3. IsSequence(str) /\ \A k \in 1 .. Len(str) : IsHex(str[k]) => str[k] = Hex(str[k].hex)
  BY ColonsPlain
<1>4. Got(bytes).rc = "ok" /\ Got(bytes).val = bytes
  BY Codes
<1> HIDE DEF str
<1>5. /\ IsSequence(Numerals(str)) /\ Len(bytes) = Len(Numerals(str))
      /\ \A j \in 1 .. Len(Numerals(str)) : Numerals(str)[j] = Hex(bytes[j])
  BY <1>1, <1>2, <1>3, <1>4, ParsedSays
<1> QED
  BY <1>5 DEF str

\* What is read from a text and written again says what the text said.
LEMMA ReadSays ==
  ASSUME NEW str, IsText(str), IsPlain(str), NEW max_len \in Nat, ParseByteStream(str, max_len).rc = "ok"
  PROVE  Numerals(WithColons(ParseByteStream(str, max_len).val)) = Numerals(str)
<1> DEFINE v == ParseByteStream(str, max_len).val
<1>1. IsSequence(str) /\ \A k \in 1 .. Len(str) : IsHex(str[k]) => str[k] = Hex(str[k].hex)
  BY DEF IsText, IsPlain
<1>2. IsSequence(v)
  BY <1>1, ParsedFits
<1>3. /\ IsSequence(Numerals(str)) /\ Len(v) = Len(Numerals(str))
      /\ \A j \in 1 .. Len(Numerals(str)) : Numerals(str)[j] = Hex(v[j])
  BY <1>1, ParsedSays
<1> HIDE DEF v
<1>4. /\ IsSequence(Numerals(WithColons(v))) /\ Len(Numerals(WithColons(v))) = Len(v)
      /\ \A j \in 1 .. Len(v) : Numerals(WithColons(v))[j] = Hex(v[j])
  BY <1>2, ColonsSay
<1>5. Numerals(WithColons(v)) = Numerals(str)
  BY <1>3, <1>4, SameSequence
<1> QED
  BY <1>5 DEF v

\* A UUID that is read and written again is the text it was read from.
LEMMA UuidSame ==
  ASSUME NEW str, IsText(str), IsPlain(str), IsUuid(str)
  PROVE  Uuid128Str(Uuid128(str).val) = SubSeq(str, 1, 20)
<1> DEFINE v == Uuid128(str).val
           s == Uuid128Str(v)
           t == SubSeq(str, 1, 20)
<1>1. IsSequence(str) /\ Len(str) \in Nat /\ 20 <= Len(str)
  BY SequenceIs DEF IsText, IsUuid
<1>2. IsSequence(t) /\ Len(t) = 20 /\ \A k \in 1 .. 20 : t[k] = str[k]
  <2> DEFINE S == {str[k] : k \in 1 .. Len(str)}
  <2>1. str \in Seq(S)
    BY <1>1, SequenceIs
  <2> HIDE DEF S
  <2>2. 1 \in 1 .. Len(str) + 1 /\ 20 \in 0 .. Len(str)
    BY <1>1
  <2>3. /\ t \in Seq(S) /\ Len(t) = (IF 1 <= 20 THEN 20 - 1 + 1 ELSE 0)
        /\ \A k \in 1 .. 20 - 1 + 1 : t[k] = str[1 + k - 1]
    BY <2>1, <2>2, SubSeqProperties, SMTT(30)
  <2>4. \A k \in 1 .. 20 : k \in 1 .. 20 - 1 + 1 /\ 1 + k - 1 = k
    OBVIOUS
  <2>5. Len(t) = 20
    BY <2>3
  <2>6. \A k \in 1 .. 20 : t[k] = str[k]
    BY <2>3, <2>4
  <2> HIDE DEF t
  <2> QED
    BY <2>3, <2>5, <2>6, IsIn
<1>3. \A h \in 1 .. 16 : v[17 - h] = str[PieceOf(h)].hex
  BY UuidSays
<1>4. \A k \in 1 .. 20 : IF k \in UuidDashes THEN str[k] = Sep("-") ELSE str[k] = Hex(str[k].hex)
  <2>1. \A k \in 1 .. 20 : k \in 1 .. Len(str)
    BY <1>1
  <2> QED
    BY <2>1 DEF IsUuid, IsPlain
<1>5. /\ IsSequence(s) /\ Len(s) = 20
      /\ \A k \in UuidDashes : s[k] = Sep("-")
      /\ \A h \in 1 .. 16 : s[PieceOf(h)] = Hex(v[17 - h])
  BY UuidText
<1> HIDE DEF v, t, s
<1>6. ASSUME NEW k \in 1 .. 20 PROVE s[k] = t[k]
  <2>1. CASE k \in UuidDashes
    BY <1>2, <1>4, <1>5, <2>1
  <2>2. CASE k \notin UuidDashes
    <3>1. PICK h \in 1 .. 16 : PieceOf(h) = k
      BY <2>2, Pieces
    <3> QED
      BY <1>2, <1>3, <1>4, <1>5, <2>2, <3>1
  <2> QED
    BY <2>1, <2>2
<1>7. s = t
  BY <1>2, <1>5, <1>6, SameSequence
<1> QED
  BY <1>7 DEF s, t, v

\* A number in bounds, a boolean.
LEMMA BoundsRead ==
  ASSUME NEW item, NEW lo, NEW hi
  PROVE  /\ IntBounds(item, lo, hi).rc = "ok" <=> IsNum(item) /\ item.num \in lo .. hi
         /\ IntBounds(item, lo, hi).rc = "ok" => IntBounds(item, lo, hi).val = item.num
<1>1. CASE IsNum(item) /\ item.num \in lo .. hi
  BY <1>1, Codes, Zenon DEF IntBounds
<1>2. CASE ~(IsNum(item) /\ item.num \in lo .. hi)
  <2>1. IntBounds(item, lo, hi) = Failed("SYS_ERANGE")
    BY <1>2, Zenon DEF IntBounds
  <2>2. IntBounds(item, lo, hi).rc # "ok"
    BY <2>1, Codes
  <2> QED
    BY <1>2, <2>2
<1> QED
  BY <1>1, <1>2

\* An address is read if it is six numerals, and written as the same ones.
LEMMA AddrSays ==
  ASSUME NEW str, IsText(str), IsPlain(str)
  PROVE  /\ ParseMac(str).rc = "ok" <=> /\ Len(Numerals(str)) = 6
                                        /\ \A k \in 1 .. 6 : IsHex(Numerals(str)[k])
         /\ ParseMac(str).rc = "ok" => Numerals(AddrStr(ParseMac(str).val)) = Numerals(str)
<1> DEFINE r == ParseByteStream(str, 6)
           u == Numerals(str)
<1>1. IsSequence(str) /\ \A k \in 1 .. Len(str) : IsHex(str[k]) => str[k] = Hex(str[k].hex)
  BY DEF IsText, IsPlain
<1>2. /\ IsSequence(u)
      /\ r.rc = "ok" <=> Len(u) <= 6 /\ \A j \in 1 .. Len(u) : IsHex(u[j])
      /\ r.rc = "ok" => Len(r.val) = Len(u)
  BY <1>1, ParsedSays
<1>3. IsSequence(r.val)
  BY <1>1, ParsedFits
<1>4. r.rc = "ok" => Numerals(WithColons(r.val)) = u
  BY ReadSays
<1>5. /\ r.rc = "ok" /\ Len(r.val) = 6 => ParseMac(str) = Got(Reverse(r.val))
      /\ ~(r.rc = "ok" /\ Len(r.val) = 6) => ParseMac(str).rc # "ok"
  <2> DEFINE x == ParseExactLength(str, 6)
  <2>1. x = IF r.rc = "ok" /\ Len(r.val) # 6 THEN Failed("SYS_EINVAL") ELSE r
    BY Zenon DEF ParseExactLength
  <2>2. ParseMac(str) = IF x.rc = "ok" THEN Got(Reverse(x.val)) ELSE x
    BY Zenon DEF ParseMac
  <2> HIDE DEF x, r
  <2>3. CASE r.rc = "ok" /\ Len(r.val) = 6
    BY <2>1, <2>2, <2>3
  <2>4. CASE r.rc = "ok" /\ Len(r.val) # 6
    <3>1. x.rc # "ok"
      BY <2>1, <2>4, Codes
    <3> QED
      BY <2>2, <2>4, <3>1
  <2>5. CASE r.rc # "ok"
    BY <2>1, <2>2, <2>5
  <2> QED
    BY <2>3, <2>4, <2>5
<1> HIDE DEF r, u
<1>6. CASE r.rc = "ok" /\ Len(r.val) = 6
  <2>1. ParseMac(str).rc = "ok" /\ ParseMac(str).val = Reverse(r.val)
    BY <1>5, <1>6, Codes
  <2>2. AddrStr(ParseMac(str).val) = WithColons(r.val)
    BY <1>3, <2>1, Reversed DEF AddrStr
  <2>3. Len(u) = 6 /\ \A k \in 1 .. 6 : IsHex(u[k])
    BY <1>2, <1>6
  <2> QED
    BY <1>4, <1>6, <2>1, <2>2, <2>3 DEF u
<1>7. CASE ~(r.rc = "ok" /\ Len(r.val) = 6)
  <2>1. ASSUME Len(u) = 6, \A k \in 1 .. 6 : IsHex(u[k]) PROVE FALSE
    <3>1. Len(u) <= 6 /\ \A k \in 1 .. Len(u) : IsHex(u[k])
      BY <2>1
    <3> QED
      BY <1>2, <1>7, <2>1, <3>1
  <2> QED
    BY <1>5, <1>7, <2>1 DEF u
<1> QED
  BY <1>6, <1>7

\* A UUID in a list is read if it is a number of 16 bits or a text of 128.
LEMMA UuidElem ==
  ASSUME NEW x, IsScalar(x), IsStr(x) => IsText(x.str)
  PROVE  /\ Uuid128Elem(x).rc = "ok" <=> Valid("uuids128", x)
         /\ Uuid128Elem(x).rc = "ok" /\ IsStr(x) => Uuid128Str(Uuid128Elem(x).val) = SubSeq(x.str, 1, 20)
<1> DEFINE num == IntBounds(x, 1, UINT16_MAX)
           r == JsonUuid(x)
<1>1. Valid("uuids128", x) <=> (IsNum(x) /\ x.num \in 1 .. UINT16_MAX) \/ (IsStr(x) /\ IsUuid(x.str))
  BY Zenon DEF Valid
<1>2. num.rc = "ok" <=> IsNum(x) /\ x.num \in 1 .. UINT16_MAX
  BY BoundsRead
<1>3. /\ r.rc = "ok" => Uuid128Elem(x).rc = "ok" /\ Uuid128Elem(x).val = U128Bytes(r.val)
      /\ r.rc # "ok" => Uuid128Elem(x).rc # "ok"
  BY Codes, Zenon DEF Uuid128Elem
<1>4. IsNum(x) => ~IsStr(x)
  BY Kinds DEF IsScalar
<1> HIDE DEF num
<1>5. CASE num.rc = "ok"
  <2>1. r = Got([type |-> 16, value |-> << x.num >>])
    BY <1>5, Zenon DEF JsonUuid, num
  <2>2. r.rc = "ok"
    BY <2>1, Codes
  <2> QED
    BY <1>1, <1>2, <1>3, <1>4, <1>5, <2>2
<1>6. CASE num.rc # "ok" /\ ~IsStr(x)
  <2>1. r = Failed("SYS_ERANGE")
    BY <1>6, Zenon DEF JsonUuid, num
  <2>2. r.rc # "ok"
    BY <2>1, Codes
  <2> QED
    BY <1>1, <1>2, <1>3, <1>6, <2>2
<1>7. CASE num.rc # "ok" /\ IsStr(x)
  <2> DEFINE s == x.str
             q == Uuid128(s)
  <2>1. IsText(s) /\ IsPlain(s)
    BY <1>7, Kinds DEF IsScalar
  <2>2. q.rc = "ok" /\ ~(CharsOf(s) < 36) <=> IsUuid(s)
    BY <2>1, UuidSays
  <2>3. r = IF CharsOf(s) < 36 THEN Failed("SYS_ERANGE")
            ELSE IF q.rc = "ok" THEN Got([type |-> 128, value |-> q.val]) ELSE Failed(q.rc)
    BY <1>7, Zenon DEF JsonUuid, num
  <2>4. CASE IsUuid(s)
    <3>1. r = Got([type |-> 128, value |-> q.val])
      BY <2>2, <2>3, <2>4
    <3>2. r.rc = "ok" /\ r.val = [type |-> 128, value |-> q.val]
      BY <3>1, Codes
    <3>3. U128Bytes(r.val) = q.val
      BY <3>2 DEF U128Bytes
    <3>4. Uuid128Str(q.val) = SubSeq(s, 1, 20)
      BY <2>1, <2>4, UuidSame
    <3> HIDE DEF q, r, s
    <3>5. Uuid128Elem(x).rc = "ok" /\ Uuid128Elem(x).val = q.val
      BY <1>3, <3>2, <3>3
    <3>6. Valid("uuids128", x)
      BY <1>1, <1>7, <2>4 DEF s
    <3> QED
      BY <3>4, <3>5, <3>6 DEF s
  <2>5. CASE ~IsUuid(s)
    <3>1. r.rc # "ok"
      BY <2>2, <2>3, <2>5, Codes
    <3> QED
      BY <1>1, <1>2, <1>3, <1>7, <2>5, <3>1
  <2> QED
    BY <2>4, <2>5
<1> QED
  BY <1>5, <1>6, <1>7

\* An element of a list is read if it is valid, and what is written of it says the same.
LEMMA ElemTold ==
  ASSUME NEW f \in Lists, NEW x, IsScalar(x), IsStr(x) => IsText(x.str)
  PROVE  /\ ReadElem(f, x).rc = "ok" <=> Valid(f, x)
         /\ ReadElem(f, x).rc = "ok" =>
              ElementAsAsked(f, ReportList(f, << ReadElem(f, x).val >>).arr[1], x)
<1> DEFINE r == ReadElem(f, x)
           shown == ReportList(f, << r.val >>).arr[1]
<1>1. /\ f = "uuids128" => shown = Str(Uuid128Str(r.val))
      /\ f = "public_tgt_addrs" => shown = Str(AddrStr(r.val))
      /\ f \notin {"uuids128", "public_tgt_addrs"} => shown = Num(r.val)
  <2> HIDE DEF r
  <2> DEFINE Item(u) == CASE f = "uuids128" -> Str(Uuid128Str(u))
                          [] f = "public_tgt_addrs" -> Str(AddrStr(u))
                          [] OTHER -> Num(u)
             items == [i \in 1 .. Len(<< r.val >>) |-> Item(<< r.val >>[i])]
  <2>1. ReportList(f, << r.val >>).arr = items
    BY Kinds, Zenon DEF ReportList
  <2>2. 1 \in 1 .. Len(<< r.val >>) /\ << r.val >>[1] = r.val
    OBVIOUS
  <2>3. items[1] = Item(r.val)
    <3> HIDE DEF Item
    <3> QED
      BY <2>2
  <2>4. shown = Item(r.val)
    BY <2>1, <2>3
  <2> HIDE DEF shown, items
  <2> QED
    BY <2>4
<1>2. CASE f = "uuids128"
  <2>1. r = Uuid128Elem(x)
    BY <1>2 DEF ReadElem
  <2>2. /\ r.rc = "ok" <=> Valid(f, x)
        /\ r.rc = "ok" /\ IsStr(x) => Uuid128Str(r.val) = SubSeq(x.str, 1, 20)
    BY <1>2, <2>1, UuidElem
  <2> HIDE DEF r, shown
  <2>3. r.rc = "ok" => ElementAsAsked(f, shown, x)
    BY <1>1, <1>2, <2>2 DEF ElementAsAsked
  <2> QED
    BY <2>2, <2>3 DEF r, shown
<1>3. CASE f = "public_tgt_addrs"
  <2>1. r = JsonAddr(x)
    BY <1>3 DEF ReadElem
  <2>2. Valid(f, x) <=> IsStr(x) /\ Len(Numerals(x.str)) = 6 /\ \A k \in 1 .. 6 : IsHex(Numerals(x.str)[k])
    BY <1>3 DEF Valid
  <2> HIDE DEF r, shown
  <2>3. CASE ~IsStr(x)
    <3>1. r.rc # "ok"
      BY <2>1, <2>3, Codes DEF JsonAddr
    <3> QED
      BY <2>2, <2>3, <3>1 DEF r
  <2>4. CASE IsStr(x)
    <3>1. r = ParseMac(x.str) /\ IsText(x.str) /\ IsPlain(x.str)
      BY <2>1, <2>4 DEF JsonAddr, IsScalar
    <3>2. /\ r.rc = "ok" <=> Valid(f, x)
          /\ r.rc = "ok" => Numerals(AddrStr(r.val)) = Numerals(x.str)
      BY <2>2, <2>4, <3>1, AddrSays
    <3>3. ASSUME r.rc = "ok" PROVE ElementAsAsked(f, shown, x)
      <4>1. shown = Str(AddrStr(r.val)) /\ IsStr(shown) /\ shown.str = AddrStr(r.val)
        BY <1>1, <1>3, Kinds
      <4>2. f \notin Texts /\ f # "uuids128"
        BY <1>3 DEF Texts
      <4>3. Says(f, shown) = Numerals(AddrStr(r.val)) /\ Says(f, x) = Numerals(x.str)
        BY <2>4, <4>1, <4>2 DEF Says
      <4> QED
        BY <3>2, <3>3, <4>2, <4>3 DEF ElementAsAsked
    <3> QED
      BY <3>2, <3>3 DEF r, shown
  <2> QED
    BY <2>3, <2>4
<1>4. CASE f \notin {"uuids128", "public_tgt_addrs"}
  <2>1. r = IntBounds(x, 0, UINT16_MAX)
    BY <1>4 DEF ReadElem, Uuid16Elem
  <2>2. Valid(f, x) <=> IsNum(x) /\ x.num \in 0 .. UINT16_MAX
    BY <1>4 DEF Valid
  <2>3. /\ r.rc = "ok" <=> Valid(f, x)
        /\ r.rc = "ok" => r.val = x.num
    BY <2>1, <2>2, BoundsRead
  <2> HIDE DEF r, shown
  <2>4. r.rc = "ok" => shown = x
    BY <1>1, <1>4, <2>2, <2>3 DEF IsScalar
  <2>5. r.rc = "ok" => ElementAsAsked(f, shown, x)
    BY <1>4, <2>4 DEF ElementAsAsked
  <2> QED
    BY <2>3, <2>5 DEF r, shown
<1> QED
  BY <1>2, <1>3, <1>4

-----------------------------------------------------------------------------
(* What is reported of what was asked.                                    *)

\* What a parameter that is told is told as.
Told(par, p, said) ==
  /\ p \in DOMAIN par
  /\ IF p \in Lists THEN ListAsAsked(p, said.arr, par[p].arr) ELSE Says(p, said) = Says(p, par[p])

\* The names of a field that say what is in it.
LEMMA PlainNames ==
  ASSUME NEW f \in Fields, NEW p \in NamesOf(f) \ CompleteNames
  PROVE  IF f = "slave_itvl" THEN p \in {"slave_itvl_min", "slave_itvl_max"} ELSE p = f
<1>1. \A g \in HasComplete : IsCompleteName[g] \in CompleteNames
  BY DEF CompleteNames
<1> QED
  BY <1>1 DEF NamesOf

\* The parameters that are no booleans belong to fields.
LEMMA PlainFields ==
  /\ \A f \in Fields : f \notin CompleteNames
  /\ \A p \in Parameters \ CompleteNames : \E f \in Fields : p \in NamesOf(f) /\ (p # f => f = "slave_itvl")
<1>1. CompleteNames = {"uuids16_is_complete", "uuids32_is_complete", "uuids128_is_complete", "name_is_complete"}
  BY CompletesAre DEF CompleteNames
<1>2. \A f \in Fields : f \notin CompleteNames
  BY <1>1, FieldsAre
<1>3. ASSUME NEW p \in Parameters \ CompleteNames
      PROVE  \E f \in Fields : p \in NamesOf(f) /\ (p # f => f = "slave_itvl")
  <2>1. p \in Fields \ {"slave_itvl"} \/ p \in {"slave_itvl_min", "slave_itvl_max"}
    BY DEF Parameters
  <2>2. CASE p \in Fields \ {"slave_itvl"}
    BY <2>2 DEF NamesOf
  <2>3. CASE p \in {"slave_itvl_min", "slave_itvl_max"}
    <3>1. "slave_itvl" \in Fields
      BY FieldsAre
    <3> QED
      BY <2>3, <3>1 DEF NamesOf
  <2> QED
    BY <2>1, <2>2, <2>3
<1> QED
  BY <1>2, <1>3

\* A number that was read is written as it was asked.
LEMMA BoundsTold ==
  ASSUME NEW item, IsScalar(item), NEW lo, NEW hi, IntBounds(item, lo, hi).rc = "ok"
  PROVE  Num(IntBounds(item, lo, hi).val) = item
BY BoundsRead DEF IsScalar

\* So are both ends of a range.
LEMMA RangeTold ==
  ASSUME NEW par, "slave_itvl_min" \in DOMAIN par, \A p \in DOMAIN par : IsScalar(par[p]),
         ReadRange(par).rc = "ok"
  PROVE  /\ Len(ReadRange(par).val) = 2 /\ ReadRange(par).val # << >>
         /\ {"slave_itvl_min", "slave_itvl_max"} \subseteq DOMAIN par
         /\ LET b == Payload("slave_itvl", ReadRange(par).val)
            IN /\ Num(Range16(b)[1]) = par["slave_itvl_min"] /\ Num(Range16(b)[2]) = par["slave_itvl_max"]
               /\ b # << >>
<1> DEFINE lo == IntBounds(par.slave_itvl_min, 0, UINT16_MAX)
           hi == IF "slave_itvl_max" \in DOMAIN par
                 THEN IntBounds(par.slave_itvl_max, 0, UINT16_MAX) ELSE Failed("SYS_ENOENT")
           r == ReadRange(par)
           b == PutBe16(lo.val) \o PutBe16(hi.val)
<1>1. r = IF lo.rc # "ok" THEN lo ELSE IF hi.rc # "ok" THEN hi ELSE Got(<< lo.val, hi.val >>)
  BY Zenon DEF ReadRange
<1>2. lo.rc = "ok" /\ hi.rc = "ok"
  <2> HIDE DEF lo, hi, r
  <2> QED
    BY <1>1 DEF r
<1>3. "slave_itvl_max" \in DOMAIN par
  <2>1. Failed("SYS_ENOENT").rc # "ok"
    BY Codes
  <2> QED
    BY <1>2, <2>1
<1>4. hi = IntBounds(par.slave_itvl_max, 0, UINT16_MAX)
  BY <1>3
<1>5. Num(lo.val) = par["slave_itvl_min"] /\ Num(hi.val) = par["slave_itvl_max"]
  <2>1. IsScalar(par["slave_itvl_min"]) /\ IsScalar(par["slave_itvl_max"])
    BY <1>3
  <2> QED
    BY <1>2, <1>4, <2>1, BoundsTold
<1>6. lo.val \in 0 .. UINT16_MAX /\ hi.val \in 0 .. UINT16_MAX
  BY <1>2, <1>4, BoundsKept
<1>7. r.val = << lo.val, hi.val >>
  <2>1. r = Got(<< lo.val, hi.val >>)
    BY <1>1, <1>2
  <2> HIDE DEF r, lo, hi
  <2> QED
    BY <2>1, Codes
<1> HIDE DEF lo, hi, r
<1>8. Len(r.val) = 2 /\ r.val[1] = lo.val /\ r.val[2] = hi.val /\ r.val # << >>
  BY <1>7
<1>9. Payload("slave_itvl", r.val) = b
  BY <1>8 DEF Payload
<1>10. Len(b) = 4 /\ Range16(b)[1] = lo.val /\ Range16(b)[2] = hi.val
  BY <1>6, RangeBytes
<1> HIDE DEF b
<1>11. b # << >>
  <2>1. Len(b) = 4
    BY <1>10
  <2>2. Len(<< >>) = 0
    BY EmptySequence
  <2> QED
    BY <2>1, <2>2
<1> QED
  BY <1>3, <1>5, <1>8, <1>9, <1>10, <1>11 DEF r

\* A list.
LEMMA ListTold ==
  ASSUME NEW f \in Lists, NEW item, IsItem(item),
         IsArr(item) => \A k \in 1 .. Len(item.arr) : IsScalar(item.arr[k]),
         ReadList(f, item).rc = "ok"
  PROVE  LET u == ReadList(f, item).val
         IN /\ IsArr(item)
            /\ u = << >> => \A i \in DOMAIN item.arr : ~Valid(f, item.arr[i])
            /\ u # << >> => ListAsAsked(f, ReportList(f, u).arr, item.arr)
<1> DEFINE elems == item.arr
           N == Len(elems)
           good == {k \in 1 .. N : ReadElem(f, elems[k]).rc = "ok"}
           r == ReadList(f, item)
<1>1. IsArr(item)
  <2>1. ASSUME ~IsArr(item) PROVE r = Failed("SYS_ERANGE")
    BY <2>1, Zenon DEF ReadList, ArrGen
  <2> HIDE DEF r
  <2> QED
    BY <2>1, Codes DEF r
<1>2. IsSequence(elems) /\ \A k \in 1 .. N : IsStr(elems[k]) => IsText(elems[k].str)
  BY <1>1 DEF IsItem
<1>3. N \in Nat /\ DOMAIN elems = 1 .. N
  BY <1>2, SequenceIs
<1>4. r = Got(IF good = {} THEN << >> ELSE << ReadElem(f, elems[Min(good)]).val >>)
  BY <1>1, <1>2, ListRead
<1>5. \A k \in 1 .. N : k \in good <=> Valid(f, elems[k])
  BY <1>1, <1>2, ElemTold
<1>6. CASE good = {}
  <2>1. r.val = << >>
    BY <1>4, <1>6, Codes
  <2>2. \A i \in DOMAIN elems : ~Valid(f, elems[i])
    <3> HIDE DEF good
    <3> QED
      BY <1>3, <1>5, <1>6
  <2> QED
    BY <1>1, <2>1, <2>2
<1>7. CASE good # {}
  <2> DEFINE i == Min(good)
             x == ReadElem(f, elems[i]).val
  <2>1. good \in SUBSET Nat
    BY <1>3
  <2>2. i \in good /\ \A j \in good : i <= j
    <3> HIDE DEF good
    <3> QED
      BY <1>7, <2>1, LeastOf
  <2>3. i \in 1 .. N
    BY <2>2
  <2>4. \A j \in 1 .. i - 1 : ~Valid(f, elems[j])
    <3> SUFFICES ASSUME NEW j \in 1 .. i - 1 PROVE j \notin good
      <4>1. \A j \in 1 .. i - 1 : j \in 1 .. N
        <5> HIDE DEF i
        <5> QED
          BY <1>3, <2>3
      <4> HIDE DEF good, i, N
      <4> QED
        BY <1>5, <4>1
    <3> HIDE DEF good
    <3>1. j \in Int /\ i \in Int /\ ~(i <= j)
      <4> HIDE DEF i
      <4> QED
        BY <2>3
    <3> QED
      BY <2>2, <3>1
  <2>5. r.val = << x >>
    <3>1. r = Got(<< x >>)
      BY <1>4, <1>7
    <3> HIDE DEF r, x
    <3> QED
      BY <3>1, Codes
  <2>6. ReadElem(f, elems[i]).rc = "ok" /\ Valid(f, elems[i])
    BY <1>5, <2>2, <2>3
  <2> HIDE DEF i
  <2>7. ElementAsAsked(f, ReportList(f, << x >>).arr[1], elems[i])
    BY <1>1, <1>2, <2>3, <2>6, ElemTold
  <2> HIDE DEF good, x
  <2>8. Len(ReportList(f, << x >>).arr) = 1
    <3> DEFINE Item(u) == CASE f = "uuids128" -> Str(Uuid128Str(u))
                            [] f = "public_tgt_addrs" -> Str(AddrStr(u))
                            [] OTHER -> Num(u)
               items == [k \in 1 .. Len(<< x >>) |-> Item(<< x >>[k])]
    <3>1. ReportList(f, << x >>).arr = items
      BY Kinds, Zenon DEF ReportList
    <3> HIDE DEF Item
    <3>2. Len(items) = 1
      BY OneUnit
    <3> QED
      BY <3>1, <3>2
  <2>9. ListAsAsked(f, ReportList(f, << x >>).arr, elems)
    BY <1>3, <2>3, <2>4, <2>6, <2>7, <2>8 DEF ListAsAsked
  <2>10. << x >> # << >>
    BY OneUnit
  <2> HIDE DEF r, elems
  <2> QED
    BY <1>1, <2>5, <2>9, <2>10 DEF r, elems
<1> QED
  BY <1>6, <1>7

\* The empty text has no numerals.
LEMMA NoNumerals == Numerals(<< >>) = << >>
<1>1. IsSequence(<< >>) /\ Len(<< >>) = 0
  BY EmptySequence
<1> DEFINE s == << >>
<1>2. IsSequence(s) /\ Len(s) = 0
  BY <1>1
<1> HIDE DEF s
<1>3. Numerals(s) = << >>
  <2>1. PICK kept : kept[0] = << >> /\ Numerals(s) = kept[Len(s)]
    BY <1>2, NumeralsLoop
  <2> QED
    BY <1>2, <2>1
<1> QED
  BY <1>3 DEF s

\* A name or a URI.
LEMMA TextTold ==
  ASSUME NEW item, IsItem(item), IsScalar(item), ReadText(item).rc = "ok"
  PROVE  LET u == ReadText(item).val
         IN /\ IsStr(item) /\ Str(CStr(u)) = item
            /\ u = << >> => Numerals(item.str) = << >>
<1>1. IsStr(item) /\ ReadText(item).val = item.str
  <2>1. CASE ~IsStr(item) \/ Len(item.str) > MaxFieldSz
    BY <2>1, Codes DEF ReadText
  <2>2. CASE ~(~IsStr(item) \/ Len(item.str) > MaxFieldSz)
    BY <2>2, Codes DEF ReadText
  <2> QED
    BY <2>1, <2>2
<1> DEFINE s == item.str
<1>2. IsSequence(s) /\ (\A k \in 1 .. Len(s) : s[k] # NUL) /\ item = Str(s)
  BY <1>1 DEF IsItem, IsScalar, IsPlain, IsText
<1>3. {k \in DOMAIN s : s[k] = NUL} = {}
  BY <1>2, SequenceIs
<1> HIDE DEF s
<1>4. CStr(s) = s
  BY <1>3 DEF CStr
<1> QED
  BY <1>1, <1>2, <1>4, NoNumerals DEF s

\* Bytes.
LEMMA BytesTold ==
  ASSUME NEW f \in ByteFields, NEW item, IsItem(item), IsScalar(item), HexString(item, MaxFieldSz).rc = "ok"
  PROVE  LET u == HexString(item, MaxFieldSz).val
         IN /\ IsStr(item) /\ Says(f, Str(ByteString(u))) = Says(f, item)
            /\ u = << >> => Numerals(item.str) = << >>
<1> DEFINE s == item.str
           r == ParseByteStream(s, MaxFieldSz)
<1>1. IsStr(item) /\ HexString(item, MaxFieldSz) = r
  <2>1. ASSUME ~IsStr(item) PROVE FALSE
    BY <2>1, Codes DEF HexString
  <2> QED
    BY <2>1 DEF HexString
<1>2. IsText(s) /\ IsPlain(s)
  BY <1>1 DEF IsItem, IsScalar
<1>3. MaxFieldSz \in Nat
  BY SizeAssumption
<1>4. IsSequence(s) /\ \A k \in 1 .. Len(s) : IsHex(s[k]) => s[k] = Hex(s[k].hex)
  BY <1>2 DEF IsText, IsPlain
<1>5. r.rc = "ok"
  BY <1>1
<1> HIDE DEF s
<1>6. IsSequence(r.val) /\ IsSequence(Numerals(s)) /\ Len(r.val) = Len(Numerals(s))
  BY <1>3, <1>4, <1>5, ParsedFits, ParsedSays
<1>7. Numerals(WithColons(r.val)) = Numerals(s)
  BY <1>2, <1>3, <1>5, ReadSays
<1> HIDE DEF r
<1>8. ByteString(r.val) = WithColons(r.val)
  BY <1>6, HexStrWhole
<1>9. f \notin Texts
  BY DEF ByteFields, Texts
<1>10. Says(f, Str(ByteString(r.val))) = Numerals(s) /\ Says(f, item) = Numerals(s)
  BY <1>1, <1>7, <1>8, <1>9, Kinds DEF Says, s
<1>11. ASSUME r.val = << >> PROVE Numerals(s) = << >>
  <2>1. Len(Numerals(s)) = 0 /\ Len(<< >>) = 0
    BY <1>6, <1>11, EmptySequence
  <2> QED
    BY <1>6, <2>1, EmptySequence, SameSequence
<1> QED
  BY <1>1, <1>10, <1>11 DEF s

\* A field that is read from a request is reported as what the request says.
LEMMA FieldTold ==
  ASSUME NEW par, IsAsk(par), NEW f \in Fields, ReadField(f, par).rc = "ok",
         ReadField(f, par).val # << >>,
         NEW e, e.field = f, e.payload = Payload(f, ReadField(f, par).val)
  PROVE  /\ Shown(e)
         /\ \A p \in NamesOf(f) \ CompleteNames : Told(par, p, ReportOf(e)[p])
<1> DEFINE r == ReadField(f, par)
           item == par[f]
<1>1. ParamOf(f) \in DOMAIN par
  <2>1. ASSUME ParamOf(f) \notin DOMAIN par PROVE FALSE
    BY <2>1, Codes DEF ReadField
  <2> QED
    BY <2>1
<1>2. \A p \in DOMAIN par : IsItem(par[p]) /\ IsScalar(par[p])
  BY DEF IsAsk
<1>3. CASE f = "slave_itvl"
  <2>1. "slave_itvl_min" \in DOMAIN par /\ r = ReadRange(par)
    BY <1>1, <1>3, ReadWith DEF ParamOf
  <2>2. /\ {"slave_itvl_min", "slave_itvl_max"} \subseteq DOMAIN par
        /\ Num(Range16(e.payload)[1]) = par["slave_itvl_min"]
        /\ Num(Range16(e.payload)[2]) = par["slave_itvl_max"]
        /\ e.payload # << >>
    BY <1>2, <1>3, <2>1, RangeTold
  <2>3. Shown(e)
    BY <1>3, <2>2 DEF Shown
  <2>4. /\ ReportOf(e)["slave_itvl_min"] = par["slave_itvl_min"]
        /\ ReportOf(e)["slave_itvl_max"] = par["slave_itvl_max"]
    BY <1>3, <2>2, ReportNames
  <2>5. ASSUME NEW p \in NamesOf(f) \ CompleteNames PROVE Told(par, p, ReportOf(e)[p])
    <3>1. p \in {"slave_itvl_min", "slave_itvl_max"}
      BY <1>3, PlainNames
    <3>2. ReportOf(e)[p] = par[p] /\ p \in DOMAIN par /\ p \notin Lists
      BY <2>2, <2>4, <3>1 DEF Lists
    <3> QED
      BY <3>2 DEF Told
  <2> QED
    BY <2>3, <2>5
<1>4. CASE f # "slave_itvl"
  <2> DEFINE u == r.val
  <2>1. f \in DOMAIN par /\ IsItem(item) /\ IsScalar(item) /\ e.payload = u /\ u # << >>
    BY <1>1, <1>2, <1>4 DEF ParamOf, Payload
  <2>2. \A p \in NamesOf(f) \ CompleteNames : p = f /\ p \in NamesOf(f)
    BY <1>4, PlainNames
  <2>3. \A p \in NamesOf(f) : ReportOf(e)[p] = IF p = f THEN ValueOf(e) ELSE Bool(e.complete)
    BY <1>4, ReportNames
  <2>4. ASSUME IF f \in Lists THEN ListAsAsked(f, ValueOf(e).arr, item.arr) ELSE Says(f, ValueOf(e)) = Says(f, item)
        PROVE  \A p \in NamesOf(f) \ CompleteNames : Told(par, p, ReportOf(e)[p])
    <3> SUFFICES ASSUME NEW p \in NamesOf(f) \ CompleteNames PROVE Told(par, p, ReportOf(e)[p])
      OBVIOUS
    <3>1. p = f /\ ReportOf(e)[p] = ValueOf(e)
      BY <2>2, <2>3
    <3> QED
      BY <2>1, <2>4, <3>1 DEF Told
  <2>5. f # "flags" => Shown(e)
    BY <2>1 DEF Shown
  <2>6. CASE f = "flags"
    <3> DEFINE n == IntBounds(item, 0, UINT8_MAX)
    <3>1. r = ReadFlags(item)
      BY <1>1, <2>6, ReadWith
    <3>2. One(n) # Got(<< 0 >>) /\ r = One(n)
      <4>1. r = IF One(n) = Got(<< 0 >>) THEN Failed("SYS_EINVAL") ELSE One(n)
        BY <3>1 DEF ReadFlags
      <4>2. Failed("SYS_EINVAL").rc # "ok"
        BY Codes
      <4> HIDE DEF n
      <4> QED
        BY <4>1, <4>2
    <3>3. n.rc = "ok" /\ u = << n.val >> /\ u[1] = n.val
      <4>1. One(n).rc = "ok"
        BY <3>2
      <4> HIDE DEF n
      <4> QED
        BY <3>2, <4>1, OneOf
    <3>4. n.val # 0
      <4>1. One(n) = Got(<< n.val >>)
        BY <3>3 DEF One
      <4> HIDE DEF n
      <4> QED
        BY <3>2, <4>1
    <3>5. Num(n.val) = item
      BY <2>1, <3>3, BoundsTold
    <3>6. Shown(e)
      <4> HIDE DEF n, u
      <4> QED
        BY <2>1, <2>6, <3>3, <3>4 DEF Shown
    <3>7. ValueOf(e) = Num(e.payload[1])
      BY <2>6, WrittenAs DEF Lists, Texts, ByteFields
    <3>8. f \notin Lists
      BY <2>6 DEF Lists
    <3> HIDE DEF n, u
    <3> QED
      BY <2>1, <2>4, <3>3, <3>5, <3>6, <3>7, <3>8
  <2>7. CASE f \in Ints
    <3> DEFINE lo == IF f = "tx_pwr_lvl" THEN -128 ELSE 0
               hi == IF f = "tx_pwr_lvl" THEN 127 ELSE UINT16_MAX
               n == IntBounds(item, lo, hi)
    <3>1. f \notin Lists /\ f \notin Texts /\ f \notin ByteFields /\ f # "flags"
      BY <2>7 DEF Ints, Lists, Texts, ByteFields
    <3>2. r = ReadInt(f, item)
      BY <1>1, <2>7, ReadWith
    <3>3. r = One(n)
      BY <3>2 DEF ReadInt
    <3> HIDE DEF n, lo, hi
    <3>4. n.rc = "ok" /\ u = << n.val >> /\ u[1] = n.val
      BY <3>3, OneOf
    <3>5. Num(n.val) = item
      BY <2>1, <3>4, BoundsTold DEF n
    <3>6. ValueOf(e) = Num(e.payload[1])
      BY <3>1, WrittenAs
    <3> HIDE DEF u
    <3> QED
      BY <2>1, <2>4, <2>5, <3>1, <3>4, <3>5, <3>6
  <2>8. CASE f \in Lists
    <3>1. f \notin Ints /\ f # "flags"
      BY <2>8 DEF Ints, Lists
    <3>2. r = ReadList(f, item)
      BY <1>1, <2>8, ReadWith
    <3>3. ValueOf(e) = ReportList(f, u)
      BY <2>1, <2>8, WrittenAs
    <3>4. IsArr(item) => \A k \in 1 .. Len(item.arr) : IsScalar(item.arr[k])
      BY <2>1 DEF IsAsk
    <3> HIDE DEF item
    <3>5. ListAsAsked(f, ReportList(f, u).arr, item.arr)
      BY <2>1, <2>8, <3>2, <3>4, ListTold
    <3> HIDE DEF r, u
    <3> QED
      BY <2>4, <2>5, <2>8, <3>1, <3>3, <3>5
  <2>9. CASE f \in Texts
    <3>1. f \notin Lists /\ f \notin Ints /\ f # "flags"
      BY <2>9 DEF Ints, Lists, Texts
    <3>2. r = ReadText(item)
      BY <1>1, <2>9, ReadWith
    <3>3. ValueOf(e) = Str(CStr(u))
      BY <2>1, <2>9, WrittenAs
    <3>4. Str(CStr(u)) = item
      BY <2>1, <3>2, TextTold
    <3> HIDE DEF r, u, item
    <3> QED
      BY <2>4, <2>5, <3>1, <3>3, <3>4
  <2>10. CASE f \in ByteFields
    <3>1. f \notin Lists /\ f \notin Ints /\ f \notin Texts /\ f # "flags"
      BY <2>10 DEF Ints, Lists, Texts, ByteFields
    <3>2. r = HexString(item, MaxFieldSz)
      BY <1>1, <2>10, ReadWith
    <3>3. ValueOf(e) = Str(ByteString(u))
      BY <2>1, <2>10, WrittenAs
    <3>4. Says(f, Str(ByteString(u))) = Says(f, item)
      BY <2>1, <2>10, <3>2, BytesTold
    <3> HIDE DEF r, u, item
    <3> QED
      BY <2>4, <2>5, <3>1, <3>3, <3>4
  <2> QED
    BY <1>4, <2>6, <2>7, <2>8, <2>9, <2>10, FieldKinds
<1> QED
  BY <1>3, <1>4

\* A parameter of which nothing is advertised says nothing.
LEMMA NothingTold ==
  ASSUME NEW par, IsAsk(par), NEW f \in Fields, ReadField(f, par).rc = "ok",
         ReadField(f, par).val = << >>,
         NEW p \in NamesOf(f) \ CompleteNames, p \in DOMAIN par
  PROVE  \/ p = "slave_itvl_max" /\ "slave_itvl_min" \notin DOMAIN par
         \/ IsStr(par[p]) /\ Numerals(par[p].str) = << >>
         \/ IsArr(par[p]) /\ \A i \in DOMAIN par[p].arr : ~Valid(p, par[p].arr[i])
<1> DEFINE r == ReadField(f, par)
           item == par[f]
<1>1. \A q \in DOMAIN par : IsItem(par[q]) /\ IsScalar(par[q])
  BY DEF IsAsk
<1>2. CASE f = "slave_itvl"
  <2>1. p \in {"slave_itvl_min", "slave_itvl_max"}
    BY <1>2, PlainNames
  <2>2. "slave_itvl_min" \notin DOMAIN par
    <3> SUFFICES ASSUME "slave_itvl_min" \in DOMAIN par PROVE FALSE
      OBVIOUS
    <3>1. r = ReadRange(par)
      BY <1>2, ReadWith DEF ParamOf
    <3> QED
      BY <1>1, <3>1, RangeTold
  <2> QED
    BY <2>1, <2>2
<1>3. CASE f # "slave_itvl"
  <2>1. p = f
    BY <1>3, PlainNames
  <2>2. f \in DOMAIN par /\ ParamOf(f) = f /\ IsItem(item) /\ IsScalar(item)
    BY <1>1, <1>3, <2>1 DEF ParamOf
  <2>3. \A x : << x >> # << >>
    BY OneUnit
  <2>4. CASE f = "flags"
    <3> DEFINE n == IntBounds(item, 0, UINT8_MAX)
    <3>1. r = IF One(n) = Got(<< 0 >>) THEN Failed("SYS_EINVAL") ELSE One(n)
      BY <2>2, <2>4, ReadWith DEF ReadFlags
    <3>2. Failed("SYS_EINVAL").rc # "ok"
      BY Codes
    <3> HIDE DEF n
    <3>3. One(n).rc = "ok" /\ r.val = One(n).val
      BY <3>1, <3>2
    <3> QED
      BY <2>3, <3>3, OneOf
  <2>5. CASE f \in Ints
    <3>1. \E lo, hi : r = One(IntBounds(item, lo, hi))
      <4>1. r = ReadInt(f, item)
        BY <2>2, <2>5, ReadWith
      <4> QED
        BY <4>1 DEF ReadInt
    <3> QED
      BY <2>3, <3>1, OneOf
  <2>6. CASE f \in Lists
    <3>1. r = ReadList(f, item)
      BY <2>2, <2>6, ReadWith
    <3>2. IsArr(item) => \A k \in 1 .. Len(item.arr) : IsScalar(item.arr[k])
      BY <2>2 DEF IsAsk
    <3> HIDE DEF item
    <3>3. IsArr(item) /\ \A i \in DOMAIN item.arr : ~Valid(f, item.arr[i])
      BY <2>2, <2>6, <3>1, <3>2, ListTold
    <3> QED
      BY <2>1, <3>3 DEF item
  <2>7. CASE f \in Texts
    <3>1. r = ReadText(item)
      BY <2>2, <2>7, ReadWith
    <3> QED
      BY <2>1, <2>2, <3>1, TextTold
  <2>8. CASE f \in ByteFields
    <3>1. r = HexString(item, MaxFieldSz)
      BY <2>2, <2>8, ReadWith
    <3> QED
      BY <2>1, <2>2, <2>8, <3>1, BytesTold
  <2> QED
    BY <1>3, <2>4, <2>5, <2>6, <2>7, <2>8, FieldKinds
<1> QED
  BY <1>2, <1>3

\* What is said of a list or a name is complete as the request says.
LEMMA CompleteTold ==
  ASSUME NEW par, IsAsk(par), NEW f \in HasComplete, ReadComplete(f, par).rc = "ok"
  PROVE  LET name == IsCompleteName[f]
             c == ReadComplete(f, par).val
         IN c \in BOOLEAN /\ Bool(c) = IF name \in DOMAIN par THEN par[name] ELSE Bool(TRUE)
<1> DEFINE name == IsCompleteName[f]
           r == ReadComplete(f, par)
<1>1. CASE name \notin DOMAIN par
  <2>1. r = Got(TRUE)
    BY <1>1 DEF ReadComplete
  <2> QED
    BY <1>1, <2>1, Codes
<1>2. CASE name \in DOMAIN par
  <2> DEFINE item == par[name]
  <2>1. r = JsonBool(item) /\ IsScalar(item)
    BY <1>2 DEF ReadComplete, IsAsk
  <2>2. IsBool(item)
    <3>1. ASSUME ~IsBool(item) PROVE FALSE
      BY <2>1, <3>1, Codes DEF JsonBool
    <3> QED
      BY <3>1
  <2>3. r.val = item.bool
    BY <2>1, <2>2, Codes DEF JsonBool
  <2>4. item = Bool(item.bool) /\ item.bool \in BOOLEAN
    BY <2>1, <2>2 DEF IsScalar
  <2> QED
    BY <1>2, <2>3, <2>4
<1> QED
  BY <1>1, <1>2

\* Each field that has units has its element.
LEMMA ElementsHave ==
  ASSUME NEW a, NEW f \in Fields, a.units[f] # << >>
  PROVE  \E n \in 1 .. Len(Elements(a)) : Elements(a)[n] = Element(f, a)
<1>1. PICK list : /\ list[0] = << >>
                  /\ \A k \in 1 .. 15 :
                       list[k] = IF a.units[FieldOrder[k]] = << >> THEN list[k - 1]
                                 ELSE Append(list[k - 1], Element(FieldOrder[k], a))
                  /\ \A k \in 0 .. 15 : IsSequence(list[k])
                  /\ Elements(a) = list[15]
  BY ElementsLoop
<1>2. PICK i \in 1 .. 15 : FieldOrder[i] = f
  BY FieldsAre
<1> DEFINE Has(s) == \E n \in 1 .. Len(s) : s[n] = Element(f, a)
           A == {k \in 0 .. 15 : k >= i => Has(list[k])}
<1>3. 0 \in A
  BY <1>2
<1>4. ASSUME NEW k \in 0 .. 15 - 1, k \in A PROVE k + 1 \in A
  <2> SUFFICES ASSUME k + 1 >= i PROVE Has(list[k + 1])
    OBVIOUS
  <2> DEFINE g == FieldOrder[k + 1]
             s == list[k]
             t == Append(s, Element(g, a))
  <2>1. k + 1 \in 1 .. 15 /\ k \in 0 .. 15 /\ (k + 1) - 1 = k /\ (k + 1 = i \/ k >= i)
    BY <1>2
  <2>2. list[k + 1] = (IF a.units[g] = << >> THEN s ELSE t) /\ IsSequence(s)
    BY <1>1, <2>1
  <2>3. /\ Len(s) \in Nat /\ Len(t) = Len(s) + 1 /\ t[Len(s) + 1] = Element(g, a)
        /\ \A j \in 1 .. Len(s) : t[j] = s[j]
    <3> HIDE DEF s
    <3> QED
      BY <2>2, Appended, SequenceIs
  <2> HIDE DEF t, s, g
  <2>4. CASE k + 1 = i
    <3>1. g = f
      BY <1>2, <2>4 DEF g
    <3>2. list[k + 1] = t /\ t[Len(s) + 1] = Element(f, a) /\ Len(s) + 1 \in 1 .. Len(t)
      BY <2>2, <2>3, <3>1
    <3> QED
      BY <3>2
  <2>5. CASE k >= i
    <3>1. PICK n \in 1 .. Len(s) : s[n] = Element(f, a)
      BY <1>4, <2>5 DEF s
    <3>2. n \in 1 .. Len(t) /\ t[n] = Element(f, a)
      BY <2>3, <3>1
    <3>3. list[k + 1] = s \/ list[k + 1] = t
      BY <2>2
    <3> QED
      BY <3>1, <3>2, <3>3
  <2> QED
    BY <2>1, <2>4, <2>5
<1>5. \A k \in 0 .. 15 : k \in A
  <2> HIDE DEF A
  <2>1. 15 \in Nat
    OBVIOUS
  <2> QED
    BY <1>3, <1>4, <2>1, UpTo
<1>6. Has(list[15])
  <2>1. 15 \in A /\ 15 >= i
    BY <1>5
  <2> HIDE DEF Has
  <2> QED
    BY <2>1
<1> QED
  BY <1>1, <1>6

-----------------------------------------------------------------------------
(* The invariant of advertising data.                                      *)

\* What is on the air.
OnAir ==
  /\ IsData(ElementsOf(air)) /\ air = BytesOf(ElementsOf(air))
  /\ ask # EmptyObject => ElementsOf(air) = Elements(adv)

\* What a request says is in its struct bhd_adv_fields_req.
WasRead(par, a) ==
  /\ \A f \in Fields : ReadField(f, par).rc = "ok" /\ ReadField(f, par).val = a.units[f]
  /\ \A f \in HasComplete : ReadComplete(f, par).rc = "ok" /\ ReadComplete(f, par).val = a.complete[f]

\* The first data made of a request are the ones that are reported.
Reported == ask # EmptyObject => data = Elements(adv)

\* What holds between two steps: of the request that is asked, of what was read of
\* it, and of the data from which the second request is made.
AdvInv ==
  /\ round \in {1, 2}
  /\ IsObject(ask) /\ IsRead(adv) /\ IsPeer(peer)
  /\ Len(air) <= MaxSz
  /\ stage \notin {"data refused", "connect refused"}
  /\ round = 1 => IsAsk(ask)
  /\ stage \notin {"asked", "refused"} /\ ask # EmptyObject => WasRead(ask, adv)
  /\ stage = "reported" /\ round = 1 => Reported
  /\ stage = "answered" => IsData(Elements(adv)) /\ text = ByteString(BytesOf(Elements(adv)))
  /\ stage = "on air" => OnAir
  /\ stage = "reported" => from = [addr_type |-> NameOf(peer.type), addr |-> Str(AddrStr(peer.addr))]
  /\ stage = "reported" /\ round = 1 => IsData(data) /\ report = Report(data)
  /\ stage = "connecting" => target = peer
  /\ round = 2 => IsData(data) /\ ask = Report(data)
  /\ round = 2 /\ Sayable(data) => stage # "refused" /\ (stage # "asked" => Elements(adv) = data)

\* What is on the air of data: no more than MaxSz bytes, from which they are parsed again.
LEMMA BytesKnown ==
  ASSUME NEW els, IsData(els)
  PROVE  /\ Len(BytesOf(els)) <= MaxSz /\ IsSequence(BytesOf(els))
         /\ ElementsOf(BytesOf(els)) = els
BY DataSized, BytesFit, ElementsBack DEF IsData

\* The invariant holds of the first request and of what other devices advertise.
LEMMA AdvInvInit == AdvInit => AdvInv
<1> SUFFICES ASSUME AdvInit PROVE AdvInv
  OBVIOUS
<1>1. round = 1 /\ adv = NoFields /\ peer \in Peers
  BY DEF AdvInit
<1>2. IsRead(adv)
  <2>1. \A f \in Fields : adv.units[f] = << >>
    BY <1>1 DEF NoFields
  <2> QED
    BY <2>1, NoUnits DEF IsRead
<1>3. IsPeer(peer)
  BY <1>1, PeerAssumption
<1>4. CASE stage = "asked" /\ ask \in Asks /\ air = << >>
  <2>1. IsObject(ask) /\ IsAsk(ask)
    BY <1>4, AskAssumption DEF IsObject, IsAsk
  <2>2. Len(air) <= MaxSz
    BY <1>4, EmptySequence, SizeAssumption
  <2> QED
    BY <1>1, <1>2, <1>3, <1>4, <2>1, <2>2 DEF AdvInv
<1>5. CASE stage = "on air" /\ ask = EmptyObject /\ \E i \in DOMAIN Foreign : air = BytesOf(Foreign[i])
  <2>1. PICK i \in DOMAIN Foreign : air = BytesOf(Foreign[i])
    BY <1>5
  <2> DEFINE els == Foreign[i]
  <2>2. IsData(els)
    BY ForeignAssumption
  <2> HIDE DEF els
  <2>3. air = BytesOf(els)
    BY <2>1 DEF els
  <2>4. Len(air) <= MaxSz /\ ElementsOf(air) = els
    BY <2>2, <2>3, BytesKnown
  <2>5. OnAir
    BY <1>5, <2>2, <2>3, <2>4 DEF OnAir
  <2>6. IsObject(ask) /\ IsAsk(ask) /\ ~(ask # EmptyObject)
    BY <1>5 DEF IsObject, IsAsk, EmptyObject
  <2>7. stage = "on air"
    BY <1>5
  <2>8. round = 1 /\ round # 2
    BY <1>1
  <2>9. Len(air) <= MaxSz
    BY <2>4
  <2> HIDE <1>5
  <2> QED
    BY <1>2, <1>3, <2>5, <2>6, <2>7, <2>8, <2>9, Zenon DEF AdvInv
<1> QED
  BY <1>4, <1>5 DEF AdvInit

\* What is read of a request fits; of a report that can be said, it is what was reported.
LEMMA RunAdvFieldsInv == AdvInv /\ RunAdvFields => AdvInv'
<1> SUFFICES ASSUME AdvInv, RunAdvFields PROVE AdvInv'
  OBVIOUS
<1> DEFINE units == [f \in Fields |-> ReadField(f, ask)]
           complete == [f \in HasComplete |-> ReadComplete(f, ask)]
           ok == /\ \A f \in Fields : ReadField(f, ask).rc = "ok"
                 /\ \A f \in HasComplete : ReadComplete(f, ask).rc = "ok"
<1>1. /\ stage = "asked" /\ round \in {1, 2} /\ IsObject(ask) /\ IsRead(adv) /\ IsPeer(peer)
      /\ Len(air) <= MaxSz /\ (round = 1 => IsAsk(ask)) /\ (round = 2 => IsData(data) /\ ask = Report(data))
  BY DEF AdvInv, RunAdvFields
<1>2. /\ round' = round /\ ask' = ask /\ data' = data /\ air' = air /\ peer' = peer
  BY DEF RunAdvFields, conn
<1>3. \/ ok /\ stage' = "read" /\ adv' = [units |-> [f \in Fields |-> units[f].val],
                                          complete |-> [f \in HasComplete |-> complete[f].val]]
      \/ ~ok /\ stage' = "refused" /\ adv' = adv
  BY DEF RunAdvFields
<1>4. CASE ok /\ stage' = "read" /\ adv' = [units |-> [f \in Fields |-> units[f].val],
                                            complete |-> [f \in HasComplete |-> complete[f].val]]
  <2>1. /\ \A f \in Fields : adv'.units[f] = ReadField(f, ask).val
        /\ \A f \in HasComplete : adv'.complete[f] = ReadComplete(f, ask).val
    BY <1>4
  <2>2. IsRead(adv')
    BY <1>1, <1>4, <2>1, ReadFieldFits DEF IsRead
  <2>3. round = 2 /\ Sayable(data) => Elements(adv') = data
    <3> SUFFICES ASSUME round = 2, Sayable(data) PROVE Elements(adv') = data
      OBVIOUS
    <3>1. IsData(data) /\ ask = Report(data)
      BY <1>1
    <3> HIDE DEF ok, units, complete
    <3> QED
      BY <2>1, <3>1, ReadBack
  <2>4. WasRead(ask, adv')
    BY <1>4, <2>1 DEF WasRead
  <2>5. stage' = "read"
    BY <1>4
  <2> HIDE <1>4
  <2> QED
    BY <1>1, <1>2, <2>2, <2>3, <2>4, <2>5 DEF AdvInv, IsRead, IsPeer, IsObject, IsAsk, WasRead
<1>5. CASE ~ok /\ stage' = "refused" /\ adv' = adv
  <2>1. ~(round = 2 /\ Sayable(data))
    <3> SUFFICES ASSUME round = 2, Sayable(data) PROVE ok
      BY <1>5
    <3>1. IsData(data) /\ ask = Report(data)
      BY <1>1
    <3> QED
      BY <3>1, ReadBack
  <2> HIDE DEF ok
  <2> QED
    BY <1>1, <1>2, <1>5, <2>1 DEF AdvInv
<1> QED
  BY <1>3, <1>4, <1>5

\* What is made of the fields is data if it is not refused.
LEMMA SetFieldsInv == AdvInv /\ SetFields => AdvInv'
<1> SUFFICES ASSUME AdvInv, SetFields PROVE AdvInv'
  OBVIOUS
<1> DEFINE els == Elements(adv)
<1>1. /\ stage = "read" /\ round \in {1, 2} /\ IsObject(ask) /\ IsRead(adv) /\ IsPeer(peer)
      /\ Len(air) <= MaxSz /\ (round = 2 => IsData(data) /\ ask = Report(data))
      /\ (round = 2 /\ Sayable(data) => Elements(adv) = data)
      /\ (round = 1 => IsAsk(ask)) /\ (ask # EmptyObject => WasRead(ask, adv))
  BY DEF AdvInv, SetFields
<1>2. /\ round' = round /\ ask' = ask /\ adv' = adv /\ air' = air /\ peer' = peer
  BY DEF SetFields, conn
<1>3. SizeOf(els) \in Nat
  <2>1. IsSequence(els) /\ \A n \in 1 .. Len(els) : IsElement(els[n])
    BY <1>1, ElementsGood
  <2> HIDE DEF els
  <2>2. Sized(els)
    BY <2>1 DEF Sized, IsElement
  <2> QED
    BY <2>2, SizeBounds
<1>4. CASE SizeOf(els) > MaxSz
  <2>1. stage' = "refused" /\ data' = data
    BY <1>4 DEF SetFields
  <2>2. ~(round = 2 /\ Sayable(data))
    <3> SUFFICES ASSUME round = 2, Sayable(data) PROVE FALSE
      OBVIOUS
    <3>1. els = data /\ SizeOf(data) <= MaxSz
      BY <1>1 DEF IsData
    <3> HIDE DEF els
    <3>2. SizeOf(els) \in Nat /\ MaxSz \in Nat /\ SizeOf(els) <= MaxSz
      BY <1>3, <3>1, SizeAssumption
    <3> QED
      BY <1>4, <3>2
  <2> HIDE DEF els
  <2> QED
    BY <1>1, <1>2, <2>1, <2>2 DEF AdvInv
<1>5. CASE ~(SizeOf(els) > MaxSz)
  <2>1. /\ stage' = "answered" /\ data' = (IF round = 1 THEN els ELSE data)
        /\ text' = ByteString(BytesOf(els))
    BY <1>5 DEF SetFields
  <2>2. IsData(els)
    <3>1. SizeOf(els) <= MaxSz
      <4> DEFINE z == SizeOf(els)
      <4> HIDE DEF z
      <4>1. z \in Nat /\ ~(z > MaxSz) /\ MaxSz \in Nat
        BY <1>3, <1>5, SizeAssumption DEF z
      <4>2. z <= MaxSz
        BY <4>1
      <4> QED
        BY <4>2 DEF z
    <3> QED
      BY <1>1, <3>1, ElementsGood
  <2>3. round = 2 => data' = data
    BY <2>1
  <2> QED
    BY <1>1, <1>2, <2>1, <2>2, <2>3 DEF AdvInv
<1> QED
  BY <1>4, <1>5

\* The text of the response is taken, and the bytes it was made of go on the air.
LEMMA AdvSetDataInv == AdvInv /\ AdvSetData => AdvInv'
<1> SUFFICES ASSUME AdvInv, AdvSetData PROVE AdvInv'
  OBVIOUS
<1> DEFINE els == Elements(adv)
           b == BytesOf(els)
<1>1. /\ stage = "answered" /\ round \in {1, 2} /\ IsObject(ask) /\ IsRead(adv) /\ IsPeer(peer)
      /\ (round = 2 => IsData(data) /\ ask = Report(data))
      /\ (round = 2 /\ Sayable(data) => Elements(adv) = data)
      /\ IsData(els) /\ text = ByteString(b)
      /\ (round = 1 => IsAsk(ask)) /\ (ask # EmptyObject => WasRead(ask, adv))
  BY DEF AdvInv, AdvSetData
<1>2. /\ round' = round /\ ask' = ask /\ adv' = adv /\ data' = data /\ peer' = peer
  BY DEF AdvSetData, conn
<1>3. Len(b) <= MaxSz /\ IsSequence(b) /\ ElementsOf(b) = els
  <2> HIDE DEF els
  <2> QED
    BY <1>1, BytesKnown
<1>4. HexString(Str(text), MaxSz) = Got(b)
  <2>1. text = WithColons(b)
    <3> HIDE DEF b
    <3> QED
      BY <1>1, <1>3, HexStrWhole
  <2>2. MaxSz \in Nat
    BY SizeAssumption
  <2> HIDE DEF b
  <2>3. ParseByteStream(text, MaxSz) = Got(b)
    BY <1>3, <2>1, <2>2, ParsedBack
  <2> QED
    BY <2>3, Kinds DEF HexString
<1>5. air' = b /\ stage' = "on air"
  <2> HIDE DEF b
  <2> QED
    BY <1>4, Codes DEF AdvSetData
<1>6. OnAir'
  BY <1>1, <1>2, <1>3, <1>5 DEF OnAir
<1>7. Len(air') <= MaxSz
  BY <1>3, <1>5
<1> HIDE DEF els, b
<1> QED
  BY <1>1, <1>2, <1>5, <1>6, <1>7 DEF AdvInv

\* What is reported are the elements on the air.
LEMMA ScanReportInv == AdvInv /\ ScanReport => AdvInv'
<1> SUFFICES ASSUME AdvInv, ScanReport PROVE AdvInv'
  OBVIOUS
<1> DEFINE els == ElementsOf(air)
<1>1. /\ stage = "on air" /\ round \in {1, 2} /\ IsObject(ask) /\ IsRead(adv) /\ IsPeer(peer)
      /\ Len(air) <= MaxSz /\ (round = 2 => IsData(data) /\ ask = Report(data))
      /\ (round = 2 /\ Sayable(data) => Elements(adv) = data)
      /\ IsData(els) /\ (ask # EmptyObject => els = Elements(adv))
      /\ (round = 1 => IsAsk(ask)) /\ (ask # EmptyObject => WasRead(ask, adv))
  BY DEF AdvInv, ScanReport, OnAir
<1>2. /\ round' = round /\ ask' = ask /\ adv' = adv /\ air' = air /\ peer' = peer
      /\ report' = Report(els) /\ data' = (IF round = 1 THEN els ELSE data)
      /\ from' = [addr_type |-> NameOf(peer.type), addr |-> Str(AddrStr(peer.addr))]
      /\ stage' = "reported"
  BY DEF ScanReport
<1> HIDE DEF els
<1>3. (round = 2 => data' = data) /\ (round = 1 => data' = els)
  BY <1>2
<1>4. CASE round = 1
  <2>1. Reported'
    BY <1>1, <1>2, <1>3, <1>4 DEF Reported
  <2> QED
    BY <1>1, <1>2, <1>3, <1>4, <2>1 DEF AdvInv
<1>5. CASE round = 2
  <2>1. round' = 2 /\ ~(round' = 1) /\ data' = data
    BY <1>2, <1>3, <1>5
  <2> QED
    BY <1>1, <1>2, <1>5, <2>1 DEF AdvInv
<1> QED
  BY <1>1, <1>4, <1>5

\* The second request is the report of the first data.
LEMMA AskAgainInv == AdvInv /\ AskAgain => AdvInv'
<1> SUFFICES ASSUME AdvInv, AskAgain PROVE AdvInv'
  OBVIOUS
<1>1. /\ stage = "reported" /\ round = 1 /\ IsRead(adv) /\ IsPeer(peer) /\ Len(air) <= MaxSz
      /\ IsData(data) /\ report = Report(data)
  BY DEF AdvInv, AskAgain
<1>2. /\ round' = 2 /\ ask' = report /\ adv' = adv /\ air' = air /\ peer' = peer /\ data' = data
      /\ stage' = "asked"
  BY DEF AskAgain, conn
<1>3. IsObject(ask')
  BY <1>1, <1>2, ReportIsObject
<1> QED
  BY <1>1, <1>2, <1>3 DEF AdvInv

\* The advertiser of a report is read as the one that was reported.
LEMMA ConnectReportedInv == AdvInv /\ ConnectReported => AdvInv'
<1> SUFFICES ASSUME AdvInv, ConnectReported PROVE AdvInv'
  OBVIOUS
<1>1. /\ stage = "reported" /\ round = 1 /\ IsObject(ask) /\ IsRead(adv) /\ IsPeer(peer) /\ Len(air) <= MaxSz
      /\ from = [addr_type |-> NameOf(peer.type), addr |-> Str(AddrStr(peer.addr))]
      /\ IsAsk(ask) /\ (ask # EmptyObject => WasRead(ask, adv))
  BY DEF AdvInv, ConnectReported
<1>2. /\ round' = round /\ ask' = ask /\ adv' = adv /\ air' = air /\ peer' = peer /\ data' = data
  BY DEF ConnectReported
<1>3. peer.type \in 0 .. 3 /\ IsSequence(peer.addr) /\ Len(peer.addr) = 6
      /\ peer = [type |-> peer.type, addr |-> peer.addr]
  BY <1>1 DEF IsPeer
<1>4. from.addr_type = NameOf(peer.type) /\ from.addr = Str(AddrStr(peer.addr))
  BY <1>1
<1>5. JsonKv(AddrTypes, from.addr_type) = Got(peer.type) /\ JsonAddr(from.addr) = Got(peer.addr)
  BY <1>3, <1>4, TypeBack, AddrBack
<1>6. stage' = "connecting" /\ target' = [type |-> peer.type, addr |-> peer.addr]
  BY <1>5, Codes DEF ConnectReported
<1>7. target' = peer'
  BY <1>2, <1>3, <1>6
<1> QED
  BY <1>1, <1>2, <1>6, <1>7 DEF AdvInv

\* At every stage, what was read fits and says what was asked, what is on the air is what
\* was made of it, and what was reported can be asked for again: the invariant from which
\* the properties of AdvData follow.
THEOREM AdvInvariant == AdvSpec => []AdvInv
<1>1. AdvInit => AdvInv
  BY AdvInvInit
<1>2. AdvInv /\ [AdvNext]_adv_vars => AdvInv'
  <2> SUFFICES ASSUME AdvInv, [AdvNext]_adv_vars PROVE AdvInv'
    OBVIOUS
  <2>1. CASE UNCHANGED adv_vars
    <3>1. /\ stage' = stage /\ round' = round /\ ask' = ask /\ adv' = adv /\ data' = data
          /\ text' = text /\ air' = air /\ report' = report
          /\ from' = from /\ peer' = peer /\ target' = target
      BY <2>1 DEF adv_vars, conn
    <3>2. OnAir' = OnAir /\ Reported' = Reported
      BY <3>1 DEF OnAir, Reported
    <3> QED
      BY <3>1, <3>2 DEF AdvInv
  <2> QED
    BY <2>1, RunAdvFieldsInv, SetFieldsInv, AdvSetDataInv, ScanReportInv, AskAgainInv, ConnectReportedInv
       DEF AdvNext
<1> QED
  BY <1>1, <1>2, PTL DEF AdvSpec

\* What the program writes it can read: the data of a response are taken and go on the
\* air as they were made (bhd_hex_str() and parse_arg_byte_stream()), a report that can be
\* said is asked for again without a refusal and makes the same data (bhd_scan_evt_enc()
\* and bhd_adv_fields_req_run()), and its advertiser is the one that is connected to
\* (bhd_addr_str() and parse_arg_mac()).
THEOREM AlwaysFedBack == AdvSpec => []FedBack
<1>1. AdvInv => FedBack
  BY DEF AdvInv, FedBack, OnAir, Sayable
<1> QED
  BY <1>1, AdvInvariant, PTL

\* From the invariant, what is reported is what was asked for.
LEMMA ReportedAsAsked ==
  ASSUME AdvInv, stage = "reported", round = 1, ask # EmptyObject
  PROVE  /\ \A p \in DOMAIN ask \ CompleteNames : p \in DOMAIN report \/ GivesNothing(p, ask[p])
         /\ \A p \in DOMAIN report \ CompleteNames : Told(ask, p, report[p])
         /\ \A f \in HasComplete \cap DOMAIN report :
              LET name == IsCompleteName[f]
              IN report[name] = IF name \in DOMAIN ask THEN ask[name] ELSE Bool(TRUE)
<1> DEFINE els == Elements(adv)
           N == Len(els)
<1>1. /\ IsAsk(ask) /\ IsRead(adv) /\ WasRead(ask, adv)
      /\ IsData(els) /\ report = Report(els)
  BY DEF AdvInv, Reported
<1>2. /\ IsSequence(els) /\ InOrder(els)
      /\ \A m \in 1 .. N : \E i \in 1 .. 15 : /\ els[m] = Element(FieldOrder[i], adv)
                                               /\ adv.units[FieldOrder[i]] # << >>
  BY ElementsOrdered
<1>3. N \in Nat /\ DOMAIN els = 1 .. N
  BY <1>2, SequenceIs
<1>4. \A n \in 1 .. N : \E f \in Fields : els[n] = Element(f, adv) /\ adv.units[f] # << >>
  BY <1>2, FieldsAre
<1> HIDE DEF els
<1>5. ASSUME NEW f \in Fields, adv.units[f] # << >>
      PROVE  /\ Shown(Element(f, adv))
             /\ \A p \in NamesOf(f) \ CompleteNames : Told(ask, p, ReportOf(Element(f, adv))[p])
  <2> DEFINE e == Element(f, adv)
  <2>1. e.field = f /\ e.payload = Payload(f, adv.units[f])
    BY ElementFields
  <2>2. ReadField(f, ask).rc = "ok" /\ ReadField(f, ask).val = adv.units[f]
    BY <1>1 DEF WasRead
  <2> HIDE DEF e
  <2>3. Shown(e) /\ \A p \in NamesOf(f) \ CompleteNames : Told(ask, p, ReportOf(e)[p])
    BY <1>1, <1>5, <2>1, <2>2, FieldTold
  <2> QED
    BY <2>3 DEF e
<1>6. \A n \in DOMAIN els : Shown(els[n])
  BY <1>3, <1>4, <1>5
<1>7. /\ \A n \in 1 .. N : \A p \in NamesOf(els[n].field) :
           p \in DOMAIN report /\ report[p] = ReportOf(els[n])[p]
      /\ \A f \in Fields : \A p \in NamesOf(f) :
           p \in DOMAIN report => \E n \in 1 .. N : els[n].field = f
  BY <1>1, <1>2, <1>6, ReportOne
<1>8. \A p \in DOMAIN report : \E n \in 1 .. N : p \in NamesOf(els[n].field)
  <2>1. DOMAIN report = UNION {DOMAIN ReportOf(els[n]) : n \in {m \in DOMAIN els : Shown(els[m])}}
    BY <1>1, ReportIs
  <2>2. \A n \in DOMAIN els : DOMAIN ReportOf(els[n]) = NamesOf(els[n].field)
    BY ReportNames
  <2> QED
    BY <1>3, <2>1, <2>2
<1>9. ASSUME NEW p \in DOMAIN ask \ CompleteNames
      PROVE  p \in DOMAIN report \/ GivesNothing(p, ask[p])
  <2>1. PICK f \in Fields : p \in NamesOf(f)
    BY <1>1, PlainFields DEF IsAsk
  <2>2. CASE adv.units[f] = << >>
    <3>1. ReadField(f, ask).rc = "ok" /\ ReadField(f, ask).val = << >>
      BY <1>1, <2>2 DEF WasRead
    <3> QED
      BY <1>1, <2>1, <3>1, NothingTold DEF GivesNothing
  <2>3. CASE adv.units[f] # << >>
    <3>1. PICK n \in 1 .. N : els[n] = Element(f, adv)
      BY <2>3, ElementsHave DEF els
    <3>2. els[n].field = f
      BY <3>1, ElementFields
    <3> QED
      BY <1>7, <2>1, <3>2
  <2> QED
    BY <2>2, <2>3
<1>10. ASSUME NEW p \in DOMAIN report \ CompleteNames PROVE Told(ask, p, report[p])
  <2>1. PICK n \in 1 .. N : p \in NamesOf(els[n].field)
    BY <1>8
  <2>2. PICK f \in Fields : els[n] = Element(f, adv) /\ adv.units[f] # << >>
    BY <1>4
  <2>3. els[n].field = f
    BY <2>2, ElementFields
  <2>4. report[p] = ReportOf(Element(f, adv))[p]
    BY <1>7, <2>1, <2>2
  <2> QED
    BY <1>5, <2>1, <2>2, <2>3, <2>4
<1>11. ASSUME NEW f \in HasComplete \cap DOMAIN report
       PROVE  report[IsCompleteName[f]] =
                IF IsCompleteName[f] \in DOMAIN ask THEN ask[IsCompleteName[f]] ELSE Bool(TRUE)
  <2> DEFINE name == IsCompleteName[f]
  <2>1. f \in Fields /\ f # "slave_itvl" /\ name # f
    BY CompletesAre, FieldsAre
  <2>2. f \in NamesOf(f) /\ name \in NamesOf(f)
    BY <2>1 DEF NamesOf
  <2>3. PICK n \in 1 .. N : els[n].field = f
    BY <1>7, <2>1, <2>2
  <2>4. els[n] = Element(f, adv)
    <3>1. PICK g \in Fields : els[n] = Element(g, adv)
      BY <1>4
    <3> QED
      BY <2>3, <3>1, ElementFields
  <2>5. ReadComplete(f, ask).rc = "ok" /\ ReadComplete(f, ask).val = adv.complete[f]
    BY <1>1 DEF WasRead
  <2>6. /\ adv.complete[f] \in BOOLEAN
        /\ Bool(adv.complete[f]) = IF name \in DOMAIN ask THEN ask[name] ELSE Bool(TRUE)
    BY <1>1, <2>5, CompleteTold
  <2>7. els[n].complete = adv.complete[f]
    <3>1. els[n].complete = (f \in HasComplete /\ adv.complete[f])
      BY <2>4, ElementFields
    <3> QED
      BY <2>6, <3>1
  <2>8. report[name] = Bool(els[n].complete)
    <3>1. report[name] = ReportOf(els[n])[name]
      BY <1>7, <2>2, <2>3
    <3>2. ReportOf(els[n])[name] = Bool(els[n].complete)
      BY <2>1, <2>2, <2>3, ReportNames
    <3> QED
      BY <3>1, <3>2
  <2> QED
    BY <2>6, <2>7, <2>8
<1> QED
  BY <1>9, <1>10, <1>11

\* What a client asks to be advertised is what the other side reports, nothing more and
\* nothing less, of a list its first valid element (bhd_adv_fields_req_run(),
\* bhd_gap_adv_fields(), bhd_adv_set_data_req_run(), and on the other side
\* bhd_gap_send_scan_evt() and bhd_scan_evt_enc()).
THEOREM AlwaysAsAsked == AdvSpec => []AdvertisedAsAsked
<1>1. AdvInv => AdvertisedAsAsked
  <2> SUFFICES ASSUME AdvInv, stage = "reported", round = 1, ask # EmptyObject
               PROVE  /\ \A p \in DOMAIN ask \ CompleteNames : p \in DOMAIN report \/ GivesNothing(p, ask[p])
                      /\ \A p \in DOMAIN report \ CompleteNames :
                           /\ p \in DOMAIN ask
                           /\ IF p \in Lists THEN ListAsAsked(p, report[p].arr, ask[p].arr)
                                              ELSE Says(p, report[p]) = Says(p, ask[p])
                      /\ \A f \in HasComplete \cap DOMAIN report :
                           LET name == IsCompleteName[f]
                           IN report[name] = IF name \in DOMAIN ask THEN ask[name] ELSE Bool(TRUE)
    BY Zenon DEF AdvertisedAsAsked
  <2> QED
    BY ReportedAsAsked DEF Told
<1> QED
  BY <1>1, AdvInvariant, PTL

\* No text or list of a request is stored behind its buffer, however long it is
\* (parse_arg_byte_stream_delim(), bhd_json_arr_gen() and bhd_adv_fields_req_run()).
THEOREM AlwaysStaysInside == AdvSpec => []StaysInside
<1>1. AdvInv => StaysInside
  BY DEF AdvInv, StaysInside, IsRead, IsUnits
<1> QED
  BY <1>1, AdvInvariant, PTL

=============================================================================
