------------------------------ MODULE MCAdvData ------------------------------
EXTENDS AdvData

\* Texts of n bytes; "broken" is not a number in its middle.
Bytes(n) == [i \in 1 .. n |-> <<"a", "b", "c", "d", "e", "f", "g", "h">>[1 + (i % 8)]]
Colons(n) == Str(WithColons(Bytes(n)))
Doubled(n) == Str(<<Sep("-")>> \o FlattenSeq([i \in 1 .. n |-> <<Hex(Bytes(n)[i]), Sep(":"), Sep("-")>>]))
Uuid == Str(Uuid128Str([i \in 1 .. 16 |-> "u"]))
OtherUuid == Str(Uuid128Str(Bytes(16)))
Longer == Str(Uuid128Str(Bytes(16)) \o <<Hex("x"), Junk>>)
Undashed == Str([i \in 1 .. 18 |-> Hex("u")])
Broken == Str(<<Hex("a"), Sep(":"), Junk>>)
TooBig == Str(<<Hex("a"), Sep(":"), Big>>)
Chars(n) == Str([i \in 1 .. n |-> Hex("x")])

Values(f) ==
  CASE f = "flags" -> {Num(0), Num(6), Num(256), Bool(TRUE)}
    [] f = "tx_pwr_lvl" -> {Num(0), Num(-128), Num(-129)}
    [] f \in {"appearance", "adv_itvl"} -> {Num(0), Num(65535), Num(65536)}
    [] f \in {"uuids16", "uuids32"} ->
         {Arr(<< >>), Arr(<<Num(1)>>), Arr(<<Num(65536), Num(2), Num(3)>>), Num(1)}
    [] f = "uuids128" -> {Arr(<<Uuid>>), Arr(<<Undashed, OtherUuid, Uuid>>), Arr(<<Num(0), Longer, Uuid>>), Arr(<<Num(1)>>)}
    [] f = "public_tgt_addrs" ->
         {Arr(<<Colons(6)>>), Arr(<<Colons(5), Colons(7), Doubled(6), Colons(6)>>)}
    [] f \in Texts -> {Chars(0), Chars(1), Chars(29), Chars(30), Num(1)}
    [] f \in ByteFields ->
         {Colons(n) : n \in {0, 2, 29, 30}} \cup {Doubled(3), Broken, TooBig, Num(1)}
    [] f = "slave_itvl_min" -> {Num(300), Num(65536)}
    [] f = "slave_itvl_max" -> {Num(65535), Num(65536)}
    [] OTHER -> {Bool(TRUE), Bool(FALSE)}

MCAsks ==
  UNION {{p :> v : v \in Values(p)} : p \in Parameters}
  \cup UNION {{p :> v @@ q :> w : v \in Values(p), w \in Values(q)} :
               p \in {"slave_itvl_min", "name", "uuids16"},
               q \in CompleteNames \cup {"slave_itvl_max", "flags", "mfg_data"}}
  \cup {"uuids32" :> Arr(<<Num(1)>>) @@ "name" :> Chars(3) @@ "flags" :> Num(6)
        @@ "slave_itvl_min" :> Num(1) @@ "slave_itvl_max" :> Num(256)}

MCPeers == {[type |-> t, addr |-> Bytes(6)] : t \in 0 .. 3}

Elem(f, payload, complete) == [field |-> f, payload |-> payload, complete |-> complete]

\* Data of other devices: what cannot be asked for, alone and next to what can.
MCForeign ==
  << << Elem("flags", <<0>>, FALSE) >>,
     << Elem("uuids16", <<1, 2>>, FALSE) >>,
     << Elem("uuids32", <<70000>>, TRUE) >>,
     << Elem("uuids32", <<1>>, FALSE), Elem("tx_pwr_lvl", <<-1>>, FALSE) >>,
     << Elem("name", <<Hex("x"), NUL, Hex("y")>>, TRUE) >>,
     << Elem("uri", << >>, FALSE) >>,
     << Elem("uuids128", <<Bytes(16)>>, FALSE) >>,
     << Elem("slave_itvl", <<1, 0, 0, 9>>, FALSE), Elem("appearance", <<0>>, FALSE) >>,
     << Elem("public_tgt_addrs", <<Bytes(6), Bytes(6)>>, FALSE) >>,
     << Elem("public_tgt_addrs", <<Bytes(6)>>, FALSE) >>,
     << Elem("name", <<Hex("x")>>, FALSE), Elem("mfg_data", Bytes(9), FALSE) >>,
     << Elem("name", <<Hex("x")>>, TRUE), Elem("uri", <<NUL, Hex("y")>>, FALSE) >> >>
=============================================================================
