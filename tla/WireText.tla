------------------------------ MODULE WireText ------------------------------
(***************************************************************************)
(* JSON values and the texts in them (parse.c, bhd_util.c).                *)
(*                                                                         *)
(* A text is a sequence of pieces: the numeral of a byte, one of a number  *)
(* above 255, a separator, a NUL, something else.  Two numerals in a row   *)
(* would be one, so that there is a separator between them, except in a    *)
(* UUID, whose numerals have two digits.  Bytes are opaque: strings, or    *)
(* whatever the module that uses this one takes for them.                  *)
(***************************************************************************)
EXTENDS Integers, SequencesExt, FiniteSetsExt

Hex(b) == [hex |-> b]
Big == [big |-> "above 255"]
Junk == [junk |-> "no number"]
NUL == [nul |-> 0]
Sep(c) == [sep |-> c]

IsHex(p) == "hex" \in DOMAIN p
IsSep(p) == "sep" \in DOMAIN p

\* cJSON values.
Num(n) == [num |-> n]
Str(text) == [str |-> text]
Arr(items) == [arr |-> items]
Bool(b) == [bool |-> b]

IsNum(item) == "num" \in DOMAIN item
IsStr(item) == "str" \in DOMAIN item
IsArr(item) == "arr" \in DOMAIN item
IsBool(item) == "bool" \in DOMAIN item

\* Every reader gives a return code and a value; the value counts if it is "ok".
Got(v) == [rc |-> "ok", val |-> v]
Failed(rc) == [rc |-> rc, val |-> << >>]

-----------------------------------------------------------------------------
(* parse.c.                                                                *)

\* Mutant: room for one byte more than there is.
TooManyM(n, max_len) == n > max_len

TooMany(n, max_len) == n >= max_len

\* strtok() on ":-" skips separators before, after and next to each other; the bytes
\* before the first error are written.  "val" holds what dst holds.
ByteStep(dst, p, max_len) ==
  IF dst.rc # "ok" \/ IsSep(p) THEN dst
  ELSE IF TooMany(Len(dst.val), max_len) THEN [rc |-> "SYS_EINVAL", val |-> dst.val]
  ELSE IF ~IsHex(p) THEN [rc |-> "-1", val |-> dst.val]
  ELSE Got(Append(dst.val, p.hex))

\* parse_arg_byte_stream().
ParseByteStream(text, max_len) ==
  LET dst[k \in 0 .. Len(text)] ==
        IF k = 0 THEN Got(<< >>) ELSE ByteStep(dst[k - 1], text[k], max_len)
  IN dst[Len(text)]

ParseExactLength(text, len) ==
  LET r == ParseByteStream(text, len)
  IN IF r.rc = "ok" /\ Len(r.val) # len THEN Failed("SYS_EINVAL") ELSE r

\* Mutant: parse_reverse_bytes() stops in the middle of the middle pair.
ParseMacM(text) ==
  LET r == ParseExactLength(text, 6)
      v == r.val
  IN IF r.rc = "ok" THEN Got(<<v[6], v[5], v[3], v[4], v[2], v[1]>>) ELSE r

\* parse_arg_mac().
ParseMac(text) ==
  LET r == ParseExactLength(text, 6)
  IN IF r.rc = "ok" THEN Got(Reverse(r.val)) ELSE r

-----------------------------------------------------------------------------
(* Readers of values.                                                      *)

\* The largest numbers of one and of two bytes.
UINT8_MAX == 255
UINT16_MAX == 256 * 256 - 1

\* bhd_process_json_int_bounds().
IntBounds(item, minval, maxval) ==
  IF IsNum(item) /\ item.num \in minval .. maxval THEN Got(item.num) ELSE Failed("SYS_ERANGE")

\* bhd_json_bool().
JsonBool(item) == IF IsBool(item) THEN Got(item.bool) ELSE Failed("SYS_ERANGE")

\* bhd_process_json_hex_string(), bhd_process_json_addr().
HexString(item, max_len) ==
  IF IsStr(item) THEN ParseByteStream(item.str, max_len) ELSE Failed("SYS_ERANGE")

JsonAddr(item) == IF IsStr(item) THEN ParseMac(item.str) ELSE Failed("SYS_ERANGE")

\* The first row of a table with a key, or with a value (bhd_kv_str_int_find_entry(),
\* bhd_kv_str_int_rev_find_entry()); none: 0.
Row(rows) == IF rows = {} THEN 0 ELSE Min(rows)

KvFind(table, key) == Row({n \in DOMAIN table : table[n].key = key})

KvRevFind(table, val) == Row({n \in DOMAIN table : table[n].val = val})

\* bhd_json_kv(): the value that goes with a name.
JsonKv(table, item) ==
  IF ~IsStr(item) \/ KvFind(table, item.str) = 0 THEN Failed("SYS_ERANGE")
  ELSE Got(table[KvFind(table, item.str)].val)

\* A UUID of 128 bits has numerals of two characters, with dashes at:
DashAt == {8, 13, 18, 23}

CharsOf(text) ==
  LET chars[k \in 0 .. Len(text)] ==
        IF k = 0 THEN 0 ELSE chars[k - 1] + (IF IsSep(text[k]) THEN 1 ELSE 2)
  IN chars[Len(text)]

\* One step of the loop at character i: a dash, or two digits for the next byte
\* from the end.  What comes after 36 characters is not looked at.  (A dash in
\* place of digits would be read together with the digit after it; texts of the
\* model have none.)
Uuid128Step(dst, p) ==
  LET bad == [rc |-> "SYS_ERANGE", i |-> dst.i, val |-> dst.val]
  IN IF dst.rc # "ok" \/ dst.i >= 36 THEN dst
     ELSE IF dst.i \in DashAt
     THEN IF p = Sep("-") THEN [rc |-> "ok", i |-> dst.i + 1, val |-> dst.val] ELSE bad
     ELSE IF IsHex(p) THEN [rc |-> "ok", i |-> dst.i + 2, val |-> << p.hex >> \o dst.val] ELSE bad

Uuid128(text) ==
  LET dst[k \in 0 .. Len(text)] ==
        IF k = 0 THEN [rc |-> "ok", i |-> 0, val |-> << >>] ELSE Uuid128Step(dst[k - 1], text[k])
  IN dst[Len(text)]

\* bhd_process_json_uuid(): a number is a UUID of 16 bits, a string one of 128.
JsonUuid(item) ==
  IF IntBounds(item, 1, UINT16_MAX).rc = "ok" THEN Got([type |-> 16, value |-> <<item.num>>])
  ELSE IF ~IsStr(item) \/ CharsOf(item.str) < 36 THEN Failed("SYS_ERANGE")
  ELSE LET r == Uuid128(item.str)
       IN IF r.rc = "ok" THEN Got([type |-> 128, value |-> r.val]) ELSE Failed(r.rc)

\* bhd_json_arr_gen(): goes on while the callback's result is not 0, which is after
\* an error; the callbacks return 0 after they stored an element.  "read" is what the
\* callback reads of each element.
ArrGen(item, read, max_elems) ==
  IF ~IsArr(item) THEN Failed("SYS_ERANGE")
  ELSE LET kept[k \in 0 .. Len(read)] ==
             IF k = 0 THEN << >>
             ELSE IF kept[k - 1] # << >> \/ max_elems = 0 \/ read[k].rc # "ok" THEN kept[k - 1]
             ELSE << read[k].val >>
       IN Got(kept[Len(read)])

-----------------------------------------------------------------------------
(* Writers.                                                                *)

\* Mutant: every byte takes four characters, the colons are forgotten.
HexRoomM(n) == n * 4 + 1

\* bhd_json_create_byte_string(): the size of the buffer, "0xXX:" for each byte.
HexRoom(n) == n * 5 + 1

\* bhd_hex_str(): the bytes whose text fits, with the NUL after it; of the first that
\* does not, a part stays in the buffer, which may be a numeral of fewer digits.
HexStep(dst, b) ==
  LET sep == IF dst.text = << >> THEN << >> ELSE << Sep(":") >>
      width == 4 + Len(sep)
  IN IF dst.full THEN dst
     ELSE IF width >= dst.rem
     THEN [text |-> dst.text \o sep \o << Junk >>, rem |-> dst.rem, full |-> TRUE]
     ELSE [text |-> dst.text \o sep \o << Hex(b) >>, rem |-> dst.rem - width, full |-> FALSE]

HexStr(src, max_len) ==
  LET dst[k \in 0 .. Len(src)] ==
        IF k = 0 THEN [text |-> << >>, rem |-> max_len, full |-> FALSE]
        ELSE HexStep(dst[k - 1], src[k])
  IN dst[Len(src)].text

ByteString(src) == HexStr(src, HexRoom(Len(src)))

WithColons(bytes) ==
  [k \in 1 .. 2 * Len(bytes) - 1 |->
     IF k % 2 = 1 THEN Hex(bytes[(k + 1) \div 2]) ELSE Sep(":")]

\* bhd_addr_str(): the last byte first.
AddrStr(addr) == WithColons(Reverse(addr))

\* ble_uuid_to_str() of a UUID of 128 bits.
Uuid128Str(value) ==
  LET h(i) == Hex(value[i])
      dash == Sep("-")
  IN << h(16), h(15), h(14), h(13), dash, h(12), h(11), dash, h(10), h(9), dash,
        h(8), h(7), dash, h(6), h(5), h(4), h(3), h(2), h(1) >>
=============================================================================
