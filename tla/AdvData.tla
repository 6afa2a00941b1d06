------------------------------ MODULE AdvData ------------------------------
(***************************************************************************)
(* Advertising data on its way through blehostd: the fields of an          *)
(* adv_fields request become data that the response returns as text, the   *)
(* client gives the text to adv_set_data, a blehostd on the other side of  *)
(* the air reports data and fields in a scan event (bhd_adv_fields_req_run *)
(* and bhd_scan_evt_enc of bhd_proto.c, bhd_gap_adv_fields and             *)
(* bhd_gap_send_scan_evt of bhd_gap.c).                                    *)
(*                                                                         *)
(* What was reported may be asked for again.  Names of reported fields are *)
(* written without their "data_".  Data from other devices has what the    *)
(* program itself never sends: lists of several elements, NUL in names.    *)
(***************************************************************************)
EXTENDS WireText

CONSTANTS Asks,        \* fields of adv_fields requests: functions from names
                       \* to JSON values
          Foreign,     \* what other devices advertise, one after another:
                       \* sequences of elements
          Peers,       \* advertisers: type and address
          MaxSz,       \* BLE_HS_ADV_MAX_SZ, BLE_HCI_MAX_ADV_DATA_LEN: 31
          MaxFieldSz   \* BLE_HS_ADV_MAX_FIELD_SZ: 29

\* An element has a byte for its length and one for its type; a UUID of 128 bits fits.
ASSUME SizeAssumption ==
  MaxSz \in Nat /\ MaxFieldSz \in Nat /\ MaxFieldSz = MaxSz - 2 /\ MaxFieldSz >= 16

Ints == {"tx_pwr_lvl", "appearance", "adv_itvl"}
Lists == {"uuids16", "uuids32", "uuids128", "public_tgt_addrs"}
Texts == {"name", "uri"}
ByteFields == {"svc_data_uuid16", "svc_data_uuid32", "svc_data_uuid128", "mfg_data"}

\* The order of ble_hs_adv_set_fields().
FieldOrder == << "flags", "uuids16", "uuids32", "uuids128", "name", "tx_pwr_lvl", "slave_itvl",
                 "svc_data_uuid16", "public_tgt_addrs", "appearance", "adv_itvl",
                 "svc_data_uuid32", "svc_data_uuid128", "uri", "mfg_data" >>
Fields == ToSet(FieldOrder)

\* Fields that may be incomplete, and the parameter that says it.
IsCompleteName ==
  [uuids16 |-> "uuids16_is_complete", uuids32 |-> "uuids32_is_complete",
   uuids128 |-> "uuids128_is_complete", name |-> "name_is_complete"]
HasComplete == DOMAIN IsCompleteName
CompleteNames == {IsCompleteName[f] : f \in HasComplete}

\* The parameters of an adv_fields request.
Parameters == (Fields \ {"slave_itvl"}) \cup CompleteNames \cup {"slave_itvl_min", "slave_itvl_max"}

\* The parameter without which a field is not there.
ParamOf(f) == IF f = "slave_itvl" THEN "slave_itvl_min" ELSE f

\* Bytes of one unit of a field.
UnitSz(f) == CASE f \in {"uuids16", "appearance", "adv_itvl"} -> 2
               [] f = "uuids32" -> 4
               [] f = "uuids128" -> 16
               [] f = "public_tgt_addrs" -> 6
               [] OTHER -> 1

\* bhd_addr_type_map.
AddrTypes == << [key |-> "public", val |-> 0], [key |-> "random", val |-> 1],
                [key |-> "rpa_pub", val |-> 2], [key |-> "rpa_rnd", val |-> 3] >>

VARIABLES stage,    \* how far the data has come
          round,    \* 1, or 2 when what was reported is asked for again
          ask,      \* parameters of the adv_fields request
          adv,      \* struct bhd_adv_fields_req
          data,     \* the first data made of a request, as elements
          text,     \* "data" of the last response
          air,      \* the bytes that are advertised
          report,   \* fields of the scan event
          peer,     \* type and address of the advertiser
          from,     \* what the scan event says of it
          target    \* "peer_addr" of the connect request made of that

conn == <<peer, from, target>>
adv_vars == <<stage, round, ask, adv, data, text, air, report, conn>>

EmptyObject == [p \in {} |-> 0]
NoFields == [units |-> [f \in Fields |-> << >>], complete |-> [f \in HasComplete |-> FALSE]]

-----------------------------------------------------------------------------
(* adv_fields: from parameters to units.                                   *)

\* The 16 bytes memcpy() takes from a ble_uuid_any_t, whatever its type: a UUID of 16
\* bits fills the second and third, the others are what the stack held.
U128Bytes(uuid) ==
  IF uuid.type = 128 THEN uuid.value
  ELSE [i \in 1 .. 16 |-> IF i \in {2, 3} THEN "half of the number" ELSE "unwritten"]

Uuid128Elem(item) ==
  LET r == JsonUuid(item) IN IF r.rc = "ok" THEN Got(U128Bytes(r.val)) ELSE r

Uuid16Elem(item) == IntBounds(item, 0, UINT16_MAX)

\* The reader of the elements of a list; those of uuids32 are bounded by 0xffff as well.
ReadElem(f, x) ==
  CASE f = "uuids128" -> Uuid128Elem(x)
    [] f = "public_tgt_addrs" -> JsonAddr(x)
    [] OTHER -> Uuid16Elem(x)

ReadList(f, item) ==
  LET elems == IF IsArr(item) THEN item.arr ELSE << >>
  IN ArrGen(item, [i \in 1 .. Len(elems) |-> ReadElem(f, elems[i])], MaxFieldSz \div UnitSz(f))

One(r) == IF r.rc = "ok" THEN Got(<< r.val >>) ELSE r

ReadInt(f, item) ==
  CASE f = "tx_pwr_lvl" -> One(IntBounds(item, -128, 127))
    [] OTHER -> One(IntBounds(item, 0, UINT16_MAX))

\* A string is copied without its NUL.
ReadText(item) ==
  IF ~IsStr(item) \/ Len(item.str) > MaxFieldSz THEN Failed("SYS_ERANGE") ELSE Got(item.str)

ReadFlags(item) ==
  LET r == One(IntBounds(item, 0, UINT8_MAX)) IN IF r = Got(<< 0 >>) THEN Failed("SYS_EINVAL") ELSE r

\* Both ends of the range, or neither; the maximum alone is not looked at.
ReadRange(par) ==
  LET lo == IntBounds(par.slave_itvl_min, 0, UINT16_MAX)
      hi == IF "slave_itvl_max" \in DOMAIN par
            THEN IntBounds(par.slave_itvl_max, 0, UINT16_MAX) ELSE Failed("SYS_ENOENT")
  IN IF lo.rc # "ok" THEN lo ELSE IF hi.rc # "ok" THEN hi ELSE Got(<< lo.val, hi.val >>)

ReadField(f, par) ==
  IF ParamOf(f) \notin DOMAIN par THEN Got(<< >>)
  ELSE CASE f = "slave_itvl" -> ReadRange(par)
         [] f = "flags" -> ReadFlags(par[f])
         [] f \in Ints -> ReadInt(f, par[f])
         [] f \in Lists -> ReadList(f, par[f])
         [] f \in Texts -> ReadText(par[f])
         [] OTHER -> HexString(par[f], MaxFieldSz)

\* -1 of a boolean that is not there is 1 in a bit field.
ReadComplete(f, par) ==
  IF IsCompleteName[f] \in DOMAIN par THEN JsonBool(par[IsCompleteName[f]]) ELSE Got(TRUE)

\* bhd_adv_fields_req_run(): refused at the first parameter that is not valid.
RunAdvFields ==
  /\ stage = "asked"
  /\ LET units == [f \in Fields |-> ReadField(f, ask)]
         complete == [f \in HasComplete |-> ReadComplete(f, ask)]
     IN IF /\ \A f \in Fields : units[f].rc = "ok"
           /\ \A f \in HasComplete : complete[f].rc = "ok"
        THEN /\ adv' = [units |-> [f \in Fields |-> units[f].val],
                        complete |-> [f \in HasComplete |-> complete[f].val]]
             /\ stage' = "read"
        ELSE stage' = "refused" /\ UNCHANGED adv
  /\ UNCHANGED <<round, ask, data, text, air, report, conn>>

-----------------------------------------------------------------------------
(* From units to bytes and back.                                           *)

\* put_be16(), get_be16().
PutBe16(v) == << v \div 256, v % 256 >>
GetBe16(bytes, i) == bytes[i + 1] * 256 + bytes[i + 2]

\* The payload bhd_gap_adv_fields() hands over for a field.
Payload(f, units) ==
  IF f = "slave_itvl" THEN PutBe16(units[1]) \o PutBe16(units[2]) ELSE units

Element(f, a) == [field |-> f, payload |-> Payload(f, a.units[f]),
                  complete |-> f \in HasComplete /\ a.complete[f]]

\* ble_hs_adv_set_fields(): one element for each field that has units.
Elements(a) ==
  LET list[n \in 0 .. Len(FieldOrder)] ==
        IF n = 0 THEN << >>
        ELSE LET f == FieldOrder[n]
             IN IF a.units[f] = << >> THEN list[n - 1] ELSE Append(list[n - 1], Element(f, a))
  IN list[Len(FieldOrder)]

SizeOf(elements) ==
  LET size[n \in 0 .. Len(elements)] ==
        IF n = 0 THEN 0
        ELSE size[n - 1] + 2 + Len(elements[n].payload) * UnitSz(elements[n].field)
  IN size[Len(elements)]

\* Bytes are opaque: the k-th of these elements.  ble_hs_adv_parse_fields() finds
\* the elements if all are there, in their order.
BytesOf(elements) == [k \in 1 .. SizeOf(elements) |-> [of |-> elements, at |-> k]]

ElementsOf(bytes) ==
  IF bytes # << >> /\ bytes = BytesOf(bytes[1].of) THEN bytes[1].of ELSE << >>

\* bhd_gap_adv_fields() and the response with the data.
SetFields ==
  /\ stage = "read"
  /\ IF SizeOf(Elements(adv)) > MaxSz
     THEN stage' = "refused" /\ UNCHANGED <<data, text>>
     ELSE /\ stage' = "answered"
          /\ data' = IF round = 1 THEN Elements(adv) ELSE data
          /\ text' = ByteString(BytesOf(Elements(adv)))
  /\ UNCHANGED <<round, ask, adv, air, report, conn>>

\* bhd_adv_set_data_req_run() with the text of the response; for scan responses,
\* bhd_adv_rsp_set_data_req_run() does the same.
AdvSetData ==
  /\ stage = "answered"
  /\ LET r == HexString(Str(text), MaxSz)
     IN IF r.rc = "ok" THEN air' = r.val /\ stage' = "on air" ELSE stage' = "data refused" /\ UNCHANGED air
  /\ UNCHANGED <<round, ask, adv, data, text, report, conn>>

-----------------------------------------------------------------------------
(* The scan event.                                                         *)

Range16(bytes) == << GetBe16(bytes, 0), GetBe16(bytes, 2) >>

\* cJSON_AddStringToObject() takes a string up to its first NUL.
CStr(chars) ==
  LET ends == {k \in DOMAIN chars : chars[k] = NUL}
  IN IF ends = {} THEN chars ELSE SubSeq(chars, 1, Min(ends) - 1)

\* bhd_json_add_gen_arr() and its callbacks.
ReportList(f, units) ==
  Arr([i \in 1 .. Len(units) |->
         CASE f = "uuids128" -> Str(Uuid128Str(units[i]))
           [] f = "public_tgt_addrs" -> Str(AddrStr(units[i]))
           [] OTHER -> Num(units[i])])

\* bhd_gap_send_scan_evt() copies the payload of an element, bhd_scan_evt_enc() writes
\* it: the parameters for one element.
ValueOf(e) ==
  CASE e.field \in Lists -> ReportList(e.field, e.payload)
    [] e.field \in Texts -> Str(CStr(e.payload))
    [] e.field \in ByteFields -> Str(ByteString(e.payload))
    [] OTHER -> Num(e.payload[1])

ReportOf(e) ==
  IF e.field = "slave_itvl"
  THEN [slave_itvl_min |-> Num(Range16(e.payload)[1]), slave_itvl_max |-> Num(Range16(e.payload)[2])]
  ELSE [p \in {e.field} \cup {IsCompleteName[f] : f \in HasComplete \cap {e.field}} |->
          IF p = e.field THEN ValueOf(e) ELSE Bool(e.complete)]

\* bhd_scan_evt_enc() leaves out what is empty, and flags of 0.
Shown(e) == e.payload # << >> /\ ~(e.field = "flags" /\ e.payload[1] = 0)

\* Of an element that comes twice, the last one counts.
Report(elements) ==
  LET shown(p) == {n \in DOMAIN elements : Shown(elements[n]) /\ p \in DOMAIN ReportOf(elements[n])}
  IN [p \in UNION {DOMAIN ReportOf(elements[n]) : n \in {m \in DOMAIN elements : Shown(elements[m])}} |->
        ReportOf(elements[Max(shown(p))])[p]]

\* bhd_json_add_addr_type(): nothing is written for a type that has no name.
NameOf(type) ==
  LET row == KvRevFind(AddrTypes, type)
  IN IF row = 0 THEN Str("nothing") ELSE Str(AddrTypes[row].key)

ScanReport ==
  /\ stage = "on air"
  /\ report' = Report(ElementsOf(air))
  /\ data' = IF round = 1 THEN ElementsOf(air) ELSE data
  /\ from' = [addr_type |-> NameOf(peer.type), addr |-> Str(AddrStr(peer.addr))]
  /\ stage' = "reported"
  /\ UNCHANGED <<round, ask, adv, text, air, peer, target>>

\* The client asks for what was reported.
AskAgain ==
  /\ stage = "reported" /\ round = 1
  /\ ask' = report
  /\ round' = 2
  /\ stage' = "asked"
  /\ UNCHANGED <<adv, data, text, air, report, conn>>

\* The client connects to what was reported: bhd_connect_req_run() reads its peer.
ConnectReported ==
  /\ stage = "reported" /\ round = 1
  /\ LET type == JsonKv(AddrTypes, from.addr_type)
         addr == JsonAddr(from.addr)
     IN IF type.rc = "ok" /\ addr.rc = "ok"
        THEN stage' = "connecting" /\ target' = [type |-> type.val, addr |-> addr.val]
        ELSE stage' = "connect refused" /\ UNCHANGED target
  /\ UNCHANGED <<round, ask, adv, data, text, air, report, peer, from>>

-----------------------------------------------------------------------------
(* What comes from outside.                                                *)

IsSequence(s) == Len(s) \in Nat /\ s = [k \in 1 .. Len(s) |-> s[k]]

\* JSON: a string is a sequence of pieces, an array one of values.
IsPiece(p) == ~(IsHex(p) /\ IsSep(p))

IsText(pieces) == IsSequence(pieces) /\ \A k \in 1 .. Len(pieces) : IsPiece(pieces[k])

IsItem(item) ==
  /\ IsStr(item) => IsText(item.str)
  /\ IsArr(item) => /\ IsSequence(item.arr)
                    /\ \A k \in 1 .. Len(item.arr) : IsStr(item.arr[k]) => IsText(item.arr[k].str)

IsObject(par) == \A p \in DOMAIN par : IsItem(par[p])

\* What a client sends: a value is of one kind, a numeral is nothing else, and a string
\* ends before its first NUL.
IsPlain(pieces) == \A k \in 1 .. Len(pieces) : /\ IsHex(pieces[k]) => pieces[k] = Hex(pieces[k].hex)
                                               /\ pieces[k] # NUL

IsScalar(item) ==
  /\ IsNum(item) => item = Num(item.num)
  /\ IsStr(item) => item = Str(item.str) /\ IsPlain(item.str)
  /\ IsBool(item) => item = Bool(item.bool) /\ item.bool \in BOOLEAN

IsAsk(par) ==
  /\ DOMAIN par \subseteq Parameters
  /\ \A p \in DOMAIN par : /\ IsItem(par[p]) /\ IsScalar(par[p])
                           /\ IsArr(par[p]) => /\ par[p] = Arr(par[p].arr)
                                               /\ \A k \in 1 .. Len(par[p].arr) : IsScalar(par[p].arr[k])

\* ble_hs_adv_parse_fields() accepts these elements only, and the controller no more
\* than MaxSz bytes.
IsUnit(f, unit) ==
  /\ f \in {"flags", "slave_itvl"} => unit \in 0 .. UINT8_MAX
  /\ f = "tx_pwr_lvl" => unit \in -128 .. 127
  /\ f \in {"uuids16", "appearance", "adv_itvl"} => unit \in 0 .. UINT16_MAX
  /\ f = "uuids32" => unit \in Nat
  /\ f = "uuids128" => IsSequence(unit) /\ Len(unit) = 16
  /\ f = "public_tgt_addrs" => IsSequence(unit) /\ Len(unit) = 6
  /\ f \in Texts => IsPiece(unit)

IsElement(e) ==
  /\ e = [field |-> e.field, payload |-> e.payload, complete |-> e.complete]
  /\ e.field \in Fields
  /\ IsSequence(e.payload)
  /\ e.field \in {"flags", "tx_pwr_lvl", "appearance", "adv_itvl"} => Len(e.payload) = 1
  /\ e.field = "slave_itvl" => Len(e.payload) = 4
  /\ \A k \in 1 .. Len(e.payload) : IsUnit(e.field, e.payload[k])
  /\ e.complete \in BOOLEAN
  /\ e.field \notin HasComplete => ~e.complete

IsData(elements) ==
  /\ IsSequence(elements)
  /\ \A n \in 1 .. Len(elements) : IsElement(elements[n])
  /\ SizeOf(elements) <= MaxSz

IsPeer(p) ==
  /\ p = [type |-> p.type, addr |-> p.addr]
  /\ p.type \in 0 .. 3
  /\ IsSequence(p.addr) /\ Len(p.addr) = 6

ASSUME AskAssumption == \A par \in Asks : IsAsk(par)
ASSUME ForeignAssumption == \A n \in DOMAIN Foreign : IsData(Foreign[n])
ASSUME PeerAssumption == \A p \in Peers : IsPeer(p)

AdvInit ==
  /\ round = 1
  /\ adv = NoFields /\ data = << >> /\ text = << >> /\ report = EmptyObject
  /\ peer \in Peers /\ from = EmptyObject /\ target = EmptyObject
  /\ \/ stage = "asked" /\ ask \in Asks /\ air = << >>
     \/ stage = "on air" /\ ask = EmptyObject /\ \E i \in DOMAIN Foreign : air = BytesOf(Foreign[i])

AdvNext == RunAdvFields \/ SetFields \/ AdvSetData \/ ScanReport \/ AskAgain \/ ConnectReported

AdvSpec == AdvInit /\ [][AdvNext]_adv_vars
-----------------------------------------------------------------------------
(* Properties.                                                             *)

\* The pieces of a text that are no separators.
Numerals(str) ==
  LET kept[k \in 0 .. Len(str)] ==
        IF k = 0 THEN << >> ELSE IF IsSep(str[k]) THEN kept[k - 1] ELSE Append(kept[k - 1], str[k])
  IN kept[Len(str)]

\* What a value says, however it is written.
Says(f, item) == IF IsStr(item) /\ f \notin Texts THEN Numerals(item.str) ELSE item

\* The pieces of a UUID of 128 bits; what comes after them is not looked at.
UuidDashes == {5, 8, 11, 14}
IsUuid(str) ==
  /\ Len(str) >= 20
  /\ \A k \in 1 .. 20 : IF k \in UuidDashes THEN str[k] = Sep("-") ELSE IsHex(str[k])

\* The elements of a list that may be advertised.  (A 16-bit number in a list of
\* 128-bit UUIDs should not, but is: the bytes nobody wrote go on the air.)
Valid(f, x) ==
  CASE f = "uuids128" -> (IsNum(x) /\ x.num \in 1 .. UINT16_MAX) \/ (IsStr(x) /\ IsUuid(x.str))
    [] f = "public_tgt_addrs" -> IsStr(x) /\ Len(Numerals(x.str)) = 6 /\ \A k \in 1 .. 6 : IsHex(Numerals(x.str)[k])
    [] OTHER -> IsNum(x) /\ x.num \in 0 .. UINT16_MAX

ElementAsAsked(f, reported, asked) ==
  IF f # "uuids128" THEN Says(f, reported) = Says(f, asked)
  ELSE IsStr(asked) => reported = Str(SubSeq(asked.str, 1, 20))

\* One element is reported: the first valid one.
ListAsAsked(f, reported, asked) ==
  /\ Len(reported) = 1
  /\ \E i \in DOMAIN asked : /\ Valid(f, asked[i]) /\ \A j \in 1 .. i - 1 : ~Valid(f, asked[j])
                             /\ ElementAsAsked(f, reported[1], asked[i])

\* A parameter that gives nothing to advertise.
GivesNothing(p, item) ==
  \/ p = "slave_itvl_max" /\ "slave_itvl_min" \notin DOMAIN ask
  \/ IsStr(item) /\ Numerals(item.str) = << >>
  \/ IsArr(item) /\ \A i \in DOMAIN item.arr : ~Valid(p, item.arr[i])

\* What a client asks to be advertised is what a client on the other side of the air is
\* told: every parameter says the same after four conversions, a list is cut to its
\* first valid element (bhd_json_arr_gen() ends at the first success), nothing is
\* told that was not asked for, and a list or name is complete unless the request says no.
AdvertisedAsAsked ==
  (stage = "reported" /\ round = 1 /\ ask # EmptyObject) =>
    /\ \A p \in DOMAIN ask \ CompleteNames : p \in DOMAIN report \/ GivesNothing(p, ask[p])
    /\ \A p \in DOMAIN report \ CompleteNames :
         /\ p \in DOMAIN ask
         /\ IF p \in Lists THEN ListAsAsked(p, report[p].arr, ask[p].arr)
                           ELSE Says(p, report[p]) = Says(p, ask[p])
    /\ \A f \in HasComplete \cap DOMAIN report :
         LET name == IsCompleteName[f]
         IN report[name] = IF name \in DOMAIN ask THEN ask[name] ELSE Bool(TRUE)

\* Elements that a report or a request cannot say, and the order the program gives them.
Unsayable(e) ==
  \/ ~Shown(e)
  \/ e.field \in Lists /\ Len(e.payload) > 1
  \/ e.field = "uuids32" /\ e.payload[1] > UINT16_MAX
  \/ e.field \in Texts /\ NUL \in ToSet(e.payload)

InOrder(elements) ==
  \A m, n \in DOMAIN elements :
    m < n => \E i, j \in DOMAIN FieldOrder : /\ i < j
                                            /\ elements[m].field = FieldOrder[i]
                                            /\ elements[n].field = FieldOrder[j]

\* What the program writes it can read: the data of an adv_fields response is taken by
\* adv_set_data and goes on the air as it was made; a report that is asked for again
\* makes the same data, unless it has something a report or a request cannot say or its
\* elements come in another order than the program's; the advertiser of a report is the
\* one a connect request with its type and address means.
FedBack ==
  /\ stage # "connect refused"
  /\ stage = "connecting" => target = peer
  /\ stage # "data refused"
  /\ stage = "on air" /\ ask # EmptyObject => ElementsOf(air) = Elements(adv)
  /\ (round = 2 /\ InOrder(data) /\ \A i \in DOMAIN data : ~Unsayable(data[i])) =>
       /\ stage # "refused"
       /\ stage \in {"answered", "on air"} => Elements(adv) = data

\* No field is longer than its buffer in struct bhd_adv_fields_req, and no data longer than
\* the one of struct bhd_adv_set_data_req: the texts and lists that are one byte or one
\* element too long are stopped before they are written.
StaysInside ==
  /\ \A f \in Fields : Len(adv.units[f]) * UnitSz(f) <= MaxFieldSz
  /\ Len(air) <= MaxSz
=============================================================================
