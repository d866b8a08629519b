-------------------------------- MODULE Avp --------------------------------
(***************************************************************************)
(* avp.py: Attribute-Value Pairs as bytes.                                 *)
(*                                                                         *)
(* Offsets into a buffer count from 0, as in the code.  What raises an     *)
(* exception in the code is a condition of its own here (builds, encodes,  *)
(* decodes_one, decodes), to be tested before the value is used.           *)
(***************************************************************************)
EXTENDS Integers, Sequences, SequencesExt

CONSTANTS None,
          Negative,           \* any integer below zero
          Keystream(_, _, _)  \* _generate_keystream: byte i of the stream for
                              \* an attribute type and a random vector

Byte == 0..255

\* A 16-bit number.
Word == {n \in Nat : n <= 65535}

\* buf[from:to], which stops at the end of the buffer.
Slice(buf, from, to) == SubSeq(buf, from + 1, IF to < Len(buf) THEN to ELSE Len(buf))

\* The bitwise exclusive or of two bytes.  w is the weight of a bit.
Xor(a, b) ==
    LET Bit(w) == IF (a \div w) % 2 = (b \div w) % 2 THEN 0 ELSE w
    IN  Bit(1) + Bit(2) + Bit(4) + Bit(8) + Bit(16) + Bit(32) + Bit(64) + Bit(128)

-----------------------------------------------------------------------------
(* Numbers.  The widest have 64 bits: a number is the sequence of its      *)
(* 16-bit digits, the most significant one first, without leading zeros.   *)

ASSUME NotNumbers == {None, Negative} \cap Seq(Word) = {}

IsNumber(n) == n \in Seq(Word) /\ (n # <<>> => n[1] # 0)

Num(n) == IF n = 0 THEN <<>> ELSE <<n>>

\* 0 <= n <= 2^(16 * k) - 1
Fits(n, k) == n \notin {None, Negative} /\ Len(n) <= k

\* struct.pack with "!H", "!I" and "!Q"
pack(n, k) ==
    LET digit(i) == IF i + Len(n) <= k THEN 0 ELSE n[i + Len(n) - k]
    IN  [j \in 1..(2 * k) |-> IF j % 2 = 1 THEN digit((j + 1) \div 2) \div 256
                             ELSE digit(j \div 2) % 256]

unpack(bytes) ==
    LET digits == [i \in 1..(Len(bytes) \div 2) |-> 256 * bytes[2*i - 1] + bytes[2*i]]
        first  == SelectInSeq(digits, LAMBDA d : d # 0)
    IN  IF first = 0 THEN <<>> ELSE SubSeq(digits, first, Len(digits))

\* A 16-bit field of a header.
U16(n) == <<n \div 256, n % 256>>
u16(buf, offset) == 256 * buf[offset + 1] + buf[offset + 2]

-----------------------------------------------------------------------------
(* Typed values.  A field is named as in the enum AttrType. *)

AttrType ==
    [ MESSAGE_TYPE |-> 0, RESULT_CODE |-> 1, FIRMWARE_REVISION |-> 6, HOST_NAME |-> 7,
      VENDOR_NAME |-> 8, RECEIVE_WINDOW_SIZE |-> 10, RANDOM_VECTOR |-> 36,
      MESSAGE_DIGEST |-> 59, ROUTER_ID |-> 60, ASSIGNED_CONTROL_CONNECTION_ID |-> 61,
      PSEUDOWIRE_CAPABILITIES_LIST |-> 62, LOCAL_SESSION_ID |-> 63,
      REMOTE_SESSION_ID |-> 64, ASSIGNED_COOKIE |-> 65, REMOTE_END_ID |-> 66,
      PSEUDOWIRE_TYPE |-> 68, L2_SPECIFIC_SUBLAYER |-> 69, DATA_SEQUENCING |-> 70,
      CIRCUIT_STATUS |-> 71, PREFERRED_LANGUAGE |-> 72, CTL_MSG_AUTH_NONCE |-> 73,
      TX_CONNECT_SPEED |-> 74, RX_CONNECT_SPEED |-> 75 ]

\* The 16-bit digits of the fields whose value is one number.
Digits ==
    [ MESSAGE_TYPE |-> 1, FIRMWARE_REVISION |-> 1, RECEIVE_WINDOW_SIZE |-> 1,
      ROUTER_ID |-> 2, ASSIGNED_CONTROL_CONNECTION_ID |-> 2, LOCAL_SESSION_ID |-> 2,
      REMOTE_SESSION_ID |-> 2, PSEUDOWIRE_TYPE |-> 1, L2_SPECIFIC_SUBLAYER |-> 1,
      DATA_SEQUENCING |-> 1, CIRCUIT_STATUS |-> 1,
      TX_CONNECT_SPEED |-> 4, RX_CONNECT_SPEED |-> 4 ]

\* The fields built without the M bit.
NotMandatory == {"VENDOR_NAME", "FIRMWARE_REVISION", "PREFERRED_LANGUAGE"}

\* A Result Code value: error_code and error_message may be left out.
ResultCode(result, error, message) ==
    [result |-> result, error |-> error, message |-> message]

\* The build_* factory of the field takes the value.
builds(field, v) ==
    CASE field \in DOMAIN Digits -> Fits(v, Digits[field])
      [] field = "PSEUDOWIRE_CAPABILITIES_LIST" ->
            v # <<>> /\ \A i \in DOMAIN v : Fits(v[i], 1)
      [] field = "ASSIGNED_COOKIE"    -> Len(v) \in {0, 4, 8}
      [] field = "CTL_MSG_AUTH_NONCE" -> v # <<>>
      [] field = "RANDOM_VECTOR"      -> Len(v) >= 16
      [] field = "RESULT_CODE"        ->
            /\ Fits(v.result, 1)
            /\ IF v.error = None THEN v.message = <<>> ELSE Fits(v.error, 1)
      [] OTHER -> TRUE

\* The AVP that it makes.
build(field, v) ==
    [ attribute_type |-> AttrType[field], vendor_id |-> 0, hidden |-> FALSE,
      mandatory |-> field \notin NotMandatory,
      value |->
        CASE field \in DOMAIN Digits -> pack(v, Digits[field])
          [] field = "PSEUDOWIRE_CAPABILITIES_LIST" ->
                FlattenSeq([i \in DOMAIN v |-> pack(v[i], 1)])
          [] field = "RESULT_CODE" ->
                pack(v.result, 1) \o
                (IF v.error = None THEN <<>> ELSE pack(v.error, 1) \o v.message)
          [] OTHER -> v ]

\* The decode_* function of the field takes the value: _require_attr and the
\* checks after it.
decodes(field, value) ==
    CASE field \in DOMAIN Digits -> Len(value) = 2 * Digits[field]
      [] field = "PSEUDOWIRE_CAPABILITIES_LIST" -> Len(value) >= 2 /\ Len(value) % 2 = 0
      [] field = "ASSIGNED_COOKIE"    -> Len(value) \in {0, 4, 8}
      [] field = "CTL_MSG_AUTH_NONCE" -> Len(value) >= 1
      [] field = "RESULT_CODE"        -> Len(value) >= 2
      [] OTHER -> TRUE

decode_value(field, value) ==
    CASE field \in DOMAIN Digits -> unpack(value)
      [] field = "PSEUDOWIRE_CAPABILITIES_LIST" ->
            [i \in 1..(Len(value) \div 2) |-> unpack(Slice(value, 2*i - 2, 2*i))]
      [] field = "RESULT_CODE" ->
            IF Len(value) < 4 THEN ResultCode(unpack(Slice(value, 0, 2)), None, <<>>)
            ELSE ResultCode(unpack(Slice(value, 0, 2)), unpack(Slice(value, 2, 4)),
                            Slice(value, 4, Len(value)))
      [] OTHER -> value

\* The first AVP of the field, None without one.
find_avp(avps, field) ==
    LET Match(a) == a.vendor_id = 0 /\ a.attribute_type = AttrType[field]
        i == SelectInSeq(avps, Match)
    IN  IF i = 0 THEN None ELSE avps[i]

-----------------------------------------------------------------------------
(* Hidden values: length and value, padded to whole MD5 blocks and combined *)
(* with the keystream.                                                      *)

Masked(type, bytes, rv) ==
    [i \in DOMAIN bytes |-> Xor(bytes[i], Keystream(type, rv, i))]

hide_value(type, plain, rv) ==
    LET body == pack(Num(Len(plain)), 1) \o plain
        pad  == (16 - (Len(body) % 16)) % 16
    IN  Masked(type, body \o [i \in 1..pad |-> 0], rv)

unhides(type, cipher, rv) ==
    /\ Len(cipher) >= 16 /\ Len(cipher) % 16 = 0
    /\ 2 + u16(Masked(type, cipher, rv), 0) <= Len(cipher)

unhide_value(type, cipher, rv) ==
    LET body == Masked(type, cipher, rv) IN Slice(body, 2, 2 + u16(body, 0))

-----------------------------------------------------------------------------
(* AVP.encode and AVP.decode_one; rv is None when there is no secret or no *)
(* random vector.                                                          *)

value_field(avp, rv) ==
    IF avp.hidden THEN hide_value(avp.attribute_type, avp.value, rv) ELSE avp.value

encodes(avp, rv) ==
    /\ avp.hidden => rv # None
    /\ 6 + Len(value_field(avp, rv)) <= 1023

\* Mutant: the two high bits of the length are lost.
encode_short_length(avp, rv) ==
    LET val == value_field(avp, rv)
    IN  << (IF avp.mandatory THEN 128 ELSE 0) + (IF avp.hidden THEN 64 ELSE 0),
           (6 + Len(val)) % 256 >>
        \o U16(avp.vendor_id) \o U16(avp.attribute_type) \o val

encode(avp, rv) ==
    LET val   == value_field(avp, rv)
        total == 6 + Len(val)
    IN  << (IF avp.mandatory THEN 128 ELSE 0) + (IF avp.hidden THEN 64 ELSE 0)
             + total \div 256,
           total % 256 >>
        \o U16(avp.vendor_id) \o U16(avp.attribute_type) \o val

\* The fields of the first header byte at an offset.
IsMandatory(buf, offset) == buf[offset + 1] >= 128
IsHidden(buf, offset)    == (buf[offset + 1] \div 64) % 2 = 1
Reserved(buf, offset)    == (buf[offset + 1] \div 4) % 16
TotalLen(buf, offset)    == 256 * (buf[offset + 1] % 4) + buf[offset + 2]

RawValue(buf, offset) == Slice(buf, offset + 6, offset + TotalLen(buf, offset))

Readable(buf, offset, rv) ==
    IsHidden(buf, offset) =>
        rv # None /\ unhides(u16(buf, offset + 4), RawValue(buf, offset), rv)

\* Mutant: a length that runs past the buffer is taken.
decodes_one_past_end(buf, offset, rv) ==
    /\ Len(buf) - offset >= 6
    /\ Reserved(buf, offset) = 0
    /\ TotalLen(buf, offset) >= 6
    /\ Readable(buf, offset, rv)

\* Mutant: the reserved bits are not looked at.
decodes_one_any_reserved(buf, offset, rv) ==
    /\ Len(buf) - offset >= 6
    /\ TotalLen(buf, offset) >= 6
    /\ offset + TotalLen(buf, offset) <= Len(buf)
    /\ Readable(buf, offset, rv)

decodes_one(buf, offset, rv) ==
    /\ Len(buf) - offset >= 6
    /\ Reserved(buf, offset) = 0
    /\ TotalLen(buf, offset) >= 6
    /\ offset + TotalLen(buf, offset) <= Len(buf)
    /\ Readable(buf, offset, rv)

decode_one(buf, offset, rv) ==
    LET type == u16(buf, offset + 4)
        raw  == RawValue(buf, offset)
    IN  [ attribute_type |-> type, vendor_id |-> u16(buf, offset + 2),
          mandatory |-> IsMandatory(buf, offset), hidden |-> IsHidden(buf, offset),
          value |-> IF IsHidden(buf, offset) THEN unhide_value(type, raw, rv) ELSE raw ]
=============================================================================
