--------------------------- MODULE ControlMessage ---------------------------
(***************************************************************************)
(* messages.py and auth.py: control messages as bytes, what the state      *)
(* machines put into them, what the parsers read, and the Message Digest.  *)
(***************************************************************************)
EXTENDS Avp

MessageType ==
    [ SCCRQ |-> 1, SCCRP |-> 2, SCCCN |-> 3, StopCCN |-> 4, HELLO |-> 6,
      ICRQ |-> 10, ICRP |-> 11, ICCN |-> 12, CDN |-> 14 ]

Kinds       == DOMAIN MessageType
TunnelKinds == {"SCCRQ", "SCCRP", "SCCCN", "HELLO", "StopCCN"}

-----------------------------------------------------------------------------
(* Builders: the fields of a message in their order.  t is the entry of    *)
(* the sender's tunnel and s that of its session (module Config);          *)
(* peer_sid is the peer's session ID and result a result code.             *)

SccrxFields(t) ==
    << <<"ROUTER_ID", t.router_id>>,
       <<"ASSIGNED_CONTROL_CONNECTION_ID", t.local_ccid>>,
       <<"PSEUDOWIRE_CAPABILITIES_LIST", << <<5>>, <<4>> >> >>,
       <<"HOST_NAME", t.host_name>>,
       <<"RECEIVE_WINDOW_SIZE", t.receive_window>>,
       <<"VENDOR_NAME", t.vendor_name>>,
       <<"FIRMWARE_REVISION", t.firmware_revision>> >>

SessionIds(s, peer_sid) ==
    << <<"LOCAL_SESSION_ID", s.local_sid>>, <<"REMOTE_SESSION_ID", peer_sid>> >>

Circuit(s) ==
    << <<"L2_SPECIFIC_SUBLAYER", s.l2_specific_sublayer>>,
       <<"DATA_SEQUENCING", s.data_sequencing>>,
       <<"CIRCUIT_STATUS", s.circuit_status>> >>

Speeds(s) ==
    << <<"TX_CONNECT_SPEED", s.tx_connect_speed>>,
       <<"RX_CONNECT_SPEED", s.rx_connect_speed>> >>

Cookie(s) == << <<"ASSIGNED_COOKIE", s.cookie>> >>

\* The Result Codes the state machines send have no error code.
Result(result) == << <<"RESULT_CODE", ResultCode(Num(result), None, <<>>)>> >>

\* What follows the Message Type.
BodyFields(kind, t, s, peer_sid, result) ==
    CASE kind \in {"SCCRQ", "SCCRP"} -> SccrxFields(t)
      [] kind \in {"SCCCN", "HELLO"} -> <<>>
      [] kind = "StopCCN" ->
            << <<"ASSIGNED_CONTROL_CONNECTION_ID", t.local_ccid>> >> \o Result(result)
      [] kind = "ICRQ" ->
            SessionIds(s, Num(0)) \o << <<"PSEUDOWIRE_TYPE", s.pseudowire_type>> >>
            \o Circuit(s) \o << <<"REMOTE_END_ID", s.name>> >> \o Cookie(s) \o Speeds(s)
      [] kind = "ICRP" ->
            SessionIds(s, peer_sid) \o Circuit(s) \o Cookie(s) \o Speeds(s)
      [] kind = "ICCN" -> SessionIds(s, peer_sid) \o Circuit(s) \o Speeds(s)
      [] kind = "CDN"  -> SessionIds(s, peer_sid) \o Result(result)

\* build_<kind>_avps as the state machines call it; a field whose value is
\* None is left out.
Fields(kind, t, s, peer_sid, result) ==
    LET body    == BodyFields(kind, t, s, peer_sid, result)
        Kept(i) == IF body[i][2] = None THEN <<>> ELSE <<body[i]>>
    IN  << <<"MESSAGE_TYPE", Num(MessageType[kind])>> >>
        \o FlattenSeq([i \in DOMAIN body |-> Kept(i)])

BuildsAll(fields) == \A i \in DOMAIN fields : builds(fields[i][1], fields[i][2])
BuildAll(fields)  == [i \in DOMAIN fields |-> build(fields[i][1], fields[i][2])]

-----------------------------------------------------------------------------
(* ControlMessage.encode and decode.  hdr is [ccid, ns, nr].               *)

Header(hdr, length) ==
    <<200, 3>> \o U16(length) \o pack(hdr.ccid, 2) \o U16(hdr.ns) \o U16(hdr.nr)

EncodeAll(avps, rv) == FlattenSeq([i \in DOMAIN avps |-> encode(avps[i], rv)])

encodes_message(avps, rv) ==
    /\ \A i \in DOMAIN avps : encodes(avps[i], rv)
    /\ 12 + Len(EncodeAll(avps, rv)) <= 65535

encode_message(hdr, avps, rv) ==
    Header(hdr, 12 + Len(EncodeAll(avps, rv))) \o EncodeAll(avps, rv)

\* T, L and S set and nothing else in byte 0, version 3 and nothing else in
\* byte 1, and the Length that of the buffer.
decodes_header(buf) ==
    /\ Len(buf) >= 12
    /\ buf[1] = 200 /\ buf[2] = 3
    /\ u16(buf, 2) = Len(buf)

decode_header(buf) ==
    [ccid |-> unpack(Slice(buf, 4, 8)), ns |-> u16(buf, 8), nr |-> u16(buf, 10)]

-----------------------------------------------------------------------------
(* Parsers, by the Message Type found: the fields they read and those that *)
(* must be there.                                                          *)

MandatoryFields(type) ==
    CASE type \in {1, 2}        -> {"ROUTER_ID", "ASSIGNED_CONTROL_CONNECTION_ID",
                                    "HOST_NAME", "PSEUDOWIRE_CAPABILITIES_LIST"}
      [] type = 4               -> {"ASSIGNED_CONTROL_CONNECTION_ID", "RESULT_CODE"}
      [] type \in {10, 11, 12}  -> {"LOCAL_SESSION_ID"}
      [] type = 14              -> {"LOCAL_SESSION_ID", "RESULT_CODE"}
      [] OTHER                  -> {}

ParsedFields(type) ==
    MandatoryFields(type) \cup
    CASE type \in {1, 2}        -> {"RECEIVE_WINDOW_SIZE", "CTL_MSG_AUTH_NONCE"}
      [] type \in {10, 11, 12}  ->
            {"REMOTE_SESSION_ID", "PSEUDOWIRE_TYPE", "L2_SPECIFIC_SUBLAYER",
             "DATA_SEQUENCING", "CIRCUIT_STATUS", "ASSIGNED_COOKIE", "REMOTE_END_ID",
             "TX_CONNECT_SPEED", "RX_CONNECT_SPEED"}
      [] type = 14              -> {"REMOTE_SESSION_ID"}
      [] OTHER                  -> {}

\* get_message_type raises for an AVP of another length.
get_message_type(avps) ==
    LET mt == find_avp(avps, "MESSAGE_TYPE")
    IN  IF mt = None THEN None ELSE u16(mt.value, 0)

parses(type, avps) ==
    \A f \in ParsedFields(type) :
        LET avp == find_avp(avps, f)
        IN  IF avp = None THEN f \notin MandatoryFields(type) ELSE decodes(f, avp.value)

\* What is absent reads as None, a Remote Session ID as 0.
parse(type, avps) ==
    [f \in ParsedFields(type) |->
        LET avp == find_avp(avps, f)
        IN  IF avp # None THEN decode_value(f, avp.value)
            ELSE IF f = "REMOTE_SESSION_ID" THEN Num(0) ELSE None]

-----------------------------------------------------------------------------
(* Signing and verification.  alg is the hash type: 0 MD5, 1 SHA-1.        *)

digest_size(alg) == IF alg = 0 THEN 16 ELSE 20

\* build_message_digest
Digest(alg, digest) == build("MESSAGE_DIGEST", <<alg>> \o digest)

Zeroed(alg) == Digest(alg, [i \in 1..digest_size(alg) |-> 0])

\* compute_message_digest.  The HMAC is taken to be perfect: the bytes of a
\* digest say only that somebody computed it, and what it was computed over,
\* and with which secret, is kept beside the datagram.
Hmac(alg) == [i \in 1..digest_size(alg) |-> 255]

\* The AVPs of a signed message, and the encoding its digest is computed over.
Signed(alg, avps)           == Append(avps, Digest(alg, Hmac(alg)))
SignedBytes(alg, hdr, avps) == encode_message(hdr, Append(avps, Zeroed(alg)), None)

IsDigest(avp) == avp.vendor_id = 0 /\ avp.attribute_type = AttrType.MESSAGE_DIGEST

\* Mutant: the other AVPs are rebuilt with their default M bit.
zeroed_bytes_rebuilt(alg, hdr, avps) ==
    encode_message(hdr,
        [i \in DOMAIN avps |-> IF IsDigest(avps[i]) THEN Zeroed(alg)
                               ELSE [avps[i] EXCEPT !.mandatory = TRUE]], None)

\* Every Message Digest AVP is replaced by a zeroed one, the rest is encoded
\* again as it was decoded.
zeroed_bytes(alg, hdr, avps) ==
    encode_message(hdr,
        [i \in DOMAIN avps |-> IF IsDigest(avps[i]) THEN Zeroed(alg) ELSE avps[i]], None)

\* No digest was computed.
NoMac == <<>>

\* _decode_and_verify_impl after decoding.  mac is the [secret, alg, bytes]
\* that the digest of the message was computed from, or NoMac.
verifies(password, alg, hdr, avps, mac) ==
    LET md == find_avp(avps, "MESSAGE_DIGEST")
    IN  /\ md # None
        /\ Len(md.value) = 1 + digest_size(alg)
        /\ md.value = <<alg>> \o Hmac(alg)
        /\ mac = [secret |-> password, alg |-> alg, bytes |-> zeroed_bytes(alg, hdr, avps)]
=============================================================================
