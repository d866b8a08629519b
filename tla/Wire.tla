-------------------------------- MODULE Wire --------------------------------
(***************************************************************************)
(* A control message from the sender's configuration file to the fields    *)
(* the receiver's state machine reads: config.py, the builders and parsers *)
(* of messages.py, avp.py and auth.py in the order main.py calls them.     *)
(*                                                                         *)
(* Between the two ends the network may damage the datagram.  Delivery and *)
(* order are the business of ReliableChannel; what the fields do is that   *)
(* of L2tpPair, which takes for granted what RoundTrip states.             *)
(***************************************************************************)
EXTENDS Config

CONSTANTS Documents,      \* configuration files
          Fragile,        \* the documents whose messages may be damaged
          Masks,          \* the bits of a byte that damage flips
          RandomVector,   \* the value of a Random Vector AVP
          PeerSid,        \* the session ID of the peer
          Ns, Nr          \* the sequence numbers of the message

ASSUME WireAssumption ==
    /\ \A d \in Documents : IsDocument(d)
    /\ RandomVector \in Seq(Byte) /\ Len(RandomVector) >= 16
    /\ IsNumber(PeerSid) /\ Len(PeerSid) <= 2
    /\ Ns \in Word /\ Nr \in Word

\* None is no value of any kind that a message is made of.
ASSUME AbsentAssumption ==
    /\ None \notin Nat
    /\ None \notin Seq(Seq(Word))
    /\ None \notin [result : Seq(Word), error : {None}, message : {<<>>}]
    /\ None \notin [ attribute_type : Word, vendor_id : Word, hidden : BOOLEAN,
                     mandatory : BOOLEAN, value : Seq(Byte) ]
    /\ None \notin [password : Seq(Byte) \cup {None}, alg : {0, 1}]

\* _generate_keystream returns bytes.
ASSUME KeystreamAssumption ==
    \A i \in 1..1017 : Keystream(AttrType.HOST_NAME, RandomVector, i) \in Byte

VARIABLES doc,     \* the sender's file
          cfg,     \* the tunnels the loader made of it
          table,   \* Daemon._tunnels: the index of a tunnel by its local_ccid
          stage,   \* how far the message has come
          sent,    \* what the sender put into it
          rx,      \* the receiver's password and digest algorithm
          buf,     \* the datagram
          got      \* what the receiver has made of it

vars == <<doc, cfg, table, stage, sent, rx, buf, got>>

Init ==
    /\ doc \in Documents
    /\ cfg = <<>> /\ table = <<>>
    /\ stage = "start"
    /\ sent = None /\ rx = None /\ buf = <<>> /\ got = None

-----------------------------------------------------------------------------
(* The sender *)

\* load_file, then Daemon.start: a later tunnel replaces an earlier one with
\* the same local_ccid.
Load ==
    LET entries == parse_document(doc)
        ccids   == {entries[i].local_ccid : i \in DOMAIN entries}
    IN  /\ stage = "start"
        /\ IF parses_document(doc)
           THEN /\ cfg' = entries
                /\ table' = [c \in ccids |->
                                SelectLastInSeq(entries, LAMBDA t : t.local_ccid = c)]
                /\ stage' = "configured"
           ELSE /\ stage' = "rejected"
                /\ UNCHANGED <<cfg, table>>
        /\ UNCHANGED <<doc, sent, rx, buf, got>>

\* The datagram leaves.  list is None for AVPs that no builder made, and key is
\* None without hidden ones.
Transmit(t, list, avps, key, mac) ==
    LET hdr  == [ccid |-> t.remote_ccid, ns |-> Ns, nr |-> Nr]
        wire == encode_message(hdr, avps, key)
    IN  /\ stage' = "sent"
        /\ sent' = [ tunnel |-> t, fields |-> list, hdr |-> hdr, avps |-> avps,
                     key |-> key, mac |-> mac, wire |-> wire ]
        /\ buf' = wire
        /\ UNCHANGED <<doc, cfg, table, rx, got>>

\* Tunnel._send: the message is encoded, and with a password signed.  Nothing
\* catches an exception of a builder or of encode().
Send(t, list) ==
    LET hdr   == [ccid |-> t.remote_ccid, ns |-> Ns, nr |-> Nr]
        built == BuildAll(list)
        avps  == IF t.password = None THEN built ELSE Signed(t.digest_alg, built)
        mac   == [secret |-> t.password, alg |-> t.digest_alg,
                  bytes |-> SignedBytes(t.digest_alg, hdr, built)]
    IN  /\ stage = "configured"
        /\ IF ~BuildsAll(list) \/ ~encodes_message(avps, None)
           THEN /\ stage' = "raised"
                /\ UNCHANGED <<doc, cfg, table, sent, rx, buf, got>>
           ELSE Transmit(t, list, avps, None, IF t.password = None THEN NoMac ELSE mac)

\* Any message of a tunnel, and any message of one of its sessions, with the
\* result codes ADMIN_SHUTDOWN and GENERAL_ERROR.
SendTunnel ==
    \E i \in DOMAIN cfg, kind \in TunnelKinds, result \in {6, 2} :
        Send(cfg[i], Fields(kind, cfg[i], None, PeerSid, result))

SendSession ==
    \E i \in DOMAIN cfg, kind \in Kinds \ TunnelKinds, result \in {6, 2} :
        \E j \in DOMAIN cfg[i].sessions :
            Send(cfg[i], Fields(kind, cfg[i], cfg[i].sessions[j], PeerSid, result))

\* Peer.ack_only: a ZLB, never signed.
SendAck ==
    \E i \in DOMAIN cfg :
        /\ stage = "configured"
        /\ Transmit(cfg[i], <<>>, <<>>, None, NoMac)

\* ControlMessage.encode with a shared secret: AVPs after the Random Vector may
\* be hidden.  The daemon hides none and reads none; the tests do.
SendHidden ==
    \E i \in DOMAIN cfg :
        LET hello == build("MESSAGE_TYPE", Num(MessageType.HELLO))
            name  == [build("HOST_NAME", cfg[i].host_name) EXCEPT !.hidden = TRUE]
            list  == <<hello, build("RANDOM_VECTOR", RandomVector), name>>
        IN  /\ stage = "configured"
            /\ encodes_message(list, RandomVector)
            /\ Transmit(cfg[i], None, list, RandomVector, NoMac)

-----------------------------------------------------------------------------
(* The network *)

\* Bits of one byte flip.
Flip ==
    \E i \in DOMAIN buf, m \in Masks :
        /\ stage = "sent" /\ doc \in Fragile
        /\ buf' = [buf EXCEPT ![i] = Xor(@, m)]
        /\ stage' = "damaged"
        /\ UNCHANGED <<doc, cfg, table, sent, rx, got>>

\* The end is lost.
Truncate ==
    \E n \in 0..(Len(buf) - 1) :
        /\ stage = "sent" /\ doc \in Fragile
        /\ buf' = SubSeq(buf, 1, n)
        /\ stage' = "damaged"
        /\ UNCHANGED <<doc, cfg, table, sent, rx, got>>

-----------------------------------------------------------------------------
(* The receiver: Tunnel.handle_datagram and the parser of the message type *)

DecodeHeader ==
    /\ stage \in {"sent", "damaged"}
    /\ IF decodes_header(buf)
       THEN /\ got' = [hdr |-> decode_header(buf), pos |-> 12, rv |-> None,
                       avps |-> <<>>, fields |-> None]
            /\ stage' = "decoding"
       ELSE /\ stage' = "dropped"
            /\ UNCHANGED got
    /\ UNCHANGED <<doc, cfg, table, sent, rx, buf>>

\* One round of decode_sequence.  Only the reader of a message with hidden
\* AVPs has a secret to read them with.
DecodeAvp ==
    LET key == IF sent.key = None THEN None ELSE got.rv
        avp == decode_one(buf, got.pos, key)
    IN  /\ stage = "decoding"
        /\ got.pos < Len(buf)
        /\ IF decodes_one(buf, got.pos, key)
           THEN /\ got' = [got EXCEPT
                            !.pos  = @ + TotalLen(buf, got.pos),
                            !.avps = Append(@, avp),
                            !.rv   = IF find_avp(<<avp>>, "RANDOM_VECTOR") = None THEN @
                                     ELSE avp.value]
                /\ UNCHANGED stage
           ELSE /\ stage' = "dropped"
                /\ UNCHANGED got
        /\ UNCHANGED <<doc, cfg, table, sent, rx, buf>>

\* The receiver is configured like the sender, or with another secret or
\* algorithm, or without a password.
Receivers(t) ==
    { [password |-> p, alg |-> a] :
        p \in {t.password, None} \cup
              (IF t.password = None THEN {} ELSE {Append(t.password, 0)}),
        a \in {0, 1} }

Verify ==
    /\ stage = "decoding"
    /\ got.pos >= Len(buf)
    /\ rx' \in Receivers(sent.tunnel)
    /\ stage' = IF \/ rx'.password = None
                   \/ verifies(rx'.password, rx'.alg, got.hdr, got.avps, sent.mac)
                THEN "verified" ELSE "dropped"
    /\ UNCHANGED <<doc, cfg, table, sent, buf, got>>

\* A ZLB has nothing to parse.  A Message Type of another length than 2 is an
\* exception that handle_datagram does not catch; what the parsers raise is a
\* malformed message to the state machines (ok = FALSE in module Messages).
Parse ==
    LET mt   == find_avp(got.avps, "MESSAGE_TYPE")
        type == get_message_type(got.avps)
    IN  /\ stage = "verified"
        /\ IF mt # None /\ ~decodes("MESSAGE_TYPE", mt.value)
           THEN stage' = "raised" /\ UNCHANGED got
           ELSE IF ~parses(type, got.avps)
           THEN stage' = "malformed" /\ UNCHANGED got
           ELSE /\ stage' = "accepted"
                /\ got' = [got EXCEPT !.fields = parse(type, got.avps)]
        /\ UNCHANGED <<doc, cfg, table, sent, rx, buf>>

Next ==
    \/ Load
    \/ SendTunnel \/ SendSession \/ SendAck \/ SendHidden
    \/ Flip \/ Truncate
    \/ DecodeHeader \/ DecodeAvp \/ Verify \/ Parse

Spec == Init /\ [][Next]_vars

-----------------------------------------------------------------------------
(* Properties *)

Stages ==
    {"start", "rejected", "configured", "sent", "damaged", "decoding", "dropped",
     "verified", "malformed", "accepted", "raised"}

\* Decoding stays inside the datagram, and every AVP it makes can be one.
TypeOK ==
    /\ stage \in Stages
    /\ Range(buf) \subseteq Byte
    /\ got # None =>
        /\ got.pos \in 12..Len(buf)
        /\ \A i \in DOMAIN got.avps :
            /\ Range(got.avps[i].value) \subseteq Byte
            /\ {got.avps[i].attribute_type, got.avps[i].vendor_id} \subseteq Word

\* What the sender's builder was given for a field.
FieldSent(f) ==
    LET i == SelectInSeq(sent.fields, LAMBDA fv : fv[1] = f)
    IN  IF i # 0 THEN sent.fields[i][2]
        ELSE IF f = "REMOTE_SESSION_ID" THEN Num(0) ELSE None

\* The receiver has no password, or the sender's and its algorithm, and the
\* message is signed.
Agreed ==
    \/ rx.password = None
    \/ /\ sent.mac # NoMac
       /\ rx = [password |-> sent.tunnel.password, alg |-> sent.tunnel.digest_alg]

\* A message that arrives undamaged is never refused by an end that agrees on
\* the secret, whatever the accepted configuration, and every field its parser
\* reads has the value that the configuration and the state machine gave it.
RoundTrip ==
    sent # None /\ buf = sent.wire =>
        /\ stage = "dropped" => rx # None /\ ~Agreed
        /\ stage \notin {"malformed", "raised"}
        /\ stage = "accepted" =>
            /\ got.hdr = sent.hdr /\ got.avps = sent.avps
            /\ sent.fields # None =>
                \A f \in DOMAIN got.fields : got.fields[f] = FieldSent(f)

\* Decoding loses nothing: the AVPs decoded so far, encoded again, are the
\* bytes they came from.  _decode_and_verify_impl relies on it ("Requires
\* deterministic AVP encoding"), and each round of decode_sequence advances.
Canonical ==
    got # None /\ (\A i \in DOMAIN got.avps : ~got.avps[i].hidden) =>
        Header(got.hdr, Len(buf)) \o EncodeAll(got.avps, None) = SubSeq(buf, 1, got.pos)

\* With a password, a message that passes is the message that was sent, in
\* every field of its header and every AVP, except for the M bit of the
\* Message Digest AVP itself.
SignedMeansSent ==
    stage \in {"verified", "malformed", "accepted"} /\ rx.password # None =>
        /\ Agreed
        /\ got.hdr = sent.hdr
        /\ Len(got.avps) = Len(sent.avps)
        /\ \A i \in DOMAIN got.avps :
            sent.avps[i] \in
                {got.avps[i]} \cup
                (IF IsDigest(got.avps[i]) THEN {[got.avps[i] EXCEPT !.mandatory = TRUE]} ELSE {})

Unchecked(t) ==
    \/ Len(t.host_name) > 1017
    \/ t.vendor_name # None /\ Len(t.vendor_name) > 1017
    \/ \E j \in DOMAIN t.sessions :
        \/ Len(t.sessions[j].name) > 1017
        \/ \E v \in {t.sessions[j].tx_connect_speed, t.sessions[j].rx_connect_speed} :
                v # None /\ ~Fits(v, 4)

\* The loader checks every range a builder needs, except for the length of
\* names and the speeds of sessions: only those make an accepted file fail
\* when its messages are built.  And whatever happens to a datagram on its way,
\* an end with a password raises nothing that handle_datagram does not catch.
OnlyUncheckedRaise ==
    stage = "raised" =>
        IF rx = None THEN \E i \in DOMAIN cfg : Unchecked(cfg[i]) ELSE rx.password = None

\* Nor does an end without one, for a datagram that lost its end or had a bit
\* flipped.
DamageCaught == stage = "raised" => rx = None

\* What the loader accepts, the daemon can run ("All type coercion and range
\* checking happens here so the FSM / daemon never sees malformed input"): no
\* message fails to be built, the daemon serves every tunnel, the SCCRQ of a
\* tunnel is addressed to an ID that a tunnel can have ("optional; 0 = learned
\* dynamically from SCCRP"), and no session has a cookie that the dataplane
\* cannot take ("when present they must be 4 or 8 bytes").
StartsWhatItAccepts ==
    /\ stage = "raised" => sent # None
    /\ \A i \in DOMAIN cfg :
        /\ table[cfg[i].local_ccid] = i
        /\ cfg[i].remote_ccid # Num(0)
        /\ \A j \in DOMAIN cfg[i].sessions :
            <<>> \notin {cfg[i].sessions[j].cookie, cfg[i].sessions[j].peer_cookie}
=============================================================================
