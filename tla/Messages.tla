------------------------------ MODULE Messages ------------------------------
(***************************************************************************)
(* Control-message bodies (messages.py): the AVP list of a message reduced *)
(* to the attributes that some handler reads.  A field that the AVP list   *)
(* does not carry holds 0 (identifiers) or None.                           *)
(***************************************************************************)
EXTENDS Naturals, Sequences

CONSTANTS None,
          EmptyCookie   \* a cookie of 0 bytes: present, and false to Python

\* A message has every AVP that the parser for its type insists on.  ok: their
\* decoders take them; otherwise one of them has a length that its decoder
\* refuses.
Body(type) ==
    [ t |-> type, ok |-> TRUE, ccid |-> 0, lsid |-> 0, rsid |-> 0,
      end |-> None, cookie |-> None ]

build_sccrq(ccid)   == [Body("SCCRQ") EXCEPT !.ccid = ccid]
build_sccrp(ccid)   == [Body("SCCRP") EXCEPT !.ccid = ccid]
build_scccn         == Body("SCCCN")
build_hello         == Body("HELLO")
build_stopccn(ccid) == [Body("StopCCN") EXCEPT !.ccid = ccid]

\* The initiator does not know the peer's session ID yet and sends 0.
build_icrq(lsid, end, cookie) ==
    [Body("ICRQ") EXCEPT !.lsid = lsid, !.end = end, !.cookie = cookie]

build_icrp(lsid, rsid, cookie) ==
    [Body("ICRP") EXCEPT !.lsid = lsid, !.rsid = rsid, !.cookie = cookie]

build_iccn(lsid, rsid) == [Body("ICCN") EXCEPT !.lsid = lsid, !.rsid = rsid]
build_cdn(lsid, rsid)  == [Body("CDN") EXCEPT !.lsid = lsid, !.rsid = rsid]

\* The type of a message whose Message Type AVP has not two bytes.
WrongLength == "?"

\* _SESSION_MSG_TYPES
SessionTypes == {"ICRQ", "ICRP", "ICCN", "CDN"}

\* What an end sends once its tunnel is ESTABLISHED.
Late == SessionTypes \cup {"HELLO"}

\* None is not a message that sets up or tears down a tunnel.
ASSUME NoneAssumption ==
    None \notin [t : {"SCCRQ", "SCCRP", "SCCCN", "StopCCN"}, ok : {TRUE}, ccid : Nat,
                 lsid : {0}, rsid : {0}, end : {None}, cookie : {None}]

\* What find_avp reads from the AVPs of several messages put one after the
\* other: each attribute where it first occurs.  Every session message has
\* both session IDs, so only a cookie and a Remote End ID can come from a
\* later message; and the AVPs that decide whether the parser accepts the
\* whole are those of the first message.
Merged(batch) ==
    LET First(val) ==
            LET With == {i \in DOMAIN batch : val[i] # None}
            IN  IF With = {} THEN None
                ELSE val[CHOOSE i \in With : \A j \in With : i <= j]
    IN  [batch[1] EXCEPT !.cookie = First([i \in DOMAIN batch |-> batch[i].cookie]),
                         !.end    = First([i \in DOMAIN batch |-> batch[i].end])]
=============================================================================
