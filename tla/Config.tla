------------------------------- MODULE Config -------------------------------
(***************************************************************************)
(* config.py: which documents the loader accepts, and what it makes of     *)
(* them.                                                                   *)
(*                                                                         *)
(* A TOML value is the record of what the functions that the loader        *)
(* applies to it return, None where they raise:                            *)
(*   is    "int" (booleans too), "str" or "other", for isinstance          *)
(*   n     int()                   word  str().lower()                     *)
(*   utf8  encode("utf-8")         hex   bytes.fromhex()                   *)
(*   ip    ipaddress.ip_address()  quad  int(ipaddress.IPv4Address())      *)
(* A key that the table does not have is None; durations are whole seconds, *)
(* and every array is an array of tables.                                  *)
(***************************************************************************)
EXTENDS ControlMessage

IsToml(v) ==
    v # None =>
        /\ IsNumber(v.n) \/ v.n \in {None, Negative}
        /\ {v.utf8, v.hex} \subseteq Seq(Byte) \cup {None}
        /\ v.quad # None => IsNumber(v.quad) /\ Len(v.quad) <= 2
        /\ v.is = "str" => v.utf8 # None

\* The keys whose values reach a message.
IsDocument(d) ==
    \A i \in DOMAIN d.tunnel :
        LET t == d.tunnel[i]
        IN  /\ \A v \in {t.host_name, t.router_id, t.local_ccid, t.remote_ccid, t.password,
                         t.receive_window, t.vendor_name, t.firmware_revision} : IsToml(v)
            /\ \A j \in DOMAIN t.session :
                LET s == t.session[j]
                IN  \A v \in {s.name, s.local_sid, s.l2_specific_sublayer, s.data_sequencing,
                              s.circuit_status, s.cookie, s.tx_connect_speed,
                              s.rx_connect_speed} : IsToml(v)

\* section.get(key, default), then one of the functions.
IntOr(v, default)  == IF v = None THEN Num(default) ELSE v.n
WordOr(v, default) == IF v = None THEN default ELSE v.word
Optional(v, field) == IF v = None THEN None ELSE v[field]

\* lo <= n <= hi, for bounds of 16 bits
Within(n, lo, hi) == Fits(n, 1) /\ n \in {Num(i) : i \in lo..hi}

IsStr(v) == v # None /\ v.is = "str"
IsInt(v) == v # None /\ v.is = "int"

parses_global(g) ==
    /\ WordOr(g.log_level, "info") \in {"debug", "info", "warning", "error"}
    /\ Within(IntOr(g.listen_port, 1701), 1, 65535)
    /\ g.listen_address # None => g.listen_address.ip # None

parses_cookie(v) == v # None => IsStr(v) /\ v.hex # None /\ Len(v.hex) \in {0, 4, 8}

parses_router_id(v) ==
    \/ IsInt(v) /\ Fits(v.n, 2)
    \/ IsStr(v) /\ v.quad # None

parse_router_id(v) == IF IsInt(v) THEN v.n ELSE v.quad

PseudowireType ==
    [w \in {"ethernet", "ethernet-vlan"} |-> IF w = "ethernet" THEN Num(5) ELSE Num(4)]

parses_session(s) ==
    /\ IsStr(s.name)
    /\ IsInt(s.local_sid) /\ s.local_sid.n # Num(0) /\ Fits(s.local_sid.n, 2)
    /\ WordOr(s.pseudowire_type, "ethernet") \in DOMAIN PseudowireType
    /\ Within(IntOr(s.l2_specific_sublayer, 1), 0, 1)
    /\ Within(IntOr(s.data_sequencing, 0), 0, 2)
    /\ Fits(IntOr(s.circuit_status, 3), 1)
    /\ parses_cookie(s.cookie) /\ parses_cookie(s.peer_cookie)
    /\ IntOr(s.tx_connect_speed, 0) # None /\ IntOr(s.rx_connect_speed, 0) # None
    /\ s.ifname # None => IsStr(s.ifname)

\* The SessionConfigEntry
parse_session(s) ==
    [ name                 |-> s.name.utf8,
      local_sid            |-> s.local_sid.n,
      pseudowire_type      |-> PseudowireType[WordOr(s.pseudowire_type, "ethernet")],
      l2_specific_sublayer |-> IntOr(s.l2_specific_sublayer, 1),
      data_sequencing      |-> IntOr(s.data_sequencing, 0),
      circuit_status       |-> IntOr(s.circuit_status, 3),
      cookie               |-> Optional(s.cookie, "hex"),
      peer_cookie          |-> Optional(s.peer_cookie, "hex"),
      tx_connect_speed     |-> Optional(s.tx_connect_speed, "n"),
      rx_connect_speed     |-> Optional(s.rx_connect_speed, "n") ]

\* No two tables of an array have the same value of a key.
Distinct(array, key, field) ==
    \A i, j \in DOMAIN array : array[i][key][field] = array[j][key][field] => i = j

\* Mutant: receive_window and firmware_revision have no upper bound.
parses_ranges_open_ended(t) ==
    /\ Within(IntOr(t.hello_interval, 60), 1, 3600)
    /\ Within(IntOr(t.retransmit_interval, 1), 1, 8)
    /\ Within(IntOr(t.max_retries, 5), 1, 10)
    /\ IntOr(t.receive_window, 4) \notin {None, Negative, Num(0)}
    /\ IntOr(t.firmware_revision, 0) \notin {None, Negative}

parses_ranges(t) ==
    /\ Within(IntOr(t.hello_interval, 60), 1, 3600)
    /\ Within(IntOr(t.retransmit_interval, 1), 1, 8)
    /\ Within(IntOr(t.max_retries, 5), 1, 10)
    /\ Within(IntOr(t.receive_window, 4), 1, 1024)
    /\ Fits(IntOr(t.firmware_revision, 0), 1)

parses_tunnel(t) ==
    /\ IsStr(t.name) /\ IsStr(t.host_name)
    /\ IsStr(t.local_address) /\ t.local_address.ip # None
    /\ IsStr(t.remote_address) /\ t.remote_address.ip # None
    /\ IsInt(t.local_ccid) /\ t.local_ccid.n # Num(0) /\ Fits(t.local_ccid.n, 2)
    /\ parses_router_id(t.router_id)
    /\ Fits(IntOr(t.remote_ccid, 0), 2)
    /\ t.password # None => IsStr(t.password) /\ t.password.utf8 # <<>>
    /\ WordOr(t.digest_alg, "md5") \in {"md5", "sha1"}
    /\ parses_ranges(t)
    /\ IntOr(t.tx_connect_speed, 0) # None /\ IntOr(t.rx_connect_speed, 0) # None
    /\ t.vendor_name # None => IsStr(t.vendor_name)
    /\ \A i \in DOMAIN t.session : parses_session(t.session[i])
    /\ Distinct(t.session, "name", "utf8")
    /\ Distinct(t.session, "local_sid", "n")

\* The TunnelConfigEntry
parse_tunnel(t) ==
    [ host_name         |-> t.host_name.utf8,
      router_id         |-> parse_router_id(t.router_id),
      local_ccid        |-> t.local_ccid.n,
      remote_ccid       |-> IntOr(t.remote_ccid, 0),
      password          |-> Optional(t.password, "utf8"),
      digest_alg        |-> IF WordOr(t.digest_alg, "md5") = "md5" THEN 0 ELSE 1,
      receive_window    |-> IntOr(t.receive_window, 4),
      vendor_name       |-> Optional(t.vendor_name, "utf8"),
      firmware_revision |-> Optional(t.firmware_revision, "n"),
      sessions          |-> [i \in DOMAIN t.session |-> parse_session(t.session[i])] ]

\* _parse: a document that is not accepted ends the daemon before it starts.
parses_document(doc) ==
    /\ parses_global(doc.global)
    /\ \A i \in DOMAIN doc.tunnel : parses_tunnel(doc.tunnel[i])
    /\ Distinct(doc.tunnel, "name", "utf8")

parse_document(doc) == [i \in DOMAIN doc.tunnel |-> parse_tunnel(doc.tunnel[i])]
=============================================================================
