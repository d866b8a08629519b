------------------------------- MODULE MCWire -------------------------------
(***************************************************************************)
(* An instance of Wire for TLC: a configuration file of one tunnel and one *)
(* session that sets every key, and the files that differ from it in one   *)
(* key.                                                                    *)
(***************************************************************************)
EXTENDS Wire

\* A stand-in for the MD5 keystream.
Stream(type, vector, i) == (7 * type + 31 * i + vector[1 + (i % Len(vector))]) % 256

Vector  == [i \in 1..16 |-> 11 * i]
AnySid  == <<1, 65535>>

-----------------------------------------------------------------------------
(* TOML values *)

Toml(kind) ==
    [is |-> kind, n |-> None, word |-> "?", utf8 |-> None, hex |-> None, ip |-> None, quad |-> None]

Integer(n)   == [Toml("int") EXCEPT !.n = n]
Small(i)     == Integer(Num(i))
Text(utf8)   == [Toml("str") EXCEPT !.utf8 = utf8]
Keyword(w)   == [Text(<<119>>) EXCEPT !.word = w]
Hex(bytes)   == [Text(<<104>>) EXCEPT !.hex = bytes]
Address(n)   == [Text(<<105>>) EXCEPT !.ip = n, !.quad = n]
Numeral(i)   == [Text(<<48 + i>>) EXCEPT !.n = Num(i)]
Fraction(i)  == [Toml("other") EXCEPT !.n = Num(i)]
Array        == Toml("other")

Name(n) == Text([i \in 1..n |-> 97])

Largest(digits)  == Integer([i \in 1..digits |-> 65535])
TooLarge(digits) == Integer([i \in 1..(digits + 1) |-> IF i = 1 THEN 1 ELSE 0])

-----------------------------------------------------------------------------
(* Tables *)

BaseGlobal ==
    [log_level |-> Keyword("info"), listen_port |-> Small(1701), listen_address |-> Address(<<>>)]

BaseSession ==
    [ name |-> Name(3), local_sid |-> Small(7), pseudowire_type |-> Keyword("ethernet"),
      l2_specific_sublayer |-> Small(1), data_sequencing |-> Small(0),
      circuit_status |-> Small(3), cookie |-> Hex(<<222, 173, 190, 239>>),
      peer_cookie |-> Hex(<<1, 2, 3, 4>>), tx_connect_speed |-> Integer(<<1525, 57600>>),
      rx_connect_speed |-> Largest(4), ifname |-> Name(4) ]

BaseTunnel ==
    [ name |-> Name(2), local_address |-> Address(<<1>>), remote_address |-> Address(<<2>>),
      local_ccid |-> Small(100), remote_ccid |-> Integer(<<1, 2>>), host_name |-> Name(4),
      router_id |-> Address(<<2560, 1>>), password |-> None, digest_alg |-> Keyword("md5"),
      hello_interval |-> Small(60), retransmit_interval |-> Small(1), max_retries |-> Small(5),
      receive_window |-> Small(4), tx_connect_speed |-> Small(0), rx_connect_speed |-> Small(0),
      vendor_name |-> Name(5), firmware_revision |-> Small(258), session |-> <<BaseSession>> ]

File(tunnels) == [global |-> BaseGlobal, tunnel |-> tunnels]

BaseFile   == File(<<BaseTunnel>>)
SignedFile == File(<<[BaseTunnel EXCEPT !.password = Name(6)]>>)
Sha1File   ==
    File(<<[BaseTunnel EXCEPT !.password = Name(6), !.digest_alg = Keyword("sha1")]>>)

-----------------------------------------------------------------------------
(* The values a key is given, absent and ill-typed ones among them *)

Numbers(digits) ==
    {None, Small(0), Integer(Negative), Largest(digits), TooLarge(digits), Numeral(7), Name(1), Array}

Around(lo, hi) == {None, Fraction(lo), Name(1)} \cup {Small(i) : i \in {lo - 1, lo, hi, hi + 1}}

Names     == {None, Small(1), Array} \cup {Name(n) : n \in {0, 14, 15, 249, 250, 1017, 1018}}
Cookies   == {None, Small(1), Name(8)} \cup {Hex([i \in 1..n |-> 240 + i]) : n \in {0, 3, 4, 8}}
Addresses == {None, Small(1), Name(1), Address(<<257, 1>>)}
Keywords(ws) == {None, Array} \cup {Keyword(w) : w \in ws}

GlobalKeys ==
    ("log_level" :> Keywords({"debug", "loud"})) @@ ("listen_port" :> Around(1, 65535)) @@
    ("listen_address" :> Addresses)

SessionKeys ==
    ("name" :> Names) @@ ("local_sid" :> Numbers(2)) @@
    ("pseudowire_type" :> Keywords({"ethernet-vlan", "ppp"})) @@
    ("l2_specific_sublayer" :> {Small(0), Small(2), None}) @@
    ("data_sequencing" :> {Small(2), Small(3), Integer(Negative), None}) @@
    ("circuit_status" :> Numbers(1)) @@ ("cookie" :> Cookies) @@ ("peer_cookie" :> Cookies) @@
    ("tx_connect_speed" :> Numbers(4)) @@ ("rx_connect_speed" :> Numbers(4)) @@
    ("ifname" :> {None, Small(1)})

\* Two sessions, that may share their name or their session ID.
Pairs ==
    { <<BaseSession, [BaseSession EXCEPT !.name = Name(n), !.local_sid = Small(id)]>> :
        n \in {3, 4}, id \in {7, 8} }

TunnelKeys ==
    ("name" :> {None, Small(1)}) @@ ("local_address" :> Addresses) @@
    ("remote_address" :> Addresses) @@ ("local_ccid" :> Numbers(2)) @@
    ("remote_ccid" :> Numbers(2)) @@ ("host_name" :> Names) @@
    ("router_id" :> Numbers(2) \cup Addresses) @@
    ("password" :> {None, Small(1), Name(0), Name(6)}) @@
    ("digest_alg" :> Keywords({"md5", "sha1", "sha256"})) @@
    ("hello_interval" :> Around(1, 3600)) @@ ("retransmit_interval" :> Around(1, 8)) @@
    ("max_retries" :> Around(1, 10)) @@
    ("receive_window" :> Around(1, 1024) \cup Numbers(1)) @@
    ("tx_connect_speed" :> Numbers(4)) @@ ("rx_connect_speed" :> Numbers(4)) @@
    ("vendor_name" :> Names) @@ ("firmware_revision" :> Numbers(1)) @@
    ("session" :> {<<>>} \cup Pairs \cup
        UNION {{<<[BaseSession EXCEPT ![k] = v]>> : v \in SessionKeys[k]} : k \in DOMAIN SessionKeys})

\* Two tunnels, that may share their name or their control connection ID.
TwoTunnels ==
    { File(<<BaseTunnel, [BaseTunnel EXCEPT !.name = Name(n), !.local_ccid = Small(id)]>>) :
        n \in {2, 3}, id \in {100, 101} }

AllFiles ==
    {File(<<>>), BaseFile, SignedFile, Sha1File} \cup TwoTunnels
    \cup UNION {{[BaseFile EXCEPT !.global[k] = v] : v \in GlobalKeys[k]} : k \in DOMAIN GlobalKeys}
    \cup UNION {{File(<<[BaseTunnel EXCEPT ![k] = v]>>) : v \in TunnelKeys[k]} : k \in DOMAIN TunnelKeys}

FragileFiles == {BaseFile, SignedFile, Sha1File}
=============================================================================
