----------------------------- MODULE MCAnyPeer -----------------------------
(* An instance of AnyPeer for TLC. *)
EXTENDS AnyPeer

CONSTANTS PwA, C1, C2, C3

\* One session that opens by itself, and accepts an ICRQ whenever it is idle.
\* Its peer_cookie is "", which the loader accepts.
Config ==
    [ local_ccid |-> 101, remote_ccid |-> 102, password |-> None, order |-> <<5>>,
      sessions |-> 5 :> [sid |-> 5, name |-> PwA, initiator |-> TRUE,
                         cookie |-> C1, peer_cookie |-> EmptyCookie] ]

\* The same with a peer_cookie of 4 bytes.
ConfigWithCookie == [Config EXCEPT !.sessions[5].peer_cookie = C3]

\* One message of every type, malformed ones, and session messages of two
\* sessions of the peer, with a cookie, with an empty one and without one.
PeerBodies ==
    { build_sccrq(102), build_sccrp(102), build_scccn, build_hello, build_stopccn(102),
      Body(WrongLength), [build_sccrp(102) EXCEPT !.ok = FALSE],
      build_icrq(7, PwA, C2), build_icrq(8, None, None),
      build_icrp(7, 5, EmptyCookie), [build_icrp(7, 5, C2) EXCEPT !.ok = FALSE],
      build_iccn(7, 5), build_iccn(8, 5),
      build_cdn(7, 5), build_cdn(8, 0) }

\* Two handshakes of the session with a teardown in between and a command that
\* fails; or a peer that leaves up to two messages unacknowledged.
LongOrLate ==
    { [queue |-> 1, heard |-> 5, failures |-> 1],
      [queue |-> 3, heard |-> 3, failures |-> 0] }

IpCommands ==
    { <<"add_tunnel", 0>>, <<"del_tunnel", 0>>, <<"add_session", 5>>,
      <<"link_up", 5>>, <<"del_session", 5>> }
=============================================================================
