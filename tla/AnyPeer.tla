------------------------------ MODULE AnyPeer ------------------------------
(***************************************************************************)
(* One tunnel of the daemon against a peer that need not follow the        *)
(* protocol: at any moment it sends any message of a given set, in order,  *)
(* ahead of order or again, until it falls silent.  Any ip command may     *)
(* fail.                                                                   *)
(*                                                                         *)
(* Two correct daemons (L2tpPair) never reach most error paths of the      *)
(* handlers; this module does.  It also settles what a failed ip command   *)
(* does to the agreement between the sessions and the kernel.              *)
(***************************************************************************)
EXTENDS Tunnel, FiniteSets

CONSTANTS
    Cfg,         \* the TunnelConfigEntry
    Bodies,      \* the message bodies the peer may send
    Commands,    \* the ip commands that may fail
    Bounds       \* bounds that a behaviour can have:
                 \*   queue: no message of the peer and no HELLO when this many
                 \*     messages of the tunnel are left unacknowledged
                 \*   heard: datagrams the peer sends
                 \*   failures: ip commands that fail

ASSUME AnyPeerAssumption ==
    /\ Cfg.local_ccid \in Nat \ {0}
    /\ 0 \notin DOMAIN Cfg.sessions
    /\ Cfg.order \in Seq(DOMAIN Cfg.sessions)
    /\ Cfg.password = None
    /\ Bounds \subseteq [queue : Nat \ {0}, heard : Nat, failures : Nat]

VARIABLES
    max,     \* the bounds of this behaviour
    tn,      \* the Tunnel object
    status,  \* "up"; "removed" from the daemon's table; "off" after SIGTERM;
             \*   "ended" by an exception in the receive loop
    heard,   \* how many datagrams the peer has sent
    failed,  \* history: the ip commands that failed, and made a difference
    offer    \* history: offer[sid] is what the peer's part in the latest
             \*   handshake of session sid carried, its session ID and cookie,
             \*   and the cookies that earlier handshakes carried

vars == <<max, tn, status, heard, failed, offer>>

\* Daemon.start, on a kernel without L2TP tunnels.
Init ==
    /\ max \in Bounds
    /\ tn = [start(Cfg, NewTunnel(Cfg, NewDataplane(DOMAIN Cfg.sessions)))
                EXCEPT !.out = <<>>]
    /\ status = "up"
    /\ heard  = 0
    /\ failed = {}
    /\ offer  = [sid \in DOMAIN Cfg.sessions |->
                    [sid |-> 0, cookie |-> None, earlier |-> {}]]

\* The ip commands that fail in a callback: none, or one.
Failures == {{}} \cup {{cmd} : cmd \in Commands}

\* A callback in which the commands fail leaves the tunnel as after[fail].
Commit(after) ==
    \E fail \in {f \in Failures : f = {} \/ Cardinality(failed) < max.failures} :
        \E t \in {after[fail]} :
            /\ fail = {} \/ t # after[{}]
            /\ tn' = [t EXCEPT !.out = <<>>]
            /\ failed' = failed \cup fail

Datagram(ns, nr, body) == [ccid |-> Cfg.local_ccid, ns |-> ns, nr |-> nr, body |-> body]

\* What the peer can send: any message, as the one expected next or the one
\* after it, that acknowledges all messages or leaves up to max.queue - 1; a
\* message again, one beyond the window or half a turn away (receive() does not
\* look into these); a ZLB, also one that acknowledges what was never sent.
Datagrams ==
    LET next == tn.peer.nr_expect
        sent == tn.peer.ns_send
        Nrs  == {seq_advance(sent, Modulus - k) :
                    k \in {j \in 0 .. Len(tn.peer.send_queue) : j < max.queue}}
        Odd  == {Modulus - 1, ReceiveWindow + 1, Half}
    IN  {Datagram(ns, nr, body) :
            ns \in {next, seq_advance(next, 1)}, nr \in Nrs, body \in Bodies}
        \cup {Datagram(seq_advance(next, k), nr, build_hello) : k \in Odd, nr \in Nrs}
        \cup {Datagram(next, nr, Zlb) :
                nr \in Nrs \cup {seq_advance(sent, 1), seq_advance(sent, Half)}}

\* The step of a session from s to s2 takes m for the peer's part in its
\* handshake: the ICRQ that it answers, or the ICRP to its own one.
Accepts(s, s2, m) ==
    /\ s2.state # s.state
    /\ \/ m.t = "ICRQ" /\ s2.state = "WAIT_SESSION_CONNECT"
       \/ m.t = "ICRP" /\ s2.state = "ESTABLISHED"

Offered(old, m) ==
    [sid |-> m.lsid, cookie |-> m.cookie, earlier |-> old.earlier \cup ({old.cookie} \ {None})]

(* Tunnel.handle_datagram.  An exception ends Daemon._recv_loop and run,   *)
(* whereupon _async_main has Daemon.stop close the tunnel and the process  *)
(* ends.                                                                   *)
Receive ==
    \E msg \in Datagrams :
        LET ends  == handle_datagram_raises(tn, msg)
            m     == Merged(delivered(tn.peer, msg))
            after == [fail \in Failures |->
                        LET t == handle_datagram(Cfg, tn, Wire(msg, None), fail)
                        IN  IF ends THEN close(Cfg, t, fail) ELSE t]
        IN  /\ status = "up"
            /\ heard < max.heard
            /\ heard' = heard + 1
            /\ Commit(after)
            /\ offer' = [sid \in DOMAIN offer |->
                            IF Accepts(tn.sess[sid], tn'.sess[sid], m)
                            THEN Offered(offer[sid], m) ELSE offer[sid]]
            /\ status' = IF ends THEN "ended" ELSE "up"
            /\ UNCHANGED max

(* One round of Daemon._tick_loop in which timers have expired. *)
Tick ==
    \E expired \in Expiries(tn.peer) :
        LET after == [fail \in Failures |-> tunnel_tick(Cfg, tn, expired, fail)]
        IN  /\ status = "up"
            /\ Commit(after)
            /\ status' = IF tn'.peer.dead THEN "removed" ELSE "up"
            /\ UNCHANGED <<max, heard, offer>>

(* Tunnel._on_hello_timer *)
HelloTimer ==
    LET after == [fail \in Failures |-> hello_timer(Cfg, tn, fail)]
    IN  /\ tn.hello
        /\ status \notin {"off", "ended"}
        /\ Len(tn.peer.send_queue) < max.queue
        /\ Commit(after)
        /\ UNCHANGED <<max, status, heard, offer>>

(* SIGTERM: Daemon.stop closes the tunnel and the process ends. *)
Stop ==
    LET after == [fail \in Failures |-> close(Cfg, tn, fail)]
    IN  /\ status = "up"
        /\ status' = "off"
        /\ Commit(after)
        /\ UNCHANGED <<max, heard, offer>>

Next ==
    \/ Receive
    \/ Tick
    \/ HelloTimer
    \/ Stop

Spec == Init /\ [][Next]_vars

\* The tick loop or the HELLO timer has something to do.
Busy ==
    \/ status = "up" /\ tn.peer.send_queue # <<>>
    \/ /\ tn.hello
       /\ status \notin {"off", "ended"}
       /\ Len(tn.peer.send_queue) < max.queue

\* The tick loop runs for ever and asyncio fires an armed timer: weak fairness
\* of the two together, which are the steps that neither take a datagram nor
\* stop the process, with their ENABLED spelled out.  Nothing is assumed of the
\* peer, the operator and the ip commands.
Fairness == []<>~Busy \/ []<><<UNCHANGED heard /\ status' # "off">>_vars

FairSpec == Spec /\ Fairness

-----------------------------------------------------------------------------
(* Properties *)

HasNetdev(sid) == tn.dp.ksessions[sid] # NoSession
SessionUp(sid) == tn.sess[sid].state = "ESTABLISHED"

\* Every attribute holds what the code keeps in it, whatever the peer sends.
TypeOK ==
    /\ tn.fsm \in TunnelStates
    /\ tn.hello \in BOOLEAN
    /\ \A sid \in DOMAIN Cfg.sessions : tn.sess[sid].state \in SessionStates
    /\ Range(tn.by_remote) \cup tn.dp.sessions \subseteq DOMAIN Cfg.sessions
    /\ {tn.peer.ns_send, tn.peer.nr_expect} \subseteq SeqNum
    /\ tn.peer.dead <=> status = "removed"

\* Whatever the peer sends and whichever ip commands fail, the HELLO timer is
\* armed exactly while the tunnel is ESTABLISHED (SetHelloTimer and
\* ClearHelloTimer in _execute_actions).
HelloIffEstablished == tn.hello <=> tn.fsm = "ESTABLISHED"

\* The parameters that the latest handshake of a session agreed on: "the peer's
\* cookie if we learned one during negotiation, otherwise the one configured"
\* (_dataplane_params).
Negotiated(sid) ==
    [ remote_sid  |-> offer[sid].sid,
      cookie      |-> Cfg.sessions[sid].cookie,
      peer_cookie |-> IF offer[sid].cookie \in {None, EmptyCookie}
                      THEN Cfg.sessions[sid].peer_cookie
                      ELSE offer[sid].cookie ]

\* A netdev of sid may be older than its session: it could not be brought up
\* (then it is not recorded, and never deleted) or could not be deleted.
Stranded(sid) == {<<"link_up", sid>>, <<"del_session", sid>>} \cap failed # {}

\* The netdev of an ESTABLISHED session has the parameters that the messages of
\* its handshake agreed on, and not those of an earlier one.
NetdevIsCurrent ==
    \A sid \in DOMAIN Cfg.sessions :
        SessionUp(sid) /\ HasNetdev(sid) =>
            tn.dp.ksessions[sid] = Negotiated(sid) \/ Stranded(sid)

\* That is true but for one thing: when the peer's part in the handshake had no
\* cookie, the netdev may have one that the peer gave in an earlier handshake
\* of the session (peer_cookie_learned is never reset).  The session ID is
\* that of the latest handshake always, and so is a cookie that it carried.
NetdevOfHandshake ==
    \A sid \in DOMAIN Cfg.sessions :
        SessionUp(sid) /\ HasNetdev(sid) =>
            \/ tn.dp.ksessions[sid] = Negotiated(sid)
            \/ /\ offer[sid].cookie = None
               /\ \E old \in offer[sid].earlier :
                    tn.dp.ksessions[sid] = [Negotiated(sid) EXCEPT !.peer_cookie = old]
            \/ Stranded(sid)

\* A netdev outlives its session only if it could not be brought up or could
\* not be deleted, whichever way the session went down: CDN, StopCCN, an SCCRQ
\* while the tunnel is up, a dead peer, or the end of the process by a signal or
\* an exception.
NetdevOutlives ==
    \A sid \in DOMAIN Cfg.sessions :
        HasNetdev(sid) /\ ~SessionUp(sid) => Stranded(sid)

\* A session is ESTABLISHED without a netdev only if the kernel refused the
\* tunnel or the session, as it always does for a configured cookie of 0 bytes
\* that no learned one replaces.  In particular a kernel tunnel that could not
\* be deleted, which the tunnel forgets all the same, never costs a later
\* session its netdev.
NetdevMissing ==
    \A sid \in DOMAIN Cfg.sessions :
        SessionUp(sid) /\ ~HasNetdev(sid) =>
            \/ {<<"add_tunnel", 0>>, <<"add_session", sid>>} \cap failed # {}
            \/ LET params == dataplane_params(Cfg.sessions[sid], tn.sess[sid])
               IN  EmptyCookie \in {params.cookie, params.peer_cookie}

\* A peer that falls silent is noticed: the tunnel does not stay ESTABLISHED,
\* because a HELLO goes unanswered and its retransmissions exhaust the budget.
\* (The peer sends max.heard datagrams at most, and may stop at any moment.)
SilentPeerNoticed == <>[](tn.fsm # "ESTABLISHED" \/ status \in {"off", "ended"})
=============================================================================
