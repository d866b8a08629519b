------------------------------- MODULE Tunnel -------------------------------
(***************************************************************************)
(* main.Tunnel: one configured control connection, that is a Peer, a       *)
(* TunnelFSM, one SessionFSM per configured session, the HELLO timer and   *)
(* the dataplane.                                                          *)
(*                                                                         *)
(* Every entry point of the class (start, close, handle_datagram, tick,    *)
(* the HELLO callback) is an operator from the tunnel's record to the      *)
(* record after the call.  The datagrams the call hands to the transport   *)
(* collect in the field out.  cfg is the tunnel's configuration; fail is   *)
(* the set of ip commands that fail during the call (module Dataplane).    *)
(***************************************************************************)
EXTENDS Peer, TunnelFsm, SessionFsm, Dataplane, SequencesExt

\* Tunnel.__init__; the kernel may hold what an earlier process left there.
NewTunnel(cfg, dp) ==
    [ peer      |-> NewPeer(cfg.local_ccid, cfg.remote_ccid),
      fsm       |-> "IDLE",
      hello     |-> FALSE,
      sess      |-> [sid \in DOMAIN cfg.sessions |-> NewSession],
      by_remote |-> <<>>,
      dp_added  |-> FALSE,
      dp        |-> dp,
      out       |-> <<>> ]

\* A datagram and the key of its Message Digest AVP, None without one.
Wire(msg, key) == [msg |-> msg, key |-> key]

Put(tn, wires) == [tn EXCEPT !.out = @ \o wires]

\* _send(): queued by the Peer, and signed for the first transmission only.
Emit(cfg, tn, body) ==
    IF body = None THEN tn
    ELSE Put([tn EXCEPT !.peer = send(@, body)],
             <<Wire(stamped(tn.peer, body), cfg.password)>>)

\* _send() for each of several messages.
EmitAll(cfg, tn, bodies) ==
    Put([tn EXCEPT !.peer = send_all(@, bodies)],
        [k \in DOMAIN bodies |-> Wire(stamped_at(tn.peer, bodies, k), cfg.password)])

\* The members of a finite set of numbers, the least one first.
Ascending(S) ==
    [k \in 1 .. Cardinality(S) |-> CHOOSE i \in S : Cardinality({j \in S : j <= i}) = k]

-----------------------------------------------------------------------------
(* Executing actions *)

\* _ensure_tunnel_dataplane()
ensure_tunnel_dataplane(tn, fail) ==
    IF tn.dp_added THEN tn
    ELSE [tn EXCEPT !.dp       = add_tunnel(@, fail),
                    !.dp_added = ~add_tunnel_fails(tn.dp, fail)]

\* SessDataplaneAdd: an error is logged and nothing else.
AddNetdev(cfg, tn, sid, fail) ==
    LET t      == ensure_tunnel_dataplane(tn, fail)
        params == dataplane_params(cfg.sessions[sid], tn.sess[sid])
    IN  [t EXCEPT !.dp = add_session(@, sid, params, fail)]

\* What a handler of session sid produced: the session's new state, then
\* its actions.
ExecuteSession(cfg, tn, sid, step, fail) ==
    LET t == Emit(cfg, [tn EXCEPT !.sess[sid] = step.sess], step.send)
    IN  CASE step.dp = "add" -> AddNetdev(cfg, t, sid, fail)
          [] step.dp = "del" -> [t EXCEPT !.dp = del_session(@, sid, fail)]
          [] OTHER           -> t

\* The Established action: every session is told, in configuration order.
\* Nothing but ICRQs comes of it.
SessionsUp(cfg, tn) ==
    LET step  == [sid \in DOMAIN tn.sess |->
                    on_tunnel_established(cfg.sessions[sid], tn.sess[sid])]
        Opens == {i \in DOMAIN cfg.order : step[cfg.order[i]].send # None}
        first == Ascending(Opens)
        icrqs == [k \in DOMAIN first |-> step[cfg.order[first[k]]].send]
    IN  EmitAll(cfg, [tn EXCEPT !.sess = [sid \in DOMAIN @ |-> step[sid].sess]], icrqs)

\* Mutant: the sessions are not told.
SessionsDown_tunnel_only(cfg, tn, fail) ==
    IF ~tn.dp_added THEN tn
    ELSE [tn EXCEPT !.dp = del_tunnel(@, fail), !.dp_added = FALSE]

\* Mutant: the kernel tunnel is deleted and still counts as added.
SessionsDown_flag_kept(cfg, tn, fail) ==
    LET step == [sid \in DOMAIN tn.sess |-> on_tunnel_down(tn.sess[sid])]
        gone == {sid \in DOMAIN tn.sess :
                    step[sid].dp = "del" /\ del_session_works(tn.dp, sid, fail)}
        t    == [tn EXCEPT !.sess = [sid \in DOMAIN @ |-> step[sid].sess],
                           !.dp   = forget_sessions(@, gone)]
    IN  IF ~t.dp_added THEN t ELSE [t EXCEPT !.dp = del_tunnel(@, fail)]

\* The TornDown action: every session is told, which withdraws its netdev if
\* it was up; then the kernel tunnel is deleted, and it counts as gone even
\* when that fails.
SessionsDown(cfg, tn, fail) ==
    LET step == [sid \in DOMAIN tn.sess |-> on_tunnel_down(tn.sess[sid])]
        gone == {sid \in DOMAIN tn.sess :
                    step[sid].dp = "del" /\ del_session_works(tn.dp, sid, fail)}
        t    == [tn EXCEPT !.sess = [sid \in DOMAIN @ |-> step[sid].sess],
                           !.dp   = forget_sessions(@, gone)]
    IN  IF ~t.dp_added THEN t
        ELSE [t EXCEPT !.dp = del_tunnel(@, fail), !.dp_added = FALSE]

\* What a handler of the TunnelFSM produced.
Execute(cfg, tn, step, fail) ==
    LET t == [Emit(cfg, tn, step.send) EXCEPT
                !.fsm   = step.state,
                !.hello = CASE step.hello = "set"   -> TRUE
                            [] step.hello = "clear" -> FALSE
                            [] OTHER                -> @]
    IN  CASE step.signal = "established" -> SessionsUp(cfg, t)
          [] step.signal = "torndown"    -> SessionsDown(cfg, t, fail)
          [] OTHER                       -> t

-----------------------------------------------------------------------------
(* Entry points *)

start(cfg, tn) == Execute(cfg, tn, on_local_open(tn.fsm, cfg.local_ccid), {})

close(cfg, tn, fail) ==
    [Execute(cfg, tn, on_local_close(tn.fsm, cfg.local_ccid), fail)
        EXCEPT !.hello = FALSE]

\* _on_hello_timer(): the handle is cleared, and set again by the FSM.
hello_timer(cfg, tn, fail) ==
    Execute(cfg, [tn EXCEPT !.hello = FALSE], on_hello_timer(tn.fsm), fail)

\* tick(): retransmissions go out in the order of the queue as the Peer encoded
\* them, unsigned.
tunnel_tick(cfg, tn, expired, fail) ==
    LET p     == tick(tn.peer, expired)
        again == Ascending(Resent(tn.peer, expired))
        t     == Put([tn EXCEPT !.peer = p],
                     [k \in DOMAIN again |-> Wire(resend(tn.peer, again[k]), None)])
    IN  IF p.dead THEN Execute(cfg, t, on_peer_dead(t.fsm), fail) ELSE t

\* The session an ICRQ that names none of ours is for: the first idle one
\* whose name is the Remote End ID, if there is one.
IdleSession(cfg, tn, end) ==
    LET Fits(sid) == tn.sess[sid].state = "IDLE" /\ end \in {None, cfg.sessions[sid].name}
        i == SelectInSeq(cfg.order, Fits)
    IN  IF i = 0 THEN 0 ELSE cfg.order[i]

\* The session a message is for, 0 if there is none.
Recipient(cfg, tn, m) ==
    IF m.rsid \in DOMAIN cfg.sessions      THEN m.rsid
    ELSE IF m.t = "ICRQ"                   THEN IdleSession(cfg, tn, m.end)
    ELSE IF m.lsid \in DOMAIN tn.by_remote THEN tn.by_remote[m.lsid]
    ELSE 0

\* A dictionary with one entry more.
Indexed(dict, key, val) == [k \in DOMAIN dict \cup {key} |-> IF k = key THEN val ELSE dict[k]]

\* Mutant: the index maps the session ID the wrong way round.
dispatch_session_message_swapped(cfg, tn, m, fail) ==
    LET sid  == Recipient(cfg, tn, m)
        step == on_session_message(cfg.sessions[sid], tn.sess[sid], m)
        t    == [tn EXCEPT !.by_remote = Indexed(@, sid, step.sess.peer_sid)]
    IN  IF ~m.ok \/ sid = 0 THEN tn ELSE ExecuteSession(cfg, t, sid, step, fail)

\* _dispatch_session_message(): the index by remote session ID keeps its
\* first entry for an ID.
dispatch_session_message(cfg, tn, m, fail) ==
    LET sid  == Recipient(cfg, tn, m)
        step == on_session_message(cfg.sessions[sid], tn.sess[sid], m)
        key  == step.sess.peer_sid
        t    == IF key \in DOMAIN tn.by_remote \cup {0} THEN tn
                ELSE [tn EXCEPT !.by_remote = Indexed(@, key, sid)]
    IN  IF ~m.ok \/ sid = 0 THEN tn ELSE ExecuteSession(cfg, t, sid, step, fail)

\* Any message with an Assigned Control Connection ID AVP tells the peer's
\* ID, as long as none is known.
LearnCcid(tn, msg) ==
    IF tn.peer.remote_ccid = 0 /\ msg.body # Zlb /\ msg.body.ccid # 0
    THEN [tn EXCEPT !.peer.remote_ccid = msg.body.ccid]
    ELSE tn

\* With a password, a datagram without a digest made with it is dropped.
Verified(cfg, wire) == cfg.password \in {None, wire.key}

\* handle_datagram(): what the Peer delivers is dispatched once, as a single
\* message, even when it stems from several.
handle_datagram(cfg, tn, wire, fail) ==
    LET t     == LearnCcid(tn, wire.msg)
        acks  == {Wire(r, None) : r \in responses(t.peer, wire.msg)}
        u     == Put([t EXCEPT !.peer = receive(@, wire.msg)], SetToSeq(acks))
        batch == delivered(t.peer, wire.msg)
        m     == Merged(batch)
    IN  IF ~Verified(cfg, wire)       THEN tn
        ELSE IF batch = <<>>          THEN u
        ELSE IF m.t \in SessionTypes  THEN dispatch_session_message(cfg, u, m, fail)
        ELSE Execute(cfg, u, on_tunnel_message(u.fsm, m, cfg.local_ccid), fail)

\* get_message_type() is called outside of handle_datagram's try block: for a
\* Message Type AVP of the wrong length the call ends there with a ValueError,
\* after the Peer has taken the message and acknowledged it.
handle_datagram_raises(tn, msg) ==
    delivered(tn.peer, msg) # <<>> /\ Merged(delivered(tn.peer, msg)).t = WrongLength

\* SessionFSM.on_local_close and its actions.  No code of the daemon calls
\* it yet; the integration tests do.
session_close(cfg, tn, sid, fail) ==
    ExecuteSession(cfg, tn, sid,
        on_session_close(cfg.sessions[sid], tn.sess[sid]), fail)
=============================================================================
