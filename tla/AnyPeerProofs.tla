---------------------------- MODULE AnyPeerProofs ----------------------------
(***************************************************************************)
(* A tunnel against an arbitrary peer, with ip commands that may fail: the *)
(* invariants of AnyPeer for every configuration, every set of messages    *)
(* the peer may send, every set of commands that may fail, and without the *)
(* bounds (they are constants, and no step of the proofs looks at them).   *)
(***************************************************************************)
EXTENDS AnyPeer, TunnelProofs

-----------------------------------------------------------------------------
(* What a call makes of the sessions *)

InHandshake(s) == s.state \in {"WAIT_SESSION_CONNECT", "ESTABLISHED"}

\* A session keeps what it has learned, and enters no state in which that
\* matters.
SessKept(s, s2) ==
    /\ s2.peer_sid = s.peer_sid /\ s2.peer_cookie = s.peer_cookie
    /\ s2.state = s.state \/ ~InHandshake(s2)

\* A session has learned from an ICRQ or ICRP.
SessLearns(s, s2, m) ==
    /\ \/ m.t = "ICRQ" /\ s2.state = "WAIT_SESSION_CONNECT"
       \/ m.t = "ICRP" /\ s2.state = "ESTABLISHED"
    /\ s2.state # s.state
    /\ s2.peer_sid = m.lsid
    /\ s2.peer_cookie = IF m.cookie = None THEN s.peer_cookie ELSE m.cookie

\* An ICCN ends the handshake that an ICRQ began.
SessConnects(s, s2, m) ==
    /\ m.t = "ICCN" /\ s.state = "WAIT_SESSION_CONNECT" /\ s2.state = "ESTABLISHED"
    /\ s2.peer_sid = s.peer_sid /\ s2.peer_cookie = s.peer_cookie

SessMoves(s, s2, m) == SessKept(s, s2) \/ SessLearns(s, s2, m) \/ SessConnects(s, s2, m)

AllKept(cfg, t, u) == \A sid \in DOMAIN cfg.sessions : SessKept(t.sess[sid], u.sess[sid])

AllMove(cfg, t, u, m) == \A sid \in DOMAIN cfg.sessions : SessMoves(t.sess[sid], u.sess[sid], m)

\* The handlers of the SessionFSM
LEMMA MessageMoves ==
  ASSUME NEW c, NEW sess, SessionOK(sess), NEW m, m.t \in SessionTypes
  PROVE  SessMoves(sess, on_session_message(c, sess, m).sess, m)
<1> USE DEF SessStep, SessNothing, SessMoves, SessKept, InHandshake, SessionOK, SessionFields
<1>1. SessMoves(sess, SessNothing(sess).sess, m) /\ SessMoves(sess, teardown_cdn(c, sess).sess, m)
  BY DEF teardown_cdn
<1>2. CASE m.t = "ICRQ"
  <2>1. sess.state = "IDLE" =>
          SessLearns(sess, [Learn(sess, m) EXCEPT !.state = "WAIT_SESSION_CONNECT"], m)
    BY <1>2 DEF Learn, SessLearns
  <2>2. on_session_message(c, sess, m) = on_icrq(c, sess, m)
    BY <1>2 DEF on_session_message
  <2> QED BY <1>1, <2>1, <2>2 DEF on_icrq
<1>3. CASE m.t = "ICRP"
  <2>1. sess.state = "WAIT_SESSION_REPLY" =>
          SessLearns(sess, [Learn(sess, m) EXCEPT !.state = "ESTABLISHED"], m)
    BY <1>3 DEF Learn, SessLearns
  <2>2. on_session_message(c, sess, m) = on_icrp(c, sess, m)
    BY <1>3 DEF on_session_message
  <2> QED BY <1>1, <2>1, <2>2 DEF on_icrp
<1>4. CASE m.t = "ICCN"
  <2>1. sess.state = "WAIT_SESSION_CONNECT" =>
          SessConnects(sess, [sess EXCEPT !.state = "ESTABLISHED"], m)
    BY <1>4 DEF SessConnects
  <2>2. on_session_message(c, sess, m) = on_iccn(c, sess, m)
    BY <1>4 DEF on_session_message
  <2> QED BY <1>1, <2>1, <2>2 DEF on_iccn
<1>5. CASE m.t = "CDN"
  <2>1. on_session_message(c, sess, m) = SessionDown(sess)
    BY <1>5 DEF on_session_message, on_cdn
  <2> QED BY <2>1 DEF SessionDown
<1> QED BY <1>2, <1>3, <1>4, <1>5 DEF SessionTypes

\* The Established and TornDown actions
LEMMA SignalsKeep ==
  ASSUME NEW cfg, ConfigOK(cfg), NEW t, TunnelOK(cfg, t), NEW fail
  PROVE  AllKept(cfg, t, SessionsUp(cfg, t)) /\ AllKept(cfg, t, SessionsDown(cfg, t, fail))
<1> USE DEF SessStep, SessNothing, SessKept, InHandshake, SessionOK, SessionFields
<1>1. AllKept(cfg, t, SessionsUp(cfg, t))
  <2> DEFINE step  == [sid \in DOMAIN t.sess |->
                         on_tunnel_established(cfg.sessions[sid], t.sess[sid])]
             Opens == {i \in DOMAIN cfg.order : step[cfg.order[i]].send # None}
             first == Ascending(Opens)
             icrqs == [k \in DOMAIN first |-> step[cfg.order[first[k]]].send]
             f     == [sid \in DOMAIN t.sess |-> step[sid].sess]
             v     == [t EXCEPT !.sess = f]
             p     == send_all(v.peer, icrqs)
             wires == [k \in DOMAIN icrqs |-> Wire(stamped_at(v.peer, icrqs, k), cfg.password)]
  <2>1. SessionsUp(cfg, t) = Put([v EXCEPT !.peer = p], wires)
    BY DEF SessionsUp, EmitAll
  <2>2. \A sid \in DOMAIN cfg.sessions : SessKept(t.sess[sid], f[sid])
    BY DEF TunnelOK, on_tunnel_established
  <2> HIDE DEF f, icrqs
  <2>3. DOMAIN v = TunnelFields /\ v.sess = f
    BY DEF TunnelOK, TunnelFields
  <2> HIDE DEF v, p, wires
  <2>4. SessionsUp(cfg, t).sess = f
    BY <2>1, <2>3 DEF Put, TunnelFields
  <2> QED BY <2>2, <2>4 DEF AllKept
<1>2. AllKept(cfg, t, SessionsDown(cfg, t, fail))
  <2> DEFINE step == [sid \in DOMAIN t.sess |-> on_tunnel_down(t.sess[sid])]
             gone == {sid \in DOMAIN t.sess :
                         step[sid].dp = "del" /\ del_session_works(t.dp, sid, fail)}
             f    == [sid \in DOMAIN t.sess |-> step[sid].sess]
             d    == forget_sessions(t.dp, gone)
             v    == [t EXCEPT !.sess = f, !.dp = d]
             u    == SessionsDown(cfg, t, fail)
  <2>1. u = IF ~v.dp_added THEN v
            ELSE [v EXCEPT !.dp = del_tunnel(@, fail), !.dp_added = FALSE]
    BY DEF SessionsDown
  <2>2. \A sid \in DOMAIN cfg.sessions : SessKept(t.sess[sid], f[sid])
    BY DEF TunnelOK, on_tunnel_down, SessionDown
  <2> HIDE DEF f, d, u
  <2>3. DOMAIN v = TunnelFields /\ v.sess = f
    BY DEF TunnelOK, TunnelFields
  <2> HIDE DEF v
  <2>4. u.sess = f
    BY <2>1, <2>3 DEF TunnelFields
  <2> QED BY <2>2, <2>4 DEF AllKept, u
<1> QED BY <1>1, <1>2

\* A handler of the TunnelFSM and its actions
LEMMA ExecuteKeeps ==
  ASSUME NEW cfg, ConfigOK(cfg), NEW t, TunnelOK(cfg, t), NEW fail,
         NEW step, FsmStepOK(t.hello, step),
         NEW u, u = Execute(cfg, t, step, fail)
  PROVE  AllKept(cfg, t, u)
<1> DEFINE w == Emit(cfg, t, step.send)
           h == Armed(w.hello, step)
           v == [w EXCEPT !.fsm = step.state, !.hello = h]
<1>1. TunnelOK(cfg, w) /\ SentOnly(t, w)
  BY EmitOK
<1>2. u = CASE step.signal = "established" -> SessionsUp(cfg, v)
            [] step.signal = "torndown"    -> SessionsDown(cfg, v, fail)
            [] OTHER                       -> v
  BY DEF Execute, Armed
<1> HIDE DEF w
<1>3. step.state \in TunnelStates /\ h \in BOOLEAN
  BY <1>1 DEF SentOnly, FsmStepOK
<1> HIDE DEF h
<1>4. /\ DOMAIN v = TunnelFields /\ v.dp = w.dp /\ v.dp_added = w.dp_added /\ v.peer = w.peer
      /\ v.fsm = step.state /\ v.hello = h /\ v.by_remote = w.by_remote /\ v.sess = w.sess
  BY <1>1 DEF TunnelOK, TunnelFields
<1> HIDE DEF v
<1>5. TunnelOK(cfg, v)
  BY <1>1, <1>3, <1>4 DEF TunnelOK
<1>6. v.sess = t.sess
  BY <1>1, <1>4 DEF SentOnly
<1>7. AllKept(cfg, v, u)
  <2>1. CASE step.signal = "established"
    BY <1>2, <1>5, <2>1, SignalsKeep
  <2>2. CASE step.signal = "torndown"
    BY <1>2, <1>5, <2>2, SignalsKeep
  <2>3. CASE step.signal \notin {"established", "torndown"}
    BY <1>2, <2>3 DEF AllKept, SessKept
  <2> QED BY <2>1, <2>2, <2>3
<1> QED BY <1>6, <1>7 DEF AllKept

\* A handler of session sid and its actions: the session is as the handler
\* left it, the others stay.
LEMMA ExecuteSessionSess ==
  ASSUME NEW cfg, NEW t, TunnelOK(cfg, t), NEW sid \in DOMAIN cfg.sessions, NEW fail,
         NEW step, SessionOK(step.sess),
         NEW u, u = ExecuteSession(cfg, t, sid, step, fail)
  PROVE  u.sess[sid] = step.sess /\ \A o \in DOMAIN cfg.sessions \ {sid} : u.sess[o] = t.sess[o]
<1> DEFINE v == [t EXCEPT !.sess[sid] = step.sess]
           w == Emit(cfg, v, step.send)
<1>1. /\ DOMAIN v = TunnelFields /\ v.peer = t.peer /\ v.fsm = t.fsm /\ v.hello = t.hello
      /\ v.by_remote = t.by_remote /\ v.dp_added = t.dp_added /\ v.dp = t.dp
      /\ DOMAIN v.sess = DOMAIN cfg.sessions /\ v.sess[sid] = step.sess
      /\ \A o \in DOMAIN cfg.sessions \ {sid} : v.sess[o] = t.sess[o]
  BY DEF TunnelOK, TunnelFields
<1>2. u = CASE step.dp = "add" -> AddNetdev(cfg, w, sid, fail)
            [] step.dp = "del" -> [w EXCEPT !.dp = del_session(@, sid, fail)]
            [] OTHER           -> w
  BY DEF ExecuteSession
<1> HIDE DEF v
<1>3. TunnelOK(cfg, v)
  <2>1. \A o \in DOMAIN cfg.sessions : SessionOK(v.sess[o])
    BY <1>1 DEF TunnelOK
  <2> QED BY <1>1, <2>1, ReplaceOK DEF TunnelOK
<1>4. TunnelOK(cfg, w) /\ w.sess = v.sess
  BY <1>3, EmitOK DEF SentOnly
<1> HIDE DEF w
<1>5. u.sess = w.sess
  <2>1. CASE step.dp = "add"
    <3> DEFINE x == ensure_tunnel_dataplane(w, fail)
               params == dataplane_params(cfg.sessions[sid], w.sess[sid])
    <3>1. x.sess = w.sess /\ DOMAIN x = TunnelFields
      BY <1>4 DEF ensure_tunnel_dataplane, TunnelOK, TunnelFields
    <3>2. u = [x EXCEPT !.dp = add_session(@, sid, params, fail)]
      BY <1>2, <2>1 DEF AddNetdev
    <3> HIDE DEF x, params
    <3> QED BY <3>1, <3>2 DEF TunnelFields
  <2>2. CASE step.dp = "del"
    <3>1. u = [w EXCEPT !.dp = del_session(@, sid, fail)]
      BY <1>2, <2>2
    <3> QED BY <1>4, <3>1 DEF TunnelOK, TunnelFields
  <2>3. CASE step.dp \notin {"add", "del"}
    BY <1>2, <2>3
  <2> QED BY <2>1, <2>2, <2>3
<1> QED BY <1>1, <1>4, <1>5

\* _dispatch_session_message()
LEMMA DispatchSess ==
  ASSUME NEW cfg, ConfigOK(cfg), NEW t, TunnelOK(cfg, t), NEW fail,
         NEW m, m.t \in SessionTypes,
         NEW u, u = dispatch_session_message(cfg, t, m, fail)
  PROVE  AllMove(cfg, t, u, m)
<1> DEFINE sid  == Recipient(cfg, t, m)
           step == on_session_message(cfg.sessions[sid], t.sess[sid], m)
           key  == step.sess.peer_sid
           dict == Indexed(t.by_remote, key, sid)
           x    == [t EXCEPT !.by_remote = dict]
           v    == IF key \in DOMAIN t.by_remote \cup {0} THEN t ELSE x
<1>1. u = IF ~m.ok \/ sid = 0 THEN t ELSE ExecuteSession(cfg, v, sid, step, fail)
  BY DEF dispatch_session_message
<1>2. sid \in DOMAIN cfg.sessions \cup {0}
  BY RecipientType
<1> HIDE DEF sid
<1>3. CASE ~m.ok \/ sid = 0
  BY <1>1, <1>3 DEF AllMove, SessMoves, SessKept
<1>4. CASE m.ok /\ sid # 0
  <2>1. sid \in DOMAIN cfg.sessions
    BY <1>2, <1>4
  <2>2. SessionOK(step.sess) /\ SessMoves(t.sess[sid], step.sess, m)
    BY <2>1, MessageStep, MessageMoves DEF TunnelOK, StepOK
  <2> HIDE DEF step
  <2>3. \A k \in DOMAIN dict : dict[k] \in DOMAIN cfg.sessions
    BY <2>1 DEF Indexed, TunnelOK
  <2> HIDE DEF key, dict
  <2>4. /\ DOMAIN x = TunnelFields /\ x.dp = t.dp /\ x.dp_added = t.dp_added /\ x.peer = t.peer
        /\ x.fsm = t.fsm /\ x.hello = t.hello /\ x.by_remote = dict /\ x.sess = t.sess
    BY DEF TunnelOK, TunnelFields
  <2> HIDE DEF x
  <2>5. TunnelOK(cfg, x)
    BY <2>3, <2>4 DEF TunnelOK
  <2>6. TunnelOK(cfg, v) /\ v.sess = t.sess
    BY <2>4, <2>5
  <2> HIDE DEF v
  <2>7. u = ExecuteSession(cfg, v, sid, step, fail)
    BY <1>1, <1>4
  <2>8. u.sess[sid] = step.sess
        /\ \A o \in DOMAIN cfg.sessions \ {sid} : u.sess[o] = v.sess[o]
    BY <2>1, <2>2, <2>6, <2>7, ExecuteSessionSess
  <2> QED BY <2>2, <2>6, <2>8 DEF AllMove, SessMoves, SessKept
<1> QED BY <1>3, <1>4

\* What the Peer delivers does not depend on the other end's ID.
LEMMA LearnDelivers ==
  ASSUME NEW cfg, NEW t, TunnelOK(cfg, t), NEW msg
  PROVE  delivered(LearnCcid(t, msg).peer, msg) = delivered(t.peer, msg)
<1> DEFINE ccid == msg.body.ccid
           p == t.peer
           x == [t EXCEPT !.peer.remote_ccid = ccid]
           q == x.peer
<1>1. LearnCcid(t, msg) = t \/ LearnCcid(t, msg) = x
  BY DEF LearnCcid
<1> HIDE DEF ccid
<1>2. q = [p EXCEPT !.remote_ccid = ccid]
  BY DEF TunnelOK, TunnelFields
<1> HIDE DEF q, x
<1>3. q.local_ccid = p.local_ccid /\ q.nr_expect = p.nr_expect /\ q.reorder = p.reorder
  BY <1>2 DEF TunnelOK, PeerOK, PeerFields
<1>4. RunLength(q) = RunLength(p)
  BY <1>3 DEF RunLength
<1>5. Run(q, msg.body) = Run(p, msg.body)
  BY <1>3, <1>4 DEF Run
<1>6. delivered(q, msg) = delivered(p, msg)
  BY <1>3, <1>5 DEF delivered, Addressed, InOrder
<1> QED BY <1>1, <1>6 DEF q

\* handle_datagram()
LEMMA HandleDatagramSess ==
  ASSUME NEW cfg, ConfigOK(cfg), NEW t, TunnelOK(cfg, t), HelloOK(t), NEW wire, NEW fail,
         NEW u, u = handle_datagram(cfg, t, wire, fail)
  PROVE  AllMove(cfg, t, u, Merged(delivered(t.peer, wire.msg)))
<1> DEFINE msg   == wire.msg
           v     == LearnCcid(t, msg)
           acks  == SetToSeq({Wire(r, None) : r \in responses(v.peer, msg)})
           p     == receive(v.peer, msg)
           w     == Put([v EXCEPT !.peer = p], acks)
           batch == delivered(v.peer, msg)
           m     == Merged(batch)
           step  == on_tunnel_message(w.fsm, m, cfg.local_ccid)
<1>1. u = IF ~Verified(cfg, wire)       THEN t
          ELSE IF batch = <<>>          THEN w
          ELSE IF m.t \in SessionTypes  THEN dispatch_session_message(cfg, w, m, fail)
          ELSE Execute(cfg, w, step, fail)
  BY DEF handle_datagram
<1>2. TunnelOK(cfg, v) /\ SentOnly(t, v)
  BY LearnMoves
<1>3. batch = delivered(t.peer, msg)
  BY LearnDelivers
<1> HIDE DEF v
<1>4. PeerOK(p) /\ p.dead = v.peer.dead
  BY <1>2, ReceiveOK DEF TunnelOK
<1> HIDE DEF p, acks
<1>5. TunnelOK(cfg, w) /\ SentOnly(v, w)
  BY <1>2, <1>4, PutOK
<1> HIDE DEF w, batch, m
<1>6. w.sess = t.sess /\ HelloOK(w)
  BY <1>2, <1>5 DEF SentOnly, HelloOK
<1>7. FsmStepOK(w.hello, step)
  BY <1>5, <1>6, FsmSteps DEF TunnelOK, HelloOK
<1> HIDE DEF step
<1>8. AllMove(cfg, t, u, m)
  <2>1. CASE u.sess = t.sess
    BY <2>1 DEF AllMove, SessMoves, SessKept
  <2>2. CASE m.t \in SessionTypes /\ u = dispatch_session_message(cfg, w, m, fail)
    <3>1. AllMove(cfg, w, u, m)
      BY <1>5, <2>2, DispatchSess
    <3> QED BY <1>6, <3>1 DEF AllMove
  <2>3. CASE u = Execute(cfg, w, step, fail)
    <3>1. AllKept(cfg, w, u)
      BY <1>5, <1>7, <2>3, ExecuteKeeps
    <3> QED BY <1>6, <3>1 DEF AllMove, AllKept, SessMoves
  <2> QED BY <1>1, <1>6, <2>1, <2>2, <2>3
<1> QED BY <1>3, <1>8 DEF m

\* start(), close(), tick() and the HELLO callback
LEMMA CallsKeep ==
  ASSUME NEW cfg, ConfigOK(cfg), NEW t, TunnelOK(cfg, t), HelloOK(t), NEW fail, NEW expired
  PROVE  /\ AllKept(cfg, t, start(cfg, t))
         /\ AllKept(cfg, t, close(cfg, t, fail))
         /\ AllKept(cfg, t, hello_timer(cfg, t, fail))
         /\ AllKept(cfg, t, tunnel_tick(cfg, t, expired, fail))
<1>1. AllKept(cfg, t, start(cfg, t))
  <2> DEFINE step == on_local_open(t.fsm, cfg.local_ccid)
  <2>1. FsmStepOK(t.hello, step)
    BY FsmSteps DEF TunnelOK, HelloOK
  <2>2. start(cfg, t) = Execute(cfg, t, step, {})
    BY DEF start
  <2> HIDE DEF step
  <2> QED BY <2>1, <2>2, ExecuteKeeps
<1>2. AllKept(cfg, t, close(cfg, t, fail))
  <2> DEFINE step == on_local_close(t.fsm, cfg.local_ccid)
             v == Execute(cfg, t, step, fail)
  <2>1. FsmStepOK(t.hello, step)
    BY FsmSteps DEF TunnelOK, HelloOK
  <2>2. close(cfg, t, fail) = [v EXCEPT !.hello = FALSE]
    BY DEF close
  <2> HIDE DEF step
  <2>3. TunnelOK(cfg, v) /\ AllKept(cfg, t, v)
    BY <2>1, ExecuteOK, ExecuteKeeps DEF CallOK
  <2> HIDE DEF v
  <2>4. close(cfg, t, fail).sess = v.sess
    BY <2>2, <2>3 DEF TunnelOK, TunnelFields
  <2> QED BY <2>3, <2>4 DEF AllKept
<1>3. AllKept(cfg, t, hello_timer(cfg, t, fail))
  <2> DEFINE step == on_hello_timer(t.fsm)
             v == [t EXCEPT !.hello = FALSE]
  <2>1. FsmStepOK(FALSE, step)
    BY FsmSteps DEF TunnelOK
  <2>2. hello_timer(cfg, t, fail) = Execute(cfg, v, step, fail)
    BY DEF hello_timer
  <2> HIDE DEF step
  <2>3. /\ DOMAIN v = TunnelFields /\ v.dp = t.dp /\ v.dp_added = t.dp_added /\ v.peer = t.peer
        /\ v.fsm = t.fsm /\ v.hello = FALSE /\ v.by_remote = t.by_remote /\ v.sess = t.sess
    BY DEF TunnelOK, TunnelFields
  <2> HIDE DEF v
  <2>4. TunnelOK(cfg, v) /\ FsmStepOK(v.hello, step)
    BY <2>1, <2>3 DEF TunnelOK
  <2>5. AllKept(cfg, v, hello_timer(cfg, t, fail))
    BY <2>2, <2>4, ExecuteKeeps
  <2> QED BY <2>3, <2>5 DEF AllKept
<1>4. AllKept(cfg, t, tunnel_tick(cfg, t, expired, fail))
  <2> DEFINE p == tick(t.peer, expired)
             again == Ascending(Resent(t.peer, expired))
             sent == [k \in DOMAIN again |-> Wire(resend(t.peer, again[k]), None)]
             v == Put([t EXCEPT !.peer = p], sent)
             step == on_peer_dead(v.fsm)
             u == tunnel_tick(cfg, t, expired, fail)
  <2>1. u = IF p.dead THEN Execute(cfg, v, step, fail) ELSE v
    BY DEF tunnel_tick
  <2>2. PeerOK(p)
    BY TickOK DEF TunnelOK
  <2> HIDE DEF p, sent, u
  <2>3. TunnelOK(cfg, v)
    BY <2>2, PutOK
  <2>4. v.fsm = t.fsm /\ v.hello = t.hello /\ v.sess = t.sess
    BY DEF Put, TunnelOK, TunnelFields
  <2> HIDE DEF v
  <2>5. FsmStepOK(v.hello, step)
    BY <2>3, <2>4, FsmSteps DEF TunnelOK, HelloOK
  <2> HIDE DEF step
  <2>6. AllKept(cfg, v, u)
    <3>1. CASE p.dead
      BY <2>1, <2>3, <2>5, <3>1, ExecuteKeeps
    <3>2. CASE ~p.dead
      BY <2>1, <3>2 DEF AllKept, SessKept
    <3> QED BY <3>1, <3>2
  <2> QED BY <2>4, <2>6 DEF AllKept, u
<1> QED BY <1>1, <1>2, <1>3, <1>4

-----------------------------------------------------------------------------
(* The invariant *)

\* What a session has learned came from its handshakes; while it is in one,
\* from that one, except that the cookie may be older if that one had none.
OfferOK(s, o) ==
    /\ s.peer_cookie \in {None, o.cookie} \cup o.earlier
    /\ InHandshake(s) => /\ s.peer_sid = o.sid
                         /\ o.cookie # None => s.peer_cookie = o.cookie

AllOffers(t, off) ==
    /\ DOMAIN off = DOMAIN Cfg.sessions
    /\ \A sid \in DOMAIN Cfg.sessions : OfferOK(t.sess[sid], off[sid])

\* The inductive invariant.  NetdevOfHandshake, NetdevOutlives and
\* NetdevMissing do not imply each other's preservation: that a session which
\* comes up finds no netdev of its former life depends on the records of the
\* dataplane, which KernelOK ties to the kernel; that its parameters are those
\* of the handshake depends on what the session has learned (AllOffers).
Inv ==
    /\ TunnelOK(Cfg, tn)
    /\ HelloOK(tn)
    /\ KernelOK(Cfg, tn.sess, tn.dp, tn.dp_added, failed)
    /\ AllOffers(tn, offer)
    /\ tn.peer.dead <=> status = "removed"

\* The configuration is as the loader promises.
LEMMA CfgOK == ConfigOK(Cfg)
  BY AnyPeerAssumption DEF ConfigOK

\* A session that has moved on a message agrees with the offers, once they are
\* brought up to date.
LEMMA OfferMoves ==
  ASSUME NEW s, NEW s2, NEW m, NEW o, OfferOK(s, o), SessMoves(s, s2, m)
  PROVE  OfferOK(s2, IF Accepts(s, s2, m) THEN Offered(o, m) ELSE o)
<1>1. CASE SessKept(s, s2)
  <2>1. ~Accepts(s, s2, m)
    BY <1>1 DEF SessKept, InHandshake, Accepts
  <2>2. OfferOK(s2, o)
    BY <1>1 DEF SessKept, InHandshake, OfferOK
  <2> QED BY <2>1, <2>2
<1>2. CASE SessLearns(s, s2, m)
  <2>1. Accepts(s, s2, m)
    BY <1>2 DEF SessLearns, Accepts
  <2> DEFINE n == Offered(o, m)
  <2>2. /\ n.sid = m.lsid /\ n.cookie = m.cookie
        /\ \A c : c \in n.earlier <=> c \in o.earlier \/ (c = o.cookie /\ c # None)
    BY DEF Offered
  <2> HIDE DEF n
  <2>3. OfferOK(s2, n)
    BY <1>2, <2>2 DEF SessLearns, OfferOK
  <2> QED BY <2>1, <2>3 DEF n
<1>3. CASE SessConnects(s, s2, m)
  <2>1. ~Accepts(s, s2, m)
    BY <1>3 DEF SessConnects, Accepts
  <2>2. OfferOK(s2, o)
    BY <1>3 DEF SessConnects, InHandshake, OfferOK
  <2> QED BY <2>1, <2>2
<1> QED BY <1>1, <1>2, <1>3 DEF SessMoves

\* A call that teaches the sessions nothing needs no new offers.
LEMMA OffersKept ==
  ASSUME NEW t, NEW u, NEW off, AllOffers(t, off), AllKept(Cfg, t, u)
  PROVE  AllOffers(u, off)
  BY DEF AllOffers, AllKept, SessKept, InHandshake, OfferOK

\* The invariant holds when the daemon has started its tunnel.
LEMMA InitInv == Init => Inv
<1> SUFFICES ASSUME Init PROVE Inv
  OBVIOUS
<1> DEFINE dp == NewDataplane(DOMAIN Cfg.sessions)
           t == NewTunnel(Cfg, dp)
           u == start(Cfg, t)
           off == [sid \in DOMAIN Cfg.sessions |->
                      [sid |-> 0, cookie |-> None, earlier |-> {}]]
<1>1. tn = [u EXCEPT !.out = <<>>] /\ status = "up" /\ failed = {} /\ offer = off
  BY DEF Init
<1>2. DpOK(DOMAIN Cfg.sessions, dp)
  <2>1. PICK sess : sess = [sid \in DOMAIN Cfg.sessions |-> NewSession]
    OBVIOUS
  <2>2. \A sid \in DOMAIN Cfg.sessions : ~Up(sess[sid])
    BY <2>1 DEF Up, NewSession
  <2> QED BY <2>2, NewDataplaneOK
<1>3. /\ TunnelOK(Cfg, t) /\ HelloOK(t) /\ ~t.peer.dead
      /\ t.dp = dp /\ t.dp_added = FALSE
      /\ \A sid \in DOMAIN Cfg.sessions : ~Up(t.sess[sid])
  <2> HIDE DEF dp
  <2> QED BY <1>2, NewTunnelOK
<1>4. KernelOK(Cfg, t.sess, t.dp, t.dp_added, {})
  BY <1>3, NewDataplaneOK
<1>5. AllOffers(t, off)
  <2>1. \A sid \in DOMAIN Cfg.sessions : t.sess[sid] = NewSession
    <3> HIDE DEF dp
    <3> QED BY DEF NewTunnel
  <2> HIDE DEF t
  <2> QED BY <2>1 DEF AllOffers, OfferOK, InHandshake, NewSession
<1> HIDE DEF t, off
<1>6. /\ CallOK(Cfg, t, u, {}) /\ u.peer.dead = t.peer.dead
      /\ AllKept(Cfg, t, u)
  BY <1>3, CfgOK, StartOK, CallsKeep
<1> HIDE DEF u
<1>7. CallOK(Cfg, t, tn, {}) /\ tn.peer = u.peer
  BY <1>1, <1>6, OutTaken
<1>8. KernelOK(Cfg, tn.sess, tn.dp, tn.dp_added, {} \cup {})
  BY <1>4, <1>7 DEF CallOK, KernelStep
<1>9. {} \cup {} = {}
  OBVIOUS
<1>10. KernelOK(Cfg, tn.sess, tn.dp, tn.dp_added, failed)
  BY <1>1, <1>8, <1>9
<1>11. tn.sess = u.sess
  BY <1>1, <1>6, OutSet DEF CallOK
<1>12. AllOffers(tn, offer)
  <2>1. AllOffers(u, off)
    BY <1>5, <1>6, OffersKept
  <2> QED BY <1>1, <1>11, <2>1 DEF AllOffers
<1> QED BY <1>1, <1>3, <1>6, <1>7, <1>10, <1>12 DEF CallOK, Inv

\* A callback that keeps the tunnel in order, whichever commands fail, keeps
\* the invariant up to the status and the offers.
LEMMA CommitInv ==
  ASSUME Inv, NEW after, Commit(after),
         \A fail \in Failures : CallOK(Cfg, tn, after[fail], fail)
  PROVE  /\ TunnelOK(Cfg, tn') /\ HelloOK(tn')
         /\ KernelOK(Cfg, tn'.sess, tn'.dp, tn'.dp_added, failed')
         /\ \E fail \in Failures :
                tn'.peer = after[fail].peer /\ tn'.sess = after[fail].sess
<1>1. PICK fail \in Failures : /\ tn' = [after[fail] EXCEPT !.out = <<>>]
                               /\ failed' = failed \cup fail
  BY DEF Commit
<1>2. CallOK(Cfg, tn, after[fail], fail)
  OBVIOUS
<1>3. CallOK(Cfg, tn, tn', fail) /\ tn'.peer = after[fail].peer
  BY <1>1, <1>2, OutTaken
<1>4. tn'.sess = after[fail].sess
  BY <1>1, <1>2, OutSet DEF CallOK
<1>5. KernelOK(Cfg, tn'.sess, tn'.dp, tn'.dp_added, failed')
  BY <1>1, <1>3 DEF CallOK, KernelStep, Inv
<1> QED BY <1>3, <1>4, <1>5 DEF CallOK

\* The whole callback of a datagram: handle_datagram(), and close() if it
\* raised.
LEMMA CallbackOK ==
  ASSUME Inv, NEW msg, NEW fail,
         NEW t, t = handle_datagram(Cfg, tn, Wire(msg, None), fail),
         NEW u, u = IF handle_datagram_raises(tn, msg) THEN close(Cfg, t, fail) ELSE t
  PROVE  /\ CallOK(Cfg, tn, u, fail) /\ u.peer.dead = tn.peer.dead
         /\ AllMove(Cfg, tn, u, Merged(delivered(tn.peer, msg)))
<1> USE CfgOK
<1> DEFINE wire == Wire(msg, None)
           m    == Merged(delivered(tn.peer, msg))
<1>1. TunnelOK(Cfg, tn) /\ HelloOK(tn)
  BY DEF Inv
<1>2. wire.msg = msg /\ t = handle_datagram(Cfg, tn, wire, fail)
  BY DEF Wire
<1> HIDE DEF wire
<1>3. CallOK(Cfg, tn, t, fail) /\ t.peer.dead = tn.peer.dead
  BY <1>1, <1>2, HandleDatagramOK
<1>4. AllMove(Cfg, tn, t, m)
  BY <1>1, <1>2, HandleDatagramSess
<1>5. CASE ~handle_datagram_raises(tn, msg)
  BY <1>3, <1>4, <1>5
<1>6. CASE handle_datagram_raises(tn, msg)
  <2>1. u = close(Cfg, t, fail) /\ TunnelOK(Cfg, t) /\ HelloOK(t)
    BY <1>3, <1>6 DEF CallOK
  <2>2. CallOK(Cfg, t, u, fail) /\ u.peer.dead = t.peer.dead /\ AllKept(Cfg, t, u)
    BY <2>1, CloseOK, CallsKeep
  <2>3. KernelStep(Cfg, tn, u, fail)
    <3> SUFFICES ASSUME NEW before, KernelOK(Cfg, tn.sess, tn.dp, tn.dp_added, before)
                 PROVE  KernelOK(Cfg, u.sess, u.dp, u.dp_added, before \cup fail)
      BY DEF KernelStep
    <3>1. KernelOK(Cfg, t.sess, t.dp, t.dp_added, before \cup fail)
      BY <1>3 DEF CallOK, KernelStep
    <3>2. KernelOK(Cfg, u.sess, u.dp, u.dp_added, (before \cup fail) \cup fail)
      BY <2>2, <3>1 DEF CallOK, KernelStep
    <3>3. (before \cup fail) \cup fail = before \cup fail
      OBVIOUS
    <3> QED BY <3>2, <3>3
  <2>4. m.t = WrongLength
    BY <1>6 DEF handle_datagram_raises
  <2> HIDE DEF m
  <2>5. AllKept(Cfg, tn, t)
    BY <1>4, <2>4 DEF AllMove, AllKept, SessMoves, SessLearns, SessConnects, WrongLength
  <2>6. AllMove(Cfg, tn, u, m)
    BY <2>2, <2>5 DEF AllMove, AllKept, SessMoves, SessKept, InHandshake
  <2> QED BY <1>3, <2>2, <2>3, <2>6 DEF CallOK, m
<1> QED BY <1>5, <1>6

\* A callback other than that of a datagram keeps the offers.
LEMMA CommitOffers ==
  ASSUME Inv, NEW after, Commit(after), offer' = offer,
         \A fail \in Failures : CallOK(Cfg, tn, after[fail], fail) /\ AllKept(Cfg, tn, after[fail])
  PROVE  AllOffers(tn, offer)'
<1>1. PICK fail \in Failures : tn'.sess = after[fail].sess
  BY CommitInv
<1>2. AllKept(Cfg, tn, tn')
  BY <1>1 DEF AllKept
<1>3. AllOffers(tn', offer)
  BY <1>2, OffersKept DEF Inv
<1> QED BY <1>3 DEF AllOffers

\* Every step keeps the invariant.
LEMMA NextInv == Inv /\ [Next]_vars => Inv'
<1> SUFFICES ASSUME Inv, [Next]_vars PROVE Inv'
  OBVIOUS
<1> USE CfgOK
<1>1. TunnelOK(Cfg, tn) /\ HelloOK(tn)
  BY DEF Inv
<1>2. CASE Receive
  <2>1. PICK msg \in Datagrams :
          LET ends  == handle_datagram_raises(tn, msg)
              m     == Merged(delivered(tn.peer, msg))
              after == [fail \in Failures |->
                          LET t == handle_datagram(Cfg, tn, Wire(msg, None), fail)
                          IN  IF ends THEN close(Cfg, t, fail) ELSE t]
          IN  /\ status = "up" /\ Commit(after)
              /\ offer' = [sid \in DOMAIN offer |->
                              IF Accepts(tn.sess[sid], tn'.sess[sid], m)
                              THEN Offered(offer[sid], m) ELSE offer[sid]]
              /\ status' = IF ends THEN "ended" ELSE "up"
    BY <1>2 DEF Receive
  <2> DEFINE ends  == handle_datagram_raises(tn, msg)
             m     == Merged(delivered(tn.peer, msg))
             Call(fail) == LET t == handle_datagram(Cfg, tn, Wire(msg, None), fail)
                           IN  IF ends THEN close(Cfg, t, fail) ELSE t
             after == [fail \in Failures |-> Call(fail)]
             off   == [sid \in DOMAIN offer |->
                         IF Accepts(tn.sess[sid], tn'.sess[sid], m)
                         THEN Offered(offer[sid], m) ELSE offer[sid]]
  <2>2. /\ status = "up" /\ status' \in {"ended", "up"}
        /\ Commit(after) /\ offer' = off
    BY <2>1
  <2>3. \A fail \in Failures : after[fail] = Call(fail)
    OBVIOUS
  <2>4. \A fail \in Failures :
          /\ CallOK(Cfg, tn, Call(fail), fail) /\ Call(fail).peer.dead = tn.peer.dead
          /\ AllMove(Cfg, tn, Call(fail), m)
    BY CallbackOK
  <2> HIDE DEF Call, after, off
  <2>5. \A fail \in Failures : CallOK(Cfg, tn, after[fail], fail)
    BY <2>3, <2>4
  <2>6. /\ TunnelOK(Cfg, tn') /\ HelloOK(tn')
        /\ KernelOK(Cfg, tn'.sess, tn'.dp, tn'.dp_added, failed')
        /\ \E fail \in Failures :
               tn'.peer = after[fail].peer /\ tn'.sess = after[fail].sess
    BY <2>2, <2>5, CommitInv
  <2>7. PICK fail \in Failures : tn'.peer = after[fail].peer /\ tn'.sess = after[fail].sess
    BY <2>6
  <2>8. tn'.peer.dead = tn.peer.dead /\ AllMove(Cfg, tn, tn', m)
    BY <2>3, <2>4, <2>7 DEF AllMove
  <2> HIDE DEF m
  <2>9. AllOffers(tn', off)
    <3>1. DOMAIN off = DOMAIN Cfg.sessions
      BY DEF Inv, AllOffers, off
    <3>2. ASSUME NEW sid \in DOMAIN Cfg.sessions
          PROVE  OfferOK(tn'.sess[sid], off[sid])
      <4>1. OfferOK(tn.sess[sid], offer[sid]) /\ SessMoves(tn.sess[sid], tn'.sess[sid], m)
        BY <2>8 DEF Inv, AllOffers, AllMove
      <4>2. off[sid] = IF Accepts(tn.sess[sid], tn'.sess[sid], m)
                       THEN Offered(offer[sid], m) ELSE offer[sid]
        BY DEF off, Inv, AllOffers
      <4> QED BY <4>1, <4>2, OfferMoves
    <3> QED BY <3>1, <3>2 DEF AllOffers
  <2> QED BY <2>2, <2>6, <2>8, <2>9 DEF Inv, AllOffers
<1>3. CASE Tick
  <2>1. PICK expired \in Expiries(tn.peer) :
          LET after == [fail \in Failures |-> tunnel_tick(Cfg, tn, expired, fail)]
          IN  /\ status' = (IF tn'.peer.dead THEN "removed" ELSE "up") /\ Commit(after)
              /\ offer' = offer
    BY <1>3 DEF Tick
  <2> DEFINE after == [fail \in Failures |-> tunnel_tick(Cfg, tn, expired, fail)]
  <2>2. \A fail \in Failures : after[fail] = tunnel_tick(Cfg, tn, expired, fail)
    OBVIOUS
  <2>3. status' = (IF tn'.peer.dead THEN "removed" ELSE "up") /\ Commit(after) /\ offer' = offer
    BY <2>1
  <2> HIDE DEF after
  <2>4. \A fail \in Failures :
          CallOK(Cfg, tn, after[fail], fail) /\ AllKept(Cfg, tn, after[fail])
    BY <1>1, <2>2, TunnelTickOK, CallsKeep
  <2> QED BY <2>3, <2>4, CommitInv, CommitOffers DEF Inv
<1>4. CASE HelloTimer
  <2> DEFINE after == [fail \in Failures |-> hello_timer(Cfg, tn, fail)]
  <2>1. status' = status /\ Commit(after) /\ offer' = offer
    BY <1>4 DEF HelloTimer
  <2>2. \A fail \in Failures : after[fail] = hello_timer(Cfg, tn, fail)
    OBVIOUS
  <2> HIDE DEF after
  <2>3. \A fail \in Failures :
          /\ CallOK(Cfg, tn, after[fail], fail) /\ after[fail].peer.dead = tn.peer.dead
          /\ AllKept(Cfg, tn, after[fail])
    BY <1>1, <2>2, HelloTimerOK, CallsKeep
  <2> QED BY <2>1, <2>3, CommitInv, CommitOffers DEF Inv
<1>5. CASE Stop
  <2> DEFINE after == [fail \in Failures |-> close(Cfg, tn, fail)]
  <2>1. status = "up" /\ status' = "off" /\ Commit(after) /\ offer' = offer
    BY <1>5 DEF Stop
  <2>2. \A fail \in Failures : after[fail] = close(Cfg, tn, fail)
    OBVIOUS
  <2> HIDE DEF after
  <2>3. \A fail \in Failures :
          CallOK(Cfg, tn, after[fail], fail) /\ after[fail].peer.dead = tn.peer.dead
    BY <1>1, <2>2, CloseOK
  <2>4. \A fail \in Failures : AllKept(Cfg, tn, after[fail])
    BY <1>1, <2>2, CallsKeep
  <2> QED BY <2>1, <2>3, <2>4, CommitInv, CommitOffers DEF Inv
<1>6. CASE UNCHANGED vars
  BY <1>6 DEF vars, Inv, AllOffers
<1> QED BY <1>2, <1>3, <1>4, <1>5, <1>6 DEF Next

\* So it always holds.
LEMMA Invariance == Spec => []Inv
  BY InitInv, NextInv, PTL DEF Spec

-----------------------------------------------------------------------------
(* Theorems *)

\* Whatever the peer sends and whichever ip commands fail, every attribute of
\* the Tunnel holds what the code keeps in it, and the daemon has taken the
\* tunnel out of its table exactly when the Peer is dead.
THEOREM TypeCorrect == Spec => []TypeOK
<1>1. Inv => TypeOK
  <2> SUFFICES ASSUME Inv PROVE TypeOK
    OBVIOUS
  <2>1. Range(tn.by_remote) \subseteq DOMAIN Cfg.sessions
    BY DEF Inv, TunnelOK, Range
  <2> QED BY <2>1 DEF Inv, TunnelOK, SessionOK, DpOK, PeerOK, TypeOK
<1> QED BY <1>1, Invariance, PTL

\* Whatever the peer sends, the HELLO timer is armed exactly while the tunnel
\* is ESTABLISHED: every path through _execute_actions that leaves the state
\* clears the timer, and _on_hello_timer sets it again.
THEOREM HelloTimerFollowsState == Spec => []HelloIffEstablished
<1>1. Inv => HelloIffEstablished
  BY DEF Inv, HelloOK, HelloIffEstablished
<1> QED BY <1>1, Invariance, PTL

\* The netdev of an ESTABLISHED session has the session ID of the session's
\* latest handshake, and its cookie if that carried one; if not, the configured
\* cookie or one that an earlier handshake carried.  The only netdevs excepted
\* are those of a session whose netdev could not be brought up or deleted.
THEOREM NetdevNegotiated == Spec => []NetdevOfHandshake
<1>1. Inv => NetdevOfHandshake
  <2> SUFFICES ASSUME Inv, NEW sid \in DOMAIN Cfg.sessions, SessionUp(sid), HasNetdev(sid)
               PROVE  \/ tn.dp.ksessions[sid] = Negotiated(sid)
                      \/ /\ offer[sid].cookie = None
                         /\ \E old \in offer[sid].earlier :
                              tn.dp.ksessions[sid] = [Negotiated(sid) EXCEPT !.peer_cookie = old]
                      \/ Stranded(sid)
    BY DEF NetdevOfHandshake
  <2> DEFINE s == tn.sess[sid]
             o == offer[sid]
             c == Cfg.sessions[sid]
  <2>1. NetdevOK(c, sid, s, tn.dp, failed)
    BY DEF Inv, KernelOK
  <2>2. tn.dp.ksessions[sid] = dataplane_params(c, s) \/ Stranded(sid)
    BY <2>1 DEF NetdevOK, LeftBehind, Stranded, Up, SessionUp, HasNetdev
  <2>3. /\ s.peer_cookie \in {None, o.cookie} \cup o.earlier
        /\ s.peer_sid = o.sid /\ (o.cookie # None => s.peer_cookie = o.cookie)
    BY DEF Inv, AllOffers, OfferOK, InHandshake, SessionUp
  <2>4. CASE s.peer_cookie \in {None, EmptyCookie} \/ s.peer_cookie = o.cookie
    <3>1. dataplane_params(c, s) = Negotiated(sid)
      BY <2>3, <2>4 DEF dataplane_params, Negotiated
    <3> QED BY <2>2, <3>1
  <2>5. CASE s.peer_cookie \notin {None, EmptyCookie} /\ s.peer_cookie # o.cookie
    <3>1. o.cookie = None /\ s.peer_cookie \in o.earlier
      BY <2>3, <2>5
    <3>2. dataplane_params(c, s) = [Negotiated(sid) EXCEPT !.peer_cookie = s.peer_cookie]
      BY <2>3, <2>5 DEF dataplane_params, Negotiated
    <3> QED BY <2>2, <3>1, <3>2
  <2> QED BY <2>4, <2>5
<1> QED BY <1>1, Invariance, PTL

\* A session that goes down, in whichever way, takes its netdev along, unless
\* that could not be brought up or could not be deleted.
THEOREM NetdevWithdrawn == Spec => []NetdevOutlives
<1>1. Inv => NetdevOutlives
  <2> SUFFICES ASSUME Inv, NEW sid \in DOMAIN Cfg.sessions, ~SessionUp(sid), HasNetdev(sid)
               PROVE  Stranded(sid)
    BY DEF NetdevOutlives
  <2>1. NetdevOK(Cfg.sessions[sid], sid, tn.sess[sid], tn.dp, failed)
    BY DEF Inv, KernelOK
  <2> QED BY <2>1 DEF NetdevOK, LeftBehind, Stranded, Up, SessionUp, HasNetdev
<1> QED BY <1>1, Invariance, PTL

\* A session is ESTABLISHED without a netdev only if the kernel refused the
\* tunnel or the session; a failed deletion of the tunnel never is the reason.
THEOREM NetdevPresent == Spec => []NetdevMissing
<1>1. Inv => NetdevMissing
  <2> SUFFICES ASSUME Inv, NEW sid \in DOMAIN Cfg.sessions, SessionUp(sid), ~HasNetdev(sid)
               PROVE  \/ {<<"add_tunnel", 0>>, <<"add_session", sid>>} \cap failed # {}
                      \/ LET params == dataplane_params(Cfg.sessions[sid], tn.sess[sid])
                         IN  EmptyCookie \in {params.cookie, params.peer_cookie}
    BY DEF NetdevMissing
  <2>1. NetdevOK(Cfg.sessions[sid], sid, tn.sess[sid], tn.dp, failed)
    BY DEF Inv, KernelOK
  <2>2. Refused(Cfg.sessions[sid], sid, tn.sess[sid], failed)
    BY <2>1 DEF NetdevOK, Up, SessionUp, HasNetdev
  <2> QED BY <2>2 DEF Refused
<1> QED BY <1>1, Invariance, PTL
=============================================================================
