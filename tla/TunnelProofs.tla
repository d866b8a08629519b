---------------------------- MODULE TunnelProofs ----------------------------
(***************************************************************************)
(* What every entry point of main.Tunnel preserves, for every              *)
(* configuration, every datagram and every set of failing ip commands.     *)
(* The modules that compose tunnels (AnyPeer, L2tpPair) build on these     *)
(* lemmas.                                                                 *)
(*                                                                         *)
(* TunnelOK is about the daemon's own state.  KernelOK relates the         *)
(* sessions to the dataplane's records and to the kernel; its parameter    *)
(* failed is the history of the ip commands that returned an error.        *)
(***************************************************************************)
EXTENDS Tunnel, PeerProofs, FiniteSetTheorems

SessionFields == {"state", "peer_sid", "peer_cookie"}
DpFields      == {"tunnel", "sessions", "ktunnel", "ksessions"}
TunnelFields  ==
    {"peer", "fsm", "hello", "sess", "by_remote", "dp_added", "dp", "out"}

\* What the loader guarantees of a tunnel's configuration.
ConfigOK(cfg) ==
    /\ 0 \notin DOMAIN cfg.sessions
    /\ cfg.order \in Seq(DOMAIN cfg.sessions)

SessionOK(sess) ==
    /\ DOMAIN sess = SessionFields
    /\ sess.state \in SessionStates

Up(sess) == sess.state = "ESTABLISHED"

DpOK(sids, dp) ==
    /\ DOMAIN dp = DpFields
    /\ dp.tunnel \in BOOLEAN
    /\ dp.ktunnel \in BOOLEAN
    /\ dp.sessions \subseteq sids
    /\ DOMAIN dp.ksessions = sids

\* The attributes of a Tunnel.
TunnelOK(cfg, t) ==
    /\ DOMAIN t = TunnelFields
    /\ PeerOK(t.peer)
    /\ t.fsm \in TunnelStates
    /\ t.hello \in BOOLEAN
    /\ DOMAIN t.sess = DOMAIN cfg.sessions
    /\ \A sid \in DOMAIN cfg.sessions : SessionOK(t.sess[sid])
    /\ \A key \in DOMAIN t.by_remote : t.by_remote[key] \in DOMAIN cfg.sessions
    /\ t.dp_added \in BOOLEAN
    /\ DpOK(DOMAIN cfg.sessions, t.dp)

\* The HELLO timer is armed exactly while the tunnel is ESTABLISHED.
HelloOK(t) == t.hello <=> t.fsm = "ESTABLISHED"

-----------------------------------------------------------------------------
(* The sessions and the kernel *)

\* A netdev that could not be brought up is not recorded, one that could not
\* be deleted is still recorded: both may stay behind.
LeftBehind(sid, failed) ==
    <<"link_up", sid>> \in failed \/ <<"del_session", sid>> \in failed

\* The kernel was not told, or would not take what it was told.
Refused(c, sid, sess, failed) ==
    \/ <<"add_tunnel", 0>> \in failed
    \/ <<"add_session", sid>> \in failed
    \/ dataplane_params(c, sess).cookie = EmptyCookie
    \/ dataplane_params(c, sess).peer_cookie = EmptyCookie

\* The records agree with the kernel except for a netdev that could not be
\* brought up (first two conjuncts), and the kernel with the state machine of
\* the session except for what a failed command explains.
NetdevOK(c, sid, sess, dp, failed) ==
    /\ sid \in dp.sessions => dp.ksessions[sid] # NoSession
    /\ dp.ksessions[sid] # NoSession =>
           sid \in dp.sessions \/ <<"link_up", sid>> \in failed
    /\ Up(sess) /\ dp.ksessions[sid] # NoSession =>
           dp.ksessions[sid] = dataplane_params(c, sess) \/ LeftBehind(sid, failed)
    /\ ~Up(sess) /\ dp.ksessions[sid] # NoSession => LeftBehind(sid, failed)
    /\ Up(sess) /\ dp.ksessions[sid] = NoSession => Refused(c, sid, sess, failed)

\* A tunnel that counts as added is recorded, and what is recorded is what the
\* kernel has.
KernelOK(cfg, sess, dp, added, failed) ==
    /\ added => dp.tunnel
    /\ dp.tunnel <=> dp.ktunnel
    /\ \A sid \in DOMAIN cfg.sessions :
           NetdevOK(cfg.sessions[sid], sid, sess[sid], dp, failed)

\* A failure more explains more, and a session is not affected by what happens
\* to the netdev of another one.
LEMMA NetdevFrame ==
  ASSUME NEW c, NEW sid, NEW sess, NEW dp, NEW d, NEW failed, NEW more,
         NetdevOK(c, sid, sess, dp, failed), failed \subseteq more,
         d.ksessions[sid] = dp.ksessions[sid],
         sid \in d.sessions <=> sid \in dp.sessions
  PROVE  NetdevOK(c, sid, sess, d, more)
  BY DEF NetdevOK, LeftBehind, Refused

\* What a handler of a SessionFSM may do: bring the session up and ask for the
\* netdev, take it down and ask for its removal, or neither.  While a session
\* is up, what it has negotiated does not change.
StepOK(sess, step) ==
    /\ SessionOK(step.sess)
    /\ \/ step.dp = "add"  /\ ~Up(sess) /\ Up(step.sess)
       \/ step.dp = "del"  /\ Up(sess) /\ ~Up(step.sess)
       \/ step.dp = "none" /\ ~Up(sess) /\ ~Up(step.sess)
       \/ step.dp = "none" /\ step.sess = sess

\* Every message leads to such a step (SessionFSM.on_message).
LEMMA MessageStep ==
  ASSUME NEW c, NEW sess, SessionOK(sess), NEW m, m.t \in SessionTypes
  PROVE  StepOK(sess, on_session_message(c, sess, m))
<1> USE DEF SessStep, SessNothing, Withdraw, StepOK, SessionOK, Up, SessionFields,
            SessionStates
<1>1. StepOK(sess, SessNothing(sess))
  OBVIOUS
<1>2. StepOK(sess, teardown_cdn(c, sess))
  BY DEF teardown_cdn
<1>3. CASE m.t = "ICRQ"
  <2>1. sess.state = "IDLE" =>
          StepOK(sess, SessStep([Learn(sess, m) EXCEPT !.state = "WAIT_SESSION_CONNECT"],
                                build_icrp(c.sid, m.lsid, c.cookie), "none"))
    BY DEF Learn
  <2>2. on_session_message(c, sess, m) = on_icrq(c, sess, m)
    BY <1>3 DEF on_session_message
  <2> HIDE DEF StepOK, SessStep, SessNothing
  <2> QED BY <1>1, <1>2, <2>1, <2>2 DEF on_icrq
<1>4. CASE m.t = "ICRP"
  <2>1. sess.state = "WAIT_SESSION_REPLY" =>
          StepOK(sess, SessStep([Learn(sess, m) EXCEPT !.state = "ESTABLISHED"],
                                build_iccn(c.sid, m.lsid), "add"))
    BY DEF Learn
  <2>2. on_session_message(c, sess, m) = on_icrp(c, sess, m)
    BY <1>4 DEF on_session_message
  <2> HIDE DEF StepOK, SessStep, SessNothing
  <2> QED BY <1>1, <1>2, <2>1, <2>2 DEF on_icrp
<1>5. CASE m.t = "ICCN"
  <2>1. sess.state = "WAIT_SESSION_CONNECT" =>
          StepOK(sess, SessStep([sess EXCEPT !.state = "ESTABLISHED"], None, "add"))
    OBVIOUS
  <2>2. on_session_message(c, sess, m) = on_iccn(c, sess, m)
    BY <1>5 DEF on_session_message
  <2> HIDE DEF StepOK, SessStep, SessNothing
  <2> QED BY <1>1, <1>2, <2>1, <2>2 DEF on_iccn
<1>6. CASE m.t = "CDN"
  <2>1. on_session_message(c, sess, m) = SessionDown(sess)
    BY <1>6 DEF on_session_message, on_cdn
  <2> QED BY <2>1 DEF SessionDown
<1> QED BY <1>3, <1>4, <1>5, <1>6 DEF SessionTypes

\* So do the operator's close, the tunnel that comes up and the one that goes
\* down; a session is never up afterwards unless it was before.
LEMMA OtherSteps ==
  ASSUME NEW c, NEW sess, SessionOK(sess)
  PROVE  /\ StepOK(sess, on_session_close(c, sess))
         /\ StepOK(sess, on_tunnel_established(c, sess))
         /\ on_tunnel_established(c, sess).dp = "none"
         /\ StepOK(sess, on_tunnel_down(sess))
         /\ ~Up(on_tunnel_down(sess).sess)
         /\ on_tunnel_down(sess).dp = IF Up(sess) THEN "del" ELSE "none"
<1> USE DEF SessStep, SessNothing, Withdraw, StepOK, SessionOK, Up, SessionFields,
            SessionStates
<1>1. StepOK(sess, on_session_close(c, sess))
  BY DEF on_session_close, teardown_cdn
<1>2. StepOK(sess, on_tunnel_established(c, sess)) /\ on_tunnel_established(c, sess).dp = "none"
  BY DEF on_tunnel_established
<1>3. /\ StepOK(sess, on_tunnel_down(sess))
      /\ ~Up(on_tunnel_down(sess).sess)
      /\ on_tunnel_down(sess).dp = IF Up(sess) THEN "del" ELSE "none"
  BY DEF on_tunnel_down, SessionDown
<1> QED BY <1>1, <1>2, <1>3

-----------------------------------------------------------------------------
(* The operations of the dataplane *)

\* add_tunnel() changes neither the records of sessions nor their netdevs.
LEMMA AddTunnelOK ==
  ASSUME NEW sids, NEW dp, NEW fail, DpOK(sids, dp)
  PROVE  LET d == add_tunnel(dp, fail)
         IN  /\ DpOK(sids, d)
             /\ d.sessions = dp.sessions
             /\ d.ksessions = dp.ksessions
             /\ d.tunnel <=> ~add_tunnel_fails(dp, fail)
             /\ (dp.tunnel <=> dp.ktunnel) =>
                  /\ d.tunnel <=> d.ktunnel
                  /\ add_tunnel_fails(dp, fail) => <<"add_tunnel", 0>> \in fail
<1> DEFINE d == add_tunnel(dp, fail)
           new == [dp EXCEPT !.ktunnel = TRUE, !.tunnel = TRUE]
<1>1. /\ DOMAIN new = DpFields /\ new.tunnel = TRUE /\ new.ktunnel = TRUE
      /\ new.sessions = dp.sessions /\ new.ksessions = dp.ksessions
  BY DEF DpOK, DpFields
<1>2. d = IF dp.tunnel \/ add_tunnel_fails(dp, fail) THEN dp ELSE new
  BY DEF add_tunnel
<1> HIDE DEF d, new
<1> QED
  <2>1. CASE dp.tunnel
    BY <1>2, <2>1 DEF d, add_tunnel_fails, DpOK
  <2>2. CASE ~dp.tunnel /\ add_tunnel_fails(dp, fail)
    BY <1>2, <2>2 DEF d, add_tunnel_fails, KernelAddsTunnel, DpOK
  <2>3. CASE ~dp.tunnel /\ ~add_tunnel_fails(dp, fail)
    BY <1>1, <1>2, <2>3 DEF d, DpOK
  <2> QED BY <2>1, <2>2, <2>3

\* Nothing has changed but what concerns one session.
OthersKept(sids, sid, dp, d) ==
    /\ d.tunnel = dp.tunnel /\ d.ktunnel = dp.ktunnel
    /\ \A o \in sids : o # sid => d.ksessions[o] = dp.ksessions[o]
    /\ \A o \in sids : o # sid => (o \in d.sessions <=> o \in dp.sessions)

\* The outcomes of add_session(): nothing, a netdev that is not recorded, or a
\* recorded netdev.
AddOutcome(dp, sid, params, fail, d) ==
    \/ /\ <<"add_session", sid>> \in fail \/ ~KernelAddsSession(dp, sid, params)
       /\ d = dp
    \/ /\ <<"link_up", sid>> \in fail
       /\ d.ksessions[sid] = params /\ d.sessions = dp.sessions
    \/ d.ksessions[sid] = params /\ sid \in d.sessions

\* add_session() has one of these outcomes.
LEMMA AddSessionCases ==
  ASSUME NEW sids, NEW dp, NEW fail, DpOK(sids, dp), NEW sid \in sids, NEW params,
         NEW d, d = add_session(dp, sid, params, fail)
  PROVE  /\ DpOK(sids, d)
         /\ OthersKept(sids, sid, dp, d)
         /\ AddOutcome(dp, sid, params, fail, d)
<1> USE DEF OthersKept, AddOutcome
<1> DEFINE half == [dp EXCEPT !.ksessions[sid] = params]
           full == [dp EXCEPT !.ksessions[sid] = params, !.sessions = @ \cup {sid}]
<1>1. /\ DOMAIN half = DpFields /\ half.tunnel = dp.tunnel /\ half.ktunnel = dp.ktunnel
      /\ half.sessions = dp.sessions
      /\ DOMAIN half.ksessions = sids /\ half.ksessions[sid] = params
      /\ \A o \in sids \ {sid} : half.ksessions[o] = dp.ksessions[o]
  BY DEF DpOK, DpFields
<1>2. full = [half EXCEPT !.sessions = @ \cup {sid}]
  BY DEF DpOK, DpFields
<1> HIDE DEF half
<1>3. /\ DOMAIN full = DpFields /\ full.tunnel = dp.tunnel /\ full.ktunnel = dp.ktunnel
      /\ full.sessions = dp.sessions \cup {sid}
      /\ full.ksessions = half.ksessions
  BY <1>1, <1>2 DEF DpFields
<1> HIDE DEF full
<1>4. d = IF <<"add_session", sid>> \in fail \/ ~KernelAddsSession(dp, sid, params) THEN dp
          ELSE IF <<"link_up", sid>> \in fail THEN half ELSE full
  BY DEF add_session, half, full
<1>5. DpOK(sids, half) /\ DpOK(sids, full)
  BY <1>1, <1>3 DEF DpOK
<1>6. CASE <<"add_session", sid>> \in fail \/ ~KernelAddsSession(dp, sid, params)
  BY <1>4, <1>6
<1>7. CASE ~(<<"add_session", sid>> \in fail \/ ~KernelAddsSession(dp, sid, params))
  <2>1. CASE <<"link_up", sid>> \in fail
    BY <1>1, <1>4, <1>5, <1>7, <2>1
  <2>2. CASE <<"link_up", sid>> \notin fail
    BY <1>1, <1>3, <1>4, <1>5, <1>7, <2>2
  <2> QED BY <2>1, <2>2
<1> QED BY <1>6, <1>7

\* add_session() for a session that has come up.
LEMMA NetdevAdded ==
  ASSUME NEW sids, NEW dp, NEW fail, DpOK(sids, dp), dp.tunnel <=> dp.ktunnel,
         NEW sid \in sids, NEW c, NEW old, NEW new, ~Up(old), Up(new),
         NEW failed, NetdevOK(c, sid, old, dp, failed),
         dp.tunnel \/ <<"add_tunnel", 0>> \in failed \cup fail
  PROVE  NetdevOK(c, sid, new, add_session(dp, sid, dataplane_params(c, new), fail),
                  failed \cup fail)
<1> DEFINE params == dataplane_params(c, new)
           d == add_session(dp, sid, params, fail)
           more == failed \cup fail
<1>1. params # NoSession
  BY DEF NoSession, dataplane_params
<1>2. params = dataplane_params(c, new)
  OBVIOUS
<1> HIDE DEF params
<1>3. d = add_session(dp, sid, params, fail)
  OBVIOUS
<1> HIDE DEF d
<1>4. AddOutcome(dp, sid, params, fail, d)
  BY <1>3, AddSessionCases
<1>5. NetdevOK(c, sid, new, d, more)
  <2>1. CASE d = dp /\ (<<"add_session", sid>> \in fail \/ ~KernelAddsSession(dp, sid, params))
    <3>1. dp.ksessions[sid] = NoSession => Refused(c, sid, new, more)
      BY <1>2, <2>1 DEF KernelAddsSession, KernelHasSession, Refused
    <3> QED BY <2>1, <3>1 DEF NetdevOK, LeftBehind
  <2>2. CASE d.ksessions[sid] = params /\ (sid \in d.sessions \/ <<"link_up", sid>> \in fail)
    BY <1>1, <1>2, <2>2 DEF NetdevOK
  <2> QED BY <1>4, <2>1, <2>2 DEF AddOutcome
<1> QED BY <1>2, <1>5 DEF d

\* What forget_sessions() leaves.
LEMMA ForgetFacts ==
  ASSUME NEW sids, NEW dp, DpOK(sids, dp), NEW gone
  PROVE  LET d == forget_sessions(dp, gone)
         IN  /\ DpOK(sids, d)
             /\ d.tunnel = dp.tunnel /\ d.ktunnel = dp.ktunnel
             /\ d.sessions = dp.sessions \ gone
             /\ \A sid \in sids :
                   d.ksessions[sid] = IF sid \in gone THEN NoSession ELSE dp.ksessions[sid]
<1> DEFINE f == [sid \in DOMAIN dp.ksessions |->
                    IF sid \in gone THEN NoSession ELSE dp.ksessions[sid]]
           d == forget_sessions(dp, gone)
           rest == dp.sessions \ gone
<1>1. d = [dp EXCEPT !.ksessions = f, !.sessions = rest]
  BY DEF forget_sessions
<1>2. DOMAIN f = sids /\ \A sid \in sids :
                            f[sid] = IF sid \in gone THEN NoSession ELSE dp.ksessions[sid]
  BY DEF DpOK
<1>3. rest \subseteq sids
  BY DEF DpOK
<1> HIDE DEF f
<1>4. /\ DOMAIN d = DpFields /\ d.tunnel = dp.tunnel /\ d.ktunnel = dp.ktunnel
      /\ d.ksessions = f /\ d.sessions = rest
  BY <1>1 DEF DpOK, DpFields
<1> HIDE DEF d
<1> QED BY <1>2, <1>3, <1>4 DEF DpOK, d

\* del_session() for a session that has gone down.
LEMMA NetdevDeleted ==
  ASSUME NEW sids, NEW dp, DpOK(sids, dp), NEW gone, NEW sid \in sids, NEW fail,
         NEW c, NEW old, NEW new, Up(old), ~Up(new),
         NEW failed, NetdevOK(c, sid, old, dp, failed),
         sid \in gone <=> del_session_works(dp, sid, fail)
  PROVE  NetdevOK(c, sid, new, forget_sessions(dp, gone), failed \cup fail)
<1> DEFINE d == forget_sessions(dp, gone)
<1>1. /\ d.sessions = dp.sessions \ gone
      /\ d.ksessions[sid] = IF sid \in gone THEN NoSession ELSE dp.ksessions[sid]
  BY ForgetFacts
<1> HIDE DEF d
<1>2. CASE sid \in gone
  BY <1>1, <1>2 DEF NetdevOK, d
<1>3. CASE sid \notin gone
  <2>1. dp.ksessions[sid] # NoSession => LeftBehind(sid, failed \cup fail)
    BY <1>3 DEF NetdevOK, LeftBehind, del_session_works, KernelHasSession
  <2> QED BY <1>1, <1>3, <2>1 DEF NetdevOK, d
<1> QED BY <1>2, <1>3

\* del_tunnel() when no session is up: the kernel's sessions go with it.
LEMMA DelTunnelOK ==
  ASSUME NEW sids, NEW dp, NEW fail, DpOK(sids, dp)
  PROVE  LET d == del_tunnel(dp, fail)
         IN  /\ DpOK(sids, d)
             /\ (dp.tunnel <=> dp.ktunnel) => (d.tunnel <=> d.ktunnel)
             /\ \A sid \in sids : \A c, sess, failed :
                   NetdevOK(c, sid, sess, dp, failed) /\ ~Up(sess)
                       => NetdevOK(c, sid, sess, d, failed)
<1> DEFINE d == del_tunnel(dp, fail)
           f == [sid \in DOMAIN dp.ksessions |-> NoSession]
           new == [dp EXCEPT !.ktunnel = FALSE, !.tunnel = FALSE, !.ksessions = f]
<1>1. DOMAIN f = sids /\ \A sid \in sids : f[sid] = NoSession
  BY DEF DpOK
<1>2. d = IF ~dp.tunnel \/ dp.sessions # {} \/ <<"del_tunnel", 0>> \in fail \/ ~dp.ktunnel
          THEN dp ELSE new
  BY DEF del_tunnel
<1> HIDE DEF f
<1>3. /\ DOMAIN new = DpFields /\ new.tunnel = FALSE /\ new.ktunnel = FALSE
      /\ new.ksessions = f /\ new.sessions = dp.sessions
  BY DEF DpOK, DpFields
<1> HIDE DEF new, d
<1>4. CASE d = dp
  BY <1>4 DEF d
<1>5. CASE d = new
  <2>1. DpOK(sids, new) /\ (new.tunnel <=> new.ktunnel)
    BY <1>1, <1>3 DEF DpOK
  <2>2. CASE d # dp
    <3>1. dp.sessions = {}
      BY <1>2, <2>2
    <3>2. \A sid \in sids : \A c, sess, failed : ~Up(sess) => NetdevOK(c, sid, sess, new, failed)
      BY <1>1, <1>3, <3>1 DEF NetdevOK
    <3> QED BY <1>5, <2>1, <3>2 DEF d
  <2> QED BY <1>4, <2>2
<1> QED BY <1>2, <1>4, <1>5

-----------------------------------------------------------------------------
(* Executing actions *)

\* u differs from t in what it has sent at most.
SentOnly(t, u) ==
    /\ u.fsm = t.fsm /\ u.hello = t.hello
    /\ u.sess = t.sess /\ u.by_remote = t.by_remote
    /\ u.dp_added = t.dp_added /\ u.dp = t.dp
    /\ u.peer.dead = t.peer.dead

\* Another Peer, and something put out.
LEMMA PutOK ==
  ASSUME NEW cfg, NEW t, TunnelOK(cfg, t), NEW p, PeerOK(p), NEW wires
  PROVE  LET u == Put([t EXCEPT !.peer = p], wires)
         IN  /\ TunnelOK(cfg, u)
             /\ u.peer = p
             /\ p.dead = t.peer.dead => SentOnly(t, u)
<1> DEFINE v == [t EXCEPT !.peer = p]
           u == Put(v, wires)
<1>1. DOMAIN v = TunnelFields /\ v.peer = p /\ v.fsm = t.fsm /\ v.hello = t.hello
      /\ v.sess = t.sess /\ v.by_remote = t.by_remote /\ v.dp_added = t.dp_added
      /\ v.dp = t.dp
  BY DEF TunnelOK, TunnelFields
<1> HIDE DEF v
<1>2. DOMAIN u = TunnelFields /\ u.peer = p /\ u.fsm = t.fsm /\ u.hello = t.hello
      /\ u.sess = t.sess /\ u.by_remote = t.by_remote /\ u.dp_added = t.dp_added
      /\ u.dp = t.dp
  BY <1>1 DEF TunnelFields, Put
<1> HIDE DEF u
<1> QED BY <1>2 DEF TunnelOK, SentOnly, u, v

\* _send()
LEMMA EmitOK ==
  ASSUME NEW cfg, NEW t, TunnelOK(cfg, t), NEW body
  PROVE  TunnelOK(cfg, Emit(cfg, t, body)) /\ SentOnly(t, Emit(cfg, t, body))
<1> DEFINE p == send(t.peer, body)
           wires == <<Wire(stamped(t.peer, body), cfg.password)>>
<1>1. PeerOK(p) /\ p.dead = t.peer.dead
  BY SendOK DEF TunnelOK
<1>2. Emit(cfg, t, body) = IF body = None THEN t ELSE Put([t EXCEPT !.peer = p], wires)
  BY DEF Emit
<1> HIDE DEF p, wires
<1>3. CASE body = None
  BY <1>2, <1>3 DEF SentOnly
<1>4. CASE body # None
  BY <1>1, <1>2, <1>4, PutOK
<1> QED BY <1>3, <1>4

\* _send(), several times
LEMMA EmitAllOK ==
  ASSUME NEW cfg, NEW t, TunnelOK(cfg, t), NEW n \in Nat, NEW bodies, DOMAIN bodies = 1 .. n,
         Len(bodies) \in Nat
  PROVE  TunnelOK(cfg, EmitAll(cfg, t, bodies)) /\ SentOnly(t, EmitAll(cfg, t, bodies))
<1> DEFINE p == send_all(t.peer, bodies)
           wires == [k \in DOMAIN bodies |-> Wire(stamped_at(t.peer, bodies, k), cfg.password)]
<1>1. PeerOK(p) /\ p.dead = t.peer.dead
  BY SendAllOK DEF TunnelOK
<1>2. EmitAll(cfg, t, bodies) = Put([t EXCEPT !.peer = p], wires)
  BY DEF EmitAll
<1> HIDE DEF p, wires
<1> QED BY <1>1, <1>2, PutOK

\* Other sessions, another dataplane.
LEMMA ReplaceOK ==
  ASSUME NEW cfg, NEW t, TunnelOK(cfg, t),
         NEW u, DOMAIN u = TunnelFields,
         u.peer = t.peer, u.fsm = t.fsm, u.hello = t.hello, u.by_remote = t.by_remote,
         DOMAIN u.sess = DOMAIN cfg.sessions,
         \A sid \in DOMAIN cfg.sessions : SessionOK(u.sess[sid]),
         u.dp_added \in BOOLEAN, DpOK(DOMAIN cfg.sessions, u.dp)
  PROVE  TunnelOK(cfg, u)
  BY DEF TunnelOK

\* _ensure_tunnel_dataplane()
LEMMA EnsureOK ==
  ASSUME NEW cfg, NEW t, TunnelOK(cfg, t), NEW fail
  PROVE  LET u == ensure_tunnel_dataplane(t, fail)
         IN  /\ TunnelOK(cfg, u)
             /\ u.sess = t.sess /\ u.peer = t.peer /\ u.fsm = t.fsm /\ u.hello = t.hello
             /\ u.dp.sessions = t.dp.sessions /\ u.dp.ksessions = t.dp.ksessions
             /\ (t.dp.tunnel <=> t.dp.ktunnel) /\ (t.dp_added => t.dp.tunnel) =>
                  /\ u.dp.tunnel <=> u.dp.ktunnel
                  /\ u.dp_added => u.dp.tunnel
                  /\ u.dp.tunnel \/ <<"add_tunnel", 0>> \in fail
<1> DEFINE d == add_tunnel(t.dp, fail)
           ok == ~add_tunnel_fails(t.dp, fail)
           u == [t EXCEPT !.dp = d, !.dp_added = ok]
           sids == DOMAIN cfg.sessions
<1>1. DpOK(sids, t.dp)
  BY DEF TunnelOK
<1>2. /\ DpOK(sids, d)
      /\ d.sessions = t.dp.sessions
      /\ d.ksessions = t.dp.ksessions
      /\ d.tunnel <=> ok
      /\ (t.dp.tunnel <=> t.dp.ktunnel) =>
           /\ d.tunnel <=> d.ktunnel
           /\ ~ok => <<"add_tunnel", 0>> \in fail
  BY <1>1, AddTunnelOK, SMTT(20)
<1>3. ok \in BOOLEAN
  BY DEF add_tunnel_fails
<1>4. ensure_tunnel_dataplane(t, fail) = IF t.dp_added THEN t ELSE u
  BY DEF ensure_tunnel_dataplane
<1> HIDE DEF d, ok, sids
<1>5. /\ DOMAIN u = TunnelFields /\ u.dp = d /\ u.dp_added = ok /\ u.peer = t.peer
      /\ u.fsm = t.fsm /\ u.hello = t.hello /\ u.by_remote = t.by_remote /\ u.sess = t.sess
  BY DEF TunnelOK, TunnelFields
<1> HIDE DEF u
<1>6. TunnelOK(cfg, u)
  BY <1>2, <1>3, <1>5, ReplaceOK DEF TunnelOK, sids
<1>7. CASE t.dp_added
  BY <1>4, <1>7
<1>8. CASE ~t.dp_added
  BY <1>2, <1>3, <1>4, <1>5, <1>6, <1>8
<1> QED BY <1>7, <1>8

\* Whatever has failed so far, the kernel is in order again when the commands
\* fail are added to it.
KernelStep(cfg, t, u, fail) ==
    \A failed :
        KernelOK(cfg, t.sess, t.dp, t.dp_added, failed)
            => KernelOK(cfg, u.sess, u.dp, u.dp_added, failed \cup fail)

\* A call that touches neither the sessions nor the dataplane leaves the kernel
\* in order.
LEMMA KernelUnchanged ==
  ASSUME NEW cfg, NEW t, NEW u, NEW fail,
         u.sess = t.sess, u.dp = t.dp, u.dp_added = t.dp_added
  PROVE  KernelStep(cfg, t, u, fail)
<1> SUFFICES ASSUME NEW failed, KernelOK(cfg, t.sess, t.dp, t.dp_added, failed)
             PROVE  KernelOK(cfg, u.sess, u.dp, u.dp_added, failed \cup fail)
  BY DEF KernelStep
<1>1. \A sid \in DOMAIN cfg.sessions :
        NetdevOK(cfg.sessions[sid], sid, t.sess[sid], t.dp, failed \cup fail)
  BY NetdevFrame DEF KernelOK
<1> QED BY <1>1 DEF KernelOK

\* The tunnel's own state machine is not concerned.
FsmKept(t, u) == u.fsm = t.fsm /\ u.hello = t.hello /\ u.peer.dead = t.peer.dead

\* A handler of session sid and its actions: the session's netdev follows the
\* session, the others stay.
LEMMA ExecuteSessionOK ==
  ASSUME NEW cfg, NEW t, TunnelOK(cfg, t), NEW sid \in DOMAIN cfg.sessions, NEW fail,
         NEW step, StepOK(t.sess[sid], step)
  PROVE  LET u == ExecuteSession(cfg, t, sid, step, fail)
         IN  TunnelOK(cfg, u) /\ FsmKept(t, u) /\ KernelStep(cfg, t, u, fail)
<1> DEFINE sids == DOMAIN cfg.sessions
           v == [t EXCEPT !.sess[sid] = step.sess]
           w == Emit(cfg, v, step.send)
           u == ExecuteSession(cfg, t, sid, step, fail)
           c == cfg.sessions[sid]
           old == t.sess[sid]
<1>1. /\ DOMAIN v = TunnelFields /\ v.peer = t.peer /\ v.fsm = t.fsm /\ v.hello = t.hello
      /\ v.by_remote = t.by_remote /\ v.dp_added = t.dp_added /\ v.dp = t.dp
      /\ DOMAIN v.sess = sids /\ v.sess[sid] = step.sess
      /\ \A o \in sids \ {sid} : v.sess[o] = t.sess[o]
  BY DEF TunnelOK, TunnelFields
<1>2. TunnelOK(cfg, v)
  <2>1. \A o \in sids : SessionOK(v.sess[o])
    BY <1>1 DEF TunnelOK, StepOK
  <2> HIDE DEF v
  <2> QED BY <1>1, <2>1, ReplaceOK DEF TunnelOK
<1> HIDE DEF v
<1>3. TunnelOK(cfg, w) /\ SentOnly(v, w)
  BY <1>2, EmitOK
<1>4. u = CASE step.dp = "add" -> AddNetdev(cfg, w, sid, fail)
            [] step.dp = "del" -> [w EXCEPT !.dp = del_session(@, sid, fail)]
            [] OTHER           -> w
  BY DEF ExecuteSession, v
<1>5. /\ w.sess = v.sess /\ w.dp = t.dp /\ w.dp_added = t.dp_added
      /\ w.sess[sid] = step.sess /\ FsmKept(t, w)
  BY <1>1, <1>3 DEF SentOnly, FsmKept
<1>6. DpOK(sids, w.dp) /\ DOMAIN w = TunnelFields /\ SessionOK(step.sess)
  BY <1>3 DEF TunnelOK, StepOK
<1> HIDE DEF w, u
\* If the other netdevs are as before, they are still in order.
<1>7. ASSUME NEW d, NEW added, NEW failed,
             KernelOK(cfg, t.sess, t.dp, t.dp_added, failed),
             added => d.tunnel, d.tunnel <=> d.ktunnel,
             NetdevOK(c, sid, step.sess, d, failed \cup fail),
             \A o \in sids : o # sid => d.ksessions[o] = t.dp.ksessions[o],
             \A o \in sids : o # sid => (o \in d.sessions <=> o \in t.dp.sessions)
      PROVE  KernelOK(cfg, w.sess, d, added, failed \cup fail)
  <2> SUFFICES ASSUME NEW o \in sids
               PROVE  NetdevOK(cfg.sessions[o], o, w.sess[o], d, failed \cup fail)
    BY <1>7 DEF KernelOK
  <2>1. CASE o = sid
    BY <1>5, <1>7, <2>1
  <2>2. CASE o # sid
    <3>1. NetdevOK(cfg.sessions[o], o, t.sess[o], t.dp, failed)
      BY <1>7 DEF KernelOK
    <3>2. NetdevOK(cfg.sessions[o], o, t.sess[o], d, failed \cup fail)
      BY <1>7, <2>2, <3>1, NetdevFrame
    <3> QED BY <1>1, <1>5, <2>2, <3>2
  <2> QED BY <2>1, <2>2
<1>8. CASE step.dp = "add"
  <2> DEFINE x == ensure_tunnel_dataplane(w, fail)
             params == dataplane_params(c, step.sess)
             d == add_session(x.dp, sid, params, fail)
  <2>1. /\ TunnelOK(cfg, x)
        /\ x.sess = w.sess /\ x.peer = w.peer /\ x.fsm = w.fsm /\ x.hello = w.hello
        /\ x.dp.sessions = w.dp.sessions /\ x.dp.ksessions = w.dp.ksessions
        /\ (w.dp.tunnel <=> w.dp.ktunnel) /\ (w.dp_added => w.dp.tunnel) =>
             /\ x.dp.tunnel <=> x.dp.ktunnel
             /\ x.dp_added => x.dp.tunnel
             /\ x.dp.tunnel \/ <<"add_tunnel", 0>> \in fail
    BY <1>3, EnsureOK
  <2>2. u = [x EXCEPT !.dp = d]
    BY <1>4, <1>5, <1>8 DEF AddNetdev
  <2> HIDE DEF x
  <2>3. DpOK(sids, x.dp) /\ DOMAIN x = TunnelFields /\ sid \in sids
    BY <2>1 DEF TunnelOK
  <2> HIDE DEF params, sids
  <2>4. DpOK(sids, d) /\ OthersKept(sids, sid, x.dp, d)
    BY <2>3, AddSessionCases
  <2>5. ASSUME NEW failed, KernelOK(cfg, t.sess, t.dp, t.dp_added, failed)
        PROVE  KernelOK(cfg, w.sess, d, x.dp_added, failed \cup fail)
    <3>1. NetdevOK(c, sid, old, t.dp, failed)
      BY <2>5 DEF KernelOK, sids
    <3>2. NetdevOK(c, sid, old, x.dp, failed)
      BY <1>5, <2>1, <3>1, NetdevFrame
    <3>3. /\ x.dp.tunnel <=> x.dp.ktunnel
          /\ x.dp_added => x.dp.tunnel
          /\ x.dp.tunnel \/ <<"add_tunnel", 0>> \in fail
      BY <1>5, <2>1, <2>5 DEF KernelOK
    <3>4. ~Up(old) /\ Up(step.sess)
      BY <1>8 DEF StepOK
    <3>5. x.dp.tunnel \/ <<"add_tunnel", 0>> \in failed \cup fail
      BY <3>3
    <3>6. NetdevOK(c, sid, step.sess, d, failed \cup fail)
      BY <2>3, <3>2, <3>3, <3>4, <3>5, NetdevAdded DEF params
    <3> HIDE DEF c, old, d
    <3> QED BY <1>5, <1>7, <2>1, <2>4, <2>5, <3>3, <3>6 DEF OthersKept
  <2> HIDE DEF d
  <2>6. /\ DOMAIN u = TunnelFields /\ u.dp = d /\ u.dp_added = x.dp_added /\ u.peer = x.peer
        /\ u.fsm = x.fsm /\ u.hello = x.hello /\ u.by_remote = x.by_remote /\ u.sess = x.sess
    BY <2>2, <2>3 DEF TunnelFields
  <2>7. TunnelOK(cfg, u)
    BY <2>1, <2>4, <2>6, ReplaceOK DEF TunnelOK, sids
  <2>8. KernelStep(cfg, t, u, fail)
    BY <2>1, <2>5, <2>6 DEF KernelStep
  <2>9. FsmKept(t, u)
    BY <1>5, <2>1, <2>6 DEF FsmKept
  <2> QED BY <2>7, <2>8, <2>9 DEF u
<1>9. CASE step.dp = "del"
  <2> DEFINE gone == IF del_session_works(t.dp, sid, fail) THEN {sid} ELSE {}
             d == del_session(t.dp, sid, fail)
  <2>1. u = [w EXCEPT !.dp = d]
    BY <1>4, <1>5, <1>9
  <2>2. /\ DpOK(sids, d)
        /\ \A failed : KernelOK(cfg, t.sess, t.dp, t.dp_added, failed)
                          => KernelOK(cfg, w.sess, d, w.dp_added, failed \cup fail)
    <3>1. CASE del_session_works(t.dp, sid, fail)
      <4> DEFINE e == forget_sessions(t.dp, {sid})
      <4>1. d = e
        BY <3>1 DEF del_session
      <4>2. /\ DpOK(sids, e)
            /\ e.tunnel = t.dp.tunnel /\ e.ktunnel = t.dp.ktunnel
            /\ e.sessions = t.dp.sessions \ {sid}
            /\ \A o \in sids :
                  e.ksessions[o] = IF o \in {sid} THEN NoSession ELSE t.dp.ksessions[o]
        BY <1>5, <1>6, ForgetFacts
      <4>3. ASSUME NEW failed, KernelOK(cfg, t.sess, t.dp, t.dp_added, failed)
            PROVE  KernelOK(cfg, w.sess, e, w.dp_added, failed \cup fail)
        <5>1. NetdevOK(c, sid, old, t.dp, failed) /\ Up(old) /\ ~Up(step.sess)
          BY <1>9, <4>3 DEF KernelOK, StepOK
        <5>2. NetdevOK(c, sid, step.sess, e, failed \cup fail)
          BY <1>5, <1>6, <3>1, <5>1, NetdevDeleted
        <5>3. /\ w.dp_added => e.tunnel
              /\ e.tunnel <=> e.ktunnel
          BY <1>5, <4>2, <4>3 DEF KernelOK
        <5>4. \A o \in sids : o # sid => /\ e.ksessions[o] = t.dp.ksessions[o]
                                         /\ o \in e.sessions <=> o \in t.dp.sessions
          BY <4>2
        <5> HIDE DEF e, sids, c
        <5> QED BY <1>7, <4>3, <5>2, <5>3, <5>4
      <4> QED BY <4>1, <4>2, <4>3
    <3>2. CASE ~del_session_works(t.dp, sid, fail)
      <4>1. d = t.dp
        BY <3>2 DEF del_session
      <4>2. ASSUME NEW failed, KernelOK(cfg, t.sess, t.dp, t.dp_added, failed)
            PROVE  KernelOK(cfg, w.sess, t.dp, w.dp_added, failed \cup fail)
        <5>1. NetdevOK(c, sid, old, t.dp, failed) /\ Up(old) /\ ~Up(step.sess)
          BY <1>9, <4>2 DEF KernelOK, StepOK
        <5>2. NetdevOK(c, sid, step.sess, t.dp, failed \cup fail)
          BY <3>2, <5>1 DEF NetdevOK, LeftBehind, del_session_works, KernelHasSession
        <5>3. /\ w.dp_added => t.dp.tunnel
              /\ t.dp.tunnel <=> t.dp.ktunnel
          BY <1>5, <4>2 DEF KernelOK
        <5> HIDE DEF sids, c
        <5> QED BY <1>7, <4>2, <5>2, <5>3
      <4> QED BY <1>5, <1>6, <4>1, <4>2
    <3> QED BY <3>1, <3>2
  <2> HIDE DEF d
  <2>3. /\ DOMAIN u = TunnelFields /\ u.dp = d /\ u.dp_added = w.dp_added /\ u.peer = w.peer
        /\ u.fsm = w.fsm /\ u.hello = w.hello /\ u.by_remote = w.by_remote /\ u.sess = w.sess
    BY <1>6, <2>1 DEF TunnelFields
  <2>4. TunnelOK(cfg, u)
    BY <1>3, <2>2, <2>3, ReplaceOK DEF TunnelOK
  <2>5. KernelStep(cfg, t, u, fail)
    BY <2>2, <2>3 DEF KernelStep
  <2>6. FsmKept(t, u)
    BY <1>5, <2>3 DEF FsmKept
  <2> QED BY <2>4, <2>5, <2>6 DEF u
<1>10. CASE step.dp = "none"
  <2>1. u = w
    BY <1>4, <1>10
  <2>2. ASSUME NEW failed, KernelOK(cfg, t.sess, t.dp, t.dp_added, failed)
        PROVE  KernelOK(cfg, w.sess, t.dp, t.dp_added, failed \cup fail)
    <3>1. NetdevOK(c, sid, old, t.dp, failed \cup fail)
      <4>1. NetdevOK(c, sid, old, t.dp, failed)
        BY <2>2 DEF KernelOK
      <4> QED BY <4>1, NetdevFrame
    <3>2. NetdevOK(c, sid, step.sess, t.dp, failed \cup fail)
      <4>1. CASE step.sess = old
        BY <3>1, <4>1
      <4>2. CASE ~Up(old) /\ ~Up(step.sess)
        BY <3>1, <4>2 DEF NetdevOK
      <4> QED BY <1>10, <4>1, <4>2 DEF StepOK
    <3>3. /\ t.dp_added => t.dp.tunnel
          /\ t.dp.tunnel <=> t.dp.ktunnel
      BY <2>2 DEF KernelOK
    <3> HIDE DEF sids, c
    <3> QED BY <1>7, <2>2, <3>2, <3>3
  <2>3. KernelStep(cfg, t, u, fail)
    BY <1>5, <2>1, <2>2 DEF KernelStep
  <2> QED BY <1>3, <1>5, <2>1, <2>3 DEF u
<1> QED BY <1>8, <1>9, <1>10 DEF StepOK

\* The Established action brings no session up by itself.
LEMMA SessionsUpOK ==
  ASSUME NEW cfg, ConfigOK(cfg), NEW t, TunnelOK(cfg, t), NEW fail,
         NEW u, u = SessionsUp(cfg, t)
  PROVE  TunnelOK(cfg, u) /\ FsmKept(t, u) /\ KernelStep(cfg, t, u, fail)
<1> DEFINE sids  == DOMAIN cfg.sessions
           step  == [sid \in DOMAIN t.sess |->
                       on_tunnel_established(cfg.sessions[sid], t.sess[sid])]
           Opens == {i \in DOMAIN cfg.order : step[cfg.order[i]].send # None}
           n     == Cardinality(Opens)
           first == Ascending(Opens)
           icrqs == [k \in DOMAIN first |-> step[cfg.order[first[k]]].send]
           f     == [sid \in DOMAIN t.sess |-> step[sid].sess]
           v     == [t EXCEPT !.sess = f]
<1>1. /\ DOMAIN step = sids
      /\ \A sid \in sids : StepOK(t.sess[sid], step[sid]) /\ step[sid].dp = "none"
  BY OtherSteps DEF TunnelOK
<1>2. n \in Nat
  <2>1. Len(cfg.order) \in Nat /\ DOMAIN cfg.order = 1 .. Len(cfg.order)
    BY LenProperties DEF ConfigOK
  <2>2. IsFiniteSet(DOMAIN cfg.order)
    BY <2>1, FS_Interval
  <2>3. IsFiniteSet(Opens)
    BY <2>2, FS_Subset
  <2> HIDE DEF Opens
  <2> QED BY <2>3, FS_CardinalityType
<1>3. u = EmitAll(cfg, v, icrqs)
  BY DEF SessionsUp
<1>4. DOMAIN f = sids /\ \A sid \in sids : f[sid] = step[sid].sess
  BY DEF TunnelOK
<1> HIDE DEF step
<1>5. \A sid \in sids : SessionOK(f[sid])
  BY <1>1, <1>4 DEF StepOK
<1> HIDE DEF f, n
<1>6. DOMAIN icrqs = 1 .. n /\ Len(icrqs) \in Nat
  <2>1. DOMAIN first = 1 .. n
    BY DEF Ascending, n
  <2> HIDE DEF first
  <2> DEFINE T == {step[cfg.order[first[k]]].send : k \in DOMAIN first}
  <2>2. icrqs \in [1 .. n -> T]
    BY <2>1
  <2> HIDE DEF T, icrqs
  <2>3. icrqs \in Seq(T)
    BY <1>2, <2>2, SeqDef
  <2> QED BY <2>2, <2>3, LenProperties
<1> HIDE DEF icrqs
<1>7. /\ DOMAIN v = TunnelFields /\ v.dp = t.dp /\ v.dp_added = t.dp_added /\ v.peer = t.peer
      /\ v.fsm = t.fsm /\ v.hello = t.hello /\ v.by_remote = t.by_remote /\ v.sess = f
  BY DEF TunnelOK, TunnelFields
<1>8. t.dp_added \in BOOLEAN /\ DpOK(sids, t.dp)
  BY DEF TunnelOK
<1> HIDE DEF v
<1>9. TunnelOK(cfg, v) /\ FsmKept(t, v)
  <2>1. TunnelOK(cfg, v)
    BY <1>4, <1>5, <1>7, <1>8, ReplaceOK
  <2> QED BY <1>7, <2>1 DEF FsmKept
<1>10. TunnelOK(cfg, u) /\ SentOnly(v, u)
  BY <1>2, <1>3, <1>6, <1>9, EmitAllOK
<1>11. FsmKept(t, u)
  BY <1>9, <1>10 DEF FsmKept, SentOnly
<1>12. u.sess = f /\ u.dp = t.dp /\ u.dp_added = t.dp_added
  BY <1>7, <1>10 DEF SentOnly
<1>13. ASSUME NEW failed, KernelOK(cfg, t.sess, t.dp, t.dp_added, failed)
       PROVE  KernelOK(cfg, f, t.dp, t.dp_added, failed \cup fail)
  <2> SUFFICES ASSUME NEW sid \in sids
               PROVE  NetdevOK(cfg.sessions[sid], sid, f[sid], t.dp, failed \cup fail)
    BY <1>13 DEF KernelOK
  <2>1. NetdevOK(cfg.sessions[sid], sid, t.sess[sid], t.dp, failed)
    BY <1>13 DEF KernelOK
  <2>2. NetdevOK(cfg.sessions[sid], sid, t.sess[sid], t.dp, failed \cup fail)
    BY <2>1, NetdevFrame
  <2>3. f[sid] = t.sess[sid] \/ (~Up(f[sid]) /\ ~Up(t.sess[sid]))
    BY <1>1, <1>4 DEF StepOK
  <2>4. CASE f[sid] = t.sess[sid]
    BY <2>2, <2>4
  <2>5. CASE ~Up(f[sid]) /\ ~Up(t.sess[sid])
    BY <2>2, <2>5 DEF NetdevOK
  <2> QED BY <2>3, <2>4, <2>5
<1>14. KernelStep(cfg, t, u, fail)
  BY <1>12, <1>13 DEF KernelStep
<1> QED BY <1>10, <1>11, <1>14

\* The TornDown action takes every session down.
LEMMA SessionsDownOK ==
  ASSUME NEW cfg, NEW t, TunnelOK(cfg, t), NEW fail,
         NEW u, u = SessionsDown(cfg, t, fail)
  PROVE  TunnelOK(cfg, u) /\ FsmKept(t, u) /\ KernelStep(cfg, t, u, fail)
<1> DEFINE sids == DOMAIN cfg.sessions
           step == [sid \in DOMAIN t.sess |-> on_tunnel_down(t.sess[sid])]
           gone == {sid \in DOMAIN t.sess :
                       step[sid].dp = "del" /\ del_session_works(t.dp, sid, fail)}
           f    == [sid \in DOMAIN t.sess |-> step[sid].sess]
           d    == forget_sessions(t.dp, gone)
           v    == [t EXCEPT !.sess = f, !.dp = d]
           e    == IF t.dp_added THEN del_tunnel(d, fail) ELSE d
<1>1. /\ DOMAIN step = sids
      /\ \A sid \in sids : /\ SessionOK(step[sid].sess) /\ ~Up(step[sid].sess)
                           /\ step[sid].dp = IF Up(t.sess[sid]) THEN "del" ELSE "none"
  BY OtherSteps DEF TunnelOK, StepOK
<1>2. DOMAIN f = sids /\ \A sid \in sids : f[sid] = step[sid].sess
  BY DEF TunnelOK
<1>3. \A sid \in sids :
        sid \in gone <=> Up(t.sess[sid]) /\ del_session_works(t.dp, sid, fail)
  BY <1>1 DEF TunnelOK
<1>4. u = IF ~v.dp_added THEN v
          ELSE [v EXCEPT !.dp = del_tunnel(@, fail), !.dp_added = FALSE]
  BY DEF SessionsDown
<1> HIDE DEF step, gone, f
<1>5. /\ DOMAIN u = TunnelFields /\ u.dp = e /\ u.dp_added = FALSE /\ u.peer = t.peer
      /\ u.fsm = t.fsm /\ u.hello = t.hello /\ u.by_remote = t.by_remote /\ u.sess = f
  <2> HIDE DEF d
  <2>1. /\ DOMAIN v = TunnelFields /\ v.dp = d /\ v.dp_added = t.dp_added /\ v.peer = t.peer
        /\ v.fsm = t.fsm /\ v.hello = t.hello /\ v.by_remote = t.by_remote /\ v.sess = f
    BY DEF TunnelOK, TunnelFields
  <2>2. t.dp_added \in BOOLEAN
    BY DEF TunnelOK
  <2> HIDE DEF v
  <2>3. CASE t.dp_added
    BY <1>4, <2>1, <2>3 DEF TunnelFields
  <2>4. CASE ~t.dp_added
    BY <1>4, <2>1, <2>2, <2>4
  <2> QED BY <2>3, <2>4
<1>6. DpOK(sids, t.dp)
  BY DEF TunnelOK
<1>7. /\ DpOK(sids, d)
      /\ d.tunnel = t.dp.tunnel /\ d.ktunnel = t.dp.ktunnel
      /\ d.sessions = t.dp.sessions \ gone
      /\ \A sid \in sids :
            d.ksessions[sid] = IF sid \in gone THEN NoSession ELSE t.dp.ksessions[sid]
  BY <1>6, ForgetFacts
<1>8. DpOK(sids, e)
  BY <1>7, DelTunnelOK
<1>9. /\ TunnelOK(cfg, u) /\ FsmKept(t, u)
      /\ u.sess = f /\ u.dp = e /\ u.dp_added = FALSE
  <2> HIDE DEF e
  <2>1. \A sid \in sids : SessionOK(f[sid])
    BY <1>1, <1>2
  <2>2. TunnelOK(cfg, u)
    BY <1>2, <1>5, <1>8, <2>1, ReplaceOK
  <2> QED BY <1>5, <2>2 DEF FsmKept
<1>10. ASSUME NEW failed, KernelOK(cfg, t.sess, t.dp, t.dp_added, failed)
       PROVE  KernelOK(cfg, f, e, FALSE, failed \cup fail)
  <2> DEFINE more == failed \cup fail
  <2>1. \A sid \in sids : NetdevOK(cfg.sessions[sid], sid, f[sid], d, more)
    <3> SUFFICES ASSUME NEW sid \in sids
                 PROVE  NetdevOK(cfg.sessions[sid], sid, f[sid], d, more)
      OBVIOUS
    <3>1. NetdevOK(cfg.sessions[sid], sid, t.sess[sid], t.dp, failed) /\ ~Up(f[sid])
      BY <1>1, <1>2, <1>10 DEF KernelOK
    <3>2. CASE Up(t.sess[sid])
      BY <1>3, <1>6, <3>1, <3>2, NetdevDeleted
    <3>3. CASE ~Up(t.sess[sid])
      <4>1. sid \notin gone
        BY <1>3, <3>3
      <4>2. NetdevOK(cfg.sessions[sid], sid, f[sid], t.dp, failed)
        BY <3>1, <3>3 DEF NetdevOK
      <4> QED BY <1>7, <4>1, <4>2, NetdevFrame
    <3> QED BY <3>2, <3>3
  <2>2. \A sid \in sids : NetdevOK(cfg.sessions[sid], sid, f[sid], e, more)
    <3> SUFFICES ASSUME NEW sid \in sids
                 PROVE  NetdevOK(cfg.sessions[sid], sid, f[sid], e, more)
      OBVIOUS
    <3>1. ~Up(f[sid])
      BY <1>1, <1>2
    <3> QED BY <1>7, <2>1, <3>1, DelTunnelOK
  <2>3. d.tunnel <=> d.ktunnel
    BY <1>7, <1>10 DEF KernelOK
  <2>4. e.tunnel <=> e.ktunnel
    BY <1>7, <2>3, DelTunnelOK
  <2> HIDE DEF e
  <2> QED BY <2>2, <2>4 DEF KernelOK
<1>11. KernelStep(cfg, t, u, fail)
  BY <1>9, <1>10 DEF KernelStep
<1> QED BY <1>9, <1>11

\* What a handler of the TunnelFSM may do: whatever becomes of the HELLO timer,
\* it is armed afterwards exactly if the tunnel is ESTABLISHED.
Armed(hello, step) ==
    CASE step.hello = "set"   -> TRUE
      [] step.hello = "clear" -> FALSE
      [] OTHER                -> hello

FsmStepOK(hello, step) ==
    /\ step.state \in TunnelStates
    /\ Armed(hello, step) \in BOOLEAN
    /\ Armed(hello, step) <=> step.state = "ESTABLISHED"

\* Every handler of the TunnelFSM is of this kind; after a local close the
\* tunnel is not ESTABLISHED; on_hello_timer sets the timer that has fired
\* again.
LEMMA FsmSteps ==
  ASSUME NEW state \in TunnelStates, NEW hello \in BOOLEAN, NEW ccid, NEW m
  PROVE  /\ (hello <=> state = "ESTABLISHED") =>
              /\ FsmStepOK(hello, on_tunnel_message(state, m, ccid))
              /\ FsmStepOK(hello, on_local_open(state, ccid))
              /\ FsmStepOK(hello, on_local_close(state, ccid))
              /\ FsmStepOK(hello, on_peer_dead(state))
         /\ FsmStepOK(FALSE, on_hello_timer(state))
         /\ (hello <=> state = "ESTABLISHED") =>
              on_local_close(state, ccid).state # "ESTABLISHED"
<1> USE DEF Step, Nothing, TornDown, FsmStepOK, Armed, TunnelStates
<1>1. FsmStepOK(FALSE, on_hello_timer(state))
  BY DEF on_hello_timer
<1> SUFFICES ASSUME hello <=> state = "ESTABLISHED"
             PROVE  /\ FsmStepOK(hello, on_tunnel_message(state, m, ccid))
                    /\ FsmStepOK(hello, on_local_open(state, ccid))
                    /\ FsmStepOK(hello, on_local_close(state, ccid))
                    /\ FsmStepOK(hello, on_peer_dead(state))
                    /\ on_local_close(state, ccid).state # "ESTABLISHED"
  BY <1>1
<1>2. FsmStepOK(hello, Nothing(state)) /\ FsmStepOK(hello, teardown_and_notify(state, ccid))
  BY DEF teardown_and_notify
<1>3. FsmStepOK(hello, BackToIdle(state))
  BY DEF BackToIdle
<1>4. FsmStepOK(hello, on_local_open(state, ccid))
  BY DEF on_local_open
<1>5. /\ FsmStepOK(hello, on_local_close(state, ccid))
      /\ on_local_close(state, ccid).state # "ESTABLISHED"
  BY DEF on_local_close, teardown_and_notify
<1>6. state = "IDLE" => FsmStepOK(hello, Step("WAIT_CTL_CONN", build_sccrp(ccid), "keep", "none"))
  OBVIOUS
<1>7. \A body : FsmStepOK(hello, Step("ESTABLISHED", body, "set", "established"))
  OBVIOUS
<1> HIDE DEF Step, Nothing, TornDown, FsmStepOK, Armed, TunnelStates
<1>8. FsmStepOK(hello, on_sccrq(state, m, ccid))
  BY <1>2, <1>6 DEF on_sccrq
<1>9. FsmStepOK(hello, on_sccrp(state, m, ccid)) /\ FsmStepOK(hello, on_scccn(state))
  BY <1>2, <1>7 DEF on_sccrp, on_scccn
<1>10. FsmStepOK(hello, on_tunnel_message(state, m, ccid))
  BY <1>2, <1>3, <1>8, <1>9 DEF on_tunnel_message, on_stopccn
<1> QED BY <1>3, <1>4, <1>5, <1>10 DEF on_peer_dead

\* A call of the Tunnel leaves its attributes, the HELLO timer and the kernel
\* in order.
CallOK(cfg, t, u, fail) ==
    TunnelOK(cfg, u) /\ HelloOK(u) /\ KernelStep(cfg, t, u, fail)

\* A handler of the TunnelFSM and its actions.
LEMMA ExecuteOK ==
  ASSUME NEW cfg, ConfigOK(cfg), NEW t, TunnelOK(cfg, t), NEW fail,
         NEW step, FsmStepOK(t.hello, step),
         NEW u, u = Execute(cfg, t, step, fail)
  PROVE  /\ CallOK(cfg, t, u, fail)
         /\ u.fsm = step.state
         /\ u.peer.dead = t.peer.dead
<1> DEFINE w == Emit(cfg, t, step.send)
           h == Armed(w.hello, step)
           v == [w EXCEPT !.fsm = step.state, !.hello = h]
<1>1. TunnelOK(cfg, w) /\ SentOnly(t, w)
  BY EmitOK
<1>2. u = CASE step.signal = "established" -> SessionsUp(cfg, v)
            [] step.signal = "torndown"    -> SessionsDown(cfg, v, fail)
            [] OTHER                       -> v
  BY DEF Execute, Armed
<1> HIDE DEF w
<1>3. /\ step.state \in TunnelStates /\ h \in BOOLEAN
      /\ h <=> step.state = "ESTABLISHED"
  BY <1>1 DEF SentOnly, FsmStepOK
<1> HIDE DEF h
<1>4. /\ DOMAIN v = TunnelFields /\ v.dp = w.dp /\ v.dp_added = w.dp_added /\ v.peer = w.peer
      /\ v.fsm = step.state /\ v.hello = h /\ v.by_remote = w.by_remote /\ v.sess = w.sess
  BY <1>1 DEF TunnelOK, TunnelFields
<1> HIDE DEF v
<1>5. TunnelOK(cfg, v) /\ HelloOK(v)
  BY <1>1, <1>3, <1>4 DEF TunnelOK, HelloOK
<1>6. v.sess = t.sess /\ v.dp = t.dp /\ v.dp_added = t.dp_added /\ v.peer.dead = t.peer.dead
  BY <1>1, <1>4 DEF SentOnly
<1>7. TunnelOK(cfg, u) /\ FsmKept(v, u) /\ KernelStep(cfg, v, u, fail)
  <2>1. CASE step.signal = "established"
    BY <1>2, <1>5, <2>1, SessionsUpOK
  <2>2. CASE step.signal = "torndown"
    BY <1>2, <1>5, <2>2, SessionsDownOK
  <2>3. CASE step.signal \notin {"established", "torndown"}
    <3>1. u = v
      BY <1>2, <2>3
    <3> QED BY <1>5, <3>1, KernelUnchanged DEF FsmKept
  <2> QED BY <2>1, <2>2, <2>3
<1>8. KernelStep(cfg, t, u, fail)
  BY <1>6, <1>7 DEF KernelStep
<1>9. HelloOK(u) /\ u.fsm = step.state /\ u.peer.dead = t.peer.dead
  BY <1>4, <1>5, <1>6, <1>7 DEF HelloOK, FsmKept
<1> QED BY <1>7, <1>8, <1>9 DEF CallOK

-----------------------------------------------------------------------------
(* Entry points *)

\* start() keeps the tunnel in order.
LEMMA StartOK ==
  ASSUME NEW cfg, ConfigOK(cfg), NEW t, TunnelOK(cfg, t), HelloOK(t),
         NEW u, u = start(cfg, t)
  PROVE  CallOK(cfg, t, u, {}) /\ u.peer.dead = t.peer.dead
<1> DEFINE step == on_local_open(t.fsm, cfg.local_ccid)
<1>1. FsmStepOK(t.hello, step)
  BY FsmSteps DEF TunnelOK, HelloOK
<1>2. u = Execute(cfg, t, step, {})
  BY DEF start
<1> HIDE DEF step
<1> QED BY <1>1, <1>2, ExecuteOK

\* So does close(), which deletes the tunnel from the kernel.
LEMMA CloseOK ==
  ASSUME NEW cfg, ConfigOK(cfg), NEW t, TunnelOK(cfg, t), HelloOK(t), NEW fail,
         NEW u, u = close(cfg, t, fail)
  PROVE  CallOK(cfg, t, u, fail) /\ u.peer.dead = t.peer.dead
<1> DEFINE step == on_local_close(t.fsm, cfg.local_ccid)
           v == Execute(cfg, t, step, fail)
<1>1. FsmStepOK(t.hello, step) /\ step.state # "ESTABLISHED"
  BY FsmSteps DEF TunnelOK, HelloOK
<1>2. u = [v EXCEPT !.hello = FALSE]
  BY DEF close
<1> HIDE DEF step
<1>3. CallOK(cfg, t, v, fail) /\ v.fsm = step.state /\ v.peer.dead = t.peer.dead
  BY <1>1, ExecuteOK
<1> HIDE DEF v
<1>4. v.hello = FALSE
  BY <1>1, <1>3 DEF CallOK, HelloOK, TunnelOK
<1>5. /\ DOMAIN u = TunnelFields /\ u.dp = v.dp /\ u.dp_added = v.dp_added /\ u.peer = v.peer
      /\ u.fsm = v.fsm /\ u.hello = v.hello /\ u.by_remote = v.by_remote /\ u.sess = v.sess
  BY <1>2, <1>3, <1>4 DEF CallOK, TunnelOK, TunnelFields
<1>6. TunnelOK(cfg, u) /\ HelloOK(u)
  BY <1>3, <1>5 DEF CallOK, TunnelOK, HelloOK
<1>7. KernelStep(cfg, t, u, fail)
  BY <1>3, <1>5 DEF CallOK, KernelStep
<1> QED BY <1>3, <1>5, <1>6, <1>7 DEF CallOK

\* _on_hello_timer()
LEMMA HelloTimerOK ==
  ASSUME NEW cfg, ConfigOK(cfg), NEW t, TunnelOK(cfg, t), NEW fail,
         NEW u, u = hello_timer(cfg, t, fail)
  PROVE  CallOK(cfg, t, u, fail) /\ u.peer.dead = t.peer.dead
<1> DEFINE step == on_hello_timer(t.fsm)
           v == [t EXCEPT !.hello = FALSE]
<1>1. FsmStepOK(FALSE, step)
  BY FsmSteps DEF TunnelOK
<1>2. u = Execute(cfg, v, step, fail)
  BY DEF hello_timer
<1> HIDE DEF step
<1>3. /\ DOMAIN v = TunnelFields /\ v.dp = t.dp /\ v.dp_added = t.dp_added /\ v.peer = t.peer
      /\ v.fsm = t.fsm /\ v.hello = FALSE /\ v.by_remote = t.by_remote /\ v.sess = t.sess
  BY DEF TunnelOK, TunnelFields
<1> HIDE DEF v
<1>4. TunnelOK(cfg, v)
  BY <1>3 DEF TunnelOK
<1>5. FsmStepOK(v.hello, step)
  BY <1>1, <1>3
<1>6. CallOK(cfg, v, u, fail) /\ u.peer.dead = v.peer.dead
  BY <1>2, <1>4, <1>5, ExecuteOK
<1> QED BY <1>3, <1>6 DEF CallOK, KernelStep

\* tick()
LEMMA TunnelTickOK ==
  ASSUME NEW cfg, ConfigOK(cfg), NEW t, TunnelOK(cfg, t), HelloOK(t), NEW expired, NEW fail,
         NEW u, u = tunnel_tick(cfg, t, expired, fail)
  PROVE  CallOK(cfg, t, u, fail)
<1> DEFINE p == tick(t.peer, expired)
           again == Ascending(Resent(t.peer, expired))
           sent == [k \in DOMAIN again |-> Wire(resend(t.peer, again[k]), None)]
           v == Put([t EXCEPT !.peer = p], sent)
           step == on_peer_dead(v.fsm)
<1>1. u = IF p.dead THEN Execute(cfg, v, step, fail) ELSE v
  BY DEF tunnel_tick
<1>2. PeerOK(p)
  BY TickOK DEF TunnelOK
<1> HIDE DEF p, sent
<1>3. /\ TunnelOK(cfg, v)
      /\ v.fsm = t.fsm /\ v.hello = t.hello /\ v.sess = t.sess /\ v.dp = t.dp
      /\ v.dp_added = t.dp_added
  <2>1. TunnelOK(cfg, v)
    BY <1>2, PutOK
  <2>2. /\ v.fsm = t.fsm /\ v.hello = t.hello /\ v.sess = t.sess /\ v.dp = t.dp
        /\ v.dp_added = t.dp_added
    BY DEF Put, TunnelOK, TunnelFields
  <2> QED BY <2>1, <2>2
<1> HIDE DEF v
<1>4. HelloOK(v)
  BY <1>3 DEF HelloOK
<1>5. FsmStepOK(v.hello, step)
  BY <1>3, <1>4, FsmSteps DEF TunnelOK, HelloOK
<1> HIDE DEF step
<1>6. CallOK(cfg, v, u, fail)
  <2>1. CASE p.dead
    BY <1>1, <1>3, <1>5, <2>1, ExecuteOK
  <2>2. CASE ~p.dead
    <3>1. u = v
      BY <1>1, <2>2
    <3>2. KernelStep(cfg, v, u, fail)
      BY <3>1, KernelUnchanged
    <3> QED BY <1>3, <1>4, <3>1, <3>2 DEF CallOK
  <2> QED BY <2>1, <2>2
<1> QED BY <1>3, <1>6 DEF CallOK, KernelStep

\* SessionFSM.on_local_close and its actions
LEMMA SessionCloseOK ==
  ASSUME NEW cfg, NEW t, TunnelOK(cfg, t), HelloOK(t), NEW fail,
         NEW sid \in DOMAIN cfg.sessions,
         NEW u, u = session_close(cfg, t, sid, fail)
  PROVE  CallOK(cfg, t, u, fail) /\ u.peer.dead = t.peer.dead
<1> DEFINE step == on_session_close(cfg.sessions[sid], t.sess[sid])
<1>1. StepOK(t.sess[sid], step)
  BY OtherSteps DEF TunnelOK
<1>2. u = ExecuteSession(cfg, t, sid, step, fail)
  BY DEF session_close
<1> HIDE DEF step
<1>3. TunnelOK(cfg, u) /\ FsmKept(t, u) /\ KernelStep(cfg, t, u, fail)
  BY <1>1, <1>2, ExecuteSessionOK
<1> QED BY <1>3 DEF CallOK, FsmKept, HelloOK

\* The session a message is for is one of the tunnel's, or none (0).
LEMMA RecipientType ==
  ASSUME NEW cfg, ConfigOK(cfg), NEW t, TunnelOK(cfg, t), NEW m
  PROVE  Recipient(cfg, t, m) \in DOMAIN cfg.sessions \cup {0}
<1>1. IdleSession(cfg, t, m.end) \in DOMAIN cfg.sessions \cup {0}
  <2> DEFINE Fits(sid) == t.sess[sid].state = "IDLE"
                          /\ m.end \in {None, cfg.sessions[sid].name}
             order == cfg.order
             I == {i \in 1 .. Len(order) : Fits(order[i])}
             i == IF I # {} THEN Min(I) ELSE 0
  <2>1. IdleSession(cfg, t, m.end) = IF i = 0 THEN 0 ELSE order[i]
    BY DEF IdleSession, SelectInSeq
  <2>2. Len(order) \in Nat /\ \A j \in 1 .. Len(order) : order[j] \in DOMAIN cfg.sessions
    BY DEF ConfigOK
  <2>3. I \subseteq 1 .. Len(order)
    OBVIOUS
  <2> HIDE DEF I
  <2>4. I # {} => Min(I) \in 1 .. Len(order)
    <3> SUFFICES ASSUME I # {} PROVE Min(I) \in 1 .. Len(order)
      OBVIOUS
    <3>1. I \subseteq Nat
      BY <2>2, <2>3
    <3>2. \E x \in I : \A y \in I : x <= y
      BY <3>1, SmallestExists
    <3> QED BY <2>3, <3>2 DEF Min
  <2>5. i \in 1 .. Len(order) \cup {0}
    BY <2>4
  <2> HIDE DEF i
  <2> QED BY <2>1, <2>2, <2>5
<1>2. m.lsid \in DOMAIN t.by_remote => t.by_remote[m.lsid] \in DOMAIN cfg.sessions
  BY DEF TunnelOK
<1> QED BY <1>1, <1>2 DEF Recipient

\* _dispatch_session_message()
LEMMA DispatchOK ==
  ASSUME NEW cfg, ConfigOK(cfg), NEW t, TunnelOK(cfg, t), HelloOK(t), NEW fail,
         NEW m, m.t \in SessionTypes,
         NEW u, u = dispatch_session_message(cfg, t, m, fail)
  PROVE  CallOK(cfg, t, u, fail) /\ u.peer.dead = t.peer.dead
<1> DEFINE sid  == Recipient(cfg, t, m)
           step == on_session_message(cfg.sessions[sid], t.sess[sid], m)
           key  == step.sess.peer_sid
           dict == Indexed(t.by_remote, key, sid)
           x    == [t EXCEPT !.by_remote = dict]
           v    == IF key \in DOMAIN t.by_remote \cup {0} THEN t ELSE x
<1>1. u = IF ~m.ok \/ sid = 0 THEN t ELSE ExecuteSession(cfg, v, sid, step, fail)
  BY DEF dispatch_session_message
<1>2. sid \in DOMAIN cfg.sessions \cup {0}
  BY RecipientType
<1> HIDE DEF sid
<1>3. CASE ~m.ok \/ sid = 0
  <2>1. u = t
    BY <1>1, <1>3
  <2>2. KernelStep(cfg, t, u, fail)
    BY <2>1, KernelUnchanged
  <2> QED BY <2>1, <2>2 DEF CallOK
<1>4. CASE m.ok /\ sid # 0
  <2>1. sid \in DOMAIN cfg.sessions
    BY <1>2, <1>4
  <2>2. StepOK(t.sess[sid], step)
    BY <2>1, MessageStep DEF TunnelOK
  <2> HIDE DEF step
  <2>3. \A k \in DOMAIN dict : dict[k] \in DOMAIN cfg.sessions
    BY <2>1 DEF Indexed, TunnelOK
  <2> HIDE DEF key, dict
  <2>4. /\ DOMAIN x = TunnelFields /\ x.dp = t.dp /\ x.dp_added = t.dp_added /\ x.peer = t.peer
        /\ x.fsm = t.fsm /\ x.hello = t.hello /\ x.by_remote = dict /\ x.sess = t.sess
    BY DEF TunnelOK, TunnelFields
  <2> HIDE DEF x
  <2>5. TunnelOK(cfg, x)
    BY <2>3, <2>4 DEF TunnelOK
  <2>6. /\ TunnelOK(cfg, v)
        /\ v.dp = t.dp /\ v.dp_added = t.dp_added /\ v.peer = t.peer
        /\ v.fsm = t.fsm /\ v.hello = t.hello /\ v.sess = t.sess
    BY <2>4, <2>5
  <2> HIDE DEF v
  <2>7. u = ExecuteSession(cfg, v, sid, step, fail)
    BY <1>1, <1>4
  <2>8. TunnelOK(cfg, u) /\ FsmKept(v, u) /\ KernelStep(cfg, v, u, fail)
    BY <2>1, <2>2, <2>6, <2>7, ExecuteSessionOK
  <2>9. KernelStep(cfg, t, u, fail)
    BY <2>6, <2>8 DEF KernelStep
  <2> QED BY <2>6, <2>8, <2>9 DEF CallOK, FsmKept, HelloOK
<1> QED BY <1>3, <1>4

\* handle_datagram(), whatever the datagram is.
LEMMA HandleDatagramOK ==
  ASSUME NEW cfg, ConfigOK(cfg), NEW t, TunnelOK(cfg, t), HelloOK(t), NEW wire, NEW fail,
         NEW u, u = handle_datagram(cfg, t, wire, fail)
  PROVE  CallOK(cfg, t, u, fail) /\ u.peer.dead = t.peer.dead
<1> DEFINE msg   == wire.msg
           v     == LearnCcid(t, msg)
           acks  == SetToSeq({Wire(r, None) : r \in responses(v.peer, msg)})
           p     == receive(v.peer, msg)
           w     == Put([v EXCEPT !.peer = p], acks)
           batch == delivered(v.peer, msg)
           m     == Merged(batch)
           step  == on_tunnel_message(w.fsm, m, cfg.local_ccid)
<1>1. u = IF ~Verified(cfg, wire)       THEN t
          ELSE IF batch = <<>>          THEN w
          ELSE IF m.t \in SessionTypes  THEN dispatch_session_message(cfg, w, m, fail)
          ELSE Execute(cfg, w, step, fail)
  BY DEF handle_datagram
<1>2. TunnelOK(cfg, v) /\ SentOnly(t, v)
  <2> DEFINE ccid == msg.body.ccid
             x == [t EXCEPT !.peer.remote_ccid = ccid]
  <2>1. v = t \/ v = x
    BY DEF LearnCcid
  <2> HIDE DEF v, ccid
  <2>2. /\ DOMAIN x.peer = PeerFields /\ x.peer.ns_send = t.peer.ns_send
        /\ x.peer.nr_expect = t.peer.nr_expect /\ x.peer.reorder = t.peer.reorder
        /\ x.peer.send_queue = t.peer.send_queue /\ x.peer.dead = t.peer.dead
    BY DEF TunnelOK, TunnelFields, PeerOK, PeerFields
  <2>3. /\ DOMAIN x = TunnelFields /\ x.dp = t.dp /\ x.dp_added = t.dp_added
        /\ x.fsm = t.fsm /\ x.hello = t.hello /\ x.by_remote = t.by_remote /\ x.sess = t.sess
    BY DEF TunnelOK, TunnelFields
  <2> HIDE DEF x
  <2>4. PeerOK(x.peer)
    BY <2>2 DEF TunnelOK, PeerOK
  <2>5. TunnelOK(cfg, x) /\ SentOnly(t, x)
    BY <2>2, <2>3, <2>4 DEF TunnelOK, SentOnly
  <2> QED BY <2>1, <2>5 DEF SentOnly
<1> HIDE DEF v
<1>3. PeerOK(p) /\ p.dead = v.peer.dead
  BY <1>2, ReceiveOK DEF TunnelOK
<1> HIDE DEF p, acks
<1>4. TunnelOK(cfg, w) /\ SentOnly(v, w)
  BY <1>2, <1>3, PutOK
<1> HIDE DEF w, batch, m
<1>5. SentOnly(t, w) /\ HelloOK(w)
  BY <1>2, <1>4 DEF SentOnly, HelloOK
<1>6. FsmStepOK(w.hello, step)
  BY <1>4, <1>5, FsmSteps DEF TunnelOK, HelloOK
<1> HIDE DEF step
<1>7. u # t => CallOK(cfg, w, u, fail) /\ u.peer.dead = w.peer.dead
  <2>1. CASE u = w
    <3>1. KernelStep(cfg, w, u, fail)
      BY <2>1, KernelUnchanged
    <3> QED BY <1>4, <1>5, <2>1, <3>1 DEF CallOK
  <2>2. CASE m.t \in SessionTypes /\ u = dispatch_session_message(cfg, w, m, fail)
    BY <1>4, <1>5, <2>2, DispatchOK
  <2>3. CASE u = Execute(cfg, w, step, fail)
    BY <1>4, <1>6, <2>3, ExecuteOK
  <2> QED BY <1>1, <2>1, <2>2, <2>3
<1>8. CASE u = t
  <2>1. KernelStep(cfg, t, u, fail)
    BY <1>8, KernelUnchanged
  <2> QED BY <1>8, <2>1 DEF CallOK
<1>9. CASE u # t
  BY <1>5, <1>7, <1>9 DEF CallOK, KernelStep, SentOnly
<1> QED BY <1>8, <1>9

\* The datagrams to transmit do not matter to the rest.
LEMMA OutSet ==
  ASSUME NEW cfg, NEW v, TunnelOK(cfg, v), NEW out,
         NEW u, u = [v EXCEPT !.out = out]
  PROVE  /\ TunnelOK(cfg, u) /\ u.out = out
         /\ u.peer = v.peer /\ u.fsm = v.fsm /\ u.hello = v.hello
         /\ u.sess = v.sess /\ u.dp = v.dp /\ u.dp_added = v.dp_added
<1>1. /\ DOMAIN u = TunnelFields /\ u.dp = v.dp /\ u.dp_added = v.dp_added /\ u.peer = v.peer
      /\ u.fsm = v.fsm /\ u.hello = v.hello /\ u.by_remote = v.by_remote /\ u.sess = v.sess
      /\ u.out = out
  BY DEF TunnelOK, TunnelFields
<1>2. TunnelOK(cfg, u)
  BY <1>1 DEF TunnelOK
<1> QED BY <1>1, <1>2

\* The transport takes over what the call put out.
LEMMA OutTaken ==
  ASSUME NEW cfg, NEW t, NEW v, NEW fail, CallOK(cfg, t, v, fail),
         NEW u, u = [v EXCEPT !.out = <<>>]
  PROVE  CallOK(cfg, t, u, fail) /\ u.peer = v.peer /\ u.out = <<>>
<1>1. /\ TunnelOK(cfg, u) /\ u.out = <<>>
      /\ u.peer = v.peer /\ u.fsm = v.fsm /\ u.hello = v.hello
      /\ u.sess = v.sess /\ u.dp = v.dp /\ u.dp_added = v.dp_added
  BY OutSet, SMTT(20) DEF CallOK
<1>2. HelloOK(u) /\ KernelStep(cfg, t, u, fail)
  BY <1>1 DEF CallOK, HelloOK, KernelStep
<1> QED BY <1>1, <1>2 DEF CallOK

\* Tunnel.__init__
LEMMA NewTunnelOK ==
  ASSUME NEW cfg, NEW dp, DpOK(DOMAIN cfg.sessions, dp),
         NEW t, t = NewTunnel(cfg, dp)
  PROVE  /\ TunnelOK(cfg, t) /\ HelloOK(t) /\ ~t.peer.dead
         /\ t.dp = dp /\ t.dp_added = FALSE
         /\ \A sid \in DOMAIN cfg.sessions : ~Up(t.sess[sid])
<1> DEFINE p == NewPeer(cfg.local_ccid, cfg.remote_ccid)
           f == [sid \in DOMAIN cfg.sessions |-> NewSession]
<1>1. PeerOK(p) /\ ~p.dead
  BY NewPeerOK
<1>2. DOMAIN f = DOMAIN cfg.sessions
      /\ \A sid \in DOMAIN cfg.sessions : SessionOK(f[sid]) /\ ~Up(f[sid])
  BY DEF NewSession, SessionOK, SessionFields, SessionStates, Up
<1>3. t = [peer |-> p, fsm |-> "IDLE", hello |-> FALSE, sess |-> f, by_remote |-> <<>>,
           dp_added |-> FALSE, dp |-> dp, out |-> <<>>]
  BY DEF NewTunnel
<1> HIDE DEF p, f
<1>4. /\ DOMAIN t = TunnelFields /\ t.peer = p /\ t.fsm = "IDLE" /\ t.hello = FALSE
      /\ t.sess = f /\ t.by_remote = <<>> /\ t.dp_added = FALSE /\ t.dp = dp
  BY <1>3 DEF TunnelFields
<1>5. DOMAIN t.by_remote = {}
  BY <1>4
<1>6. TunnelOK(cfg, t)
  BY <1>1, <1>2, <1>4, <1>5 DEF TunnelOK, TunnelStates
<1> QED BY <1>1, <1>2, <1>4, <1>6 DEF HelloOK

\* NewDataplane(), on a kernel without L2TP tunnels: nothing is missing and
\* nothing is left over.
LEMMA NewDataplaneOK ==
  ASSUME NEW cfg, NEW sess, \A sid \in DOMAIN cfg.sessions : ~Up(sess[sid]),
         NEW dp, dp = NewDataplane(DOMAIN cfg.sessions)
  PROVE  /\ DpOK(DOMAIN cfg.sessions, dp)
         /\ KernelOK(cfg, sess, dp, FALSE, {})
<1> DEFINE sids == DOMAIN cfg.sessions
           f == [sid \in sids |-> NoSession]
<1>1. DOMAIN f = sids /\ \A sid \in sids : f[sid] = NoSession
  OBVIOUS
<1>2. dp = [tunnel |-> FALSE, sessions |-> {}, ktunnel |-> FALSE, ksessions |-> f]
  BY DEF NewDataplane
<1> HIDE DEF f
<1>3. DOMAIN dp = DpFields /\ dp.tunnel = FALSE /\ dp.sessions = {} /\ dp.ktunnel = FALSE
      /\ dp.ksessions = f
  BY <1>2 DEF DpFields
<1>4. DpOK(sids, dp)
  BY <1>1, <1>3 DEF DpOK
<1>5. \A sid \in sids : NetdevOK(cfg.sessions[sid], sid, sess[sid], dp, {})
  BY <1>1, <1>3 DEF NetdevOK
<1> QED BY <1>3, <1>4, <1>5 DEF KernelOK

-----------------------------------------------------------------------------
(* What a call does to the Peer and puts out *)

\* Some numbers of 1 .. m have a largest one among them.
LEMMA LargestExists ==
  ASSUME NEW m \in Nat, NEW T, T \subseteq 1 .. m, T # {}
  PROVE  \E x \in T : \A y \in T : y <= x
<1>0. \A x \in T : x \in Int
  OBVIOUS
<1> DEFINE D == {m - x : x \in T}
<1>1. D \subseteq Nat /\ D # {}
  <2>1. \A x \in T : m - x \in Nat
    OBVIOUS
  <2>2. PICK x : x \in T
    OBVIOUS
  <2>3. m - x \in D
    BY <2>2
  <2> QED BY <2>1, <2>3
<1>2. PICK d \in D : \A y \in D : d <= y
  BY <1>1, SmallestExists
<1>3. PICK x \in T : d = m - x
  OBVIOUS
<1>4. ASSUME NEW y \in T PROVE y <= x
  <2>1. m - y \in D
    OBVIOUS
  <2>2. m - x <= m - y
    BY <1>2, <1>3, <2>1
  <2>3. x \in Int /\ y \in Int
    BY <1>0
  <2> HIDE DEF D
  <2> QED BY <2>2, <2>3, SMTT(20)
<1> QED BY <1>4

\* Ascending() lists members of the set: every rank is someone's.
LEMMA AscendingMembers ==
  ASSUME NEW m \in Nat, NEW S, S \subseteq 1 .. m
  PROVE  /\ Cardinality(S) \in 0 .. m
         /\ Listed(Ascending(S)) /\ DOMAIN Ascending(S) = 1 .. Cardinality(S)
         /\ \A k \in 1 .. Cardinality(S) : Ascending(S)[k] \in S
<1> DEFINE Upto(i) == {j \in S : j <= i}
           rank(i) == Cardinality(Upto(i))
           n == Cardinality(S)
<1>1. IsFiniteSet(1 .. m) /\ Cardinality(1 .. m) = m
  BY FS_Interval
<1>2. IsFiniteSet(S) /\ n \in 0 .. m
  <2>1. IsFiniteSet(S) /\ Cardinality(S) <= Cardinality(1 .. m)
    BY <1>1, FS_Subset
  <2> QED BY <1>1, <2>1, FS_CardinalityType
<1>3. \A i : IsFiniteSet(Upto(i)) /\ rank(i) \in Nat
  <2> SUFFICES ASSUME NEW i PROVE IsFiniteSet(Upto(i)) /\ rank(i) \in Nat
    OBVIOUS
  <2>1. Upto(i) \in SUBSET S
    OBVIOUS
  <2> HIDE DEF Upto
  <2>2. IsFiniteSet(Upto(i))
    BY <1>2, <2>1, FS_Subset
  <2> QED BY <2>2, FS_CardinalityType
<1>4. ASSUME NEW k \in 1 .. n PROVE \E i \in S : rank(i) = k
  <2> DEFINE T == {i \in S : rank(i) >= k}
  <2>1. T # {}
    <3>1. S # {}
      BY <1>2, FS_EmptySet
    <3>2. PICK x \in S : \A y \in S : y <= x
      BY <3>1, LargestExists
    <3>3. Upto(x) = S
      BY <3>2
    <3>4. rank(x) = n
      BY <3>3
    <3> HIDE DEF rank, n
    <3> QED BY <1>2, <3>4
  <2>2. T \subseteq Nat
    <3> HIDE DEF rank
    <3>1. S \subseteq Nat
      OBVIOUS
    <3> QED BY <3>1
  <2> HIDE DEF T
  <2>3. PICK i \in T : \A y \in T : i <= y
    BY <2>1, <2>2, SmallestExists
  <2>4. i \in S /\ i \in Nat /\ rank(i) >= k
    BY <2>3 DEF T
  <2>5. ASSUME rank(i) # k PROVE FALSE
    <3> DEFINE Below == Upto(i) \ {i}
    <3>1. i \in Upto(i)
      BY <2>4
    <3>2. Cardinality(Below) = rank(i) - 1 /\ IsFiniteSet(Below)
      <4> HIDE DEF Upto
      <4> QED BY <1>3, <3>1, FS_RemoveElement
    <3>3. Cardinality(Below) >= k /\ Cardinality(Below) # 0
      <4>1. rank(i) \in Nat
        BY <1>3
      <4> HIDE DEF rank, Below, n
      <4>2. n \in Int /\ k \in 1 .. n
        BY <1>2
      <4> QED BY <2>4, <2>5, <3>2, <4>1, <4>2
    <3>4. Below # {} /\ Below \subseteq 1 .. m
      BY <3>2, <3>3, FS_EmptySet
    <3>5. PICK x \in Below : \A y \in Below : y <= x
      BY <3>4, LargestExists
    <3>6. x \in S /\ x < i
      BY <2>4
    <3>7. Upto(x) = Below
      <4>1. Upto(x) \subseteq Below
        <5> SUFFICES ASSUME NEW j \in S, j <= x PROVE j \in Below
          OBVIOUS
        <5>1. j \in Nat /\ x \in Nat
          BY <3>6
        <5>2. j <= i /\ j # i
          BY <2>4, <3>6, <5>1
        <5> QED BY <5>2
      <4>2. Below \subseteq Upto(x)
        BY <3>5
      <4> QED BY <4>1, <4>2
    <3>8. rank(x) = Cardinality(Below)
      BY <3>7
    <3> HIDE DEF rank, Below
    <3>9. x \in T
      BY <3>3, <3>6, <3>8 DEF T
    <3>10. i <= x
      BY <2>3, <3>9
    <3> QED BY <2>4, <3>6, <3>10
  <2> QED BY <2>4, <2>5
<1>5. Ascending(S) = [k \in 1 .. n |-> CHOOSE i \in S : rank(i) = k]
  BY DEF Ascending
<1> HIDE DEF rank, n
<1>6. Ascending(S) \in [1 .. n -> S]
  BY <1>4, <1>5
<1>7. Ascending(S) \in Seq(S)
  BY <1>2, <1>6, SeqDef
<1> QED BY <1>2, <1>6, <1>7 DEF Listed, n

\* SetToSeq() of a finite set lists members of it.
LEMMA SetToSeqMembers ==
  ASSUME NEW S, IsFiniteSet(S)
  PROVE  Listed(SetToSeq(S)) /\ \A i \in DOMAIN SetToSeq(S) : SetToSeq(S)[i] \in S
<1> DEFINE n == Cardinality(S)
<1>1. n \in Nat /\ ExistsBijection(1 .. n, S)
  BY FS_CardinalityType
<1>2. \E f \in [1 .. n -> S] : IsInjective(f)
  BY <1>1 DEF ExistsBijection, Bijection, Injection, IsInjective
<1>3. SetToSeq(S) = CHOOSE f \in [1 .. n -> S] : IsInjective(f)
  BY DEF SetToSeq
<1> HIDE DEF n
<1>4. SetToSeq(S) \in [1 .. n -> S]
  BY <1>2, <1>3
<1>5. SetToSeq(S) \in Seq(S)
  BY <1>1, <1>4, SeqDef
<1> QED BY <1>4, <1>5 DEF Listed

\* A call turns t into u: the Peer moves, and what is new in out is what a Peer
\* that moves so may transmit.
Moves(t, u, K, gone) ==
    /\ PeerMoves(t.peer, u.peer, K, gone)
    /\ Listed(u.out)
    /\ \A i \in DOMAIN u.out : \/ \E j \in DOMAIN t.out : u.out[i] = t.out[j]
                               \/ Sends(t.peer, u.peer, K, u.out[i].msg)

\* Datagrams that p may transmit on its way to q.
AllSent(p, q, K, wires) ==
    Listed(wires) /\ \A i \in DOMAIN wires : Sends(p, q, K, wires[i].msg)

\* The same of a call that takes nothing from the other end.
Emits(t, u, K) == Moves(t, u, K, {}) /\ Unsent(t.peer, u.peer)

\* A tunnel in order whose next n messages do not wrap the numbers.
Ready(cfg, t, n) ==
    /\ TunnelOK(cfg, t)
    /\ PendingOK(t.peer.send_queue)
    /\ Listed(t.out)
    /\ t.peer.ns_send + n < Modulus

\* One part of a call after the other.
LEMMA MovesCompose ==
  ASSUME NEW cfg, NEW t, NEW u, NEW v, NEW K, NEW gone,
         TunnelOK(cfg, t), TunnelOK(cfg, u), TunnelOK(cfg, v),
         Moves(t, u, K, gone), Emits(u, v, K)
  PROVE  Moves(t, v, K, gone)
<1> DEFINE p == t.peer
           q == u.peer
           r == v.peer
<1>1. p.ns_send \in Int /\ q.ns_send \in Int /\ r.ns_send \in Int
  BY ModulusAssumption DEF TunnelOK, PeerOK, SeqNum
<1>2. PeerMoves(p, q, K, gone) /\ PeerMoves(q, r, K, {}) /\ r.nr_expect = q.nr_expect
  BY DEF Moves, Emits, Unsent
<1>3. /\ \A i \in DOMAIN u.out : \/ \E j \in DOMAIN t.out : u.out[i] = t.out[j]
                                 \/ Sends(p, q, K, u.out[i].msg)
      /\ \A i \in DOMAIN v.out : \/ \E j \in DOMAIN u.out : v.out[i] = u.out[j]
                                 \/ Sends(q, r, K, v.out[i].msg)
      /\ Listed(v.out)
  BY DEF Moves, Emits
<1> HIDE DEF p, q, r
<1>4. p.ns_send <= q.ns_send /\ q.ns_send <= r.ns_send
  BY <1>1, <1>2 DEF PeerMoves
<1>5. \A n, b : \/ Issued(p, q, K, n, b)
                \/ Issued(q, r, K, n, b)
                => Issued(p, r, K, n, b)
  BY <1>1, <1>4 DEF Issued
<1>6. \A n, b : Stored(r, n, b) => Stored(p, n, b) \/ Issued(p, r, K, n, b)
  BY <1>2, <1>5 DEF PeerMoves
<1>7. \A n : Queued(p, n) => n \in gone \/ Queued(r, n)
  BY <1>2 DEF PeerMoves
<1>8. ASSUME NEW n \in p.ns_send .. r.ns_send - 1 PROVE Queued(r, n)
  <2>1. n \in p.ns_send .. q.ns_send - 1 \/ n \in q.ns_send .. r.ns_send - 1
    BY <1>1, <1>4
  <2> QED BY <1>2, <2>1 DEF PeerMoves
<1>9. PeerMoves(p, r, K, gone)
  <2>1. PendingOK(r.send_queue) /\ r.ns_send >= p.ns_send
    BY <1>1, <1>2, <1>4 DEF PeerMoves
  <2> QED BY <1>6, <1>7, <1>8, <2>1 DEF PeerMoves
<1>10. \A m : Sends(p, q, K, m) \/ Sends(q, r, K, m) => Sends(p, r, K, m)
  <2>1. \A n, b : Stored(q, n, b) => Stored(p, n, b) \/ Issued(p, r, K, n, b)
    BY <1>2, <1>5 DEF PeerMoves
  <2> QED BY <1>2, <1>5, <2>1 DEF Sends
<1>11. \A i \in DOMAIN v.out : \/ \E j \in DOMAIN t.out : v.out[i] = t.out[j]
                               \/ Sends(p, r, K, v.out[i].msg)
  BY <1>3, <1>10
<1> QED BY <1>3, <1>9, <1>11 DEF Moves, p, r

\* Two such parts in a row.
LEMMA EmitsCompose ==
  ASSUME NEW cfg, NEW t, NEW u, NEW v, NEW K,
         TunnelOK(cfg, t), TunnelOK(cfg, u), TunnelOK(cfg, v),
         Emits(t, u, K), Emits(u, v, K)
  PROVE  Emits(t, v, K)
<1>1. Moves(t, v, K, {})
  BY MovesCompose DEF Emits
<1>2. Unsent(t.peer, v.peer)
  BY DEF Emits, Unsent
<1> QED BY <1>1, <1>2 DEF Emits

\* Nothing happens to the Peer and nothing is put out.
LEMMA EmitsNothing ==
  ASSUME NEW cfg, NEW t, NEW u, NEW K, Ready(cfg, t, 0), u.peer = t.peer, u.out = t.out
  PROVE  Emits(t, u, K)
<1>1. t.peer.ns_send \in Int
  BY ModulusAssumption DEF Ready, TunnelOK, PeerOK, SeqNum
<1>2. t.peer.ns_send .. t.peer.ns_send - 1 = {} /\ t.peer.ns_send >= t.peer.ns_send
  BY <1>1
<1>3. PeerMoves(t.peer, u.peer, K, {})
  BY <1>2 DEF PeerMoves, Ready
<1> QED BY <1>3 DEF Emits, Moves, Unsent, Ready

\* Another Peer, and something put out.
LEMMA PutParts ==
  ASSUME NEW cfg, NEW t, Ready(cfg, t, 0), NEW p, NEW wires, Listed(wires)
  PROVE  LET u == Put([t EXCEPT !.peer = p], wires)
         IN  u.peer = p /\ Joined(t.out, wires, u.out)
<1> DEFINE u == Put([t EXCEPT !.peer = p], wires)
           out == u.out
<1>1. u.peer = p /\ out = t.out \o wires
  BY DEF Put, Ready, TunnelOK, TunnelFields
<1> HIDE DEF out
<1>2. Joined(t.out, wires, out)
  BY <1>1, ConcatParts DEF Ready
<1> QED BY <1>1, <1>2 DEF out

LEMMA PutMoves ==
  ASSUME NEW t, NEW u, NEW K, NEW gone, PeerMoves(t.peer, u.peer, K, gone),
         NEW wires, AllSent(t.peer, u.peer, K, wires), Joined(t.out, wires, u.out)
  PROVE  Moves(t, u, K, gone)
<1> DEFINE P(m) == Sends(t.peer, u.peer, K, m)
<1>1. \A i \in DOMAIN wires : P(wires[i].msg)
  BY DEF AllSent
<1> HIDE DEF P
<1>2. \A i \in DOMAIN u.out : \/ \E j \in DOMAIN t.out : u.out[i] = t.out[j]
                              \/ P(u.out[i].msg)
  BY <1>1 DEF Joined
<1> QED BY <1>2 DEF Moves, Joined, P

\* _send()
LEMMA EmitMoves ==
  ASSUME NEW cfg, NEW t, Ready(cfg, t, 1), NEW K, NEW body,
         body # None => Proper(body) /\ body.t \in K[t.peer.ns_send],
         NEW u, u = Emit(cfg, t, body)
  PROVE  Emits(t, u, K)
<1> DEFINE p == send(t.peer, body)
           wires == <<Wire(stamped(t.peer, body), cfg.password)>>
<1>1. Ready(cfg, t, 0)
  BY ModulusAssumption DEF Ready, TunnelOK, PeerOK, SeqNum
<1>2. CASE body = None
  <2>1. u = t
    BY <1>2 DEF Emit
  <2> QED BY <1>1, <1>2, <2>1, EmitsNothing
<1>3. CASE body # None
  <2>1. /\ PeerMoves(t.peer, p, K, {}) /\ Unsent(t.peer, p)
        /\ p.ns_send = t.peer.ns_send + 1
        /\ Sends(t.peer, p, K, stamped(t.peer, body))
    BY <1>3, SendMoves DEF Ready, TunnelOK
  <2>2. Listed(wires) /\ \A i \in DOMAIN wires : wires[i].msg = stamped(t.peer, body)
    <3> DEFINE w == Wire(stamped(t.peer, body), cfg.password)
    <3>1. w.msg = stamped(t.peer, body)
      BY DEF Wire
    <3> HIDE DEF w
    <3>2. wires = <<w>>
      BY DEF w
    <3>3. wires \in Seq({w}) /\ \A i \in DOMAIN wires : wires[i] = w
      BY <3>2
    <3> QED BY <3>1, <3>3 DEF Listed
  <2>3. u = Put([t EXCEPT !.peer = p], wires)
    BY <1>3 DEF Emit
  <2> HIDE DEF p, wires
  <2>4. AllSent(t.peer, p, K, wires)
    BY <2>1, <2>2 DEF AllSent
  <2>5. u.peer = p /\ Joined(t.out, wires, u.out)
    BY <1>1, <2>2, <2>3, PutParts
  <2>6. Moves(t, u, K, {})
    BY <2>1, <2>4, <2>5, PutMoves
  <2> QED BY <1>3, <2>1, <2>5, <2>6 DEF Emits
<1> QED BY <1>2, <1>3

\* _send() takes one number, and none for nothing.
LEMMA EmitCounts ==
  ASSUME NEW cfg, NEW t, Ready(cfg, t, 1), NEW body, NEW u, u = Emit(cfg, t, body)
  PROVE  u.peer.ns_send = IF body = None THEN t.peer.ns_send ELSE t.peer.ns_send + 1
<1> DEFINE p == send(t.peer, body)
           wires == <<Wire(stamped(t.peer, body), cfg.password)>>
<1>1. u = IF body = None THEN t ELSE Put([t EXCEPT !.peer = p], wires)
  BY DEF Emit
<1>2. p.ns_send = seq_advance(t.peer.ns_send, 1)
  BY DEF send, Ready, TunnelOK, PeerOK, PeerFields
<1>3. seq_advance(t.peer.ns_send, 1) = t.peer.ns_send + 1
  BY AdvancePlain DEF Ready, TunnelOK, PeerOK
<1> HIDE DEF p, wires
<1>4. body # None => u.peer = p
  BY <1>1 DEF Put, Ready, TunnelOK, TunnelFields
<1> QED BY <1>1, <1>2, <1>3, <1>4

\* _send(), several times
LEMMA EmitAllMoves ==
  ASSUME NEW cfg, NEW t, NEW n \in Nat, Ready(cfg, t, n), NEW K,
         NEW bodies, Listed(bodies), DOMAIN bodies = 1 .. n,
         \A k \in 1 .. n : Proper(bodies[k]) /\ bodies[k].t \in K[t.peer.ns_send + (k - 1)],
         NEW u, u = EmitAll(cfg, t, bodies)
  PROVE  Emits(t, u, K)
<1> DEFINE p == send_all(t.peer, bodies)
           w(k) == Wire(stamped_at(t.peer, bodies, k), cfg.password)
           wires == [k \in DOMAIN bodies |-> w(k)]
<1>1. Ready(cfg, t, 0)
  BY ModulusAssumption DEF Ready, TunnelOK, PeerOK, SeqNum
<1>2. /\ PeerMoves(t.peer, p, K, {}) /\ Unsent(t.peer, p)
      /\ \A k \in 1 .. n : Sends(t.peer, p, K, stamped_at(t.peer, bodies, k))
  BY SendAllMoves DEF Ready, TunnelOK
<1>3. u = Put([t EXCEPT !.peer = p], wires)
  BY DEF EmitAll
<1>4. \A k \in 1 .. n : w(k).msg = stamped_at(t.peer, bodies, k)
  BY DEF Wire
<1> HIDE DEF w, p
<1>5. Listed(wires) /\ DOMAIN wires = 1 .. n /\ \A k \in 1 .. n : wires[k] = w(k)
  <2> DEFINE T == {w(k) : k \in DOMAIN bodies}
  <2>1. wires \in [1 .. n -> T] /\ \A k \in 1 .. n : wires[k] = w(k)
    OBVIOUS
  <2> HIDE DEF wires, T
  <2>2. wires \in Seq(T)
    BY <2>1, SeqDef
  <2> QED BY <2>1, <2>2 DEF Listed
<1> HIDE DEF wires
<1>6. AllSent(t.peer, p, K, wires)
  BY <1>2, <1>4, <1>5 DEF AllSent
<1>7. u.peer = p /\ Joined(t.out, wires, u.out)
  <2>1. Listed(wires)
    BY <1>5
  <2>2. Put([t EXCEPT !.peer = p], wires).peer = p
        /\ Joined(t.out, wires, Put([t EXCEPT !.peer = p], wires).out)
    BY <1>1, <2>1, PutParts
  <2> QED BY <1>3, <2>2
<1>8. Moves(t, u, K, {})
  BY <1>2, <1>6, <1>7, PutMoves
<1> QED BY <1>2, <1>7, <1>8 DEF Emits

\* The Established action: ICRQs, at most one for each configured session.
LEMMA SessionsUpMoves ==
  ASSUME NEW cfg, ConfigOK(cfg), NEW t, Ready(cfg, t, Len(cfg.order)), NEW K,
         \A n \in Nat : n >= t.peer.ns_send => Late \subseteq K[n],
         NEW u, u = SessionsUp(cfg, t)
  PROVE  Emits(t, u, K)
<1> DEFINE step  == [sid \in DOMAIN t.sess |->
                       on_tunnel_established(cfg.sessions[sid], t.sess[sid])]
           Opening == {i \in DOMAIN cfg.order : step[cfg.order[i]].send # None}
           n     == Cardinality(Opening)
           first == Ascending(Opening)
           b(k)  == step[cfg.order[first[k]]].send
           icrqs == [k \in DOMAIN first |-> b(k)]
           f     == [sid \in DOMAIN t.sess |-> step[sid].sess]
           v     == [t EXCEPT !.sess = f]
           m     == Len(cfg.order)
           N     == t.peer.ns_send
<1>1. m \in Nat /\ DOMAIN cfg.order = 1 .. m
      /\ \A i \in 1 .. m : cfg.order[i] \in DOMAIN cfg.sessions
  BY LenProperties, ElementOfSeq DEF ConfigOK
<1>2. u = EmitAll(cfg, v, icrqs)
  BY DEF SessionsUp
<1>3. \A sid \in DOMAIN cfg.sessions :
        step[sid].send # None => Proper(step[sid].send) /\ step[sid].send.t = "ICRQ"
  BY DEF TunnelOK, Ready, on_tunnel_established, SessNothing, SessStep, build_icrq, Body, Proper
<1>4. DOMAIN f = DOMAIN cfg.sessions
      /\ \A sid \in DOMAIN cfg.sessions : SessionOK(f[sid])
  <2>1. DOMAIN t.sess = DOMAIN cfg.sessions
        /\ \A sid \in DOMAIN cfg.sessions : SessionOK(t.sess[sid])
    BY DEF TunnelOK, Ready
  <2>2. \A sid \in DOMAIN cfg.sessions : SessionOK(step[sid].sess)
    BY <2>1, OtherSteps DEF StepOK
  <2> HIDE DEF step
  <2> QED BY <2>1, <2>2
<1> HIDE DEF step
<1>5. Opening \subseteq 1 .. m
  BY <1>1
<1>6. \A i \in Opening : Proper(step[cfg.order[i]].send) /\ step[cfg.order[i]].send.t = "ICRQ"
  BY <1>1, <1>3
<1> HIDE DEF Opening, m
<1>7. n \in 0 .. m /\ DOMAIN first = 1 .. n /\ \A k \in 1 .. n : first[k] \in Opening
  BY <1>1, <1>5, AscendingMembers
<1> HIDE DEF n, first
<1>8. Listed(icrqs) /\ DOMAIN icrqs = 1 .. n /\ \A k \in 1 .. n : icrqs[k] = b(k)
  <2> DEFINE T == {b(k) : k \in DOMAIN first}
  <2>1. icrqs \in [1 .. n -> T] /\ \A k \in 1 .. n : icrqs[k] = b(k)
    BY <1>7
  <2>2. n \in Nat
    BY <1>1, <1>7
  <2> HIDE DEF icrqs, T, b
  <2>3. icrqs \in Seq(T)
    BY <2>1, <2>2, SeqDef
  <2> QED BY <2>1, <2>3 DEF Listed
<1>9. \A k \in 1 .. n : Proper(icrqs[k]) /\ icrqs[k].t = "ICRQ"
  BY <1>6, <1>7, <1>8
<1> HIDE DEF icrqs, b, f
<1>10. /\ DOMAIN v = TunnelFields /\ v.dp = t.dp /\ v.dp_added = t.dp_added /\ v.peer = t.peer
       /\ v.fsm = t.fsm /\ v.hello = t.hello /\ v.by_remote = t.by_remote /\ v.sess = f
       /\ v.out = t.out
  BY DEF Ready, TunnelOK, TunnelFields
<1>11. t.dp_added \in BOOLEAN /\ DpOK(DOMAIN cfg.sessions, t.dp) /\ TunnelOK(cfg, t)
  BY DEF Ready, TunnelOK
<1> HIDE DEF v
<1>12. N \in Nat /\ N + m < Modulus
  BY ModulusAssumption DEF Ready, TunnelOK, PeerOK, SeqNum, m
<1>13. n \in Nat /\ N + n < Modulus
  BY <1>1, <1>7, <1>12, ModulusAssumption
<1>14. Ready(cfg, v, n)
  <2>1. TunnelOK(cfg, v)
    BY <1>4, <1>10, <1>11, ReplaceOK
  <2> QED BY <1>10, <1>13, <2>1 DEF Ready
<1>15. \A k \in 1 .. n : Proper(icrqs[k]) /\ icrqs[k].t \in K[v.peer.ns_send + (k - 1)]
  <2> SUFFICES ASSUME NEW k \in 1 .. n PROVE icrqs[k].t \in K[v.peer.ns_send + (k - 1)]
    BY <1>9
  <2>1. N + (k - 1) \in Nat /\ N + (k - 1) >= N
    BY <1>12, <1>13
  <2>2. Late \subseteq K[N + (k - 1)]
    BY <2>1
  <2>3. "ICRQ" \in Late
    BY DEF Late, SessionTypes
  <2> QED BY <1>9, <1>10, <2>2, <2>3
<1>16. Emits(v, u, K)
  BY <1>2, <1>8, <1>13, <1>14, <1>15, EmitAllMoves
<1> QED BY <1>10, <1>16 DEF Emits, Moves

\* The TornDown action: every session is IDLE, and nobody is told.
LEMMA SessionsDownMoves ==
  ASSUME NEW cfg, NEW t, TunnelOK(cfg, t), NEW fail,
         NEW u, u = SessionsDown(cfg, t, fail)
  PROVE  /\ u.peer = t.peer /\ u.out = t.out
         /\ \A sid \in DOMAIN cfg.sessions : u.sess[sid].state = "IDLE"
<1> DEFINE step == [sid \in DOMAIN t.sess |-> on_tunnel_down(t.sess[sid])]
           gone == {sid \in DOMAIN t.sess :
                       step[sid].dp = "del" /\ del_session_works(t.dp, sid, fail)}
           f    == [sid \in DOMAIN t.sess |-> step[sid].sess]
           d    == forget_sessions(t.dp, gone)
           v    == [t EXCEPT !.sess = f, !.dp = d]
<1>1. u = IF ~v.dp_added THEN v
          ELSE [v EXCEPT !.dp = del_tunnel(@, fail), !.dp_added = FALSE]
  BY DEF SessionsDown
<1>2. \A sid \in DOMAIN cfg.sessions : f[sid].state = "IDLE"
  BY DEF TunnelOK, SessionOK, SessionFields, on_tunnel_down, SessionDown, SessStep, SessNothing
<1> HIDE DEF f, d
<1>3. DOMAIN v = TunnelFields /\ v.peer = t.peer /\ v.out = t.out /\ v.sess = f
  BY DEF TunnelOK, TunnelFields
<1> HIDE DEF v
<1>4. u.peer = v.peer /\ u.out = v.out /\ u.sess = v.sess
  BY <1>1, <1>3 DEF TunnelFields
<1> QED BY <1>2, <1>3, <1>4

\* What the sessions become by a handler of the TunnelFSM.
SessionsFollow(cfg, t, u, signal) ==
    /\ signal = "none" => u.sess = t.sess
    /\ signal = "torndown" =>
         \A sid \in DOMAIN cfg.sessions : u.sess[sid].state = "IDLE"

\* The number after the message of a step, if it has one.
After(t, step) == IF step.send = None THEN t.peer.ns_send ELSE t.peer.ns_send + 1

\* K admits what a step of the TunnelFSM sends.
Admits(K, t, step) ==
    /\ step.send # None => Proper(step.send) /\ step.send.t \in K[t.peer.ns_send]
    /\ step.signal = "established" =>
         \A n \in Nat : n >= After(t, step) => Late \subseteq K[n]

\* A step of the TunnelFSM turns t into u.
Executed(cfg, t, u, K, step) ==
    /\ Emits(t, u, K)
    /\ u.fsm = step.state
    /\ u.peer.ns_send >= After(t, step)
    /\ step.signal # "established" => u.peer.ns_send = After(t, step)
    /\ SessionsFollow(cfg, t, u, step.signal)

\* A handler of the TunnelFSM and its actions.
LEMMA ExecuteMoves ==
  ASSUME NEW cfg, ConfigOK(cfg), NEW t, Ready(cfg, t, Len(cfg.order) + 1), NEW K, NEW fail,
         NEW step, FsmStepOK(t.hello, step), Admits(K, t, step),
         NEW u, u = Execute(cfg, t, step, fail)
  PROVE  Executed(cfg, t, u, K, step)
<1> DEFINE next == After(t, step)
           w == Emit(cfg, t, step.send)
           h == Armed(w.hello, step)
           v == [w EXCEPT !.fsm = step.state, !.hello = h]
           N == t.peer.ns_send
           m == Len(cfg.order)
<1>1. TunnelOK(cfg, t) /\ N \in Nat /\ m \in Nat /\ N + (m + 1) < Modulus
  BY ModulusAssumption, LenProperties DEF Ready, TunnelOK, PeerOK, SeqNum, ConfigOK
<1>2. TunnelOK(cfg, w) /\ SentOnly(t, w)
  BY <1>1, EmitOK
<1>3. Emits(t, w, K) /\ w.peer.ns_send = next
  <2>1. Ready(cfg, t, 1)
    BY <1>1, ModulusAssumption DEF Ready
  <2> DEFINE b == step.send
  <2>2. /\ w = Emit(cfg, t, b) /\ next = IF b = None THEN N ELSE N + 1
        /\ b # None => Proper(b) /\ b.t \in K[N]
    BY DEF Admits, After
  <2> HIDE DEF w, b
  <2>3. Emits(t, w, K)
    BY <2>1, <2>2, EmitMoves
  <2>4. w.peer.ns_send = IF b = None THEN N ELSE N + 1
    BY <2>1, <2>2, EmitCounts
  <2> QED BY <2>2, <2>3, <2>4
<1>4. u = CASE step.signal = "established" -> SessionsUp(cfg, v)
            [] step.signal = "torndown"    -> SessionsDown(cfg, v, fail)
            [] OTHER                       -> v
  BY DEF Execute, Armed
<1> HIDE DEF w
<1>5. /\ step.state \in TunnelStates /\ h \in BOOLEAN
  BY <1>2 DEF SentOnly, FsmStepOK
<1> HIDE DEF h
<1>6. /\ DOMAIN v = TunnelFields /\ v.dp = w.dp /\ v.dp_added = w.dp_added /\ v.peer = w.peer
      /\ v.fsm = step.state /\ v.hello = h /\ v.by_remote = w.by_remote /\ v.sess = w.sess
      /\ v.out = w.out
  BY <1>2 DEF TunnelOK, TunnelFields
<1> HIDE DEF v
<1>7. TunnelOK(cfg, v)
  BY <1>2, <1>5, <1>6 DEF TunnelOK
<1>8. Emits(t, v, K) /\ v.peer.ns_send = next /\ v.sess = t.sess
  BY <1>2, <1>3, <1>6 DEF Emits, Moves, SentOnly
<1>9. Ready(cfg, v, m)
  <2>1. next + m < Modulus
    BY <1>1, ModulusAssumption DEF After
  <2> QED BY <1>7, <1>8, <2>1 DEF Ready, Emits, Moves, PeerMoves
<1>10. next \in Nat
  BY <1>1 DEF After
<1>14. u.fsm = step.state
  BY <1>1, ExecuteOK
<1>15. step.signal = "established" => \A n \in Nat : n >= next => Late \subseteq K[n]
  BY DEF Admits
<1> HIDE DEF m, N, next
<1>11. CASE step.signal = "established"
  <2>1. u = SessionsUp(cfg, v)
    BY <1>4, <1>11
  <2>2. Emits(v, u, K)
    BY <1>8, <1>9, <1>11, <1>15, <2>1, SessionsUpMoves DEF m
  <2>3. TunnelOK(cfg, u)
    BY <1>7, <2>1, SessionsUpOK
  <2>4. Emits(t, u, K)
    BY <1>1, <1>7, <1>8, <2>2, <2>3, EmitsCompose
  <2>5. u.peer.ns_send >= next
    BY <1>8, <2>2 DEF Emits, Moves, PeerMoves
  <2> QED BY <1>11, <1>14, <2>4, <2>5 DEF SessionsFollow, Executed, next
<1>12. CASE step.signal = "torndown"
  <2>1. u = SessionsDown(cfg, v, fail)
    BY <1>4, <1>12
  <2>2. /\ u.peer = v.peer /\ u.out = v.out
        /\ \A sid \in DOMAIN cfg.sessions : u.sess[sid].state = "IDLE"
    BY <1>7, <2>1, SessionsDownMoves
  <2>3. Emits(t, u, K)
    BY <1>8, <2>2 DEF Emits, Moves
  <2> QED BY <1>8, <1>10, <1>12, <1>14, <2>2, <2>3 DEF SessionsFollow, Executed, next
<1>13. CASE step.signal \notin {"established", "torndown"}
  <2>1. u = v
    BY <1>4, <1>13
  <2> QED BY <1>8, <1>10, <1>13, <1>14, <2>1 DEF SessionsFollow, Executed, next
<1> QED BY <1>11, <1>12, <1>13

\* A handler of session sid and its actions.
LEMMA ExecuteSessionMoves ==
  ASSUME NEW cfg, NEW t, Ready(cfg, t, 1), NEW sid \in DOMAIN cfg.sessions, NEW fail,
         NEW step, StepOK(t.sess[sid], step), NEW K,
         step.send # None => Proper(step.send) /\ step.send.t \in K[t.peer.ns_send],
         NEW u, u = ExecuteSession(cfg, t, sid, step, fail)
  PROVE  Emits(t, u, K)
<1> DEFINE sess == step.sess
           b == step.send
           v == [t EXCEPT !.sess[sid] = sess]
           w == Emit(cfg, v, b)
<1>1. /\ DOMAIN v = TunnelFields /\ v.peer = t.peer /\ v.fsm = t.fsm /\ v.hello = t.hello
      /\ v.by_remote = t.by_remote /\ v.dp_added = t.dp_added /\ v.dp = t.dp
      /\ DOMAIN v.sess = DOMAIN cfg.sessions /\ v.sess[sid] = sess
      /\ \A o \in DOMAIN cfg.sessions \ {sid} : v.sess[o] = t.sess[o]
      /\ v.out = t.out
  BY DEF Ready, TunnelOK, TunnelFields
<1>2. u = CASE step.dp = "add" -> AddNetdev(cfg, w, sid, fail)
            [] step.dp = "del" -> [w EXCEPT !.dp = del_session(@, sid, fail)]
            [] OTHER           -> w
  BY DEF ExecuteSession
<1>3. SessionOK(sess) /\ (b # None => Proper(b) /\ b.t \in K[v.peer.ns_send])
  BY <1>1 DEF StepOK
<1> HIDE DEF v, b, sess
<1>4. Ready(cfg, v, 1)
  <2>1. \A o \in DOMAIN cfg.sessions : SessionOK(v.sess[o])
    BY <1>1, <1>3 DEF Ready, TunnelOK
  <2>2. t.dp_added \in BOOLEAN /\ DpOK(DOMAIN cfg.sessions, t.dp) /\ TunnelOK(cfg, t)
    BY DEF Ready, TunnelOK
  <2>3. TunnelOK(cfg, v)
    BY <1>1, <2>1, <2>2, ReplaceOK
  <2> QED BY <1>1, <2>3 DEF Ready
<1>5. TunnelOK(cfg, w) /\ w = Emit(cfg, v, b)
  BY <1>4, EmitOK DEF Ready
<1> HIDE DEF w
<1>6. Emits(v, w, K)
  BY <1>3, <1>4, <1>5, EmitMoves
<1>7. u.peer = w.peer /\ u.out = w.out
  <2>1. CASE step.dp = "add"
    <3> DEFINE x == ensure_tunnel_dataplane(w, fail)
               params == dataplane_params(cfg.sessions[sid], w.sess[sid])
    <3>1. x.peer = w.peer /\ x.out = w.out /\ DOMAIN x = TunnelFields
      BY <1>5 DEF ensure_tunnel_dataplane, TunnelOK, TunnelFields
    <3>2. u = [x EXCEPT !.dp = add_session(@, sid, params, fail)]
      BY <1>2, <2>1 DEF AddNetdev
    <3> HIDE DEF x, params
    <3> QED BY <3>1, <3>2 DEF TunnelFields
  <2>2. CASE step.dp = "del"
    <3>1. u = [w EXCEPT !.dp = del_session(@, sid, fail)]
      BY <1>2, <2>2
    <3> QED BY <1>5, <3>1 DEF TunnelOK, TunnelFields
  <2>3. CASE step.dp \notin {"add", "del"}
    BY <1>2, <2>3
  <2> QED BY <2>1, <2>2, <2>3
<1> QED BY <1>1, <1>6, <1>7 DEF Emits, Moves

\* The handlers of the SessionFSM send session messages only; a session that is
\* IDLE has nothing to close.
LEMMA SessionSends ==
  ASSUME NEW c, NEW sess, NEW m, m.t \in SessionTypes
  PROVE  /\ LET b == on_session_message(c, sess, m).send IN b # None => Proper(b) /\ b.t \in Late
         /\ LET b == on_session_close(c, sess).send IN b # None => Proper(b) /\ b.t \in Late
         /\ sess.state = "IDLE" => on_session_close(c, sess) = SessNothing(sess)
<1> USE DEF SessStep, SessNothing
<1> DEFINE Fine(step) == step.send # None => Proper(step.send) /\ step.send.t \in Late
<1>1. Fine(SessNothing(sess)) /\ \A s, dp : Fine(SessStep(s, None, dp))
  OBVIOUS
<1>2. Fine(teardown_cdn(c, sess))
  BY DEF teardown_cdn, build_cdn, Body, Late, SessionTypes, Proper
<1>3. \A s, dp : Fine(SessStep(s, build_icrp(c.sid, m.lsid, c.cookie), dp))
                 /\ Fine(SessStep(s, build_iccn(c.sid, m.lsid), dp))
  BY DEF build_icrp, build_iccn, Body, Late, SessionTypes, Proper
<1> HIDE DEF Fine, SessStep, SessNothing
<1>4. Fine(on_icrq(c, sess, m)) /\ Fine(on_icrp(c, sess, m)) /\ Fine(on_iccn(c, sess, m))
  BY <1>1, <1>2, <1>3 DEF on_icrq, on_icrp, on_iccn
<1>5. Fine(on_cdn(sess))
  BY <1>1 DEF on_cdn, SessionDown
<1>6. Fine(on_session_message(c, sess, m))
  BY <1>4, <1>5 DEF on_session_message, SessionTypes
<1>7. Fine(on_session_close(c, sess))
  BY <1>1, <1>2 DEF on_session_close
<1>8. sess.state = "IDLE" => on_session_close(c, sess) = SessNothing(sess)
  BY DEF on_session_close
<1> QED BY <1>6, <1>7, <1>8 DEF Fine

\* SessionFSM.on_local_close and its actions: an IDLE session stays as it is.
LEMMA SessionCloseMoves ==
  ASSUME NEW cfg, NEW t, Ready(cfg, t, 1), NEW fail, NEW sid \in DOMAIN cfg.sessions, NEW K,
         t.sess[sid].state # "IDLE" => Late \subseteq K[t.peer.ns_send],
         NEW u, u = session_close(cfg, t, sid, fail)
  PROVE  /\ Emits(t, u, K) /\ u.fsm = t.fsm
         /\ t.sess[sid].state = "IDLE" =>
              /\ \A o \in DOMAIN cfg.sessions : u.sess[o] = t.sess[o]
              /\ u.peer.ns_send = t.peer.ns_send
<1> DEFINE sess == t.sess[sid]
           step == on_session_close(cfg.sessions[sid], sess)
<1>1. StepOK(sess, step)
  BY OtherSteps DEF Ready, TunnelOK
<1>2. u = ExecuteSession(cfg, t, sid, step, fail)
  BY DEF session_close
<1>3. /\ step.send # None => Proper(step.send) /\ step.send.t \in Late
      /\ sess.state = "IDLE" => step = SessNothing(sess)
  <2>1. PICK m : m = [t |-> "CDN"]
    OBVIOUS
  <2>2. m.t \in SessionTypes
    BY <2>1 DEF SessionTypes
  <2> HIDE DEF sess
  <2> QED BY <2>2, SessionSends
<1> HIDE DEF step
<1>4. u.fsm = t.fsm
  BY <1>1, <1>2, ExecuteSessionOK DEF Ready, FsmKept
<1>5. CASE sess.state = "IDLE"
  <2>1. step = SessStep(sess, None, "none")
    BY <1>3, <1>5 DEF SessNothing
  <2>2. u = [t EXCEPT !.sess[sid] = sess]
    BY <1>2, <2>1 DEF ExecuteSession, SessStep, Emit
  <2>3. u.peer = t.peer /\ u.out = t.out /\ u.sess = [t.sess EXCEPT ![sid] = sess]
    BY <2>2 DEF Ready, TunnelOK, TunnelFields
  <2>4. \A o \in DOMAIN cfg.sessions : u.sess[o] = t.sess[o]
    BY <2>3 DEF Ready, TunnelOK
  <2>5. Ready(cfg, t, 0)
    BY ModulusAssumption DEF Ready, TunnelOK, PeerOK, SeqNum
  <2> QED BY <1>4, <2>3, <2>4, <2>5, EmitsNothing
<1>6. CASE sess.state # "IDLE"
  <2>1. step.send # None => Proper(step.send) /\ step.send.t \in K[t.peer.ns_send]
    BY <1>3, <1>6
  <2>2. Emits(t, u, K)
    BY <1>1, <1>2, <2>1, ExecuteSessionMoves
  <2> QED BY <1>6, <1>4, <2>2
<1> QED BY <1>5, <1>6

\* _on_hello_timer() of an ESTABLISHED tunnel.
LEMMA HelloTimerMoves ==
  ASSUME NEW cfg, ConfigOK(cfg), NEW t, Ready(cfg, t, Len(cfg.order) + 1), NEW fail, NEW K,
         t.fsm = "ESTABLISHED", Late \subseteq K[t.peer.ns_send],
         NEW u, u = hello_timer(cfg, t, fail)
  PROVE  Emits(t, u, K) /\ u.sess = t.sess /\ u.fsm = t.fsm
<1> DEFINE step == on_hello_timer(t.fsm)
           v == [t EXCEPT !.hello = FALSE]
<1>1. FsmStepOK(FALSE, step)
  BY FsmSteps DEF Ready, TunnelOK
<1>2. u = Execute(cfg, v, step, fail)
  BY DEF hello_timer
<1>3. Proper(step.send) /\ step.send.t \in Late /\ step.signal = "none" /\ step.state = t.fsm
  BY DEF on_hello_timer, Step, build_hello, Body, Late, Proper
<1> HIDE DEF step
<1>4. /\ DOMAIN v = TunnelFields /\ v.dp = t.dp /\ v.dp_added = t.dp_added /\ v.peer = t.peer
      /\ v.fsm = t.fsm /\ v.hello = FALSE /\ v.by_remote = t.by_remote /\ v.sess = t.sess
      /\ v.out = t.out
  BY DEF Ready, TunnelOK, TunnelFields
<1> HIDE DEF v
<1>5. Ready(cfg, v, Len(cfg.order) + 1)
  BY <1>4 DEF Ready, TunnelOK
<1>6. FsmStepOK(v.hello, step) /\ Admits(K, v, step)
  BY <1>1, <1>3, <1>4 DEF Admits
<1>7. Executed(cfg, v, u, K, step)
  BY <1>2, <1>5, <1>6, ExecuteMoves
<1> QED BY <1>3, <1>4, <1>7 DEF Executed, Emits, Moves, SessionsFollow

\* start(): an SCCRQ.
LEMMA StartMoves ==
  ASSUME NEW cfg, ConfigOK(cfg), NEW t, Ready(cfg, t, Len(cfg.order) + 1), HelloOK(t), NEW K,
         t.fsm = "IDLE", "SCCRQ" \in K[t.peer.ns_send], cfg.local_ccid \in Nat,
         NEW u, u = start(cfg, t)
  PROVE  /\ Emits(t, u, K) /\ u.sess = t.sess
         /\ u.fsm = "WAIT_CTL_REPLY" /\ u.peer.ns_send = t.peer.ns_send + 1
<1> DEFINE step == on_local_open(t.fsm, cfg.local_ccid)
<1>1. FsmStepOK(t.hello, step)
  BY FsmSteps DEF Ready, TunnelOK, HelloOK
<1>2. u = Execute(cfg, t, step, {})
  BY DEF start
<1>3. /\ step.send = build_sccrq(cfg.local_ccid)
      /\ step.signal = "none" /\ step.state = "WAIT_CTL_REPLY"
  BY DEF on_local_open, Step
<1>4. Proper(step.send) /\ step.send.t = "SCCRQ" /\ step.send # None
  BY <1>3, NoneAssumption DEF build_sccrq, Body, Proper
<1> HIDE DEF step
<1>5. Admits(K, t, step)
  BY <1>3, <1>4 DEF Admits
<1>6. Executed(cfg, t, u, K, step)
  BY <1>1, <1>2, <1>5, ExecuteMoves
<1> QED BY <1>3, <1>4, <1>6 DEF Executed, SessionsFollow, After


\* What tick() puts out is in the queue.
LEMMA ResentMoves ==
  ASSUME NEW cfg, NEW t, Ready(cfg, t, 0), NEW K, NEW expired \in Expiries(t.peer),
         NEW again, again = Ascending(Resent(t.peer, expired)),
         NEW wires, wires = [k \in DOMAIN again |-> Wire(resend(t.peer, again[k]), None)]
  PROVE  AllSent(t.peer, tick(t.peer, expired), K, wires)
<1> DEFINE p == t.peer
           q == tick(p, expired)
           s == p.send_queue
           w(k) == Wire(resend(p, again[k]), None)
<1>1. PeerOK(p) /\ PendingOK(s)
  BY DEF Ready, TunnelOK
<1>2. DOMAIN s = 1 .. Len(s) /\ Len(s) \in Nat
  BY <1>1, QueueListed, LenProperties DEF Listed
<1>3. Resent(p, expired) \subseteq 1 .. Len(s)
  BY DEF Expiries, Resent
<1>4. PICK n \in Nat : /\ Listed(again) /\ DOMAIN again = 1 .. n
                       /\ \A k \in 1 .. n : again[k] \in DOMAIN s
  BY <1>2, <1>3, AscendingMembers
<1>5. wires = [k \in 1 .. n |-> w(k)]
  BY <1>4
<1>6. q.nr_expect = p.nr_expect
  BY <1>1, TickMoves DEF Unsent
<1> HIDE DEF q, s
<1>7. \A k \in 1 .. n : Sends(p, q, K, w(k).msg)
  <2> SUFFICES ASSUME NEW k \in 1 .. n PROVE Sends(p, q, K, w(k).msg)
    OBVIOUS
  <2>1. again[k] \in DOMAIN s
    BY <1>4
  <2>2. w(k).msg.nr = p.nr_expect /\ w(k).msg.ns = s[again[k]].ns
        /\ w(k).msg.body = s[again[k]].body
    BY DEF Wire, resend, s
  <2> QED BY <1>6, <2>1, <2>2 DEF Sends, Stored, s
<1> HIDE DEF w
<1>8. Listed(wires)
  <2>1. wires \in Seq({w(k) : k \in 1 .. n})
    BY <1>5, SeqDef
  <2> QED BY <2>1 DEF Listed
<1> QED BY <1>5, <1>7, <1>8 DEF AllSent, q

\* tick(): the tunnel stays as it is or is given up.
LEMMA TunnelTickMoves ==
  ASSUME NEW cfg, ConfigOK(cfg), NEW t, Ready(cfg, t, Len(cfg.order) + 1), HelloOK(t),
         NEW K, NEW fail, NEW expired \in Expiries(t.peer),
         NEW u, u = tunnel_tick(cfg, t, expired, fail)
  PROVE  /\ Emits(t, u, K)
         /\ u.peer.ns_send = t.peer.ns_send
         /\ ~u.peer.dead => u.fsm = t.fsm /\ u.sess = t.sess
         /\ u.peer.dead =>
              /\ u.fsm = "IDLE"
              /\ IF t.fsm = "ESTABLISHED"
                 THEN \A sid \in DOMAIN cfg.sessions : u.sess[sid].state = "IDLE"
                 ELSE u.sess = t.sess
<1> DEFINE p == tick(t.peer, expired)
           again == Ascending(Resent(t.peer, expired))
           sent == [k \in DOMAIN again |-> Wire(resend(t.peer, again[k]), None)]
           v == Put([t EXCEPT !.peer = p], sent)
           step == on_peer_dead(v.fsm)
           m == Len(cfg.order)
<1>1. u = IF p.dead THEN Execute(cfg, v, step, fail) ELSE v
  BY DEF tunnel_tick
<1>2. PeerOK(p) /\ PendingOK(t.peer.send_queue) /\ m \in Nat /\ t.peer.ns_send \in Nat
      /\ Ready(cfg, t, 0)
  <2>1. TunnelOK(cfg, t) /\ PeerOK(t.peer) /\ PendingOK(t.peer.send_queue) /\ Listed(t.out)
    BY DEF Ready, TunnelOK
  <2>2. m \in Nat
    BY LenProperties DEF ConfigOK
  <2>3. t.peer.ns_send \in Nat
    BY <2>1, ModulusAssumption DEF PeerOK, SeqNum
  <2>4. t.peer.ns_send + 0 < Modulus
    BY <2>2, <2>3, ModulusAssumption DEF Ready
  <2>5. PeerOK(p)
    BY <2>1, TickOK
  <2> QED BY <2>1, <2>2, <2>3, <2>4, <2>5 DEF Ready
<1>3. PeerMoves(t.peer, p, K, {}) /\ Unsent(t.peer, p) /\ p.ns_send = t.peer.ns_send
  BY <1>2, TickMoves DEF Ready, TunnelOK
<1>4. AllSent(t.peer, p, K, sent)
  BY <1>2, ResentMoves
<1>5. /\ v.fsm = t.fsm /\ v.hello = t.hello /\ v.sess = t.sess
  BY DEF Put, Ready, TunnelOK, TunnelFields
<1> HIDE DEF p, sent
<1>6. TunnelOK(cfg, v) /\ v.peer = p
  BY <1>2, PutOK DEF Ready
<1>7. Joined(t.out, sent, v.out)
  BY <1>2, <1>4, PutParts DEF AllSent
<1> HIDE DEF v
<1>8. Emits(t, v, K)
  BY <1>3, <1>4, <1>6, <1>7, PutMoves DEF Emits
<1>9. Ready(cfg, v, m + 1)
  BY <1>3, <1>6, <1>8 DEF Ready, Emits, Moves, PeerMoves
<1>10. CASE ~p.dead
  BY <1>1, <1>3, <1>5, <1>6, <1>8, <1>10
<1>11. CASE p.dead
  <2>1. u = Execute(cfg, v, step, fail)
    BY <1>1, <1>11
  <2>2. FsmStepOK(v.hello, step)
    BY <1>5, <1>6, FsmSteps DEF TunnelOK, HelloOK
  <2>3. /\ step.send = None /\ step.state = "IDLE"
        /\ step.signal = IF t.fsm = "ESTABLISHED" THEN "torndown" ELSE "none"
    BY <1>5 DEF on_peer_dead, BackToIdle, Nothing, Step, TornDown
  <2> HIDE DEF step
  <2>4. Admits(K, v, step)
    BY <2>3 DEF Admits
  <2>5. Executed(cfg, v, u, K, step)
    BY <1>9, <2>1, <2>2, <2>4, ExecuteMoves
  <2>6. TunnelOK(cfg, u) /\ u.peer.dead = v.peer.dead
    BY <1>6, <2>1, <2>2, ExecuteOK DEF CallOK
  <2>7. Emits(t, u, K)
    BY <1>2, <1>6, <1>8, <2>5, <2>6, EmitsCompose DEF Ready, Executed
  <2>8. u.peer.ns_send = t.peer.ns_send
    BY <1>3, <1>6, <2>3, <2>5 DEF Executed, After
  <2>9. IF t.fsm = "ESTABLISHED"
        THEN \A sid \in DOMAIN cfg.sessions : u.sess[sid].state = "IDLE"
        ELSE u.sess = t.sess
    BY <1>5, <2>3, <2>5 DEF Executed, SessionsFollow
  <2> QED BY <1>6, <1>11, <2>3, <2>5, <2>6, <2>7, <2>8, <2>9 DEF Executed
<1> QED BY <1>10, <1>11


\* What handle_datagram() has done with a datagram before anything is
\* dispatched, if the other end has sent fewer than L messages.
Received(cfg, t, w, msg, K, L) ==
    /\ Ready(cfg, w, Len(cfg.order) + 1)
    /\ SentOnly(t, w)
    /\ Moves(t, w, K, AckedBy(msg.nr))
    /\ w.peer.ns_send = t.peer.ns_send
    /\ \A n \in SeqNum : w.peer.reorder[n] # NoMsg => n < L

\* The datagram has brought the message expected, and up to all that was sent.
Taking(t, w, msg, L) ==
    /\ msg.body # Zlb /\ msg.ns = t.peer.nr_expect
    /\ w.peer.nr_expect \in t.peer.nr_expect + 1 .. L

\* A message is handed to the FSM it is for.
Dispatched(cfg, w, m, fail) ==
    IF m.t \in SessionTypes THEN dispatch_session_message(cfg, w, m, fail)
    ELSE Execute(cfg, w, on_tunnel_message(w.fsm, m, cfg.local_ccid), fail)

\* handle_datagram() turns t into u.
Handled(cfg, t, u, msg, K, L, fail) ==
    \E w, m :
        /\ Received(cfg, t, w, msg, K, L)
        /\ \/ u = w /\ w.peer.nr_expect = t.peer.nr_expect
           \/ /\ Taking(t, w, msg, L)
              /\ m.t = msg.body.t /\ m.ok
              /\ u = Dispatched(cfg, w, m, fail)

\* The first of several messages decides what they are put together.
LEMMA MergedFirst ==
  ASSUME NEW batch, Proper(batch[1])
  PROVE  Merged(batch).t = batch[1].t /\ Merged(batch).ok
<1> DEFINE b == batch[1]
<1>1. \E c, e : Merged(batch) = [b EXCEPT !.cookie = c, !.end = e]
  BY DEF Merged
<1>2. PICK c, e : Merged(batch) = [b EXCEPT !.cookie = c, !.end = e]
  BY <1>1
<1> HIDE DEF b
<1>3. Proper(b) => [b EXCEPT !.cookie = c, !.end = e].t = b.t
                   /\ [b EXCEPT !.cookie = c, !.end = e].ok = b.ok
  BY DEF Proper
<1> QED BY <1>2, <1>3 DEF b, Proper

\* The peer's ID is not among what the Peer's moves are about.
LEMMA LearnMoves ==
  ASSUME NEW cfg, NEW t, TunnelOK(cfg, t), NEW msg, NEW v, v = LearnCcid(t, msg)
  PROVE  /\ TunnelOK(cfg, v) /\ SentOnly(t, v) /\ v.out = t.out
         /\ v.peer.ns_send = t.peer.ns_send /\ v.peer.nr_expect = t.peer.nr_expect
         /\ v.peer.reorder = t.peer.reorder /\ v.peer.send_queue = t.peer.send_queue
<1> DEFINE ccid == msg.body.ccid
           x == [t EXCEPT !.peer.remote_ccid = ccid]
<1>1. v = t \/ v = x
  BY DEF LearnCcid
<1> HIDE DEF ccid
<1>2. /\ DOMAIN x.peer = PeerFields /\ x.peer.ns_send = t.peer.ns_send
      /\ x.peer.nr_expect = t.peer.nr_expect /\ x.peer.reorder = t.peer.reorder
      /\ x.peer.send_queue = t.peer.send_queue /\ x.peer.dead = t.peer.dead
  BY DEF TunnelOK, TunnelFields, PeerOK, PeerFields
<1>3. /\ DOMAIN x = TunnelFields /\ x.dp = t.dp /\ x.dp_added = t.dp_added /\ x.out = t.out
      /\ x.fsm = t.fsm /\ x.hello = t.hello /\ x.by_remote = t.by_remote /\ x.sess = t.sess
  BY DEF TunnelOK, TunnelFields
<1> HIDE DEF x
<1>4. PeerOK(x.peer)
  BY <1>2 DEF TunnelOK, PeerOK
<1>5. TunnelOK(cfg, x) /\ SentOnly(t, x)
  BY <1>2, <1>3, <1>4 DEF TunnelOK, SentOnly
<1> QED BY <1>1, <1>2, <1>3, <1>5 DEF SentOnly

\* handle_datagram() up to the dispatching.
LEMMA HandleMoves ==
  ASSUME NEW cfg, ConfigOK(cfg), NEW t, Ready(cfg, t, Len(cfg.order) + 1), NEW K, NEW fail,
         NEW L \in Nat, L < Modulus, NEW wire,
         \A n \in SeqNum : t.peer.reorder[n] # NoMsg => n < L,
         wire.msg.body # Zlb => wire.msg.ns \in 0 .. L - 1 /\ Proper(wire.msg.body),
         NEW u, u = handle_datagram(cfg, t, wire, fail)
  PROVE  Handled(cfg, t, u, wire.msg, K, L, fail)
<1> DEFINE msg   == wire.msg
           v     == LearnCcid(t, msg)
           R     == {Wire(r, None) : r \in responses(v.peer, msg)}
           acks  == SetToSeq(R)
           p     == receive(v.peer, msg)
           w     == Put([v EXCEPT !.peer = p], acks)
           batch == delivered(v.peer, msg)
           m     == Merged(batch)
           gone  == AckedBy(msg.nr)
<1>1. u = IF ~Verified(cfg, wire) THEN t
          ELSE IF batch = <<>>    THEN w
          ELSE Dispatched(cfg, w, m, fail)
  BY DEF handle_datagram, Dispatched
<1>2. TunnelOK(cfg, t) /\ Len(cfg.order) \in Nat /\ t.peer.ns_send \in Nat
      /\ PendingOK(t.peer.send_queue) /\ Listed(t.out)
  BY LenProperties, ModulusAssumption DEF Ready, TunnelOK, PeerOK, SeqNum, ConfigOK
<1>3. /\ TunnelOK(cfg, v) /\ SentOnly(t, v) /\ v.out = t.out
      /\ v.peer.ns_send = t.peer.ns_send /\ v.peer.nr_expect = t.peer.nr_expect
      /\ v.peer.reorder = t.peer.reorder /\ v.peer.send_queue = t.peer.send_queue
  BY <1>2, LearnMoves
<1> HIDE DEF v, msg
<1>4. PeerOK(v.peer) /\ PendingOK(v.peer.send_queue)
  BY <1>2, <1>3 DEF TunnelOK
<1>5. PeerOK(p) /\ p.dead = v.peer.dead
  BY <1>4, ReceiveOK
<1>6. PeerMoves(v.peer, p, K, gone) /\ p.ns_send = v.peer.ns_send
  BY <1>4, ReceiveKeeps
<1>7. PeerMoves(t.peer, p, K, gone) /\ p.ns_send = t.peer.ns_send
  BY <1>3, <1>6 DEF PeerMoves, Stored, Queued, Issued
<1>8. /\ \A n \in SeqNum : p.reorder[n] # NoMsg => n < L
      /\ batch = <<>> => p.nr_expect = t.peer.nr_expect
      /\ batch # <<>> => /\ msg.body # Zlb /\ msg.ns = t.peer.nr_expect
                         /\ batch[1] = msg.body
                         /\ p.nr_expect \in t.peer.nr_expect + 1 .. L
  <2>1. /\ \A n \in SeqNum : v.peer.reorder[n] # NoMsg => n < L
        /\ msg.body # Zlb => msg.ns \in 0 .. L - 1
    BY <1>3 DEF msg
  <2>2. /\ \A n \in SeqNum : p.reorder[n] # NoMsg => n < L
        /\ batch = <<>> => p.nr_expect = v.peer.nr_expect
        /\ batch # <<>> => /\ msg.body # Zlb /\ msg.ns = v.peer.nr_expect
                           /\ batch[1] = msg.body
                           /\ p.nr_expect \in v.peer.nr_expect + 1 .. L
    BY <1>4, <2>1, BoundedReceive
  <2> QED BY <1>3, <2>2
<1>9. AllSent(t.peer, p, K, acks)
  <2>1. R = {} \/ R = {Wire(ack_only(p), None)}
    BY DEF responses
  <2>2. IsFiniteSet(R)
    BY <2>1, FS_EmptySet, FS_Singleton
  <2>3. \A r \in R : Sends(t.peer, p, K, r.msg)
    BY <2>1 DEF Wire, ack_only, stamped, Sends
  <2> HIDE DEF R
  <2> QED BY <2>2, <2>3, SetToSeqMembers DEF AllSent
<1> HIDE DEF R, acks, p, batch
<1>10. TunnelOK(cfg, w) /\ w.peer = p /\ SentOnly(v, w)
  BY <1>3, <1>5, PutOK
<1>11. Joined(t.out, acks, w.out)
  <2>1. Ready(cfg, v, 0)
    BY <1>2, <1>3, ModulusAssumption DEF Ready, TunnelOK, PeerOK, SeqNum
  <2> QED BY <1>3, <1>9, <2>1, PutParts DEF AllSent
<1> HIDE DEF w
<1>12. Moves(t, w, K, gone)
  BY <1>7, <1>9, <1>10, <1>11, PutMoves
<1>13. Received(cfg, t, w, msg, K, L)
  <2>1. Ready(cfg, w, Len(cfg.order) + 1)
    BY <1>7, <1>10, <1>12 DEF Ready, Moves, PeerMoves
  <2>2. SentOnly(t, w)
    BY <1>3, <1>10 DEF SentOnly
  <2> QED BY <1>7, <1>8, <1>10, <1>12, <2>1, <2>2 DEF Received
<1>14. CASE ~Verified(cfg, wire)
  <2>1. u = t
    BY <1>1, <1>14
  <2>2. Ready(cfg, t, 0)
    BY <1>2, ModulusAssumption DEF Ready, TunnelOK, PeerOK, SeqNum
  <2>3. Moves(t, t, K, {})
    BY <2>2, EmitsNothing DEF Emits
  <2>4. Moves(t, t, K, gone)
    BY <2>3 DEF Moves, PeerMoves
  <2>5. Received(cfg, t, t, msg, K, L)
    BY <2>4 DEF Received, SentOnly
  <2> QED BY <2>1, <2>5 DEF Handled, msg
<1>15. CASE Verified(cfg, wire) /\ batch = <<>>
  BY <1>1, <1>8, <1>10, <1>13, <1>15 DEF Handled, msg
<1>16. CASE Verified(cfg, wire) /\ batch # <<>>
  <2>1. u = Dispatched(cfg, w, m, fail)
    BY <1>1, <1>16
  <2>2. m.t = msg.body.t /\ m.ok
    <3>1. Proper(batch[1]) /\ batch[1] = msg.body
      BY <1>8, <1>16 DEF msg
    <3> QED BY <3>1, MergedFirst
  <2>3. Taking(t, w, msg, L)
    BY <1>8, <1>10, <1>16 DEF Taking
  <2> HIDE DEF m
  <2> QED BY <1>13, <2>1, <2>2, <2>3 DEF Handled, msg
<1> QED BY <1>14, <1>15, <1>16


\* _dispatch_session_message() of an ESTABLISHED tunnel.
LEMMA DispatchMoves ==
  ASSUME NEW cfg, ConfigOK(cfg), NEW t, Ready(cfg, t, 1), NEW fail, NEW K,
         Late \subseteq K[t.peer.ns_send], NEW m, m.t \in SessionTypes,
         NEW u, u = dispatch_session_message(cfg, t, m, fail)
  PROVE  Emits(t, u, K) /\ u.fsm = t.fsm
<1> DEFINE sid  == Recipient(cfg, t, m)
           step == on_session_message(cfg.sessions[sid], t.sess[sid], m)
           key  == step.sess.peer_sid
           dict == Indexed(t.by_remote, key, sid)
           x    == [t EXCEPT !.by_remote = dict]
           v    == IF key \in DOMAIN t.by_remote \cup {0} THEN t ELSE x
<1>1. u = IF ~m.ok \/ sid = 0 THEN t ELSE ExecuteSession(cfg, v, sid, step, fail)
  BY DEF dispatch_session_message
<1>2. sid \in DOMAIN cfg.sessions \cup {0}
  BY RecipientType DEF Ready
<1> HIDE DEF sid
<1>3. CASE ~m.ok \/ sid = 0
  <2>1. u = t
    BY <1>1, <1>3
  <2>2. Ready(cfg, t, 0)
    BY ModulusAssumption DEF Ready, TunnelOK, PeerOK, SeqNum
  <2> QED BY <2>1, <2>2, EmitsNothing
<1>4. CASE m.ok /\ sid # 0
  <2>1. sid \in DOMAIN cfg.sessions
    BY <1>2, <1>4
  <2>2. StepOK(t.sess[sid], step)
    BY <2>1, MessageStep DEF Ready, TunnelOK
  <2>3. step.send # None => Proper(step.send) /\ step.send.t \in K[t.peer.ns_send]
    BY SessionSends
  <2> HIDE DEF step
  <2>4. \A k \in DOMAIN dict : dict[k] \in DOMAIN cfg.sessions
    BY <2>1 DEF Indexed, Ready, TunnelOK
  <2> HIDE DEF key, dict
  <2>5. /\ DOMAIN x = TunnelFields /\ x.dp = t.dp /\ x.dp_added = t.dp_added /\ x.peer = t.peer
        /\ x.fsm = t.fsm /\ x.hello = t.hello /\ x.by_remote = dict /\ x.sess = t.sess
        /\ x.out = t.out
    BY DEF Ready, TunnelOK, TunnelFields
  <2> HIDE DEF x
  <2>6. Ready(cfg, x, 1)
    BY <2>4, <2>5 DEF Ready, TunnelOK
  <2>7. /\ Ready(cfg, v, 1) /\ v.peer = t.peer /\ v.out = t.out
        /\ v.fsm = t.fsm /\ v.sess = t.sess
    BY <2>5, <2>6
  <2> HIDE DEF v
  <2>8. u = ExecuteSession(cfg, v, sid, step, fail)
    BY <1>1, <1>4
  <2>9. Emits(v, u, K)
    BY <2>1, <2>2, <2>3, <2>7, <2>8, ExecuteSessionMoves
  <2>10. FsmKept(v, u)
    BY <2>1, <2>2, <2>7, <2>8, ExecuteSessionOK DEF Ready
  <2> QED BY <2>7, <2>9, <2>10 DEF Emits, Moves, FsmKept
<1> QED BY <1>3, <1>4

\* The messages that the handshake brings an end in each state, if K admits
\* what it answers with number n.
Expected(K, state, n, type) ==
    \/ state = "IDLE" /\ type = "SCCRQ" /\ "SCCRP" \in K[n]
    \/ /\ state = "WAIT_CTL_REPLY" /\ type = "SCCRP" /\ "SCCCN" \in K[n]
       /\ \A k \in Nat : k >= n + 1 => Late \subseteq K[k]
    \/ /\ state = "WAIT_CTL_CONN" /\ type = "SCCCN"
       /\ \A k \in Nat : k >= n => Late \subseteq K[k]
    \/ state = "WAIT_CTL_REPLY" /\ type = "SCCRQ" /\ "StopCCN" \in K[n]
    \/ state \in {"SEND_STOPCCN", "IDLE"} /\ type = "StopCCN"
    \/ state = "ESTABLISHED" /\ type \in Late /\ Late \subseteq K[n]

NextState(state, type) ==
    CASE type = "SCCRQ"   -> IF state = "IDLE" THEN "WAIT_CTL_CONN" ELSE "SEND_STOPCCN"
      [] type = "StopCCN" -> "IDLE"
      [] OTHER            -> "ESTABLISHED"

\* What becomes of the end.
Answered(t, u, type) ==
    /\ u.fsm = NextState(t.fsm, type)
    /\ u.fsm # "ESTABLISHED" => u.sess = t.sess
    /\ type = "SCCRQ" => u.peer.ns_send = t.peer.ns_send + 1
    /\ type = "SCCRP" => u.peer.ns_send >= t.peer.ns_send + 1
    /\ type = "StopCCN" => u.peer.ns_send = t.peer.ns_send

\* The TunnelFSM's step in these cases.
Answers(K, state, n, type, step) ==
    /\ step.state = NextState(state, type)
    /\ step.send # None => Proper(step.send) /\ step.send.t \in K[n]
    /\ type \in {"SCCRQ", "SCCRP"} => step.send # None
    /\ type \in {"SCCCN", "StopCCN", "HELLO"} => step.send = None
    /\ type \in {"SCCRQ", "StopCCN", "HELLO"} => step.signal = "none"
    /\ type \in {"SCCRP", "SCCCN"} => step.signal = "established"

LEMMA HandshakeBodies ==
  ASSUME NEW ccid \in Nat
  PROVE  /\ Proper(build_sccrp(ccid)) /\ build_sccrp(ccid) # None
         /\ build_sccrp(ccid).t = "SCCRP"
         /\ Proper(build_stopccn(ccid)) /\ build_stopccn(ccid) # None
         /\ build_stopccn(ccid).t = "StopCCN"
         /\ Proper(build_scccn) /\ build_scccn # None /\ build_scccn.t = "SCCCN"
<1>1. build_scccn \in [t : {"SCCRQ", "SCCRP", "SCCCN", "StopCCN"}, ok : {TRUE}, ccid : Nat,
                       lsid : {0}, rsid : {0}, end : {None}, cookie : {None}]
  BY DEF build_scccn, Body
<1>2. build_scccn # None
  BY <1>1, NoneAssumption
<1>3. Proper(build_scccn) /\ build_scccn.t = "SCCCN"
  BY DEF build_scccn, Body, Proper
<1>4. /\ Proper(build_sccrp(ccid)) /\ build_sccrp(ccid) # None
      /\ build_sccrp(ccid).t = "SCCRP"
  BY NoneAssumption DEF build_sccrp, Body, Proper
<1>5. /\ Proper(build_stopccn(ccid)) /\ build_stopccn(ccid) # None
      /\ build_stopccn(ccid).t = "StopCCN"
  BY NoneAssumption DEF build_stopccn, Body, Proper
<1> QED BY <1>2, <1>3, <1>4, <1>5

\* TunnelFSM.on_message() answers so.
LEMMA ExpectedStep ==
  ASSUME NEW K, NEW state, NEW n, NEW m, m.ok, NEW ccid \in Nat, Expected(K, state, n, m.t),
         m.t \notin SessionTypes, NEW step, step = on_tunnel_message(state, m, ccid)
  PROVE  Answers(K, state, n, m.t, step)
<1> USE DEF on_tunnel_message, Expected, NextState, Answers
<1>1. CASE m.t = "SCCRQ"
  <2>1. CASE state = "IDLE"
    BY <1>1, <2>1, HandshakeBodies DEF on_sccrq, Step, Late, SessionTypes
  <2>2. CASE state = "WAIT_CTL_REPLY"
    BY <1>1, <2>2, HandshakeBodies
       DEF on_sccrq, Step, teardown_and_notify, TornDown, Late, SessionTypes
  <2> QED BY <1>1, <2>1, <2>2 DEF Late, SessionTypes
<1>2. CASE m.t = "SCCRP"
  <2>1. state = "WAIT_CTL_REPLY"
    BY <1>2 DEF Late, SessionTypes
  <2> QED BY <1>2, <2>1, HandshakeBodies DEF on_sccrp, Step, Late, SessionTypes
<1>3. CASE m.t = "SCCCN"
  <2>1. state = "WAIT_CTL_CONN"
    BY <1>3 DEF Late, SessionTypes
  <2> QED BY <1>3, <2>1 DEF on_scccn, Step
<1>4. CASE m.t = "StopCCN"
  <2>1. state \in {"SEND_STOPCCN", "IDLE"}
    BY <1>4 DEF Late, SessionTypes
  <2> QED BY <1>4, <2>1 DEF on_stopccn, BackToIdle, Nothing, Step, TornDown
<1>5. CASE m.t = "HELLO"
  <2>1. state = "ESTABLISHED"
    BY <1>5
  <2> QED BY <1>5, <2>1 DEF Nothing, Step
<1>6. m.t \in {"SCCRQ", "SCCRP", "SCCCN", "StopCCN", "HELLO"}
  BY DEF Late
<1> QED BY <1>1, <1>2, <1>3, <1>4, <1>5, <1>6

\* The handshake's next message and what it starts.
LEMMA DispatchedMoves ==
  ASSUME NEW cfg, ConfigOK(cfg), cfg.local_ccid \in Nat,
         NEW t, Ready(cfg, t, Len(cfg.order) + 1), HelloOK(t), NEW fail, NEW K,
         NEW m, m.ok, Expected(K, t.fsm, t.peer.ns_send, m.t),
         NEW u, u = Dispatched(cfg, t, m, fail)
  PROVE  Emits(t, u, K) /\ Answered(t, u, m.t)
<1> DEFINE n == t.peer.ns_send
           step == on_tunnel_message(t.fsm, m, cfg.local_ccid)
<1>1. CASE m.t \in SessionTypes
  <2>1. u = dispatch_session_message(cfg, t, m, fail)
    BY <1>1 DEF Dispatched
  <2>2. t.fsm = "ESTABLISHED" /\ Late \subseteq K[n]
    BY <1>1 DEF Expected, SessionTypes
  <2>3. Ready(cfg, t, 1)
    BY LenProperties, ModulusAssumption DEF Ready, TunnelOK, PeerOK, SeqNum, ConfigOK
  <2>4. Emits(t, u, K) /\ u.fsm = t.fsm
    BY <1>1, <2>1, <2>2, <2>3, DispatchMoves
  <2>5. Answered(t, u, m.t)
    BY <1>1, <2>2, <2>4 DEF Answered, NextState, SessionTypes
  <2> QED BY <2>4, <2>5
<1>2. CASE m.t \notin SessionTypes
  <2>1. u = Execute(cfg, t, step, fail)
    BY <1>2 DEF Dispatched
  <2>2. FsmStepOK(t.hello, step)
    BY FsmSteps DEF Ready, TunnelOK, HelloOK
  <2>3. Answers(K, t.fsm, n, m.t, step)
    BY <1>2, ExpectedStep
  <2> HIDE DEF step
  <2>4. m.t \in {"SCCRQ", "SCCRP", "SCCCN", "StopCCN", "HELLO"}
    BY <1>2 DEF Expected, Late
  <2>5. step.signal = "established" => \A k \in Nat : k >= After(t, step) => Late \subseteq K[k]
    BY <2>3, <2>4 DEF Answers, Expected, After, Late, SessionTypes
  <2>6. Executed(cfg, t, u, K, step)
    BY <2>1, <2>2, <2>3, <2>5, ExecuteMoves DEF Answers, Admits
  <2>7. Emits(t, u, K) /\ u.fsm = NextState(t.fsm, m.t)
    BY <2>3, <2>6 DEF Answers, Executed
  <2>8. u.fsm # "ESTABLISHED" => u.sess = t.sess
    BY <2>3, <2>4, <2>6, <2>7 DEF Answers, Executed, SessionsFollow, NextState
  <2>9. /\ m.t = "SCCRQ" => u.peer.ns_send = n + 1
        /\ m.t = "SCCRP" => u.peer.ns_send >= n + 1
        /\ m.t = "StopCCN" => u.peer.ns_send = n
    BY <2>3, <2>6 DEF Answers, Executed, After
  <2> QED BY <2>7, <2>8, <2>9 DEF Answered
<1> QED BY <1>1, <1>2
=============================================================================
