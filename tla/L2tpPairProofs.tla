--------------------------- MODULE L2tpPairProofs ---------------------------
(***************************************************************************)
(* Two daemons and the network, for every scenario: every pair of          *)
(* configurations, all failures of ip commands, any number of network      *)
(* faults, expiries, stops and crashes.                                    *)
(*                                                                         *)
(* The first part is what each end guarantees by itself.  What arrives     *)
(* does not matter to it (TunnelProofs assumes nothing of a datagram), so  *)
(* neither do loss, duplication and reordering.  The second part is the    *)
(* handshake, which relates the ends: what can arrive there is what the    *)
(* other end has sent, and each step of one end keeps that in step with    *)
(* the state of both.                                                      *)
(***************************************************************************)
EXTENDS L2tpPair, TunnelProofs

\* One end: its tunnel is in order, gone from the table exactly when its Peer
\* is dead, and no session is up while there is no process.
EndOK(cfg, t, st) ==
    /\ TunnelOK(cfg, t) /\ HelloOK(t)
    /\ t.out = <<>>
    /\ st \in {"off", "up", "removed"}
    /\ t.peer.dead <=> st = "removed"
    /\ st = "off" => \A sid \in DOMAIN cfg.sessions : ~Up(t.sess[sid])

\* Nothing has failed, so the kernel is exactly as the sessions want it.
KernelExact(cfg, t) == KernelOK(cfg, t.sess, t.dp, t.dp_added, {})

\* The inductive invariant.  The last conjunct is for the two ends' lifetime
\* only: a process that starts on what another one left behind knows nothing
\* of it.
Inv ==
    /\ scn \in DOMAIN Scenario
    /\ used \in [Events -> Nat]
    /\ DOMAIN tn = Ends /\ DOMAIN status = Ends
    /\ \A e \in Ends : EndOK(Config[e], tn[e], status[e])
    /\ Undisturbed => \A e \in Ends : KernelExact(Config[e], tn[e])

\* The configurations are as the loader promises.
LEMMA ConfigsOK ==
  ASSUME Inv, NEW e \in Ends
  PROVE  ConfigOK(Config[e])
  BY PairAssumption DEF Inv, Config, ConfigOK

\* A Tunnel with which nothing has happened yet.
FreshTunnel(cfg, t) ==
    /\ TunnelOK(cfg, t) /\ HelloOK(t)
    /\ ~t.peer.dead
    /\ \A sid \in DOMAIN cfg.sessions : ~Up(t.sess[sid])

\* What a process leaves behind when it ends, with the Tunnel of the next one.
LEMMA FreshOK ==
  ASSUME NEW e, NEW dp, DpOK(DOMAIN Config[e].sessions, dp)
  PROVE  FreshTunnel(Config[e], Fresh(e, Leftover(dp)))
<1> DEFINE c == Config[e]
           d == Leftover(dp)
           t == Fresh(e, d)
<1>1. DpOK(DOMAIN c.sessions, d)
  <2>1. DOMAIN d = DpFields /\ d.tunnel = FALSE /\ d.sessions = {}
        /\ d.ktunnel = dp.ktunnel /\ d.ksessions = dp.ksessions
    BY DEF Leftover, DpOK, DpFields
  <2> HIDE DEF d
  <2> QED BY <2>1 DEF DpOK
<1>2. t = NewTunnel(c, d)
  BY DEF Fresh
<1> HIDE DEF c, d, t
<1>3. TunnelOK(c, t) /\ HelloOK(t) /\ ~t.peer.dead
  BY <1>1, <1>2, NewTunnelOK
<1>4. \A sid \in DOMAIN c.sessions : ~Up(t.sess[sid])
  BY <1>1, <1>2, NewTunnelOK
<1>5. FreshTunnel(c, t)
  BY <1>3, <1>4 DEF FreshTunnel
<1> QED BY <1>5 DEF c, d, t

\* The datagrams to transmit do not matter to it.
LEMMA FreshOut ==
  ASSUME NEW cfg, NEW v, FreshTunnel(cfg, v), NEW out,
         NEW t, t = [v EXCEPT !.out = out]
  PROVE  FreshTunnel(cfg, t) /\ t.out = out
<1>1. TunnelOK(cfg, v)
  BY DEF FreshTunnel
<1>2. /\ TunnelOK(cfg, t) /\ t.out = out
      /\ t.peer = v.peer /\ t.fsm = v.fsm /\ t.hello = v.hello /\ t.sess = v.sess
  BY <1>1, OutSet
<1> QED BY <1>2 DEF FreshTunnel, HelloOK

\* The invariant holds before anything has started.
LEMMA InitInv == Init => Inv
<1> SUFFICES ASSUME Init PROVE Inv
  OBVIOUS
<1>1. /\ scn \in DOMAIN Scenario /\ used \in [Events -> Nat]
      /\ DOMAIN tn = Ends /\ DOMAIN status = Ends
  BY DEF Init
<1>2. ASSUME NEW e \in Ends
      PROVE  EndOK(Config[e], tn[e], status[e]) /\ KernelExact(Config[e], tn[e])
  <2> DEFINE dp == NewDataplane(DOMAIN Config[e].sessions)
             c == Config[e]
  <2>1. tn[e] = NewTunnel(c, dp) /\ status[e] = "off"
    BY DEF Init, Fresh
  <2>2. DpOK(DOMAIN c.sessions, dp)
    <3>1. PICK sess : sess = [sid \in DOMAIN c.sessions |-> NewSession]
      OBVIOUS
    <3>2. \A sid \in DOMAIN c.sessions : ~Up(sess[sid])
      BY <3>1 DEF Up, NewSession
    <3> HIDE DEF c
    <3> QED BY <3>2, NewDataplaneOK DEF c
  <2>3. tn[e].out = <<>>
    BY <2>1 DEF NewTunnel
  <2>4. dp = NewDataplane(DOMAIN c.sessions)
    OBVIOUS
  <2> HIDE DEF dp, c
  <2>5. /\ TunnelOK(c, tn[e]) /\ HelloOK(tn[e]) /\ ~tn[e].peer.dead
        /\ tn[e].dp = dp /\ tn[e].dp_added = FALSE
        /\ \A sid \in DOMAIN c.sessions : ~Up(tn[e].sess[sid])
    BY <2>1, <2>2, NewTunnelOK
  <2>6. KernelOK(c, tn[e].sess, tn[e].dp, tn[e].dp_added, {})
    BY <2>4, <2>5, NewDataplaneOK
  <2> QED BY <2>1, <2>3, <2>5, <2>6 DEF EndOK, KernelExact, c
<1> QED BY <1>1, <1>2 DEF Inv

\* The bounds are used up one by one; a lifetime that has not ended yet has not
\* ended before, and a stop or a crash ends it.
LEMMA UseFacts ==
  ASSUME Inv, NEW event \in Events, Use(event)
  PROVE  /\ used' \in [Events -> Nat]
         /\ OneLifetime' => OneLifetime
         /\ event \in {"stops", "crashes"} => ~OneLifetime'
<1>1. used \in [Events -> Nat]
  BY DEF Inv
<1>2. used' = [used EXCEPT ![event] = @ + 1]
  BY DEF Use
<1>3. used' \in [Events -> Nat]
  BY <1>1, <1>2
<1>4. /\ used.stops \in Nat /\ used.crashes \in Nat
      /\ used'.stops = IF event = "stops" THEN used.stops + 1 ELSE used.stops
      /\ used'.crashes = IF event = "crashes" THEN used.crashes + 1 ELSE used.crashes
  BY <1>1, <1>2 DEF Events
<1> QED BY <1>3, <1>4 DEF OneLifetime

\* A step that concerns end e.
LEMMA EndStep ==
  ASSUME Inv, NEW e \in Ends, scn' = scn,
         used' \in [Events -> Nat], OneLifetime' => OneLifetime,
         DOMAIN tn' = Ends, DOMAIN status' = Ends,
         \A o \in Ends \ {e} : tn'[o] = tn[o] /\ status'[o] = status[o],
         EndOK(Config[e], tn'[e], status'[e]),
         Undisturbed /\ OneLifetime' /\ KernelExact(Config[e], tn[e])
             => KernelExact(Config[e], tn'[e])
  PROVE  Inv'
<1>1. Config' = Config /\ (Undisturbed' => Undisturbed /\ OneLifetime')
  BY DEF Config, Undisturbed, Failing, SessionsOf
<1>2. scn' \in DOMAIN Scenario
  BY DEF Inv
<1>3. \A o \in Ends : EndOK(Config'[o], tn'[o], status'[o])
  BY <1>1 DEF Inv
<1>4. Undisturbed' => \A o \in Ends : KernelExact(Config'[o], tn'[o])
  BY <1>1 DEF Inv
<1> QED BY <1>2, <1>3, <1>4 DEF Inv

\* What Commit() changes.
LEMMA CommitFacts ==
  ASSUME Inv, NEW e \in Ends, NEW t, NEW queue, Commit(e, t, queue)
  PROVE  /\ scn' = scn /\ DOMAIN tn' = Ends
         /\ tn'[e] = [t EXCEPT !.out = <<>>]
         /\ \A o \in Ends \ {e} : tn'[o] = tn[o]
  BY DEF Commit, Inv

\* A callback of a process that goes on.
LEMMA CallStep ==
  ASSUME Inv, NEW e \in Ends, NEW fail \in Failing, NEW t, NEW queue, NEW st,
         CallOK(Config[e], tn[e], t, fail), Commit(e, t, queue),
         DOMAIN status' = Ends, status'[e] = st,
         \A o \in Ends \ {e} : status'[o] = status[o],
         st \in {"up", "removed"} \cup {status[e]},
         t.peer.dead <=> st = "removed",
         st = "off" => t.sess = tn[e].sess,
         used' \in [Events -> Nat], OneLifetime' => OneLifetime
  PROVE  Inv'
<1> DEFINE u == tn'[e]
           c == Config[e]
<1>1. /\ scn' = scn /\ DOMAIN tn' = Ends
      /\ u = [t EXCEPT !.out = <<>>]
      /\ \A o \in Ends \ {e} : tn'[o] = tn[o]
  BY CommitFacts
<1>2. /\ DOMAIN status' = Ends /\ status'[e] = st
      /\ \A o \in Ends \ {e} : status'[o] = status[o]
  OBVIOUS
<1>3. EndOK(c, tn[e], status[e])
  BY DEF Inv
<1>4. CallOK(c, tn[e], t, fail)
  OBVIOUS
<1> HIDE DEF u, c
<1>5. CallOK(c, tn[e], u, fail) /\ u.peer = t.peer /\ u.out = <<>>
  BY <1>1, <1>4, OutTaken
<1>6. u.sess = t.sess
  BY <1>1, <1>4, OutSet DEF CallOK
<1>7. EndOK(c, u, st)
  BY <1>3, <1>5, <1>6 DEF EndOK, CallOK
<1>8. Undisturbed /\ KernelExact(c, tn[e]) => KernelExact(c, u)
  <2> SUFFICES ASSUME Undisturbed, KernelExact(c, tn[e]) PROVE KernelExact(c, u)
    OBVIOUS
  <2>1. fail = {}
    BY DEF Undisturbed
  <2>2. {} \cup fail = {}
    BY <2>1
  <2>3. KernelOK(c, u.sess, u.dp, u.dp_added, {} \cup fail)
    BY <1>5 DEF CallOK, KernelStep, KernelExact
  <2> QED BY <2>2, <2>3 DEF KernelExact
<1> QED BY <1>1, <1>2, <1>7, <1>8, EndStep DEF u, c

\* A process has ended: a new Tunnel stands for the one to come.
LEMMA EndedStep ==
  ASSUME Inv, NEW e \in Ends, NEW t, FreshTunnel(Config[e], t),
         NEW queue, Commit(e, t, queue),
         status' = [status EXCEPT ![e] = "off"],
         used' \in [Events -> Nat], OneLifetime' => OneLifetime, ~OneLifetime'
  PROVE  Inv'
<1> DEFINE u == tn'[e]
           c == Config[e]
<1>1. /\ scn' = scn /\ DOMAIN tn' = Ends
      /\ u = [t EXCEPT !.out = <<>>]
      /\ \A o \in Ends \ {e} : tn'[o] = tn[o]
  BY CommitFacts
<1>2. /\ DOMAIN status' = Ends /\ status'[e] = "off"
      /\ \A o \in Ends \ {e} : status'[o] = status[o]
  BY DEF Inv
<1> HIDE DEF u, c
<1>3. FreshTunnel(c, u) /\ u.out = <<>>
  BY <1>1, FreshOut DEF c
<1>4. EndOK(c, u, "off")
  BY <1>3 DEF EndOK, FreshTunnel
<1> QED BY <1>1, <1>2, <1>4, EndStep DEF u, c

\* A daemon starts.  If no process has ended before, it finds the kernel empty.
LEMMA StartStep ==
  ASSUME Inv, NEW e \in Ends, Start(e)
  PROVE  Inv'
<1> DEFINE c == Config[e]
           t == Fresh(e, tn[e].dp)
           v == IF e \in Openers THEN start(c, t) ELSE t
           u == tn'[e]
<1>1. /\ status[e] = "off" /\ status' = [status EXCEPT ![e] = "up"]
      /\ Commit(e, v, net[e]) /\ used' = used
  BY DEF Start
<1>2. EndOK(c, tn[e], "off") /\ ConfigOK(c)
  BY <1>1, ConfigsOK DEF Inv
<1>3. /\ scn' = scn /\ DOMAIN tn' = Ends
      /\ u = [v EXCEPT !.out = <<>>]
      /\ \A o \in Ends \ {e} : tn'[o] = tn[o]
  BY <1>1, CommitFacts
<1>4. t = NewTunnel(c, tn[e].dp)
  BY DEF Fresh
<1> HIDE DEF c, t, u
<1>5. /\ TunnelOK(c, t) /\ HelloOK(t) /\ ~t.peer.dead
      /\ t.dp = tn[e].dp /\ t.dp_added = FALSE
      /\ \A sid \in DOMAIN c.sessions : ~Up(t.sess[sid])
  <2>1. DpOK(DOMAIN c.sessions, tn[e].dp)
    BY <1>2 DEF EndOK, TunnelOK
  <2> DEFINE dp == tn[e].dp
  <2>2. DpOK(DOMAIN c.sessions, dp) /\ t = NewTunnel(c, dp)
    BY <1>4, <2>1
  <2> HIDE DEF dp
  <2>3. TunnelOK(c, t) /\ HelloOK(t) /\ ~t.peer.dead /\ t.dp = dp /\ t.dp_added = FALSE
    BY <2>2, NewTunnelOK
  <2>4. \A sid \in DOMAIN c.sessions : ~Up(t.sess[sid])
    BY <2>2, NewTunnelOK
  <2> QED BY <2>3, <2>4 DEF dp
<1>6. CallOK(c, t, v, {}) /\ ~v.peer.dead
  <2>1. CASE v = t
    BY <1>5, <2>1, KernelUnchanged DEF CallOK
  <2>2. CASE v = start(c, t)
    <3> HIDE DEF v
    <3> QED BY <1>2, <1>5, <2>2, StartOK
  <2> QED BY <2>1, <2>2
<1> HIDE DEF v
<1>7. CallOK(c, t, u, {}) /\ u.peer = v.peer /\ u.out = <<>>
  BY <1>3, <1>6, OutTaken
<1>8. EndOK(c, u, "up")
  BY <1>6, <1>7 DEF EndOK, CallOK
<1>9. KernelExact(c, tn[e]) => KernelExact(c, u)
  <2> SUFFICES ASSUME KernelExact(c, tn[e]) PROVE KernelExact(c, u)
    OBVIOUS
  <2>1. \A sid \in DOMAIN c.sessions : NetdevOK(c.sessions[sid], sid, t.sess[sid], t.dp, {})
    <3> SUFFICES ASSUME NEW sid \in DOMAIN c.sessions
                 PROVE  NetdevOK(c.sessions[sid], sid, t.sess[sid], t.dp, {})
      OBVIOUS
    <3>1. NetdevOK(c.sessions[sid], sid, tn[e].sess[sid], tn[e].dp, {})
      BY DEF KernelExact, KernelOK
    <3>2. ~Up(tn[e].sess[sid]) /\ ~Up(t.sess[sid]) /\ t.dp = tn[e].dp
      BY <1>2, <1>5 DEF EndOK
    <3> QED BY <3>1, <3>2 DEF NetdevOK
  <2>2. KernelOK(c, t.sess, t.dp, t.dp_added, {})
    BY <1>5, <2>1 DEF KernelExact, KernelOK
  <2>3. KernelOK(c, u.sess, u.dp, u.dp_added, {} \cup {})
    BY <1>7, <2>2 DEF CallOK, KernelStep
  <2>4. {} \cup {} = {}
    OBVIOUS
  <2> QED BY <2>3, <2>4 DEF KernelExact
<1>10. /\ DOMAIN status' = Ends /\ status'[e] = "up"
       /\ \A o \in Ends \ {e} : status'[o] = status[o]
  BY <1>1 DEF Inv
<1>11. used' \in [Events -> Nat] /\ (OneLifetime' => OneLifetime)
  BY <1>1 DEF Inv, OneLifetime
<1> QED BY <1>3, <1>8, <1>9, <1>10, <1>11, EndStep DEF u, c

\* A datagram arrives, whichever it is, at a tunnel or at a process without
\* one.
LEMMA TakeStep ==
  ASSUME Inv, NEW e \in Ends, NEW i, NEW rest, Take(e, i, rest),
         used' \in [Events -> Nat], OneLifetime' => OneLifetime
  PROVE  Inv'
<1>1. ConfigOK(Config[e]) /\ EndOK(Config[e], tn[e], status[e])
  BY ConfigsOK DEF Inv
<1>2. /\ DOMAIN status' = Ends /\ status'[e] = status[e]
      /\ \A o \in Ends \ {e} : status'[o] = status[o]
  BY DEF Take, Inv
<1>3. CASE Reaches(e, net[e][i])
  <2>1. PICK fail \in Failing :
          Commit(e, handle_datagram(Config[e], tn[e], net[e][i], fail), rest)
    BY <1>3 DEF Take
  <2> DEFINE t == handle_datagram(Config[e], tn[e], net[e][i], fail)
  <2>2. CallOK(Config[e], tn[e], t, fail) /\ t.peer.dead = tn[e].peer.dead
    BY <1>1, HandleDatagramOK DEF EndOK
  <2>3. Commit(e, t, rest) /\ status[e] = "up"
    BY <1>3, <2>1 DEF Reaches
  <2> HIDE DEF t
  <2> QED BY <1>1, <1>2, <2>2, <2>3, CallStep DEF EndOK
<1>4. CASE ~Reaches(e, net[e][i])
  <2>1. Commit(e, tn[e], rest)
    BY <1>4 DEF Take
  <2>2. {} \in Failing
    BY PairAssumption DEF Inv, Failing
  <2>3. CallOK(Config[e], tn[e], tn[e], {})
    BY <1>1, KernelUnchanged DEF CallOK, EndOK
  <2> QED BY <1>1, <1>2, <2>1, <2>2, <2>3, CallStep DEF EndOK
<1> QED BY <1>3, <1>4

\* Every step keeps the invariant.
LEMMA NextInv == Inv /\ [Next]_vars => Inv'
<1> SUFFICES ASSUME Inv, [Next]_vars PROVE Inv'
  OBVIOUS
<1>1. \A e \in Ends : ConfigOK(Config[e]) /\ EndOK(Config[e], tn[e], status[e])
  BY ConfigsOK DEF Inv
<1>2. UNCHANGED used => used' \in [Events -> Nat] /\ (OneLifetime' => OneLifetime)
  BY DEF Inv, OneLifetime
<1>3. DOMAIN status = Ends
  BY DEF Inv
<1>4. ASSUME NEW e \in Ends, Start(e) PROVE Inv'
  BY <1>4, StartStep
<1>5. ASSUME NEW e \in Ends, Receive(e) PROVE Inv'
  BY <1>2, <1>5, TakeStep DEF Receive
<1>6. ASSUME NEW e \in Ends, Duplicated(e) PROVE Inv'
  <2>1. Take(e, 1, net[e]) /\ Use("faults")
    BY <1>6 DEF Duplicated
  <2>2. used' \in [Events -> Nat] /\ (OneLifetime' => OneLifetime)
    BY <2>1, UseFacts DEF Events
  <2> QED BY <2>1, <2>2, TakeStep
<1>7. ASSUME NEW e \in Ends, Overtaking(e) PROVE Inv'
  <2>1. PICK i : Take(e, i, RemoveAt(net[e], i)) /\ Use("faults")
    BY <1>7 DEF Overtaking
  <2>2. used' \in [Events -> Nat] /\ (OneLifetime' => OneLifetime)
    BY <2>1, UseFacts DEF Events
  <2> QED BY <2>1, <2>2, TakeStep
<1>8. ASSUME NEW e \in Ends, Lose(e) PROVE Inv'
  <2>1. Use("faults") /\ scn' = scn /\ tn' = tn /\ status' = status
    BY <1>8 DEF Lose
  <2>2. used' \in [Events -> Nat] /\ (OneLifetime' => OneLifetime)
    BY <2>1, UseFacts DEF Events
  <2>3. /\ DOMAIN tn' = Ends /\ DOMAIN status' = Ends
        /\ EndOK(Config[e], tn'[e], status'[e])
    BY <1>1, <2>1 DEF Inv
  <2> QED BY <2>1, <2>2, <2>3, EndStep
<1>9. ASSUME NEW e \in Ends, Tick(e) PROVE Inv'
  <2>1. PICK expired \in Expiries(tn[e].peer), fail \in Failing :
          LET t == tunnel_tick(Config[e], tn[e], expired, fail)
          IN  /\ IF Quiet THEN UNCHANGED used ELSE Use("early")
              /\ status' = [status EXCEPT ![e] = IF t.peer.dead THEN "removed" ELSE "up"]
              /\ Commit(e, t, net[e])
    BY <1>9 DEF Tick
  <2> DEFINE t == tunnel_tick(Config[e], tn[e], expired, fail)
             st == IF t.peer.dead THEN "removed" ELSE "up"
  <2>2. CallOK(Config[e], tn[e], t, fail)
    BY <1>1, TunnelTickOK DEF EndOK
  <2>3. used' \in [Events -> Nat] /\ (OneLifetime' => OneLifetime)
    BY <1>2, <2>1, UseFacts DEF Events
  <2>4. /\ DOMAIN status' = Ends /\ status'[e] = st
        /\ \A o \in Ends \ {e} : status'[o] = status[o]
        /\ Commit(e, t, net[e])
    BY <1>3, <2>1
  <2> HIDE DEF t
  <2>5. st \in {"up", "removed"} /\ (t.peer.dead <=> st = "removed")
    OBVIOUS
  <2> HIDE DEF st
  <2> QED BY <2>2, <2>3, <2>4, <2>5, CallStep
<1>10. ASSUME NEW e \in Ends, HelloTimer(e) PROVE Inv'
  <2>1. PICK fail \in Failing :
          LET t == hello_timer(Config[e], tn[e], fail)
          IN  /\ status[e] # "off" /\ Use("hellos") /\ Commit(e, t, net[e])
              /\ status' = status
    BY <1>10 DEF HelloTimer
  <2> DEFINE t == hello_timer(Config[e], tn[e], fail)
  <2>2. CallOK(Config[e], tn[e], t, fail) /\ t.peer.dead = tn[e].peer.dead
    BY <1>1, HelloTimerOK DEF EndOK
  <2>3. used' \in [Events -> Nat] /\ (OneLifetime' => OneLifetime)
    BY <2>1, UseFacts DEF Events
  <2>4. /\ DOMAIN status' = Ends /\ status' = status /\ Commit(e, t, net[e])
        /\ status[e] # "off"
    BY <1>3, <2>1
  <2> HIDE DEF t
  <2> QED BY <1>1, <2>2, <2>3, <2>4, CallStep DEF EndOK
<1>11. ASSUME NEW e \in Ends, CloseSession(e) PROVE Inv'
  <2>1. PICK sid \in DOMAIN Config[e].sessions, fail \in Failing :
          LET t == session_close(Config[e], tn[e], sid, fail)
          IN  /\ status[e] = "up" /\ Use("closes") /\ Commit(e, t, net[e])
              /\ status' = status
    BY <1>11 DEF CloseSession
  <2> DEFINE t == session_close(Config[e], tn[e], sid, fail)
  <2>2. CallOK(Config[e], tn[e], t, fail) /\ t.peer.dead = tn[e].peer.dead
    BY <1>1, SessionCloseOK DEF EndOK
  <2>3. used' \in [Events -> Nat] /\ (OneLifetime' => OneLifetime)
    BY <2>1, UseFacts DEF Events
  <2>4. /\ DOMAIN status' = Ends /\ status' = status /\ Commit(e, t, net[e])
        /\ status[e] = "up"
    BY <1>3, <2>1
  <2> HIDE DEF t
  <2> QED BY <1>1, <2>2, <2>3, <2>4, CallStep DEF EndOK
<1>12. ASSUME NEW e \in Ends, Stop(e) PROVE Inv'
  <2>1. PICK fail \in Failing :
          LET t == Stopped(e, fail)
          IN  /\ Use("stops") /\ status' = [status EXCEPT ![e] = "off"]
              /\ Commit(e, [Fresh(e, Leftover(t.dp)) EXCEPT !.out = t.out], net[e])
    BY <1>12 DEF Stop
  <2> DEFINE t == Stopped(e, fail)
             dp == t.dp
             out == t.out
             v == Fresh(e, Leftover(dp))
             x == [v EXCEPT !.out = out]
  <2>2. DpOK(DOMAIN Config[e].sessions, dp)
    <3>1. CASE t = tn[e]
      BY <1>1, <3>1 DEF EndOK, TunnelOK
    <3>2. CASE t = close(Config[e], tn[e], fail)
      <4> HIDE DEF t
      <4>1. CallOK(Config[e], tn[e], t, fail)
        BY <1>1, <3>2, CloseOK DEF EndOK
      <4> QED BY <4>1 DEF CallOK, TunnelOK
    <3> QED BY <3>1, <3>2 DEF Stopped
  <2>3. /\ used' \in [Events -> Nat] /\ (OneLifetime' => OneLifetime) /\ ~OneLifetime'
    BY <2>1, UseFacts DEF Events
  <2>4. Commit(e, x, net[e]) /\ status' = [status EXCEPT ![e] = "off"]
    BY <2>1
  <2> HIDE DEF dp, out
  <2>5. FreshTunnel(Config[e], v)
    BY <2>2, FreshOK
  <2> HIDE DEF v
  <2>6. FreshTunnel(Config[e], x)
    BY <2>5, FreshOut
  <2> HIDE DEF x
  <2> QED BY <2>3, <2>4, <2>6, EndedStep
<1>13. ASSUME NEW e \in Ends, Crash(e) PROVE Inv'
  <2> DEFINE v == Fresh(e, Leftover(tn[e].dp))
  <2>1. Use("crashes") /\ status' = [status EXCEPT ![e] = "off"] /\ Commit(e, v, net[e])
    BY <1>13 DEF Crash
  <2>2. DpOK(DOMAIN Config[e].sessions, tn[e].dp)
    BY <1>1 DEF EndOK, TunnelOK
  <2>3. /\ used' \in [Events -> Nat] /\ (OneLifetime' => OneLifetime) /\ ~OneLifetime'
    BY <2>1, UseFacts DEF Events
  <2>4. FreshTunnel(Config[e], v)
    BY <2>2, FreshOK
  <2> HIDE DEF v
  <2> QED BY <2>1, <2>3, <2>4, EndedStep
<1>14. CASE UNCHANGED vars
  BY <1>14 DEF vars, Inv, Config, EndOK, KernelExact, Undisturbed, OneLifetime, Failing, SessionsOf
<1> QED
  BY <1>4, <1>5, <1>6, <1>7, <1>8, <1>9, <1>10, <1>11, <1>12, <1>13, <1>14 DEF Next

\* So it always holds.
LEMMA Invariance == Spec => []Inv
  BY InitInv, NextInv, PTL DEF Spec

-----------------------------------------------------------------------------
(* Theorems *)

\* Whatever the network, the operator and the supervisor do, every attribute
\* of both ends holds what the code keeps in it; no message is retried beyond
\* its budget, and a tunnel leaves the daemon's table exactly when its Peer is
\* dead.
THEOREM TypeCorrect == Spec => []TypeOK
<1>1. Inv => TypeOK
  <2> SUFFICES ASSUME Inv, NEW e \in Ends
               PROVE  /\ status[e] \in {"off", "up", "removed"}
                      /\ tn[e].fsm \in TunnelStates
                      /\ tn[e].out = <<>>
                      /\ \A sid \in SessionsOf(e) : tn[e].sess[sid].state \in SessionStates
                      /\ Range(tn[e].by_remote) \cup tn[e].dp.sessions \subseteq SessionsOf(e)
                      /\ {tn[e].peer.ns_send, tn[e].peer.nr_expect} \subseteq SeqNum
                      /\ \A i \in DOMAIN tn[e].peer.send_queue :
                           tn[e].peer.send_queue[i].retries \in 0 .. MaxRetries + 1
                      /\ tn[e].peer.dead <=> status[e] = "removed"
    BY DEF TypeOK
  <2> DEFINE t == tn[e]
             c == Config[e]
  <2>1. EndOK(c, t, status[e])
    BY DEF Inv
  <2> HIDE DEF t, c
  <2>2. Range(t.by_remote) \subseteq DOMAIN c.sessions
    BY <2>1 DEF EndOK, TunnelOK, Range
  <2>3. \A i \in DOMAIN t.peer.send_queue : t.peer.send_queue[i].retries \in 0 .. MaxRetries + 1
    <3> DEFINE q == t.peer.send_queue
               max == IF t.peer.dead THEN MaxRetries + 1 ELSE MaxRetries
    <3>1. QueueOK(q, max)
      BY <2>1 DEF EndOK, TunnelOK, PeerOK
    <3>2. max \in Nat /\ max <= MaxRetries + 1 /\ MaxRetries \in Nat
      BY PeerAssumption
    <3> HIDE DEF q, max
    <3>3. PICK S : /\ q \in Seq(S)
                   /\ \A x \in S : x.retries \in 0 .. max
      BY <3>1 DEF QueueOK
    <3>4. \A i \in DOMAIN q : q[i] \in S
      BY <3>3, ElementOfSeq
    <3>5. \A i \in DOMAIN q : q[i].retries \in 0 .. MaxRetries + 1
      BY <3>2, <3>3, <3>4
    <3> QED BY <3>5 DEF q
  <2> QED
    BY <2>1, <2>2, <2>3 DEF EndOK, TunnelOK, SessionOK, DpOK, PeerOK, SessionsOf, t, c
<1> QED BY <1>1, Invariance, PTL

\* At both ends, through every teardown, death, restart and late message, the
\* HELLO timer is armed exactly while the tunnel is ESTABLISHED.
THEOREM HelloTimerFollowsState == Spec => []HelloIffEstablished
<1>1. Inv => HelloIffEstablished
  BY DEF Inv, EndOK, HelloOK, HelloIffEstablished
<1> QED BY <1>1, Invariance, PTL

\* While no process ended and no ip command failed, the kernel has a netdev for
\* a session exactly when its FSM is ESTABLISHED.
THEOREM NetdevFollowsSession == Spec => []NetdevIffEstablished
<1>1. Inv => NetdevIffEstablished
  <2> SUFFICES ASSUME Inv, Undisturbed, NEW e \in Ends, NEW sid \in SessionsOf(e)
               PROVE  HasNetdev(e, sid) <=> SessionUp(e, sid)
    BY DEF NetdevIffEstablished
  <2> DEFINE c == Config[e].sessions[sid]
             sess == tn[e].sess[sid]
  <2>1. NetdevOK(c, sid, sess, tn[e].dp, {})
    BY DEF Inv, KernelExact, KernelOK, SessionsOf
  <2>2. c.cookie # EmptyCookie /\ c.peer_cookie # EmptyCookie
    BY DEF Undisturbed
  <2> HIDE DEF c, sess
  <2>3. ~Refused(c, sid, sess, {})
    BY <2>2 DEF Refused, dataplane_params
  <2>4. ~LeftBehind(sid, {})
    BY DEF LeftBehind
  <2>5. tn[e].dp.ksessions[sid] # NoSession <=> Up(sess)
    BY <2>1, <2>3, <2>4 DEF NetdevOK
  <2> QED BY <2>5 DEF HasNetdev, Netdev, SessionUp, Up, sess
<1> QED BY <1>1, Invariance, PTL

-----------------------------------------------------------------------------
(* The handshake.  Handshake needs that what is queued and under way are    *)
(* sequences, and it is inductive as long as no number wraps.               *)

\* What holds of an end by itself, and what holds of what it has sent.
Side(e) == Phase(e) /\ InStep(e) /\ SessionsInTunnel(e)

Stream(e) ==
    /\ Traffic(e) /\ HandshakeAcked(e)
    /\ Listed(net[e]) /\ PendingOK(tn[e].peer.send_queue)

Pairing == DOMAIN net = Ends /\ \A e \in Ends : Side(e) /\ Stream(e)

\* Handshake, made inductive.
Paired == OneLifetime => Pairing

\* The types that end e may give the message with a number.
KindsOf(e) == [n \in Nat |-> Kinds(e, n)]

LEMMA OtherEnd ==
  ASSUME NEW e \in Ends
  PROVE  /\ Other(e) \in Ends /\ Other(e) # e /\ Other(Other(e)) = e
         /\ Ends = {e, Other(e)}
  BY DEF Ends, Other

LEMMA Counters ==
  ASSUME Inv, NEW e \in Ends
  PROVE  /\ Sent(e) \in SeqNum /\ Taken(e) \in SeqNum
         /\ Sent(e) \in Nat /\ Taken(e) \in Nat /\ Sent(e) < Modulus
  BY ModulusAssumption DEF Inv, EndOK, TunnelOK, PeerOK, SeqNum, Sent, Taken

\* What Commit() does to the network.
LEMMA CommitNet ==
  ASSUME NEW e \in Ends, NEW t, NEW queue, Commit(e, t, queue), DOMAIN net = Ends
  PROVE  /\ DOMAIN net' = Ends /\ net'[e] = queue
         /\ net'[Other(e)] = net[Other(e)] \o t.out
<1>1. Other(e) \in Ends /\ Other(e) # e
  BY OtherEnd
<1> DEFINE o == Other(e)
<1>2. net' = [net EXCEPT ![e] = queue, ![o] = @ \o t.out]
  BY DEF Commit
<1> HIDE DEF o
<1> QED BY <1>1, <1>2 DEF o

\* e acts: what it has sent stays in order.
LEMMA StreamMoves ==
  ASSUME Inv, Pairing, NEW e \in Ends, NEW t, NEW u, NEW gone,
         Moves(tn[e], t, KindsOf(e), gone), TunnelOK(Config[e], t),
         u = tn'[e], u.peer = t.peer, scn' = scn,
         tn'[Other(e)] = tn[Other(e)],
         net'[Other(e)] = net[Other(e)] \o t.out,
         \A n \in gone : n \in {0, 1} => n < Taken(Other(e)),
         t.peer.nr_expect >= Taken(e)
  PROVE  Traffic(e)' /\ HandshakeAcked(e)' /\ Listed(net'[Other(e)])
         /\ PendingOK(tn'[e].peer.send_queue)
<1> DEFINE o == Other(e)
           p == tn[e].peer
           q == t.peer
           K == KindsOf(e)
<1>1. /\ o \in Ends /\ Other(e)' = o
  BY OtherEnd DEF Other
<1>2. /\ Sent(e) \in Nat /\ Taken(e) \in Nat
      /\ q.ns_send \in Nat /\ q.nr_expect \in Nat
  BY Counters, ModulusAssumption DEF TunnelOK, PeerOK, SeqNum
<1>3. /\ Sent(e)' = q.ns_send /\ Taken(e)' = q.nr_expect /\ Taken(o)' = Taken(o)
      /\ p.ns_send = Sent(e) /\ tn'[e].peer = q
  BY DEF Sent, Taken
<1>5. /\ PeerMoves(p, q, K, gone) /\ Listed(t.out)
      /\ \A i \in DOMAIN t.out : \/ \E j \in DOMAIN tn[e].out : t.out[i] = tn[e].out[j]
                                 \/ Sends(p, q, K, t.out[i].msg)
  BY DEF Moves
<1>6. \A i \in DOMAIN t.out : Sends(p, q, K, t.out[i].msg)
  <2>1. tn[e].out = <<>>
    BY DEF Inv, EndOK
  <2> QED BY <1>5, <2>1
<1>7. q.ns_send >= Sent(e) /\ PendingOK(q.send_queue)
  BY <1>3, <1>5 DEF PeerMoves
<1> DEFINE G(n, b) == n \in 0 .. q.ns_send - 1 /\ Proper(b) /\ b.t \in Kinds(e, n)
<1>8. \A n, b : Known(e, n, b) => G(n, b)
  BY <1>2, <1>7 DEF Known, Proper
<1>9. \A n, b : Issued(p, q, K, n, b) => G(n, b)
  <2> SUFFICES ASSUME NEW n, NEW b, Issued(p, q, K, n, b) PROVE G(n, b)
    OBVIOUS
  <2>1. n \in Sent(e) .. q.ns_send - 1 /\ Proper(b) /\ b.t \in K[n]
    BY <1>3 DEF Issued
  <2>2. n \in Nat /\ n \in 0 .. q.ns_send - 1 /\ K[n] = Kinds(e, n)
    BY <1>2, <2>1 DEF KindsOf
  <2> QED BY <2>1, <2>2
<1> HIDE DEF G
<1>10. \A n, b : Stored(p, n, b) => Known(e, n, b)
  BY DEF Pairing, Stream, Traffic, Stored
<1>11. \A n, b : Stored(q, n, b) => G(n, b)
  BY <1>5, <1>8, <1>9, <1>10 DEF PeerMoves
<1> DEFINE Fine(m) == m.nr \in 0 .. q.nr_expect /\ (m.body # Zlb => G(m.ns, m.body))
<1>12. \A i \in DOMAIN net[o] : Fine(net[o][i].msg)
  <2> SUFFICES ASSUME NEW i \in DOMAIN net[o] PROVE Fine(net[o][i].msg)
    OBVIOUS
  <2> DEFINE m == net[o][i].msg
  <2>1. m.nr \in 0 .. Taken(e) /\ (m.body # Zlb => Known(e, m.ns, m.body))
    BY DEF Pairing, Stream, Traffic
  <2> HIDE DEF m
  <2>2. Fine(m)
    BY <1>2, <1>8, <2>1
  <2> QED BY <2>2 DEF m
<1>13. \A i \in DOMAIN t.out : Fine(t.out[i].msg)
  <2> SUFFICES ASSUME NEW i \in DOMAIN t.out PROVE Fine(t.out[i].msg)
    OBVIOUS
  <2> DEFINE m == t.out[i].msg
  <2>1. Sends(p, q, K, m)
    BY <1>6
  <2> HIDE DEF m
  <2>2. Fine(m)
    BY <1>2, <1>8, <1>9, <1>10, <2>1 DEF Sends
  <2> QED BY <2>2 DEF m
<1> DEFINE r == net'[o]
<1>14. Joined(net[o], t.out, r)
  <2>1. Listed(net[o])
    BY <1>1 DEF Pairing, Stream
  <2>2. r = net[o] \o t.out
    OBVIOUS
  <2> HIDE DEF r
  <2> QED BY <1>5, <2>1, <2>2, ConcatParts
<1> HIDE DEF Fine
<1>15. Listed(r) /\ \A i \in DOMAIN r : Fine(r[i].msg)
  BY <1>12, <1>13, <1>14 DEF Joined
<1>16. Traffic(e)'
  <2>1. \A i \in DOMAIN q.send_queue : G(q.send_queue[i].ns, q.send_queue[i].body)
    BY <1>11 DEF Stored
  <2>2. \A i \in DOMAIN r : /\ r[i].msg.nr \in 0 .. q.nr_expect
                            /\ r[i].msg.body # Zlb => G(r[i].msg.ns, r[i].msg.body)
    BY <1>15 DEF Fine
  <2>3. \A n \in SeqNum : tn'[o].peer.reorder[n] # NoMsg => n < Sent(e)'
    <3>1. \A n \in SeqNum : tn[o].peer.reorder[n] # NoMsg => n < Sent(e)
      BY DEF Pairing, Stream, Traffic
    <3>2. \A n \in SeqNum : n \in Nat
      BY ModulusAssumption DEF SeqNum
    <3> QED BY <1>2, <1>3, <1>7, <3>1, <3>2
  <2>4. \A i \in DOMAIN tn'[e].peer.send_queue :
          G(tn'[e].peer.send_queue[i].ns, tn'[e].peer.send_queue[i].body)
    BY <1>3, <2>1
  <2>5. \A i \in DOMAIN net'[o] :
          /\ net'[o][i].msg.nr \in 0 .. Taken(e)'
          /\ net'[o][i].msg.body # Zlb => G(net'[o][i].msg.ns, net'[o][i].msg.body)
    BY <1>3, <2>2
  <2> QED
    BY <1>1, <1>3, <2>3, <2>4, <2>5
       DEF Traffic, Known, G, Proper, Kinds, Opens, Openers, Other, Sent, Taken
<1>17. HandshakeAcked(e)'
  <2> SUFFICES ASSUME NEW n \in {0, 1}, n < q.ns_send, ~Queued(q, n)
               PROVE  n < Taken(o)
    BY <1>1, <1>3 DEF HandshakeAcked, Queued
  <2>1. n < Sent(e)
    BY <1>2, <1>3, <1>5 DEF PeerMoves
  <2>2. CASE Queued(p, n)
    <3>1. n \in gone
      BY <1>5, <2>2 DEF PeerMoves
    <3> QED BY <3>1
  <2>3. CASE ~Queued(p, n)
    BY <2>1, <2>3 DEF Pairing, Stream, HandshakeAcked, Queued
  <2> QED BY <2>2, <2>3
<1> QED BY <1>3, <1>7, <1>15, <1>16, <1>17

\* e acts: so does what the other end o has sent, if no more of it is buffered
\* at e than there is and nothing comes back from the network.
LEMMA StreamKept ==
  ASSUME Inv, Pairing, NEW e \in Ends, NEW o, o = Other(e), NEW t,
         TunnelOK(Config[e], t), tn'[e].peer = t.peer, scn' = scn,
         tn'[o] = tn[o], status'[o] = status[o],
         \A n \in SeqNum : t.peer.reorder[n] # NoMsg => n < Sent(o),
         NEW queue, net'[e] = queue, Listed(queue),
         \A i \in DOMAIN queue : \E j \in DOMAIN net[e] : queue[i] = net[e][j],
         t.peer.nr_expect >= Taken(e)
  PROVE  /\ Side(o)'
         /\ Traffic(o)' /\ HandshakeAcked(o)' /\ PendingOK(tn'[o].peer.send_queue)
<1>1. /\ o \in Ends /\ Other(o) = e /\ Other(o)' = e
  BY OtherEnd DEF Other
<1>2. /\ Sent(o) \in Nat /\ Taken(o) \in Nat /\ Taken(e) \in Nat /\ t.peer.nr_expect \in Nat
  BY <1>1, Counters, ModulusAssumption DEF TunnelOK, PeerOK, SeqNum
<1>3. /\ Sent(o)' = Sent(o) /\ Taken(o)' = Taken(o)
      /\ Taken(e)' = t.peer.nr_expect /\ Taken(e)' >= Taken(e)
  BY DEF Sent, Taken
<1>4. Side(o) /\ Traffic(o) /\ HandshakeAcked(o) /\ PendingOK(tn[o].peer.send_queue)
  BY <1>1 DEF Pairing, Stream
<1>5. /\ Opens(o)' = Opens(o) /\ Opens(e)' = Opens(e)
      /\ SessionsOf(o)' = SessionsOf(o)
  BY DEF Opens, Openers, SessionsOf, Config
<1>6. Phase(o)'
  BY <1>1, <1>3, <1>4, <1>5 DEF Side, Phase, Numbers, Reached
<1>7. InStep(o)'
  BY <1>1, <1>2, <1>3, <1>4, <1>5 DEF Side, InStep
<1>8. SessionsInTunnel(o)'
  BY <1>4, <1>5 DEF Side, SessionsInTunnel
<1>9. HandshakeAcked(o)'
  BY <1>1, <1>2, <1>3, <1>4 DEF HandshakeAcked
<1>10. Traffic(o)'
  <2>1. \A i \in DOMAIN tn[o].peer.send_queue :
          LET x == tn[o].peer.send_queue[i] IN Known(o, x.ns, x.body)
    BY <1>4 DEF Traffic
  <2>2. \A i \in DOMAIN queue :
          LET m == queue[i].msg
          IN  m.nr \in 0 .. Taken(o) /\ (m.body # Zlb => Known(o, m.ns, m.body))
    BY <1>1, <1>4 DEF Traffic
  <2>3. \A n \in SeqNum : tn'[e].peer.reorder[n] # NoMsg => n < Sent(o)
    OBVIOUS
  <2>4. \A n, body : Known(o, n, body)' <=> Known(o, n, body)
    BY <1>1, <1>3, <1>5 DEF Known, Kinds
  <2>5. tn'[o].peer.send_queue = tn[o].peer.send_queue
    OBVIOUS
  <2> QED BY <1>1, <1>3, <2>1, <2>2, <2>3, <2>4, <2>5 DEF Traffic
<1> QED BY <1>4, <1>6, <1>7, <1>8, <1>9, <1>10 DEF Side

\* Both together: a callback of e that leaves e itself in order.
LEMMA PairMoves ==
  ASSUME Inv, Pairing, NEW e \in Ends, NEW t, NEW queue, NEW gone,
         Commit(e, t, queue), TunnelOK(Config[e], t),
         status'[Other(e)] = status[Other(e)],
         Moves(tn[e], t, KindsOf(e), gone),
         \A n \in gone : n \in {0, 1} => n < Taken(Other(e)),
         t.peer.nr_expect >= Taken(e),
         \A n \in SeqNum : t.peer.reorder[n] # NoMsg => n < Sent(Other(e)),
         Listed(queue),
         \A i \in DOMAIN queue : \E j \in DOMAIN net[e] : queue[i] = net[e][j],
         Side(e)'
  PROVE  Pairing'
<1> DEFINE o == Other(e)
<1>1. o \in Ends /\ o # e /\ Ends = {e, o} /\ o = Other(e)
  BY OtherEnd
<1>2. /\ scn' = scn /\ DOMAIN tn' = Ends
      /\ tn'[e] = [t EXCEPT !.out = <<>>] /\ tn'[o] = tn[o]
  BY <1>1, CommitFacts
<1>3. DOMAIN net' = Ends /\ net'[e] = queue /\ net'[o] = net[o] \o t.out
  BY CommitNet DEF Pairing
<1>4. tn'[e].peer = t.peer
  BY <1>2 DEF TunnelOK, TunnelFields
<1>5. /\ Traffic(e)' /\ HandshakeAcked(e)' /\ Listed(net'[o])
      /\ PendingOK(tn'[e].peer.send_queue)
  <2> DEFINE u == tn'[e]
  <2>1. u = tn'[e] /\ u.peer = t.peer
    BY <1>4
  <2> HIDE DEF u
  <2> QED BY <1>2, <1>3, <2>1, StreamMoves
<1> HIDE DEF o
<1>6. /\ Side(o)'
      /\ Traffic(o)' /\ HandshakeAcked(o)' /\ PendingOK(tn'[o].peer.send_queue)
  <2>1. scn' = scn /\ tn'[o] = tn[o] /\ status'[o] = status[o]
    BY <1>1, <1>2
  <2>2. \A n \in SeqNum : t.peer.reorder[n] # NoMsg => n < Sent(o)
    BY <1>1
  <2> QED BY <1>1, <1>3, <1>4, <2>1, <2>2, StreamKept
<1>7. Stream(e)' /\ Stream(o)'
  BY <1>3, <1>5, <1>6 DEF Stream
<1> QED BY <1>1, <1>3, <1>6, <1>7 DEF Pairing

\* What the lemmas about a Tunnel's calls assume.
LEMMA EndReady ==
  ASSUME Inv, Pairing, Unwrapped, NEW e \in Ends
  PROVE  /\ ConfigOK(Config[e]) /\ Config[e].local_ccid \in Nat
         /\ Len(Config[e].order) \in Nat
         /\ Ready(Config[e], tn[e], Len(Config[e].order) + 1) /\ HelloOK(tn[e])
         /\ \A n \in SeqNum : tn[e].peer.reorder[n] # NoMsg => n < Sent(Other(e))
         /\ Listed(net[e])
<1>1. ConfigOK(Config[e]) /\ Config[e].local_ccid \in Nat
  BY ConfigsOK, PairAssumption DEF Inv, Config
<1>2. EndOK(Config[e], tn[e], status[e])
  BY DEF Inv
<1>3. Listed(<<>>)
  BY DEF Listed
<1>4. Len(Config[e].order) \in Nat /\ Sent(e) \in Nat
  BY <1>1, Counters, LenProperties DEF ConfigOK
<1>5. Sent(e) + (Len(Config[e].order) + 1) < Modulus
  BY <1>4, ModulusAssumption DEF Unwrapped
<1>6. Ready(Config[e], tn[e], Len(Config[e].order) + 1)
  BY <1>2, <1>3, <1>5 DEF Ready, EndOK, Pairing, Stream, Sent
<1>7. Other(e) \in Ends /\ Other(Other(e)) = e
  BY OtherEnd
<1>8. \A n \in SeqNum : tn[e].peer.reorder[n] # NoMsg => n < Sent(Other(e))
  BY <1>7 DEF Pairing, Stream, Traffic
<1> QED BY <1>1, <1>2, <1>4, <1>6, <1>8 DEF EndOK, Pairing, Stream

\* An end whose tunnel is ESTABLISHED has its handshake messages behind it.
LEMMA LateKinds ==
  ASSUME Inv, Pairing, NEW e \in Ends, tn[e].fsm = "ESTABLISHED"
  PROVE  /\ status[e] = "up" /\ Taken(Other(e)) >= 1
         /\ \A n \in Nat : n >= Sent(e) => KindsOf(e)[n] = Late
<1>1. Phase(e) /\ InStep(e) /\ Sent(e) \in Nat /\ Taken(e) \in Nat
  BY Counters DEF Pairing, Side
<1>2. status[e] = "up" /\ "ESTABLISHED" \in Reached(e) /\ Numbers(e)
  BY <1>1 DEF Phase
<1>3. IF Opens(e) THEN ~Opens(Other(e)) /\ Sent(e) >= 2 ELSE Sent(e) >= 1
  BY <1>1, <1>2 DEF Reached, Numbers
<1>4. \A n \in Nat : n >= Sent(e) => Kinds(e, n) = Late
  BY <1>1, <1>3 DEF Kinds
<1> QED BY <1>1, <1>2, <1>4 DEF InStep, KindsOf

\* It stays so, whatever it sends and takes.
LEMMA EstablishedSide ==
  ASSUME Inv, Pairing, NEW e \in Ends, scn' = scn, NEW o, o = Other(e), tn'[o] = tn[o],
         status'[e] = status[e], tn[e].fsm = "ESTABLISHED", tn'[e].fsm = "ESTABLISHED",
         Sent(e)' \in Nat, Sent(e)' >= Sent(e), Taken(e)' \in Nat, Taken(e)' >= Taken(e)
  PROVE  Side(e)'
<1>1. Phase(e) /\ InStep(e) /\ Sent(e) \in Nat /\ Taken(e) \in Nat
  BY Counters DEF Pairing, Side
<1>2. /\ Opens(o)' = Opens(o) /\ Opens(e)' = Opens(e) /\ Other(e)' = o
      /\ Taken(o)' = Taken(o)
  BY DEF Opens, Openers, Other, Taken
<1>3. status[e] = "up" /\ "ESTABLISHED" \in Reached(e) /\ Numbers(e) /\ Taken(o) >= 1
  BY <1>1 DEF Phase, InStep
<1>4. "ESTABLISHED" \in Reached(e)' /\ Numbers(e)'
  BY <1>1, <1>2, <1>3 DEF Reached, Numbers
<1>5. Phase(e)'
  BY <1>3, <1>4 DEF Phase
<1>6. InStep(e)'
  BY <1>2, <1>3 DEF InStep
<1>7. SessionsInTunnel(e)'
  BY DEF SessionsInTunnel
<1> QED BY <1>5, <1>6, <1>7 DEF Side

\* Nothing that matters happens to the end.
LEMMA SameSide ==
  ASSUME Pairing, NEW e \in Ends, scn' = scn, NEW o, o = Other(e), tn'[o] = tn[o],
         status'[e] = status[e], tn'[e].fsm = tn[e].fsm,
         \A sid \in SessionsOf(e) : tn'[e].sess[sid] = tn[e].sess[sid],
         Sent(e)' = Sent(e), Taken(e)' = Taken(e)
  PROVE  Side(e)'
<1>1. Phase(e) /\ InStep(e) /\ SessionsInTunnel(e)
  BY DEF Pairing, Side
<1>2. /\ Opens(o)' = Opens(o) /\ Opens(e)' = Opens(e) /\ Other(e)' = o
      /\ Taken(o)' = Taken(o) /\ SessionsOf(e)' = SessionsOf(e)
  BY DEF Opens, Openers, Other, Taken, SessionsOf, Config
<1>3. Phase(e)'
  BY <1>1, <1>2 DEF Phase, Numbers, Reached
<1>4. InStep(e)'
  BY <1>1, <1>2 DEF InStep
<1>5. SessionsInTunnel(e)'
  BY <1>1, <1>2 DEF SessionsInTunnel
<1> QED BY <1>3, <1>4, <1>5 DEF Side

\* What Commit() makes of the end.
LEMMA CommitEnd ==
  ASSUME Inv, NEW e \in Ends, NEW t, NEW queue, Commit(e, t, queue), TunnelOK(Config[e], t)
  PROVE  /\ scn' = scn /\ tn'[Other(e)] = tn[Other(e)]
         /\ tn'[e].fsm = t.fsm /\ tn'[e].sess = t.sess /\ tn'[e].peer = t.peer
         /\ Sent(e)' = t.peer.ns_send /\ Taken(e)' = t.peer.nr_expect
         /\ Sent(e)' \in Nat /\ Taken(e)' \in Nat
<1>1. /\ scn' = scn /\ tn'[e] = [t EXCEPT !.out = <<>>]
      /\ tn'[Other(e)] = tn[Other(e)]
  BY CommitFacts, OtherEnd
<1>2. tn'[e].fsm = t.fsm /\ tn'[e].sess = t.sess /\ tn'[e].peer = t.peer
  BY <1>1 DEF TunnelOK, TunnelFields
<1>3. t.peer.ns_send \in Nat /\ t.peer.nr_expect \in Nat
  BY ModulusAssumption DEF TunnelOK, PeerOK, SeqNum
<1> QED BY <1>1, <1>2, <1>3 DEF Sent, Taken

\* A call that takes nothing from the other end.
LEMMA EmitsStep ==
  ASSUME Inv, Pairing, Unwrapped, NEW e \in Ends, NEW t, Commit(e, t, net[e]),
         TunnelOK(Config[e], t), status'[Other(e)] = status[Other(e)],
         Emits(tn[e], t, KindsOf(e)), Side(e)'
  PROVE  Pairing'
<1>1. /\ Moves(tn[e], t, KindsOf(e), {})
      /\ t.peer.nr_expect = Taken(e) /\ t.peer.reorder = tn[e].peer.reorder
  BY DEF Emits, Unsent, Taken
<1>2. /\ \A n \in SeqNum : t.peer.reorder[n] # NoMsg => n < Sent(Other(e))
      /\ Listed(net[e])
  BY <1>1, EndReady
<1>3. t.peer.nr_expect >= Taken(e)
  BY <1>1, Counters
<1>4. \A i \in DOMAIN net[e] : \E j \in DOMAIN net[e] : net[e][i] = net[e][j]
  OBVIOUS
<1>5. \A n \in {} : n \in {0, 1} => n < Taken(Other(e))
  OBVIOUS
<1> DEFINE gone == {}
           queue == net[e]
<1>6. Moves(tn[e], t, KindsOf(e), gone) /\ (\A n \in gone : n \in {0, 1} => n < Taken(Other(e)))
      /\ Commit(e, t, queue) /\ Listed(queue)
      /\ \A i \in DOMAIN queue : \E j \in DOMAIN net[e] : queue[i] = net[e][j]
  BY <1>1, <1>2, <1>4
<1> HIDE DEF gone, queue
<1> QED BY <1>2, <1>3, <1>6, PairMoves

\* The HELLO timer fires.
LEMMA HelloPaired ==
  ASSUME Inv, Pairing, Unwrapped, NEW e \in Ends, HelloTimer(e)
  PROVE  Pairing'
<1> DEFINE c == Config[e]
           K == KindsOf(e)
<1>1. PICK fail \in Failing :
        /\ tn[e].hello /\ Commit(e, hello_timer(c, tn[e], fail), net[e]) /\ status' = status
  BY DEF HelloTimer
<1> DEFINE t == hello_timer(c, tn[e], fail)
<1>2. /\ ConfigOK(c) /\ Len(c.order) \in Nat
      /\ Ready(c, tn[e], Len(c.order) + 1) /\ HelloOK(tn[e])
  BY EndReady
<1>3. tn[e].fsm = "ESTABLISHED"
  BY <1>1, <1>2 DEF HelloOK
<1>4. Late \subseteq K[tn[e].peer.ns_send]
  BY <1>3, LateKinds, Counters DEF Sent
<1>5. TunnelOK(c, t)
  BY <1>2, HelloTimerOK DEF Ready, CallOK
<1> HIDE DEF c, K
<1>6. Emits(tn[e], t, K) /\ t.fsm = tn[e].fsm
  <2> DEFINE s == tn[e]
  <2>1. /\ t = hello_timer(c, s, fail) /\ ConfigOK(c) /\ Ready(c, s, Len(c.order) + 1)
        /\ s.fsm = "ESTABLISHED" /\ Late \subseteq K[s.peer.ns_send]
    BY <1>2, <1>3, <1>4
  <2> HIDE DEF t, s
  <2>2. Emits(s, t, K) /\ t.sess = s.sess /\ t.fsm = s.fsm
    BY <2>1, HelloTimerMoves
  <2> QED BY <2>2 DEF s
<1>7. Commit(e, t, net[e])
  BY <1>1
<1> HIDE DEF t
<1>8. /\ scn' = scn /\ tn'[Other(e)] = tn[Other(e)] /\ tn'[e].fsm = t.fsm
      /\ Sent(e)' = t.peer.ns_send /\ Taken(e)' = t.peer.nr_expect
      /\ Sent(e)' \in Nat /\ Taken(e)' \in Nat
  BY <1>5, <1>7, CommitEnd DEF c
<1>9. Sent(e)' >= Sent(e) /\ Taken(e)' >= Taken(e)
  BY <1>6, <1>8, Counters DEF Emits, Moves, PeerMoves, Unsent, Sent, Taken
<1>10. Side(e)'
  BY <1>1, <1>3, <1>6, <1>8, <1>9, EstablishedSide
<1> QED BY <1>1, <1>5, <1>6, <1>7, <1>10, EmitsStep DEF c, K

\* The operator closes a session.
LEMMA ClosePaired ==
  ASSUME Inv, Pairing, Unwrapped, NEW e \in Ends, CloseSession(e)
  PROVE  Pairing'
<1> DEFINE c == Config[e]
           K == KindsOf(e)
<1>1. PICK sid \in DOMAIN c.sessions, fail \in Failing :
        Commit(e, session_close(c, tn[e], sid, fail), net[e]) /\ status' = status
  BY DEF CloseSession
<1> DEFINE t == session_close(c, tn[e], sid, fail)
<1>2. /\ ConfigOK(c) /\ Len(c.order) \in Nat
      /\ Ready(c, tn[e], Len(c.order) + 1) /\ HelloOK(tn[e])
  BY EndReady
<1>3. Ready(c, tn[e], 1)
  <2> DEFINE w == tn[e]
             L == Len(c.order)
  <2>1. L \in Nat /\ w.peer.ns_send \in Nat /\ Ready(c, w, L + 1)
    BY <1>2, Counters DEF Sent
  <2> HIDE DEF w, L, c
  <2>2. Ready(c, w, 1)
    BY <2>1, ModulusAssumption DEF Ready
  <2> QED BY <2>2 DEF w
<1>4. tn[e].sess[sid].state # "IDLE" => tn[e].fsm = "ESTABLISHED"
  BY DEF Pairing, Side, SessionsInTunnel, SessionsOf
<1>5. tn[e].sess[sid].state # "IDLE" => Late \subseteq K[tn[e].peer.ns_send]
  BY <1>4, LateKinds, Counters DEF Sent
<1>6. TunnelOK(c, t) /\ HelloOK(t)
  BY <1>2, SessionCloseOK DEF Ready, CallOK
<1>7. /\ scn' = scn /\ tn'[Other(e)] = tn[Other(e)]
      /\ tn'[e].fsm = t.fsm /\ tn'[e].sess = t.sess
      /\ Sent(e)' = t.peer.ns_send /\ Taken(e)' = t.peer.nr_expect
      /\ Sent(e)' \in Nat /\ Taken(e)' \in Nat
  BY <1>1, <1>6, CommitEnd
<1>8. /\ Emits(tn[e], t, K) /\ t.fsm = tn[e].fsm
      /\ tn[e].sess[sid].state = "IDLE" =>
           /\ \A o \in DOMAIN c.sessions : t.sess[o] = tn[e].sess[o]
           /\ t.peer.ns_send = tn[e].peer.ns_send
  <2>1. t = session_close(c, tn[e], sid, fail)
    OBVIOUS
  <2> HIDE DEF K, c, t
  <2> QED BY <1>3, <1>5, <2>1, SessionCloseMoves
<1>9. Commit(e, t, net[e])
  BY <1>1
<1> HIDE DEF t
<1>10. Sent(e)' >= Sent(e) /\ Taken(e)' >= Taken(e) /\ Taken(e)' = Taken(e)
  BY <1>7, <1>8, Counters DEF Emits, Moves, PeerMoves, Unsent, Sent, Taken
<1>11. Side(e)'
  <2>1. CASE tn[e].sess[sid].state = "IDLE"
    BY <1>1, <1>7, <1>8, <1>10, <2>1, SameSide DEF Sent, SessionsOf
  <2>2. CASE tn[e].sess[sid].state # "IDLE"
    BY <1>1, <1>4, <1>7, <1>8, <1>10, <2>2, EstablishedSide
  <2> QED BY <2>1, <2>2
<1> QED BY <1>1, <1>6, <1>8, <1>9, <1>11, EmitsStep

\* A round of _tick_loop.
LEMMA TickPaired ==
  ASSUME Inv, Pairing, Unwrapped, NEW e \in Ends, Tick(e)
  PROVE  Pairing'
<1> DEFINE c == Config[e]
           K == KindsOf(e)
           o == Other(e)
<1>1. PICK expired \in Expiries(tn[e].peer), fail \in Failing :
        LET t == tunnel_tick(c, tn[e], expired, fail)
        IN  /\ status[e] = "up"
            /\ status' = [status EXCEPT ![e] = IF t.peer.dead THEN "removed" ELSE "up"]
            /\ Commit(e, t, net[e])
  BY DEF Tick
<1> DEFINE t == tunnel_tick(c, tn[e], expired, fail)
<1>2. /\ ConfigOK(c) /\ Len(c.order) \in Nat
      /\ Ready(c, tn[e], Len(c.order) + 1) /\ HelloOK(tn[e])
  BY EndReady
<1>3. TunnelOK(c, t)
  BY <1>2, TunnelTickOK DEF Ready, CallOK
<1>4. /\ Emits(tn[e], t, K) /\ t.peer.ns_send = tn[e].peer.ns_send
      /\ ~t.peer.dead => t.fsm = tn[e].fsm /\ t.sess = tn[e].sess
      /\ t.peer.dead =>
           /\ t.fsm = "IDLE"
           /\ IF tn[e].fsm = "ESTABLISHED"
              THEN \A sid \in DOMAIN c.sessions : t.sess[sid].state = "IDLE"
              ELSE t.sess = tn[e].sess
  <2> DEFINE s == tn[e]
  <2>1. /\ t = tunnel_tick(c, s, expired, fail) /\ ConfigOK(c)
        /\ Ready(c, s, Len(c.order) + 1) /\ HelloOK(s) /\ expired \in Expiries(s.peer)
    BY <1>2
  <2> HIDE DEF K, c, t, s
  <2>2. /\ Emits(s, t, K) /\ t.peer.ns_send = s.peer.ns_send
        /\ ~t.peer.dead => t.fsm = s.fsm /\ t.sess = s.sess
        /\ t.peer.dead =>
             /\ t.fsm = "IDLE"
             /\ IF s.fsm = "ESTABLISHED"
                THEN \A sid \in DOMAIN c.sessions : t.sess[sid].state = "IDLE"
                ELSE t.sess = s.sess
    BY <2>1, TunnelTickMoves
  <2> QED BY <2>2 DEF s
<1>5. /\ Commit(e, t, net[e]) /\ status[e] = "up"
      /\ status' = [status EXCEPT ![e] = IF t.peer.dead THEN "removed" ELSE "up"]
  BY <1>1
<1> HIDE DEF t
<1>6. /\ status'[e] = (IF t.peer.dead THEN "removed" ELSE "up")
      /\ status'[o] = status[o] /\ o # e
  BY <1>5, OtherEnd DEF Inv
<1>7. /\ scn' = scn /\ tn'[o] = tn[o]
      /\ tn'[e].fsm = t.fsm /\ tn'[e].sess = t.sess
      /\ Sent(e)' = t.peer.ns_send /\ Taken(e)' = t.peer.nr_expect
  BY <1>3, <1>5, CommitEnd
<1>8. Sent(e)' = Sent(e) /\ Taken(e)' = Taken(e)
  BY <1>4, <1>7 DEF Emits, Unsent, Sent, Taken
<1>9. Side(e)'
  <2>1. CASE ~t.peer.dead
    <3>1. status'[e] = status[e] /\ tn'[e].fsm = tn[e].fsm
          /\ \A sid \in SessionsOf(e) : tn'[e].sess[sid] = tn[e].sess[sid]
      BY <1>4, <1>5, <1>6, <1>7, <2>1
    <3> QED BY <1>7, <1>8, <3>1, SameSide
  <2>2. CASE t.peer.dead
    <3>1. Phase(e) /\ InStep(e) /\ SessionsInTunnel(e)
      BY DEF Pairing, Side
    <3>2. /\ Opens(o)' = Opens(o) /\ Opens(e)' = Opens(e) /\ Other(e)' = o
          /\ Taken(o)' = Taken(o) /\ SessionsOf(e)' = SessionsOf(e)
      BY <1>7 DEF Opens, Openers, Other, Taken, SessionsOf, Config
    <3>3. status'[e] = "removed" /\ tn'[e].fsm = "IDLE"
      BY <1>4, <1>6, <1>7, <2>2
    <3>4. Phase(e)'
      BY <1>5, <1>8, <3>1, <3>2, <3>3 DEF Phase, Numbers
    <3>5. InStep(e)'
      BY <1>8, <3>1, <3>2, <3>3 DEF InStep
    <3>6. \A sid \in SessionsOf(e) : tn'[e].sess[sid].state = "IDLE"
      BY <1>4, <1>7, <2>2, <3>1 DEF SessionsInTunnel, SessionsOf
    <3>7. SessionsInTunnel(e)'
      BY <3>2, <3>6 DEF SessionsInTunnel
    <3> QED BY <3>4, <3>5, <3>7 DEF Side
  <2> QED BY <2>1, <2>2
<1> QED BY <1>3, <1>4, <1>5, <1>6, <1>9, EmitsStep

\* A Tunnel as Tunnel.__init__ makes it.
LEMMA NewMoves ==
  ASSUME NEW cfg, NEW dp, NEW t, t = NewTunnel(cfg, dp)
  PROVE  /\ t.fsm = "IDLE" /\ t.out = <<>> /\ t.peer.send_queue = <<>>
         /\ t.peer.ns_send = 0 /\ t.peer.nr_expect = 0
         /\ \A n \in SeqNum : t.peer.reorder[n] = NoMsg
         /\ \A sid \in DOMAIN cfg.sessions : t.sess[sid].state = "IDLE"
  BY DEF NewTunnel, NewPeer, NewSession

\* A daemon starts: the SCCRQ of an end that opens the tunnel is number 0.
LEMMA StartPaired ==
  ASSUME Inv, Pairing, Unwrapped, NEW e \in Ends, Start(e)
  PROVE  Pairing'
<1> DEFINE c == Config[e]
           dp == tn[e].dp
           K == KindsOf(e)
           o == Other(e)
           t == Fresh(e, dp)
           v == IF e \in Openers THEN start(c, t) ELSE t
<1>1. /\ status[e] = "off" /\ status' = [status EXCEPT ![e] = "up"]
      /\ Commit(e, v, net[e])
  BY DEF Start
<1>2. /\ ConfigOK(c) /\ c.local_ccid \in Nat /\ Len(c.order) \in Nat
      /\ Ready(c, tn[e], Len(c.order) + 1) /\ Listed(net[e])
  BY EndReady
<1>3. Phase(e) /\ Sent(e) = 0 /\ Taken(e) = 0
  BY <1>1 DEF Pairing, Side, Phase
<1>4. t = NewTunnel(c, dp) /\ DpOK(DOMAIN c.sessions, dp)
  BY <1>2 DEF Fresh, Ready, TunnelOK
<1> HIDE DEF t, dp, c
<1>5. /\ t.fsm = "IDLE" /\ t.out = <<>> /\ t.peer.send_queue = <<>>
      /\ t.peer.ns_send = 0 /\ t.peer.nr_expect = 0
      /\ \A n \in SeqNum : t.peer.reorder[n] = NoMsg
      /\ \A sid \in DOMAIN c.sessions : t.sess[sid].state = "IDLE"
  BY <1>4, NewMoves
<1>6. TunnelOK(c, t) /\ HelloOK(t)
  BY <1>4, NewTunnelOK
<1>7. Listed(<<>>) /\ PendingOK(<<>>)
  BY DEF Listed, PendingOK
<1>8. Ready(c, t, Len(c.order) + 1)
  BY <1>2, <1>3, <1>5, <1>6, <1>7 DEF Ready, Sent
<1>9. Moves(tn[e], t, K, {})
  <2>1. \A n : ~Queued(tn[e].peer, n)
    <3>1. \A n : n \notin 0 .. Sent(e) - 1
      BY <1>3
    <3> QED BY <3>1 DEF Pairing, Stream, Traffic, Known, Queued
  <2>2. \A n, b : ~Stored(t.peer, n, b)
    BY <1>5 DEF Stored
  <2>3. tn[e].peer.ns_send = 0
    BY <1>3 DEF Sent
  <2>4. PeerMoves(tn[e].peer, t.peer, K, {})
    BY <1>5, <1>7, <2>1, <2>2, <2>3 DEF PeerMoves
  <2> QED BY <1>5, <1>7, <2>4 DEF Moves
<1>10. K[0] = IF Opens(e) THEN {"SCCRQ"} ELSE {"SCCRP"}
  BY DEF KindsOf, Kinds
<1> HIDE DEF K
<1>11. /\ TunnelOK(c, v) /\ Moves(tn[e], v, K, {}) /\ v.sess = t.sess
       /\ v.peer.nr_expect = 0 /\ v.peer.reorder = t.peer.reorder
       /\ v.fsm = IF Opens(e) THEN "WAIT_CTL_REPLY" ELSE "IDLE"
       /\ v.peer.ns_send = IF Opens(e) THEN 1 ELSE 0
  <2>1. CASE e \notin Openers
    BY <1>5, <1>6, <1>9, <2>1 DEF Opens
  <2>2. CASE e \in Openers
    <3>1. v = start(c, t) /\ "SCCRQ" \in K[t.peer.ns_send] /\ Opens(e)
      BY <1>5, <1>10, <2>2 DEF Opens
    <3> HIDE DEF v
    <3>2. /\ Emits(t, v, K) /\ v.sess = t.sess
          /\ v.fsm = "WAIT_CTL_REPLY" /\ v.peer.ns_send = t.peer.ns_send + 1
      BY <1>2, <1>5, <1>6, <1>8, <3>1, StartMoves
    <3>3. TunnelOK(c, v)
      BY <1>2, <1>6, <3>1, StartOK DEF CallOK
    <3>4. Moves(tn[e], v, K, {})
      BY <1>2, <1>6, <1>9, <3>2, <3>3, MovesCompose DEF Ready
    <3> QED BY <1>5, <3>1, <3>2, <3>3, <3>4 DEF Emits, Unsent
  <2> QED BY <2>1, <2>2
<1> HIDE DEF v
<1>12. o # e /\ o = Other(e) /\ status'[e] = "up" /\ status'[o] = status[o]
  BY <1>1, OtherEnd DEF Inv
<1>13. /\ scn' = scn /\ tn'[o] = tn[o]
       /\ tn'[e].fsm = v.fsm /\ tn'[e].sess = v.sess
       /\ Sent(e)' = v.peer.ns_send /\ Taken(e)' = v.peer.nr_expect
  BY <1>1, <1>11, CommitEnd DEF c
<1>14. Side(e)'
  <2>1. /\ Opens(e)' = Opens(e) /\ Other(e)' = o
        /\ SessionsOf(e)' = SessionsOf(e)
    BY <1>13 DEF Opens, Openers, Other, SessionsOf, Config
  <2>2. Phase(e)'
    BY <1>11, <1>12, <1>13, <2>1 DEF Phase, Numbers, Reached
  <2>3. InStep(e)'
    BY <1>11, <1>13, <2>1 DEF InStep
  <2>4. SessionsInTunnel(e)'
    BY <1>5, <1>11, <1>13, <2>1 DEF SessionsInTunnel, SessionsOf, c
  <2> QED BY <2>2, <2>3, <2>4 DEF Side
<1>15. /\ \A n \in SeqNum : v.peer.reorder[n] # NoMsg => n < Sent(o)
       /\ v.peer.nr_expect >= Taken(e)
  BY <1>3, <1>5, <1>11
<1> DEFINE gone == {}
           queue == net[e]
<1>16. /\ Moves(tn[e], v, K, gone) /\ \A n \in gone : n \in {0, 1} => n < Taken(o)
       /\ Commit(e, v, queue) /\ Listed(queue)
       /\ \A i \in DOMAIN queue : \E j \in DOMAIN net[e] : queue[i] = net[e][j]
  BY <1>1, <1>2, <1>11
<1> HIDE DEF gone, queue
<1> QED BY <1>11, <1>12, <1>14, <1>15, <1>16, PairMoves DEF c, K

\* Where an end that runs stands when the message with the number it expects,
\* n, has been sent to it.
Stage(e, o, n, type) ==
    \/ /\ Opens(e) /\ ~Opens(o) /\ n = 0 /\ Sent(e) = 1 /\ Taken(o) >= 1
       /\ tn[e].fsm = "WAIT_CTL_REPLY" /\ type = "SCCRP"
    \/ /\ ~Opens(e) /\ Opens(o) /\ n = 0 /\ Sent(e) = 0 /\ Sent(o) = 1
       /\ tn[e].fsm = "IDLE" /\ type = "SCCRQ"
    \/ /\ ~Opens(e) /\ Opens(o) /\ n = 1 /\ Sent(e) >= 1 /\ Taken(o) >= 1
       /\ tn[e].fsm = "WAIT_CTL_CONN" /\ type = "SCCCN"
    \/ /\ Opens(e) /\ Opens(o) /\ n = 0 /\ Sent(e) = 1
       /\ tn[e].fsm = "WAIT_CTL_REPLY" /\ type = "SCCRQ"
    \/ /\ Opens(e) /\ Opens(o) /\ n >= 1 /\ Sent(e) = 2
       /\ tn[e].fsm \in {"SEND_STOPCCN", "IDLE"} /\ type = "StopCCN"
    \/ tn[e].fsm = "ESTABLISHED" /\ type \in Late

LEMMA StageReached ==
  ASSUME Inv, Pairing, NEW e \in Ends, NEW o, o = Other(e), status[e] = "up",
         NEW n, n = Taken(e), n < Sent(o), NEW type, type \in Kinds(o, n)
  PROVE  Stage(e, o, n, type)
<1>1. o \in Ends /\ Other(o) = e
  BY OtherEnd
<1>2. /\ Sent(e) \in Nat /\ Taken(e) \in Nat /\ Sent(o) \in Nat /\ Taken(o) \in Nat
  BY <1>1, Counters
<1>3. /\ Numbers(e) /\ tn[e].fsm \in Reached(e)
      /\ status[o] # "off" /\ Numbers(o) /\ InStep(o)
  BY <1>1, <1>2 DEF Pairing, Side, Phase
<1>4. CASE Opens(e) /\ ~Opens(o)
  <2>1. Taken(o) >= 1
    BY <1>1, <1>2, <1>3, <1>4 DEF Numbers
  <2>2. CASE n = 0
    BY <1>1, <1>2, <1>3, <1>4, <2>1, <2>2 DEF Stage, Numbers, Reached, Kinds
  <2>3. CASE n # 0
    BY <1>1, <1>2, <1>3, <1>4, <2>1, <2>3 DEF Stage, Numbers, Reached, Kinds
  <2> QED BY <2>2, <2>3
<1>5. CASE ~Opens(e) /\ Opens(o)
  <2>1. CASE n = 0
    <3>1. Sent(o) = 1
      BY <1>1, <1>2, <1>3, <1>5, <2>1 DEF InStep
    <3> QED BY <1>1, <1>2, <1>3, <1>5, <2>1, <3>1 DEF Stage, Numbers, Reached, Kinds
  <2>2. CASE n = 1
    <3>1. Taken(o) >= 1
      BY <1>1, <1>2, <1>3, <1>5, <2>2 DEF Numbers
    <3> QED BY <1>1, <1>2, <1>3, <1>5, <2>2, <3>1 DEF Stage, Numbers, Reached, Kinds
  <2>3. CASE n \notin {0, 1}
    BY <1>1, <1>2, <1>3, <1>5, <2>3 DEF Stage, Numbers, Reached, Kinds
  <2> QED BY <2>1, <2>2, <2>3
<1>6. CASE Opens(e) /\ Opens(o)
  <2>1. CASE n = 0
    BY <1>1, <1>2, <1>3, <1>6, <2>1 DEF Stage, Numbers, Reached, Kinds
  <2>2. CASE n # 0
    BY <1>1, <1>2, <1>3, <1>6, <2>2 DEF Stage, Numbers, Reached, Kinds
  <2> QED BY <2>1, <2>2
<1>7. CASE ~Opens(e) /\ ~Opens(o)
  BY <1>1, <1>2, <1>3, <1>7 DEF Numbers
<1> QED BY <1>4, <1>5, <1>6, <1>7

\* So the message is one that the lemmas about a Tunnel know.
LEMMA StageExpected ==
  ASSUME Inv, Pairing, NEW e \in Ends, NEW o, o = Other(e), NEW n, NEW type,
         Stage(e, o, n, type)
  PROVE  Expected(KindsOf(e), tn[e].fsm, Sent(e), type)
<1> DEFINE K == KindsOf(e)
<1>1. Sent(e) \in Nat /\ \A k \in Nat : K[k] = Kinds(e, k)
  BY Counters DEF KindsOf
<1> HIDE DEF K
<1>2. CASE Opens(e) /\ ~Opens(o) /\ Sent(e) = 1
  <2>1. K[1] = {"SCCCN"} /\ \A k \in Nat : k >= 2 => K[k] = Late
    BY <1>1, <1>2 DEF Kinds
  <2> QED BY <1>1, <1>2, <2>1, LateKinds DEF Stage, Expected, K
<1>3. CASE ~Opens(e) /\ Opens(o)
  <2>1. K[0] = {"SCCRP"} /\ \A k \in Nat : k >= 1 => K[k] = Late
    BY <1>1, <1>3 DEF Kinds
  <2> QED BY <1>1, <1>3, <2>1, LateKinds DEF Stage, Expected, K
<1>4. CASE Opens(e) /\ Opens(o) /\ tn[e].fsm # "ESTABLISHED"
  <2>1. K[1] = {"StopCCN"}
    BY <1>1, <1>4 DEF Kinds
  <2> QED BY <1>1, <1>4, <2>1 DEF Stage, Expected, K
<1>5. CASE tn[e].fsm = "ESTABLISHED"
  <2>1. K[Sent(e)] = Late
    BY <1>1, <1>5, LateKinds DEF K
  <2>2. type \in Late
    BY <1>5 DEF Stage
  <2> QED BY <1>5, <2>1, <2>2 DEF Expected, K
<1> QED BY <1>2, <1>3, <1>4, <1>5 DEF Stage

\* Having taken it and answered, the end is where it has to be.
LEMMA StageSide ==
  ASSUME Inv, Pairing, NEW e \in Ends, NEW o, o = Other(e), status[e] = "up",
         NEW n, n = Taken(e), NEW type, Stage(e, o, n, type),
         scn' = scn, tn'[o] = tn[o], status'[e] = status[e],
         Sent(e)' \in Nat, Sent(e)' >= Sent(e), Taken(e)' \in n + 1 .. Sent(o),
         tn'[e].fsm = NextState(tn[e].fsm, type),
         tn'[e].fsm # "ESTABLISHED" => tn'[e].sess = tn[e].sess,
         type = "SCCRQ" => Sent(e)' = Sent(e) + 1,
         type = "SCCRP" => Sent(e)' >= Sent(e) + 1,
         type = "StopCCN" => Sent(e)' = Sent(e)
  PROVE  Side(e)'
<1>1. o \in Ends
  BY OtherEnd
<1>2. /\ Sent(e) \in Nat /\ n \in Nat /\ Sent(o) \in Nat
      /\ Taken(e)' \in Nat /\ Taken(e)' >= n + 1 /\ Taken(e)' <= Sent(o)
  BY <1>1, Counters
<1>3. /\ Opens(o)' = Opens(o) /\ Opens(e)' = Opens(e) /\ Other(e)' = o
      /\ Taken(o)' = Taken(o) /\ SessionsOf(e)' = SessionsOf(e)
  BY DEF Opens, Openers, Other, Taken, SessionsOf, Config
<1>4. CASE tn[e].fsm = "ESTABLISHED"
  <2>1. tn'[e].fsm = "ESTABLISHED"
    BY <1>4 DEF Stage, NextState, Late, SessionTypes
  <2> QED BY <1>2, <1>4, <2>1, EstablishedSide
<1>5. CASE tn[e].fsm # "ESTABLISHED"
  <2>1. Numbers(e)' /\ tn'[e].fsm \in Reached(e)'
    BY <1>2, <1>3, <1>5 DEF Stage, NextState, Numbers, Reached
  <2>2. Phase(e)'
    BY <2>1 DEF Phase
  <2>3. InStep(e)'
    BY <1>2, <1>3, <1>5 DEF Stage, NextState, InStep
  <2>4. \A sid \in SessionsOf(e) : tn[e].sess[sid].state = "IDLE"
    BY <1>5 DEF Pairing, Side, SessionsInTunnel
  <2>5. SessionsInTunnel(e)'
    BY <1>3, <2>4 DEF SessionsInTunnel
  <2> QED BY <2>2, <2>3, <2>5 DEF Side
<1> QED BY <1>4, <1>5

\* What arrives at e was sent by the other end, and acknowledges no more of
\* the handshake's messages than that end has taken.
LEMMA Arriving ==
  ASSUME Inv, Pairing, NEW e \in Ends, NEW o, o = Other(e), NEW i \in DOMAIN net[e],
         NEW msg, msg = net[e][i].msg
  PROVE  /\ msg.body # Zlb =>
              /\ msg.ns \in 0 .. Sent(o) - 1 /\ Proper(msg.body)
              /\ msg.body.t \in Kinds(o, msg.ns)
         /\ \A n \in AckedBy(msg.nr) : n \in {0, 1} => n < Taken(o)
<1>1. o \in Ends /\ Other(o) = e
  BY OtherEnd
<1>2. msg.nr \in 0 .. Taken(o) /\ (msg.body # Zlb => Known(o, msg.ns, msg.body))
  BY <1>1 DEF Pairing, Stream, Traffic
<1>3. Taken(o) \in Nat /\ Taken(o) < Modulus
  BY <1>1, Counters, ModulusAssumption DEF SeqNum
<1>4. msg.nr \in SeqNum /\ msg.nr \in Nat
  BY <1>2, <1>3, ModulusAssumption DEF SeqNum
<1>5. ASSUME NEW n \in AckedBy(msg.nr), n \in {0, 1} PROVE n < Taken(o)
  <2>1. msg.nr > n
    BY <1>4, <1>5, EarlyAck DEF AckedBy
  <2> QED BY <1>2, <1>3, <1>4, <1>5, <2>1
<1> QED BY <1>2, <1>5 DEF Known, Proper

\* A datagram is taken from the network, at a tunnel or at a process without
\* one.
LEMMA TakePaired ==
  ASSUME Inv, Pairing, Unwrapped, NEW e \in Ends, NEW i \in DOMAIN net[e],
         NEW rest, Take(e, i, rest), Listed(rest),
         \A k \in DOMAIN rest : \E j \in DOMAIN net[e] : rest[k] = net[e][j]
  PROVE  Pairing'
<1> DEFINE c == Config[e]
           K == KindsOf(e)
           o == Other(e)
           wire == net[e][i]
           msg == wire.msg
           L == Sent(o)
           s == tn[e]
<1>1. /\ ConfigOK(c) /\ c.local_ccid \in Nat /\ Len(c.order) \in Nat
      /\ Ready(c, s, Len(c.order) + 1) /\ HelloOK(s)
      /\ \A n \in SeqNum : s.peer.reorder[n] # NoMsg => n < L
  BY EndReady
<1>2. o \in Ends /\ o = Other(e) /\ L \in Nat /\ L < Modulus
      /\ Sent(e) \in Nat /\ Taken(e) \in Nat
  BY OtherEnd, Counters
<1>3. status' = status
  BY DEF Take
<1>4. /\ msg.body # Zlb =>
           msg.ns \in 0 .. L - 1 /\ Proper(msg.body) /\ msg.body.t \in Kinds(o, msg.ns)
      /\ \A n \in AckedBy(msg.nr) : n \in {0, 1} => n < Taken(o)
  BY <1>2, Arriving
<1> HIDE DEF c, K, o, wire, L
\* A call with these outcomes is all that is needed.
<1>5. ASSUME NEW t, Commit(e, t, rest), TunnelOK(c, t),
             Moves(s, t, K, AckedBy(msg.nr)), t.peer.nr_expect >= Taken(e),
             \A n \in SeqNum : t.peer.reorder[n] # NoMsg => n < L,
             Side(e)'
      PROVE  Pairing'
  <2> DEFINE gone == AckedBy(msg.nr)
  <2>1. Moves(s, t, K, gone) /\ \A n \in gone : n \in {0, 1} => n < Taken(o)
    BY <1>4, <1>5
  <2> HIDE DEF gone
  <2> QED BY <1>3, <1>5, <2>1, PairMoves DEF c, K, o, L
<1>6. CASE ~Reaches(e, wire)
  <2>1. Commit(e, s, rest)
    BY <1>6 DEF Take, wire
  <2>2. Ready(c, s, 0)
    BY <1>1, ModulusAssumption DEF Ready, TunnelOK, PeerOK, SeqNum
  <2>3. Emits(s, s, K)
    <3> HIDE DEF s
    <3> QED BY <2>2, EmitsNothing
  <2>4. Moves(s, s, K, AckedBy(msg.nr))
    BY <2>3 DEF Emits, Moves, PeerMoves
  <2>5. TunnelOK(c, s)
    BY <1>1 DEF Ready
  <2>6. /\ scn' = scn /\ tn'[o] = tn[o]
        /\ tn'[e].fsm = s.fsm /\ tn'[e].sess = s.sess
        /\ Sent(e)' = s.peer.ns_send /\ Taken(e)' = s.peer.nr_expect
    BY <2>1, <2>5, CommitEnd DEF c, o
  <2>7. Side(e)'
    BY <1>2, <1>3, <2>6, SameSide DEF Sent, Taken
  <2>8. s.peer.nr_expect >= Taken(e)
    BY <1>2 DEF Taken
  <2> QED BY <1>1, <1>5, <2>1, <2>4, <2>5, <2>7, <2>8
<1>7. CASE Reaches(e, wire)
  <2>1. PICK fail \in Failing : Commit(e, handle_datagram(c, s, wire, fail), rest)
    BY <1>7 DEF Take, wire, c
  <2> DEFINE t == handle_datagram(c, s, wire, fail)
  <2>2. t = handle_datagram(c, s, wire, fail) /\ Commit(e, t, rest) /\ status[e] = "up"
    BY <1>7, <2>1 DEF Reaches
  <2>3. s.peer.nr_expect = Taken(e) /\ s.peer.ns_send = Sent(e) /\ s.fsm = tn[e].fsm
        /\ s.sess = tn[e].sess
    BY DEF Sent, Taken
  <2> HIDE DEF t, s
  <2>4. TunnelOK(c, t)
    BY <1>1, <2>2, HandleDatagramOK DEF Ready, CallOK
  <2>5. PICK w, m :
          /\ Received(c, s, w, msg, K, L)
          /\ \/ t = w /\ w.peer.nr_expect = s.peer.nr_expect
             \/ /\ Taking(s, w, msg, L)
                /\ m.t = msg.body.t /\ m.ok
                /\ t = Dispatched(c, w, m, fail)
    <3>1. Handled(c, s, t, msg, K, L, fail)
      BY <1>1, <1>2, <1>4, <2>2, HandleMoves
    <3> QED BY <3>1 DEF Handled
  <2>6. /\ Ready(c, w, Len(c.order) + 1) /\ SentOnly(s, w)
        /\ Moves(s, w, K, AckedBy(msg.nr))
        /\ w.peer.ns_send = s.peer.ns_send
        /\ \A n \in SeqNum : w.peer.reorder[n] # NoMsg => n < L
    BY <2>5 DEF Received
  <2>7. /\ scn' = scn /\ tn'[o] = tn[o]
        /\ tn'[e].fsm = t.fsm /\ tn'[e].sess = t.sess
        /\ Sent(e)' = t.peer.ns_send /\ Taken(e)' = t.peer.nr_expect
        /\ Sent(e)' \in Nat /\ Taken(e)' \in Nat
    BY <2>2, <2>4, CommitEnd DEF c, o
  <2>8. CASE t = w /\ w.peer.nr_expect = s.peer.nr_expect
    <3>1. /\ tn'[e].fsm = tn[e].fsm /\ tn'[e].sess = tn[e].sess
          /\ Sent(e)' = Sent(e) /\ Taken(e)' = Taken(e)
      BY <2>3, <2>6, <2>7, <2>8 DEF SentOnly
    <3>2. Side(e)'
      BY <1>2, <1>3, <2>7, <3>1, SameSide
    <3>3. t.peer.nr_expect >= Taken(e)
      BY <1>2, <2>3, <2>8
    <3> QED BY <1>5, <2>2, <2>4, <2>6, <2>8, <3>2, <3>3
  <2>9. CASE /\ Taking(s, w, msg, L)
             /\ m.t = msg.body.t /\ m.ok
             /\ t = Dispatched(c, w, m, fail)
    <3> DEFINE n == Taken(e)
               type == m.t
    <3>1. /\ msg.body # Zlb /\ msg.ns = n /\ w.peer.nr_expect \in n + 1 .. L
          /\ n < L /\ type \in Kinds(o, n)
      BY <1>2, <1>4, <2>3, <2>9 DEF Taking
    <3> HIDE DEF n, type
    <3>2. n = Taken(e) /\ n < Sent(o)
      BY <3>1 DEF n, L
    <3>3. Stage(e, o, n, type)
      BY <1>2, <2>2, <3>1, <3>2, StageReached
    <3>4. Expected(K, tn[e].fsm, Sent(e), type)
      BY <1>2, <3>3, StageExpected DEF K
    <3>5. w.fsm = tn[e].fsm /\ w.peer.ns_send = Sent(e) /\ w.sess = tn[e].sess /\ HelloOK(w)
      BY <1>1, <2>3, <2>6 DEF SentOnly, HelloOK
    <3>6. Emits(w, t, K) /\ Answered(w, t, type)
      <4>1. Expected(K, w.fsm, w.peer.ns_send, m.t)
        BY <3>4, <3>5 DEF type
      <4> QED BY <1>1, <2>6, <2>9, <3>5, <4>1, DispatchedMoves DEF type
    <3>7. Moves(s, t, K, AckedBy(msg.nr))
      BY <1>1, <2>4, <2>6, <3>6, MovesCompose DEF Ready
    <3>8. t.peer.nr_expect = w.peer.nr_expect /\ t.peer.reorder = w.peer.reorder
          /\ t.peer.ns_send >= w.peer.ns_send
      BY <3>6 DEF Emits, Unsent, Moves, PeerMoves
    <3>9. t.peer.nr_expect >= Taken(e)
      BY <1>2, <3>1, <3>2, <3>8
    <3>10. Side(e)'
      <4>1. /\ tn'[e].fsm = NextState(tn[e].fsm, type)
            /\ tn'[e].fsm # "ESTABLISHED" => tn'[e].sess = tn[e].sess
            /\ type = "SCCRQ" => Sent(e)' = Sent(e) + 1
            /\ type = "SCCRP" => Sent(e)' >= Sent(e) + 1
            /\ type = "StopCCN" => Sent(e)' = Sent(e)
        BY <2>7, <3>5, <3>6 DEF Answered
      <4>2. Sent(e)' >= Sent(e) /\ Taken(e)' \in n + 1 .. Sent(o)
        BY <2>7, <3>1, <3>5, <3>8 DEF L
      <4> QED BY <1>2, <1>3, <2>2, <2>7, <3>2, <3>3, <4>1, <4>2, StageSide
    <3>11. \A k \in SeqNum : t.peer.reorder[k] # NoMsg => k < L
      BY <2>6, <3>8
    <3> QED BY <1>5, <2>2, <2>4, <3>7, <3>9, <3>10, <3>11
  <2> QED BY <2>5, <2>8, <2>9
<1> QED BY <1>6, <1>7

\* r is what is left of s when one or none of its elements is taken away.
Remains(s, r) ==
    Listed(r) /\ \A k \in DOMAIN r : \E j \in DOMAIN s : r[k] = s[j]

LEMMA RemainsOf ==
  ASSUME NEW s, Listed(s)
  PROVE  /\ Remains(s, s)
         /\ s # <<>> => 1 \in DOMAIN s /\ Remains(s, Tail(s))
         /\ \A i \in 2 .. Len(s) : i \in DOMAIN s /\ Remains(s, RemoveAt(s, i))
<1> DEFINE R == {s[j] : j \in DOMAIN s}
<1>1. PICK S : s \in Seq(S)
  BY DEF Listed
<1>2. Len(s) \in Nat /\ DOMAIN s = 1 .. Len(s)
  BY <1>1, LenProperties
<1>3. \A j \in 1 .. Len(s) : s[j] \in R
  BY <1>2
<1>4. \A r : r \in Seq(R) => Remains(s, r)
  <2> SUFFICES ASSUME NEW r, r \in Seq(R) PROVE Remains(s, r)
    OBVIOUS
  <2>1. \A k \in DOMAIN r : r[k] \in R
    BY LenProperties, ElementOfSeq
  <2> QED BY <2>1 DEF Remains, Listed
<1> HIDE DEF R
<1>5. Remains(s, s)
  BY DEF Remains
<1>6. s # <<>> => 1 \in DOMAIN s /\ Tail(s) \in Seq(R)
  <2> SUFFICES ASSUME s # <<>> PROVE 1 \in DOMAIN s /\ Tail(s) \in Seq(R)
    OBVIOUS
  <2>1. Len(s) \in Nat \ {0} /\ Tail(s) = SubSeq(s, 2, Len(s))
    BY <1>1, EmptySeq, TailIsSubSeq
  <2>2. SubSeq(s, 2, Len(s)) \in Seq(R)
    BY <1>2, <1>3, SubSeqProperties
  <2>3. 1 \in DOMAIN s
    BY <1>2, <2>1
  <2>4. Tail(s) \in Seq(R)
    BY <2>1, <2>2
  <2> QED BY <2>3, <2>4
<1>7. ASSUME NEW i \in 2 .. Len(s) PROVE i \in DOMAIN s /\ RemoveAt(s, i) \in Seq(R)
  <2> DEFINE m == i - 1
             n == i + 1
             a == SubSeq(s, 1, m)
             b == SubSeq(s, n, Len(s))
  <2>1. /\ m \in Int /\ n \in Int /\ i \in 1 .. Len(s)
        /\ \A j \in 1 .. m : s[j] \in R
        /\ \A j \in n .. Len(s) : s[j] \in R
    BY <1>2, <1>3
  <2>2. RemoveAt(s, i) = a \o b
    BY DEF RemoveAt
  <2> HIDE DEF m, n
  <2>3. a \in Seq(R) /\ b \in Seq(R)
    BY <1>2, <2>1, SubSeqProperties
  <2> HIDE DEF a, b
  <2> QED BY <1>2, <2>1, <2>2, <2>3, ConcatProperties
<1> QED BY <1>4, <1>5, <1>6, <1>7

\* A datagram is lost: the ends do not know.
LEMMA LosePaired ==
  ASSUME Inv, Pairing, Unwrapped, NEW e \in Ends, Lose(e)
  PROVE  Pairing'
<1> DEFINE o == Other(e)
           queue == Tail(net[e])
<1>1. /\ net[e] # <<>> /\ net' = [net EXCEPT ![e] = queue]
      /\ scn' = scn /\ tn' = tn /\ status' = status
  BY DEF Lose
<1>2. /\ o \in Ends /\ o # e /\ Ends = {e, o} /\ o = Other(e) /\ e = Other(o)
  BY OtherEnd
<1>3. Listed(net[e]) /\ Listed(net[o])
  BY <1>2 DEF Pairing, Stream
<1>4. Remains(net[e], queue) /\ Remains(net[o], net[o])
  BY <1>1, <1>3, RemainsOf
<1>5. /\ DOMAIN net' = Ends /\ net'[e] = queue /\ net'[o] = net[o]
  BY <1>1, <1>2 DEF Pairing
<1> HIDE DEF o, queue
<1>6. ASSUME NEW x \in Ends, NEW y, y = Other(x), NEW q, net'[x] = q, Remains(net[x], q)
      PROVE  /\ Side(y)'
             /\ Traffic(y)' /\ HandshakeAcked(y)' /\ PendingOK(tn'[y].peer.send_queue)
  <2> DEFINE t == tn[x]
  <2>1. /\ TunnelOK(Config[x], t) /\ tn'[x].peer = t.peer
        /\ tn'[y] = tn[y] /\ status'[y] = status[y]
        /\ \A n \in SeqNum : t.peer.reorder[n] # NoMsg => n < Sent(y)
        /\ t.peer.nr_expect >= Taken(x)
    BY <1>1, <1>6, EndReady, Counters DEF Ready, Taken
  <2> HIDE DEF t
  <2> QED BY <1>1, <1>6, <2>1, StreamKept DEF Remains
<1>7. Side(e)' /\ Traffic(e)' /\ HandshakeAcked(e)' /\ PendingOK(tn'[e].peer.send_queue)
  BY <1>2, <1>4, <1>5, <1>6
<1>8. Side(o)' /\ Traffic(o)' /\ HandshakeAcked(o)' /\ PendingOK(tn'[o].peer.send_queue)
  BY <1>2, <1>4, <1>5, <1>6
<1>9. Listed(net'[e]) /\ Listed(net'[o])
  BY <1>3, <1>4, <1>5 DEF Remains
<1>10. Stream(e)' /\ Stream(o)'
  BY <1>7, <1>8, <1>9 DEF Stream
<1> QED BY <1>2, <1>5, <1>7, <1>8, <1>10 DEF Pairing

\* Before anything has started.
LEMMA InitPaired == Init => Paired
<1> SUFFICES ASSUME Init PROVE Pairing
  BY DEF Paired
<1>1. DOMAIN net = Ends
  BY DEF Init
<1>2. ASSUME NEW e \in Ends PROVE Side(e) /\ Stream(e)
  <2> DEFINE dp == NewDataplane(DOMAIN Config[e].sessions)
             t == tn[e]
  <2>1. t = NewTunnel(Config[e], dp) /\ status[e] = "off" /\ net[e] = <<>>
        /\ net[Other(e)] = <<>> /\ Other(e) \in Ends
    BY OtherEnd DEF Init, Fresh
  <2> HIDE DEF t, dp
  <2>2. /\ t.fsm = "IDLE" /\ t.out = <<>> /\ t.peer.send_queue = <<>>
        /\ t.peer.ns_send = 0 /\ t.peer.nr_expect = 0
        /\ \A n \in SeqNum : t.peer.reorder[n] = NoMsg
        /\ \A sid \in DOMAIN Config[e].sessions : t.sess[sid].state = "IDLE"
    BY <2>1, NewMoves
  <2>3. \A n \in SeqNum : tn[Other(e)].peer.reorder[n] = NoMsg
    BY <2>1, NewMoves DEF Init, Fresh
  <2>4. Sent(e) = 0 /\ Taken(e) = 0
    BY <2>2 DEF Sent, Taken, t
  <2>5. Side(e)
    BY <2>1, <2>2, <2>4 DEF Side, Phase, InStep, SessionsInTunnel, SessionsOf, t
  <2>6. Traffic(e) /\ HandshakeAcked(e)
    BY <2>1, <2>2, <2>3, <2>4 DEF Traffic, HandshakeAcked, t
  <2>7. Listed(net[e]) /\ PendingOK(t.peer.send_queue)
    BY <2>1, <2>2 DEF Listed, PendingOK
  <2> QED BY <2>5, <2>6, <2>7 DEF Stream, t
<1> QED BY <1>1, <1>2 DEF Pairing

\* Every step keeps the handshake in order, until a process ends.
LEMMA NextPaired ==
  ASSUME Inv, Paired, Unwrapped, [Next]_vars
  PROVE  Paired'
<1> SUFFICES ASSUME OneLifetime' PROVE Pairing'
  BY DEF Paired
\* As long as the step is not the end of a process, nothing has ended before.
<1>1. (\E event \in Events : Use(event)) \/ UNCHANGED used => Pairing
  BY UseFacts DEF OneLifetime, Paired
<1>2. \A e \in Ends : Listed(net[e]) \/ ~Pairing
  BY DEF Pairing, Stream
<1>3. ASSUME NEW e \in Ends, Start(e) PROVE Pairing'
  BY <1>1, <1>3, StartPaired DEF Start
<1>4. ASSUME NEW e \in Ends, Receive(e) PROVE Pairing'
  <2>1. Pairing /\ net[e] # <<>> /\ Take(e, 1, Tail(net[e]))
    BY <1>1, <1>4 DEF Receive
  <2>2. 1 \in DOMAIN net[e] /\ Remains(net[e], Tail(net[e]))
    BY <1>2, <2>1, RemainsOf
  <2> QED BY <2>1, <2>2, TakePaired DEF Remains
<1>5. ASSUME NEW e \in Ends, Duplicated(e) PROVE Pairing'
  <2>1. Pairing /\ net[e] # <<>> /\ Take(e, 1, net[e])
    BY <1>1, <1>5 DEF Duplicated, Events
  <2>2. 1 \in DOMAIN net[e] /\ Remains(net[e], net[e])
    BY <1>2, <2>1, RemainsOf
  <2> QED BY <2>1, <2>2, TakePaired DEF Remains
<1>6. ASSUME NEW e \in Ends, Overtaking(e) PROVE Pairing'
  <2>1. PICK i \in 2 .. Len(net[e]) : Take(e, i, RemoveAt(net[e], i)) /\ Use("faults")
    BY <1>6 DEF Overtaking
  <2>2. Pairing
    BY <1>1, <2>1 DEF Events
  <2>3. i \in DOMAIN net[e] /\ Remains(net[e], RemoveAt(net[e], i))
    BY <1>2, <2>2, RemainsOf
  <2> QED BY <2>1, <2>2, <2>3, TakePaired DEF Remains
<1>7. ASSUME NEW e \in Ends, Lose(e) PROVE Pairing'
  BY <1>1, <1>7, LosePaired DEF Lose, Events
<1>8. ASSUME NEW e \in Ends, Tick(e) PROVE Pairing'
  <2>1. Pairing
    BY <1>1, <1>8 DEF Tick, Events
  <2> QED BY <1>8, <2>1, TickPaired
<1>9. ASSUME NEW e \in Ends, HelloTimer(e) PROVE Pairing'
  <2>1. Pairing
    BY <1>1, <1>9 DEF HelloTimer, Events
  <2> QED BY <1>9, <2>1, HelloPaired
<1>10. ASSUME NEW e \in Ends, CloseSession(e) PROVE Pairing'
  <2>1. Pairing
    BY <1>1, <1>10 DEF CloseSession, Events
  <2> QED BY <1>10, <2>1, ClosePaired
<1>11. ASSUME NEW e \in Ends, Stop(e) \/ Crash(e) PROVE FALSE
  <2>1. Use("stops") \/ Use("crashes")
    BY <1>11 DEF Stop, Crash
  <2> QED BY <2>1, UseFacts DEF Events
<1>12. CASE UNCHANGED vars
  <2>1. Pairing /\ scn' = scn /\ tn' = tn /\ status' = status /\ net' = net
    BY <1>1, <1>12 DEF vars
  <2>2. ASSUME NEW e \in Ends PROVE Side(e)'
    <3>1. Sent(e)' = Sent(e) /\ Taken(e)' = Taken(e)
      BY <2>1 DEF Sent, Taken
    <3> QED BY <2>1, <3>1, SameSide
  <2>3. ASSUME NEW e \in Ends PROVE Stream(e)'
    <3>1. Stream(e)
      BY <2>1 DEF Pairing
    <3>2. Other(e)' = Other(e) /\ Other(e) \in Ends /\ Other(Other(e)) = e
      BY OtherEnd DEF Other
    <3>3. /\ Sent(e)' = Sent(e) /\ Taken(e)' = Taken(e)
          /\ Taken(Other(e))' = Taken(Other(e)) /\ Opens(e)' = Opens(e)
          /\ Opens(Other(e))' = Opens(Other(e))
      BY <2>1, <3>2 DEF Sent, Taken, Opens, Openers, Other
    <3>4. \A n, body : Known(e, n, body)' <=> Known(e, n, body)
      BY <3>2, <3>3 DEF Known, Kinds
    <3>5. Traffic(e)' /\ HandshakeAcked(e)'
      BY <2>1, <3>1, <3>2, <3>3, <3>4 DEF Stream, Traffic, HandshakeAcked
    <3> QED BY <2>1, <3>1, <3>2, <3>5 DEF Stream
  <2> QED BY <2>1, <2>2, <2>3 DEF Pairing
<1> QED
  BY <1>3, <1>4, <1>5, <1>6, <1>7, <1>8, <1>9, <1>10, <1>11, <1>12 DEF Next

-----------------------------------------------------------------------------
(* What the handshake guarantees *)

\* As long as no sequence number wraps around, and until a process ends, the
\* two ends are in the handshake where what each has sent, taken and had
\* acknowledged says, whatever the network loses, duplicates and reorders.
THEOREM HandshakeHolds == Spec /\ []Unwrapped => []Handshake
<1>1. Paired => Handshake
  BY DEF Paired, Pairing, Handshake, Side, Stream
<1>2. Inv /\ Paired /\ Unwrapped /\ [Next]_vars => Paired'
  BY NextPaired
<1> QED BY <1>1, <1>2, InitPaired, Invariance, PTL DEF Spec

\* The TornDown action of every teardown path reaches every session and the
\* kernel: while no process ended and no ip command failed, an end has no
\* netdev in a tunnel that is not ESTABLISHED.
THEOREM NoNetdevWithoutTunnel == Spec /\ []Unwrapped => []NetdevInLiveTunnel
<1>1. NetdevIffEstablished /\ Handshake => NetdevInLiveTunnel
  BY DEF NetdevIffEstablished, Handshake, NetdevInLiveTunnel, NetdevInTunnel, SessionsInTunnel,
         SessionUp, Undisturbed
<1> QED BY <1>1, NetdevFollowsSession, HandshakeHolds, PTL

\* Once everything is acknowledged, no end waits for a handshake message, and
\* the ends agree whether the tunnel is up: an SCCRQ, SCCRP or SCCCN that
\* receive() has acknowledged has been acted upon.
THEOREM SettledEndsAgree == Spec /\ []Unwrapped => []SettledTunnelsAgree
<1>1. Inv /\ Handshake => SettledTunnelsAgree
  <2> SUFFICES ASSUME Inv, Handshake, OneLifetime, Settled
               PROVE  /\ NobodyWaitsInVain
                      /\ tn[1].fsm = "ESTABLISHED" <=> tn[2].fsm = "ESTABLISHED"
    BY DEF SettledTunnelsAgree
  <2>1. ASSUME NEW e \in Ends
        PROVE  /\ tn[e].fsm \notin {"WAIT_CTL_REPLY", "WAIT_CTL_CONN"}
               /\ tn[e].fsm = "ESTABLISHED" => tn[Other(e)].fsm = "ESTABLISHED"
    <3> DEFINE o == Other(e)
    <3>1. o \in Ends /\ Other(o) = e
      BY OtherEnd
    <3>2. \A x \in Ends : /\ Numbers(x) /\ tn[x].fsm \in Reached(x)
                          /\ Sent(x) \in Nat /\ Taken(x) \in Nat
                          /\ \A n \in {0, 1} : n < Sent(x) => n < Taken(Other(x))
      <4> SUFFICES ASSUME NEW x \in Ends
                   PROVE  /\ Numbers(x) /\ tn[x].fsm \in Reached(x)
                          /\ Sent(x) \in Nat /\ Taken(x) \in Nat
                          /\ \A n \in {0, 1} : n < Sent(x) => n < Taken(Other(x))
        OBVIOUS
      <4>1. /\ Phase(x) /\ HandshakeAcked(x) /\ status[x] = "up"
            /\ tn[x].peer.send_queue = <<>>
        BY DEF Handshake, Settled
      <4>2. \A n \in {0, 1} : n < Sent(x) => n < Taken(Other(x))
        BY <4>1 DEF HandshakeAcked
      <4> QED BY <4>1, <4>2, Counters DEF Phase
    <3> HIDE DEF o
    <3>3. /\ Numbers(e) /\ tn[e].fsm \in Reached(e) /\ Numbers(o) /\ tn[o].fsm \in Reached(o)
          /\ Sent(e) \in Nat /\ Taken(e) \in Nat /\ Sent(o) \in Nat /\ Taken(o) \in Nat
          /\ 0 < Sent(e) => 0 < Taken(o)
          /\ 1 < Sent(e) => 1 < Taken(o)
          /\ 0 < Sent(o) => 0 < Taken(e)
          /\ 1 < Sent(o) => 1 < Taken(e)
          /\ Other(e) = o /\ Other(o) = e
      BY <3>1, <3>2 DEF o
    <3>4. CASE Opens(e) /\ Opens(o)
      BY <3>3, <3>4 DEF Numbers, Reached
    <3>5. CASE Opens(e) /\ ~Opens(o)
      BY <3>3, <3>5 DEF Numbers, Reached
    <3>6. CASE ~Opens(e) /\ Opens(o)
      BY <3>3, <3>6 DEF Numbers, Reached
    <3>7. CASE ~Opens(e) /\ ~Opens(o)
      BY <3>3, <3>7 DEF Numbers, Reached
    <3> QED BY <3>4, <3>5, <3>6, <3>7 DEF o
  <2>2. Other(1) = 2 /\ Other(2) = 1 /\ 1 \in Ends /\ 2 \in Ends
    BY DEF Other, Ends
  <2>3. NobodyWaitsInVain
    BY <2>1 DEF NobodyWaitsInVain
  <2>4. /\ tn[1].fsm = "ESTABLISHED" => tn[Other(1)].fsm = "ESTABLISHED"
        /\ tn[2].fsm = "ESTABLISHED" => tn[Other(2)].fsm = "ESTABLISHED"
    BY <2>1, <2>2
  <2> QED BY <2>2, <2>3, <2>4
<1> QED BY <1>1, Invariance, HandshakeHolds, PTL
=============================================================================
