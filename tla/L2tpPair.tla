------------------------------ MODULE L2tpPair ------------------------------
(***************************************************************************)
(* Two xcesp-l2tpv3d daemons with one tunnel between them: the callbacks   *)
(* of their event loops (datagram, tick, HELLO timer), the operator and    *)
(* the process supervisor that start and end them, and the network.        *)
(*                                                                         *)
(* Each event-loop callback runs to completion, so each is one step.  The  *)
(* network delivers in order except for a bounded number of faults: a      *)
(* datagram lost, duplicated, or overtaken by a later one.                 *)
(***************************************************************************)
EXTENDS Tunnel

CONSTANT
    Scenario     \* the situations to look at, each a record of
                 \*   config   config[e]: the TunnelConfigEntry of end e
                 \*   openers  the ends that open the tunnel when they start
                 \*   daemon   whether Daemon._dispatch_datagram stands before
                 \*            the tunnels
                 \*   failing  sets of ip commands that may fail together
                 \*   max      the bounds, one for each of the Events

Ends == {1, 2}

\* What a scenario bounds: faults of the network; retransmission timers that
\* expire while the answer is under way; HELLO timers that fire; sessions the
\* operator closes; orderly stops and crashes of a daemon.
Events == {"faults", "early", "hellos", "closes", "stops", "crashes"}

ASSUME PairAssumption ==
    \A k \in DOMAIN Scenario :
        /\ \A e \in Ends :
             /\ Scenario[k].config[e].local_ccid \in Nat \ {0}
             /\ 0 \notin DOMAIN Scenario[k].config[e].sessions
             /\ Scenario[k].config[e].order \in Seq(DOMAIN Scenario[k].config[e].sessions)
        /\ Scenario[k].openers \subseteq Ends
        /\ Scenario[k].daemon \in BOOLEAN
        /\ {} \in Scenario[k].failing
        /\ Scenario[k].max \in [Events -> Nat]

VARIABLES
    scn,     \* the scenario; never changes
    tn,      \* tn[e]: the Tunnel object of end e
    status,  \* "off": no process; "up"; "removed": the daemon runs, without
             \*   the tunnel, whose peer it found dead
    net,     \* net[e]: the datagrams on their way to e
    used     \* how much of each bound is used up

vars == <<scn, tn, status, net, used>>

Config    == Scenario[scn].config
Openers   == Scenario[scn].openers
ViaDaemon == Scenario[scn].daemon
Failing   == Scenario[scn].failing

Other(e) == 3 - e

Fresh(e, dp) == NewTunnel(Config[e], dp)

\* What a process leaves behind when it ends: the kernel's state.
Leftover(dp) == [dp EXCEPT !.tunnel = FALSE, !.sessions = {}]

Init ==
    /\ scn    \in DOMAIN Scenario
    /\ tn     = [e \in Ends |-> Fresh(e, NewDataplane(DOMAIN Config[e].sessions))]
    /\ status = [e \in Ends |-> "off"]
    /\ net    = [e \in Ends |-> <<>>]
    /\ used   = [event \in Events |-> 0]

\* The callback leaves the tunnel as t; what it sent is under way, behind
\* queue, what is left of the datagrams to e.
Commit(e, t, queue) ==
    /\ tn'  = [tn EXCEPT ![e] = [t EXCEPT !.out = <<>>]]
    /\ net' = [net EXCEPT ![e] = queue, ![Other(e)] = @ \o t.out]
    /\ UNCHANGED scn

Use(event) ==
    /\ used[event] < Scenario[scn].max[event]
    /\ used' = [used EXCEPT ![event] = @ + 1]

-----------------------------------------------------------------------------
(* Daemon.start: a new Tunnel, which is opened at once.  An end outside    *)
(* Openers is a Tunnel that only answers, as in the integration tests.     *)
Start(e) ==
    LET t == Fresh(e, tn[e].dp)
    IN  /\ status[e] = "off"
        /\ status' = [status EXCEPT ![e] = "up"]
        /\ Commit(e, IF e \in Openers THEN start(Config[e], t) ELSE t, net[e])
        /\ UNCHANGED used

\* Daemon._dispatch_datagram: the tunnel a datagram is for, by its CCID.
Reaches(e, wire) ==
    /\ status[e] = "up"
    /\ ViaDaemon => wire.msg.ccid = Config[e].local_ccid

\* _recv_loop takes the i-th datagram on its way to e; the rest is left.
Take(e, i, rest) ==
    LET wire == net[e][i]
    IN  /\ UNCHANGED status
        /\ \/ /\ Reaches(e, wire)
              /\ \E t \in {handle_datagram(Config[e], tn[e], wire, fail) : fail \in Failing} :
                    Commit(e, t, rest)
           \/ ~Reaches(e, wire) /\ Commit(e, tn[e], rest)

Receive(e) ==
    /\ net[e] # <<>>
    /\ Take(e, 1, Tail(net[e]))
    /\ UNCHANGED used

(* The network delivers a datagram and keeps a copy of it. *)
Duplicated(e) ==
    /\ net[e] # <<>>
    /\ Take(e, 1, net[e])
    /\ Use("faults")

(* A datagram overtakes those before it. *)
Overtaking(e) ==
    \E i \in 2 .. Len(net[e]) :
        /\ Take(e, i, RemoveAt(net[e], i))
        /\ Use("faults")

Lose(e) ==
    /\ net[e] # <<>>
    /\ net' = [net EXCEPT ![e] = Tail(@)]
    /\ Use("faults")
    /\ UNCHANGED <<scn, tn, status>>

\* Nothing is under way and nobody is about to start: while an end is off, the
\* other one's timers expire only as often as the bound on early ones allows.
\* So an end is assumed to start within the retry budget of the other.
Quiet == \A e \in Ends : net[e] = <<>> /\ status[e] # "off"

(* One round of _tick_loop in which timers have expired; a tunnel whose    *)
(* peer is dead is taken out of the daemon's table.                        *)
Tick(e) ==
    \E expired \in Expiries(tn[e].peer) :
        \E t \in {tunnel_tick(Config[e], tn[e], expired, fail) : fail \in Failing} :
            /\ status[e] = "up"
            /\ IF Quiet THEN UNCHANGED used ELSE Use("early")
            /\ status' = [status EXCEPT ![e] = IF t.peer.dead THEN "removed" ELSE "up"]
            /\ Commit(e, t, net[e])

(* The HELLO timer fires. *)
HelloTimer(e) ==
    \E t \in {hello_timer(Config[e], tn[e], fail) : fail \in Failing} :
        /\ status[e] # "off"
        /\ tn[e].hello
        /\ Use("hellos")
        /\ Commit(e, t, net[e])
        /\ UNCHANGED status

(* The operator closes a session. *)
CloseSession(e) ==
    \E sid \in DOMAIN Config[e].sessions :
        \E t \in {session_close(Config[e], tn[e], sid, fail) : fail \in Failing} :
            /\ status[e] = "up"
            /\ Use("closes")
            /\ Commit(e, t, net[e])
            /\ UNCHANGED status

\* What Daemon.stop makes of the tunnel: closed, if it is in the table.
Stopped(e, fail) ==
    IF status[e] = "up" THEN close(Config[e], tn[e], fail) ELSE tn[e]

(* SIGTERM: Daemon.stop closes the tunnels and the process ends, without   *)
(* waiting for an answer.                                                  *)
Stop(e) ==
    \E t \in {Stopped(e, fail) : fail \in Failing} :
        /\ status[e] # "off"
        /\ Use("stops")
        /\ status' = [status EXCEPT ![e] = "off"]
        /\ Commit(e, [Fresh(e, Leftover(t.dp)) EXCEPT !.out = t.out], net[e])

(* The process is killed. *)
Crash(e) ==
    /\ status[e] # "off"
    /\ Use("crashes")
    /\ status' = [status EXCEPT ![e] = "off"]
    /\ Commit(e, Fresh(e, Leftover(tn[e].dp)), net[e])

Next ==
    \/ \E e \in Ends : Start(e)
    \/ \E e \in Ends : Receive(e)
    \/ \E e \in Ends : Duplicated(e)
    \/ \E e \in Ends : Overtaking(e)
    \/ \E e \in Ends : Lose(e)
    \/ \E e \in Ends : Tick(e)
    \/ \E e \in Ends : HelloTimer(e)
    \/ \E e \in Ends : CloseSession(e)
    \/ \E e \in Ends : Stop(e)
    \/ \E e \in Ends : Crash(e)

Spec == Init /\ [][Next]_vars

\* An event loop has something to do: a datagram has arrived, or the timer of
\* a message runs that nothing under way will acknowledge.
Busy ==
    \E e \in Ends :
        \/ net[e] # <<>>
        \/ Quiet /\ status[e] = "up" /\ tn[e].peer.send_queue # <<>>

\* systemd starts the daemons (again after a crash), an event loop takes what
\* has arrived, and its tick loop runs for ever.  Nothing is assumed of the
\* network's faults, early expiries, the operator and the HELLO timers: the
\* steps that use up a bound.  The second conjunct is the weak fairness of the
\* event loops' other steps, Receive and, when Quiet, Tick, with their ENABLED
\* written out as Busy.
Fairness ==
    /\ \A e \in Ends : WF_vars(Start(e))
    /\ []<>~Busy \/ []<><<UNCHANGED used>>_vars

FairSpec == Spec /\ Fairness

-----------------------------------------------------------------------------
(* Properties *)

Netdev(e, sid) == tn[e].dp.ksessions[sid]
HasNetdev(e, sid) == Netdev(e, sid) # NoSession
SessionsOf(e) == DOMAIN Config[e].sessions
SessionUp(e, sid) == tn[e].sess[sid].state = "ESTABLISHED"

\* The pseudowires: the sessions of the two ends with the same name.
Pseudowires ==
    {pw \in SessionsOf(1) \X SessionsOf(2) :
        Config[1].sessions[pw[1]].name = Config[2].sessions[pw[2]].name}

\* Every process started once and still runs.
OneLifetime == used.stops + used.crashes = 0

\* Moreover no ip command fails: none by itself, and none because a cookie was
\* configured with 0 bytes.
Undisturbed ==
    /\ OneLifetime
    /\ Failing = {{}}
    /\ \A e \in Ends : \A sid \in SessionsOf(e) :
         EmptyCookie \notin {Config[e].sessions[sid].cookie, Config[e].sessions[sid].peer_cookie}

\* Every attribute holds what the code keeps in it: FSM states, sequence
\* numbers and retry counts in range, an index that leads to sessions of the
\* tunnel, and dataplane records for sessions of the tunnel only.
TypeOK ==
    \A e \in Ends :
        /\ status[e] \in {"off", "up", "removed"}
        /\ tn[e].fsm \in TunnelStates
        /\ tn[e].out = <<>>
        /\ \A sid \in SessionsOf(e) : tn[e].sess[sid].state \in SessionStates
        /\ Range(tn[e].by_remote) \cup tn[e].dp.sessions \subseteq SessionsOf(e)
        /\ {tn[e].peer.ns_send, tn[e].peer.nr_expect} \subseteq SeqNum
        /\ \A i \in DOMAIN tn[e].peer.send_queue :
             tn[e].peer.send_queue[i].retries \in 0 .. MaxRetries + 1
        /\ tn[e].peer.dead <=> status[e] = "removed"

\* The HELLO timer is armed exactly while the tunnel is ESTABLISHED: no path
\* through teardown, death, restart or a late message leaves a timer behind
\* or an established tunnel without keepalives (SetHelloTimer and
\* ClearHelloTimer in _execute_actions).
HelloIffEstablished ==
    \A e \in Ends : tn[e].hello <=> tn[e].fsm = "ESTABLISHED"

\* While no process ended and no ip command failed, the kernel has a netdev
\* for a session exactly when its FSM is ESTABLISHED, whether the session went
\* down by a CDN, a local close or a dead peer.  (Two daemons that run send no
\* StopCCN to a tunnel that is up; that path is in AnyPeer.)
NetdevIffEstablished ==
    Undisturbed =>
        \A e \in Ends : \A sid \in SessionsOf(e) :
            HasNetdev(e, sid) <=> SessionUp(e, sid)

\* "The parent tunnel went down; all sessions in it are dead too": an end has
\* no netdev in a tunnel that is not ESTABLISHED.
NetdevInTunnel ==
    \A e \in Ends : \A sid \in SessionsOf(e) :
        HasNetdev(e, sid) => tn[e].fsm = "ESTABLISHED"

\* That much holds as long as no process ended and no ip command failed: no
\* session message, however the network reorders, is acted upon before the
\* tunnel is up, and the TornDown action of a dead peer reaches every session
\* and the kernel.  (The other teardowns are in AnyPeer.)
NetdevInLiveTunnel == Undisturbed => NetdevInTunnel

\* Two netdevs are connected to each other exactly when they belong to the
\* same pseudowire, and then each sends the cookie the other one expects;
\* also with a netdev left behind by a crash, and with session IDs that mean
\* something else at the other end.
CrossConnected ==
    \A s \in SessionsOf(1), t \in SessionsOf(2) :
        HasNetdev(1, s) /\ HasNetdev(2, t) =>
            LET a == Netdev(1, s)
                b == Netdev(2, t)
            IN  /\ <<s, t>> \in Pseudowires <=> a.remote_sid = t
                /\ <<s, t>> \in Pseudowires <=> b.remote_sid = s
                /\ <<s, t>> \in Pseudowires =>
                     a.cookie = b.peer_cookie /\ a.peer_cookie = b.cookie

\* Both ends run, nothing is under way, and everything sent is acknowledged:
\* only a HELLO timer or the operator can make something happen.
Settled ==
    \A e \in Ends :
        status[e] = "up" /\ net[e] = <<>> /\ tn[e].peer.send_queue = <<>>

\* Once everything is acknowledged, no end still waits for a handshake message
\* of the other: an SCCRQ or SCCRP that receive() has acknowledged is acted
\* upon (there is no timeout that would end the waiting).
NobodyWaitsInVain ==
    Settled => \A e \in Ends : tn[e].fsm \notin {"WAIT_CTL_REPLY", "WAIT_CTL_CONN"}

\* Moreover, while no process ended, the ends agree whether the tunnel is up.
SettledTunnelsAgree ==
    OneLifetime /\ Settled =>
        /\ NobodyWaitsInVain
        /\ tn[1].fsm = "ESTABLISHED" <=> tn[2].fsm = "ESTABLISHED"

\* Once everything is acknowledged, no session waits for a handshake message
\* and the ends agree whether it is up: a session message that receive() has
\* acknowledged has reached its SessionFSM.
SettledSessionsAgree ==
    Settled =>
        /\ \A e \in Ends : \A sid \in SessionsOf(e) :
             tn[e].sess[sid].state \notin {"WAIT_SESSION_REPLY", "WAIT_SESSION_CONNECT"}
        /\ \A pw \in Pseudowires : SessionUp(1, pw[1]) <=> SessionUp(2, pw[2])

\* A tunnel is given up (tick() finds the peer dead) only if the network
\* failed, an answer was late, or a process ended.
DeadOnlyAfterFault ==
    used.faults + used.early + used.stops + used.crashes = 0
        => \A e \in Ends : status[e] # "removed"

\* The tunnel comes up at both ends and stays up, if both start within the
\* retry budget of the other (Quiet).
TunnelComesUp == <>[](\A e \in Ends : tn[e].fsm = "ESTABLISHED")

\* Unless the operator closes one, all sessions come up and stay up.
SessionsComeUp ==
    [](used.closes = 0) =>
        <>[](\A e \in Ends : \A sid \in SessionsOf(e) : SessionUp(e, sid))

-----------------------------------------------------------------------------
(* The handshake, as long as no process has ended: which messages an end   *)
(* can have sent, taken and had acknowledged in which state.  This is the  *)
(* invariant behind SettledTunnelsAgree and NetdevInLiveTunnel.            *)

Opens(e) == e \in Openers
Sent(e)  == tn[e].peer.ns_send
Taken(e) == tn[e].peer.nr_expect

\* The sequence numbers are far from their end: whatever the next step of an
\* end is, its Ns does not wrap around.
Unwrapped == \A e \in Ends : Sent(e) + Len(Config[e].order) + 1 < Modulus

\* The types that the message with number n of end e can have.
Kinds(e, n) ==
    IF Opens(e)
    THEN IF n = 0 THEN {"SCCRQ"}
         ELSE IF Opens(Other(e)) THEN {"StopCCN"}
         ELSE IF n = 1 THEN {"SCCCN"}
         ELSE Late
    ELSE IF n = 0 THEN {"SCCRP"} ELSE Late

Known(e, n, body) ==
    n \in 0 .. Sent(e) - 1 /\ {"t", "ok"} \subseteq DOMAIN body /\ body.ok /\ body.t \in Kinds(e, n)

\* How many messages an end that was started has sent, by how many it took.
Numbers(e) ==
    IF Opens(e)
    THEN IF Taken(e) = 0 THEN Sent(e) = 1
         ELSE IF Opens(Other(e)) THEN Sent(e) = 2 ELSE Sent(e) >= 2
    ELSE IF Taken(e) = 0 THEN Sent(e) = 0 ELSE Opens(Other(e)) /\ Sent(e) >= 1

\* The states of an end that runs, by how many messages it took.
Reached(e) ==
    IF Opens(e)
    THEN IF Taken(e) = 0 THEN {"WAIT_CTL_REPLY"}
         ELSE IF Opens(Other(e)) THEN {"SEND_STOPCCN", "IDLE"}
         ELSE {"ESTABLISHED"}
    ELSE IF Taken(e) = 0 THEN {"IDLE"}
         ELSE IF Taken(e) = 1 THEN {"WAIT_CTL_CONN"}
         ELSE {"ESTABLISHED"}

Phase(e) ==
    /\ status[e] = "off" => Sent(e) = 0 /\ Taken(e) = 0
    /\ status[e] # "off" => Numbers(e)
    /\ tn[e].fsm \in IF status[e] = "up" THEN Reached(e) ELSE {"IDLE"}

\* An end gets ahead of the handshake's first message only with the other one.
InStep(e) ==
    \/ tn[e].fsm = "ESTABLISHED"
    \/ Sent(e) >= 2 /\ ~(Opens(e) /\ Opens(Other(e)))
    => Taken(Other(e)) >= 1

\* A session leaves IDLE only in an ESTABLISHED tunnel.
SessionsInTunnel(e) ==
    \A sid \in SessionsOf(e) :
        tn[e].sess[sid].state # "IDLE" => tn[e].fsm = "ESTABLISHED"

\* What is queued at e, under way from it or buffered at the other end is what
\* e has sent, and acknowledges no more than e has taken.
Traffic(e) ==
    /\ \A i \in DOMAIN tn[e].peer.send_queue :
         LET x == tn[e].peer.send_queue[i] IN Known(e, x.ns, x.body)
    /\ \A i \in DOMAIN net[Other(e)] :
         LET m == net[Other(e)][i].msg
         IN  m.nr \in 0 .. Taken(e) /\ (m.body # Zlb => Known(e, m.ns, m.body))
    /\ \A n \in SeqNum : tn[Other(e)].peer.reorder[n] # NoMsg => n < Sent(e)

\* A handshake message that is no longer queued has been taken.
HandshakeAcked(e) ==
    \A n \in {0, 1} :
        n < Sent(e) /\ (\A i \in DOMAIN tn[e].peer.send_queue : tn[e].peer.send_queue[i].ns # n)
            => n < Taken(Other(e))

\* Both ends' handshake at every moment of it, whatever the network loses,
\* repeats or lets overtake.  The state that TunnelFSM has reached agrees with
\* the number of messages that its Peer has taken and sent; an end is ahead of
\* its first message only after the other one took that; no SessionFSM leaves
\* IDLE in a tunnel that is not ESTABLISHED; nothing is queued, under way or
\* buffered that its sender did not send, of a type that fits its number; and
\* Peer._consume_acks drops SCCRQ, SCCRP and SCCCN from the queue only once
\* the other end has taken them.
Handshake ==
    OneLifetime =>
        \A e \in Ends :
            Phase(e) /\ InStep(e) /\ SessionsInTunnel(e) /\ Traffic(e) /\ HandshakeAcked(e)
=============================================================================
