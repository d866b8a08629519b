-------------------------- MODULE ReliableChannel --------------------------
(***************************************************************************)
(* Two transport.Peer objects that exchange control messages over a        *)
(* datagram network that loses, duplicates, delays and reorders.           *)
(*                                                                         *)
(* The caller of a Peer is reduced to what tests and Tunnel do with it:    *)
(* transmit what send() returns, feed every datagram to receive() and      *)
(* transmit its responses, call tick() and transmit the retransmissions.   *)
(*                                                                         *)
(* The body of the n-th message an end sends is the number n (from 0), so  *)
(* that a delivery can be compared with what was sent.  Sequence numbers   *)
(* wrap, hence safety needs two facts about the environment, which are the *)
(* named bounds MaxOutstanding and MaxAge: see the README.                 *)
(***************************************************************************)
EXTENDS Peer, FiniteSets

CONSTANTS
    MaxSent,        \* bound: how many messages each end sends, in one of
                    \*   these functions
    MaxOutstanding, \* bound: unacknowledged messages of one end
    MaxAge,         \* bound: a datagram is gone once an end has sent this
                    \*   many messages since
    MaxInFlight     \* bound: datagrams in the network

Ends == {1, 2}

\* The environment leaves the sequence space room enough for the half-window
\* comparison: 65536 in the code, where an end sends a few dozen messages.
ASSUME ChannelAssumption ==
    /\ MaxSent \subseteq [Ends -> Nat]
    /\ MaxOutstanding \in Nat
    /\ MaxAge \in Nat
    /\ MaxOutstanding <= MaxAge
    /\ MaxOutstanding < Half
    /\ MaxAge <= Half
    /\ MaxInFlight \in Nat
    /\ Zlb \notin Nat
    /\ NoMsg \notin Nat

VARIABLES
    peer,   \* peer[e]: the Peer of end e
    net,    \* datagrams in the network, with their destination
    sent,   \* history: how many messages e has sent
    got     \* history: the bodies delivered to the application of e, in order

vars == <<peer, net, sent, got>>

Other(e) == 3 - e

\* Both ends are configured with the other's control connection ID.
Init ==
    /\ peer = [e \in Ends |-> NewPeer(e, Other(e))]
    /\ net  = {}
    /\ sent = [e \in Ends |-> 0]
    /\ got  = [e \in Ends |-> <<>>]

\* A datagram to f: the message and, for its age, the full count behind the
\* Nr it carries.
Datagram(f, msg, ack) == [dst |-> f, msg |-> msg, ack |-> ack]

\* A datagram is young while neither end has moved on too far since the
\* numbers it carries were current.
Young(d, counts) ==
    /\ counts[d.dst] - d.ack <= MaxAge
    /\ d.msg.body # Zlb => counts[Other(d.dst)] - d.msg.body <= MaxAge

\* The caller of e transmits msgs: the network keeps any of them it has room
\* for and loses the others; what has grown too old is gone.
Transmit(e, msgs) ==
    LET old == {d \in net : Young(d, sent')}
        new == {Datagram(Other(e), m, Len(got'[e])) : m \in msgs}
    IN  \E kept \in SUBSET new :
            /\ Cardinality(old \cup kept) <= MaxInFlight
            /\ net' = old \cup kept

-----------------------------------------------------------------------------
(* The application of e sends a message (Tunnel._send). *)
Send(e) ==
    /\ Len(peer[e].send_queue) < MaxOutstanding
    /\ sent' = [sent EXCEPT ![e] = @ + 1]
    /\ \E max \in MaxSent : \A f \in Ends : sent'[f] <= max[f]
    /\ peer' = [peer EXCEPT ![e] = send(peer[e], sent[e])]
    /\ got'  = got
    /\ Transmit(e, {stamped(peer[e], sent[e])})

(* A datagram arrives; it stays in the network, which may deliver it again. *)
Receive(e) ==
    \E d \in net :
        /\ d.dst = e
        /\ peer' = [peer EXCEPT ![e] = receive(peer[e], d.msg)]
        /\ sent' = sent
        /\ got'  = [got EXCEPT ![e] = @ \o delivered(peer[e], d.msg)]
        /\ Transmit(e, responses(peer[e], d.msg))

(* The retransmission timers of some unacknowledged messages have expired. *)
Tick(e) ==
    \E expired \in SUBSET (1 .. Len(peer[e].send_queue)) :
        /\ expired # {}
        /\ peer' = [peer EXCEPT ![e] = tick(peer[e], expired)]
        /\ sent' = sent
        /\ got'  = got
        /\ Transmit(e, resends(peer[e], expired))

(* The network loses a datagram, or the last copy of it is gone. *)
Lose ==
    \E d \in net :
        /\ net' = net \ {d}
        /\ UNCHANGED <<peer, sent, got>>

Next ==
    \/ \E e \in Ends : Send(e)
    \/ \E e \in Ends : Receive(e)
    \/ \E e \in Ends : Tick(e)
    \/ Lose

Spec == Init /\ [][Next]_vars

\* The tick loop runs for ever and every timer expires in finite time
\* (Daemon._tick_loop); nothing is assumed of the network.
Fairness == \A e \in Ends : WF_vars(Tick(e))

FairSpec == Spec /\ Fairness

-----------------------------------------------------------------------------
(* Properties *)

\* How many messages of e its peer has acknowledged.
Acked(e) == sent[e] - Len(peer[e].send_queue)

PendingType == [ccid : Ends, ns : SeqNum, body : Nat, retries : 0 .. MaxRetries + 1]

PeerType ==
    [ local_ccid  : Ends,
      remote_ccid : Ends,
      ns_send     : SeqNum,
      nr_expect   : SeqNum,
      send_queue  : Seq(PendingType),
      reorder     : [SeqNum -> Nat \cup {NoMsg}],
      dead        : BOOLEAN ]

MessageType == [ccid : Ends, ns : SeqNum, nr : SeqNum, body : Nat \cup {Zlb}]

\* Every variable holds what the code's attribute can hold: 16-bit sequence
\* numbers, a retry count that stops at the budget, a buffer keyed by Ns.
TypeOK ==
    /\ peer \in [Ends -> PeerType]
    /\ net \subseteq [dst : Ends, msg : MessageType, ack : Nat]
    /\ sent \in [Ends -> Nat]
    /\ got \in [Ends -> Seq(Nat)]

\* What receive() delivers to the application of an end is exactly what the
\* other end sent, each message once and in the order of sending, whatever
\* the network does and however often the sequence numbers wrap
\* (transport.py:28-38).
ExactlyOnceInOrder ==
    \A e \in Ends :
        /\ Len(got[e]) <= sent[Other(e)]
        /\ \A i \in 1 .. Len(got[e]) : got[e][i] = i - 1

\* A message that has not been delivered is still in its sender's send
\* queue: _consume_acks never drops one on an old, repeated or wrapped Nr.
NothingForgotten ==
    \A e \in Ends : \A n \in Len(got[Other(e)]) .. sent[e] - 1 :
        \E i \in 1 .. Len(peer[e].send_queue) : peer[e].send_queue[i].body = n

\* A slot of the reorder buffer is ahead of the expected number, inside the
\* window, and holds the message that belongs there: the drain loop of
\* receive() can neither skip a message nor pick up a left-over of an earlier
\* turn of the sequence numbers.
BufferInWindow ==
    \A e \in Ends, ns \in SeqNum :
        LET ahead == seq_delta(ns, peer[e].nr_expect)
        IN  peer[e].reorder[ns] # NoMsg =>
                /\ ahead \in 1 .. ReceiveWindow
                /\ peer[e].reorder[ns] = Len(got[e]) + ahead

\* The inductive strengthening of the three properties above: the 16-bit
\* numbers are the full counts reduced modulo the width, a queue holds the
\* messages from the first unacknowledged one on, and no datagram is too old.

\* The send queue q to the end f starts with message number a.
QueueShape(q, a, f) ==
    \A i \in 1 .. Len(q) :
        /\ q[i].ccid = f
        /\ q[i].body = a + i - 1
        /\ q[i].ns = (a + i - 1) % Modulus

\* The reorder buffer of an end that has taken r of the sf messages sent to it.
BufferShape(buf, r, sf) ==
    \A ns \in SeqNum :
        buf[ns] # NoMsg =>
            /\ buf[ns] \in r + 1 .. r + ReceiveWindow
            /\ buf[ns] < sf
            /\ ns = buf[ns] % Modulus

\* The Peer p of end e, which has sent s messages of which the other end has
\* taken rf, and has itself taken r of the other's sf.
PeerShape(p, e, s, r, rf, sf) ==
    /\ p \in PeerType
    /\ p.local_ccid = e
    /\ p.remote_ccid = Other(e)
    /\ p.ns_send = s % Modulus
    /\ p.nr_expect = r % Modulus
    /\ Len(p.send_queue) <= MaxOutstanding
    /\ 0 <= s - Len(p.send_queue)
    /\ s - Len(p.send_queue) <= rf
    /\ rf <= s
    /\ QueueShape(p.send_queue, s - Len(p.send_queue), Other(e))
    /\ ~p.dead => \A i \in 1 .. Len(p.send_queue) : p.send_queue[i].retries <= MaxRetries
    /\ BufferShape(p.reorder, r, sf)

PeerInv(e) ==
    PeerShape(peer[e], e, sent[e], Len(got[e]), Len(got[Other(e)]), sent[Other(e)])

HistoryInv(e) == \A i \in 1 .. Len(got[e]) : got[e][i] = i - 1

DatagramInv(d) ==
    /\ d.msg.ccid = d.dst
    /\ d.msg.nr = d.ack % Modulus
    /\ d.ack <= Len(got[Other(d.dst)])
    /\ sent[d.dst] - d.ack <= MaxAge
    /\ d.msg.body # Zlb =>
         /\ d.msg.ns = d.msg.body % Modulus
         /\ d.msg.body < sent[Other(d.dst)]
         /\ sent[Other(d.dst)] - d.msg.body <= MaxAge

\* Full counts and 16-bit numbers agree everywhere: in both Peers and in
\* every datagram under way.
IndInv ==
    /\ TypeOK
    /\ \A e \in Ends : PeerInv(e) /\ HistoryInv(e)
    /\ \A d \in net : DatagramInv(d)

\* No message stays unacknowledged for ever: the queue empties or the peer is
\* declared dead (tick()).
EventuallySettled ==
    \A e \in Ends :
        peer[e].send_queue # <<>> ~> (peer[e].send_queue = <<>> \/ peer[e].dead)

\* What the channel promises to its users, and the state that maps to it.
Fifo == INSTANCE FifoChannel WITH
    sent  <- sent,
    taken <- [e \in Ends |-> got[Other(e)]],
    acked <- [e \in Ends |-> Acked(e)]

\* The two Peers implement the abstract FIFO channel (FifoChannel).
ImplementsFifo == Fifo!Spec
=============================================================================
