-------------------------------- MODULE Peer --------------------------------
(***************************************************************************)
(* transport.Peer: the reliable-delivery layer of one control connection.  *)
(*                                                                         *)
(* Each method of the class is an operator from the Peer's record to the   *)
(* record after the call; what the call returns to the caller is a second  *)
(* operator of the same arguments.  The record has one field per attribute *)
(* that changes.  A message body (its AVP list) is opaque here: the        *)
(* modules that use Peer choose it.                                        *)
(*                                                                         *)
(* Clock values are abstracted: tick() is given the set of queue positions *)
(* whose retransmission timer has expired, and the caller chooses that set *)
(* freely, which covers every clock and every back-off schedule.           *)
(***************************************************************************)
EXTENDS SeqArith, Sequences

CONSTANTS
    ReceiveWindow,  \* receive_window
    MaxRetries,     \* max_retries
    Zlb,            \* the body of a ZLB: no AVPs
    NoMsg           \* what a slot of the reorder buffer holds when empty

\* config.py admits receive windows of 1..1024 and at least one retry.
ASSUME PeerAssumption ==
    /\ ReceiveWindow \in Nat \ {0}
    /\ ReceiveWindow < Half
    /\ MaxRetries \in Nat \ {0}

\* Peer.__init__.  _reorder is a dictionary keyed by Ns: a total function on
\* the sequence numbers with NoMsg for the absent keys.
NewPeer(local, remote) ==
    [ local_ccid  |-> local,
      remote_ccid |-> remote,
      ns_send     |-> 0,
      nr_expect   |-> 0,
      send_queue  |-> <<>>,
      reorder     |-> [ns \in SeqNum |-> NoMsg],
      dead        |-> FALSE ]

-----------------------------------------------------------------------------
(* Sending *)

\* The message send() returns for transmission.
stamped(p, body) ==
    [ccid |-> p.remote_ccid, ns |-> p.ns_send, nr |-> p.nr_expect, body |-> body]

\* _PendingSend.  The stored Nr is refreshed on every retransmission and
\* never read before that, so it is not kept.
Pending(p, body) ==
    [ccid |-> p.remote_ccid, ns |-> p.ns_send, body |-> body, retries |-> 0]

\* send()
send(p, body) ==
    [p EXCEPT !.send_queue = Append(@, Pending(p, body)),
              !.ns_send    = seq_advance(@, 1)]

\* send() for each of several messages: the k-th one gets the k-th number.
stamped_at(p, bodies, k) ==
    [stamped(p, bodies[k]) EXCEPT !.ns = seq_advance(p.ns_send, k - 1)]

send_all(p, bodies) ==
    [p EXCEPT !.send_queue = @ \o [k \in DOMAIN bodies |->
                    [Pending(p, bodies[k]) EXCEPT !.ns = seq_advance(p.ns_send, k - 1)]],
              !.ns_send    = seq_advance(@, Len(bodies))]

\* Mutant: the ZLB acknowledges one message too many.
ack_only_ahead(p) == [stamped(p, Zlb) EXCEPT !.nr = seq_advance(@, 1)]

\* ack_only(): carries the next Ns without consuming it.
ack_only(p) == stamped(p, Zlb)

-----------------------------------------------------------------------------
(* Receiving *)

\* Mutant: >= for >, the expected message counts as acknowledged.
AckedCount_inclusive(p, nr) ==
    LET Acked(i) == seq_delta(nr, p.send_queue[i].ns) >= 0
    IN  CHOOSE k \in 0 .. Len(p.send_queue) :
            /\ \A i \in 1 .. k : Acked(i)
            /\ k < Len(p.send_queue) => ~Acked(k + 1)

\* How many messages at the head of the send queue an Nr acknowledges: the
\* loop of _consume_acks stops at the first one that is not.
AckedCount(p, nr) ==
    LET Acked(i) == seq_delta(nr, p.send_queue[i].ns) > 0
    IN  CHOOSE k \in 0 .. Len(p.send_queue) :
            /\ \A i \in 1 .. k : Acked(i)
            /\ k < Len(p.send_queue) => ~Acked(k + 1)

\* _consume_acks()
consume_acks(p, nr) ==
    [p EXCEPT !.send_queue =
        SubSeq(p.send_queue, AckedCount(p, nr) + 1, Len(p.send_queue))]

\* The number of messages that become deliverable when the expected one
\* arrives: itself and the run of buffered successors the while loop drains.
RunLength(p) ==
    CHOOSE k \in 1 .. Modulus :
        /\ \A j \in 1 .. k - 1 : p.reorder[seq_advance(p.nr_expect, j)] # NoMsg
        /\ p.reorder[seq_advance(p.nr_expect, k)] = NoMsg

\* Their bodies, in Ns order.
Run(p, body) ==
    [i \in 1 .. RunLength(p) |->
        IF i = 1 THEN body ELSE p.reorder[seq_advance(p.nr_expect, i - 1)]]

\* Mutants: the buffered messages are read but not popped; the number is
\* advanced for the arriving message only.
AcceptRun_without_pop(p) ==
    [p EXCEPT !.nr_expect = seq_advance(@, RunLength(p))]

AcceptRun_advance_one(p) ==
    [p EXCEPT !.nr_expect = seq_advance(@, 1)]

\* The in-order branch of receive(): advance past the run, empty its slots.
AcceptRun(p) ==
    [p EXCEPT
        !.nr_expect = seq_advance(@, RunLength(p)),
        !.reorder   = [ns \in SeqNum |->
            IF \E j \in 1 .. RunLength(p) - 1 : ns = seq_advance(p.nr_expect, j)
            THEN NoMsg
            ELSE p.reorder[ns]]]

\* Messages for another control connection are rejected before anything else.
Addressed(p, msg) == msg.ccid \in {0, p.local_ccid}

\* Mutant: <= for =, a duplicate is delivered again.
InOrder_or_duplicate(p, msg) == msg.body # Zlb /\ seq_delta(msg.ns, p.nr_expect) <= 0

InOrder(p, msg)   == msg.body # Zlb /\ seq_delta(msg.ns, p.nr_expect) = 0
Duplicate(p, msg) == msg.body # Zlb /\ seq_delta(msg.ns, p.nr_expect) < 0
Ahead(p, msg)     == msg.body # Zlb
                     /\ seq_delta(msg.ns, p.nr_expect) \in 1 .. ReceiveWindow

\* receive(): the acknowledgement first, whatever the message is; then the
\* body is delivered, or buffered, or (duplicates, ZLBs, beyond the window)
\* changes nothing.
receive(p, msg) ==
    LET q == consume_acks(p, msg.nr)
    IN  IF ~Addressed(p, msg)   THEN p
        ELSE IF InOrder(q, msg) THEN AcceptRun(q)
        ELSE IF Ahead(q, msg)   THEN [q EXCEPT !.reorder[msg.ns] = msg.body]
        ELSE q

\* The bodies receive() hands to the caller.
delivered(p, msg) ==
    IF Addressed(p, msg) /\ InOrder(p, msg) THEN Run(p, msg.body) ELSE <<>>

\* Mutant: no acknowledgement but the one on the next message.
responses_piggyback_only(p, msg) == {}

\* The messages receive() asks the caller to transmit: a ZLB for what was
\* accepted and for a duplicate, nothing for a message that was buffered.
responses(p, msg) ==
    IF Addressed(p, msg) /\ (InOrder(p, msg) \/ Duplicate(p, msg))
    THEN {ack_only(receive(p, msg))}
    ELSE {}

-----------------------------------------------------------------------------
(* Retransmitting *)

\* The sets of queue positions that one tick() can find expired.  All
\* messages have the same schedule of intervals and are queued in the order
\* of sending, so a message is never further on in it than an earlier one.
Expiries(p) ==
    {expired \in SUBSET (1 .. Len(p.send_queue)) \ {{}} :
        \A j \in expired : \A i \in 1 .. j - 1 :
            i \in expired \/ p.send_queue[i].retries > p.send_queue[j].retries}

\* Mutant: >= for >, one retransmission too few.
Exhausted_early(p, expired) ==
    {i \in expired : p.send_queue[i].retries + 1 >= MaxRetries}

\* Queue positions whose budget this expiry exhausts.
Exhausted(p, expired) ==
    {i \in expired : p.send_queue[i].retries + 1 > MaxRetries}

\* Mutant: the retries are not counted.
tick_uncounted(p, expired) == [p EXCEPT !.dead = @ \/ Exhausted(p, expired) # {}]

\* tick(): every expired message counts one more retry, up to and including
\* the first whose budget is exhausted, where the loop returns.
tick(p, expired) ==
    LET out        == Exhausted(p, expired)
        Counted(i) == i \in expired /\ \A j \in out : i <= j
    IN  IF p.dead THEN p
        ELSE [p EXCEPT
            !.dead       = out # {},
            !.send_queue = [i \in 1 .. Len(p.send_queue) |->
                IF Counted(i)
                THEN [p.send_queue[i] EXCEPT !.retries = @ + 1]
                ELSE p.send_queue[i]]]

\* The queue positions whose messages tick() returns: none when the peer is
\* declared dead, not even those of the messages before the exhausted one.
Resent(p, expired) ==
    IF p.dead \/ Exhausted(p, expired) # {} THEN {} ELSE expired

\* The message at position i, its Nr refreshed.
resend(p, i) ==
    [ccid |-> p.send_queue[i].ccid, ns |-> p.send_queue[i].ns,
     nr |-> p.nr_expect, body |-> p.send_queue[i].body]

\* The datagrams tick() returns.
resends(p, expired) == {resend(p, i) : i \in Resent(p, expired)}
=============================================================================
