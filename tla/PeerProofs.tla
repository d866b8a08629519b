----------------------------- MODULE PeerProofs -----------------------------
(***************************************************************************)
(* What every method of transport.Peer preserves, whatever message it is   *)
(* given: no assumption is made on the peer at the other end.  (What two   *)
(* Peers achieve together is in ReliableChannelProofs.)                    *)
(***************************************************************************)
EXTENDS Peer, SeqArithProofs, SequenceTheorems, WellFoundedInduction

\* The attributes of a Peer.
PeerFields ==
    {"local_ccid", "remote_ccid", "ns_send", "nr_expect", "send_queue", "reorder", "dead"}

\* A send queue in which no message has been retried more than max times.
QueueOK(q, max) ==
    \E S : /\ q \in Seq(S)
           /\ \A x \in S : "retries" \in DOMAIN x /\ x.retries \in 0 .. max

\* The numbers of a Peer are in range, the slot of the message it expects next
\* is free (so that the drain loop of receive() ends), and the budget of a
\* message is exceeded, by one, only by a dead Peer.
PeerOK(p) ==
    /\ DOMAIN p = PeerFields
    /\ p.ns_send \in SeqNum
    /\ p.nr_expect \in SeqNum
    /\ DOMAIN p.reorder = SeqNum
    /\ p.reorder[p.nr_expect] = NoMsg
    /\ p.dead \in BOOLEAN
    /\ QueueOK(p.send_queue, IF p.dead THEN MaxRetries + 1 ELSE MaxRetries)

-----------------------------------------------------------------------------
\* A set of natural numbers has a least element; used for the loops of
\* receive() and _consume_acks, which stop at the first slot or message that
\* fails a test.
LEMMA SmallestExists ==
  ASSUME NEW T, T \subseteq Nat, T # {}
  PROVE  \E x \in T : \A y \in T : x <= y
<1>1. PICK x \in T : \A y \in T : ~(<<y, x>> \in OpToRel(<, Nat))
  BY WFMin, NatLessThanWellFounded
<1>2. \A y \in T : ~(y < x)
  BY <1>1 DEF OpToRel
<1>3. \A y \in T : x <= y
  BY <1>2
<1> QED BY <1>3

\* The mask of seq_advance leaves a 16-bit number.
LEMMA AdvanceType ==
  ASSUME NEW s \in SeqNum, NEW by \in Int
  PROVE  seq_advance(s, by) \in SeqNum
  BY ModulusAssumption, DivisionExists DEF SeqNum, seq_advance

\* A Peer starts in order.
LEMMA NewPeerOK ==
  ASSUME NEW l, NEW r
  PROVE  PeerOK(NewPeer(l, r)) /\ ~NewPeer(l, r).dead
<1> DEFINE p == NewPeer(l, r)
<1>1. 0 \in SeqNum
  BY ModulusAssumption DEF SeqNum
<1>2. QueueOK(<<>>, MaxRetries)
  <2>1. PICK S : S = {}
    OBVIOUS
  <2>2. <<>> \in Seq(S)
    BY EmptySeq
  <2>3. \A x \in S : "retries" \in DOMAIN x /\ x.retries \in 0 .. MaxRetries
    BY <2>1
  <2> QED BY <2>2, <2>3 DEF QueueOK
<1> QED BY <1>1, <1>2 DEF NewPeer, PeerOK, PeerFields

\* A message is queued with a fresh budget.
LEMMA QueueGrows ==
  ASSUME NEW q, NEW r, NEW T, NEW max \in Nat, QueueOK(q, max), r \in Seq(T),
         \A x \in T : "retries" \in DOMAIN x /\ x.retries = 0
  PROVE  QueueOK(q \o r, max)
<1>1. PICK S : /\ q \in Seq(S)
               /\ \A x \in S : "retries" \in DOMAIN x /\ x.retries \in 0 .. max
  BY DEF QueueOK
<1>2. q \in Seq(S \cup T) /\ r \in Seq(S \cup T)
  BY <1>1
<1>3. q \o r \in Seq(S \cup T)
  BY <1>2, ConcatProperties
<1>4. \A x \in S \cup T : "retries" \in DOMAIN x /\ x.retries \in 0 .. max
  BY <1>1
<1> QED BY <1>3, <1>4 DEF QueueOK

\* The retry budget of a Peer as PeerOK states it.
LEMMA BudgetType ==
  ASSUME NEW p, PeerOK(p)
  PROVE  (IF p.dead THEN MaxRetries + 1 ELSE MaxRetries) \in Nat
  BY PeerAssumption DEF PeerOK

\* send() keeps a Peer in order.
LEMMA SendOK ==
  ASSUME NEW p, PeerOK(p), NEW body
  PROVE  PeerOK(send(p, body)) /\ send(p, body).dead = p.dead
<1> DEFINE x == Pending(p, body)
           max == IF p.dead THEN MaxRetries + 1 ELSE MaxRetries
<1>1. "retries" \in DOMAIN x /\ x.retries = 0
  BY DEF Pending
<1>2. <<x>> \in Seq({x})
  OBVIOUS
<1>3. \E S : p.send_queue \in Seq(S)
  BY DEF PeerOK, QueueOK
<1>4. Append(p.send_queue, x) = p.send_queue \o <<x>>
  BY <1>3, AppendIsConcat
<1> HIDE DEF x
<1>5. QueueOK(Append(p.send_queue, x), max)
  BY <1>1, <1>2, <1>4, BudgetType, QueueGrows DEF PeerOK
<1>6. seq_advance(p.ns_send, 1) \in SeqNum
  BY AdvanceType DEF PeerOK
<1> QED BY <1>5, <1>6 DEF send, PeerOK, PeerFields, x

\* So does sending several messages.
LEMMA SendAllOK ==
  ASSUME NEW p, PeerOK(p), NEW n \in Nat, NEW bodies, DOMAIN bodies = 1 .. n,
         Len(bodies) \in Nat
  PROVE  PeerOK(send_all(p, bodies)) /\ send_all(p, bodies).dead = p.dead
<1> DEFINE x(k) == [Pending(p, bodies[k]) EXCEPT !.ns = seq_advance(p.ns_send, k - 1)]
           r == [k \in DOMAIN bodies |-> x(k)]
           T == {x(k) : k \in DOMAIN bodies}
           max == IF p.dead THEN MaxRetries + 1 ELSE MaxRetries
<1>1. \A y \in T : "retries" \in DOMAIN y /\ y.retries = 0
  BY DEF Pending
<1>2. r \in Seq(T)
  <2>1. r \in [1 .. n -> T]
    OBVIOUS
  <2> HIDE DEF r, T
  <2> QED BY <2>1, SeqDef
<1> HIDE DEF T
<1>3. QueueOK(p.send_queue \o r, max)
  BY <1>1, <1>2, BudgetType, QueueGrows DEF PeerOK
<1>4. seq_advance(p.ns_send, Len(bodies)) \in SeqNum
  BY AdvanceType DEF PeerOK
<1> HIDE DEF r
<1>5. send_all(p, bodies) = [p EXCEPT !.send_queue = @ \o r,
                                      !.ns_send = seq_advance(@, Len(bodies))]
  BY DEF send_all, r
<1> QED BY <1>3, <1>4, <1>5 DEF PeerOK, PeerFields

-----------------------------------------------------------------------------
\* _consume_acks drops a number of messages at the head of the queue.
LEMMA ConsumeOK ==
  ASSUME NEW p, PeerOK(p), NEW nr
  PROVE  /\ PeerOK(consume_acks(p, nr))
         /\ consume_acks(p, nr).dead = p.dead
         /\ consume_acks(p, nr).nr_expect = p.nr_expect
         /\ consume_acks(p, nr).reorder = p.reorder
         /\ consume_acks(p, nr).local_ccid = p.local_ccid
<1> DEFINE q == p.send_queue
           max == IF p.dead THEN MaxRetries + 1 ELSE MaxRetries
           Acked(i) == seq_delta(nr, q[i].ns) > 0
           P(k) == /\ \A i \in 1 .. k : Acked(i)
                   /\ k < Len(q) => ~Acked(k + 1)
           Stops == {k \in 0 .. Len(q) : k < Len(q) => ~Acked(k + 1)}
<1>1. PICK S : /\ q \in Seq(S)
               /\ \A x \in S : "retries" \in DOMAIN x /\ x.retries \in 0 .. max
  BY DEF PeerOK, QueueOK
<1>2. Len(q) \in Nat
  BY <1>1, LenProperties
<1>3. \E k \in 0 .. Len(q) : P(k)
  <2> HIDE DEF Acked
  <2>1. Stops \subseteq Nat /\ Len(q) \in Stops
    BY <1>2
  <2>2. PICK k \in Stops : \A j \in Stops : k <= j
    BY <2>1, SmallestExists
  <2>3. \A i \in 1 .. k : Acked(i)
    <3> SUFFICES ASSUME NEW i \in 1 .. k, ~Acked(i) PROVE FALSE
      OBVIOUS
    <3>1. i - 1 \in Stops /\ i \in Int /\ i <= k
      BY <1>2, <2>1
    <3>2. k <= i - 1
      BY <2>2, <3>1
    <3> QED BY <2>1, <3>1, <3>2
  <2> QED BY <2>2, <2>3
<1>4. AckedCount(p, nr) = CHOOSE k \in 0 .. Len(q) : P(k)
  BY DEF AckedCount
<1> HIDE DEF P
<1>5. AckedCount(p, nr) \in 0 .. Len(q)
  BY <1>3, <1>4
<1> DEFINE rest == SubSeq(q, AckedCount(p, nr) + 1, Len(q))
<1>6. rest \in Seq(S)
  BY <1>1, <1>2, <1>5, SubSeqProperties
<1> HIDE DEF rest
<1>7. QueueOK(rest, max)
  BY <1>1, <1>6 DEF QueueOK
<1>8. consume_acks(p, nr) = [p EXCEPT !.send_queue = rest]
  BY DEF consume_acks, rest
<1> QED BY <1>7, <1>8 DEF PeerOK, PeerFields

\* The drain loop of receive() ends, at the latest when it has been round the
\* whole number space, and the next slot is free.
LEMMA RunOK ==
  ASSUME NEW p, PeerOK(p)
  PROVE  /\ RunLength(p) \in 1 .. Modulus
         /\ p.reorder[seq_advance(p.nr_expect, RunLength(p))] = NoMsg
<1> DEFINE Free(j) == p.reorder[seq_advance(p.nr_expect, j)] = NoMsg
           P(k) == /\ \A j \in 1 .. k - 1 : ~Free(j)
                   /\ Free(k)
           Slots == {k \in 1 .. Modulus : Free(k)}
<1>1. seq_advance(p.nr_expect, Modulus) = p.nr_expect
  <2>1. p.nr_expect + Modulus = Modulus * 1 + p.nr_expect
    BY ModulusAssumption DEF PeerOK, SeqNum
  <2>2. p.nr_expect + Modulus \in Int
    BY ModulusAssumption DEF PeerOK, SeqNum
  <2> QED BY <2>1, <2>2, DivisionUnique DEF PeerOK, seq_advance
<1>2. Free(Modulus)
  BY <1>1 DEF PeerOK
<1> HIDE DEF Free
<1>3. \E k \in 1 .. Modulus : P(k)
  <2>1. Slots \subseteq Nat /\ Modulus \in Slots
    BY <1>2, ModulusAssumption
  <2>2. PICK k \in Slots : \A j \in Slots : k <= j
    BY <2>1, SmallestExists
  <2>3. \A j \in 1 .. k - 1 : ~Free(j)
    <3> SUFFICES ASSUME NEW j \in 1 .. k - 1, Free(j) PROVE FALSE
      OBVIOUS
    <3>1. j \in Slots
      BY ModulusAssumption
    <3> QED BY <2>1, <2>2, <3>1
  <2> QED BY <2>2, <2>3
<1>4. RunLength(p) = CHOOSE k \in 1 .. Modulus : P(k)
  BY DEF RunLength, Free
<1> HIDE DEF P
<1>5. RunLength(p) \in 1 .. Modulus /\ P(RunLength(p))
  BY <1>3, <1>4
<1> QED BY <1>5 DEF P, Free

\* Taking the expected message, and those buffered behind it, keeps a Peer in
\* order.
LEMMA AcceptOK ==
  ASSUME NEW p, PeerOK(p)
  PROVE  PeerOK(AcceptRun(p)) /\ AcceptRun(p).dead = p.dead
<1> DEFINE n == RunLength(p)
           Taken(ns) == \E j \in 1 .. n - 1 : ns = seq_advance(p.nr_expect, j)
           buffer == [ns \in SeqNum |-> IF Taken(ns) THEN NoMsg ELSE p.reorder[ns]]
<1>1. n \in Int /\ p.reorder[seq_advance(p.nr_expect, n)] = NoMsg
  BY RunOK, ModulusAssumption
<1>2. seq_advance(p.nr_expect, n) \in SeqNum
  BY <1>1, AdvanceType DEF PeerOK
<1>3. AcceptRun(p) = [p EXCEPT !.nr_expect = seq_advance(@, n), !.reorder = buffer]
  BY DEF AcceptRun
<1> HIDE DEF n
<1>4. DOMAIN buffer = SeqNum /\ buffer[seq_advance(p.nr_expect, n)] = NoMsg
  BY <1>1, <1>2
<1> HIDE DEF buffer
<1> QED BY <1>2, <1>3, <1>4 DEF PeerOK, PeerFields

\* A message that is kept for later does not occupy the slot of the expected
\* one: its distance is not 0.
LEMMA BufferOK ==
  ASSUME NEW p, PeerOK(p), NEW msg, Ahead(p, msg)
  PROVE  LET q == [p EXCEPT !.reorder[msg.ns] = msg.body]
         IN  PeerOK(q) /\ q.dead = p.dead
<1> DEFINE buffer == [p.reorder EXCEPT ![msg.ns] = msg.body]
<1>1. msg.ns # p.nr_expect
  <2> SUFFICES ASSUME msg.ns = p.nr_expect PROVE FALSE
    OBVIOUS
  <2>1. (p.nr_expect - p.nr_expect) % Modulus = 0
    BY ModulusAssumption DEF PeerOK, SeqNum
  <2>2. seq_delta(msg.ns, p.nr_expect) = 0
    BY <2>1, HalfFacts DEF seq_delta
  <2> QED BY <2>2, PeerAssumption DEF Ahead
<1>2. DOMAIN buffer = SeqNum /\ buffer[p.nr_expect] = NoMsg
  BY <1>1 DEF PeerOK
<1>3. [p EXCEPT !.reorder[msg.ns] = msg.body] = [p EXCEPT !.reorder = buffer]
  OBVIOUS
<1> HIDE DEF buffer
<1> QED BY <1>2, <1>3 DEF PeerOK, PeerFields

\* receive() keeps a Peer in order, whatever it is given.
LEMMA ReceiveOK ==
  ASSUME NEW p, PeerOK(p), NEW msg
  PROVE  PeerOK(receive(p, msg)) /\ receive(p, msg).dead = p.dead
<1> DEFINE q == consume_acks(p, msg.nr)
<1>1. PeerOK(q) /\ q.dead = p.dead
  BY ConsumeOK
<1> HIDE DEF q
<1>2. receive(p, msg) =
        IF ~Addressed(p, msg)   THEN p
        ELSE IF InOrder(q, msg) THEN AcceptRun(q)
        ELSE IF Ahead(q, msg)   THEN [q EXCEPT !.reorder[msg.ns] = msg.body]
        ELSE q
  BY DEF receive, q
<1>3. PeerOK(AcceptRun(q)) /\ AcceptRun(q).dead = q.dead
  BY <1>1, AcceptOK
<1>4. CASE Addressed(p, msg) /\ ~InOrder(q, msg) /\ Ahead(q, msg)
  <2> DEFINE r == [q EXCEPT !.reorder[msg.ns] = msg.body]
  <2>1. PeerOK(r) /\ r.dead = q.dead
    BY <1>1, <1>4, BufferOK
  <2>2. receive(p, msg) = r
    BY <1>2, <1>4
  <2> QED BY <1>1, <2>1, <2>2
<1>5. CASE ~(Addressed(p, msg) /\ ~InOrder(q, msg) /\ Ahead(q, msg))
  BY <1>1, <1>2, <1>3, <1>5
<1> QED BY <1>4, <1>5

\* tick() keeps a Peer in order: the message that exceeds its budget makes it
\* a dead one.
LEMMA TickOK ==
  ASSUME NEW p, PeerOK(p), NEW expired
  PROVE  PeerOK(tick(p, expired))
<1> DEFINE q == p.send_queue
           out == Exhausted(p, expired)
           Counted(i) == i \in expired /\ \A j \in out : i <= j
           x(i) == IF Counted(i) THEN [q[i] EXCEPT !.retries = @ + 1] ELSE q[i]
           r == [i \in 1 .. Len(q) |-> x(i)]
           T == {x(i) : i \in 1 .. Len(q)}
<1>1. CASE p.dead
  BY <1>1 DEF tick
<1>2. CASE ~p.dead
  <2>1. PICK S : /\ q \in Seq(S)
                 /\ \A y \in S : "retries" \in DOMAIN y /\ y.retries \in 0 .. MaxRetries
    BY <1>2 DEF PeerOK, QueueOK
  <2>2. Len(q) \in Nat /\ \A i \in 1 .. Len(q) : q[i] \in S
    BY <2>1, LenProperties, ElementOfSeq
  <2>3. tick(p, expired) = [p EXCEPT !.dead = out # {}, !.send_queue = r]
    BY <1>2 DEF tick
  <2> DEFINE max == IF out # {} THEN MaxRetries + 1 ELSE MaxRetries
  <2>4. \A i \in 1 .. Len(q) : "retries" \in DOMAIN x(i) /\ x(i).retries \in 0 .. max
    <3> SUFFICES ASSUME NEW i \in 1 .. Len(q)
                 PROVE  "retries" \in DOMAIN x(i) /\ x(i).retries \in 0 .. max
      OBVIOUS
    <3>1. "retries" \in DOMAIN q[i] /\ q[i].retries \in 0 .. MaxRetries
      BY <2>1, <2>2
    <3>2. i \in expired /\ q[i].retries + 1 > MaxRetries => out # {}
      BY DEF Exhausted
    <3> HIDE DEF out, q
    <3>3. CASE Counted(i)
      <4>1. x(i) = [q[i] EXCEPT !.retries = @ + 1]
        BY <3>3
      <4>2. DOMAIN x(i) = DOMAIN q[i] /\ x(i).retries = q[i].retries + 1
        BY <3>1, <4>1
      <4> QED BY <3>1, <3>2, <3>3, <4>2, PeerAssumption
    <3>4. CASE ~Counted(i)
      BY <3>1, <3>4, PeerAssumption
    <3> QED BY <3>3, <3>4
  <2>5. r \in Seq(T)
    <3>1. r \in [1 .. Len(q) -> T]
      OBVIOUS
    <3> HIDE DEF r, T, q
    <3> QED BY <2>2, <3>1, SeqDef
  <2> HIDE DEF x, r, out
  <2>6. QueueOK(r, max)
    BY <2>4, <2>5 DEF QueueOK
  <2> QED BY <2>3, <2>6 DEF PeerOK, PeerFields
<1> QED BY <1>1, <1>2 DEF PeerOK

-----------------------------------------------------------------------------
(* What becomes of the numbers *)

\* A list, whatever its elements are.
Listed(s) == \E S : s \in Seq(S)

\* The attributes of a pending message.
PendingFields == {"ccid", "ns", "body", "retries"}

PendingOK(q) ==
    \A i \in DOMAIN q : DOMAIN q[i] = PendingFields /\ q[i].ns \in SeqNum

\* The elements of a list made of two.
Joined(s, r, c) ==
    /\ Listed(c)
    /\ \A i \in DOMAIN s : i \in DOMAIN c /\ c[i] = s[i]
    /\ \A k \in DOMAIN r : \E i \in DOMAIN c : c[i] = r[k]
    /\ \A i \in DOMAIN c : \/ i \in DOMAIN s /\ c[i] = s[i]
                           \/ \E k \in DOMAIN r : c[i] = r[k]

\* Two lists put one after the other.
LEMMA ConcatParts ==
  ASSUME NEW s, Listed(s), NEW r, Listed(r), NEW c, c = s \o r
  PROVE  Joined(s, r, c)
<1>1. PICK S : s \in Seq(S)
  BY DEF Listed
<1>2. PICK T : r \in Seq(T)
  BY DEF Listed
<1>3. s \in Seq(S \cup T) /\ r \in Seq(S \cup T)
  BY <1>1, <1>2
<1>4. /\ s \o r \in Seq(S \cup T)
      /\ Len(s \o r) = Len(s) + Len(r)
      /\ \A i \in 1 .. Len(s) + Len(r) :
           (s \o r)[i] = IF i <= Len(s) THEN s[i] ELSE r[i - Len(s)]
  BY <1>3, ConcatProperties
<1>5. /\ Len(s) \in Nat /\ DOMAIN s = 1 .. Len(s)
      /\ Len(r) \in Nat /\ DOMAIN r = 1 .. Len(r)
      /\ DOMAIN (s \o r) = 1 .. Len(s) + Len(r)
  BY <1>3, <1>4, LenProperties
<1>6. Listed(c)
  BY <1>4 DEF Listed
<1>7. \A i \in DOMAIN s : i \in DOMAIN c /\ c[i] = s[i]
  BY <1>4, <1>5
<1>8. ASSUME NEW k \in DOMAIN r
      PROVE  \E i \in DOMAIN c : c[i] = r[k]
  <2>1. Len(s) + k \in 1 .. Len(s) + Len(r) /\ ~(Len(s) + k <= Len(s))
        /\ (Len(s) + k) - Len(s) = k
    BY <1>5
  <2>2. c[Len(s) + k] = r[k]
    BY <1>4, <2>1
  <2> QED BY <1>5, <2>1, <2>2
<1>9. ASSUME NEW i \in DOMAIN c
      PROVE  \/ i \in DOMAIN s /\ c[i] = s[i]
             \/ \E k \in DOMAIN r : c[i] = r[k]
  <2>1. i \in 1 .. Len(s) + Len(r)
    BY <1>5
  <2>2. CASE i <= Len(s)
    BY <1>4, <1>5, <2>1, <2>2
  <2>3. CASE ~(i <= Len(s))
    <3>1. i - Len(s) \in DOMAIN r
      BY <1>5, <2>1, <2>3
    <3>2. c[i] = r[i - Len(s)]
      BY <1>4, <2>1, <2>3
    <3> QED BY <3>1, <3>2
  <2> QED BY <2>2, <2>3
<1> QED BY <1>6, <1>7, <1>8, <1>9 DEF Joined

\* The send queue of a Peer is a list.
LEMMA QueueListed ==
  ASSUME NEW p, PeerOK(p)
  PROVE  Listed(p.send_queue)
  BY DEF PeerOK, QueueOK, Listed

\* _consume_acks() removes nothing but messages the Nr acknowledges.
LEMMA ConsumeMoves ==
  ASSUME NEW p, PeerOK(p), NEW nr
  PROVE  LET q == consume_acks(p, nr)
         IN  /\ q.ns_send = p.ns_send
             /\ \A i \in DOMAIN q.send_queue :
                  \E j \in DOMAIN p.send_queue : q.send_queue[i] = p.send_queue[j]
             /\ \A j \in DOMAIN p.send_queue :
                  \/ \E i \in DOMAIN q.send_queue : q.send_queue[i] = p.send_queue[j]
                  \/ seq_delta(nr, p.send_queue[j].ns) > 0
<1> DEFINE q == p.send_queue
           Acked(i) == seq_delta(nr, q[i].ns) > 0
           P(k) == /\ \A i \in 1 .. k : Acked(i)
                   /\ k < Len(q) => ~Acked(k + 1)
           Stops == {k \in 0 .. Len(q) : k < Len(q) => ~Acked(k + 1)}
           a == AckedCount(p, nr)
           rest == SubSeq(q, a + 1, Len(q))
<1>1. PICK S : q \in Seq(S)
  BY QueueListed DEF Listed
<1>2. Len(q) \in Nat /\ DOMAIN q = 1 .. Len(q)
  BY <1>1, LenProperties
<1>3. \E k \in 0 .. Len(q) : P(k)
  <2> HIDE DEF Acked
  <2>1. Stops \subseteq Nat /\ Len(q) \in Stops
    BY <1>2
  <2>2. PICK k \in Stops : \A j \in Stops : k <= j
    BY <2>1, SmallestExists
  <2>3. \A i \in 1 .. k : Acked(i)
    <3> SUFFICES ASSUME NEW i \in 1 .. k, ~Acked(i) PROVE FALSE
      OBVIOUS
    <3>1. i - 1 \in Stops /\ i \in Int /\ i <= k
      BY <1>2, <2>1
    <3>2. k <= i - 1
      BY <2>2, <3>1
    <3> QED BY <2>1, <3>1, <3>2
  <2> QED BY <2>2, <2>3
<1>4. a = CHOOSE k \in 0 .. Len(q) : P(k)
  BY DEF AckedCount
<1> HIDE DEF P, a
<1>5. a \in 0 .. Len(q) /\ P(a)
  BY <1>3, <1>4
<1>6. /\ rest \in Seq(S) /\ Len(rest) = Len(q) - a
      /\ \A i \in 1 .. Len(rest) : rest[i] = q[i + a]
  <2>1. a + 1 \in 1 .. Len(q) + 1
    BY <1>2, <1>5
  <2> QED BY <1>1, <1>2, <1>5, <2>1, SubSeqProperties
<1>7. DOMAIN rest = 1 .. Len(q) - a
  BY <1>6, LenProperties
<1> HIDE DEF rest
<1>8. consume_acks(p, nr) = [p EXCEPT !.send_queue = rest]
  BY DEF consume_acks, rest, a
<1>9. consume_acks(p, nr).send_queue = rest /\ consume_acks(p, nr).ns_send = p.ns_send
  BY <1>8 DEF PeerOK, PeerFields
<1>10. ASSUME NEW i \in DOMAIN rest PROVE \E j \in DOMAIN q : rest[i] = q[j]
  <2>1. i + a \in DOMAIN q /\ rest[i] = q[i + a]
    BY <1>2, <1>5, <1>6, <1>7
  <2> QED BY <2>1
<1>11. ASSUME NEW j \in DOMAIN q, ~(seq_delta(nr, q[j].ns) > 0)
       PROVE  \E i \in DOMAIN rest : rest[i] = q[j]
  <2>1. ~(j \in 1 .. a)
    BY <1>5, <1>11 DEF P
  <2>2. j - a \in DOMAIN rest /\ (j - a) + a = j
    BY <1>2, <1>5, <1>7, <2>1
  <2>3. rest[j - a] = q[j]
    BY <1>6, <1>7, <2>2
  <2> QED BY <2>2, <2>3
<1> HIDE DEF q
<1>12. /\ \A i \in DOMAIN rest : \E j \in DOMAIN q : rest[i] = q[j]
       /\ \A j \in DOMAIN q : \/ \E i \in DOMAIN rest : rest[i] = q[j]
                              \/ seq_delta(nr, q[j].ns) > 0
  BY <1>10, <1>11
<1> QED BY <1>9, <1>12 DEF q

\* The drain loop stops only at a free slot.
LEMMA RunFull ==
  ASSUME NEW p, PeerOK(p)
  PROVE  \A j \in 1 .. RunLength(p) - 1 : p.reorder[seq_advance(p.nr_expect, j)] # NoMsg
<1> DEFINE Free(j) == p.reorder[seq_advance(p.nr_expect, j)] = NoMsg
           P(k) == /\ \A j \in 1 .. k - 1 : ~Free(j)
                   /\ Free(k)
           Slots == {k \in 1 .. Modulus : Free(k)}
<1>1. RunLength(p) \in Slots
  BY RunOK
<1> HIDE DEF Free
<1>2. \E k \in 1 .. Modulus : P(k)
  <2>1. Slots \subseteq Nat /\ Slots # {}
    BY <1>1, ModulusAssumption
  <2>2. PICK k \in Slots : \A j \in Slots : k <= j
    BY <2>1, SmallestExists
  <2>3. \A j \in 1 .. k - 1 : ~Free(j)
    <3> SUFFICES ASSUME NEW j \in 1 .. k - 1, Free(j) PROVE FALSE
      OBVIOUS
    <3>1. j \in Slots
      BY <2>1, ModulusAssumption
    <3> QED BY <2>1, <2>2, <3>1
  <2> QED BY <2>2, <2>3
<1>3. RunLength(p) = CHOOSE k \in 1 .. Modulus : P(k)
  BY DEF RunLength, Free
<1> HIDE DEF P
<1>4. P(RunLength(p))
  BY <1>2, <1>3
<1> QED BY <1>4 DEF P, Free

\* The distance of two numbers in range.
LEMMA DiffIs ==
  ASSUME NEW a \in SeqNum, NEW b \in SeqNum
  PROVE  (a - b) % Modulus = IF a >= b THEN a - b ELSE a - b + Modulus
<1>1. a \in Int /\ b \in Int /\ a - b \in Int
  BY ModulusAssumption DEF SeqNum
<1>2. CASE a >= b
  <2>1. a - b \in SeqNum /\ a - b = Modulus * 0 + (a - b)
    BY <1>2, ModulusAssumption DEF SeqNum
  <2> QED BY <1>1, <1>2, <2>1, DivisionUnique
<1>3. CASE ~(a >= b)
  <2>1. a - b + Modulus \in SeqNum /\ a - b = Modulus * (-1) + (a - b + Modulus)
    BY <1>3, ModulusAssumption DEF SeqNum
  <2>2. -1 \in Int
    OBVIOUS
  <2>3. (a - b) % Modulus = a - b + Modulus
    BY <1>1, <2>1, <2>2, DivisionUnique
  <2> QED BY <1>3, <2>3
<1> QED BY <1>2, <1>3

\* It is 0 only between a number and itself.
LEMMA DeltaZero ==
  ASSUME NEW a \in SeqNum, NEW b \in SeqNum, seq_delta(a, b) = 0
  PROVE  a = b
<1> DEFINE d == (a - b) % Modulus
<1>1. d = IF a >= b THEN a - b ELSE a - b + Modulus
  BY DiffIs
<1>2. (IF d >= Half THEN d - Modulus ELSE d) = 0
  BY DEF seq_delta
<1> HIDE DEF d
<1> QED BY <1>1, <1>2, ModulusAssumption, HalfFacts DEF SeqNum

\* The first two numbers are acknowledged by a larger one only, not by a
\* number from before a wrap.
LEMMA EarlyAck ==
  ASSUME NEW nr \in SeqNum, NEW n \in {0, 1}, seq_delta(nr, n) > 0
  PROVE  nr > n
<1> DEFINE d == (nr - n) % Modulus
<1>1. n \in SeqNum
  BY ModulusAssumption DEF SeqNum
<1>2. d = IF nr >= n THEN nr - n ELSE nr - n + Modulus
  BY <1>1, DiffIs
<1>3. (IF d >= Half THEN d - Modulus ELSE d) > 0
  BY DEF seq_delta
<1> HIDE DEF d
<1> QED BY <1>2, <1>3, ModulusAssumption, HalfFacts DEF SeqNum

\* What receive() does with the numbers, whatever it is given.
LEMMA ReceiveMoves ==
  ASSUME NEW p, PeerOK(p), NEW msg
  PROVE  LET q == receive(p, msg)
         IN  /\ q.ns_send = p.ns_send
             /\ \A i \in DOMAIN q.send_queue :
                  \E j \in DOMAIN p.send_queue : q.send_queue[i] = p.send_queue[j]
             /\ \A j \in DOMAIN p.send_queue :
                  \/ \E i \in DOMAIN q.send_queue : q.send_queue[i] = p.send_queue[j]
                  \/ seq_delta(msg.nr, p.send_queue[j].ns) > 0
             /\ \A n \in SeqNum : q.reorder[n] # NoMsg =>
                  p.reorder[n] # NoMsg \/ (n = msg.ns /\ msg.body # Zlb)
             /\ q.nr_expect = IF delivered(p, msg) = <<>> THEN p.nr_expect
                              ELSE seq_advance(p.nr_expect, RunLength(p))
<1> DEFINE c == consume_acks(p, msg.nr)
           q == receive(p, msg)
           b == [c EXCEPT !.reorder[msg.ns] = msg.body]
<1>1. /\ PeerOK(c) /\ c.nr_expect = p.nr_expect /\ c.reorder = p.reorder
      /\ c.local_ccid = p.local_ccid /\ c.ns_send = p.ns_send
      /\ \A i \in DOMAIN c.send_queue :
           \E j \in DOMAIN p.send_queue : c.send_queue[i] = p.send_queue[j]
      /\ \A j \in DOMAIN p.send_queue :
           \/ \E i \in DOMAIN c.send_queue : c.send_queue[i] = p.send_queue[j]
           \/ seq_delta(msg.nr, p.send_queue[j].ns) > 0
  BY ConsumeOK, ConsumeMoves
<1>2. q = IF ~Addressed(p, msg)   THEN p
          ELSE IF InOrder(c, msg) THEN AcceptRun(c)
          ELSE IF Ahead(c, msg)   THEN b
          ELSE c
  BY DEF receive
<1> HIDE DEF c
<1>3. RunLength(c) = RunLength(p) /\ (InOrder(c, msg) <=> InOrder(p, msg))
  BY <1>1 DEF RunLength, InOrder
<1>4. InOrder(p, msg) => Run(p, msg.body) # <<>>
  <2>1. RunLength(p) \in 1 .. Modulus
    BY RunOK
  <2>2. DOMAIN Run(p, msg.body) = 1 .. RunLength(p)
    BY DEF Run
  <2>3. 1 \in DOMAIN Run(p, msg.body)
    BY <2>1, <2>2, ModulusAssumption
  <2> QED BY <2>3
<1>5. delivered(p, msg) = <<>> <=> ~(Addressed(p, msg) /\ InOrder(p, msg))
  BY <1>4 DEF delivered
<1> HIDE DEF q
<1>6. CASE ~Addressed(p, msg)
  <2>1. q = p
    BY <1>2, <1>6
  <2> QED BY <1>5, <1>6, <2>1 DEF q
<1>7. CASE Addressed(p, msg) /\ InOrder(c, msg)
  <2> DEFINE r == AcceptRun(c)
             n == RunLength(c)
             buffer == [ns \in SeqNum |->
                          IF \E j \in 1 .. n - 1 : ns = seq_advance(c.nr_expect, j)
                          THEN NoMsg
                          ELSE c.reorder[ns]]
  <2>1. r = [c EXCEPT !.nr_expect = seq_advance(@, n), !.reorder = buffer]
    BY DEF AcceptRun
  <2>2. \A ns \in SeqNum : buffer[ns] # NoMsg => c.reorder[ns] # NoMsg
    OBVIOUS
  <2> HIDE DEF n, buffer
  <2>3. r.ns_send = c.ns_send /\ r.send_queue = c.send_queue /\ r.reorder = buffer
        /\ r.nr_expect = seq_advance(c.nr_expect, n)
    BY <1>1, <2>1 DEF PeerOK, PeerFields
  <2>4. q = r
    BY <1>2, <1>7
  <2> HIDE DEF r
  <2>5. q.nr_expect = seq_advance(p.nr_expect, RunLength(p)) /\ delivered(p, msg) # <<>>
    BY <1>1, <1>3, <1>5, <1>7, <2>3, <2>4 DEF n
  <2>6. q.ns_send = p.ns_send /\ q.send_queue = c.send_queue
    BY <1>1, <2>3, <2>4
  <2>7. \A ns \in SeqNum : q.reorder[ns] # NoMsg => p.reorder[ns] # NoMsg
    BY <1>1, <2>2, <2>3, <2>4
  <2> QED BY <1>1, <2>5, <2>6, <2>7 DEF q
<1>8. CASE Addressed(p, msg) /\ ~InOrder(c, msg)
  <2>1. delivered(p, msg) = <<>>
    BY <1>3, <1>5, <1>8
  <2>2. CASE Ahead(c, msg)
    <3> DEFINE buffer == [c.reorder EXCEPT ![msg.ns] = msg.body]
    <3>1. b = [c EXCEPT !.reorder = buffer]
      OBVIOUS
    <3>2. \A ns \in SeqNum : ns # msg.ns => buffer[ns] = c.reorder[ns]
      BY <1>1 DEF PeerOK
    <3> HIDE DEF buffer
    <3>3. b.ns_send = c.ns_send /\ b.send_queue = c.send_queue /\ b.reorder = buffer
          /\ b.nr_expect = c.nr_expect
      BY <1>1, <3>1 DEF PeerOK, PeerFields
    <3>4. q = b /\ msg.body # Zlb
      BY <1>2, <1>8, <2>2 DEF Ahead
    <3> HIDE DEF b
    <3>5. q.ns_send = p.ns_send /\ q.send_queue = c.send_queue /\ q.nr_expect = p.nr_expect
      BY <1>1, <3>3, <3>4
    <3>6. \A ns \in SeqNum : q.reorder[ns] # NoMsg =>
            p.reorder[ns] # NoMsg \/ (ns = msg.ns /\ msg.body # Zlb)
      BY <1>1, <3>2, <3>3, <3>4
    <3> QED BY <1>1, <2>1, <3>5, <3>6 DEF q
  <2>3. CASE ~Ahead(c, msg)
    <3>1. q = c
      BY <1>2, <1>8, <2>3
    <3> QED BY <1>1, <2>1, <3>1 DEF q
  <2> QED BY <2>2, <2>3
<1> QED BY <1>6, <1>7, <1>8

-----------------------------------------------------------------------------
(* What a Peer holds and transmits *)

Queued(p, n) == \E i \in DOMAIN p.send_queue : p.send_queue[i].ns = n

Stored(p, n, b) ==
    \E i \in DOMAIN p.send_queue : p.send_queue[i].ns = n /\ p.send_queue[i].body = b

\* The fields of a body that a receiver looks at first.
Proper(b) == {"t", "ok"} \subseteq DOMAIN b /\ b.ok

\* Between p and q a message with number n and body b was sent, of a type that
\* K[n] admits.
Issued(p, q, K, n, b) == n \in p.ns_send .. q.ns_send - 1 /\ Proper(b) /\ b.t \in K[n]

\* A datagram that p may transmit on its way to q: an acknowledgement, a
\* retransmission or something new, and it acknowledges all that q has taken.
Sends(p, q, K, m) ==
    /\ m.nr = q.nr_expect
    /\ m.body = Zlb \/ Stored(p, m.ns, m.body) \/ Issued(p, q, K, m.ns, m.body)

\* p becomes q: what is queued was queued or is new, what is new is queued, and
\* what was queued is so still, except for numbers in gone.
PeerMoves(p, q, K, gone) ==
    /\ q.ns_send >= p.ns_send
    /\ PendingOK(q.send_queue)
    /\ \A n, b : Stored(q, n, b) => Stored(p, n, b) \/ Issued(p, q, K, n, b)
    /\ \A n : Queued(p, n) => n \in gone \/ Queued(q, n)
    /\ \A n \in p.ns_send .. q.ns_send - 1 : Queued(q, n)

\* What receive() takes no notice of.
Unsent(p, q) == q.nr_expect = p.nr_expect /\ q.reorder = p.reorder

\* A number that does not wrap is its count.
LEMMA AdvancePlain ==
  ASSUME NEW s \in SeqNum, NEW k \in Nat, s + k < Modulus
  PROVE  seq_advance(s, k) = s + k
<1>1. s + k \in SeqNum /\ s + k \in Int /\ s + k = Modulus * 0 + (s + k)
  BY ModulusAssumption DEF SeqNum
<1> QED BY <1>1, DivisionUnique DEF seq_advance

\* Messages put at the end of the send queue under the next numbers.
LEMMA QueueExtended ==
  ASSUME NEW p, PeerOK(p), PendingOK(p.send_queue), NEW K,
         NEW n \in Nat, p.ns_send + n < Modulus,
         NEW r, Listed(r), DOMAIN r = 1 .. n,
         \A k \in 1 .. n : /\ DOMAIN r[k] = PendingFields
                           /\ r[k].ns = p.ns_send + (k - 1)
                           /\ Proper(r[k].body)
                           /\ r[k].body.t \in K[p.ns_send + (k - 1)],
         NEW q, q.send_queue = p.send_queue \o r, q.ns_send = p.ns_send + n
  PROVE  PeerMoves(p, q, K, {})
<1> DEFINE s == p.send_queue
           c == q.send_queue
           N == p.ns_send
<1>1. N \in Nat /\ N \in SeqNum
  BY ModulusAssumption DEF PeerOK, SeqNum
<1>2. /\ \A i \in DOMAIN s : i \in DOMAIN c /\ c[i] = s[i]
      /\ \A k \in DOMAIN r : \E i \in DOMAIN c : c[i] = r[k]
      /\ \A i \in DOMAIN c : \/ i \in DOMAIN s /\ c[i] = s[i]
                             \/ \E k \in DOMAIN r : c[i] = r[k]
  <2>1. Listed(s) /\ Listed(r) /\ c = s \o r
    BY QueueListed
  <2>2. Joined(s, r, c)
    BY <2>1, ConcatParts
  <2> QED BY <2>2 DEF Joined
<1>3. q.send_queue = c /\ q.ns_send = N + n
  OBVIOUS
<1>4. PendingOK(s)
  OBVIOUS
<1>5. N + n < Modulus
  OBVIOUS
<1>6. \A k \in 1 .. n : /\ DOMAIN r[k] = PendingFields /\ r[k].ns = N + (k - 1)
                        /\ Proper(r[k].body) /\ r[k].body.t \in K[N + (k - 1)]
  OBVIOUS
<1>7. \A k \in 1 .. n : N + (k - 1) \in N .. q.ns_send - 1 /\ N + (k - 1) \in SeqNum
  BY <1>1, <1>3, <1>5, ModulusAssumption DEF SeqNum
<1> HIDE DEF c, s, N
<1>8. \A k \in 1 .. n : r[k].ns \in N .. q.ns_send - 1 /\ r[k].ns \in SeqNum
  BY <1>6, <1>7
<1>9. PendingOK(q.send_queue)
  BY <1>2, <1>3, <1>4, <1>6, <1>8 DEF PendingOK
<1>10. ASSUME NEW m, NEW b, Stored(q, m, b)
       PROVE  Stored(p, m, b) \/ Issued(p, q, K, m, b)
  <2>1. PICK i \in DOMAIN c : c[i].ns = m /\ c[i].body = b
    BY <1>3, <1>10 DEF Stored
  <2>2. CASE i \in DOMAIN s /\ c[i] = s[i]
    BY <2>1, <2>2 DEF Stored, s
  <2>3. CASE \E k \in DOMAIN r : c[i] = r[k]
    <3>1. PICK k \in 1 .. n : c[i] = r[k]
      BY <2>3
    <3>2. m = r[k].ns /\ b = r[k].body
      BY <2>1, <3>1
    <3>3. b.t \in K[m] /\ Proper(b)
      BY <1>6, <3>2
    <3> QED BY <1>8, <3>2, <3>3 DEF Issued, N
  <2> QED BY <1>2, <2>2, <2>3
<1>11. \A m : Queued(p, m) => Queued(q, m)
  BY <1>2, <1>3 DEF Queued, s
<1>12. ASSUME NEW m \in N .. q.ns_send - 1 PROVE Queued(q, m)
  <2>1. m - N + 1 \in 1 .. n /\ N + ((m - N + 1) - 1) = m
    BY <1>1, <1>3
  <2>2. r[m - N + 1].ns = m
    BY <1>6, <2>1
  <2>3. PICK i \in DOMAIN c : c[i] = r[m - N + 1]
    BY <1>2, <2>1
  <2> QED BY <1>3, <2>2, <2>3 DEF Queued
<1>13. q.ns_send >= p.ns_send
  BY <1>1, <1>3 DEF N
<1> QED BY <1>9, <1>10, <1>11, <1>12, <1>13 DEF PeerMoves, N

\* send()
LEMMA SendMoves ==
  ASSUME NEW p, PeerOK(p), PendingOK(p.send_queue), NEW K, p.ns_send + 1 < Modulus,
         NEW body, Proper(body), body.t \in K[p.ns_send]
  PROVE  LET q == send(p, body)
         IN  /\ PeerMoves(p, q, K, {}) /\ Unsent(p, q)
             /\ q.ns_send = p.ns_send + 1
             /\ Sends(p, q, K, stamped(p, body))
<1> DEFINE x == Pending(p, body)
           r == <<x>>
           N == p.ns_send
           q == send(p, body)
<1>1. N \in Nat /\ N \in SeqNum
  BY ModulusAssumption DEF PeerOK, SeqNum
<1>2. DOMAIN x = PendingFields /\ x.ns = N /\ x.body = body
  BY DEF Pending, PendingFields
<1> HIDE DEF x
<1>3. Listed(r) /\ DOMAIN r = 1 .. 1 /\ r[1] = x
  <2>1. r \in Seq({x}) /\ DOMAIN r = 1 .. 1 /\ r[1] = x
    OBVIOUS
  <2> HIDE DEF r
  <2> QED BY <2>1 DEF Listed
<1>4. seq_advance(N, 1) = N + 1
  BY <1>1, AdvancePlain
<1>5. Append(p.send_queue, x) = p.send_queue \o r
  BY QueueListed, AppendIsConcat DEF Listed
<1>6. /\ q.send_queue = p.send_queue \o r /\ q.ns_send = N + 1
      /\ q.nr_expect = p.nr_expect /\ q.reorder = p.reorder
  BY <1>4, <1>5 DEF send, x, PeerOK, PeerFields
<1>7. N + 1 < Modulus /\ body.t \in K[N]
  OBVIOUS
<1> HIDE DEF q, r
<1>8. \A k \in 1 .. 1 : /\ DOMAIN r[k] = PendingFields /\ r[k].ns = N + (k - 1)
                        /\ Proper(r[k].body) /\ r[k].body.t \in K[N + (k - 1)]
  <2> SUFFICES /\ DOMAIN r[1] = PendingFields /\ r[1].ns = N + (1 - 1)
               /\ Proper(r[1].body) /\ r[1].body.t \in K[N + (1 - 1)]
    OBVIOUS
  <2>1. N + (1 - 1) = N
    BY <1>1
  <2> QED BY <1>2, <1>3, <1>7, <2>1
<1>9. PeerMoves(p, q, K, {})
  BY <1>3, <1>6, <1>7, <1>8, QueueExtended DEF N
<1>10. Sends(p, q, K, stamped(p, body))
  <2>1. N \in N .. q.ns_send - 1
    BY <1>1, <1>6
  <2> QED BY <1>6, <1>7, <2>1 DEF Sends, Issued, stamped, N
<1> QED BY <1>6, <1>9, <1>10 DEF Unsent, q, N

\* send() for each of several messages.
LEMMA SendAllMoves ==
  ASSUME NEW p, PeerOK(p), PendingOK(p.send_queue), NEW K,
         NEW n \in Nat, p.ns_send + n < Modulus,
         NEW bodies, Listed(bodies), DOMAIN bodies = 1 .. n,
         \A k \in 1 .. n : Proper(bodies[k]) /\ bodies[k].t \in K[p.ns_send + (k - 1)]
  PROVE  LET q == send_all(p, bodies)
         IN  /\ PeerMoves(p, q, K, {}) /\ Unsent(p, q)
             /\ q.ns_send = p.ns_send + n
             /\ \A k \in 1 .. n : Sends(p, q, K, stamped_at(p, bodies, k))
<1> DEFINE x(k) == [Pending(p, bodies[k]) EXCEPT !.ns = seq_advance(p.ns_send, k - 1)]
           r == [k \in DOMAIN bodies |-> x(k)]
           N == p.ns_send
           q == send_all(p, bodies)
<1>1. N \in Nat /\ N \in SeqNum /\ N + n < Modulus
  BY ModulusAssumption DEF PeerOK, SeqNum
<1>2. Len(bodies) = n
  <2>1. PICK S : bodies \in Seq(S)
    BY DEF Listed
  <2> QED BY <2>1, LenProperties
<1>3. \A k \in 1 .. n : seq_advance(N, k - 1) = N + (k - 1)
  <2> SUFFICES ASSUME NEW k \in 1 .. n PROVE seq_advance(N, k - 1) = N + (k - 1)
    OBVIOUS
  <2> HIDE DEF N
  <2>1. k - 1 \in Nat /\ N + (k - 1) < Modulus
    BY <1>1, ModulusAssumption
  <2> QED BY <1>1, <2>1, AdvancePlain
<1>4. seq_advance(N, n) = N + n
  BY <1>1, AdvancePlain
<1>5. /\ q.send_queue = p.send_queue \o r /\ q.ns_send = N + n
      /\ q.nr_expect = p.nr_expect /\ q.reorder = p.reorder
  BY <1>2, <1>4 DEF send_all, PeerOK, PeerFields
<1>6. \A k \in 1 .. n : DOMAIN x(k) = PendingFields /\ x(k).ns = N + (k - 1)
                        /\ x(k).body = bodies[k]
  BY <1>3 DEF Pending, PendingFields
<1>7. Listed(r) /\ DOMAIN r = 1 .. n /\ \A k \in 1 .. n : r[k] = x(k)
  <2> DEFINE T == {x(k) : k \in DOMAIN bodies}
  <2>1. r \in [1 .. n -> T]
    OBVIOUS
  <2>2. \A k \in 1 .. n : r[k] = x(k)
    OBVIOUS
  <2> HIDE DEF r, T, x
  <2>3. r \in Seq(T)
    BY <2>1, SeqDef
  <2> QED BY <2>1, <2>2, <2>3 DEF Listed
<1>8. \A k \in 1 .. n : stamped_at(p, bodies, k).nr = p.nr_expect
                        /\ stamped_at(p, bodies, k).ns = N + (k - 1)
                        /\ stamped_at(p, bodies, k).body = bodies[k]
  BY <1>3 DEF stamped_at, stamped
<1> HIDE DEF q, r, x
<1>9. \A k \in 1 .. n : /\ DOMAIN r[k] = PendingFields /\ r[k].ns = N + (k - 1)
                        /\ Proper(r[k].body) /\ r[k].body.t \in K[N + (k - 1)]
  BY <1>6, <1>7
<1>10. PeerMoves(p, q, K, {})
  BY <1>1, <1>5, <1>7, <1>9, QueueExtended
<1>11. ASSUME NEW k \in 1 .. n PROVE Sends(p, q, K, stamped_at(p, bodies, k))
  <2> DEFINE m == stamped_at(p, bodies, k)
             a == N + (k - 1)
  <2>1. a \in N .. q.ns_send - 1
    BY <1>1, <1>5
  <2>2. Proper(bodies[k]) /\ bodies[k].t \in K[a]
    OBVIOUS
  <2>3. m.nr = q.nr_expect /\ m.ns = a /\ m.body = bodies[k]
    BY <1>5, <1>8
  <2> HIDE DEF m, a
  <2>4. Sends(p, q, K, m)
    BY <2>1, <2>2, <2>3 DEF Sends, Issued, N
  <2> QED BY <2>4 DEF m
<1> QED BY <1>5, <1>10, <1>11 DEF Unsent, q

\* tick() only counts.
LEMMA TickMoves ==
  ASSUME NEW p, PeerOK(p), PendingOK(p.send_queue), NEW K, NEW expired
  PROVE  LET q == tick(p, expired)
         IN  /\ PeerMoves(p, q, K, {}) /\ Unsent(p, q)
             /\ q.ns_send = p.ns_send
<1> DEFINE s == p.send_queue
           out == Exhausted(p, expired)
           Counted(i) == i \in expired /\ \A j \in out : i <= j
           x(i) == IF Counted(i) THEN [s[i] EXCEPT !.retries = @ + 1] ELSE s[i]
           r == [i \in 1 .. Len(s) |-> x(i)]
           d == out # {}
           u == [p EXCEPT !.dead = d, !.send_queue = r]
           q == tick(p, expired)
<1>1. q = IF p.dead THEN p ELSE u
  BY DEF tick
<1>2. DOMAIN s = 1 .. Len(s)
  BY QueueListed, LenProperties DEF Listed
<1>3. DOMAIN r = DOMAIN s /\ \A i \in DOMAIN s : r[i] = x(i)
  BY <1>2
<1>4. \A i \in DOMAIN s : DOMAIN s[i] = PendingFields /\ s[i].ns \in SeqNum
  BY DEF PendingOK
<1> HIDE DEF r, Counted, s
<1>5. \A i \in DOMAIN s : /\ DOMAIN x(i) = PendingFields
                          /\ x(i).ns = s[i].ns /\ x(i).body = s[i].body
  BY <1>4 DEF PendingFields
<1> HIDE DEF x, d
<1>6. u.send_queue = r /\ u.ns_send = p.ns_send /\ u.nr_expect = p.nr_expect
      /\ u.reorder = p.reorder
  BY DEF PeerOK, PeerFields
<1> HIDE DEF u, q
<1>7. /\ DOMAIN q.send_queue = DOMAIN s
      /\ \A i \in DOMAIN s : /\ DOMAIN q.send_queue[i] = PendingFields
                             /\ q.send_queue[i].ns = s[i].ns
                             /\ q.send_queue[i].body = s[i].body
      /\ q.ns_send = p.ns_send /\ q.nr_expect = p.nr_expect /\ q.reorder = p.reorder
  <2>1. CASE p.dead
    BY <1>1, <1>4, <2>1 DEF s
  <2>2. CASE ~p.dead
    BY <1>1, <1>3, <1>5, <1>6, <2>2
  <2> QED BY <2>1, <2>2
<1>8. PendingOK(q.send_queue)
  BY <1>4, <1>7 DEF PendingOK
<1>9. /\ \A n, b : Stored(q, n, b) => Stored(p, n, b)
      /\ \A n : Queued(p, n) => Queued(q, n)
  BY <1>7 DEF Stored, Queued, s
<1>10. q.ns_send >= p.ns_send /\ p.ns_send .. q.ns_send - 1 = {}
  BY <1>7, ModulusAssumption DEF PeerOK, SeqNum
<1> QED BY <1>7, <1>8, <1>9, <1>10 DEF PeerMoves, Unsent, q

\* The numbers that an Nr acknowledges.
AckedBy(nr) == {n \in SeqNum : seq_delta(nr, n) > 0}

\* receive() sends nothing that needs an acknowledgement.
LEMMA ReceiveKeeps ==
  ASSUME NEW p, PeerOK(p), PendingOK(p.send_queue), NEW K, NEW msg
  PROVE  LET q == receive(p, msg)
         IN  PeerMoves(p, q, K, AckedBy(msg.nr)) /\ q.ns_send = p.ns_send
<1> DEFINE q == receive(p, msg)
           s == p.send_queue
           r == q.send_queue
<1>1. /\ q.ns_send = p.ns_send
      /\ \A i \in DOMAIN r : \E j \in DOMAIN s : r[i] = s[j]
      /\ \A j \in DOMAIN s : \/ \E i \in DOMAIN r : r[i] = s[j]
                             \/ seq_delta(msg.nr, s[j].ns) > 0
  BY ReceiveMoves
<1>2. \A i \in DOMAIN s : DOMAIN s[i] = PendingFields /\ s[i].ns \in SeqNum
  BY DEF PendingOK
<1> HIDE DEF q
<1>3. PendingOK(r)
  BY <1>1, <1>2 DEF PendingOK
<1>4. \A n, b : Stored(q, n, b) => Stored(p, n, b)
  BY <1>1 DEF Stored
<1>5. ASSUME NEW n, Queued(p, n) PROVE n \in AckedBy(msg.nr) \/ Queued(q, n)
  <2>1. PICK j \in DOMAIN s : s[j].ns = n
    BY <1>5 DEF Queued
  <2> QED BY <1>1, <1>2, <2>1 DEF AckedBy, Queued
<1>6. q.ns_send >= p.ns_send /\ p.ns_send .. q.ns_send - 1 = {}
  BY <1>1, ModulusAssumption DEF PeerOK, SeqNum
<1> QED BY <1>1, <1>3, <1>4, <1>5, <1>6 DEF PeerMoves, q

\* As long as the other end has sent fewer than L messages and no number has
\* wrapped, nothing beyond the L-th is taken or buffered; and the message that
\* receive() delivers first is the one that arrived, with the number expected.
LEMMA BoundedReceive ==
  ASSUME NEW p, PeerOK(p), NEW L \in Nat, L < Modulus, NEW msg,
         \A n \in SeqNum : p.reorder[n] # NoMsg => n < L,
         msg.body # Zlb => msg.ns \in 0 .. L - 1
  PROVE  LET q == receive(p, msg)
         IN  /\ \A n \in SeqNum : q.reorder[n] # NoMsg => n < L
             /\ delivered(p, msg) = <<>> => q.nr_expect = p.nr_expect
             /\ delivered(p, msg) # <<>> =>
                  /\ msg.body # Zlb /\ msg.ns = p.nr_expect
                  /\ delivered(p, msg)[1] = msg.body
                  /\ q.nr_expect \in p.nr_expect + 1 .. L
<1> DEFINE q == receive(p, msg)
           R == p.nr_expect
           k == RunLength(p)
<1>1. /\ \A n \in SeqNum : q.reorder[n] # NoMsg =>
           p.reorder[n] # NoMsg \/ (n = msg.ns /\ msg.body # Zlb)
      /\ q.nr_expect = IF delivered(p, msg) = <<>> THEN R ELSE seq_advance(R, k)
  BY ReceiveMoves
<1>2. k \in 1 .. Modulus /\ R \in SeqNum /\ R \in Nat /\ Modulus \in Nat
  BY RunOK, ModulusAssumption DEF PeerOK, SeqNum
<1>3. \A j \in 1 .. k - 1 : p.reorder[seq_advance(R, j)] # NoMsg
  BY RunFull
<1> HIDE DEF q
<1>4. \A n \in SeqNum : q.reorder[n] # NoMsg => n < L
  <2>1. msg.body # Zlb => msg.ns < L
    OBVIOUS
  <2> QED BY <1>1, <2>1
<1>5. ASSUME delivered(p, msg) # <<>>
      PROVE  /\ msg.body # Zlb /\ msg.ns = R
             /\ delivered(p, msg)[1] = msg.body
             /\ q.nr_expect \in R + 1 .. L
  <2>1. InOrder(p, msg) /\ delivered(p, msg) = Run(p, msg.body)
    BY <1>5 DEF delivered
  <2>2. msg.body # Zlb /\ msg.ns \in 0 .. L - 1 /\ seq_delta(msg.ns, R) = 0
    BY <2>1 DEF InOrder
  <2>3. msg.ns \in SeqNum
    BY <1>2, <2>2 DEF SeqNum
  <2>4. msg.ns = R
    BY <1>2, <2>2, <2>3, DeltaZero
  <2>5. R < L
    BY <2>2, <2>4
  <2> HIDE DEF k, R
  <2>6. R + k <= L
    <3> SUFFICES ASSUME R + k > L PROVE FALSE
      BY <1>2
    <3> DEFINE j == L - R
    <3>1. j \in 1 .. k - 1 /\ R + j = L /\ j \in Nat
      BY <1>2, <2>5
    <3> HIDE DEF j
    <3>2. seq_advance(R, j) = L
      BY <1>2, <3>1, AdvancePlain
    <3>3. L \in SeqNum
      BY <1>2 DEF SeqNum
    <3>4. p.reorder[L] # NoMsg
      BY <1>3, <3>1, <3>2
    <3> QED BY <3>3, <3>4
  <2>7. seq_advance(R, k) = R + k
    <3>1. k \in Nat /\ R + k < Modulus
      BY <1>2, <2>6
    <3> QED BY <1>2, <3>1, AdvancePlain
  <2>8. q.nr_expect \in R + 1 .. L
    BY <1>1, <1>2, <1>5, <2>6, <2>7
  <2>9. Run(p, msg.body)[1] = msg.body
    BY <1>2 DEF Run, k
  <2> QED BY <2>1, <2>2, <2>4, <2>8, <2>9
<1> QED BY <1>1, <1>4, <1>5 DEF q
=============================================================================
