----------------------- MODULE ReliableChannelProofs -----------------------
(***************************************************************************)
(* Proofs for ReliableChannel: the inductive invariant, the safety         *)
(* properties that follow from it, and the refinement of FifoChannel, for  *)
(* every width of the sequence numbers, window, retry budget and bound     *)
(* that meets the assumptions.                                             *)
(*                                                                         *)
(* First one lemma per method of Peer, which says that the method keeps a  *)
(* Peer "in shape" (PeerShape relates its 16-bit numbers, queue and buffer *)
(* to the full counts of messages sent and taken); then the composition.   *)
(***************************************************************************)
EXTENDS ReliableChannel, SeqArithProofs, SequenceTheorems, WellFoundedInduction

\* The two ends of the channel are each other's peers.
LEMMA OtherFacts == \A e \in Ends : Other(e) \in Ends /\ Other(e) # e /\ Other(Other(e)) = e
  BY DEF Ends, Other

\* A set of natural numbers has a least element; used for the drain loop of
\* receive(), which stops at the first empty slot.
LEMMA SmallestExists ==
  ASSUME NEW T, T \subseteq Nat, T # {}
  PROVE  \E x \in T : \A y \in T : x <= y
<1>1. PICK x \in T : \A y \in T : ~(<<y, x>> \in OpToRel(<, Nat))
  BY WFMin, NatLessThanWellFounded
<1>2. \A y \in T : ~(y < x)
  BY <1>1 DEF OpToRel
<1>3. \A y \in T : x <= y
  BY <1>2
<1> QED BY <1>3

\* _consume_acks on a queue that starts with message a and an Nr that stands
\* for n: exactly the messages a .. n-1 are dropped, none on an old Nr.
LEMMA AckedCountLemma ==
  ASSUME NEW p, p.send_queue \in Seq(PendingType), NEW a \in Nat, NEW n \in Nat,
         \A i \in 1 .. Len(p.send_queue) : p.send_queue[i].ns = (a + i - 1) % Modulus,
         n <= a + Len(p.send_queue),
         Len(p.send_queue) < Half,
         a + Len(p.send_queue) - n <= Half
  PROVE  AckedCount(p, n % Modulus) = IF n > a THEN n - a ELSE 0
<1> DEFINE L == Len(p.send_queue)
           Ack(i) == seq_delta(n % Modulus, p.send_queue[i].ns) > 0
           P(k) == /\ \A i \in 1 .. k : Ack(i)
                   /\ k < L => ~Ack(k + 1)
           k0 == IF n > a THEN n - a ELSE 0
<1>1. L \in Nat
  BY LenProperties
<1>2. \A i \in 1 .. L : Ack(i) <=> n > a + i - 1
  <2> SUFFICES ASSUME NEW i \in 1 .. L PROVE Ack(i) <=> n > a + i - 1
    OBVIOUS
  <2>1. -Half <= n - (a + i - 1) /\ n - (a + i - 1) < Half
    BY <1>1, HalfFacts
  <2>2. seq_delta(n % Modulus, (a + i - 1) % Modulus) = n - (a + i - 1)
    BY <2>1, <1>1, DeltaLemma
  <2> QED BY <2>2, <1>1
<1>3. k0 \in 0 .. L
  BY <1>1
<1> HIDE DEF Ack
<1>4. P(k0)
  BY <1>1, <1>2, <1>3
<1>5. \A k \in 0 .. L : P(k) => k = k0
  <2> SUFFICES ASSUME NEW k \in 0 .. L, P(k) PROVE k = k0
    OBVIOUS
  <2>1. k > 0 => n > a + k - 1
    BY <1>2, <1>1
  <2>2. k < L => ~(n > a + k)
    BY <1>2, <1>1
  <2> QED BY <2>1, <2>2, <1>1
<1>6. AckedCount(p, n % Modulus) = CHOOSE k \in 0 .. L : P(k)
  BY DEF AckedCount, Ack
<1> HIDE DEF P, k0
<1>7. AckedCount(p, n % Modulus) = k0
  BY <1>3, <1>4, <1>5, <1>6
<1> QED BY <1>7 DEF k0

\* The drain loop of receive() ends, within the window, and what it takes
\* from the buffer are the next messages in order.
LEMMA RunLemma ==
  ASSUME NEW p, p.reorder \in [SeqNum -> Nat \cup {NoMsg}],
         NEW r \in Nat, NEW sf \in Nat, p.nr_expect = r % Modulus,
         BufferShape(p.reorder, r, sf)
  PROVE  /\ RunLength(p) \in 1 .. ReceiveWindow + 1
         /\ \A j \in Nat : seq_advance(p.nr_expect, j) = (r + j) % Modulus
         /\ \A j \in 1 .. RunLength(p) - 1 :
               p.reorder[(r + j) % Modulus] = r + j /\ r + j < sf
         /\ p.reorder[(r + RunLength(p)) % Modulus] = NoMsg
<1> USE PeerAssumption
<1> DEFINE W == ReceiveWindow
           Slot(j) == p.reorder[(r + j) % Modulus]
<1>1. \A j \in Nat : seq_advance(p.nr_expect, j) = (r + j) % Modulus
  BY AdvanceLemma
<1>2. \A j \in 1 .. W + 1 : Slot(j) # NoMsg => Slot(j) = r + j /\ r + j <= r + W /\ r + j < sf
  <2> SUFFICES ASSUME NEW j \in 1 .. W + 1, Slot(j) # NoMsg
               PROVE Slot(j) = r + j /\ r + j <= r + W /\ r + j < sf
    OBVIOUS
  <2>1. (r + j) % Modulus \in SeqNum
    BY ModType
  <2>2. /\ Slot(j) \in r + 1 .. r + W
        /\ Slot(j) < sf
        /\ (r + j) % Modulus = Slot(j) % Modulus
    BY <2>1 DEF BufferShape
  <2>3. Slot(j) \in Int /\ Slot(j) - (r + j) < Half /\ (r + j) - Slot(j) < Half
    BY <2>2, HalfFacts
  <2>4. Slot(j) = r + j
    BY <2>2, <2>3, ModInjective, r + j \in Int
  <2> QED BY <2>2, <2>4
<1>3. Slot(W + 1) = NoMsg
  BY <1>2
<1>4. W + 1 \in 1 .. Modulus
  BY HalfFacts
<1> DEFINE T == {k \in 1 .. Modulus : Slot(k) = NoMsg}
           P(k) == /\ \A j \in 1 .. k - 1 : p.reorder[seq_advance(p.nr_expect, j)] # NoMsg
                   /\ p.reorder[seq_advance(p.nr_expect, k)] = NoMsg
<1>5. PICK k \in T : \A y \in T : k <= y
  <2>1. T \subseteq Nat
    BY HalfFacts
  <2>2. W + 1 \in T
    BY <1>3, <1>4
  <2> HIDE DEF T
  <2> QED BY <2>1, <2>2, SmallestExists
<1>6. P(k)
  <2>1. \A j \in 1 .. k - 1 : j \in 1 .. Modulus /\ j \in Nat /\ j < k
    BY HalfFacts
  <2>2. \A j \in 1 .. k - 1 : Slot(j) # NoMsg
    BY <2>1, <1>5
  <2>3. k \in Nat /\ Slot(k) = NoMsg
    BY <1>5
  <2> QED BY <2>1, <2>2, <2>3, <1>1
<1>7. RunLength(p) \in 1 .. Modulus /\ P(RunLength(p))
  <2>1. k \in 1 .. Modulus
    BY <1>5
  <2>2. RunLength(p) = CHOOSE n \in 1 .. Modulus : P(n)
    BY DEF RunLength
  <2> HIDE DEF P
  <2> QED BY <2>1, <2>2, <1>6
<1> DEFINE L == RunLength(p)
<1>8. L \in 1 .. Modulus /\ (\A j \in 1 .. L - 1 : Slot(j) # NoMsg) /\ Slot(L) = NoMsg
  <2>1. \A j \in 1 .. L - 1 : j \in Nat
    BY <1>7
  <2>2. L \in Nat
    BY <1>7
  <2> QED BY <2>1, <2>2, <1>1, <1>7
<1> HIDE DEF L, P, Slot
<1>9. L <= W + 1
  <2> SUFFICES ASSUME L > W + 1 PROVE FALSE
    BY <1>8
  <2>1. W + 1 \in 1 .. L - 1
    BY <1>8
  <2> QED BY <2>1, <1>3, <1>8
<1>10. \A j \in 1 .. L - 1 : Slot(j) = r + j /\ r + j < sf
  <2>1. \A j \in 1 .. L - 1 : j \in 1 .. W + 1
    BY <1>8, <1>9
  <2> QED BY <2>1, <1>8, <1>2
<1>11. L \in 1 .. W + 1
  BY <1>8, <1>9
<1> QED BY <1>1, <1>8, <1>10, <1>11 DEF L, Slot

\* The attributes of a Peer, one by one.
LEMMA TypeFacts ==
  ASSUME NEW p \in PeerType
  PROVE  /\ p.send_queue \in Seq(PendingType)
         /\ Len(p.send_queue) \in Nat
         /\ \A i \in 1 .. Len(p.send_queue) : p.send_queue[i] \in PendingType
         /\ p.reorder \in [SeqNum -> Nat \cup {NoMsg}]
         /\ p.dead \in BOOLEAN
         /\ p.ns_send \in SeqNum /\ p.nr_expect \in SeqNum
<1>1. p.send_queue \in Seq(PendingType)
  BY DEF PeerType
<1>2. /\ Len(p.send_queue) \in Nat
      /\ \A i \in 1 .. Len(p.send_queue) : p.send_queue[i] \in PendingType
  BY <1>1, LenProperties, ElementOfSeq
<1> QED BY <1>1, <1>2 DEF PeerType

\* send() appends the next message: a Peer in shape stays in shape, with one
\* more message sent.
LEMMA SendShape ==
  ASSUME NEW p, NEW e \in Ends, NEW s \in Nat, NEW r \in Nat, NEW rf \in Nat, NEW sf \in Nat,
         PeerShape(p, e, s, r, rf, sf),
         Len(p.send_queue) < MaxOutstanding
  PROVE  PeerShape(send(p, s), e, s + 1, r, rf, sf)
<1> DEFINE q == p.send_queue
           x == Pending(p, s)
           t == send(p, s)
           a == s - Len(q)
<1>1. p \in PeerType
  BY DEF PeerShape
<1>2. x \in PendingType
  BY <1>1, OtherFacts, PeerAssumption DEF Pending, PendingType, PeerType, PeerShape
<1>3. /\ Append(q, x) \in Seq(PendingType)
      /\ Len(Append(q, x)) = Len(q) + 1
      /\ \A i \in 1 .. Len(q) : Append(q, x)[i] = q[i]
      /\ Append(q, x)[Len(q) + 1] = x
  BY <1>1, <1>2, TypeFacts, AppendProperties
<1>4. seq_advance(p.ns_send, 1) = (s + 1) % Modulus /\ (s + 1) % Modulus \in SeqNum
  BY AdvanceLemma, ModType DEF PeerShape
<1>5. t \in PeerType /\ t.send_queue = Append(q, x) /\ t.ns_send = (s + 1) % Modulus
      /\ t.local_ccid = p.local_ccid /\ t.remote_ccid = p.remote_ccid
      /\ t.nr_expect = p.nr_expect /\ t.reorder = p.reorder /\ t.dead = p.dead
  BY <1>1, <1>3, <1>4 DEF PeerType, send
<1>6. Len(q) \in Nat
  BY <1>1, TypeFacts
<1>7. (s + 1) - Len(Append(q, x)) = a
  BY <1>3, <1>6
<1>8. QueueShape(Append(q, x), a, Other(e))
  <2> SUFFICES ASSUME NEW i \in 1 .. Len(q) + 1
               PROVE  /\ Append(q, x)[i].ccid = Other(e)
                      /\ Append(q, x)[i].body = a + i - 1
                      /\ Append(q, x)[i].ns = (a + i - 1) % Modulus
    BY <1>3 DEF QueueShape
  <2>1. CASE i \in 1 .. Len(q)
    BY <2>1, <1>3 DEF PeerShape, QueueShape
  <2>2. CASE i = Len(q) + 1
    BY <2>2, <1>3, <1>6 DEF PeerShape, Pending
  <2>3. i \in 1 .. Len(q) \/ i = Len(q) + 1
    BY <1>6
  <2> QED BY <2>1, <2>2, <2>3
<1>9. ~p.dead => \A i \in 1 .. Len(q) + 1 : Append(q, x)[i].retries <= MaxRetries
  <2> SUFFICES ASSUME ~p.dead, NEW i \in 1 .. Len(q) + 1
               PROVE  Append(q, x)[i].retries <= MaxRetries
    OBVIOUS
  <2>1. CASE i \in 1 .. Len(q)
    BY <2>1, <1>3 DEF PeerShape
  <2>2. CASE i = Len(q) + 1
    BY <2>2, <1>3, PeerAssumption DEF Pending
  <2>3. i \in 1 .. Len(q) \/ i = Len(q) + 1
    BY <1>6
  <2> QED BY <2>1, <2>2, <2>3
<1>10. /\ Len(t.send_queue) <= MaxOutstanding
       /\ 0 <= s + 1 - Len(t.send_queue)
       /\ s + 1 - Len(t.send_queue) <= rf
       /\ rf <= s + 1
  BY <1>3, <1>5, <1>6, ChannelAssumption DEF PeerShape
<1> QED BY <1>3, <1>5, <1>7, <1>8, <1>9, <1>10 DEF PeerShape

\* _consume_acks keeps a Peer in shape when the Nr stands for a count that
\* the other end had reached and that is not too old.
LEMMA ConsumeShape ==
  ASSUME NEW p, NEW e \in Ends, NEW s \in Nat, NEW r \in Nat, NEW rf \in Nat, NEW sf \in Nat,
         PeerShape(p, e, s, r, rf, sf),
         NEW n \in Nat, n <= rf, s - n <= MaxAge
  PROVE  /\ PeerShape(consume_acks(p, n % Modulus), e, s, r, rf, sf)
         /\ consume_acks(p, n % Modulus).nr_expect = p.nr_expect
         /\ consume_acks(p, n % Modulus).reorder = p.reorder
         /\ Len(consume_acks(p, n % Modulus).send_queue) <= Len(p.send_queue)
<1> DEFINE q == p.send_queue
           L == Len(q)
           a == s - L
           k == AckedCount(p, n % Modulus)
           q2 == SubSeq(q, k + 1, L)
           t == consume_acks(p, n % Modulus)
<1>1. p \in PeerType /\ L \in Nat /\ a \in Nat /\ q \in Seq(PendingType)
  BY TypeFacts DEF PeerShape
<1>a. L <= MaxOutstanding /\ a <= rf /\ rf <= s /\ a = s - L
  BY DEF PeerShape
<1>2. k = IF n > a THEN n - a ELSE 0
  <2>1. \A i \in 1 .. L : q[i].ns = (a + i - 1) % Modulus
    BY DEF PeerShape, QueueShape
  <2>2. n <= a + L /\ L < Half /\ a + L - n <= Half
    <3> HIDE DEF L, a
    <3> QED BY <1>1, <1>a, ChannelAssumption, HalfFacts
  <2> QED BY <1>1, <2>1, <2>2, AckedCountLemma
<1> HIDE DEF k
<1>3. k \in 0 .. L /\ a + k <= rf
  <2> HIDE DEF L, a
  <2> QED BY <1>1, <1>2, <1>a
<1>4. /\ q2 \in Seq(PendingType)
      /\ Len(q2) = L - k
      /\ \A i \in 1 .. L - k : q2[i] = q[k + i]
  <2>1. \A i \in k + 1 .. L : q[i] \in PendingType
    BY <1>1, <1>3, TypeFacts
  <2>2. /\ q2 \in Seq(PendingType)
        /\ Len(q2) = IF k + 1 <= L THEN L - (k + 1) + 1 ELSE 0
        /\ \A i \in 1 .. L - (k + 1) + 1 : q2[i] = q[k + 1 + i - 1]
    <3>1. k + 1 \in Int /\ L \in Int
      BY <1>1, <1>3
    <3> DEFINE m == k + 1
    <3> HIDE DEF m, L
    <3>2. m \in Int /\ \A i \in m .. L : q[i] \in PendingType
      BY <2>1, <3>1 DEF m
    <3>3. /\ SubSeq(q, m, L) \in Seq(PendingType)
          /\ Len(SubSeq(q, m, L)) = IF m <= L THEN L - m + 1 ELSE 0
          /\ \A i \in 1 .. L - m + 1 : SubSeq(q, m, L)[i] = q[m + i - 1]
      BY <3>1, <3>2, SubSeqProperties
    <3> QED BY <3>3 DEF m
  <2>3. L - (k + 1) + 1 = L - k
    BY <1>1, <1>3
  <2>4. \A i \in 1 .. L - k : k + 1 + i - 1 = k + i
    BY <1>1, <1>3
  <2> QED BY <2>2, <2>3, <2>4, <1>1, <1>3
<1>5. t \in PeerType /\ t.send_queue = q2 /\ t.ns_send = p.ns_send
      /\ t.local_ccid = p.local_ccid /\ t.remote_ccid = p.remote_ccid
      /\ t.nr_expect = p.nr_expect /\ t.reorder = p.reorder /\ t.dead = p.dead
  BY <1>1, <1>4 DEF PeerType, consume_acks, k
<1> HIDE DEF q2, t
<1>6. QueueShape(q2, s - Len(q2), Other(e))
  <2> SUFFICES ASSUME NEW i \in 1 .. L - k
               PROVE  /\ q2[i].ccid = Other(e)
                      /\ q2[i].body = s - Len(q2) + i - 1
                      /\ q2[i].ns = (s - Len(q2) + i - 1) % Modulus
    BY <1>4 DEF QueueShape
  <2>1. k + i \in 1 .. L /\ a + (k + i) - 1 = s - Len(q2) + i - 1
    BY <1>1, <1>3, <1>4
  <2> QED BY <2>1, <1>4 DEF PeerShape, QueueShape
<1>7. ~p.dead => \A i \in 1 .. L - k : q2[i].retries <= MaxRetries
  <2>1. \A i \in 1 .. L - k : k + i \in 1 .. L
    BY <1>1, <1>3
  <2> QED BY <2>1, <1>4 DEF PeerShape
<1>8. /\ Len(q2) <= MaxOutstanding
      /\ 0 <= s - Len(q2)
      /\ s - Len(q2) <= rf
      /\ Len(q2) <= L
  BY <1>1, <1>3, <1>4, ChannelAssumption DEF PeerShape
<1>9. PeerShape(t, e, s, r, rf, sf)
  BY <1>4, <1>5, <1>6, <1>7, <1>8 DEF PeerShape
<1> QED BY <1>5, <1>8, <1>9 DEF t

\* The in-order branch of receive() takes the expected message and its
\* buffered successors, and leaves the Peer in shape for the higher count.
LEMMA AcceptShape ==
  ASSUME NEW p, NEW e \in Ends, NEW s \in Nat, NEW r \in Nat, NEW rf \in Nat, NEW sf \in Nat,
         PeerShape(p, e, s, r, rf, sf),
         r < sf
  PROVE  /\ PeerShape(AcceptRun(p), e, s, r + RunLength(p), rf, sf)
         /\ RunLength(p) \in Nat
         /\ r + RunLength(p) <= sf
         /\ Run(p, r) \in Seq(Nat)
         /\ Len(Run(p, r)) = RunLength(p)
         /\ \A i \in 1 .. RunLength(p) : Run(p, r)[i] = r + i - 1
<1> DEFINE W == ReceiveWindow
           k == RunLength(p)
           buf == p.reorder
           buf2 == AcceptRun(p).reorder
           t == AcceptRun(p)
<1>1. p \in PeerType /\ p.nr_expect = r % Modulus /\ BufferShape(buf, r, sf)
  BY DEF PeerShape
<1>2. buf \in [SeqNum -> Nat \cup {NoMsg}]
  BY <1>1, TypeFacts
<1>3. /\ k \in 1 .. W + 1
      /\ \A j \in Nat : seq_advance(p.nr_expect, j) = (r + j) % Modulus
      /\ \A j \in 1 .. k - 1 : buf[(r + j) % Modulus] = r + j /\ r + j < sf
      /\ buf[(r + k) % Modulus] = NoMsg
  BY <1>1, <1>2, RunLemma
<1>4. k \in Nat /\ k >= 1 /\ \A j \in 1 .. k - 1 : j \in Nat
  BY <1>3, PeerAssumption
<1>5. /\ seq_advance(p.nr_expect, k) = (r + k) % Modulus
      /\ (r + k) % Modulus \in SeqNum
  BY <1>3, <1>4, ModType
<1>6. t \in PeerType /\ t.send_queue = p.send_queue /\ t.ns_send = p.ns_send
      /\ t.local_ccid = p.local_ccid /\ t.remote_ccid = p.remote_ccid
      /\ t.nr_expect = (r + k) % Modulus /\ t.dead = p.dead
      /\ t.reorder = [ns \in SeqNum |->
            IF \E j \in 1 .. k - 1 : ns = seq_advance(p.nr_expect, j)
            THEN NoMsg ELSE buf[ns]]
  BY <1>1, <1>2, <1>5 DEF PeerType, AcceptRun
<1>7. r + k <= sf
  <2>1. CASE k = 1
    BY <2>1
  <2>2. CASE k > 1
    <3>1. k - 1 \in 1 .. k - 1
      BY <2>2, <1>4
    <3>2. r + (k - 1) < sf
      BY <3>1, <1>3
    <3> HIDE DEF k
    <3> QED BY <3>2, <1>4
  <2> QED BY <2>1, <2>2, <1>4
<1> HIDE DEF k, t, buf
<1>8. BufferShape(t.reorder, r + k, sf)
  <2> SUFFICES ASSUME NEW ns \in SeqNum, t.reorder[ns] # NoMsg
               PROVE  /\ t.reorder[ns] \in r + k + 1 .. r + k + W
                      /\ t.reorder[ns] < sf
                      /\ ns = t.reorder[ns] % Modulus
    BY DEF BufferShape
  <2> DEFINE v == buf[ns]
  <2>1. t.reorder[ns] = v /\ v # NoMsg
        /\ \A j \in 1 .. k - 1 : ns # seq_advance(p.nr_expect, j)
    BY <1>6
  <2>2. v \in r + 1 .. r + W /\ v < sf /\ ns = v % Modulus
    BY <2>1, <1>1 DEF BufferShape
  <2>3. v - r \in Nat /\ r + (v - r) = v
    BY <2>2, PeerAssumption
  <2>4. ~(v - r \in 1 .. k - 1)
    BY <2>1, <2>2, <2>3, <1>3
  <2>5. v # r + k
    BY <2>1, <2>2, <1>3
  <2>6. v >= r + k + 1 /\ v <= r + k + W
    BY <2>2, <2>4, <2>5, <1>4, PeerAssumption
  <2>7. v \in Nat
    BY <2>2, PeerAssumption
  <2> QED BY <2>1, <2>2, <2>6, <2>7, <1>4, PeerAssumption
<1>9. PeerShape(t, e, s, r + k, rf, sf)
  BY <1>6, <1>8 DEF PeerShape
<1>10. /\ Run(p, r) = [i \in 1 .. k |-> IF i = 1 THEN r ELSE buf[seq_advance(p.nr_expect, i - 1)]]
  BY DEF Run, k, buf
<1>11. \A i \in 1 .. k : Run(p, r)[i] = r + i - 1
  <2> SUFFICES ASSUME NEW i \in 1 .. k PROVE Run(p, r)[i] = r + i - 1
    OBVIOUS
  <2>1. CASE i = 1
    BY <2>1, <1>10
  <2>2. CASE i # 1
    <3>1. i - 1 \in 1 .. k - 1 /\ i - 1 \in Nat
      BY <2>2, <1>4
    <3>2. Run(p, r)[i] = buf[(r + (i - 1)) % Modulus]
      BY <3>1, <2>2, <1>3, <1>10
    <3>3. Run(p, r)[i] = r + (i - 1)
      BY <3>1, <3>2, <1>3
    <3> QED BY <3>3
  <2> QED BY <2>1, <2>2
<1>12. Run(p, r) \in Seq(Nat) /\ Len(Run(p, r)) = k
  <2>1. DOMAIN Run(p, r) = 1 .. k
    BY <1>10
  <2>2. \A i \in 1 .. k : r + i - 1 \in Nat
    BY <1>4
  <2>3. Run(p, r) \in [1 .. k -> Nat]
    BY <1>10, <1>11, <2>1, <2>2
  <2>4. Run(p, r) \in Seq(Nat)
    BY <2>3, <1>4, SeqDef
  <2> QED BY <2>1, <2>4, <1>4, LenProperties
<1> QED BY <1>4, <1>7, <1>9, <1>11, <1>12 DEF k, t

\* Buffering a message inside the window keeps a Peer in shape (receive()).
LEMMA BufferShapeStep ==
  ASSUME NEW p, NEW e \in Ends, NEW s \in Nat, NEW r \in Nat, NEW rf \in Nat, NEW sf \in Nat,
         PeerShape(p, e, s, r, rf, sf),
         NEW b \in Nat, b \in r + 1 .. r + ReceiveWindow, b < sf
  PROVE  PeerShape([p EXCEPT !.reorder[b % Modulus] = b], e, s, r, rf, sf)
<1> DEFINE t == [p EXCEPT !.reorder[b % Modulus] = b]
<1>1. p \in PeerType /\ b % Modulus \in SeqNum /\ BufferShape(p.reorder, r, sf)
  BY ModType DEF PeerShape
<1>2. p.reorder \in [SeqNum -> Nat \cup {NoMsg}]
  BY <1>1, TypeFacts
<1>3. t \in PeerType /\ t.send_queue = p.send_queue /\ t.ns_send = p.ns_send
      /\ t.local_ccid = p.local_ccid /\ t.remote_ccid = p.remote_ccid
      /\ t.nr_expect = p.nr_expect /\ t.dead = p.dead
      /\ t.reorder = [p.reorder EXCEPT ![b % Modulus] = b]
  BY <1>1, <1>2 DEF PeerType
<1> HIDE DEF t
<1>4. BufferShape(t.reorder, r, sf)
  BY <1>1, <1>2, <1>3 DEF BufferShape
<1>5. PeerShape(t, e, s, r, rf, sf)
  BY <1>3, <1>4 DEF PeerShape
<1> QED BY <1>5 DEF t

\* A message, carrying the full count n as its Nr, that may reach the end e
\* when it has sent s messages and taken r, and the other end sf and rf.
Receivable(m, n, e, s, r, rf, sf) ==
    /\ r <= sf /\ sf - r <= MaxOutstanding
    /\ m.ccid = e /\ m.nr = n % Modulus /\ n <= rf /\ s - n <= MaxAge
    /\ m.body \in Nat \cup {Zlb}
    /\ m.body # Zlb =>
         /\ m.ns = m.body % Modulus
         /\ m.body < sf
         /\ sf - m.body <= MaxAge

\* A run of consecutive messages starting with number r.
Consecutive(seq, r) == \A i \in 1 .. Len(seq) : seq[i] = r + i - 1

\* receive(): what is delivered are the next messages of the other end, in
\* order, and the Peer stays in shape.
LEMMA ReceiveShape ==
  ASSUME NEW p, NEW e \in Ends, NEW s \in Nat, NEW r \in Nat, NEW rf \in Nat, NEW sf \in Nat,
         PeerShape(p, e, s, r, rf, sf),
         NEW m, NEW n \in Nat, Receivable(m, n, e, s, r, rf, sf)
  PROVE  /\ delivered(p, m) \in Seq(Nat)
         /\ Consecutive(delivered(p, m), r)
         /\ r + Len(delivered(p, m)) <= sf
         /\ PeerShape(receive(p, m), e, s, r + Len(delivered(p, m)), rf, sf)
         /\ Len(receive(p, m).send_queue) <= Len(p.send_queue)
<1> USE DEF Receivable, Consecutive
<1> DEFINE q == consume_acks(p, m.nr)
<1>1. /\ PeerShape(q, e, s, r, rf, sf)
      /\ q.nr_expect = p.nr_expect
      /\ q.reorder = p.reorder
      /\ Len(q.send_queue) <= Len(p.send_queue)
  BY ConsumeShape
<1> HIDE DEF q
<1>2. p.nr_expect = r % Modulus /\ Addressed(p, m)
  BY DEF PeerShape, Addressed
<1>3. receive(p, m) = IF InOrder(q, m) THEN AcceptRun(q)
                      ELSE IF Ahead(q, m) THEN [q EXCEPT !.reorder[m.ns] = m.body]
                      ELSE q
  BY <1>2 DEF receive, q
<1>4. m.body # Zlb => seq_delta(m.ns, q.nr_expect) = m.body - r
  <2> SUFFICES ASSUME m.body # Zlb PROVE seq_delta(m.ns, q.nr_expect) = m.body - r
    OBVIOUS
  <2>1. m.body \in Nat
    OBVIOUS
  <2>2. -Half <= m.body - r /\ m.body - r < Half
    BY <2>1, ChannelAssumption, HalfFacts
  <2>3. seq_delta(m.body % Modulus, r % Modulus) = m.body - r
    BY <2>1, <2>2, DeltaLemma
  <2> QED BY <2>3, <1>1, <1>2
<1>5. InOrder(p, m) <=> InOrder(q, m)
  BY <1>1 DEF InOrder
<1>6. CASE InOrder(q, m)
  <2>1. m.body # Zlb /\ m.body \in Nat /\ m.body = r
    BY <1>4, <1>6 DEF InOrder
  <2>2. RunLength(q) = RunLength(p) /\ Run(q, m.body) = Run(p, m.body)
    BY <1>1 DEF RunLength, Run
  <2>3. delivered(p, m) = Run(q, r)
    BY <2>1, <2>2, <1>2, <1>5, <1>6 DEF delivered
  <2>4. r < sf
    BY <2>1
  <2>5. /\ PeerShape(AcceptRun(q), e, s, r + RunLength(q), rf, sf)
        /\ r + RunLength(q) <= sf
        /\ Run(q, r) \in Seq(Nat)
        /\ Len(Run(q, r)) = RunLength(q)
        /\ \A i \in 1 .. RunLength(q) : Run(q, r)[i] = r + i - 1
    BY <2>4, <1>1, AcceptShape
  <2>6. receive(p, m) = AcceptRun(q)
    BY <1>3, <1>6
  <2>7. AcceptRun(q).send_queue = q.send_queue
    BY <1>1 DEF AcceptRun, PeerShape, PeerType
  <2> QED BY <2>3, <2>5, <2>6, <2>7, <1>1
<1>7. CASE ~InOrder(q, m)
  <2>1. delivered(p, m) = << >>
    BY <1>5, <1>7 DEF delivered
  <2>2. /\ << >> \in Seq(Nat)
        /\ Len(<< >>) = 0
        /\ \A i \in 1 .. Len(<< >>) : << >>[i] = r + i - 1
        /\ r + Len(<< >>) = r
    BY EmptySeq
  <2>3. PeerShape(receive(p, m), e, s, r, rf, sf)
        /\ Len(receive(p, m).send_queue) <= Len(p.send_queue)
    <3>1. CASE Ahead(q, m)
      <4>1. m.body \in Nat /\ m.ns = m.body % Modulus /\ m.body < sf
            /\ m.body \in r + 1 .. r + ReceiveWindow
        BY <3>1, <1>4, PeerAssumption DEF Ahead
      <4>2. receive(p, m) = [q EXCEPT !.reorder[m.body % Modulus] = m.body]
        BY <4>1, <3>1, <1>3, <1>7
      <4>3. PeerShape([q EXCEPT !.reorder[m.body % Modulus] = m.body], e, s, r, rf, sf)
        BY <4>1, <1>1, BufferShapeStep
      <4>4. [q EXCEPT !.reorder[m.body % Modulus] = m.body].send_queue = q.send_queue
        BY <1>1 DEF PeerShape, PeerType
      <4> QED BY <4>2, <4>3, <4>4, <1>1
    <3>2. CASE ~Ahead(q, m)
      BY <3>2, <1>1, <1>3, <1>7
    <3> QED BY <3>1, <3>2
  <2> QED BY <2>1, <2>2, <2>3
<1> QED BY <1>6, <1>7

\* Counting a retry changes nothing else of a queued message (tick()).
LEMMA RetryLemma ==
  ASSUME NEW x \in PendingType, x.retries <= MaxRetries, NEW y,
         y = [x EXCEPT !.retries = @ + 1]
  PROVE  /\ y \in PendingType
         /\ y.ccid = x.ccid /\ y.ns = x.ns /\ y.body = x.body
         /\ y.retries = x.retries + 1
<1>1. x.retries \in 0 .. MaxRetries + 1
  BY DEF PendingType
<1>2. x.retries + 1 \in 0 .. MaxRetries + 1
  BY <1>1, PeerAssumption
<1> QED BY <1>2 DEF PendingType

\* tick() keeps a Peer in shape and drops nothing from its queue.
LEMMA TickShape ==
  ASSUME NEW p, NEW e \in Ends, NEW s \in Nat, NEW r \in Nat, NEW rf \in Nat, NEW sf \in Nat,
         PeerShape(p, e, s, r, rf, sf),
         NEW expired \in SUBSET (1 .. Len(p.send_queue))
  PROVE  /\ PeerShape(tick(p, expired), e, s, r, rf, sf)
         /\ Len(tick(p, expired).send_queue) = Len(p.send_queue)
<1> DEFINE q == p.send_queue
           L == Len(q)
           out == Exhausted(p, expired)
           Counted(i) == i \in expired /\ \A j \in out : i <= j
           q2 == [i \in 1 .. L |-> IF Counted(i) THEN [q[i] EXCEPT !.retries = @ + 1] ELSE q[i]]
           t == tick(p, expired)
<1>1. CASE p.dead
  BY <1>1 DEF tick
<1>2. CASE ~p.dead
  <2>1. /\ p \in PeerType /\ L \in Nat
        /\ \A i \in 1 .. L : q[i] \in PendingType /\ q[i].retries <= MaxRetries
    BY <1>2, TypeFacts DEF PeerShape
  <2>2. \A i \in 1 .. L :
           /\ q2[i] \in PendingType
           /\ q2[i].ccid = q[i].ccid
           /\ q2[i].ns = q[i].ns
           /\ q2[i].body = q[i].body
           /\ q2[i].retries = IF Counted(i) THEN q[i].retries + 1 ELSE q[i].retries
    <3> SUFFICES ASSUME NEW i \in 1 .. L
                 PROVE  /\ q2[i] \in PendingType
                        /\ q2[i].ccid = q[i].ccid
                        /\ q2[i].ns = q[i].ns
                        /\ q2[i].body = q[i].body
                        /\ q2[i].retries = IF Counted(i) THEN q[i].retries + 1 ELSE q[i].retries
      OBVIOUS
    <3> HIDE DEF Counted
    <3>1. CASE Counted(i)
      <4>1. q2[i] = [q[i] EXCEPT !.retries = @ + 1]
        BY <3>1
      <4> HIDE DEF q2
      <4> QED BY <4>1, <3>1, <2>1, RetryLemma
    <3>2. CASE ~Counted(i)
      <4>1. q2[i] = q[i]
        BY <3>2
      <4> HIDE DEF q2
      <4> QED BY <4>1, <3>2, <2>1
    <3> QED BY <3>1, <3>2
  <2>3. q2 \in Seq(PendingType) /\ Len(q2) = L
    <3>1. q2 \in [1 .. L -> PendingType]
      BY <2>2
    <3>2. q2 \in Seq(PendingType)
      BY <3>1, <2>1, SeqDef
    <3> QED BY <3>2, <2>1, LenProperties
  <2>4. t = [p EXCEPT !.dead = out # {}, !.send_queue = q2]
    BY <1>2 DEF tick
  <2> HIDE DEF q2, t
  <2>5. t \in PeerType /\ t.send_queue = q2 /\ t.ns_send = p.ns_send
        /\ t.local_ccid = p.local_ccid /\ t.remote_ccid = p.remote_ccid
        /\ t.nr_expect = p.nr_expect /\ t.dead = (out # {})
        /\ t.reorder = p.reorder
    BY <2>1, <2>3, <2>4 DEF PeerType
  <2>6. QueueShape(q2, s - L, Other(e))
    BY <2>2, <2>3 DEF PeerShape, QueueShape
  <2>7. ~t.dead => \A i \in 1 .. L : q2[i].retries <= MaxRetries
    <3> SUFFICES ASSUME out = {}, NEW i \in 1 .. L PROVE q2[i].retries <= MaxRetries
      BY <2>5
    <3>1. CASE i \in expired
      <4>1. ~(q[i].retries + 1 > MaxRetries)
        BY <3>1 DEF Exhausted
      <4>2. q[i].retries \in Int
        BY <2>1, PeerAssumption DEF PendingType
      <4> QED BY <4>1, <4>2, <2>2, PeerAssumption, <3>1
    <3>2. CASE i \notin expired
      BY <3>2, <2>1, <2>2
    <3> QED BY <3>1, <3>2
  <2>8. PeerShape(t, e, s, r, rf, sf)
    BY <2>3, <2>5, <2>6, <2>7 DEF PeerShape
  <2> QED BY <2>3, <2>5, <2>8 DEF t
<1> QED BY <1>1, <1>2

\* The other end moving on keeps the shape of this one.
LEMMA ShapeMonotonic ==
  ASSUME NEW p, NEW e \in Ends, NEW s \in Nat, NEW r \in Nat, NEW rf \in Nat, NEW sf \in Nat,
         PeerShape(p, e, s, r, rf, sf),
         NEW rf2 \in Nat, NEW sf2 \in Nat, rf <= rf2, rf2 <= s, sf <= sf2
  PROVE  PeerShape(p, e, s, r, rf2, sf2)
<1>1. Len(p.send_queue) \in Nat
  BY TypeFacts DEF PeerShape
<1>2. s - Len(p.send_queue) <= rf2
  BY <1>1 DEF PeerShape
<1>3. BufferShape(p.reorder, r, sf2)
  BY PeerAssumption DEF PeerShape, BufferShape
<1> QED BY <1>2, <1>3 DEF PeerShape

-----------------------------------------------------------------------------
(* The composition *)

\* The inductive invariant, seen from one end.
LEMMA InvFacts ==
  ASSUME IndInv, NEW e \in Ends
  PROVE  /\ sent[e] \in Nat
         /\ got[e] \in Seq(Nat)
         /\ Len(got[e]) \in Nat
         /\ peer[e] \in PeerType
         /\ Len(peer[e].send_queue) \in Nat
         /\ PeerShape(peer[e], e, sent[e], Len(got[e]), Len(got[Other(e)]), sent[Other(e)])
         /\ Len(got[Other(e)]) <= sent[e]
         /\ sent[e] - Len(got[Other(e)]) <= MaxOutstanding
<1>1. sent[e] \in Nat /\ got[e] \in Seq(Nat) /\ peer[e] \in PeerType
  BY DEF IndInv, TypeOK
<1>2. Len(got[e]) \in Nat /\ Len(peer[e].send_queue) \in Nat
  BY <1>1, LenProperties, TypeFacts
<1>3. PeerShape(peer[e], e, sent[e], Len(got[e]), Len(got[Other(e)]), sent[Other(e)])
  BY DEF IndInv, PeerInv
<1>4. Len(got[Other(e)]) \in Nat
  <2>1. got[Other(e)] \in Seq(Nat)
    BY OtherFacts DEF IndInv, TypeOK
  <2> QED BY <2>1, LenProperties
<1>5. Len(got[Other(e)]) <= sent[e] /\ sent[e] - Len(got[Other(e)]) <= MaxOutstanding
  <2>1. /\ Len(peer[e].send_queue) <= MaxOutstanding
        /\ sent[e] - Len(peer[e].send_queue) <= Len(got[Other(e)])
        /\ Len(got[Other(e)]) <= sent[e]
    BY <1>3 DEF PeerShape
  <2> QED BY <2>1, <1>1, <1>2, <1>4, ChannelAssumption
<1> QED BY <1>1, <1>2, <1>3, <1>5

\* A message an end may transmit at a moment when its counts are s and r and
\* the other end has sent sf.
Sendable(m, e, s, r, sf) ==
    /\ m \in MessageType
    /\ m.ccid = Other(e)
    /\ m.nr = r % Modulus
    /\ sf - r <= MaxAge
    /\ m.body # Zlb =>
         /\ m.ns = m.body % Modulus
         /\ m.body < s
         /\ s - m.body <= MaxAge

\* Steps in which counts only grow keep what is known of the network.
LEMMA TransmitLemma ==
  ASSUME IndInv, NEW e \in Ends, NEW msgs, Transmit(e, msgs),
         sent' \in [Ends -> Nat], got' \in [Ends -> Seq(Nat)],
         \A f \in Ends : sent[f] <= sent'[f] /\ Len(got[f]) <= Len(got'[f]),
         \A m \in msgs :
             Sendable(m, e, sent'[e], Len(got'[e]), sent'[Other(e)])
  PROVE  /\ net' \subseteq [dst : Ends, msg : MessageType, ack : Nat]
         /\ \A d \in net' : DatagramInv(d)'
<1> SUFFICES ASSUME NEW d \in net'
             PROVE  d \in [dst : Ends, msg : MessageType, ack : Nat] /\ DatagramInv(d)'
  OBVIOUS
<1>1. \/ d \in net /\ Young(d, sent')
      \/ \E m \in msgs : d = Datagram(Other(e), m, Len(got'[e]))
  BY DEF Transmit
<1>2. \A f \in Ends : Len(got[f]) \in Nat /\ Len(got'[f]) \in Nat /\ sent[f] \in Nat /\ sent'[f] \in Nat
  <2>1. \A f \in Ends : got'[f] \in Seq(Nat)
    OBVIOUS
  <2> QED BY <2>1, InvFacts, LenProperties
<1>3. CASE d \in net /\ Young(d, sent')
  <2>1. d \in [dst : Ends, msg : MessageType, ack : Nat] /\ DatagramInv(d)
    BY <1>3 DEF IndInv, TypeOK
  <2>2. d.dst \in Ends /\ Other(d.dst) \in Ends /\ d.ack \in Nat /\ d.msg.body \in Nat \cup {Zlb}
    BY <2>1, OtherFacts DEF MessageType
  <2>3. d.ack <= Len(got'[Other(d.dst)])
    BY <2>1, <2>2, <1>2 DEF DatagramInv
  <2>4. d.msg.body # Zlb => d.msg.body < sent'[Other(d.dst)]
    BY <2>1, <2>2, <1>2 DEF DatagramInv
  <2> QED BY <2>1, <2>3, <2>4, <1>3 DEF DatagramInv, Young
<1>4. CASE \E m \in msgs : d = Datagram(Other(e), m, Len(got'[e]))
  <2>1. PICK m \in msgs : d = Datagram(Other(e), m, Len(got'[e]))
    BY <1>4
  <2>2. /\ d.dst = Other(e) /\ Other(d.dst) = e /\ d.msg = m /\ d.ack = Len(got'[e])
        /\ Other(e) \in Ends
    BY <2>1, OtherFacts DEF Datagram
  <2>3. Sendable(m, e, sent'[e], Len(got'[e]), sent'[Other(e)])
    OBVIOUS
  <2>4. d \in [dst : Ends, msg : MessageType, ack : Nat]
    BY <2>1, <2>2, <2>3, <1>2 DEF Sendable, Datagram
  <2>5. DatagramInv(d)'
    BY <2>2, <2>3, <1>2 DEF Sendable, DatagramInv
  <2> QED BY <2>4, <2>5
<1> QED BY <1>1, <1>3, <1>4

\* What remains to be shown when a step changes only the Peer of end e.
LEMMA StepLemma ==
  ASSUME IndInv, NEW e \in Ends, NEW q,
         peer' = [peer EXCEPT ![e] = q],
         sent' \in [Ends -> Nat], got' \in [Ends -> Seq(Nat)],
         sent'[Other(e)] = sent[Other(e)], got'[Other(e)] = got[Other(e)],
         sent[e] <= sent'[e], Len(got[e]) <= Len(got'[e]),
         Len(got'[e]) <= sent[Other(e)],
         PeerShape(q, e, sent'[e], Len(got'[e]), Len(got[Other(e)]), sent[Other(e)]),
         HistoryInv(e)',
         net' \subseteq [dst : Ends, msg : MessageType, ack : Nat],
         \A d \in net' : DatagramInv(d)'
  PROVE  IndInv'
<1> DEFINE f == Other(e)
<1>1. f \in Ends /\ f # e /\ Other(f) = e /\ Ends = {e, f}
  BY OtherFacts DEF Ends, Other
<1>2. peer \in [Ends -> PeerType]
  BY DEF IndInv, TypeOK
<1>3. peer'[e] = q /\ peer'[f] = peer[f]
  BY <1>1, <1>2
<1>4. PeerInv(e)'
  BY <1>1, <1>3 DEF PeerInv
<1>5. PeerInv(f)'
  <2>1. PeerShape(peer[f], f, sent[f], Len(got[f]), Len(got[e]), sent[e])
    BY <1>1, InvFacts
  <2>2. /\ sent[f] \in Nat /\ Len(got[f]) \in Nat /\ Len(got[e]) \in Nat /\ sent[e] \in Nat
        /\ Len(got'[e]) \in Nat /\ sent'[e] \in Nat
    <3>1. got'[e] \in Seq(Nat) /\ sent'[e] \in Nat
      OBVIOUS
    <3> QED BY <3>1, <1>1, InvFacts, LenProperties
  <2>3. PeerShape(peer[f], f, sent[f], Len(got[f]), Len(got'[e]), sent'[e])
    BY <2>1, <2>2, <1>1, ShapeMonotonic
  <2> QED BY <2>3, <1>1, <1>3 DEF PeerInv
<1>6. HistoryInv(f)'
  BY <1>1 DEF IndInv, HistoryInv
<1>7. TypeOK'
  <2>1. q \in PeerType
    BY DEF PeerShape
  <2>2. peer' \in [Ends -> PeerType]
    BY <2>1, <1>2
  <2> QED BY <2>2 DEF TypeOK
<1> QED BY <1>1, <1>4, <1>5, <1>6, <1>7 DEF IndInv

\* Two fresh Peers and an empty network satisfy the inductive invariant.
LEMMA InitInv == Init => IndInv
<1> SUFFICES ASSUME Init PROVE IndInv
  OBVIOUS
<1>1. 0 % Modulus = 0 /\ 0 \in SeqNum
  BY ModulusAssumption DEF SeqNum
<1>2. << >> \in Seq(PendingType) /\ << >> \in Seq(Nat) /\ Len(<< >>) = 0
  BY EmptySeq
<1>3. \A e \in Ends : NewPeer(e, Other(e)) \in PeerType
  BY <1>1, <1>2, OtherFacts DEF NewPeer, PeerType
<1>4. TypeOK
  BY <1>2, <1>3 DEF Init, TypeOK
<1>5. \A e \in Ends : PeerInv(e)
  <2> SUFFICES ASSUME NEW e \in Ends PROVE PeerInv(e)
    OBVIOUS
  <2>1. /\ sent[e] = 0 /\ sent[Other(e)] = 0 /\ Len(got[e]) = 0 /\ Len(got[Other(e)]) = 0
        /\ peer[e] = NewPeer(e, Other(e))
    BY <1>2, OtherFacts DEF Init
  <2>2. PeerShape(NewPeer(e, Other(e)), e, 0, 0, 0, 0)
    BY <1>1, <1>2, <1>3, ChannelAssumption DEF PeerShape, NewPeer, QueueShape, BufferShape
  <2> QED BY <2>1, <2>2 DEF PeerInv
<1>6. \A e \in Ends : HistoryInv(e)
  BY <1>2 DEF Init, HistoryInv
<1>7. net = {}
  BY DEF Init
<1> QED BY <1>4, <1>5, <1>6, <1>7 DEF IndInv

\* Sending a message (Tunnel._send) preserves the inductive invariant.
LEMMA SendInv ==
  ASSUME IndInv, NEW e \in Ends, Send(e)
  PROVE  IndInv'
<1> DEFINE p == peer[e]
           f == Other(e)
           s == sent[e]
           r == Len(got[e])
<1>1. /\ s \in Nat /\ r \in Nat /\ Len(got[f]) \in Nat /\ sent[f] \in Nat
      /\ PeerShape(p, e, s, r, Len(got[f]), sent[f])
      /\ sent[f] - r <= MaxOutstanding /\ r <= sent[f]
      /\ f \in Ends /\ f # e
  BY InvFacts, OtherFacts
<1>2. /\ Len(p.send_queue) < MaxOutstanding
      /\ peer' = [peer EXCEPT ![e] = send(p, s)]
      /\ sent' = [sent EXCEPT ![e] = @ + 1]
      /\ got' = got
      /\ Transmit(e, {stamped(p, s)})
  BY DEF Send
<1>3. sent \in [Ends -> Nat] /\ got \in [Ends -> Seq(Nat)]
  BY DEF IndInv, TypeOK
<1>4. /\ sent' \in [Ends -> Nat] /\ sent'[e] = s + 1 /\ sent'[f] = sent[f]
      /\ \A g \in Ends : sent[g] <= sent'[g] /\ Len(got[g]) <= Len(got'[g])
  <2>1. \A g \in Ends : Len(got[g]) \in Nat /\ sent[g] \in Nat
    BY InvFacts
  <2> QED BY <2>1, <1>1, <1>2, <1>3
<1>5. PeerShape(send(p, s), e, s + 1, r, Len(got[f]), sent[f])
  BY <1>1, <1>2, SendShape
<1>6. Sendable(stamped(p, s), e, s + 1, r, sent[f])
  <2>1. p.ns_send = s % Modulus /\ p.nr_expect = r % Modulus /\ p.remote_ccid = f
    BY <1>1 DEF PeerShape
  <2>2. stamped(p, s) \in MessageType
    BY <2>1, <1>1, ModType DEF stamped, MessageType
  <2>3. Len(p.send_queue) \in Nat
    BY InvFacts
  <2>4. sent[f] - r <= MaxAge /\ 1 <= MaxAge
    BY <1>1, <1>2, <2>3, ChannelAssumption
  <2> QED BY <2>1, <2>2, <2>4, <1>1 DEF Sendable, stamped
<1>7. /\ net' \subseteq [dst : Ends, msg : MessageType, ack : Nat]
      /\ \A d \in net' : DatagramInv(d)'
  <2>1. \A m \in {stamped(p, s)} :
          Sendable(m, e, sent'[e], Len(got'[e]), sent'[Other(e)])
    BY <1>2, <1>4, <1>6
  <2>2. got' \in [Ends -> Seq(Nat)]
    BY <1>2, <1>3
  <2> QED BY <2>1, <2>2, <1>2, <1>4, TransmitLemma
<1>8. HistoryInv(e)'
  BY <1>2 DEF IndInv, HistoryInv
<1> QED BY <1>1, <1>2, <1>3, <1>4, <1>5, <1>7, <1>8, StepLemma

\* What a datagram to e does to the Peer of e.
LEMMA ReceiveFacts ==
  ASSUME IndInv, NEW e \in Ends, NEW d \in net, d.dst = e
  PROVE  LET p  == peer[e]
             dl == delivered(p, d.msg)
         IN  /\ dl \in Seq(Nat) /\ Len(dl) \in Nat
             /\ Consecutive(dl, Len(got[e]))
             /\ Len(got[e]) + Len(dl) <= sent[Other(e)]
             /\ PeerShape(receive(p, d.msg), e, sent[e], Len(got[e]) + Len(dl),
                          Len(got[Other(e)]), sent[Other(e)])
             /\ Len(receive(p, d.msg).send_queue) <= Len(p.send_queue)
<1> DEFINE f == Other(e)
           m == d.msg
<1>1. /\ sent[e] \in Nat /\ Len(got[e]) \in Nat /\ Len(got[f]) \in Nat /\ sent[f] \in Nat
      /\ PeerShape(peer[e], e, sent[e], Len(got[e]), Len(got[f]), sent[f])
      /\ sent[f] - Len(got[e]) <= MaxOutstanding /\ Len(got[e]) <= sent[f]
  BY InvFacts, OtherFacts
<1>2. d.ack \in Nat /\ m \in MessageType /\ m.body \in Nat \cup {Zlb} /\ DatagramInv(d)
  BY DEF IndInv, TypeOK, MessageType
<1>3. /\ m.ccid = e /\ m.nr = d.ack % Modulus /\ d.ack <= Len(got[f]) /\ sent[e] - d.ack <= MaxAge
      /\ m.body # Zlb => /\ m.ns = m.body % Modulus
                         /\ m.body < sent[f]
                         /\ sent[f] - m.body <= MaxAge
  BY <1>2 DEF DatagramInv
<1> HIDE DEF f, m
<1> DEFINE s == sent[e]
           r == Len(got[e])
           rf == Len(got[f])
           sf == sent[f]
           p == peer[e]
<1>4. /\ delivered(p, m) \in Seq(Nat)
      /\ Consecutive(delivered(p, m), r)
      /\ r + Len(delivered(p, m)) <= sf
      /\ PeerShape(receive(p, m), e, s, r + Len(delivered(p, m)), rf, sf)
      /\ Len(receive(p, m).send_queue) <= Len(p.send_queue)
  <2>1. /\ s \in Nat /\ r \in Nat /\ rf \in Nat /\ sf \in Nat
        /\ PeerShape(p, e, s, r, rf, sf)
        /\ d.ack \in Nat
        /\ Receivable(m, d.ack, e, s, r, rf, sf)
    BY <1>1, <1>2, <1>3 DEF Receivable
  <2> HIDE DEF s, r, rf, sf, p
  <2> QED BY <2>1, ReceiveShape
<1>5. Len(delivered(peer[e], m)) \in Nat
  BY <1>4, LenProperties
<1> QED BY <1>4, <1>5 DEF f, m

\* Receiving a datagram, however old or often repeated, preserves the
\* inductive invariant (Peer.receive).
LEMMA ReceiveInv ==
  ASSUME IndInv, NEW e \in Ends, Receive(e)
  PROVE  IndInv'
<1> DEFINE p == peer[e]
           f == Other(e)
           r == Len(got[e])
<1>1. PICK d \in net :
        /\ d.dst = e
        /\ peer' = [peer EXCEPT ![e] = receive(p, d.msg)]
        /\ sent' = sent
        /\ got' = [got EXCEPT ![e] = @ \o delivered(p, d.msg)]
        /\ Transmit(e, responses(p, d.msg))
  BY DEF Receive
<1> DEFINE dl == delivered(p, d.msg)
           q  == receive(p, d.msg)
<1>2. /\ dl \in Seq(Nat) /\ Len(dl) \in Nat
      /\ \A i \in 1 .. Len(dl) : dl[i] = r + i - 1
      /\ r + Len(dl) <= sent[f]
      /\ PeerShape(q, e, sent[e], r + Len(dl), Len(got[f]), sent[f])
  BY <1>1, ReceiveFacts DEF Consecutive
<1>3. /\ sent[e] \in Nat /\ r \in Nat /\ Len(got[f]) \in Nat /\ sent[f] \in Nat
      /\ got[e] \in Seq(Nat)
      /\ sent[f] - r <= MaxOutstanding
      /\ f \in Ends /\ f # e
  BY InvFacts, OtherFacts
<1>4. sent \in [Ends -> Nat] /\ got \in [Ends -> Seq(Nat)]
  BY DEF IndInv, TypeOK
<1> HIDE DEF dl, q
<1>5. /\ got[e] \o dl \in Seq(Nat)
      /\ Len(got[e] \o dl) = r + Len(dl)
      /\ \A i \in 1 .. r + Len(dl) :
           (got[e] \o dl)[i] = IF i <= r THEN got[e][i] ELSE dl[i - r]
  BY <1>2, <1>3, ConcatProperties
<1>6. /\ got' \in [Ends -> Seq(Nat)] /\ got'[e] = got[e] \o dl /\ got'[f] = got[f]
      /\ Len(got'[e]) = r + Len(dl)
  BY <1>1, <1>3, <1>4, <1>5 DEF dl
<1>7. \A g \in Ends : sent[g] <= sent'[g] /\ Len(got[g]) <= Len(got'[g])
  <2>1. Ends = {e, f}
    BY OtherFacts DEF Ends, Other
  <2>2. sent'[e] = sent[e] /\ sent'[f] = sent[f] /\ r <= Len(got'[e])
    BY <1>1, <1>2, <1>3, <1>6
  <2> QED BY <2>1, <2>2, <1>3, <1>6
<1>8. HistoryInv(e)'
  <2> SUFFICES ASSUME NEW i \in 1 .. r + Len(dl) PROVE (got[e] \o dl)[i] = i - 1
    BY <1>6 DEF HistoryInv
  <2>1. CASE i <= r
    BY <2>1, <1>5, <1>3 DEF IndInv, HistoryInv
  <2>2. CASE ~(i <= r)
    <3>1. i - r \in 1 .. Len(dl) /\ r + (i - r) - 1 = i - 1
      BY <2>2, <1>2, <1>3
    <3> QED BY <3>1, <2>2, <1>2, <1>5
  <2> QED BY <2>1, <2>2
<1>9. \A m \in responses(p, d.msg) : Sendable(m, e, sent'[e], Len(got'[e]), sent'[f])
  <2> SUFFICES ASSUME NEW m \in responses(p, d.msg)
               PROVE  Sendable(m, e, sent[e], r + Len(dl), sent[f])
    BY <1>1, <1>6
  <2>1. m = stamped(q, Zlb)
    BY DEF responses, ack_only, q
  <2>2. q.ns_send = sent[e] % Modulus /\ q.nr_expect = (r + Len(dl)) % Modulus /\ q.remote_ccid = f
    BY <1>2 DEF PeerShape
  <2>3. m \in MessageType
    BY <2>1, <2>2, <1>2, <1>3, ModType DEF stamped, MessageType
  <2>4. sent[f] - (r + Len(dl)) <= MaxAge
    BY <1>2, <1>3, ChannelAssumption
  <2> QED BY <2>1, <2>2, <2>3, <2>4 DEF Sendable, stamped
<1>10. /\ net' \subseteq [dst : Ends, msg : MessageType, ack : Nat]
       /\ \A x \in net' : DatagramInv(x)'
  <2>1. sent' \in [Ends -> Nat]
    BY <1>1, <1>4
  <2>2. Transmit(e, responses(p, d.msg))
    BY <1>1
  <2>3. got' \in [Ends -> Seq(Nat)]
    BY <1>6
  <2> HIDE DEF p
  <2> QED BY <2>1, <2>2, <2>3, <1>7, <1>9, TransmitLemma
<1>11. peer' = [peer EXCEPT ![e] = q]
  BY <1>1 DEF q
<1>12. PeerShape(q, e, sent'[e], Len(got'[e]), Len(got[f]), sent[f])
  BY <1>1, <1>2, <1>6
<1>13. /\ sent' \in [Ends -> Nat] /\ sent'[f] = sent[f] /\ sent[e] <= sent'[e]
       /\ Len(got[e]) <= Len(got'[e]) /\ Len(got'[e]) <= sent[f]
  BY <1>1, <1>2, <1>3, <1>4, <1>6, <1>7
<1> QED BY <1>6, <1>8, <1>10, <1>11, <1>12, <1>13, StepLemma

\* A round of retransmissions preserves the inductive invariant (Peer.tick).
LEMMA TickInv ==
  ASSUME IndInv, NEW e \in Ends, Tick(e)
  PROVE  IndInv'
<1> DEFINE p == peer[e]
           f == Other(e)
           s == sent[e]
           r == Len(got[e])
           L == Len(p.send_queue)
<1>1. PICK expired \in SUBSET (1 .. L) :
        /\ peer' = [peer EXCEPT ![e] = tick(p, expired)]
        /\ sent' = sent
        /\ got' = got
        /\ Transmit(e, resends(p, expired))
  BY DEF Tick
<1>2. /\ s \in Nat /\ r \in Nat /\ Len(got[f]) \in Nat /\ sent[f] \in Nat /\ L \in Nat
      /\ PeerShape(p, e, s, r, Len(got[f]), sent[f])
      /\ sent[f] - r <= MaxOutstanding /\ r <= sent[f]
      /\ f \in Ends /\ f # e
  BY InvFacts, OtherFacts
<1>3. sent \in [Ends -> Nat] /\ got \in [Ends -> Seq(Nat)]
  BY DEF IndInv, TypeOK
<1>4. \A g \in Ends : sent[g] <= sent'[g] /\ Len(got[g]) <= Len(got'[g])
  <2>1. \A g \in Ends : Len(got[g]) \in Nat /\ sent[g] \in Nat
    BY InvFacts
  <2> QED BY <2>1, <1>1
<1>5. PeerShape(tick(p, expired), e, s, r, Len(got[f]), sent[f])
  BY <1>2, TickShape
<1>6. \A m \in resends(p, expired) : Sendable(m, e, s, r, sent[f])
  <2> SUFFICES ASSUME NEW m \in resends(p, expired) PROVE Sendable(m, e, s, r, sent[f])
    OBVIOUS
  <2>1. PICK i \in 1 .. L :
          m = [ccid |-> p.send_queue[i].ccid, ns |-> p.send_queue[i].ns,
               nr |-> p.nr_expect, body |-> p.send_queue[i].body]
    BY DEF resends, Resent, resend
  <2>2. /\ p.send_queue[i].ccid = f
        /\ p.send_queue[i].body = s - L + i - 1
        /\ p.send_queue[i].ns = (s - L + i - 1) % Modulus
        /\ p.nr_expect = r % Modulus
        /\ 0 <= s - L
        /\ L <= MaxOutstanding
    BY <1>2 DEF PeerShape, QueueShape
  <2> DEFINE b == s - L + i - 1
  <2>3. b \in Nat /\ b < s /\ s - b <= MaxAge /\ sent[f] - r <= MaxAge
    <3> HIDE DEF L, s, r
    <3> QED BY <2>2, <1>2, ChannelAssumption
  <2>4. m \in MessageType
    BY <2>1, <2>2, <2>3, <1>2, ModType DEF MessageType
  <2> QED BY <2>1, <2>2, <2>3, <2>4 DEF Sendable
<1>7. /\ net' \subseteq [dst : Ends, msg : MessageType, ack : Nat]
      /\ \A d \in net' : DatagramInv(d)'
  BY <1>1, <1>3, <1>4, <1>6, TransmitLemma
<1>8. HistoryInv(e)'
  BY <1>1 DEF IndInv, HistoryInv
<1>9. /\ sent' \in [Ends -> Nat] /\ got' \in [Ends -> Seq(Nat)]
      /\ sent'[f] = sent[f] /\ got'[f] = got[f]
      /\ sent[e] <= sent'[e] /\ Len(got[e]) <= Len(got'[e])
      /\ Len(got'[e]) <= sent[f]
      /\ PeerShape(tick(p, expired), e, sent'[e], Len(got'[e]), Len(got[f]), sent[f])
  BY <1>1, <1>2, <1>3, <1>4, <1>5
<1>10. peer' = [peer EXCEPT ![e] = tick(p, expired)]
  BY <1>1
<1> HIDE DEF p
<1> QED BY <1>7, <1>8, <1>9, <1>10, StepLemma

\* The loss of a datagram preserves the inductive invariant.
LEMMA LoseInv == IndInv /\ Lose => IndInv'
  BY DEF Lose, IndInv, TypeOK, PeerInv, HistoryInv, DatagramInv

\* So does a step in which nothing happens.
LEMMA StutterInv == IndInv /\ UNCHANGED vars => IndInv'
  BY DEF vars, IndInv, TypeOK, PeerInv, HistoryInv, DatagramInv

\* The inductive invariant holds in every behaviour, for every modulus,
\* window, retry budget and network bound that meet the assumptions.
THEOREM IndInvHolds == Spec => []IndInv
<1>1. Init => IndInv
  BY InitInv
<1>2. IndInv /\ [Next]_vars => IndInv'
  <2> SUFFICES ASSUME IndInv, [Next]_vars PROVE IndInv'
    OBVIOUS
  <2>1. CASE \E e \in Ends : Send(e)
    BY <2>1, SendInv
  <2>2. CASE \E e \in Ends : Receive(e)
    BY <2>2, ReceiveInv
  <2>3. CASE \E e \in Ends : Tick(e)
    BY <2>3, TickInv
  <2>4. CASE Lose
    BY <2>4, LoseInv
  <2>5. CASE UNCHANGED vars
    BY <2>5, StutterInv
  <2> QED BY <2>1, <2>2, <2>3, <2>4, <2>5 DEF Next
<1> QED BY <1>1, <1>2, PTL DEF Spec

\* Every variable keeps its type.
THEOREM TypeCorrect == Spec => []TypeOK
<1>1. IndInv => TypeOK
  BY DEF IndInv
<1> QED BY <1>1, IndInvHolds, PTL

\* Peer.receive delivers every message at most once and in order of sending.
THEOREM ExactlyOnceInOrderHolds == Spec => []ExactlyOnceInOrder
<1>1. IndInv => ExactlyOnceInOrder
  <2> SUFFICES ASSUME IndInv, NEW e \in Ends
               PROVE  /\ Len(got[e]) <= sent[Other(e)]
                      /\ \A i \in 1 .. Len(got[e]) : got[e][i] = i - 1
    BY DEF ExactlyOnceInOrder
  <2>1. Len(got[e]) <= sent[Other(e)]
    BY InvFacts, OtherFacts
  <2> QED BY <2>1 DEF IndInv, HistoryInv
<1> QED BY <1>1, IndInvHolds, PTL

\* Peer._consume_acks drops no message that the other end has not taken.
THEOREM NothingForgottenHolds == Spec => []NothingForgotten
<1>1. IndInv => NothingForgotten
  <2> SUFFICES ASSUME IndInv, NEW e \in Ends,
                      NEW n \in Len(got[Other(e)]) .. sent[e] - 1
               PROVE  \E i \in 1 .. Len(peer[e].send_queue) :
                         peer[e].send_queue[i].body = n
    BY DEF NothingForgotten
  <2> DEFINE s == sent[e]
             L == Len(peer[e].send_queue)
             i == n - (s - L) + 1
  <2>1. /\ s \in Nat /\ L \in Nat /\ Len(got[Other(e)]) \in Nat
        /\ s - L <= Len(got[Other(e)])
        /\ QueueShape(peer[e].send_queue, s - L, Other(e))
    BY InvFacts, OtherFacts DEF PeerShape
  <2>2. i \in 1 .. L /\ (s - L) + i - 1 = n
    <3> HIDE DEF s, L
    <3>1. n \in Len(got[Other(e)]) .. s - 1
      BY DEF s
    <3> QED BY <3>1, <2>1
  <2>3. peer[e].send_queue[i].body = n
    BY <2>1, <2>2 DEF QueueShape
  <2> QED BY <2>2, <2>3
<1> QED BY <1>1, IndInvHolds, PTL

\* Every slot of Peer._reorder holds the message that belongs there.
THEOREM BufferInWindowHolds == Spec => []BufferInWindow
<1>1. IndInv => BufferInWindow
  <2> SUFFICES ASSUME IndInv, NEW e \in Ends, NEW ns \in SeqNum,
                      peer[e].reorder[ns] # NoMsg
               PROVE  /\ seq_delta(ns, peer[e].nr_expect) \in 1 .. ReceiveWindow
                      /\ peer[e].reorder[ns]
                           = Len(got[e]) + seq_delta(ns, peer[e].nr_expect)
    BY DEF BufferInWindow
  <2> DEFINE v == peer[e].reorder[ns]
             r == Len(got[e])
  <2>1. /\ r \in Nat /\ peer[e].nr_expect = r % Modulus
        /\ v \in r + 1 .. r + ReceiveWindow /\ ns = v % Modulus
    BY InvFacts DEF PeerShape, BufferShape
  <2> HIDE DEF v, r
  <2>2. v \in Int /\ -Half <= v - r /\ v - r < Half
    BY <2>1, PeerAssumption, HalfFacts
  <2>3. seq_delta(v % Modulus, r % Modulus) = v - r
    BY <2>1, <2>2, DeltaLemma
  <2> QED BY <2>1, <2>3, PeerAssumption DEF v, r
<1> QED BY <1>1, IndInvHolds, PTL

-----------------------------------------------------------------------------
(* Refinement *)

\* A step of one end is a step or a stutter of the abstract channel.
LEMMA AbstractSend ==
  ASSUME IndInv, NEW e \in Ends, Send(e)
  PROVE  Fifo!Send(e)
<1>1. /\ sent' = [sent EXCEPT ![e] = @ + 1]
      /\ got' = got
      /\ peer' = [peer EXCEPT ![e] = send(peer[e], sent[e])]
  BY DEF Send
<1>2. peer \in [Ends -> PeerType] /\ sent \in [Ends -> Nat]
  BY DEF IndInv, TypeOK
<1>3. \A g \in Ends : Acked(g)' = Acked(g)
  <2> SUFFICES ASSUME NEW g \in Ends PROVE Acked(g)' = Acked(g)
    OBVIOUS
  <2>1. CASE g = e
    <3>1. peer[e] \in PeerType /\ sent[e] \in Nat /\ Len(peer[e].send_queue) \in Nat
      BY InvFacts
    <3>2. Pending(peer[e], sent[e]) \in PendingType
      BY <3>1, PeerAssumption DEF Pending, PendingType, PeerType
    <3>3. Len(Append(peer[e].send_queue, Pending(peer[e], sent[e])))
            = Len(peer[e].send_queue) + 1
      BY <3>1, <3>2, TypeFacts, AppendProperties
    <3>4. send(peer[e], sent[e]).send_queue = Append(peer[e].send_queue, Pending(peer[e], sent[e]))
      BY <3>1 DEF send, PeerType
    <3>5. peer'[e] = send(peer[e], sent[e]) /\ sent'[e] = sent[e] + 1
      BY <1>1, <1>2
    <3> QED BY <2>1, <3>1, <3>3, <3>4, <3>5 DEF Acked
  <2>2. CASE g # e
    BY <2>2, <1>1, <1>2 DEF Acked
  <2> QED BY <2>1, <2>2
<1> QED BY <1>1, <1>3 DEF Fifo!Send

\* Receiving a datagram takes messages and learns acknowledgements in the
\* abstract channel (Peer.receive).
LEMMA AbstractReceive ==
  ASSUME IndInv, IndInv', NEW e \in Ends, Receive(e)
  PROVE  Fifo!Exchange(e, Other(e))
<1> DEFINE f == Other(e)
           p == peer[e]
           taken == [g \in Ends |-> got[Other(g)]]
           ack == [g \in Ends |-> Acked(g)]
<1>1. PICK d \in net :
        /\ d.dst = e
        /\ peer' = [peer EXCEPT ![e] = receive(p, d.msg)]
        /\ sent' = sent
        /\ got' = [got EXCEPT ![e] = @ \o delivered(p, d.msg)]
  BY DEF Receive
<1> DEFINE dl == delivered(p, d.msg)
           n == Len(dl)
<1>2. /\ dl \in Seq(Nat) /\ n \in Nat
      /\ Consecutive(dl, Len(got[e]))
      /\ Len(got[e]) + n <= sent[f]
      /\ Len(receive(p, d.msg).send_queue) <= Len(p.send_queue)
  BY <1>1, ReceiveFacts
<1>3. f \in Ends /\ f # e /\ Other(f) = e /\ Ends = {e, f}
  BY OtherFacts DEF Ends, Other
<1>4. peer \in [Ends -> PeerType] /\ sent \in [Ends -> Nat] /\ got \in [Ends -> Seq(Nat)]
  BY DEF IndInv, TypeOK
<1>5. /\ got'[e] = got[e] \o dl /\ got'[f] = got[f]
      /\ peer'[e] = receive(p, d.msg) /\ peer'[f] = peer[f]
  BY <1>1, <1>3, <1>4
<1> HIDE DEF dl
<1>6. dl = [i \in 1 .. n |-> Len(taken[f]) + i - 1]
  <2>1. taken[f] = got[e]
    BY <1>3
  <2>2. DOMAIN dl = 1 .. n /\ dl = [i \in 1 .. n |-> dl[i]]
    BY <1>2, LenProperties
  <2>3. \A i \in 1 .. n : dl[i] = Len(got[e]) + i - 1
    BY <1>2 DEF Consecutive
  <2> HIDE DEF n
  <2> QED BY <2>1, <2>2, <2>3
<1>7. n \in 0 .. sent[f] - Len(taken[f])
  <2>1. taken[f] = got[e] /\ Len(got[e]) \in Nat /\ sent[f] \in Nat
    BY <1>3, InvFacts
  <2> HIDE DEF n, taken
  <2> QED BY <2>1, <1>2
<1>8. taken' = [taken EXCEPT ![f] = @ \o [i \in 1 .. n |-> Len(taken[f]) + i - 1]]
  <2>1. taken' = [g \in Ends |-> got'[Other(g)]]
    OBVIOUS
  <2>2. got'[Other(f)] = got[Other(f)] \o dl /\ got'[Other(e)] = got[Other(e)]
    BY <1>3, <1>5
  <2>3. taken' = [taken EXCEPT ![f] = @ \o dl]
    BY <2>1, <2>2, <1>3
  <2> QED BY <2>3, <1>6
<1>9. Acked(f)' = Acked(f)
  BY <1>1, <1>5 DEF Acked
<1>10. Acked(e)' \in Acked(e) .. Len(taken[e])
  <2>1. /\ sent[e] \in Nat /\ Len(got[f]) \in Nat /\ Len(p.send_queue) \in Nat
        /\ sent'[e] = sent[e]
    BY <1>1, <1>3, InvFacts
  <2>2. /\ PeerShape(receive(p, d.msg), e, sent[e], Len(got[e]) + Len(delivered(p, d.msg)),
                     Len(got[f]), sent[f])
    BY <1>1, ReceiveFacts
  <2>3. /\ sent[e] - Len(receive(p, d.msg).send_queue) <= Len(got[f])
        /\ Len(receive(p, d.msg).send_queue) \in Nat
    BY <2>2, TypeFacts DEF PeerShape
  <2>4. taken[e] = got[f]
    BY <1>3
  <2>5. Acked(e)' = sent[e] - Len(receive(p, d.msg).send_queue)
    BY <2>1, <1>5 DEF Acked
  <2>6. Acked(e) = sent[e] - Len(p.send_queue)
    BY DEF Acked
  <2> DEFINE x == Len(receive(p, d.msg).send_queue)
             y == Len(p.send_queue)
  <2> HIDE DEF x, y
  <2>7. x \in Nat /\ y \in Nat /\ x <= y /\ sent[e] - x <= Len(got[f])
    BY <1>2, <2>1, <2>3 DEF x, y
  <2>8. sent[e] - x \in (sent[e] - y) .. Len(got[f])
    BY <2>1, <2>7
  <2> QED BY <2>4, <2>5, <2>6, <2>8 DEF x, y
<1>11. ack' = [ack EXCEPT ![e] = Acked(e)']
  BY <1>3, <1>9
<1> QED
  <2>1. ack[e] = Acked(e)
    OBVIOUS
  <2>2. \E k \in ack[e] .. Len(taken[e]) : ack' = [ack EXCEPT ![e] = k]
    BY <2>1, <1>10, <1>11
  <2>3. \E k \in 0 .. sent[f] - Len(taken[f]) :
          taken' = [taken EXCEPT ![f] = @ \o [i \in 1 .. k |-> Len(taken[f]) + i - 1]]
    BY <1>7, <1>8
  <2> QED BY <2>2, <2>3, <1>1 DEF Fifo!Exchange

\* Retransmission and loss are invisible in the abstract channel (Peer.tick).
LEMMA AbstractStutter ==
  ASSUME IndInv, (\E e \in Ends : Tick(e)) \/ Lose \/ UNCHANGED vars
  PROVE  UNCHANGED Fifo!vars
<1>1. peer \in [Ends -> PeerType]
  BY DEF IndInv, TypeOK
<1>2. sent' = sent /\ got' = got
  BY DEF Tick, Lose, vars
<1>3. \A g \in Ends : Len(peer'[g].send_queue) = Len(peer[g].send_queue)
  <2>1. CASE UNCHANGED peer
    BY <2>1
  <2>2. CASE \E e \in Ends : Tick(e)
    <3>1. PICK e \in Ends : Tick(e)
      BY <2>2
    <3>2. PICK expired \in SUBSET (1 .. Len(peer[e].send_queue)) :
            peer' = [peer EXCEPT ![e] = tick(peer[e], expired)]
      BY <3>1 DEF Tick
    <3>3. Len(tick(peer[e], expired).send_queue) = Len(peer[e].send_queue)
      <4>1. /\ PeerShape(peer[e], e, sent[e], Len(got[e]), Len(got[Other(e)]), sent[Other(e)])
            /\ sent[e] \in Nat /\ Len(got[e]) \in Nat
            /\ sent[Other(e)] \in Nat /\ Len(got[Other(e)]) \in Nat
        BY InvFacts, OtherFacts
      <4> QED BY <4>1, TickShape
    <3> QED BY <3>2, <3>3, <1>1
  <2> QED BY <2>1, <2>2 DEF Lose, vars
<1>4. \A g \in Ends : Acked(g)' = Acked(g)
  BY <1>2, <1>3 DEF Acked
<1> QED BY <1>2, <1>4 DEF Fifo!vars

\* Two Peers over an unreliable network implement the abstract channel: every
\* step of theirs is a step of it, or invisible.
THEOREM Refinement == Spec => ImplementsFifo
<1>1. Init => Fifo!Init
  <2> SUFFICES ASSUME Init PROVE Fifo!Init
    OBVIOUS
  <2>1. \A e \in Ends : got[Other(e)] = << >>
    BY OtherFacts DEF Init
  <2>2. \A e \in Ends : Acked(e) = 0
    <3>1. Len(<< >>) = 0
      BY EmptySeq
    <3> QED BY <3>1 DEF Init, Acked, NewPeer
  <2> QED BY <2>1, <2>2 DEF Init, Fifo!Init
<1>2. IndInv /\ IndInv' /\ [Next]_vars => [Fifo!Next]_(Fifo!vars)
  <2> SUFFICES ASSUME IndInv, IndInv', [Next]_vars
               PROVE  Fifo!Next \/ UNCHANGED Fifo!vars
    OBVIOUS
  <2>1. CASE \E e \in Ends : Send(e)
    BY <2>1, AbstractSend DEF Fifo!Next
  <2>2. CASE \E e \in Ends : Receive(e)
    <3>1. PICK e \in Ends : Receive(e)
      BY <2>2
    <3>2. Fifo!Exchange(e, Other(e)) /\ Other(e) \in Ends \ {e}
      BY <3>1, AbstractReceive, OtherFacts
    <3> QED BY <3>2 DEF Fifo!Next
  <2>3. CASE (\E e \in Ends : Tick(e)) \/ Lose \/ UNCHANGED vars
    BY <2>3, AbstractStutter
  <2> QED BY <2>1, <2>2, <2>3 DEF Next
<1> QED BY <1>1, <1>2, IndInvHolds, PTL DEF Spec, ImplementsFifo, Fifo!Spec

=============================================================================
