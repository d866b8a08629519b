--------------------------- MODULE SeqArithProofs ---------------------------
(***************************************************************************)
(* Facts about seq_advance and seq_delta (messages.py) for every even      *)
(* width of the sequence numbers.                                          *)
(***************************************************************************)
EXTENDS SeqArith, TLAPS

\* Half is the sign bit of a sequence number: 0x8000 in messages.py.
LEMMA HalfFacts == Half \in Nat /\ Half > 0 /\ Modulus = 2 * Half
  BY ModulusAssumption DEF Half

\* The remainder modulo the width of a number is the only one in range: what
\* the mask & 0xFFFF of seq_advance and seq_delta leaves is unique.
LEMMA DivisionUnique ==
  ASSUME NEW x \in Int, NEW q \in Int, NEW r \in SeqNum, x = Modulus * q + r
  PROVE  x % Modulus = r
  BY ModulusAssumption DEF SeqNum

\* Masking yields a sequence number, at a multiple of the width from the
\* number masked (seq_advance, seq_delta).
LEMMA DivisionExists ==
  ASSUME NEW x \in Int
  PROVE  /\ x % Modulus \in SeqNum
         /\ \E q \in Int : x = Modulus * q + (x % Modulus)
<1>1. x % Modulus \in SeqNum
  BY ModulusAssumption DEF SeqNum
<1>2. x \div Modulus \in Int
  BY ModulusAssumption
<1>3. x = Modulus * (x \div Modulus) + (x % Modulus)
  BY ModulusAssumption
<1> QED BY <1>1, <1>2, <1>3

\* seq_advance on a masked count is the masked sum: Ns and Nr count on
\* correctly when they wrap.
LEMMA AdvanceLemma ==
  ASSUME NEW x \in Int, NEW by \in Int
  PROVE  seq_advance(x % Modulus, by) = (x + by) % Modulus
<1>1. PICK q \in Int : x = Modulus * q + (x % Modulus)
  BY DivisionExists
<1>2. PICK p \in Int : x + by = Modulus * p + ((x + by) % Modulus)
  BY DivisionExists
<1>3. (x % Modulus) + by = Modulus * (p - q) + ((x + by) % Modulus)
  <2>1. Modulus * (p - q) = Modulus * p - Modulus * q
    BY ModulusAssumption
  <2>2. x % Modulus \in Int /\ (x+by) % Modulus \in Int
    BY DivisionExists DEF SeqNum
  <2>3. Modulus * p \in Int /\ Modulus * q \in Int
    BY ModulusAssumption
  <2>q. QED BY <1>1, <1>2, <2>1, <2>2, <2>3
<1>4. (x % Modulus) + by \in Int /\ p - q \in Int
  BY DivisionExists, ModulusAssumption DEF SeqNum
<1> QED
  BY <1>3, <1>4, DivisionExists, DivisionUnique DEF seq_advance

\* seq_delta recovers the true distance of two counts from their masked
\* values, as long as it is within half the number space.
THEOREM DeltaLemma ==
  ASSUME NEW x \in Int, NEW y \in Int, -Half <= x - y, x - y < Half
  PROVE  seq_delta(x % Modulus, y % Modulus) = x - y
<1>1. PICK q \in Int : x = Modulus * q + (x % Modulus)
  BY DivisionExists
<1>2. PICK p \in Int : y = Modulus * p + (y % Modulus)
  BY DivisionExists
<1> DEFINE d == (x % Modulus) - (y % Modulus)
<1>3. d \in Int
  BY DivisionExists, ModulusAssumption DEF SeqNum
<1>4. d = Modulus * (p - q) + (x - y)
  <2>1. Modulus * (p - q) = Modulus * p - Modulus * q
    BY ModulusAssumption
  <2>2. x % Modulus \in Int /\ y % Modulus \in Int
    BY DivisionExists DEF SeqNum
  <2>3. Modulus * p \in Int /\ Modulus * q \in Int
    BY ModulusAssumption
  <2>q. QED BY <1>1, <1>2, <2>1, <2>2, <2>3
<1>5. CASE x - y >= 0
  <2>1. x - y \in SeqNum
    BY <1>5, HalfFacts DEF SeqNum
  <2>2. d % Modulus = x - y
    BY <2>1, <1>3, <1>4, DivisionUnique, p - q \in Int
  <2> QED BY <2>2, <1>5, HalfFacts DEF seq_delta
<1>6. CASE x - y < 0
  <2>1. (x - y) + Modulus \in SeqNum
    BY <1>6, HalfFacts DEF SeqNum
  <2>2. d = Modulus * (p - q - 1) + ((x - y) + Modulus)
    <3>1. Modulus * (p - q - 1) = Modulus * (p - q) - Modulus
      BY ModulusAssumption
    <3>2. Modulus * (p - q) \in Int /\ Modulus \in Int
      BY ModulusAssumption
    <3> QED BY <3>1, <3>2, <1>4
  <2>3. d % Modulus = (x - y) + Modulus
    BY <2>1, <2>2, <1>3, DivisionUnique, p - q - 1 \in Int
  <2> QED BY <2>3, <1>6, HalfFacts DEF seq_delta
<1> QED BY <1>5, <1>6

\* A masked count is a sequence number (seq_advance).
LEMMA ModType == \A x \in Int : x % Modulus \in SeqNum
  BY DivisionExists

\* Two counts less than the number space apart have different sequence
\* numbers: keys of Peer._reorder do not collide.
LEMMA ModInjective ==
  ASSUME NEW x \in Int, NEW y \in Int, x - y < Half, y - x < Half,
         x % Modulus = y % Modulus
  PROVE  x = y
<1>1. seq_delta(x % Modulus, y % Modulus) = x - y
  <2>1. -Half <= x - y
    BY HalfFacts
  <2> QED BY <2>1, DeltaLemma
<1>2. seq_delta(y % Modulus, y % Modulus) = y - y
  BY DeltaLemma, HalfFacts
<1> QED BY <1>1, <1>2
=============================================================================
