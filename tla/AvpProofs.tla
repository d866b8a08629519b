----------------------------- MODULE AvpProofs -----------------------------
(***************************************************************************)
(* The AVP codec for values of every length: decoding inverts encoding and *)
(* encoding inverts decoding.                                              *)
(***************************************************************************)
EXTENDS Avp, SequenceTheorems, WellFoundedInduction, TLAPS

\* A set of natural numbers has a least element.
LEMMA LeastExists ==
  ASSUME NEW T, T \subseteq Nat, T # {}
  PROVE  \E x \in T : \A y \in T : x <= y
<1>1. PICK x \in T : \A y \in T : ~(<<y, x>> \in OpToRel(<, Nat))
  BY WFMin, NatLessThanWellFounded
<1>2. \A y \in T : ~(y < x)
  BY <1>1 DEF OpToRel
<1> QED BY <1>2

-----------------------------------------------------------------------------
(* Joining sequences.  FlattenSeq is defined by a recursive function; that  *)
(* there is one is shown for the first k sequences, by induction on k.      *)

\* Sequences of sequences over S.
Lists(S) == Seq(Seq(S))

\* f has the joined first i of the sequences at every i up to k.
Joins(f, seqs, k) ==
    f = [i \in 1..k |-> IF i = 1 THEN seqs[i] ELSE f[i-1] \o seqs[i]]

\* Its values.
LEMMA JoinsAt ==
  ASSUME NEW f, NEW seqs, NEW k, Joins(f, seqs, k), NEW i \in 1..k
  PROVE  f[i] = IF i = 1 THEN seqs[i] ELSE f[i-1] \o seqs[i]
<1> DEFINE g == [j \in 1..k |-> IF j = 1 THEN seqs[j] ELSE f[j-1] \o seqs[j]]
<1>1. g[i] = IF i = 1 THEN seqs[i] ELSE f[i-1] \o seqs[i]
  OBVIOUS
<1>2. f = g
  BY DEF Joins
<1> HIDE DEF g
<1> QED BY <1>1, <1>2

\* The function is there for every k.
LEMMA JoinsExists ==
  ASSUME NEW seqs, NEW n \in Nat
  PROVE  \E f : Joins(f, seqs, n)
<1> DEFINE Bad == {k \in Nat : ~\E f : Joins(f, seqs, k)}
<1> SUFFICES ASSUME Bad # {} PROVE FALSE
  OBVIOUS
<1>1. PICK k \in Bad : \A j \in Bad : k <= j
  <2>1. Bad \subseteq Nat
    OBVIOUS
  <2> HIDE DEF Bad
  <2> QED BY <2>1, LeastExists
<1>2. k # 0
  <2>1. PICK f : f = [i \in 1..0 |-> 0]
    OBVIOUS
  <2>2. Joins(f, seqs, 0)
    BY <2>1 DEF Joins
  <2> QED BY <2>2
<1>3. PICK f : Joins(f, seqs, k - 1)
  BY <1>1, <1>2
<1> DEFINE g == [i \in 1..k |-> IF i = k THEN (IF k = 1 THEN seqs[k] ELSE f[k-1] \o seqs[k])
                                ELSE f[i]]
<1>4. ASSUME NEW i \in 1..k
      PROVE  g[i] = IF i = 1 THEN seqs[i] ELSE g[i-1] \o seqs[i]
  <2>1. CASE i = k
    BY <1>2, <2>1
  <2>2. CASE i # k
    <3>1. i \in 1..(k - 1)
      BY <2>2
    <3>2. f[i] = IF i = 1 THEN seqs[i] ELSE f[i-1] \o seqs[i]
      BY <1>3, <3>1, JoinsAt
    <3>3. i # 1 => g[i-1] = f[i-1]
      BY <3>1
    <3> QED BY <2>2, <3>2, <3>3
  <2> QED BY <2>1, <2>2
<1>5. g = [i \in 1..k |-> g[i]]
  OBVIOUS
<1> HIDE DEF g
<1>6. Joins(g, seqs, k)
  BY <1>4, <1>5 DEF Joins
<1> QED BY <1>1, <1>6

\* Two sequences or functions agree up to k.
Agree(s, t, k) == \A i \in 1..k : s[i] = t[i]

\* It is the only one, and a longer one extends a shorter one.
LEMMA JoinsUnique ==
  ASSUME NEW s, NEW t, NEW k \in Nat, NEW n \in Nat, k <= n,
         Agree(s, t, k), NEW f, Joins(f, s, k), NEW g, Joins(g, t, n)
  PROVE  Agree(f, g, k)
<1> DEFINE Bad == {i \in 1..k : f[i] # g[i]}
<1> SUFFICES ASSUME Bad # {} PROVE FALSE
  BY DEF Agree
<1>1. PICK i \in Bad : \A j \in Bad : i <= j
  <2>1. Bad \subseteq Nat
    OBVIOUS
  <2> HIDE DEF Bad
  <2> QED BY <2>1, LeastExists
<1>2. /\ f[i] = IF i = 1 THEN s[i] ELSE f[i-1] \o s[i]
      /\ g[i] = IF i = 1 THEN t[i] ELSE g[i-1] \o t[i]
  <2>1. i \in 1..k /\ i \in 1..n
    OBVIOUS
  <2> HIDE DEF Bad
  <2> QED BY <2>1, JoinsAt
<1>3. i # 1 => f[i-1] = g[i-1]
  BY <1>1
<1> QED BY <1>1, <1>2, <1>3 DEF Agree

\* What FlattenSeq returns is the last value of such a function.
LEMMA FlattenJoins ==
  ASSUME NEW S, NEW seqs \in Seq(S), Len(seqs) # 0
  PROVE  \E f : Joins(f, seqs, Len(seqs)) /\ FlattenSeq(seqs) = f[Len(seqs)]
<1> DEFINE n == Len(seqs)
           f == CHOOSE g : g = [i \in 1..n |-> IF i = 1 THEN seqs[i] ELSE g[i-1] \o seqs[i]]
<1>1. n \in Nat
  OBVIOUS
<1>2. \E g : Joins(g, seqs, n)
  BY <1>1, JoinsExists
<1>3. Joins(f, seqs, n)
  BY <1>2 DEF Joins
<1>4. FlattenSeq(seqs) = f[n]
  BY DEF FlattenSeq
<1> QED BY <1>3, <1>4

\* Joining nothing, and one sequence more.
LEMMA FlattenEmpty == FlattenSeq(<<>>) = <<>>
  BY DEF FlattenSeq

\* One sequence more is joined at the end.
LEMMA FlattenAppend ==
  ASSUME NEW S, NEW seqs \in Lists(S), NEW x \in Seq(S)
  PROVE  FlattenSeq(Append(seqs, x)) = FlattenSeq(seqs) \o x
<1>1. PICK T : T = Seq(S)
  OBVIOUS
<1>2. seqs \in Seq(T) /\ x \in T
  BY <1>1 DEF Lists
<1>3. PICK n \in Nat, m \in Nat : n = Len(seqs) /\ m = n + 1
  BY <1>2
<1>4. PICK t : t = Append(seqs, x)
  OBVIOUS
<1>5. /\ t \in Seq(T) /\ Len(t) = m /\ t[m] = x
      /\ \A i \in 1..n : seqs[i] = t[i]
  BY <1>2, <1>3, <1>4
<1>6. m \in 1..m /\ m - 1 = n /\ n <= m /\ m # 0
  BY <1>3
<1>7. PICK g : Joins(g, t, m) /\ FlattenSeq(t) = g[m]
  BY <1>5, <1>6, FlattenJoins
<1>8. g[m] = IF m = 1 THEN t[m] ELSE g[n] \o t[m]
  BY <1>6, <1>7, JoinsAt
<1>9. CASE n = 0
  <2>1. seqs = <<>>
    BY <1>2, <1>3, <1>9, EmptySeq
  <2> QED BY <1>3, <1>4, <1>5, <1>7, <1>8, <1>9, <2>1, FlattenEmpty
<1>10. CASE n # 0
  <2>1. PICK f : Joins(f, seqs, n) /\ FlattenSeq(seqs) = f[n]
    BY <1>2, <1>3, <1>10, FlattenJoins
  <2>2. Agree(seqs, t, n)
    BY <1>5 DEF Agree
  <2>3. Agree(f, g, n)
    BY <1>6, <1>7, <2>1, <2>2, JoinsUnique
  <2>4. f[n] = g[n]
    BY <1>10, <2>3 DEF Agree
  <2> QED BY <1>3, <1>4, <1>5, <1>7, <1>8, <1>10, <2>1, <2>4
<1> QED BY <1>9, <1>10

\* What is joined of sequences over S is one.
LEMMA FlattenType ==
  ASSUME NEW S, NEW seqs \in Lists(S)
  PROVE  FlattenSeq(seqs) \in Seq(S)
<1>1. PICK T : T = Seq(S)
  OBVIOUS
<1>2. seqs \in Seq(T)
  BY <1>1 DEF Lists
<1>3. PICK n \in Nat : n = Len(seqs)
  BY <1>2
<1>4. CASE n = 0
  <2>1. seqs = <<>>
    BY <1>2, <1>3, <1>4, EmptySeq
  <2>2. <<>> \in Seq(S)
    BY EmptySeq
  <2> QED BY <2>1, <2>2, FlattenEmpty
<1>5. CASE n # 0
  <2>1. PICK f : Joins(f, seqs, n) /\ FlattenSeq(seqs) = f[n]
    BY <1>2, <1>3, <1>5, FlattenJoins
  <2> DEFINE Bad == {i \in 1..n : f[i] \notin Seq(S)}
  <2>2. Bad = {}
    <3> SUFFICES ASSUME Bad # {} PROVE FALSE
      OBVIOUS
    <3>1. PICK i \in Bad : \A j \in Bad : i <= j
      <4>1. Bad \subseteq Nat
        OBVIOUS
      <4> HIDE DEF Bad
      <4> QED BY <4>1, LeastExists
    <3>2. f[i] = IF i = 1 THEN seqs[i] ELSE f[i-1] \o seqs[i]
      BY <2>1, JoinsAt
    <3>3. seqs[i] \in Seq(S)
      BY <1>1, <1>2, <1>3
    <3>4. i # 1 => f[i-1] \in Seq(S)
      BY <3>1
    <3>5. f[i] \in Seq(S)
      <4> HIDE DEF Bad
      <4> QED BY <3>2, <3>3, <3>4, ConcatProperties
    <3> QED BY <3>5
  <2>3. n \in 1..n
    BY <1>5
  <2>4. f[n] \in Seq(S)
    BY <2>2, <2>3
  <2> QED BY <2>1, <2>4
<1> QED BY <1>4, <1>5

\* The first k sequences joined are where the joined sequences begin.
LEMMA FlattenPrefix ==
  ASSUME NEW S, NEW seqs \in Lists(S), NEW k \in Nat, k <= Len(seqs),
         NEW first \in Lists(S), Len(first) = k, Agree(first, seqs, k)
  PROVE  \E rest \in Seq(S) : FlattenSeq(seqs) = FlattenSeq(first) \o rest
<1>1. PICK T : T = Seq(S)
  OBVIOUS
<1>2. seqs \in Seq(T) /\ first \in Seq(T)
  BY <1>1 DEF Lists
<1>3. PICK n \in Nat : n = Len(seqs)
  BY <1>2
<1>4. CASE k = 0
  <2>1. first = <<>>
    BY <1>2, <1>4, EmptySeq
  <2>2. FlattenSeq(seqs) \in Seq(S)
    BY FlattenType
  <2>3. FlattenSeq(seqs) = FlattenSeq(first) \o FlattenSeq(seqs)
    BY <2>1, <2>2, FlattenEmpty
  <2> QED BY <2>2, <2>3
<1>5. CASE k # 0
  <2>1. PICK f : Joins(f, seqs, n) /\ FlattenSeq(seqs) = f[n]
    BY <1>2, <1>3, <1>5, FlattenJoins
  <2>2. PICK g : Joins(g, first, k) /\ FlattenSeq(first) = g[k]
    BY <1>2, <1>5, FlattenJoins
  <2>3. Agree(g, f, k)
    BY <1>3, <2>1, <2>2, JoinsUnique
  <2>4. g[k] = f[k] /\ g[k] \in Seq(S)
    <3>1. FlattenSeq(first) \in Seq(S)
      BY FlattenType
    <3> QED BY <1>5, <2>2, <2>3, <3>1 DEF Agree
  <2> DEFINE Bad == {i \in k..n : ~\E rest \in Seq(S) : f[i] = f[k] \o rest}
  <2>5. Bad = {}
    <3> SUFFICES ASSUME Bad # {} PROVE FALSE
      OBVIOUS
    <3>1. PICK i \in Bad : \A j \in Bad : i <= j
      <4>1. Bad \subseteq Nat
        OBVIOUS
      <4> HIDE DEF Bad
      <4> QED BY <4>1, LeastExists
    <3>2. i # k
      <4>1. f[k] = f[k] \o <<>> /\ <<>> \in Seq(S)
        BY <2>4
      <4> QED BY <4>1
    <3>3. i \in 1..n /\ i # 1 /\ i - 1 \in k..n
      BY <1>5, <3>2
    <3>4. PICK h \in k..n : h = i - 1
      BY <3>3
    <3>5. h < i
      BY <3>3, <3>4
    <3>6. h \notin Bad
      <4>1. i \in Nat /\ h \in Nat
        BY <3>3
      <4> HIDE DEF Bad
      <4> QED BY <3>1, <3>5, <4>1
    <3>7. PICK rest \in Seq(S) : f[h] = f[k] \o rest
      BY <3>6
    <3> HIDE DEF Bad
    <3>8. f[i] = f[h] \o seqs[i]
      <4>1. PICK m \in 1..n : m = i
        BY <3>3
      <4>2. Joins(f, seqs, n)
        BY <2>1
      <4>3. f[m] = IF m = 1 THEN seqs[m] ELSE f[m-1] \o seqs[m]
        BY <4>2, JoinsAt
      <4> QED BY <3>3, <3>4, <4>1, <4>3
    <3>9. PICK x \in Seq(S) : x = seqs[i]
      BY <1>1, <1>2, <1>3, <3>3
    <3>10. PICK y \in Seq(S) : y = f[k]
      BY <2>4
    <3>11. y \o (rest \o x) = (y \o rest) \o x
      BY ConcatAssociative, SMTT(60)
    <3>12. f[i] = f[k] \o (rest \o x)
      BY <3>7, <3>8, <3>9, <3>10, <3>11
    <3>13. rest \o x \in Seq(S)
      BY ConcatProperties
    <3> QED BY <3>12, <3>13 DEF Bad
  <2>6. n \in k..n
    BY <1>3
  <2> QED BY <2>1, <2>2, <2>4, <2>5, <2>6
<1> QED BY <1>4, <1>5

\* A function on 1..n is a sequence.
LEMMA FunctionSeq ==
  ASSUME NEW S, NEW n \in Nat, NEW f \in [1..n -> S]
  PROVE  f \in Seq(S) /\ Len(f) = n
  OBVIOUS

\* Two sequences joined.
LEMMA Concat ==
  ASSUME NEW S, NEW s \in Seq(S), NEW t \in Seq(S)
  PROVE  /\ s \o t \in Seq(S) /\ Len(s \o t) = Len(s) + Len(t)
         /\ \A i \in 1..Len(s) : (s \o t)[i] = s[i]
         /\ \A i \in 1..Len(t) : (s \o t)[Len(s) + i] = t[i]
  OBVIOUS

\* The length of what is joined.
LEMMA FlattenBound ==
  ASSUME NEW S, NEW seqs \in Lists(S), NEW b \in Nat, \A i \in 1..Len(seqs) : Len(seqs[i]) <= b
  PROVE  Len(FlattenSeq(seqs)) <= Len(seqs) * b
<1>1. PICK T : T = Seq(S)
  OBVIOUS
<1>2. seqs \in Seq(T)
  BY <1>1 DEF Lists
<1>3. PICK n \in Nat : n = Len(seqs)
  BY <1>2
<1>4. CASE n = 0
  <2>1. seqs = <<>>
    BY <1>2, <1>3, <1>4, EmptySeq
  <2>2. FlattenSeq(seqs) = <<>>
    BY <2>1, FlattenEmpty
  <2>3. 0 * b = 0
    OBVIOUS
  <2> QED BY <1>3, <1>4, <2>2, <2>3
<1>5. CASE n # 0
  <2>1. PICK f : Joins(f, seqs, n) /\ FlattenSeq(seqs) = f[n]
    BY <1>2, <1>3, <1>5, FlattenJoins
  <2> DEFINE Good(i) == f[i] \in Seq(S) /\ Len(f[i]) <= i * b
  <2> DEFINE Bad == {i \in 1..n : ~Good(i)}
  <2>2. Bad = {}
    <3> SUFFICES ASSUME Bad # {} PROVE FALSE
      OBVIOUS
    <3>1. PICK i \in Bad : \A j \in Bad : i <= j
      <4>1. Bad \subseteq Nat
        OBVIOUS
      <4> HIDE DEF Bad
      <4> QED BY <4>1, LeastExists
    <3>2. f[i] = IF i = 1 THEN seqs[i] ELSE f[i-1] \o seqs[i]
      BY <2>1, JoinsAt
    <3>3. PICK x \in Seq(S) : x = seqs[i] /\ Len(x) <= b
      BY <1>1, <1>2, <1>3
    <3>4. i \in 1..n
      OBVIOUS
    <3>5. CASE i = 1
      <4>1. 1 * b = b
        OBVIOUS
      <4> QED BY <3>2, <3>3, <3>5, <4>1
    <3>6. CASE i # 1
      <4>1. i - 1 \in 1..n /\ i - 1 < i
        BY <3>4, <3>6
      <4>2. Good(i - 1)
        BY <3>1, <4>1
      <4>3. PICK y \in Seq(S), k \in 1..n : y = f[i-1] /\ k = i - 1 /\ i = k + 1 /\ Len(y) <= k * b
        BY <4>1, <4>2
      <4>4. y \o x \in Seq(S) /\ Len(y \o x) = Len(y) + Len(x)
        BY Concat
      <4>5. (k + 1) * b = k * b + b
        OBVIOUS
      <4>6. Len(y \o x) <= i * b
        <5> HIDE DEF Good, Bad
        <5>1. PICK p \in Nat, q \in Nat : p = Len(y) /\ q = Len(x)
          OBVIOUS
        <5>2. PICK u : u = k * b
          OBVIOUS
        <5>3. u \in Int /\ b \in Int
          BY <5>2
        <5>4. p <= u /\ q <= b
          BY <3>3, <4>3, <5>1, <5>2
        <5>5. p + q <= u + b
          BY <5>3, <5>4
        <5> QED BY <4>3, <4>4, <4>5, <5>1, <5>2, <5>5
      <4>7. f[i] = y \o x
        BY <3>2, <3>3, <3>6, <4>3
      <4>8. Good(i)
        BY <4>4, <4>6, <4>7
      <4> QED BY <4>8
    <3> QED BY <3>5, <3>6
  <2>3. Good(n)
    BY <1>5, <2>2
  <2> QED BY <1>3, <2>1, <2>3
<1> QED BY <1>4, <1>5

\* A part of a sequence.
LEMMA PartOf ==
  ASSUME NEW S, NEW s \in Seq(S), NEW m \in Int, NEW n \in Int,
         1 <= m, m <= n + 1, n <= Len(s)
  PROVE  /\ SubSeq(s, m, n) \in Seq(S)
         /\ Len(SubSeq(s, m, n)) = n - m + 1
         /\ \A i \in 1..(n - m + 1) : SubSeq(s, m, n)[i] = s[m + i - 1]
<1>1. \A i \in m..n : s[i] \in S
  BY ElementOfSeq
<1>2. PICK t : t = SubSeq(s, m, n)
  OBVIOUS
<1>3. /\ t \in Seq(S) /\ Len(t) = IF m <= n THEN n - m + 1 ELSE 0
      /\ \A i \in 1..(n - m + 1) : t[i] = s[m + i - 1]
  BY <1>1, <1>2, SubSeqProperties
<1>4. (IF m <= n THEN n - m + 1 ELSE 0) = n - m + 1
  BY SMT
<1> QED BY <1>2, <1>3, <1>4

-----------------------------------------------------------------------------
(* Bytes *)

\* Bytes and 16-bit numbers as inequalities.
LEMMA ByteIs == \A x : x \in Byte <=> x \in Int /\ 0 <= x /\ x <= 255
  BY SMT DEF Byte

\* Words are integers within bounds.
LEMMA WordIs == \A x : x \in Word <=> x \in Int /\ 0 <= x /\ x <= 65535
  BY SMT DEF Word

\* The bytes of a 16-bit field.
LEMMA U16Bytes ==
  ASSUME NEW n \in Word
  PROVE  /\ n \div 256 \in Byte /\ n % 256 \in Byte
         /\ 256 * (n \div 256) + (n % 256) = n
  BY ByteIs, WordIs, SMT

\* Quotient and remainder are determined.
LEMMA DivUnique ==
  ASSUME NEW a \in Int, NEW b \in Int, 0 <= b, b < 256
  PROVE  (256 * a + b) \div 256 = a /\ (256 * a + b) % 256 = b
<1>1. PICK x \in Int : x = 256 * a + b
  BY SMT
<1>2. PICK q \in Int : q = x \div 256
  BY SMT
<1>3. PICK r \in Int : r = x % 256
  BY SMT
<1>4. x = 256 * q + r /\ 0 <= r /\ r <= 255
  BY <1>2, <1>3, SMT
<1>5. q = a /\ r = b
  BY <1>1, <1>4, SMT
<1> QED BY <1>1, <1>2, <1>3, <1>5, SMT

\* The field of two bytes.
LEMMA BytesU16 ==
  ASSUME NEW a \in Byte, NEW b \in Byte
  PROVE  /\ 256 * a + b \in Word
         /\ (256 * a + b) \div 256 = a /\ (256 * a + b) % 256 = b
<1>1. a \in Int /\ 0 <= a /\ a <= 255 /\ b \in Int /\ 0 <= b /\ b <= 255
  BY ByteIs
<1>2. 256 * a + b \in Word
  BY <1>1, WordIs, SMT
<1> QED BY <1>1, <1>2, DivUnique, SMT

-----------------------------------------------------------------------------
(* Numbers *)

\* Digit i of k, with zeros in front.
DigitAt(n, k, i) == IF i + Len(n) <= k THEN 0 ELSE n[i + Len(n) - k]

\* The digits of a byte string.
DigitsOf(bytes, k) == [i \in 1..k |-> 256 * bytes[2*i - 1] + bytes[2*i]]

\* The digits that struct.pack writes are 16-bit numbers.
LEMMA DigitType ==
  ASSUME NEW n \in Seq(Word), NEW k \in Nat, Len(n) <= k, NEW i \in 1..k
  PROVE  DigitAt(n, k, i) \in Word
<1>1. 0 \in Word
  BY WordIs, SMT
<1>2. i + Len(n) > k => i + Len(n) - k \in 1..Len(n)
  BY SMT
<1>3. i + Len(n) > k => n[i + Len(n) - k] \in Word
  BY <1>2, ElementOfSeq
<1> QED BY <1>1, <1>3 DEF DigitAt

\* The bytes of a number.
LEMMA PackBytes ==
  ASSUME NEW n \in Seq(Word), NEW k \in Nat, Len(n) <= k
  PROVE  /\ pack(n, k) \in Seq(Byte) /\ Len(pack(n, k)) = 2 * k
         /\ \A i \in 1..k : /\ pack(n, k)[2*i - 1] = DigitAt(n, k, i) \div 256
                            /\ pack(n, k)[2*i] = DigitAt(n, k, i) % 256
<1> DEFINE p == pack(n, k)
<1>1. p = [j \in 1..(2 * k) |-> IF j % 2 = 1 THEN DigitAt(n, k, (j + 1) \div 2) \div 256
                                ELSE DigitAt(n, k, j \div 2) % 256]
  BY DEF pack, DigitAt
<1>2. ASSUME NEW j \in 1..(2 * k) PROVE p[j] \in Byte
  <2>1. CASE j % 2 = 1
    <3>1. PICK i \in 1..k : i = (j + 1) \div 2
      BY <2>1, SMT
    <3>2. p[j] = DigitAt(n, k, i) \div 256
      BY <1>1, <2>1, <3>1
    <3> QED BY <3>2, DigitType, U16Bytes
  <2>2. CASE j % 2 # 1
    <3>1. PICK i \in 1..k : i = j \div 2
      BY <2>2, SMT
    <3>2. p[j] = DigitAt(n, k, i) % 256
      BY <1>1, <2>2, <3>1
    <3> QED BY <3>2, DigitType, U16Bytes
  <2> QED BY <2>1, <2>2
<1>3. p \in Seq(Byte) /\ Len(p) = 2 * k
  <2>1. p \in [1..(2 * k) -> Byte] /\ 2 * k \in Nat
    <3>1. DOMAIN p = 1..(2 * k) /\ p = [j \in DOMAIN p |-> p[j]]
      BY <1>1
    <3> HIDE DEF p
    <3> QED BY <1>2, <3>1
  <2> HIDE DEF p
  <2> QED BY <2>1
<1>4. ASSUME NEW i \in 1..k
      PROVE  p[2*i - 1] = DigitAt(n, k, i) \div 256 /\ p[2*i] = DigitAt(n, k, i) % 256
  <2>1. /\ 2*i - 1 \in 1..(2 * k) /\ (2*i - 1) % 2 = 1 /\ (2*i - 1 + 1) \div 2 = i
        /\ 2*i \in 1..(2 * k) /\ (2*i) % 2 # 1 /\ (2*i) \div 2 = i
    BY SMT
  <2> QED BY <1>1, <2>1
<1> QED BY <1>3, <1>4

\* The digits read from bytes.
LEMMA DigitsType ==
  ASSUME NEW k \in Nat, NEW bytes \in Seq(Byte), Len(bytes) = 2 * k
  PROVE  /\ DigitsOf(bytes, k) \in Seq(Word) /\ Len(DigitsOf(bytes, k)) = k
         /\ \A i \in 1..k : /\ bytes[2*i - 1] = DigitsOf(bytes, k)[i] \div 256
                            /\ bytes[2*i] = DigitsOf(bytes, k)[i] % 256
<1> DEFINE d == DigitsOf(bytes, k)
<1>1. ASSUME NEW i \in 1..k
      PROVE  d[i] \in Word /\ bytes[2*i - 1] = d[i] \div 256 /\ bytes[2*i] = d[i] % 256
  <2>1. 2*i - 1 \in 1..Len(bytes) /\ 2*i \in 1..Len(bytes)
    BY SMT
  <2>2. PICK a \in Byte, b \in Byte : a = bytes[2*i - 1] /\ b = bytes[2*i]
    BY <2>1, ElementOfSeq
  <2>3. d[i] = 256 * a + b
    BY <2>2 DEF DigitsOf
  <2> HIDE DEF d
  <2> QED BY <2>2, <2>3, BytesU16
<1>2. d \in [1..k -> Word]
  <2>1. d = [i \in 1..k |-> d[i]]
    BY DEF DigitsOf
  <2> HIDE DEF d
  <2> QED BY <1>1, <2>1
<1> HIDE DEF d
<1>3. d \in Seq(Word) /\ Len(d) = k
  BY <1>2
<1> QED BY <1>1, <1>3 DEF d

\* unpack drops the leading zeros and nothing else.
LEMMA UnpackFrom ==
  ASSUME NEW k \in Nat, NEW bytes \in Seq(Byte), Len(bytes) = 2 * k,
         NEW d, d = DigitsOf(bytes, k)
  PROVE  \E f \in 1..(k + 1) : /\ \A i \in 1..k : i < f => d[i] = 0
                               /\ f <= k => d[f] # 0
                               /\ unpack(bytes) = SubSeq(d, f, k)
<1>1. Len(bytes) \div 2 = k
  BY SMT
<1>2. d \in Seq(Word) /\ Len(d) = k
  BY DigitsType
<1> DEFINE I == {i \in 1..k : d[i] # 0}
<1>3. SelectInSeq(d, LAMBDA x : x # 0) = IF I # {} THEN Min(I) ELSE 0
  BY <1>2 DEF SelectInSeq
<1>4. unpack(bytes) = LET first == SelectInSeq(d, LAMBDA x : x # 0)
                      IN  IF first = 0 THEN <<>> ELSE SubSeq(d, first, Len(d))
  BY <1>1 DEF unpack, DigitsOf
<1>5. CASE I = {}
  <2>1. unpack(bytes) = <<>>
    BY <1>3, <1>4, <1>5
  <2>2. SubSeq(d, k + 1, k) = <<>>
    BY SubSeqEmpty, SMT
  <2>3. \A i \in 1..k : d[i] = 0
    BY <1>5
  <2>4. k + 1 \in 1..(k + 1)
    OBVIOUS
  <2> QED BY <2>1, <2>2, <2>3, <2>4
<1>6. CASE I # {}
  <2>1. PICK f : f = Min(I)
    OBVIOUS
  <2>2. f \in I /\ \A j \in I : f <= j
    <3>1. I \subseteq Nat
      OBVIOUS
    <3> HIDE DEF I
    <3>2. \E x \in I : \A y \in I : x <= y
      BY <1>6, <3>1, LeastExists
    <3> QED BY <2>1, <3>2 DEF Min
  <2>3. f \in 1..k /\ d[f] # 0 /\ f # 0
    BY <2>2
  <2>4. \A i \in 1..k : i < f => d[i] = 0
    BY <2>2
  <2>5. unpack(bytes) = SubSeq(d, f, k)
    <3> HIDE DEF I
    <3> QED BY <1>2, <1>3, <1>4, <1>6, <2>1, <2>3
  <2> HIDE DEF I
  <2> QED BY <2>3, <2>4, <2>5
<1> QED BY <1>5, <1>6

\* struct.unpack returns a number that fits, and struct.pack writes it as it
\* was read.
LEMMA PackUnpack ==
  ASSUME NEW k \in Nat, NEW bytes \in Seq(Byte), Len(bytes) = 2 * k
  PROVE  /\ IsNumber(unpack(bytes)) /\ Len(unpack(bytes)) <= k
         /\ pack(unpack(bytes), k) = bytes
<1>1. PICK d : d = DigitsOf(bytes, k)
  OBVIOUS
<1>2. /\ d \in Seq(Word) /\ Len(d) = k
      /\ \A i \in 1..k : bytes[2*i - 1] = d[i] \div 256 /\ bytes[2*i] = d[i] % 256
  BY <1>1, DigitsType
<1>3. PICK f \in 1..(k + 1) : /\ \A i \in 1..k : i < f => d[i] = 0
                              /\ f <= k => d[f] # 0
                              /\ unpack(bytes) = SubSeq(d, f, k)
  BY <1>1, UnpackFrom
<1>4. PICK n : n = unpack(bytes)
  OBVIOUS
<1>5. /\ n \in Seq(Word) /\ Len(n) = k - f + 1
      /\ \A i \in 1..(k - f + 1) : n[i] = d[f + i - 1]
  <2>1. n = SubSeq(d, f, k)
    BY <1>3, <1>4
  <2>2. f \in Int /\ k \in Int /\ 1 <= f /\ f <= k + 1 /\ k <= Len(d)
    BY <1>2
  <2> QED BY <1>2, <2>1, <2>2, PartOf
<1>6. IsNumber(n)
  <2>1. n # <<>> => f <= k
    <3>1. n # <<>> => Len(n) # 0
      BY <1>5, EmptySeq
    <3> QED BY <1>5, <3>1
  <2>2. f <= k => n[1] = d[f]
    <3>1. f <= k => 1 \in 1..(k - f + 1) /\ f + 1 - 1 = f
      OBVIOUS
    <3> QED BY <1>5, <3>1
  <2>3. f <= k => d[f] # 0
    BY <1>3
  <2>4. n # <<>> => n[1] # 0
    BY <2>1, <2>2, <2>3
  <2> QED BY <1>5, <2>4 DEF IsNumber
<1>7. Len(n) <= k
  BY <1>5
<1>8. ASSUME NEW i \in 1..k PROVE DigitAt(n, k, i) = d[i]
  <2>1. CASE i < f
    <3>1. i + Len(n) <= k
      BY <1>5, <2>1
    <3>2. d[i] = 0
      BY <1>3, <2>1
    <3> QED BY <3>1, <3>2 DEF DigitAt
  <2>2. CASE i >= f
    <3>1. ~(i + Len(n) <= k)
      BY <1>5, <2>2
    <3>2. PICK j \in 1..(k - f + 1) : j = i + Len(n) - k
      <4>1. i + Len(n) - k = i - f + 1
        BY <1>5
      <4>2. i - f + 1 \in 1..(k - f + 1)
        BY <2>2
      <4> QED BY <4>1, <4>2
    <3>3. f + j - 1 = i
      BY <1>5, <3>2
    <3>4. n[j] = d[i]
      BY <1>5, <3>3
    <3> QED BY <3>1, <3>2, <3>4 DEF DigitAt
  <2> QED BY <2>1, <2>2
<1>9. PICK p : p = pack(n, k)
  OBVIOUS
<1>10. /\ p \in Seq(Byte) /\ Len(p) = 2 * k
       /\ \A i \in 1..k : /\ p[2*i - 1] = DigitAt(n, k, i) \div 256
                          /\ p[2*i] = DigitAt(n, k, i) % 256
  BY <1>5, <1>7, <1>9, PackBytes
<1>11. \A i \in 1..k : p[2*i - 1] = bytes[2*i - 1] /\ p[2*i] = bytes[2*i]
  <2> SUFFICES ASSUME NEW i \in 1..k
               PROVE  p[2*i - 1] = bytes[2*i - 1] /\ p[2*i] = bytes[2*i]
    OBVIOUS
  <2>1. PICK w : w = d[i]
    OBVIOUS
  <2>2. p[2*i - 1] = w \div 256 /\ p[2*i] = w % 256
    BY <1>8, <1>10, <2>1
  <2>3. bytes[2*i - 1] = w \div 256 /\ bytes[2*i] = w % 256
    BY <1>2, <2>1
  <2> QED BY <2>2, <2>3
<1>12. ASSUME NEW j \in 1..(2 * k) PROVE p[j] = bytes[j]
  <2>1. PICK i \in 1..k : j = 2*i - 1 \/ j = 2*i
    <3>1. (j + 1) \div 2 \in 1..k
          /\ (j = 2 * ((j + 1) \div 2) - 1 \/ j = 2 * ((j + 1) \div 2))
      BY SMT
    <3> QED BY <3>1
  <2> QED BY <1>11, <2>1
<1>13. p = bytes
  BY <1>10, <1>12, SeqEqual
<1> QED BY <1>4, <1>6, <1>7, <1>9, <1>13

\* struct.unpack reads the number that struct.pack wrote.
LEMMA UnpackPack ==
  ASSUME NEW k \in Nat, NEW n, IsNumber(n), Len(n) <= k
  PROVE  unpack(pack(n, k)) = n
<1>1. n \in Seq(Word) /\ (n # <<>> => n[1] # 0)
  BY DEF IsNumber
<1>2. PICK p : p = pack(n, k)
  OBVIOUS
<1>3. /\ p \in Seq(Byte) /\ Len(p) = 2 * k
      /\ \A i \in 1..k : /\ p[2*i - 1] = DigitAt(n, k, i) \div 256
                         /\ p[2*i] = DigitAt(n, k, i) % 256
  BY <1>1, <1>2, PackBytes
<1>4. PICK d : d = DigitsOf(p, k)
  OBVIOUS
<1>5. d \in Seq(Word) /\ Len(d) = k
  BY <1>3, <1>4, DigitsType
<1>6. ASSUME NEW i \in 1..k PROVE d[i] = DigitAt(n, k, i)
  <2>1. d[i] = 256 * p[2*i - 1] + p[2*i]
    BY <1>4 DEF DigitsOf
  <2>2. PICK w \in Word : w = DigitAt(n, k, i)
    BY <1>1, DigitType
  <2>3. 256 * (w \div 256) + (w % 256) = w
    BY U16Bytes
  <2> QED BY <1>3, <2>1, <2>2, <2>3
<1>7. PICK f \in 1..(k + 1) : /\ \A i \in 1..k : i < f => d[i] = 0
                              /\ f <= k => d[f] # 0
                              /\ unpack(p) = SubSeq(d, f, k)
  BY <1>3, <1>4, UnpackFrom, ZenonT(90)
<1>8. f = k - Len(n) + 1
  <2>1. \A i \in 1..k : i + Len(n) <= k => d[i] = 0
    BY <1>6 DEF DigitAt
  <2>2. CASE f < k - Len(n) + 1
    <3>1. f \in 1..k /\ f <= k /\ f + Len(n) <= k
      BY <1>1, <2>2
    <3>2. d[f] = 0
      BY <2>1, <3>1
    <3> QED BY <1>7, <3>1, <3>2
  <2>3. CASE f > k - Len(n) + 1
    <3>1. PICK l \in Nat, g \in Int : l = Len(n) /\ g = k - l + 1
      BY <1>1
    <3>2. /\ g \in 1..k /\ g < f /\ ~(g + Len(n) <= k) /\ g + Len(n) - k = 1
          /\ Len(n) # 0
      BY <2>3, <3>1
    <3>3. n # <<>>
      BY <3>2
    <3>4. d[g] = n[1]
      BY <1>6, <3>2 DEF DigitAt
    <3> QED BY <1>1, <1>7, <3>2, <3>3, <3>4
  <2> QED BY <1>1, <2>2, <2>3
<1>9. PICK s : s = SubSeq(d, f, k)
  OBVIOUS
<1>10. /\ s \in Seq(Word) /\ Len(s) = k - f + 1
       /\ \A i \in 1..(k - f + 1) : s[i] = d[f + i - 1]
  BY <1>5, <1>9, PartOf
<1>11. Len(s) = Len(n)
  BY <1>1, <1>8, <1>10
<1>12. ASSUME NEW i \in 1..Len(n) PROVE s[i] = n[i]
  <2>1. PICK j \in 1..k : j = f + i - 1
    <3>1. f + i - 1 \in 1..k
      BY <1>1, <1>8
    <3> QED BY <3>1
  <2>2. ~(j + Len(n) <= k) /\ j + Len(n) - k = i
    BY <1>1, <1>8, <2>1
  <2>3. s[i] = d[j]
    BY <1>10, <1>11, <2>1
  <2> QED BY <1>6, <2>2, <2>3 DEF DigitAt
<1>13. s = n
  BY <1>1, <1>10, <1>11, <1>12, SeqEqual
<1> QED BY <1>2, <1>7, <1>9, <1>13

-----------------------------------------------------------------------------
(* One AVP *)

\* The instances of class AVP.
Avps ==
    [ attribute_type : Word, vendor_id : Word, hidden : BOOLEAN, mandatory : BOOLEAN,
      value : Seq(Byte) ]

\* One that can be encoded without a secret.
Plain(avp) == avp \in Avps /\ ~avp.hidden /\ Len(avp.value) <= 1017

\* The first byte of the header.
FirstByte(avp) == (IF avp.mandatory THEN 128 ELSE 0) + (6 + Len(avp.value)) \div 256

\* The bytes of such an AVP, one by one.
EncodedAs(avp, e) ==
    /\ e \in Seq(Byte) /\ Len(e) = 6 + Len(avp.value)
    /\ e[1] = FirstByte(avp) /\ e[2] = (6 + Len(avp.value)) % 256
    /\ e[3] = avp.vendor_id \div 256 /\ e[4] = avp.vendor_id % 256
    /\ e[5] = avp.attribute_type \div 256 /\ e[6] = avp.attribute_type % 256
    /\ \A i \in 1..Len(avp.value) : e[6 + i] = avp.value[i]

\* They are what encode() returns.
LEMMA EncodeBytes ==
  ASSUME NEW avp, Plain(avp), NEW rv
  PROVE  EncodedAs(avp, encode(avp, rv))
<1>0. PICK e : e = encode(avp, rv)
  OBVIOUS
<1>1. PICK val \in Seq(Byte) : val = avp.value
  BY DEF Plain, Avps
<1>2. PICK n \in Nat : n = Len(val)
  OBVIOUS
<1>3. PICK b \in Byte : b = FirstByte(avp)
  <2>1. n <= 1017
    BY <1>1, <1>2 DEF Plain
  <2>2. (6 + n) \div 256 \in Int /\ 0 <= (6 + n) \div 256 /\ (6 + n) \div 256 <= 3
    BY <2>1, SMT
  <2>3. FirstByte(avp) = (IF avp.mandatory THEN 128 ELSE 0) + (6 + n) \div 256
    BY <1>1, <1>2 DEF FirstByte
  <2> QED BY <2>2, <2>3, ByteIs, SMT
<1>4. PICK c \in Byte : c = (6 + n) % 256
  BY ByteIs, SMT
<1>5. PICK v1 \in Byte, v2 \in Byte : v1 = avp.vendor_id \div 256 /\ v2 = avp.vendor_id % 256
  BY U16Bytes DEF Plain, Avps
<1>6. PICK t1 \in Byte, t2 \in Byte :
        t1 = avp.attribute_type \div 256 /\ t2 = avp.attribute_type % 256
  BY U16Bytes DEF Plain, Avps
<1>7. e = <<b, c>> \o <<v1, v2>> \o <<t1, t2>> \o val
  <2>1. value_field(avp, rv) = val
    BY <1>1 DEF value_field, Plain
  <2>2. b = (IF avp.mandatory THEN 128 ELSE 0) + (IF avp.hidden THEN 64 ELSE 0)
             + (6 + n) \div 256
    BY <1>1, <1>2, <1>3, SMT DEF FirstByte, Plain
  <2> QED BY <1>0, <1>2, <1>4, <1>5, <1>6, <2>1, <2>2 DEF encode, U16
<1>8. /\ e \in Seq(Byte) /\ Len(e) = 6 + n
      /\ e[1] = b /\ e[2] = c /\ e[3] = v1 /\ e[4] = v2 /\ e[5] = t1 /\ e[6] = t2
  BY <1>2, <1>7
<1>9. \A i \in 1..n : e[6 + i] = val[i]
  BY <1>2, <1>7
<1> QED BY <1>0, <1>1, <1>2, <1>3, <1>4, <1>5, <1>6, <1>8, <1>9 DEF EncodedAs

\* The bits of the first byte, when the reserved ones and the H bit are zero.
LEMMA FlagBits ==
  ASSUME NEW b \in Byte, (b \div 4) % 16 = 0, (b \div 64) % 2 # 1
  PROVE  b = (IF b >= 128 THEN 128 ELSE 0) + (b % 4)
<1>1. b \in Int /\ 0 <= b /\ b <= 255
  BY ByteIs
<1> QED BY <1>1, SMT

\* decode_one reads a plain AVP only from inside the buffer, and what it makes
\* of it is encoded as it was read.
LEMMA EncodeDecoded ==
  ASSUME NEW buf \in Seq(Byte), NEW off \in Nat, NEW rv, decodes_one(buf, off, rv),
         NEW avp, avp = decode_one(buf, off, rv), ~avp.hidden
  PROVE  /\ Plain(avp)
         /\ off + TotalLen(buf, off) <= Len(buf)
         /\ 6 + Len(avp.value) = TotalLen(buf, off)
         /\ encode(avp, None) = SubSeq(buf, off + 1, off + TotalLen(buf, off))
<1>1. PICK total \in Int : total = TotalLen(buf, off)
  <2>1. buf[off + 1] \in Byte /\ buf[off + 2] \in Byte
    BY DEF decodes_one
  <2> QED BY <2>1, ByteIs, SMTT(60) DEF TotalLen
<1>2. off + total <= Len(buf) /\ total >= 6
  BY <1>1 DEF decodes_one
<1>3. \A i \in 1..total : buf[off + i] \in Byte
  BY <1>2
<1>4. PICK b1 \in Byte, b2 \in Byte : b1 = buf[off + 1] /\ b2 = buf[off + 2]
  BY <1>2, <1>3
<1>5. PICK b3 \in Byte, b4 \in Byte : b3 = buf[off + 3] /\ b4 = buf[off + 4]
  BY <1>2, <1>3
<1>6. PICK b5 \in Byte, b6 \in Byte : b5 = buf[off + 5] /\ b6 = buf[off + 6]
  BY <1>2, <1>3
<1>7. total = 256 * (b1 % 4) + b2
  BY <1>1, <1>4 DEF TotalLen
<1>8. (b1 \div 4) % 16 = 0
  BY <1>4 DEF decodes_one, Reserved
<1>9. PICK val : val = SubSeq(buf, off + 7, off + total)
  OBVIOUS
<1>10. /\ val \in Seq(Byte)
       /\ Len(val) = total - 6
       /\ \A i \in 1..(total - 6) : val[i] = buf[off + 6 + i]
  <2>1. off + total - (off + 7) + 1 = total - 6 /\ off + 7 \in Int /\ off + total \in Int
        /\ 1 <= off + 7 /\ off + 7 <= off + total + 1
    BY <1>2, SMT
  <2>2. /\ val \in Seq(Byte) /\ Len(val) = off + total - (off + 7) + 1
        /\ \A i \in 1..(off + total - (off + 7) + 1) : val[i] = buf[off + 7 + i - 1]
    BY <1>2, <1>9, <2>1, PartOf
  <2> QED BY <2>1, <2>2
<1>11. /\ avp.attribute_type = 256 * b5 + b6
       /\ avp.vendor_id = 256 * b3 + b4
       /\ avp.mandatory = (b1 >= 128)
       /\ avp.hidden = ((b1 \div 64) % 2 = 1)
       /\ avp.value = val
  <2>1. off + 4 + 1 = off + 5 /\ off + 4 + 2 = off + 6 /\ off + 2 + 1 = off + 3
        /\ off + 2 + 2 = off + 4 /\ off + 6 + 1 = off + 7
    BY SMT
  <2>2. u16(buf, off + 4) = 256 * b5 + b6 /\ u16(buf, off + 2) = 256 * b3 + b4
    BY <1>5, <1>6, <2>1 DEF u16
  <2>3. RawValue(buf, off) = val
    <3>1. (IF off + total < Len(buf) THEN off + total ELSE Len(buf)) = off + total
      BY <1>2
    <3> QED BY <1>1, <1>9, <2>1, <3>1 DEF RawValue, Slice
  <2>4. IsMandatory(buf, off) = (b1 >= 128) /\ IsHidden(buf, off) = ((b1 \div 64) % 2 = 1)
    BY <1>4 DEF IsMandatory, IsHidden
  <2> QED BY <2>2, <2>3, <2>4 DEF decode_one
<1>12. Plain(avp)
  <2>1. 256 * b5 + b6 \in Word /\ 256 * b3 + b4 \in Word
    BY BytesU16
  <2>2. avp \in Avps
    BY <1>10, <1>11, <2>1 DEF decode_one, Avps
  <2>3. total <= 1023
    BY <1>7, ByteIs, SMT
  <2> QED BY <1>10, <1>11, <2>2, <2>3 DEF Plain
<1>13. 6 + Len(avp.value) = total
  BY <1>10, <1>11
<1>14. PICK e : e = encode(avp, None) /\ EncodedAs(avp, e)
  BY <1>12, EncodeBytes
<1>15. /\ e \in Seq(Byte)
       /\ Len(e) = total /\ e[1] = FirstByte(avp) /\ e[2] = total % 256
       /\ e[3] = avp.vendor_id \div 256 /\ e[4] = avp.vendor_id % 256
       /\ e[5] = avp.attribute_type \div 256 /\ e[6] = avp.attribute_type % 256
       /\ \A i \in 1..(total - 6) : e[6 + i] = val[i]
  BY <1>10, <1>11, <1>13, <1>14, SMTT(60) DEF EncodedAs
<1>16. e[3] = b3 /\ e[4] = b4 /\ e[5] = b5 /\ e[6] = b6
  BY <1>11, <1>15, BytesU16
<1>17. total \div 256 = b1 % 4 /\ total % 256 = b2
  <2>1. b1 % 4 \in Int /\ b2 \in Int /\ 0 <= b2 /\ b2 < 256
    BY ByteIs, SMT
  <2>2. PICK k \in Int : k = b1 % 4
    BY <2>1
  <2>3. (256 * k + b2) \div 256 = k /\ (256 * k + b2) % 256 = b2
    BY <2>1, DivUnique
  <2> QED BY <1>7, <2>2, <2>3
<1>18. e[1] = b1
  <2>1. b1 = (IF b1 >= 128 THEN 128 ELSE 0) + (b1 % 4)
    BY <1>8, <1>11, FlagBits
  <2>2. FirstByte(avp) = (IF b1 >= 128 THEN 128 ELSE 0) + total \div 256
    BY <1>11, <1>13, ZenonT(90) DEF FirstByte
  <2> QED BY <1>15, <1>17, <2>1, <2>2
<1>19. PICK s : s = SubSeq(buf, off + 1, off + total)
  OBVIOUS
<1>20. s \in Seq(Byte) /\ Len(s) = total /\ \A i \in 1..total : s[i] = buf[off + i]
  <2>1. off + total - (off + 1) + 1 = total /\ off + 1 \in Int /\ off + total \in Int
        /\ 1 <= off + 1 /\ off + 1 <= off + total + 1
    BY <1>2, SMT
  <2>2. /\ s \in Seq(Byte) /\ Len(s) = off + total - (off + 1) + 1
        /\ \A i \in 1..(off + total - (off + 1) + 1) : s[i] = buf[off + 1 + i - 1]
    BY <1>2, <1>19, <2>1, PartOf
  <2> QED BY <2>1, <2>2
<1>21. ASSUME NEW i \in 1..total PROVE e[i] = s[i]
  <2>1. CASE i <= 6
    <3>1. i \in {1, 2, 3, 4, 5, 6}
      BY <2>1
    <3>2. s[i] = buf[off + i]
      BY <1>20
    <3>3. /\ e[1] = buf[off + 1] /\ e[2] = buf[off + 2] /\ e[3] = buf[off + 3]
          /\ e[4] = buf[off + 4] /\ e[5] = buf[off + 5] /\ e[6] = buf[off + 6]
      BY <1>4, <1>5, <1>6, <1>15, <1>16, <1>17, <1>18
    <3> QED BY <3>1, <3>2, <3>3
  <2>2. CASE i > 6
    <3>1. PICK j \in 1..(total - 6) : i = 6 + j
      <4>1. i - 6 \in 1..(total - 6) /\ i = 6 + (i - 6)
        BY <2>2
      <4> QED BY <4>1
    <3>2. e[i] = val[j] /\ val[j] = buf[off + 6 + j]
      BY <1>10, <1>15, <3>1
    <3>3. s[i] = buf[off + i] /\ off + i = off + 6 + j
      BY <1>20, <3>1
    <3> QED BY <3>2, <3>3
  <2> QED BY <2>1, <2>2
<1>22. e = s
  BY <1>15, <1>20, <1>21, SeqEqual
<1> QED BY <1>1, <1>2, <1>12, <1>13, <1>14, <1>19, <1>22

\* The bytes e are in the buffer at an offset.
HasAt(buf, off, e) == \A i \in 1..Len(e) : buf[off + i] = e[i]

\* The bytes of an AVP with the flags m and l stand in a buffer.
StandsAt(buf, off, m, l, vendor, type, val) ==
    /\ off + 6 + Len(val) <= Len(buf)
    /\ buf[off + 1] = m + l + (6 + Len(val)) \div 256
    /\ buf[off + 2] = (6 + Len(val)) % 256
    /\ buf[off + 3] = vendor \div 256 /\ buf[off + 4] = vendor % 256
    /\ buf[off + 5] = type \div 256 /\ buf[off + 6] = type % 256
    /\ \A i \in 1..Len(val) : buf[off + 6 + i] = val[i]

\* There decode_one reads the parts of the AVP.
LEMMA FieldsRead ==
  ASSUME NEW buf \in Seq(Byte), NEW off \in Nat, NEW val \in Seq(Byte), Len(val) <= 1017,
         NEW m \in {0, 128}, NEW l \in {0, 64}, NEW vendor \in Word, NEW type \in Word,
         StandsAt(buf, off, m, l, vendor, type, val)
  PROVE  /\ TotalLen(buf, off) = 6 + Len(val)
         /\ Reserved(buf, off) = 0
         /\ IsHidden(buf, off) <=> l = 64
         /\ IsMandatory(buf, off) <=> m = 128
         /\ u16(buf, off + 4) = type /\ u16(buf, off + 2) = vendor
         /\ RawValue(buf, off) = val
<1>1. PICK n \in Nat : n = Len(val)
  OBVIOUS
<1>2. PICK total \in Nat : total = 6 + n
  OBVIOUS
<1>3. PICK k \in 0..3 : k = total \div 256
  <2>1. total <= 1023
    BY <1>1, <1>2
  <2> QED BY <2>1, SMT
<1>4. PICK b \in Int : b = m + l + k
  <2>1. m \in Int /\ l \in Int /\ k \in Int
    OBVIOUS
  <2> QED BY <2>1
<1>5. b = buf[off + 1] /\ buf[off + 2] = total % 256
  BY <1>1, <1>2, <1>3, <1>4 DEF StandsAt
<1>6. /\ (b \div 4) % 16 = 0 /\ b % 4 = k
      /\ (b \div 64) % 2 = 1 <=> l = 64
      /\ b >= 128 <=> m = 128
  BY <1>4, SMT
<1>7. TotalLen(buf, off) = total
  <2>1. 256 * k + (total % 256) = total
    BY <1>3, SMT
  <2>2. TotalLen(buf, off) = 256 * (buf[off + 1] % 4) + buf[off + 2]
    BY DEF TotalLen
  <2> QED BY <1>5, <1>6, <2>1, <2>2, ZenonT(60)
<1>8. /\ Reserved(buf, off) = 0
      /\ IsHidden(buf, off) <=> l = 64
      /\ IsMandatory(buf, off) <=> m = 128
  BY <1>5, <1>6 DEF IsHidden, Reserved, IsMandatory
<1>9. u16(buf, off + 4) = type /\ u16(buf, off + 2) = vendor
  <2>1. off + 4 + 1 = off + 5 /\ off + 4 + 2 = off + 6 /\ off + 2 + 1 = off + 3
        /\ off + 2 + 2 = off + 4
    BY SMT
  <2> QED BY <2>1, U16Bytes DEF u16, StandsAt
<1>10. RawValue(buf, off) = val
  <2>1. off + total <= Len(buf) /\ \A i \in 1..n : buf[off + 6 + i] = val[i]
    BY <1>1, <1>2 DEF StandsAt
  <2>2. (IF off + total < Len(buf) THEN off + total ELSE Len(buf)) = off + total
    BY <2>1
  <2>3. off + 6 + 1 = off + 7
    OBVIOUS
  <2>4. PICK s : s = SubSeq(buf, off + 7, off + total)
    OBVIOUS
  <2>5. RawValue(buf, off) = s
    BY <1>7, <2>2, <2>3, <2>4 DEF RawValue, Slice
  <2>6. off + total - (off + 7) + 1 = n /\ off + 7 \in Int /\ off + total \in Int
        /\ 1 <= off + 7 /\ off + 7 <= off + total + 1
    BY <1>2, SMT
  <2>7. /\ s \in Seq(Byte) /\ Len(s) = off + total - (off + 7) + 1
        /\ \A i \in 1..(off + total - (off + 7) + 1) : s[i] = buf[off + 7 + i - 1]
    BY <2>1, <2>4, <2>6, PartOf
  <2>8. Len(s) = n /\ \A i \in 1..n : s[i] = val[i]
    BY <2>1, <2>6, <2>7
  <2>9. s = val
    BY <1>1, <2>7, <2>8, SeqEqual
  <2> QED BY <2>5, <2>9
<1> QED BY <1>1, <1>2, <1>7, <1>8, <1>9, <1>10

\* Where the bytes of a plain AVP stand in a buffer, decode_one finds the AVP.
THEOREM DecodeEncoded ==
  ASSUME NEW buf \in Seq(Byte), NEW off \in Nat, NEW avp, Plain(avp), NEW rv,
         NEW e, EncodedAs(avp, e), off + Len(e) <= Len(buf),
         HasAt(buf, off, e)
  PROVE  /\ decodes_one(buf, off, rv)
         /\ decode_one(buf, off, rv) = avp
         /\ TotalLen(buf, off) = Len(e)
<1> USE DEF HasAt
<1>1. PICK val \in Seq(Byte) : val = avp.value
  BY DEF Plain, Avps
<1>2. PICK n \in Nat : n = Len(val)
  OBVIOUS
<1>3. PICK total \in Nat : total = 6 + n
  OBVIOUS
<1>4. total <= 1023 /\ Len(e) = total /\ off + total <= Len(buf)
  BY <1>1, <1>2, <1>3 DEF Plain, EncodedAs
<1>5. /\ buf[off + 1] = FirstByte(avp) /\ buf[off + 2] = total % 256
      /\ buf[off + 3] = avp.vendor_id \div 256 /\ buf[off + 4] = avp.vendor_id % 256
      /\ buf[off + 5] = avp.attribute_type \div 256
      /\ buf[off + 6] = avp.attribute_type % 256
  <2>1. \A i \in {1, 2, 3, 4, 5, 6} : buf[off + i] = e[i]
    BY <1>3, <1>4
  <2>2. 6 + Len(avp.value) = total
    BY <1>1, <1>2, <1>3
  <2> QED BY <2>1, <2>2, ZenonT(90) DEF EncodedAs
<1>6. \A i \in 1..n : buf[off + 6 + i] = val[i]
  <2> SUFFICES ASSUME NEW i \in 1..n PROVE buf[off + 6 + i] = val[i]
    OBVIOUS
  <2>1. PICK j \in 1..total : j = 6 + i
    BY <1>3
  <2>2. buf[off + j] = e[j] /\ off + j = off + 6 + i
    BY <1>4, <2>1
  <2>3. e[6 + i] = val[i]
    BY <1>1, <1>2 DEF EncodedAs
  <2> QED BY <2>1, <2>2, <2>3
<1>7. PICK m \in {0, 128} : m = (IF avp.mandatory THEN 128 ELSE 0)
  OBVIOUS
<1>8. PICK vendor \in Word, type \in Word : vendor = avp.vendor_id /\ type = avp.attribute_type
  BY DEF Plain, Avps
<1>9. buf[off + 1] = m + 0 + total \div 256
  <2>1. FirstByte(avp) = (IF avp.mandatory THEN 128 ELSE 0) + total \div 256
    BY <1>1, <1>2, <1>3 DEF FirstByte
  <2>2. PICK q \in Int : q = total \div 256
    OBVIOUS
  <2>3. m + q = m + 0 + q
    OBVIOUS
  <2> QED BY <1>5, <1>7, <2>1, <2>2, <2>3
<1>10. StandsAt(buf, off, m, 0, vendor, type, val)
  BY <1>2, <1>3, <1>4, <1>5, <1>6, <1>8, <1>9 DEF StandsAt
<1>11. /\ TotalLen(buf, off) = total /\ Reserved(buf, off) = 0
       /\ ~IsHidden(buf, off)
       /\ IsMandatory(buf, off) <=> m = 128
       /\ u16(buf, off + 4) = type /\ u16(buf, off + 2) = vendor
       /\ RawValue(buf, off) = val
  <2>1. total = 6 + Len(val) /\ Len(val) <= 1017 /\ 0 \in {0, 64} /\ 0 # 64
    BY <1>2, <1>3, <1>4
  <2> QED BY <1>10, <2>1, FieldsRead
<1>12. ~IsHidden(buf, off) /\ IsMandatory(buf, off) = avp.mandatory
  <2>1. avp.mandatory \in BOOLEAN /\ IsMandatory(buf, off) \in BOOLEAN
    BY DEF Plain, Avps, IsMandatory
  <2> QED BY <1>7, <1>11, <2>1
<1>13. decodes_one(buf, off, rv)
  BY <1>3, <1>4, <1>11, <1>12 DEF decodes_one, Readable
<1>14. decode_one(buf, off, rv) = avp
  <2>1. avp \in Avps /\ ~avp.hidden
    BY DEF Plain
  <2>2. avp = [ attribute_type |-> avp.attribute_type, vendor_id |-> avp.vendor_id,
                mandatory |-> avp.mandatory, hidden |-> avp.hidden, value |-> avp.value ]
    BY <2>1 DEF Avps
  <2>3. IsHidden(buf, off) = avp.hidden
    BY <1>12, <2>1 DEF IsHidden, Avps
  <2>4. decode_one(buf, off, rv)
          = [ attribute_type |-> avp.attribute_type, vendor_id |-> avp.vendor_id,
              mandatory |-> avp.mandatory, hidden |-> avp.hidden, value |-> val ]
    BY <1>8, <1>11, <1>12, <2>3 DEF decode_one
  <2> QED BY <1>1, <2>2, <2>4
<1> QED BY <1>4, <1>11, <1>13, <1>14
-----------------------------------------------------------------------------
(* Hidden values *)

\* What is combined with the keystream are bytes.
LEMMA XorByte ==
  ASSUME NEW a, NEW b
  PROVE  Xor(a, b) \in Byte
<1> DEFINE Bit(w) == IF (a \div w) % 2 = (b \div w) % 2 THEN 0 ELSE w
<1>1. PICK c1 \in {0, 1}, c2 \in {0, 2} : c1 = Bit(1) /\ c2 = Bit(2)
  OBVIOUS
<1>2. PICK c4 \in {0, 4}, c8 \in {0, 8} : c4 = Bit(4) /\ c8 = Bit(8)
  OBVIOUS
<1>3. PICK c16 \in {0, 16}, c32 \in {0, 32} : c16 = Bit(16) /\ c32 = Bit(32)
  OBVIOUS
<1>4. PICK c64 \in {0, 64}, c128 \in {0, 128} : c64 = Bit(64) /\ c128 = Bit(128)
  OBVIOUS
<1>5. Xor(a, b) = c1 + c2 + c4 + c8 + c16 + c32 + c64 + c128
  BY <1>1, <1>2, <1>3, <1>4 DEF Xor
<1> HIDE DEF Bit
<1>6. PICK s \in Int : s = c1 + c2 + c4 + c8 + c16 + c32 + c64 + c128
  OBVIOUS
<1>7. 0 <= s /\ s <= 255
  BY <1>6
<1> QED BY <1>5, <1>6, <1>7, ByteIs

\* A byte and its bits, the least significant one first.
IsBits(x, c) ==
    /\ c \in [1..8 -> {0, 1}]
    /\ x = c[1] + 2*c[2] + 4*c[3] + 8*c[4] + 16*c[5] + 32*c[6] + 64*c[7] + 128*c[8]

LEMMA BitsExist ==
  ASSUME NEW x \in Byte
  PROVE  \E c : IsBits(x, c)
<1>1. x \in Int /\ 0 <= x /\ x <= 255
  BY ByteIs
<1>2. PICK c1, c2, c3, c4, c5, c6, c7, c8 \in {0, 1} :
        x = c1 + 2*c2 + 4*c3 + 8*c4 + 16*c5 + 32*c6 + 64*c7 + 128*c8
  BY <1>1, SMTT(60)
<1> DEFINE c == <<c1, c2, c3, c4, c5, c6, c7, c8>>
<1>3. c \in [1..8 -> {0, 1}]
  OBVIOUS
<1>4. IsBits(x, c)
  BY <1>2, <1>3 DEF IsBits
<1> QED BY <1>4

LEMMA BitsRead ==
  ASSUME NEW x \in Int, NEW c, IsBits(x, c)
  PROVE  /\ (x \div 1) % 2 = c[1] /\ (x \div 2) % 2 = c[2] /\ (x \div 4) % 2 = c[3]
         /\ (x \div 8) % 2 = c[4] /\ (x \div 16) % 2 = c[5] /\ (x \div 32) % 2 = c[6]
         /\ (x \div 64) % 2 = c[7] /\ (x \div 128) % 2 = c[8]
<1>1. PICK c1, c2, c3, c4, c5, c6, c7, c8 \in {0, 1} :
        /\ c1 = c[1] /\ c2 = c[2] /\ c3 = c[3] /\ c4 = c[4]
        /\ c5 = c[5] /\ c6 = c[6] /\ c7 = c[7] /\ c8 = c[8]
  BY DEF IsBits
<1>2. x = c1 + 2*c2 + 4*c3 + 8*c4 + 16*c5 + 32*c6 + 64*c7 + 128*c8
  BY <1>1 DEF IsBits
<1>3. /\ (x \div 1) % 2 = c1 /\ (x \div 2) % 2 = c2 /\ (x \div 4) % 2 = c3
      /\ (x \div 8) % 2 = c4 /\ (x \div 16) % 2 = c5 /\ (x \div 32) % 2 = c6
      /\ (x \div 64) % 2 = c7 /\ (x \div 128) % 2 = c8
  BY <1>2, SMTT(60)
<1> QED BY <1>1, <1>3

\* The bits of the exclusive or.
Differ(c, d) == [i \in 1..8 |-> IF c[i] = d[i] THEN 0 ELSE 1]

LEMMA XorBits ==
  ASSUME NEW a \in Byte, NEW b \in Byte, NEW c, IsBits(a, c), NEW d, IsBits(b, d)
  PROVE  IsBits(Xor(a, b), Differ(c, d))
<1>1. a \in Int /\ b \in Int
  BY ByteIs
<1>2. PICK e : e = Differ(c, d)
  OBVIOUS
<1>3. e \in [1..8 -> {0, 1}] /\ \A i \in 1..8 : e[i] = IF c[i] = d[i] THEN 0 ELSE 1
  BY <1>2 DEF Differ
<1> DEFINE Bit(w) == IF (a \div w) % 2 = (b \div w) % 2 THEN 0 ELSE w
<1>4. /\ ((a \div 1) % 2 = (b \div 1) % 2) <=> c[1] = d[1]
      /\ ((a \div 2) % 2 = (b \div 2) % 2) <=> c[2] = d[2]
      /\ ((a \div 4) % 2 = (b \div 4) % 2) <=> c[3] = d[3]
      /\ ((a \div 8) % 2 = (b \div 8) % 2) <=> c[4] = d[4]
      /\ ((a \div 16) % 2 = (b \div 16) % 2) <=> c[5] = d[5]
      /\ ((a \div 32) % 2 = (b \div 32) % 2) <=> c[6] = d[6]
      /\ ((a \div 64) % 2 = (b \div 64) % 2) <=> c[7] = d[7]
      /\ ((a \div 128) % 2 = (b \div 128) % 2) <=> c[8] = d[8]
  <2>1. /\ (a \div 1) % 2 = c[1] /\ (a \div 2) % 2 = c[2] /\ (a \div 4) % 2 = c[3]
        /\ (a \div 8) % 2 = c[4] /\ (a \div 16) % 2 = c[5] /\ (a \div 32) % 2 = c[6]
        /\ (a \div 64) % 2 = c[7] /\ (a \div 128) % 2 = c[8]
    BY <1>1, BitsRead
  <2>2. /\ (b \div 1) % 2 = d[1] /\ (b \div 2) % 2 = d[2] /\ (b \div 4) % 2 = d[3]
        /\ (b \div 8) % 2 = d[4] /\ (b \div 16) % 2 = d[5] /\ (b \div 32) % 2 = d[6]
        /\ (b \div 64) % 2 = d[7] /\ (b \div 128) % 2 = d[8]
    BY <1>1, BitsRead
  <2>3. ((a \div 1) % 2 = (b \div 1) % 2) <=> c[1] = d[1]
    BY <2>1, <2>2, Zenon
  <2>4. ((a \div 2) % 2 = (b \div 2) % 2) <=> c[2] = d[2]
    BY <2>1, <2>2, Zenon
  <2>5. ((a \div 4) % 2 = (b \div 4) % 2) <=> c[3] = d[3]
    BY <2>1, <2>2, Zenon
  <2>6. ((a \div 8) % 2 = (b \div 8) % 2) <=> c[4] = d[4]
    BY <2>1, <2>2, Zenon
  <2>7. ((a \div 16) % 2 = (b \div 16) % 2) <=> c[5] = d[5]
    BY <2>1, <2>2, Zenon
  <2>8. ((a \div 32) % 2 = (b \div 32) % 2) <=> c[6] = d[6]
    BY <2>1, <2>2, Zenon
  <2>9. ((a \div 64) % 2 = (b \div 64) % 2) <=> c[7] = d[7]
    BY <2>1, <2>2, Zenon
  <2>10. ((a \div 128) % 2 = (b \div 128) % 2) <=> c[8] = d[8]
    BY <2>1, <2>2, Zenon
  <2> QED BY <2>3, <2>4, <2>5, <2>6, <2>7, <2>8, <2>9, <2>10, Zenon
<1>5. ASSUME NEW i \in 1..8, NEW w \in Int,
             ((a \div w) % 2 = (b \div w) % 2) <=> c[i] = d[i]
      PROVE  Bit(w) = w * e[i]
  <2>1. CASE c[i] = d[i]
    <3>1. e[i] = 0 /\ Bit(w) = 0
      BY <1>3, <1>5, <2>1
    <3> HIDE DEF Bit
    <3> QED BY <3>1
  <2>2. CASE c[i] # d[i]
    <3>1. e[i] = 1 /\ Bit(w) = w
      BY <1>3, <1>5, <2>2
    <3> HIDE DEF Bit
    <3> QED BY <3>1
  <2> QED BY <2>1, <2>2
<1>6. Xor(a, b) = Bit(1) + Bit(2) + Bit(4) + Bit(8) + Bit(16) + Bit(32) + Bit(64) + Bit(128)
  BY DEF Xor
<1> HIDE DEF Bit
<1>7. /\ Bit(1) = 1*e[1] /\ Bit(2) = 2*e[2] /\ Bit(4) = 4*e[3] /\ Bit(8) = 8*e[4]
      /\ Bit(16) = 16*e[5] /\ Bit(32) = 32*e[6] /\ Bit(64) = 64*e[7] /\ Bit(128) = 128*e[8]
  BY <1>4, <1>5
<1>8. 1*e[1] = e[1]
  <2>1. e[1] \in Int
    BY <1>3
  <2> QED BY <2>1
<1> QED BY <1>2, <1>3, <1>6, <1>7, <1>8 DEF IsBits

\* Applied twice, it gives back the byte.
LEMMA XorTwice ==
  ASSUME NEW a \in Byte, NEW b \in Byte
  PROVE  Xor(Xor(a, b), b) = a
<1>1. PICK c, d : IsBits(a, c) /\ IsBits(b, d)
  BY BitsExist
<1>2. PICK x \in Byte : x = Xor(a, b)
  BY XorByte
<1>3. IsBits(x, Differ(c, d))
  BY <1>1, <1>2, XorBits
<1>4. IsBits(Xor(x, b), Differ(Differ(c, d), d))
  BY <1>1, <1>3, XorBits
<1>5. Differ(Differ(c, d), d) = c
  BY <1>1 DEF Differ, IsBits
<1> QED BY <1>1, <1>2, <1>4, <1>5 DEF IsBits

\* Combined with a keystream, numbers become bytes.
LEMMA MaskedType ==
  ASSUME NEW bytes \in Seq(Int), NEW type, NEW rv
  PROVE  Masked(type, bytes, rv) \in Seq(Byte) /\ Len(Masked(type, bytes, rv)) = Len(bytes)
<1>1. PICK n \in Nat : n = Len(bytes)
  OBVIOUS
<1>2. PICK m : m = Masked(type, bytes, rv)
  OBVIOUS
<1>3. DOMAIN m = 1..n /\ m = [i \in 1..n |-> m[i]]
  BY <1>1, <1>2 DEF Masked
<1>4. ASSUME NEW i \in 1..n PROVE m[i] \in Byte
  <2>1. m[i] = Xor(bytes[i], Keystream(type, rv, i))
    BY <1>1, <1>2 DEF Masked
  <2> QED BY <2>1, XorByte
<1>5. m \in [1..n -> Byte]
  BY <1>3, <1>4
<1> QED BY <1>1, <1>2, <1>5

\* What _hide_value returns is bytes, two more than the value has at least.
LEMMA HideBytes ==
  ASSUME NEW plain \in Seq(Byte), NEW type, NEW rv
  PROVE  /\ hide_value(type, plain, rv) \in Seq(Byte)
         /\ 2 + Len(plain) <= Len(hide_value(type, plain, rv))
<1>1. PICK n \in Nat : n = Len(plain)
  OBVIOUS
<1>2. PICK p : p = pack(Num(n), 1)
  OBVIOUS
<1>3. p \in Seq(Int) /\ Len(p) = 2
  <2>1. PICK d \in Int : d = DigitAt(Num(n), 1, 1)
    <3>1. CASE n = 0
      BY <3>1 DEF DigitAt, Num
    <3>2. CASE n # 0
      BY <3>2 DEF DigitAt, Num
    <3> QED BY <3>1, <3>2
  <2>2. p = [j \in 1..2 |-> IF j % 2 = 1 THEN DigitAt(Num(n), 1, (j + 1) \div 2) \div 256
                            ELSE DigitAt(Num(n), 1, j \div 2) % 256]
    BY <1>2 DEF pack, DigitAt
  <2>3. p = [j \in 1..2 |-> IF j = 1 THEN d \div 256 ELSE d % 256]
    <3>1. \A j \in 1..2 : j = 1 \/ j = 2
      OBVIOUS
    <3>2. 1 % 2 = 1 /\ (1 + 1) \div 2 = 1 /\ 2 % 2 # 1 /\ 2 \div 2 = 1
      OBVIOUS
    <3> QED BY <2>1, <2>2, <3>1, <3>2
  <2>4. d \div 256 \in Int /\ d % 256 \in Int
    OBVIOUS
  <2>5. p \in [1..2 -> Int]
    BY <2>3, <2>4
  <2> QED BY <2>5, FunctionSeq
<1>4. PICK pad \in Nat : pad = (16 - (Len(p \o plain) % 16)) % 16
  <2>1. PICK l \in Nat : l = Len(p \o plain)
    BY <1>3
  <2>2. (16 - (l % 16)) % 16 \in Nat
    BY SMT
  <2> QED BY <2>1, <2>2
<1>5. PICK zeros \in Seq(Int) : zeros = [i \in 1..pad |-> 0]
  <2>1. [i \in 1..pad |-> 0] \in [1..pad -> Int]
    OBVIOUS
  <2> QED BY <2>1, FunctionSeq
<1>6. plain \in Seq(Int)
  <2>1. Byte \subseteq Int
    BY ByteIs
  <2> QED BY <2>1, SeqMonotonic
<1>7. PICK body \in Seq(Int) : body = (p \o plain) \o zeros
  BY <1>3, <1>6, ConcatProperties
<1>8. hide_value(type, plain, rv) = Masked(type, body, rv)
  BY <1>1, <1>2, <1>4, <1>5, <1>7 DEF hide_value
<1>9. 2 + n <= Len(body)
  <2>1. Len(p \o plain) = Len(p) + Len(plain) /\ p \o plain \in Seq(Int)
    BY <1>3, <1>6, Concat
  <2>2. PICK h \in Seq(Int) : h = p \o plain /\ Len(h) = 2 + n
    BY <1>1, <1>3, <2>1
  <2>3. Len(h \o zeros) = Len(h) + Len(zeros)
    BY Concat
  <2> QED BY <1>7, <2>2, <2>3
<1> QED BY <1>1, <1>8, <1>9, MaskedType

\* The same, one by one.
LEMMA HideType ==
  ASSUME NEW plain \in Seq(Byte), NEW type, NEW rv
  PROVE  hide_value(type, plain, rv) \in Seq(Byte)
  BY HideBytes

LEMMA HideLength ==
  ASSUME NEW plain \in Seq(Byte), NEW type, NEW rv
  PROVE  2 + Len(plain) <= Len(hide_value(type, plain, rv))
  BY HideBytes

\* What is unhidden are bytes.
LEMMA UnhideType ==
  ASSUME NEW cipher \in Seq(Byte), NEW type, NEW rv, unhides(type, cipher, rv)
  PROVE  unhide_value(type, cipher, rv) \in Seq(Byte)
<1>1. PICK body : body = Masked(type, cipher, rv)
  OBVIOUS
<1>2. body \in Seq(Byte) /\ Len(body) = Len(cipher)
  <2>1. Byte \subseteq Int
    BY ByteIs
  <2>2. cipher \in Seq(Int)
    BY <2>1, SeqMonotonic
  <2> QED BY <1>1, <2>2, MaskedType
<1>3. PICK n \in Int : n = u16(body, 0)
  <2>1. body[1] \in Byte /\ body[2] \in Byte
    BY <1>2 DEF unhides
  <2> QED BY <2>1, ByteIs, SMT DEF u16
<1>4. 0 <= n /\ 2 + n <= Len(body)
  <2>1. body[1] \in Byte /\ body[2] \in Byte
    BY <1>2 DEF unhides
  <2>2. 0 <= n
    BY <1>3, <2>1, ByteIs, SMT DEF u16
  <2> QED BY <1>1, <1>2, <1>3, <2>2 DEF unhides
<1>5. unhide_value(type, cipher, rv) = SubSeq(body, 3, 2 + n)
  <2>1. (IF 2 + n < Len(body) THEN 2 + n ELSE Len(body)) = 2 + n
    BY <1>2, <1>4
  <2>2. 2 + 1 = 3
    OBVIOUS
  <2> QED BY <1>1, <1>3, <2>1, <2>2 DEF unhide_value, Slice
<1>6. 3 \in Int /\ 2 + n \in Int /\ 1 <= 3 /\ 3 <= (2 + n) + 1
  BY <1>4
<1> QED BY <1>2, <1>4, <1>5, <1>6, PartOf

\* The keystream that hides n bytes is made of bytes.
StreamBytes(type, rv, n) == \A i \in 1..n : Keystream(type, rv, i) \in Byte

\* Combined with the keystream twice, bytes are what they were.
LEMMA MaskedTwice ==
  ASSUME NEW bytes \in Seq(Byte), NEW type, NEW rv, StreamBytes(type, rv, Len(bytes))
  PROVE  Masked(type, Masked(type, bytes, rv), rv) = bytes
<1>1. PICK n \in Nat : n = Len(bytes)
  OBVIOUS
<1>2. PICK m : m = Masked(type, bytes, rv)
  OBVIOUS
<1>3. bytes \in Seq(Int)
  <2>1. Byte \subseteq Int
    BY ByteIs
  <2> QED BY <2>1, SeqMonotonic
<1>4. m \in Seq(Byte) /\ Len(m) = n
  BY <1>1, <1>2, <1>3, MaskedType
<1>5. PICK r : r = Masked(type, m, rv)
  OBVIOUS
<1>6. m \in Seq(Int)
  <2>1. Byte \subseteq Int
    BY ByteIs
  <2> QED BY <1>4, <2>1, SeqMonotonic
<1>7. r \in Seq(Byte) /\ Len(r) = n
  BY <1>4, <1>5, <1>6, MaskedType
<1>8. ASSUME NEW i \in 1..n PROVE r[i] = bytes[i]
  <2>1. PICK k \in Byte : k = Keystream(type, rv, i)
    BY <1>1 DEF StreamBytes
  <2>2. m[i] = Xor(bytes[i], k)
    BY <1>1, <1>2, <2>1 DEF Masked
  <2>3. r[i] = Xor(m[i], k)
    BY <1>4, <1>5, <2>1 DEF Masked
  <2>4. bytes[i] \in Byte
    BY <1>1
  <2> QED BY <2>2, <2>3, <2>4, XorTwice
<1>9. r = bytes
  BY <1>1, <1>7, <1>8, SeqEqual
<1> QED BY <1>2, <1>5, <1>9

\* The length has 16 bits.
Hideable(plain) == Len(plain) <= 65535

\* What is hidden: the length, the value and the padding to whole blocks.
HiddenBody(plain, body) ==
    /\ body \in Seq(Byte) /\ Len(body) >= 16 /\ Len(body) % 16 = 0
    /\ 2 + Len(plain) <= Len(body) /\ u16(body, 0) = Len(plain)
    /\ \A i \in 1..Len(plain) : body[2 + i] = plain[i]

\* A 16-bit number packed.
LEMMA PackWord ==
  ASSUME NEW n \in Word
  PROVE  LET p == pack(Num(n), 1)
         IN  p \in Seq(Byte) /\ Len(p) = 2 /\ p[1] = n \div 256 /\ p[2] = n % 256
<1>1. PICK q \in Seq(Word) : q = Num(n) /\ Len(q) <= 1 /\ DigitAt(q, 1, 1) = n
  <2>1. Num(n) \in Seq(Word) /\ Len(Num(n)) <= 1 /\ DigitAt(Num(n), 1, 1) = n
    <3>1. CASE n = 0
      BY <3>1 DEF DigitAt, Num
    <3>2. CASE n # 0
      BY <3>2 DEF DigitAt, Num
    <3> QED BY <3>1, <3>2
  <2> QED BY <2>1
<1>2. PICK p : p = pack(q, 1)
  OBVIOUS
<1>3. 1 \in Nat /\ Len(q) <= 1
  BY <1>1
<1>4. p \in Seq(Byte)
  BY <1>2, <1>3, PackBytes
<1>5. Len(p) = 2 * 1
  BY <1>2, <1>3, PackBytes
<1>6. \A i \in 1..1 : p[2*i - 1] = DigitAt(q, 1, i) \div 256 /\ p[2*i] = DigitAt(q, 1, i) % 256
  BY <1>2, <1>3, PackBytes
<1>7. 2 * 1 = 2 /\ 1 \in 1..1 /\ 2 * 1 - 1 = 1
  OBVIOUS
<1> QED BY <1>1, <1>2, <1>4, <1>5, <1>6, <1>7

\* What follows two bytes.
LEMMA AfterTwo ==
  ASSUME NEW p \in Seq(Byte), NEW s \in Seq(Byte)
  PROVE  Len(p) = 2 =>
            /\ Len(p \o s) = 2 + Len(s) /\ (p \o s)[1] = p[1] /\ (p \o s)[2] = p[2]
            /\ \A i \in 1..Len(s) : (p \o s)[2 + i] = s[i]
<1>1. PICK t : t = p \o s
  OBVIOUS
<1>2. /\ Len(t) = Len(p) + Len(s)
      /\ \A i \in 1..Len(p) : t[i] = p[i]
      /\ \A i \in 1..Len(s) : t[Len(p) + i] = s[i]
  BY <1>1, Concat
<1> QED BY <1>1, <1>2

\* _hide_value combines that with the keystream.
LEMMA HideBody ==
  ASSUME NEW plain \in Seq(Byte), NEW type, NEW rv, Hideable(plain)
  PROVE  \E body : HiddenBody(plain, body) /\ hide_value(type, plain, rv) = Masked(type, body, rv)
<1>1. PICK n \in Word : n = Len(plain)
  <2>1. PICK n \in Nat : n = Len(plain)
    OBVIOUS
  <2>2. n \in Word
    BY <2>1, WordIs DEF Hideable
  <2> QED BY <2>1, <2>2
<1>2. PICK p \in Seq(Byte) : p = pack(Num(n), 1)
  BY PackWord
<1>3. Len(p) = 2 /\ p[1] = n \div 256 /\ p[2] = n % 256
  BY <1>2, PackWord
<1>4. PICK head \in Seq(Byte) : head = p \o plain
  BY Concat
<1>5. /\ Len(head) = 2 + n /\ head[1] = p[1] /\ head[2] = p[2]
      /\ \A i \in 1..n : head[2 + i] = plain[i]
  <2>1. Len(p) = 2
    BY <1>3
  <2> QED BY <1>1, <1>4, <2>1, AfterTwo
<1>6. n \in Int /\ 0 <= n
  BY WordIs
<1>7. PICK pad \in Nat : pad = (16 - ((2 + n) % 16)) % 16
  BY <1>6, SMT
<1>8. (2 + n + pad) % 16 = 0 /\ 2 + n + pad >= 16
  BY <1>6, <1>7, SMT
<1>9. PICK zeros \in Seq(Byte) : zeros = [i \in 1..pad |-> 0] /\ Len(zeros) = pad
  <2>1. 0 \in Byte
    BY DEF Byte
  <2>2. [i \in 1..pad |-> 0] \in [1..pad -> Byte]
    BY <2>1
  <2> QED BY <2>2, FunctionSeq
<1>10. PICK body \in Seq(Byte) : body = head \o zeros
  BY <1>9, Concat
<1>11. Len(body) = 2 + n + pad /\ \A i \in 1..(2 + n) : body[i] = head[i]
  <2>1. Len(body) = Len(head) + Len(zeros) /\ \A i \in 1..Len(head) : body[i] = head[i]
    BY <1>9, <1>10, Concat
  <2> QED BY <1>5, <1>9, <2>1
<1>12. body[1] = n \div 256 /\ body[2] = n % 256 /\ \A i \in 1..n : body[2 + i] = plain[i]
  <2>1. 1 \in 1..(2 + n) /\ 2 \in 1..(2 + n) /\ \A i \in 1..n : 2 + i \in 1..(2 + n)
    BY <1>6
  <2> QED BY <1>3, <1>5, <1>11, <2>1
<1>13. u16(body, 0) = n
  <2>1. 0 + 1 = 1 /\ 0 + 2 = 2
    OBVIOUS
  <2> QED BY <1>12, <2>1, U16Bytes DEF u16
<1>14. HiddenBody(plain, body)
  <2>1. Len(body) >= 16 /\ Len(body) % 16 = 0 /\ 2 + n <= Len(body)
    BY <1>6, <1>8, <1>11
  <2> QED BY <1>1, <1>10, <1>12, <1>13, <2>1 DEF HiddenBody
<1>15. hide_value(type, plain, rv) = Masked(type, body, rv)
  BY <1>1, <1>2, <1>4, <1>5, <1>7, <1>9, <1>10 DEF hide_value
<1> QED BY <1>14, <1>15

\* _unhide_value gives back what _hide_value was given.
LEMMA HideUnhide ==
  ASSUME NEW plain \in Seq(Byte), NEW type, NEW rv, Hideable(plain),
         NEW cipher, cipher = hide_value(type, plain, rv), StreamBytes(type, rv, Len(cipher))
  PROVE  unhides(type, cipher, rv) /\ unhide_value(type, cipher, rv) = plain
<1>1. PICK body : HiddenBody(plain, body) /\ cipher = Masked(type, body, rv)
  BY HideBody
<1>2. body \in Seq(Byte)
  BY <1>1, Zenon DEF HiddenBody
<1>3. Len(cipher) = Len(body)
  <2>1. Byte \subseteq Int
    BY ByteIs
  <2>2. body \in Seq(Int)
    BY <1>2, <2>1, SeqMonotonic
  <2> QED BY <1>1, <2>2, MaskedType
<1>4. Masked(type, cipher, rv) = body
  BY <1>1, <1>2, <1>3, MaskedTwice
<1>5. unhides(type, cipher, rv)
  BY <1>1, <1>3, <1>4 DEF unhides, HiddenBody
<1>6. PICK n \in Nat : n = Len(plain)
  OBVIOUS
<1>7. 2 + n <= Len(body) /\ u16(body, 0) = n /\ \A i \in 1..n : body[2 + i] = plain[i]
  BY <1>1, <1>6 DEF HiddenBody
<1>8. PICK s : s = SubSeq(body, 3, 2 + n)
  OBVIOUS
<1>9. unhide_value(type, cipher, rv) = s
  <2>1. (IF 2 + n < Len(body) THEN 2 + n ELSE Len(body)) = 2 + n
    BY <1>2, <1>7
  <2>2. 2 + 1 = 3
    OBVIOUS
  <2> QED BY <1>4, <1>7, <1>8, <2>1, <2>2 DEF unhide_value, Slice
<1>10. /\ 3 \in Int /\ 2 + n \in Int /\ 1 <= 3 /\ 3 <= (2 + n) + 1
       /\ 2 + n - 3 + 1 = n /\ \A i \in 1..n : 3 + i - 1 = 2 + i
  OBVIOUS
<1>11. /\ s \in Seq(Byte) /\ Len(s) = 2 + n - 3 + 1
       /\ \A i \in 1..(2 + n - 3 + 1) : s[i] = body[3 + i - 1]
  BY <1>2, <1>7, <1>8, <1>10, PartOf
<1>12. Len(s) = n /\ \A i \in 1..n : s[i] = plain[i]
  BY <1>7, <1>10, <1>11
<1>13. s = plain
  BY <1>6, <1>11, <1>12, SeqEqual
<1> QED BY <1>5, <1>9, <1>13

\* decode_one stays inside the buffer, and what it makes can be an AVP.
LEMMA DecodeType ==
  ASSUME NEW buf \in Seq(Byte), NEW off \in Nat, NEW rv, decodes_one(buf, off, rv)
  PROVE  /\ decode_one(buf, off, rv) \in Avps
         /\ TotalLen(buf, off) \in Nat /\ TotalLen(buf, off) >= 6
         /\ off + TotalLen(buf, off) <= Len(buf)
<1>1. PICK total \in Int : total = TotalLen(buf, off)
  <2>1. buf[off + 1] \in Byte /\ buf[off + 2] \in Byte
    BY DEF decodes_one
  <2> QED BY <2>1, ByteIs, SMTT(60) DEF TotalLen
<1>2. off + total <= Len(buf) /\ total >= 6
  BY <1>1 DEF decodes_one
<1>3. \A i \in 1..6 : buf[off + i] \in Byte
  BY <1>2
<1>4. u16(buf, off + 4) \in Word /\ u16(buf, off + 2) \in Word
  <2>1. off + 4 + 1 = off + 5 /\ off + 4 + 2 = off + 6 /\ off + 2 + 1 = off + 3
        /\ off + 2 + 2 = off + 4
    BY SMT
  <2>2. /\ buf[off + 3] \in Byte /\ buf[off + 4] \in Byte
        /\ buf[off + 5] \in Byte /\ buf[off + 6] \in Byte
    BY <1>3
  <2>3. /\ u16(buf, off + 4) = 256 * buf[off + 5] + buf[off + 6]
        /\ u16(buf, off + 2) = 256 * buf[off + 3] + buf[off + 4]
    BY <2>1 DEF u16
  <2> QED BY <2>2, <2>3, BytesU16
<1>5. PICK raw : raw = RawValue(buf, off)
  OBVIOUS
<1>6. raw \in Seq(Byte)
  <2>1. (IF off + total < Len(buf) THEN off + total ELSE Len(buf)) = off + total
    BY <1>2
  <2>2. raw = SubSeq(buf, off + 6 + 1, off + total)
    BY <1>1, <1>5, <2>1 DEF RawValue, Slice
  <2>3. /\ off + 6 + 1 \in Int /\ off + total \in Int
        /\ 1 <= off + 6 + 1 /\ off + 6 + 1 <= off + total + 1
    BY <1>2
  <2> QED BY <1>2, <2>2, <2>3, PartOf
<1>7. PICK val \in Seq(Byte) :
        val = IF IsHidden(buf, off) THEN unhide_value(u16(buf, off + 4), raw, rv) ELSE raw
  <2>1. CASE IsHidden(buf, off)
    <3>1. unhides(u16(buf, off + 4), raw, rv)
      BY <1>5, <2>1 DEF decodes_one, Readable
    <3> QED BY <1>6, <2>1, <3>1, UnhideType
  <2>2. CASE ~IsHidden(buf, off)
    BY <1>6, <2>2
  <2> QED BY <2>1, <2>2
<1>8. decode_one(buf, off, rv)
        = [ attribute_type |-> u16(buf, off + 4), vendor_id |-> u16(buf, off + 2),
            mandatory |-> IsMandatory(buf, off), hidden |-> IsHidden(buf, off),
            value |-> val ]
  BY <1>5, <1>7 DEF decode_one
<1>9. IsMandatory(buf, off) \in BOOLEAN /\ IsHidden(buf, off) \in BOOLEAN
  BY DEF IsMandatory, IsHidden
<1>10. decode_one(buf, off, rv) \in Avps
  BY <1>4, <1>8, <1>9 DEF Avps
<1> QED BY <1>1, <1>2, <1>10

\* The header of an AVP and what follows it.
LEMMA SixBytes ==
  ASSUME NEW b1 \in Byte, NEW b2 \in Byte, NEW b3 \in Byte, NEW b4 \in Byte, NEW b5 \in Byte,
         NEW b6 \in Byte, NEW val \in Seq(Byte), NEW n \in Nat, n = Len(val),
         NEW e, e = <<b1, b2>> \o <<b3, b4>> \o <<b5, b6>> \o val
  PROVE  /\ Len(e) = 6 + n
         /\ e[1] = b1 /\ e[2] = b2 /\ e[3] = b3 /\ e[4] = b4 /\ e[5] = b5 /\ e[6] = b6
         /\ \A i \in 1..n : e[6 + i] = val[i]
<1>1. /\ Len(e) = 6 + n
      /\ e[1] = b1 /\ e[2] = b2 /\ e[3] = b3 /\ e[4] = b4 /\ e[5] = b5 /\ e[6] = b6
  OBVIOUS
<1>2. \A i \in 1..n : e[6 + i] = val[i]
  OBVIOUS
<1> QED BY <1>1, <1>2

\* Where the bytes of a hidden AVP stand in a buffer, decode_one finds the AVP
\* with the random vector that it was hidden with.
THEOREM DecodeHidden ==
  ASSUME NEW buf \in Seq(Byte), NEW off \in Nat, NEW avp \in Avps, avp.hidden,
         NEW rv, encodes(avp, rv), StreamBytes(avp.attribute_type, rv, 1017),
         NEW e, e = encode(avp, rv), off + Len(e) <= Len(buf), HasAt(buf, off, e)
  PROVE  /\ decodes_one(buf, off, rv)
         /\ decode_one(buf, off, rv) = avp
         /\ TotalLen(buf, off) = Len(e)
<1>1. PICK plain \in Seq(Byte) : plain = avp.value
  BY DEF Avps
<1>2. PICK vendor \in Word, type \in Word : vendor = avp.vendor_id /\ type = avp.attribute_type
  BY DEF Avps
<1>3. PICK val \in Seq(Byte) : val = hide_value(type, plain, rv)
  BY HideType
<1>4. PICK n \in Nat : n = Len(val)
  OBVIOUS
<1>5. n <= 1017 /\ rv # None /\ value_field(avp, rv) = val
  <2>1. value_field(avp, rv) = val
    BY <1>1, <1>2, <1>3 DEF value_field
  <2>2. 6 + n <= 1023
    BY <1>4, <2>1 DEF encodes
  <2>3. rv # None
    BY DEF encodes
  <2> QED BY <2>1, <2>2, <2>3
<1>6. Hideable(plain)
  BY <1>3, <1>4, <1>5, HideLength DEF Hideable
<1>7. PICK m \in {0, 128} : m = (IF avp.mandatory THEN 128 ELSE 0)
  OBVIOUS
<1>8. PICK total \in Nat : total = 6 + n
  OBVIOUS
<1>9. PICK b \in Byte, c \in Byte : b = m + 64 + total \div 256 /\ c = total % 256
  <2>1. PICK q \in 0..3 : q = total \div 256
    BY <1>5, <1>8, SMT
  <2>2. PICK x \in Int : x = m + 64 + q /\ 0 <= x /\ x <= 255
    OBVIOUS
  <2>3. x \in Byte
    BY <2>2, ByteIs
  <2>4. PICK r \in Int : r = total % 256 /\ 0 <= r /\ r <= 255
    BY SMT
  <2>5. r \in Byte
    BY <2>4, ByteIs
  <2> QED BY <2>1, <2>2, <2>3, <2>4, <2>5
<1>10. PICK v1 \in Byte, v2 \in Byte : v1 = vendor \div 256 /\ v2 = vendor % 256
  BY U16Bytes
<1>11. PICK t1 \in Byte, t2 \in Byte : t1 = type \div 256 /\ t2 = type % 256
  BY U16Bytes
<1>12. e = <<b, c>> \o <<v1, v2>> \o <<t1, t2>> \o val
  <2>1. (IF avp.mandatory THEN 128 ELSE 0) = m /\ (IF avp.hidden THEN 64 ELSE 0) = 64
    BY <1>7
  <2>2. 6 + Len(value_field(avp, rv)) = total
    BY <1>4, <1>5, <1>8
  <2>3. e = <<m + 64 + total \div 256, total % 256>>
            \o U16(avp.vendor_id) \o U16(avp.attribute_type) \o value_field(avp, rv)
    BY <2>1, <2>2, ZenonT(90) DEF encode
  <2>4. U16(avp.vendor_id) = <<v1, v2>> /\ U16(avp.attribute_type) = <<t1, t2>>
    BY <1>2, <1>10, <1>11 DEF U16
  <2> QED BY <1>5, <1>9, <2>3, <2>4, ZenonT(90)
<1>13. /\ Len(e) = total /\ e[1] = b /\ e[2] = c /\ e[3] = v1 /\ e[4] = v2
       /\ e[5] = t1 /\ e[6] = t2 /\ \A i \in 1..n : e[6 + i] = val[i]
  BY <1>4, <1>8, <1>12, SixBytes
<1>14. StandsAt(buf, off, m, 64, vendor, type, val)
  <2>1. \A i \in 1..total : buf[off + i] = e[i]
    BY <1>13 DEF HasAt
  <2>2. \A i \in 1..n : buf[off + 6 + i] = val[i]
    <3> SUFFICES ASSUME NEW i \in 1..n PROVE buf[off + 6 + i] = val[i]
      OBVIOUS
    <3>1. PICK j \in 1..total : j = 6 + i /\ off + j = off + 6 + i
      BY <1>8
    <3>2. e[j] = val[i]
      BY <1>13, <3>1
    <3>3. buf[off + j] = e[j]
      BY <2>1
    <3> QED BY <3>1, <3>2, <3>3
  <2>3. /\ buf[off + 1] = b /\ buf[off + 2] = c /\ buf[off + 3] = v1 /\ buf[off + 4] = v2
        /\ buf[off + 5] = t1 /\ buf[off + 6] = t2
    <3>1. \A i \in {1, 2, 3, 4, 5, 6} : i \in 1..total
      BY <1>8
    <3> QED BY <1>13, <2>1, <3>1
  <2>4. off + 6 + Len(val) <= Len(buf) /\ total = 6 + Len(val)
    BY <1>4, <1>8, <1>13
  <2> QED BY <1>4, <1>9, <1>10, <1>11, <2>2, <2>3, <2>4 DEF StandsAt
<1>15. /\ TotalLen(buf, off) = total /\ Reserved(buf, off) = 0
       /\ IsHidden(buf, off)
       /\ IsMandatory(buf, off) <=> m = 128
       /\ u16(buf, off + 4) = type /\ u16(buf, off + 2) = vendor
       /\ RawValue(buf, off) = val
  <2>1. total = 6 + Len(val) /\ Len(val) <= 1017 /\ 64 \in {0, 64}
    BY <1>4, <1>5, <1>8
  <2> QED BY <1>14, <2>1, FieldsRead
<1>16. unhides(type, val, rv) /\ unhide_value(type, val, rv) = plain
  <2>1. StreamBytes(type, rv, Len(val))
    <3>1. ASSUME NEW i \in 1..n PROVE Keystream(type, rv, i) \in Byte
      <4>1. i \in 1..1017
        BY <1>5
      <4> QED BY <1>2, <4>1, ZenonT(60) DEF StreamBytes
    <3> QED BY <1>4, <3>1 DEF StreamBytes
  <2> QED BY <1>3, <1>6, <2>1, HideUnhide
<1>17. decodes_one(buf, off, rv)
  BY <1>5, <1>8, <1>13, <1>15, <1>16 DEF decodes_one, Readable
<1>18. decode_one(buf, off, rv) = avp
  <2>1. avp = [ attribute_type |-> avp.attribute_type, vendor_id |-> avp.vendor_id,
                mandatory |-> avp.mandatory, hidden |-> avp.hidden, value |-> avp.value ]
    BY DEF Avps
  <2>2. IsHidden(buf, off) = avp.hidden /\ IsMandatory(buf, off) = avp.mandatory
    <3>1. avp.mandatory \in BOOLEAN /\ IsMandatory(buf, off) \in BOOLEAN
      BY DEF Avps, IsMandatory
    <3>2. avp.hidden \in BOOLEAN /\ IsHidden(buf, off) \in BOOLEAN
      BY DEF Avps, IsHidden
    <3> QED BY <1>7, <1>15, <3>1, <3>2
  <2>3. decode_one(buf, off, rv)
          = [ attribute_type |-> type, vendor_id |-> vendor,
              mandatory |-> IsMandatory(buf, off), hidden |-> IsHidden(buf, off), value |-> plain ]
    <3>1. (IF IsHidden(buf, off) THEN unhide_value(type, val, rv) ELSE val) = plain
      BY <1>15, <1>16, ZenonT(60)
    <3> QED BY <1>15, <3>1, ZenonT(90) DEF decode_one
  <2> QED BY <1>1, <1>2, <2>1, <2>2, <2>3
<1> QED BY <1>13, <1>15, <1>17, <1>18

\* What is encoded are bytes, with a hidden value too.
LEMMA EncodeType ==
  ASSUME NEW avp \in Avps, NEW rv, encodes(avp, rv)
  PROVE  encode(avp, rv) \in Seq(Byte)
<1>1. PICK val \in Seq(Byte) : val = value_field(avp, rv)
  <2>1. avp.value \in Seq(Byte) /\ avp.hidden \in BOOLEAN
    BY DEF Avps
  <2> QED BY <2>1, HideType DEF value_field
<1>2. PICK n \in Nat : n = 6 + Len(val)
  OBVIOUS
<1>3. n <= 1023
  BY <1>1, <1>2 DEF encodes
<1>4. PICK h \in {0, 128}, l \in {0, 64} :
        h = (IF avp.mandatory THEN 128 ELSE 0) /\ l = (IF avp.hidden THEN 64 ELSE 0)
  OBVIOUS
<1>5. PICK b \in Byte : b = h + l + n \div 256
  <2>1. PICK q \in Int : q = n \div 256
    BY SMT
  <2>2. 0 <= q /\ q <= 3
    BY <1>3, <2>1, SMT
  <2>3. h + l + q \in Int /\ 0 <= h + l + q /\ h + l + q <= 255
    BY <2>2
  <2> QED BY <2>1, <2>3, ByteIs
<1>6. PICK c \in Byte : c = n % 256
  BY ByteIs, SMT
<1>7. PICK v1 \in Byte, v2 \in Byte : v1 = avp.vendor_id \div 256 /\ v2 = avp.vendor_id % 256
  BY U16Bytes DEF Avps
<1>8. PICK t1 \in Byte, t2 \in Byte :
        t1 = avp.attribute_type \div 256 /\ t2 = avp.attribute_type % 256
  BY U16Bytes DEF Avps
<1>9. encode(avp, rv) = <<b, c>> \o <<v1, v2>> \o <<t1, t2>> \o val
  BY <1>1, <1>2, <1>4, <1>5, <1>6, <1>7, <1>8 DEF encode, U16
<1> QED BY <1>9

-----------------------------------------------------------------------------
(* The build_* factories *)

\* A value that a factory may be called with.
FieldTyped(f, v) ==
    IF f \in DOMAIN Digits THEN IsNumber(v) \/ v \in {None, Negative}
    ELSE IF f = "PSEUDOWIRE_CAPABILITIES_LIST" THEN v \in Lists(Word)
    ELSE IF f = "RESULT_CODE" THEN IsNumber(v.result) /\ v.error = None
    ELSE v \in Seq(Byte)

\* The factories return AVPs that are not hidden.
LEMMA BuildType ==
  ASSUME NEW f \in DOMAIN AttrType, NEW v, FieldTyped(f, v), builds(f, v)
  PROVE  /\ build(f, v) \in Avps /\ ~build(f, v).hidden
         /\ build(f, v).vendor_id = 0 /\ build(f, v).attribute_type = AttrType[f]
<1>1. AttrType[f] \in Word /\ 0 \in Word
  <2>1. AttrType[f] \in Int /\ 0 <= AttrType[f] /\ AttrType[f] <= 75
    BY DEF AttrType
  <2> QED BY <2>1, WordIs, SMT
<1>2. build(f, v).value \in Seq(Byte)
  <2>1. CASE f \in DOMAIN Digits
    <3>1. Digits[f] \in Nat
      BY <2>1 DEF Digits
    <3>2. f \notin {"PSEUDOWIRE_CAPABILITIES_LIST", "ASSIGNED_COOKIE", "CTL_MSG_AUTH_NONCE",
                    "RANDOM_VECTOR", "RESULT_CODE"}
      BY <2>1 DEF Digits
    <3>3. Fits(v, Digits[f])
      BY <2>1, <3>2, Zenon DEF builds
    <3>4. v \in Seq(Word) /\ Len(v) <= Digits[f]
      BY <2>1, <3>3 DEF FieldTyped, Fits, IsNumber
    <3>5. build(f, v).value = pack(v, Digits[f])
      <4>1. PICK w : w = pack(v, Digits[f])
        OBVIOUS
      <4>2. (CASE f \in DOMAIN Digits -> w
               [] f = "PSEUDOWIRE_CAPABILITIES_LIST" ->
                     FlattenSeq([i \in DOMAIN v |-> pack(v[i], 1)])
               [] f = "RESULT_CODE" ->
                     pack(v.result, 1) \o
                     (IF v.error = None THEN <<>> ELSE pack(v.error, 1) \o v.message)
               [] OTHER -> v) = w
        BY <2>1, <3>2, Zenon
      <4> QED BY <4>1, <4>2 DEF build
    <3> QED BY <3>1, <3>4, <3>5, PackBytes
  <2>2. CASE f = "PSEUDOWIRE_CAPABILITIES_LIST"
    <3>1. f \notin DOMAIN Digits
      BY <2>2 DEF Digits
    <3>2. PICK T : T = Seq(Word)
      OBVIOUS
    <3>3. v \in Seq(T)
      BY <2>2, <3>1, <3>2 DEF FieldTyped, Lists
    <3>4. PICK n \in Nat : n = Len(v)
      BY <3>3
    <3>5. ASSUME NEW i \in 1..n PROVE pack(v[i], 1) \in Seq(Byte)
      <4>1. v[i] \in Seq(Word)
        BY <3>2, <3>3, <3>4
      <4>2. Len(v[i]) <= 1
        BY <2>2, <3>1, <3>3, <3>4 DEF builds, Fits
      <4> QED BY <4>1, <4>2, PackBytes
    <3>6. PICK parts : parts = [i \in 1..n |-> pack(v[i], 1)]
      OBVIOUS
    <3>7. PICK B : B = Seq(Byte)
      OBVIOUS
    <3>8. parts \in Seq(B)
      <4>1. parts \in [1..n -> B]
        BY <3>5, <3>6, <3>7
      <4> QED BY <4>1, FunctionSeq
    <3>9. parts \in Lists(Byte)
      BY <3>7, <3>8 DEF Lists
    <3>10. build(f, v).value = FlattenSeq(parts)
      BY <2>2, <3>1, <3>3, <3>4, <3>6 DEF build
    <3> QED BY <3>9, <3>10, FlattenType
  <2>3. CASE f = "RESULT_CODE"
    <3>1. f \notin DOMAIN Digits
      BY <2>3 DEF Digits
    <3>2. v.result \in Seq(Word) /\ v.error = None /\ Len(v.result) <= 1
      BY <2>3, <3>1 DEF FieldTyped, builds, Fits, IsNumber
    <3>3. PICK p \in Seq(Byte) : p = pack(v.result, 1)
      BY <3>2, PackBytes
    <3>4. build(f, v).value = p \o <<>>
      BY <2>3, <3>1, <3>2, <3>3 DEF build
    <3> QED BY <3>4
  <2>4. CASE f \notin DOMAIN Digits \cup {"PSEUDOWIRE_CAPABILITIES_LIST", "RESULT_CODE"}
    BY <2>4 DEF build, FieldTyped
  <2> QED BY <2>1, <2>2, <2>3, <2>4
<1>3. PICK val \in Seq(Byte) : val = build(f, v).value
  BY <1>2
<1>4. PICK t \in Word : t = AttrType[f]
  BY <1>1
<1>5. build(f, v) = [ attribute_type |-> t, vendor_id |-> 0, hidden |-> FALSE,
                      mandatory |-> f \notin NotMandatory, value |-> val ]
  BY <1>3, <1>4 DEF build
<1>6. (f \notin NotMandatory) \in BOOLEAN
  OBVIOUS
<1> QED BY <1>1, <1>4, <1>5, <1>6 DEF Avps
=============================================================================
