----------------------------- MODULE WireProofs -----------------------------
(***************************************************************************)
(* The control messages of module Wire, for configuration files and        *)
(* damage of every kind: decoding stays inside the datagram and loses      *)
(* nothing, a message that passes verification is the one signed, one that *)
(* arrives undamaged is understood, and only values that the loader does   *)
(* not check make a message that cannot be sent.                           *)
(***************************************************************************)
EXTENDS Wire, AvpProofs

-----------------------------------------------------------------------------
(* Lists of AVPs *)

\* The encodings that EncodeAll joins.
Encodings(avps, rv) == [i \in DOMAIN avps |-> encode(avps[i], rv)]

\* Their encodings are bytes.
Encodable(avps, rv) ==
    avps \in Seq(Avps) /\ \A i \in 1..Len(avps) : encode(avps[i], rv) \in Seq(Byte)

\* Every AVP is a plain one.
AllPlain(avps) == avps \in Seq(Avps) /\ \A i \in 1..Len(avps) : Plain(avps[i])

\* Plain AVPs are encoded as bytes.
LEMMA PlainEncodable ==
  ASSUME NEW avps, AllPlain(avps)
  PROVE  Encodable(avps, None)
<1>1. ASSUME NEW i \in 1..Len(avps) PROVE encode(avps[i], None) \in Seq(Byte)
  <2>1. EncodedAs(avps[i], encode(avps[i], None))
    BY EncodeBytes DEF AllPlain
  <2> QED BY <2>1 DEF EncodedAs
<1> QED BY <1>1 DEF AllPlain, Encodable

\* One plain AVP more.
LEMMA AllPlainAppend ==
  ASSUME NEW avps, AllPlain(avps), NEW a, Plain(a)
  PROVE  AllPlain(Append(avps, a))
<1>1. PICK n \in Nat : n = Len(avps) /\ avps \in Seq(Avps)
  BY DEF AllPlain
<1>2. a \in Avps
  BY DEF Plain
<1>3. PICK more \in Seq(Avps) : more = Append(avps, a)
  BY <1>1, <1>2, AppendProperties
<1>4. /\ Len(more) = n + 1 /\ more[n + 1] = a
      /\ \A i \in 1..n : more[i] = avps[i]
  BY <1>1, <1>2, <1>3
<1>5. ASSUME NEW i \in 1..(n + 1) PROVE Plain(more[i])
  <2>1. CASE i = n + 1
    BY <1>4, <2>1
  <2>2. CASE i # n + 1
    <3>1. i \in 1..n
      BY <2>2
    <3> QED BY <1>1, <1>4, <3>1 DEF AllPlain
  <2> QED BY <2>1, <2>2
<1> QED BY <1>3, <1>4, <1>5 DEF AllPlain

\* The encodings of a list are lists of bytes.
LEMMA EncodingsType ==
  ASSUME NEW avps, NEW rv, Encodable(avps, rv)
  PROVE  Encodings(avps, rv) \in Lists(Byte) /\ Len(Encodings(avps, rv)) = Len(avps)
<1>1. PICK B : B = Seq(Byte)
  OBVIOUS
<1>2. PICK n \in Nat : n = Len(avps) /\ DOMAIN avps = 1..n
  BY DEF Encodable
<1>3. PICK e : e = Encodings(avps, rv)
  OBVIOUS
<1>4. e = [i \in 1..n |-> encode(avps[i], rv)]
  BY <1>2, <1>3 DEF Encodings
<1>5. \A i \in 1..n : encode(avps[i], rv) \in B
  BY <1>1, <1>2 DEF Encodable
<1>6. e \in [1..n -> B]
  BY <1>4, <1>5
<1>7. e \in Seq(B) /\ Len(e) = n
  BY <1>6, FunctionSeq
<1> QED BY <1>1, <1>2, <1>3, <1>7 DEF Lists

\* Joined they are bytes.
LEMMA EncodeAllType ==
  ASSUME NEW avps, NEW rv, Encodable(avps, rv)
  PROVE  EncodeAll(avps, rv) \in Seq(Byte)
  BY EncodingsType, FlattenType DEF EncodeAll, Encodings

\* One AVP more adds its bytes at the end.
LEMMA EncodeAllAppend ==
  ASSUME NEW avps, NEW rv, Encodable(avps, rv),
         NEW avp \in Avps, encode(avp, rv) \in Seq(Byte)
  PROVE  /\ Encodable(Append(avps, avp), rv)
         /\ EncodeAll(Append(avps, avp), rv) = EncodeAll(avps, rv) \o encode(avp, rv)
<1>1. PICK n \in Nat : n = Len(avps) /\ DOMAIN avps = 1..n /\ avps \in Seq(Avps)
  BY DEF Encodable
<1>2. PICK more \in Seq(Avps) : more = Append(avps, avp)
  BY <1>1, AppendProperties
<1>3. /\ DOMAIN more = 1..(n + 1) /\ Len(more) = n + 1 /\ more[n + 1] = avp
      /\ \A i \in 1..n : more[i] = avps[i]
  BY <1>1, <1>2
<1>4. Encodable(more, rv)
  <2>1. ASSUME NEW i \in 1..(n + 1) PROVE encode(more[i], rv) \in Seq(Byte)
    <3>1. CASE i = n + 1
      BY <1>3, <3>1
    <3>2. CASE i # n + 1
      <4>1. i \in 1..n
        BY <3>2
      <4> QED BY <1>1, <1>3, <4>1 DEF Encodable
    <3> QED BY <3>1, <3>2
  <2> QED BY <1>3, <2>1 DEF Encodable
<1>5. PICK B : B = Seq(Byte)
  OBVIOUS
<1>6. PICK s, x : s = Encodings(avps, rv) /\ x = encode(avp, rv)
  OBVIOUS
<1>7. s \in Seq(B) /\ Len(s) = n /\ x \in B
  BY <1>1, <1>5, <1>6, EncodingsType DEF Lists
<1>8. Encodings(more, rv) = Append(s, x)
  <2>1. PICK t : t = Encodings(more, rv)
    OBVIOUS
  <2>2. t \in Seq(B) /\ Len(t) = n + 1
    BY <1>3, <1>4, <1>5, <2>1, EncodingsType DEF Lists
  <2>3. \A i \in 1..(n + 1) : t[i] = encode(more[i], rv)
    BY <1>3, <2>1 DEF Encodings
  <2>4. \A i \in 1..n : s[i] = encode(avps[i], rv)
    BY <1>1, <1>6 DEF Encodings
  <2>5. PICK u : u = Append(s, x)
    OBVIOUS
  <2>6. /\ u \in Seq(B) /\ Len(u) = n + 1 /\ u[n + 1] = x
        /\ \A i \in 1..n : u[i] = s[i]
    BY <1>7, <2>5
  <2>7. ASSUME NEW i \in 1..(n + 1) PROVE t[i] = u[i]
    <3>1. CASE i = n + 1
      BY <1>3, <1>6, <2>3, <2>6, <3>1
    <3>2. CASE i # n + 1
      <4>1. i \in 1..n
        BY <3>2
      <4> QED BY <1>3, <2>3, <2>4, <2>6, <4>1
    <3> QED BY <3>1, <3>2
  <2> QED BY <2>1, <2>2, <2>5, <2>6, <2>7, SeqEqual
<1>9. FlattenSeq(Append(s, x)) = FlattenSeq(s) \o x
  <2>1. s \in Lists(Byte) /\ x \in Seq(Byte)
    BY <1>5, <1>7 DEF Lists
  <2> QED BY <2>1, FlattenAppend
<1> QED BY <1>2, <1>4, <1>6, <1>8, <1>9 DEF EncodeAll, Encodings

-----------------------------------------------------------------------------
(* The header *)

\* The keys of a header.
HeaderKeys(hdr) == \E c, s, r : hdr = [ccid |-> c, ns |-> s, nr |-> r]

\* A header whose fields have their width.
IsHeader(hdr) ==
    /\ HeaderKeys(hdr)
    /\ IsNumber(hdr.ccid) /\ Len(hdr.ccid) <= 2 /\ hdr.ns \in Word /\ hdr.nr \in Word

\* The integers.
Whole == Int

\* Its bytes, one by one.
HeaderAs(hdr, length, h) ==
    /\ h \in Seq(Whole) /\ Len(h) = 12
    /\ h[1] = 200 /\ h[2] = 3 /\ h[3] = length \div 256 /\ h[4] = length % 256
    /\ \A j \in 1..4 : h[4 + j] = pack(hdr.ccid, 2)[j] /\ h[4 + j] \in Byte
    /\ h[9] = hdr.ns \div 256 /\ h[10] = hdr.ns % 256
    /\ h[11] = hdr.nr \div 256 /\ h[12] = hdr.nr % 256

\* Three of them.
LEMMA Associative ==
  ASSUME NEW s \in Seq(Whole), NEW t \in Seq(Whole), NEW u \in Seq(Whole)
  PROVE  s \o (t \o u) = (s \o t) \o u
  BY ConcatAssociative, SMTT(60)

\* The bytes of a control connection ID.
LEMMA CcidBytes ==
  ASSUME NEW n, IsNumber(n), Len(n) <= 2
  PROVE  pack(n, 2) \in Seq(Byte) /\ Len(pack(n, 2)) = 4
<1>1. n \in Seq(Word)
  BY DEF IsNumber
<1>2. 2 \in Nat /\ 2 * 2 = 4
  OBVIOUS
<1>3. Len(pack(n, 2)) = 2 * 2
  BY <1>1, <1>2, PackBytes, ZenonT(90)
<1> QED BY <1>1, <1>2, <1>3, PackBytes

\* They are what the builder of the header writes.
LEMMA HeaderBytes ==
  ASSUME NEW hdr, IsHeader(hdr), NEW length \in Nat
  PROVE  HeaderAs(hdr, length, Header(hdr, length))
<1>1. PICK p : p = pack(hdr.ccid, 2)
  OBVIOUS
<1>2. p \in Seq(Byte) /\ Len(p) = 4
  BY <1>1, CcidBytes DEF IsHeader
<1>3. \A j \in 1..4 : p[j] \in Byte
  BY <1>2, ElementOfSeq
<1>4. p \in Seq(Whole)
  <2>1. Byte \subseteq Whole
    BY ByteIs DEF Whole
  <2> QED BY <1>2, <2>1, SeqMonotonic
<1>5. PICK l \in Seq(Whole) : l = U16(length) /\ Len(l) = 2
                            /\ l[1] = length \div 256 /\ l[2] = length % 256
  <2>1. PICK x \in Whole, y \in Whole : x = length \div 256 /\ y = length % 256
    BY SMTT(60) DEF Whole
  <2>2. U16(length) = <<x, y>>
    BY <2>1 DEF U16
  <2>3. PICK z : z = <<x, y>>
    OBVIOUS
  <2>4. z \in Seq(Whole) /\ Len(z) = 2 /\ z[1] = x /\ z[2] = y
    BY <2>3
  <2> QED BY <2>1, <2>2, <2>3, <2>4
<1>6. PICK s \in Seq(Whole) : s = U16(hdr.ns) /\ Len(s) = 2
                            /\ s[1] = hdr.ns \div 256 /\ s[2] = hdr.ns % 256
  <2>1. PICK x \in Whole, y \in Whole : x = hdr.ns \div 256 /\ y = hdr.ns % 256
    BY WordIs, SMTT(60) DEF IsHeader, Whole
  <2>2. U16(hdr.ns) = <<x, y>>
    BY <2>1 DEF U16
  <2>3. PICK z : z = <<x, y>>
    OBVIOUS
  <2>4. z \in Seq(Whole) /\ Len(z) = 2 /\ z[1] = x /\ z[2] = y
    BY <2>3
  <2> QED BY <2>1, <2>2, <2>3, <2>4
<1>7. PICK r \in Seq(Whole) : r = U16(hdr.nr) /\ Len(r) = 2
                            /\ r[1] = hdr.nr \div 256 /\ r[2] = hdr.nr % 256
  <2>1. PICK x \in Whole, y \in Whole : x = hdr.nr \div 256 /\ y = hdr.nr % 256
    BY WordIs, SMTT(60) DEF IsHeader, Whole
  <2>2. U16(hdr.nr) = <<x, y>>
    BY <2>1 DEF U16
  <2>3. PICK z : z = <<x, y>>
    OBVIOUS
  <2>4. z \in Seq(Whole) /\ Len(z) = 2 /\ z[1] = x /\ z[2] = y
    BY <2>3
  <2> QED BY <2>1, <2>2, <2>3, <2>4
<1>8. PICK v \in Seq(Whole) : v = <<200, 3>> /\ Len(v) = 2 /\ v[1] = 200 /\ v[2] = 3
  <2>1. PICK x \in Whole, y \in Whole : x = 200 /\ y = 3
    BY DEF Whole
  <2>2. PICK z : z = <<x, y>>
    OBVIOUS
  <2>3. z \in Seq(Whole) /\ Len(z) = 2 /\ z[1] = x /\ z[2] = y
    BY <2>2
  <2> QED BY <2>1, <2>2, <2>3
<1>9. PICK a, b, c, h : a = v \o l /\ b = a \o p /\ c = b \o s /\ h = c \o r
  OBVIOUS
<1>10. h = Header(hdr, length)
  BY <1>1, <1>5, <1>6, <1>7, <1>8, <1>9, Zenon DEF Header
<1>11. /\ a \in Seq(Whole) /\ Len(a) = 4
       /\ \A i \in 1..2 : a[i] = v[i]
       /\ \A i \in 1..2 : a[2 + i] = l[i]
  <2>1. /\ a \in Seq(Whole) /\ Len(a) = Len(v) + Len(l)
        /\ \A i \in 1..Len(v) : a[i] = v[i]
        /\ \A i \in 1..Len(l) : a[Len(v) + i] = l[i]
    BY <1>9, Concat
  <2> QED BY <1>5, <1>8, <2>1
<1>12. a[1] = 200 /\ a[2] = 3 /\ a[3] = length \div 256 /\ a[4] = length % 256
  BY <1>5, <1>8, <1>11
<1>13. /\ b \in Seq(Whole) /\ Len(b) = 8
       /\ \A i \in 1..4 : b[i] = a[i]
       /\ \A i \in 1..4 : b[4 + i] = p[i]
  <2>1. /\ b \in Seq(Whole) /\ Len(b) = Len(a) + Len(p)
        /\ \A i \in 1..Len(a) : b[i] = a[i]
        /\ \A i \in 1..Len(p) : b[Len(a) + i] = p[i]
    <3>1. a \in Seq(Whole)
      BY <1>11
    <3> QED BY <1>4, <1>9, <3>1, Concat
  <2> QED BY <1>2, <1>4, <1>11, <2>1
<1>14. /\ c \in Seq(Whole) /\ Len(c) = 10
       /\ \A i \in 1..8 : c[i] = b[i]
       /\ \A i \in 1..2 : c[8 + i] = s[i]
  <2>1. /\ c \in Seq(Whole) /\ Len(c) = Len(b) + Len(s)
        /\ \A i \in 1..Len(b) : c[i] = b[i]
        /\ \A i \in 1..Len(s) : c[Len(b) + i] = s[i]
    <3>1. b \in Seq(Whole)
      BY <1>13
    <3> QED BY <1>9, <3>1, Concat
  <2> QED BY <1>6, <1>13, <2>1
<1>15. /\ h \in Seq(Whole) /\ Len(h) = 12
       /\ \A i \in 1..10 : h[i] = c[i]
       /\ \A i \in 1..2 : h[10 + i] = r[i]
  <2>1. /\ h \in Seq(Whole) /\ Len(h) = Len(c) + Len(r)
        /\ \A i \in 1..Len(c) : h[i] = c[i]
        /\ \A i \in 1..Len(r) : h[Len(c) + i] = r[i]
    <3>1. c \in Seq(Whole)
      BY <1>14
    <3> QED BY <1>9, <3>1, Concat
  <2> QED BY <1>7, <1>14, <2>1
<1>16. h[1] = 200 /\ h[2] = 3 /\ h[3] = length \div 256 /\ h[4] = length % 256
  <2>1. ASSUME NEW i \in 1..4 PROVE h[i] = a[i]
    <3>1. i \in 1..8 /\ i \in 1..10
      OBVIOUS
    <3> QED BY <1>13, <1>14, <1>15, <3>1
  <2> QED BY <1>12, <2>1
<1>17. h[9] = hdr.ns \div 256 /\ h[10] = hdr.ns % 256
  BY <1>6, <1>14, <1>15
<1>18. h[11] = hdr.nr \div 256 /\ h[12] = hdr.nr % 256
  BY <1>7, <1>15
<1>19. ASSUME NEW j \in 1..4 PROVE h[4 + j] = p[j] /\ h[4 + j] \in Byte
  <2>1. PICK i \in 1..8 : i = 4 + j
    OBVIOUS
  <2>2. i \in 1..10
    OBVIOUS
  <2>3. h[i] = b[i]
    BY <1>14, <1>15, <2>2
  <2> QED BY <1>3, <1>13, <2>1, <2>3
<1> QED BY <1>1, <1>10, <1>15, <1>16, <1>17, <1>18, <1>19 DEF HeaderAs

\* Every control message header that the decoder takes is encoded again as it
\* was read.
LEMMA HeaderDecoded ==
  ASSUME NEW buffer \in Seq(Byte), decodes_header(buffer),
         NEW hdr, hdr = decode_header(buffer)
  PROVE  /\ IsHeader(hdr) /\ Len(buffer) \in Nat /\ Len(buffer) >= 12
         /\ Header(hdr, Len(buffer)) = SubSeq(buffer, 1, 12)
<1>1. PICK n \in Nat : n = Len(buffer) /\ n >= 12
  BY DEF decodes_header
<1>2. \A i \in 1..12 : buffer[i] \in Byte
  BY <1>1, ElementOfSeq
<1>3. buffer[1] = 200 /\ buffer[2] = 3 /\ n = 256 * buffer[3] + buffer[4]
  BY <1>1 DEF decodes_header, u16
<1>4. buffer[3] = n \div 256 /\ buffer[4] = n % 256
  <2>1. PICK x \in Byte, y \in Byte : x = buffer[3] /\ y = buffer[4]
    BY <1>2
  <2>2. (256 * x + y) \div 256 = x /\ (256 * x + y) % 256 = y
    BY BytesU16
  <2> QED BY <1>3, <2>1, <2>2
<1>5. /\ hdr.ns \in Word /\ buffer[9] = hdr.ns \div 256 /\ buffer[10] = hdr.ns % 256
      /\ hdr.nr \in Word /\ buffer[11] = hdr.nr \div 256 /\ buffer[12] = hdr.nr % 256
  <2>1. PICK x \in Byte, y \in Byte : x = buffer[9] /\ y = buffer[10]
    BY <1>2
  <2>2. PICK z \in Byte, w \in Byte : z = buffer[11] /\ w = buffer[12]
    BY <1>2
  <2>3. hdr.ns = 256 * x + y /\ hdr.nr = 256 * z + w
    BY <2>1, <2>2 DEF decode_header, u16
  <2> QED BY <2>1, <2>2, <2>3, BytesU16
<1>6. PICK c : c = SubSeq(buffer, 5, 8)
  OBVIOUS
<1>7. c \in Seq(Byte) /\ Len(c) = 4 /\ \A j \in 1..4 : c[j] = buffer[4 + j]
  <2>1. 5 \in Int /\ 8 \in Int /\ 1 <= 5 /\ 5 <= 8 + 1 /\ 8 <= Len(buffer)
    BY <1>1
  <2>2. /\ c \in Seq(Byte) /\ Len(c) = 8 - 5 + 1
        /\ \A i \in 1..(8 - 5 + 1) : c[i] = buffer[5 + i - 1]
    BY <1>6, <2>1, PartOf
  <2>3. 8 - 5 + 1 = 4 /\ \A j \in 1..4 : 5 + j - 1 = 4 + j
    OBVIOUS
  <2> QED BY <2>2, <2>3
<1>8. hdr.ccid = unpack(c)
  <2>1. (IF 8 < n THEN 8 ELSE n) = 8
    BY <1>1
  <2> QED BY <1>1, <1>6, <2>1 DEF decode_header, Slice
<1>9. IsNumber(hdr.ccid) /\ Len(hdr.ccid) <= 2 /\ pack(hdr.ccid, 2) = c
  <2>1. 2 \in Nat /\ Len(c) = 2 * 2
    BY <1>7
  <2> QED BY <1>7, <1>8, <2>1, PackUnpack
<1>10. IsHeader(hdr)
  <2>1. HeaderKeys(hdr)
    BY DEF HeaderKeys, decode_header
  <2> QED BY <1>5, <1>9, <2>1 DEF IsHeader
<1>11. PICK h : h = Header(hdr, n) /\ HeaderAs(hdr, n, h)
  BY <1>10, HeaderBytes
<1>12. h \in Seq(Whole) /\ Len(h) = 12
  BY <1>11 DEF HeaderAs
<1>13. ASSUME NEW i \in 1..12 PROVE h[i] = buffer[i]
  <2>1. CASE i \in 1..4
    <3>1. i \in {1, 2, 3, 4}
      BY <2>1
    <3>2. h[1] = 200 /\ h[2] = 3 /\ h[3] = n \div 256 /\ h[4] = n % 256
      BY <1>11 DEF HeaderAs
    <3>3. /\ h[1] = buffer[1] /\ h[2] = buffer[2]
          /\ h[3] = buffer[3] /\ h[4] = buffer[4]
      BY <1>3, <1>4, <3>2, ZenonT(90)
    <3> QED BY <3>1, <3>3
  <2>2. CASE i \in 5..8
    <3>1. PICK j \in 1..4 : i = 4 + j
      <4>1. i - 4 \in 1..4 /\ i = 4 + (i - 4)
        BY <2>2
      <4> QED BY <4>1
    <3>2. h[4 + j] = pack(hdr.ccid, 2)[j]
      BY <1>11 DEF HeaderAs
    <3> QED BY <1>7, <1>9, <3>1, <3>2
  <2>3. CASE i \in 9..12
    <3>1. i \in {9, 10, 11, 12}
      BY <2>3
    <3>2. h[9] = hdr.ns \div 256 /\ h[10] = hdr.ns % 256
      BY <1>11 DEF HeaderAs
    <3>3. h[11] = hdr.nr \div 256 /\ h[12] = hdr.nr % 256
      BY <1>11 DEF HeaderAs
    <3> QED BY <1>5, <3>1, <3>2, <3>3
  <2> QED BY <2>1, <2>2, <2>3
<1>14. PICK s : s = SubSeq(buffer, 1, 12)
  OBVIOUS
<1>15. s \in Seq(Byte) /\ Len(s) = 12 /\ \A i \in 1..12 : s[i] = buffer[i]
  <2>1. 1 \in Int /\ 12 \in Int /\ 1 <= 1 /\ 1 <= 12 + 1 /\ 12 <= Len(buffer)
    BY <1>1
  <2>2. /\ s \in Seq(Byte) /\ Len(s) = 12 - 1 + 1
        /\ \A i \in 1..(12 - 1 + 1) : s[i] = buffer[1 + i - 1]
    BY <1>14, <2>1, PartOf
  <2>3. 12 - 1 + 1 = 12 /\ \A j \in 1..12 : 1 + j - 1 = j
    OBVIOUS
  <2> QED BY <2>2, <2>3
<1>16. h = s
  <2>1. Byte \subseteq Whole
    BY ByteIs DEF Whole
  <2>2. s \in Seq(Whole)
    BY <1>15, <2>1, SeqMonotonic
  <2> QED BY <1>12, <1>13, <1>15, <2>2, SeqEqual, ZenonT(90)
<1> QED BY <1>1, <1>10, <1>11, <1>14, <1>16

-----------------------------------------------------------------------------
(* What the loader returns *)

\* A number, or what int() may return instead.
AnyNumber(v) == IsNumber(v) \/ v \in {None, Negative}

\* The ranges that the loader checks.
SessionRanged(s) ==
    /\ Fits(s.local_sid, 2) /\ Fits(s.pseudowire_type, 1)
    /\ Fits(s.l2_specific_sublayer, 1) /\ Fits(s.data_sequencing, 1)
    /\ Fits(s.circuit_status, 1)
    /\ s.cookie # None => Len(s.cookie) \in {0, 4, 8}

TunnelRanged(t) ==
    /\ Fits(t.router_id, 2) /\ Fits(t.local_ccid, 2) /\ Fits(t.receive_window, 1)
    /\ t.firmware_revision # None => Fits(t.firmware_revision, 1)

SessionTyped(s) ==
    /\ SessionRanged(s)
    /\ AnyNumber(s.local_sid) /\ AnyNumber(s.pseudowire_type)
    /\ AnyNumber(s.l2_specific_sublayer) /\ AnyNumber(s.data_sequencing)
    /\ AnyNumber(s.circuit_status)
    /\ AnyNumber(s.tx_connect_speed) /\ AnyNumber(s.rx_connect_speed)
    /\ s.name \in Seq(Byte) /\ s.cookie \in Seq(Byte) \cup {None}
    /\ s.local_sid # None

TunnelTyped(t) ==
    /\ TunnelRanged(t)
    /\ AnyNumber(t.router_id) /\ AnyNumber(t.local_ccid)
    /\ IsNumber(t.remote_ccid) /\ Len(t.remote_ccid) <= 2
    /\ AnyNumber(t.receive_window) /\ AnyNumber(t.firmware_revision)
    /\ t.host_name \in Seq(Byte) /\ t.vendor_name \in Seq(Byte) \cup {None}
    /\ t.digest_alg \in {0, 1} /\ t.password \in Seq(Byte) \cup {None}
    /\ t.router_id # None /\ t.local_ccid # None
    /\ \A j \in DOMAIN t.sessions : SessionTyped(t.sessions[j])

\* The numbers of one digit.
LEMMA NumType ==
  ASSUME NEW n \in Word
  PROVE  IsNumber(Num(n)) /\ Len(Num(n)) <= 1
<1>1. CASE n = 0
  BY <1>1 DEF Num, IsNumber
<1>2. CASE n # 0
  <2>1. PICK s : s = <<n>>
    OBVIOUS
  <2>2. s \in Seq(Word) /\ Len(s) = 1 /\ s[1] = n
    BY <2>1
  <2>3. Num(n) = s
    BY <1>2, <2>1 DEF Num
  <2>4. IsNumber(s)
    BY <1>2, <2>2 DEF IsNumber
  <2>5. Len(s) <= 1
    BY <2>2
  <2> QED BY <2>3, <2>4, <2>5
<1> QED BY <1>1, <1>2

\* They have a digit at most.
LEMMA NumFits ==
  ASSUME NEW n \in Word
  PROVE  Fits(Num(n), 1)
<1>1. IsNumber(Num(n)) /\ Len(Num(n)) <= 1
  BY NumType
<1> QED BY <1>1, NotNumbers DEF Fits, IsNumber

\* What the functions that read a key return.
LEMMA TomlType ==
  ASSUME NEW v, IsToml(v)
  PROVE  /\ v # None => AnyNumber(v.n)
         /\ AnyNumber(Optional(v, "n"))
         /\ \A n \in Word : AnyNumber(IntOr(v, n))
         /\ Optional(v, "utf8") \in Seq(Byte) \cup {None}
         /\ Optional(v, "hex") \in Seq(Byte) \cup {None}
         /\ IsStr(v) => v.utf8 \in Seq(Byte)
<1>1. CASE v = None
  BY <1>1, NumType DEF Optional, IntOr, AnyNumber, IsStr
<1>2. CASE v # None
  <2>1. AnyNumber(v.n)
    BY <1>2 DEF IsToml, AnyNumber
  <2>2. v.utf8 \in Seq(Byte) \cup {None} /\ v.hex \in Seq(Byte) \cup {None}
    BY <1>2 DEF IsToml
  <2>3. IsStr(v) => v.utf8 \in Seq(Byte)
    BY <1>2, <2>2 DEF IsToml, IsStr
  <2> QED BY <1>2, <2>1, <2>2, <2>3 DEF Optional, IntOr
<1> QED BY <1>1, <1>2

\* The defaults of the configuration are 16-bit numbers.
LEMMA SmallWords == 0 \in Word /\ 1 \in Word /\ 3 \in Word /\ 4 \in Word /\ 5 \in Word
  BY WordIs, SMT

\* What the loader makes of a session that it accepts.
LEMMA ParseSessionType ==
  ASSUME NEW s, parses_session(s),
         IsToml(s.name), IsToml(s.local_sid), IsToml(s.l2_specific_sublayer),
         IsToml(s.data_sequencing), IsToml(s.circuit_status), IsToml(s.cookie),
         IsToml(s.tx_connect_speed), IsToml(s.rx_connect_speed)
  PROVE  SessionTyped(parse_session(s))
<1>1. PICK e : e = parse_session(s)
  OBVIOUS
<1>2. e.name \in Seq(Byte) /\ e.cookie \in Seq(Byte) \cup {None}
  BY <1>1, TomlType DEF parse_session, parses_session
<1>3. AnyNumber(e.local_sid) /\ e.local_sid # None
  BY <1>1, TomlType DEF parse_session, parses_session, IsInt, Fits
<1>4. AnyNumber(e.pseudowire_type)
  <2>1. AnyNumber(Num(5)) /\ AnyNumber(Num(4))
    BY SmallWords, NumType DEF AnyNumber
  <2>2. WordOr(s.pseudowire_type, "ethernet") \in DOMAIN PseudowireType
    BY DEF parses_session
  <2>3. \A w \in DOMAIN PseudowireType : PseudowireType[w] \in {Num(5), Num(4)}
    BY DEF PseudowireType
  <2> QED BY <1>1, <2>1, <2>2, <2>3 DEF parse_session
<1>5. /\ AnyNumber(e.l2_specific_sublayer) /\ AnyNumber(e.data_sequencing)
      /\ AnyNumber(e.circuit_status)
  BY <1>1, SmallWords, TomlType DEF parse_session
<1>6. AnyNumber(e.tx_connect_speed) /\ AnyNumber(e.rx_connect_speed)
  BY <1>1, TomlType DEF parse_session
<1>7. SessionRanged(e)
  <2>1. Fits(e.local_sid, 2) /\ Fits(e.circuit_status, 1)
    BY <1>1 DEF parse_session, parses_session
  <2>2. Fits(e.l2_specific_sublayer, 1) /\ Fits(e.data_sequencing, 1)
    BY <1>1 DEF parse_session, parses_session, Within
  <2>3. Fits(e.pseudowire_type, 1)
    <3>1. Fits(Num(5), 1) /\ Fits(Num(4), 1)
      BY SmallWords, NumFits
    <3>2. WordOr(s.pseudowire_type, "ethernet") \in DOMAIN PseudowireType
      BY DEF parses_session
    <3>3. \A w \in DOMAIN PseudowireType : PseudowireType[w] \in {Num(5), Num(4)}
      BY DEF PseudowireType
    <3> QED BY <1>1, <3>1, <3>2, <3>3 DEF parse_session
  <2>4. e.cookie # None => Len(e.cookie) \in {0, 4, 8}
    BY <1>1 DEF parse_session, parses_session, parses_cookie, Optional
  <2> QED BY <2>1, <2>2, <2>3, <2>4 DEF SessionRanged
<1> QED BY <1>1, <1>2, <1>3, <1>4, <1>5, <1>6, <1>7 DEF SessionTyped

\* What it makes of a router ID.
LEMMA ParseRouterId ==
  ASSUME NEW v, parses_router_id(v), IsToml(v)
  PROVE  /\ AnyNumber(parse_router_id(v)) /\ parse_router_id(v) # None
         /\ Fits(parse_router_id(v), 2)
<1>1. CASE IsInt(v)
  <2>1. AnyNumber(v.n)
    BY <1>1, TomlType DEF IsInt
  <2>2. v.n # None /\ Fits(v.n, 2)
    BY <1>1 DEF parses_router_id, Fits, IsInt, IsStr
  <2> QED BY <1>1, <2>1, <2>2 DEF parse_router_id
<1>2. CASE ~IsInt(v)
  <2>1. v # None /\ v.quad # None
    BY <1>2 DEF parses_router_id, IsStr
  <2>2. IsNumber(v.quad) /\ Len(v.quad) <= 2
    BY <2>1 DEF IsToml
  <2>3. Fits(v.quad, 2)
    BY <2>2, NotNumbers DEF Fits, IsNumber
  <2> QED BY <1>2, <2>1, <2>2, <2>3 DEF parse_router_id, AnyNumber
<1> QED BY <1>1, <1>2

\* What it makes of a tunnel.
LEMMA ParseTunnelType ==
  ASSUME NEW t, parses_tunnel(t),
         IsToml(t.host_name), IsToml(t.router_id), IsToml(t.local_ccid),
         IsToml(t.remote_ccid), IsToml(t.receive_window), IsToml(t.vendor_name),
         IsToml(t.firmware_revision), IsToml(t.password),
         \A j \in DOMAIN t.session : SessionTyped(parse_session(t.session[j]))
  PROVE  TunnelTyped(parse_tunnel(t))
<1>1. PICK e : e = parse_tunnel(t)
  OBVIOUS
<1>2. e.host_name \in Seq(Byte) /\ e.vendor_name \in Seq(Byte) \cup {None}
  BY <1>1, TomlType DEF parse_tunnel, parses_tunnel
<1>3. AnyNumber(e.router_id) /\ e.router_id # None
  BY <1>1, ParseRouterId DEF parse_tunnel, parses_tunnel
<1>4. AnyNumber(e.local_ccid) /\ e.local_ccid # None
  BY <1>1, TomlType DEF parse_tunnel, parses_tunnel, IsInt, Fits
<1>5. IsNumber(e.remote_ccid) /\ Len(e.remote_ccid) <= 2
  <2>1. e.remote_ccid = IntOr(t.remote_ccid, 0)
    BY <1>1 DEF parse_tunnel
  <2>2. Fits(IntOr(t.remote_ccid, 0), 2)
    BY DEF parses_tunnel
  <2>3. AnyNumber(IntOr(t.remote_ccid, 0))
    BY SmallWords, TomlType
  <2> QED BY <2>1, <2>2, <2>3 DEF Fits, AnyNumber
<1>6. AnyNumber(e.receive_window) /\ AnyNumber(e.firmware_revision)
  BY <1>1, SmallWords, TomlType DEF parse_tunnel
<1>7. e.digest_alg \in {0, 1} /\ e.password \in Seq(Byte) \cup {None}
  BY <1>1, TomlType DEF parse_tunnel
<1>8. \A j \in DOMAIN e.sessions : SessionTyped(e.sessions[j])
  BY <1>1 DEF parse_tunnel
<1>9. TunnelRanged(e)
  <2>1. Fits(e.router_id, 2)
    BY <1>1, ParseRouterId DEF parse_tunnel, parses_tunnel
  <2>2. Fits(e.local_ccid, 2)
    BY <1>1 DEF parse_tunnel, parses_tunnel
  <2>3. Fits(e.receive_window, 1)
    <3>1. e.receive_window = IntOr(t.receive_window, 4)
      BY <1>1 DEF parse_tunnel
    <3>2. Within(IntOr(t.receive_window, 4), 1, 1024)
      BY DEF parses_tunnel, parses_ranges
    <3> QED BY <3>1, <3>2 DEF Within
  <2>4. e.firmware_revision # None => Fits(e.firmware_revision, 1)
    <3>1. e.firmware_revision = Optional(t.firmware_revision, "n")
      BY <1>1 DEF parse_tunnel
    <3>2. Fits(IntOr(t.firmware_revision, 0), 1)
      BY DEF parses_tunnel, parses_ranges
    <3> QED BY <3>1, <3>2 DEF Optional, IntOr
  <2> QED BY <2>1, <2>2, <2>3, <2>4 DEF TunnelRanged
<1> QED BY <1>1, <1>2, <1>3, <1>4, <1>5, <1>6, <1>7, <1>8, <1>9 DEF TunnelTyped

\* Every tunnel of an accepted file has values that the builders can be given.
LEMMA LoadType ==
  ASSUME NEW d, IsDocument(d), parses_document(d), NEW i \in DOMAIN parse_document(d)
  PROVE  TunnelTyped(parse_document(d)[i])
<1>1. i \in DOMAIN d.tunnel /\ parse_document(d)[i] = parse_tunnel(d.tunnel[i])
  BY DEF parse_document
<1>2. PICK t : t = d.tunnel[i]
  OBVIOUS
<1>3. parses_tunnel(t)
  BY <1>1, <1>2 DEF parses_document
<1>4. /\ IsToml(t.host_name) /\ IsToml(t.router_id) /\ IsToml(t.local_ccid)
      /\ IsToml(t.remote_ccid) /\ IsToml(t.receive_window) /\ IsToml(t.vendor_name)
      /\ IsToml(t.firmware_revision) /\ IsToml(t.password)
  BY <1>1, <1>2 DEF IsDocument
<1>5. ASSUME NEW j \in DOMAIN t.session PROVE SessionTyped(parse_session(t.session[j]))
  <2>1. PICK s : s = t.session[j]
    OBVIOUS
  <2>2. parses_session(s)
    BY <1>3, <2>1 DEF parses_tunnel
  <2>3. /\ IsToml(s.name) /\ IsToml(s.local_sid) /\ IsToml(s.l2_specific_sublayer)
        /\ IsToml(s.data_sequencing) /\ IsToml(s.circuit_status) /\ IsToml(s.cookie)
        /\ IsToml(s.tx_connect_speed) /\ IsToml(s.rx_connect_speed)
    BY <1>1, <1>2, <2>1 DEF IsDocument
  <2> QED BY <2>1, <2>2, <2>3, ParseSessionType
<1> QED BY <1>1, <1>2, <1>3, <1>4, <1>5, ParseTunnelType

-----------------------------------------------------------------------------
(* What the builders are given *)

\* The fields whose value is a number, and those whose value is bytes.
NumberFields == DOMAIN Digits
ByteFields == {"HOST_NAME", "VENDOR_NAME", "REMOTE_END_ID", "ASSIGNED_COOKIE"}

\* The values of the other fields.
Numbers == {v \in Seq(Word) \cup {None, Negative} : AnyNumber(v)}
Capabilities == << <<5>>, <<4>> >>
Results == {ResultCode(n, None, <<>>) : n \in {Num(6), Num(2)}}

\* A field of the daemon's messages with a value it may have, None among them.
Pairs ==
    (NumberFields \X Numbers)
    \cup ({"PSEUDOWIRE_CAPABILITIES_LIST"} \X {Capabilities})
    \cup ({"RESULT_CODE"} \X Results)
    \cup (ByteFields \X (Seq(Byte) \cup {None}))

\* One that is built.
IsBuilt(p) ==
    p[1] \in DOMAIN AttrType /\ p[1] # "MESSAGE_DIGEST" /\ FieldTyped(p[1], p[2])

Built == {p \in Pairs : IsBuilt(p)}

\* The pseudowire types that the daemon offers.
LEMMA CapabilitiesType == Capabilities \in Lists(Word)
<1>1. PICK T : T = Seq(Word)
  OBVIOUS
<1>2. PICK x \in T, y \in T : x = <<5>> /\ y = <<4>>
  <2>1. PICK a \in Word, b \in Word : a = 5 /\ b = 4
    BY SmallWords
  <2>2. <<a>> \in T /\ <<b>> \in T
    BY <1>1
  <2> QED BY <2>1, <2>2
<1>3. <<x, y>> \in Seq(T)
  OBVIOUS
<1> QED BY <1>1, <1>2, <1>3 DEF Lists, Capabilities

\* A field with a number.
LEMMA NumberPair ==
  ASSUME NEW f \in DOMAIN Digits, NEW v, AnyNumber(v)
  PROVE  <<f, v>> \in Pairs
<1>1. v \in Seq(Word) \cup {None, Negative}
  BY DEF AnyNumber, IsNumber
<1>2. v \in Numbers
  BY <1>1, Zenon DEF Numbers
<1>3. f \in NumberFields
  BY DEF NumberFields
<1> QED BY <1>2, <1>3 DEF Pairs

\* A field with bytes.
LEMMA BytesPair ==
  ASSUME NEW f \in ByteFields, NEW v \in Seq(Byte) \cup {None}
  PROVE  <<f, v>> \in Pairs
  BY DEF Pairs

\* A pair with a value is built.
LEMMA PairBuilt ==
  ASSUME NEW p \in Pairs, p[2] # None
  PROVE  p \in Built
<1>1. DOMAIN Digits \subseteq DOMAIN AttrType /\ "MESSAGE_DIGEST" \notin DOMAIN Digits
      /\ "PSEUDOWIRE_CAPABILITIES_LIST" \notin DOMAIN Digits
      /\ "RESULT_CODE" \notin DOMAIN Digits
  BY DEF Digits, AttrType
<1>2. /\ {"PSEUDOWIRE_CAPABILITIES_LIST", "RESULT_CODE"} \cup ByteFields \subseteq DOMAIN AttrType
      /\ ByteFields \cap DOMAIN Digits = {}
  BY DEF Digits, AttrType, ByteFields
<1>3. CASE p \in NumberFields \X Numbers
  <2>1. p[1] \in NumberFields /\ p[2] \in Numbers
    BY <1>3
  <2>2. AnyNumber(p[2])
    BY <2>1, Zenon DEF Numbers
  <2>3. FieldTyped(p[1], p[2])
    BY <2>1, <2>2 DEF FieldTyped, AnyNumber, NumberFields
  <2> QED BY <1>1, <2>1, <2>3 DEF Built, IsBuilt, NumberFields
<1>4. CASE p \in {"PSEUDOWIRE_CAPABILITIES_LIST"} \X {Capabilities}
  BY <1>1, <1>2, <1>4, CapabilitiesType DEF Built, IsBuilt, FieldTyped
<1>5. CASE p \in {"RESULT_CODE"} \X Results
  <2>1. p[1] = "RESULT_CODE" /\ p[2] \in Results
    BY <1>5
  <2>2. IsNumber(Num(6)) /\ IsNumber(Num(2))
    BY NumType, WordIs, SMT
  <2>3. IsNumber(p[2].result) /\ p[2].error = None
    BY <2>1, <2>2 DEF Results, ResultCode
  <2> QED BY <1>1, <1>2, <2>1, <2>3 DEF Built, IsBuilt, FieldTyped
<1>6. CASE p \in ByteFields \X (Seq(Byte) \cup {None})
  BY <1>2, <1>6 DEF Built, IsBuilt, FieldTyped, ByteFields
<1> QED BY <1>3, <1>4, <1>5, <1>6 DEF Pairs

\* The fields of SCCRQ and SCCRP.
LEMMA SccrxType ==
  ASSUME NEW t, TunnelTyped(t)
  PROVE  SccrxFields(t) \in Seq(Pairs)
<1>1. {"ROUTER_ID", "ASSIGNED_CONTROL_CONNECTION_ID", "RECEIVE_WINDOW_SIZE", "FIRMWARE_REVISION"}
        \subseteq DOMAIN Digits
  BY DEF Digits
<1>2. PICK p1 \in Pairs, p2 \in Pairs : /\ p1 = <<"ROUTER_ID", t.router_id>>
                                       /\ p2 = <<"ASSIGNED_CONTROL_CONNECTION_ID", t.local_ccid>>
  BY <1>1, NumberPair DEF TunnelTyped
<1>3. PICK p3 \in Pairs : p3 = <<"PSEUDOWIRE_CAPABILITIES_LIST", << <<5>>, <<4>> >> >>
  <2>1. PICK p \in Pairs : p = <<"PSEUDOWIRE_CAPABILITIES_LIST", Capabilities>>
    BY DEF Pairs
  <2> QED BY <2>1 DEF Capabilities
<1>4. PICK p4 \in Pairs, p6 \in Pairs : /\ p4 = <<"HOST_NAME", t.host_name>>
                                       /\ p6 = <<"VENDOR_NAME", t.vendor_name>>
  BY BytesPair DEF TunnelTyped, ByteFields
<1>5. PICK p5 \in Pairs, p7 \in Pairs : /\ p5 = <<"RECEIVE_WINDOW_SIZE", t.receive_window>>
                                       /\ p7 = <<"FIRMWARE_REVISION", t.firmware_revision>>
  BY <1>1, NumberPair DEF TunnelTyped
<1>6. SccrxFields(t) = <<p1, p2, p3, p4, p5, p6, p7>>
  BY <1>2, <1>3, <1>4, <1>5, Zenon DEF SccrxFields
<1>7. <<p1, p2, p3, p4, p5, p6, p7>> \in Seq(Pairs)
  OBVIOUS
<1> QED BY <1>6, <1>7

\* The fields of the messages of a session.
LEMMA SessionFieldsType ==
  ASSUME NEW s, SessionTyped(s)
  PROVE  /\ \A sid : IsNumber(sid) => SessionIds(s, sid) \in Seq(Pairs)
         /\ Circuit(s) \in Seq(Pairs) /\ Speeds(s) \in Seq(Pairs)
         /\ Cookie(s) \in Seq(Pairs)
         /\ << <<"PSEUDOWIRE_TYPE", s.pseudowire_type>> >> \in Seq(Pairs)
         /\ << <<"REMOTE_END_ID", s.name>> >> \in Seq(Pairs)
<1>1. {"LOCAL_SESSION_ID", "REMOTE_SESSION_ID", "L2_SPECIFIC_SUBLAYER", "DATA_SEQUENCING",
       "CIRCUIT_STATUS", "TX_CONNECT_SPEED", "RX_CONNECT_SPEED", "PSEUDOWIRE_TYPE"}
        \subseteq DOMAIN Digits
  BY DEF Digits
<1>2. ASSUME NEW sid, IsNumber(sid) PROVE SessionIds(s, sid) \in Seq(Pairs)
  <2>1. PICK p \in Pairs, q \in Pairs : /\ p = <<"LOCAL_SESSION_ID", s.local_sid>>
                                       /\ q = <<"REMOTE_SESSION_ID", sid>>
    BY <1>1, <1>2, NumberPair DEF SessionTyped, AnyNumber
  <2>2. SessionIds(s, sid) = <<p, q>>
    BY <2>1, Zenon DEF SessionIds
  <2> QED BY <2>2
<1>3. Circuit(s) \in Seq(Pairs)
  <2>1. PICK p \in Pairs, q \in Pairs, r \in Pairs :
            /\ p = <<"L2_SPECIFIC_SUBLAYER", s.l2_specific_sublayer>>
            /\ q = <<"DATA_SEQUENCING", s.data_sequencing>>
            /\ r = <<"CIRCUIT_STATUS", s.circuit_status>>
    BY <1>1, NumberPair DEF SessionTyped
  <2>2. Circuit(s) = <<p, q, r>>
    BY <2>1, Zenon DEF Circuit
  <2> QED BY <2>2
<1>4. Speeds(s) \in Seq(Pairs)
  <2>1. PICK p \in Pairs, q \in Pairs : /\ p = <<"TX_CONNECT_SPEED", s.tx_connect_speed>>
                                       /\ q = <<"RX_CONNECT_SPEED", s.rx_connect_speed>>
    BY <1>1, NumberPair DEF SessionTyped
  <2>2. Speeds(s) = <<p, q>>
    BY <2>1, Zenon DEF Speeds
  <2> QED BY <2>2
<1>5. Cookie(s) \in Seq(Pairs) /\ << <<"REMOTE_END_ID", s.name>> >> \in Seq(Pairs)
  <2>1. PICK p \in Pairs, q \in Pairs : /\ p = <<"ASSIGNED_COOKIE", s.cookie>>
                                       /\ q = <<"REMOTE_END_ID", s.name>>
    BY BytesPair DEF SessionTyped, ByteFields
  <2>2. Cookie(s) = <<p>>
    BY <2>1, Zenon DEF Cookie
  <2>3. <<p>> \in Seq(Pairs) /\ <<q>> \in Seq(Pairs)
    OBVIOUS
  <2> QED BY <2>1, <2>2, <2>3
<1>6. << <<"PSEUDOWIRE_TYPE", s.pseudowire_type>> >> \in Seq(Pairs)
  <2>1. PICK p \in Pairs : p = <<"PSEUDOWIRE_TYPE", s.pseudowire_type>>
    BY <1>1, NumberPair DEF SessionTyped
  <2>2. <<p>> \in Seq(Pairs)
    OBVIOUS
  <2> QED BY <2>1, <2>2
<1> QED BY <1>2, <1>3, <1>4, <1>5, <1>6

\* The Result Code of a message.
LEMMA ResultType ==
  ASSUME NEW result \in {6, 2}
  PROVE  Result(result) \in Seq(Pairs)
<1>1. PICK v \in Results : v = ResultCode(Num(result), None, <<>>)
  BY Zenon DEF Results
<1>2. PICK p \in Pairs : p = <<"RESULT_CODE", v>>
  BY DEF Pairs
<1>3. Result(result) = <<p>>
  BY <1>1, <1>2, Zenon DEF Result
<1> QED BY <1>3

\* What follows the Message Type.
LEMMA BodyType ==
  ASSUME NEW kind \in Kinds, NEW t, TunnelTyped(t), NEW s, kind \in TunnelKinds \/ SessionTyped(s),
         NEW sid, IsNumber(sid), NEW result \in {6, 2}
  PROVE  BodyFields(kind, t, s, sid, result) \in Seq(Pairs)
<1>1. PICK body : body = BodyFields(kind, t, s, sid, result)
  OBVIOUS
<1> SUFFICES body \in Seq(Pairs)
  BY <1>1
<1>2. /\ kind \in {"SCCRQ", "SCCRP", "SCCCN", "HELLO", "StopCCN", "ICRQ", "ICRP", "ICCN", "CDN"}
      /\ kind \in {"ICRQ", "ICRP", "ICCN", "CDN"} => SessionTyped(s)
  BY DEF Kinds, MessageType, TunnelKinds
<1>3. \A x, y \in Seq(Pairs) : x \o y \in Seq(Pairs)
  BY ConcatProperties
<1>4. PICK r \in Seq(Pairs) : r = Result(result)
  BY ResultType
<1>5. CASE kind \in {"SCCRQ", "SCCRP"}
  <2>1. body = SccrxFields(t)
    BY <1>1, <1>5, Zenon DEF BodyFields
  <2> QED BY <2>1, SccrxType
<1>6. CASE kind \in {"SCCCN", "HELLO"}
  <2>1. body = <<>>
    BY <1>1, <1>6, Zenon DEF BodyFields
  <2> QED BY <2>1
<1>7. CASE kind = "StopCCN"
  <2>1. body = << <<"ASSIGNED_CONTROL_CONNECTION_ID", t.local_ccid>> >> \o r
    BY <1>1, <1>4, <1>7, Zenon DEF BodyFields
  <2>2. "ASSIGNED_CONTROL_CONNECTION_ID" \in DOMAIN Digits
    BY DEF Digits
  <2>3. PICK p \in Pairs : p = <<"ASSIGNED_CONTROL_CONNECTION_ID", t.local_ccid>>
    BY <2>2, NumberPair DEF TunnelTyped
  <2>4. body = <<p>> \o r
    BY <2>1, <2>3
  <2>5. <<p>> \in Seq(Pairs)
    OBVIOUS
  <2> QED BY <2>4, <2>5, ConcatProperties
<1>8. CASE SessionTyped(s) /\ kind \in {"ICRQ", "ICRP", "ICCN", "CDN"}
  <2>1. IsNumber(Num(0))
    BY SmallWords, NumType
  <2>2. PICK i0 \in Seq(Pairs), i1 \in Seq(Pairs) :
          i0 = SessionIds(s, Num(0)) /\ i1 = SessionIds(s, sid)
    BY <1>8, <2>1, SessionFieldsType
  <2>3. PICK c \in Seq(Pairs), v \in Seq(Pairs), k \in Seq(Pairs) :
          c = Circuit(s) /\ v = Speeds(s) /\ k = Cookie(s)
    BY <1>8, SessionFieldsType
  <2>4. PICK p \in Seq(Pairs), e \in Seq(Pairs) :
          /\ p = << <<"PSEUDOWIRE_TYPE", s.pseudowire_type>> >>
          /\ e = << <<"REMOTE_END_ID", s.name>> >>
    BY <1>8, SessionFieldsType
  <2>5. CASE kind = "ICRQ"
    <3>1. body = i0 \o p \o c \o e \o k \o v
      BY <1>1, <2>2, <2>3, <2>4, <2>5, Zenon DEF BodyFields
    <3> QED BY <1>3, <3>1
  <2>6. CASE kind = "ICRP"
    <3>1. body = i1 \o c \o k \o v
      BY <1>1, <2>2, <2>3, <2>6, Zenon DEF BodyFields
    <3> QED BY <1>3, <3>1
  <2>7. CASE kind = "ICCN"
    <3>1. body = i1 \o c \o v
      BY <1>1, <2>2, <2>3, <2>7, Zenon DEF BodyFields
    <3> QED BY <1>3, <3>1
  <2>8. CASE kind = "CDN"
    <3>1. body = i1 \o r
      BY <1>1, <1>4, <2>2, <2>8, Zenon DEF BodyFields
    <3> QED BY <1>3, <3>1
  <2> QED BY <1>8, <2>5, <2>6, <2>7, <2>8
<1> QED BY <1>2, <1>5, <1>6, <1>7, <1>8

\* Everything that a builder of messages gives to a factory has a type.
LEMMA FieldsType ==
  ASSUME NEW kind \in Kinds, NEW t, TunnelTyped(t), NEW s, kind \in TunnelKinds \/ SessionTyped(s),
         NEW sid, IsNumber(sid), NEW result \in {6, 2}
  PROVE  Fields(kind, t, s, sid, result) \in Seq(Built)
<1>1. PICK body \in Seq(Pairs) : body = BodyFields(kind, t, s, sid, result)
  BY BodyType
<1>2. PICK n \in Nat : n = Len(body) /\ DOMAIN body = 1..n
  OBVIOUS
<1>3. PICK T : T = Seq(Built)
  OBVIOUS
<1> DEFINE Kept(i) == IF body[i][2] = None THEN <<>> ELSE <<body[i]>>
<1>4. ASSUME NEW i \in 1..n PROVE Kept(i) \in T
  <2>1. body[i] \in Pairs
    BY <1>2
  <2>2. CASE body[i][2] = None
    BY <1>3, <2>2
  <2>3. CASE body[i][2] # None
    <3>1. PICK p \in Built : p = body[i]
      BY <2>1, <2>3, PairBuilt
    <3>2. <<p>> \in T
      BY <1>3
    <3> QED BY <2>3, <3>1, <3>2
  <2> QED BY <2>2, <2>3
<1>5. PICK kept : kept = [i \in 1..n |-> Kept(i)]
  OBVIOUS
<1>6. kept \in [1..n -> T]
  BY <1>4, <1>5
<1>7. kept \in Lists(Built)
  <2>1. kept \in Seq(T)
    BY <1>6, FunctionSeq
  <2> QED BY <1>3, <2>1 DEF Lists
<1>8. PICK rest \in Seq(Built) : rest = FlattenSeq(kept)
  BY <1>7, FlattenType
<1>9. PICK p \in Built : p = <<"MESSAGE_TYPE", Num(MessageType[kind])>>
  <2>1. MessageType[kind] \in Word
    <3>1. MessageType[kind] \in Int /\ 0 <= MessageType[kind] /\ MessageType[kind] <= 14
      BY DEF Kinds, MessageType
    <3> QED BY <3>1, WordIs, SMT
  <2>2. IsNumber(Num(MessageType[kind]))
    BY <2>1, NumType
  <2>3. "MESSAGE_TYPE" \in DOMAIN Digits /\ "MESSAGE_TYPE" \in DOMAIN AttrType
    BY DEF Digits, AttrType
  <2>4. PICK p \in Pairs : p = <<"MESSAGE_TYPE", Num(MessageType[kind])>>
    BY <2>2, <2>3, NumberPair DEF AnyNumber
  <2>5. p[1] = "MESSAGE_TYPE" /\ p[2] = Num(MessageType[kind])
    BY <2>4
  <2>6. FieldTyped(p[1], p[2])
    BY <2>2, <2>3, <2>5 DEF FieldTyped
  <2> QED BY <2>3, <2>4, <2>5, <2>6 DEF Built, IsBuilt
<1>10. Fields(kind, t, s, sid, result) = <<p>> \o rest
  BY <1>1, <1>2, <1>5, <1>8, <1>9, Zenon DEF Fields
<1>11. <<p>> \in Seq(Built)
  OBVIOUS
<1> QED BY <1>10, <1>11, ConcatProperties

-----------------------------------------------------------------------------
(* What a message carries *)

\* A list of fields has one.
Has(list, p) == \E j \in 1..Len(list) : list[j] = p

\* So has a longer one.
LEMMA HasConcat ==
  ASSUME NEW S, NEW x \in Seq(S), NEW y \in Seq(S), NEW p, Has(x, p) \/ Has(y, p)
  PROVE  Has(x \o y, p)
<1>1. PICK z : z = x \o y
  OBVIOUS
<1>2. PICK m \in Nat, n \in Nat : m = Len(x) /\ n = Len(y)
  OBVIOUS
<1>3. /\ Len(z) = m + n
      /\ \A i \in 1..m : z[i] = x[i]
      /\ \A i \in 1..n : z[m + i] = y[i]
  BY <1>1, <1>2, Concat
<1>4. CASE Has(x, p)
  <2>1. PICK j \in 1..m : x[j] = p
    BY <1>2, <1>4 DEF Has
  <2>2. j \in 1..Len(z) /\ z[j] = p
    BY <1>3, <2>1
  <2> QED BY <1>1, <2>2 DEF Has
<1>5. CASE Has(y, p)
  <2>1. PICK j \in 1..n : y[j] = p
    BY <1>2, <1>5 DEF Has
  <2>2. PICK k \in 1..(m + n) : k = m + j
    OBVIOUS
  <2>3. k \in 1..Len(z) /\ z[k] = p
    BY <1>3, <2>1, <2>2
  <2> QED BY <1>1, <2>3 DEF Has
<1> QED BY <1>4, <1>5

\* What stands in one of the lists that are joined.
LEMMA HasFlatten ==
  ASSUME NEW S, NEW lists \in Lists(S), NEW j \in 1..Len(lists), NEW p, Has(lists[j], p)
  PROVE  Has(FlattenSeq(lists), p)
<1>1. PICK T : T = Seq(S)
  OBVIOUS
<1>2. lists \in Seq(T)
  BY <1>1 DEF Lists
<1>3. PICK k \in Nat : k = j - 1 /\ k + 1 = j /\ k + 1 <= Len(lists)
  <2>1. Len(lists) \in Nat
    BY <1>2
  <2> QED BY <2>1
<1>4. PICK first : first = [i \in 1..k |-> lists[i]]
  OBVIOUS
<1>5. first \in Seq(T) /\ Len(first) = k
  <2>1. \A i \in 1..k : lists[i] \in T
    BY <1>2, <1>3
  <2>2. first \in [1..k -> T]
    BY <1>4, <2>1
  <2> QED BY <2>2, FunctionSeq
<1>6. PICK x \in T : x = lists[j]
  BY <1>2
<1>7. PICK next : next = Append(first, x)
  OBVIOUS
<1>8. next \in Seq(T) /\ Len(next) = k + 1 /\ \A i \in 1..(k + 1) : next[i] = lists[i]
  BY <1>3, <1>4, <1>5, <1>6, <1>7
<1>9. PICK rest \in Seq(S) : FlattenSeq(lists) = FlattenSeq(next) \o rest
  <2>1. next \in Lists(S) /\ Agree(next, lists, k + 1) /\ k + 1 \in Nat
    BY <1>1, <1>8 DEF Lists, Agree
  <2> QED BY <1>3, <1>8, <2>1, FlattenPrefix
<1>10. first \in Lists(S) /\ x \in Seq(S)
  BY <1>1, <1>5 DEF Lists
<1>11. PICK f \in Seq(S) : f = FlattenSeq(first)
  BY <1>10, FlattenType
<1>12. FlattenSeq(next) = f \o x
  BY <1>7, <1>10, <1>11, FlattenAppend
<1>13. PICK g \in Seq(S) : g = f \o x
  BY <1>10, Concat
<1>14. Has(g, p)
  BY <1>6, <1>10, <1>13, HasConcat
<1>15. Has(g \o rest, p)
  BY <1>14, HasConcat
<1> QED BY <1>9, <1>12, <1>13, <1>15

\* None is neither bytes, nor a list of pseudowire types, nor a Result Code.
LEMMA NotNone ==
  /\ None \notin Seq(Byte) /\ None \notin Seq(Word)
  /\ Capabilities # None
  /\ \A n \in Word : ResultCode(Num(n), None, <<>>) # None
<1>1. None \notin Seq(Word)
  BY NotNumbers
<1>2. None \notin Seq(Byte)
  <2>1. Byte \subseteq Word
    BY ByteIs, WordIs, SMT
  <2> QED BY <1>1, <2>1, SeqMonotonic
<1>3. Capabilities # None
  BY CapabilitiesType, AbsentAssumption DEF Lists
<1>4. ASSUME NEW n \in Word PROVE ResultCode(Num(n), None, <<>>) # None
  <2>1. Num(n) \in Seq(Word)
    BY NumType DEF IsNumber
  <2>2. ResultCode(Num(n), None, <<>>) \in [result : Seq(Word), error : {None}, message : {<<>>}]
    BY <2>1 DEF ResultCode
  <2> QED BY <2>2, AbsentAssumption
<1> QED BY <1>1, <1>2, <1>3, <1>4

\* The types of the messages.
LEMMA KindTypes ==
  ASSUME NEW kind \in Kinds
  PROVE  /\ MessageType[kind] \in Word /\ MessageType[kind] # 0
         /\ kind \in {"SCCRQ", "SCCRP"} <=> MessageType[kind] \in {1, 2}
         /\ kind = "StopCCN" <=> MessageType[kind] = 4
         /\ kind \in {"ICRQ", "ICRP", "ICCN"} <=> MessageType[kind] \in {10, 11, 12}
         /\ kind = "CDN" <=> MessageType[kind] = 14
<1>1. MessageType[kind] \in Int /\ 1 <= MessageType[kind] /\ MessageType[kind] <= 14
  BY DEF Kinds, MessageType
<1>2. MessageType[kind] \in Word
  BY <1>1, WordIs, SMT
<1> QED BY <1>1, <1>2 DEF Kinds, MessageType

\* A list has every field that the parser of a message type must find.
HasMandatory(list, type) ==
    \A f \in MandatoryFields(type) : \E p : Has(list, p) /\ p[1] = f /\ p[2] # None

\* A builder gives its message those.
LEMMA BodyHas ==
  ASSUME NEW kind \in Kinds, NEW t, TunnelTyped(t), NEW s, kind \in TunnelKinds \/ SessionTyped(s),
         NEW sid, IsNumber(sid), NEW result \in {6, 2}
  PROVE  HasMandatory(BodyFields(kind, t, s, sid, result), MessageType[kind])
<1> SUFFICES ASSUME NEW f \in MandatoryFields(MessageType[kind])
             PROVE  \E p : /\ Has(BodyFields(kind, t, s, sid, result), p)
                           /\ p[1] = f /\ p[2] # None
  BY DEF HasMandatory
<1>1. PICK body : body = BodyFields(kind, t, s, sid, result)
  OBVIOUS
<1>2. \/ kind \in {"SCCRQ", "SCCRP"} /\ f \in {"ROUTER_ID", "ASSIGNED_CONTROL_CONNECTION_ID",
                                               "HOST_NAME", "PSEUDOWIRE_CAPABILITIES_LIST"}
      \/ kind = "StopCCN" /\ f \in {"ASSIGNED_CONTROL_CONNECTION_ID", "RESULT_CODE"}
      \/ kind \in {"ICRQ", "ICRP", "ICCN"} /\ f = "LOCAL_SESSION_ID"
      \/ kind = "CDN" /\ f \in {"LOCAL_SESSION_ID", "RESULT_CODE"}
  BY KindTypes DEF MandatoryFields
<1>3. PICK r \in Seq(Pairs) : r = Result(result)
  BY ResultType
<1>4. PICK pr : pr = <<"RESULT_CODE", ResultCode(Num(result), None, <<>>)>> /\ Has(r, pr)
  <2>1. PICK pr : pr = <<"RESULT_CODE", ResultCode(Num(result), None, <<>>)>>
    OBVIOUS
  <2>2. r = <<pr>>
    BY <1>3, <2>1, Zenon DEF Result
  <2>3. Len(<<pr>>) = 1 /\ <<pr>>[1] = pr /\ 1 \in 1..1
    OBVIOUS
  <2> QED BY <2>1, <2>2, <2>3 DEF Has
<1>5. pr[1] = "RESULT_CODE" /\ pr[2] # None
  <2>1. result \in Word
    BY WordIs, SMT
  <2> QED BY <1>4, <2>1, NotNone
<1>6. CASE kind \in {"SCCRQ", "SCCRP"}
  <2>1. body = SccrxFields(t)
    BY <1>1, <1>6, Zenon DEF BodyFields
  <2>2. PICK p1, p2, p3, p4, p5, p6, p7 :
          /\ p1 = <<"ROUTER_ID", t.router_id>>
          /\ p2 = <<"ASSIGNED_CONTROL_CONNECTION_ID", t.local_ccid>>
          /\ p3 = <<"PSEUDOWIRE_CAPABILITIES_LIST", Capabilities>>
          /\ p4 = <<"HOST_NAME", t.host_name>>
          /\ body = <<p1, p2, p3, p4, p5, p6, p7>>
    BY <2>1, Zenon DEF SccrxFields, Capabilities
  <2>3. Has(body, p1) /\ Has(body, p2) /\ Has(body, p3) /\ Has(body, p4)
    <3>1. /\ Len(body) = 7 /\ body[1] = p1 /\ body[2] = p2 /\ body[3] = p3 /\ body[4] = p4
          /\ {1, 2, 3, 4} \subseteq 1..7
      BY <2>2
    <3> QED BY <3>1, Zenon DEF Has
  <2>4. p1[2] # None /\ p2[2] # None /\ p3[2] # None /\ p4[2] # None
    BY <2>2, NotNone DEF TunnelTyped
  <2>5. /\ p1[1] = "ROUTER_ID" /\ p2[1] = "ASSIGNED_CONTROL_CONNECTION_ID"
        /\ p3[1] = "PSEUDOWIRE_CAPABILITIES_LIST" /\ p4[1] = "HOST_NAME"
    BY <2>2
  <2>6. f \in {"ROUTER_ID", "ASSIGNED_CONTROL_CONNECTION_ID",
               "HOST_NAME", "PSEUDOWIRE_CAPABILITIES_LIST"}
    BY <1>2, <1>6
  <2> QED BY <1>1, <2>3, <2>4, <2>5, <2>6, Zenon
<1>7. CASE kind = "StopCCN"
  <2>1. body = << <<"ASSIGNED_CONTROL_CONNECTION_ID", t.local_ccid>> >> \o r
    BY <1>1, <1>3, <1>7, Zenon DEF BodyFields
  <2>2. "ASSIGNED_CONTROL_CONNECTION_ID" \in DOMAIN Digits
    BY DEF Digits
  <2>3. PICK p \in Pairs : p = <<"ASSIGNED_CONTROL_CONNECTION_ID", t.local_ccid>>
    BY <2>2, NumberPair DEF TunnelTyped
  <2>4. PICK h \in Seq(Pairs) : h = <<p>> /\ Has(h, p)
    <3>1. <<p>> \in Seq(Pairs) /\ Len(<<p>>) = 1 /\ <<p>>[1] = p /\ 1 \in 1..1
      OBVIOUS
    <3> QED BY <3>1 DEF Has
  <2>5. body = h \o r
    BY <2>1, <2>3, <2>4
  <2>6. Has(body, p) /\ Has(body, pr)
    BY <1>4, <2>4, <2>5, HasConcat
  <2>7. p[1] = "ASSIGNED_CONTROL_CONNECTION_ID" /\ p[2] # None
    BY <2>3 DEF TunnelTyped
  <2>8. f \in {"ASSIGNED_CONTROL_CONNECTION_ID", "RESULT_CODE"}
    BY <1>2, <1>7
  <2> QED BY <1>1, <1>5, <2>6, <2>7, <2>8, Zenon
<1>8. CASE kind \in {"ICRQ", "ICRP", "ICCN", "CDN"}
  <2>1. SessionTyped(s)
    BY <1>8 DEF TunnelKinds
  <2>2. IsNumber(Num(0))
    BY SmallWords, NumType
  <2>3. PICK c \in Seq(Pairs), v \in Seq(Pairs), k \in Seq(Pairs) :
          c = Circuit(s) /\ v = Speeds(s) /\ k = Cookie(s)
    BY <2>1, SessionFieldsType
  <2>4. PICK w \in Seq(Pairs), e \in Seq(Pairs) :
          /\ w = << <<"PSEUDOWIRE_TYPE", s.pseudowire_type>> >>
          /\ e = << <<"REMOTE_END_ID", s.name>> >>
    BY <2>1, SessionFieldsType
  <2>5. PICK p : p = <<"LOCAL_SESSION_ID", s.local_sid>>
    OBVIOUS
  <2>6. \A n : Has(SessionIds(s, n), p)
    <3>1. ASSUME NEW n PROVE Has(SessionIds(s, n), p)
      <4>1. PICK q : q = <<"REMOTE_SESSION_ID", n>>
        OBVIOUS
      <4>2. SessionIds(s, n) = <<p, q>>
        BY <2>5, <4>1, Zenon DEF SessionIds
      <4>3. Len(<<p, q>>) = 2 /\ <<p, q>>[1] = p /\ 1 \in 1..2
        OBVIOUS
      <4> QED BY <4>2, <4>3 DEF Has
    <3> QED BY <3>1
  <2>7. PICK i0 \in Seq(Pairs) : i0 = SessionIds(s, Num(0)) /\ Has(i0, p)
    BY <2>1, <2>2, <2>6, SessionFieldsType
  <2>8. PICK i1 \in Seq(Pairs) : i1 = SessionIds(s, sid) /\ Has(i1, p)
    BY <2>1, <2>6, SessionFieldsType
  <2>9. p[1] = "LOCAL_SESSION_ID" /\ p[2] # None
    BY <2>1, <2>5 DEF SessionTyped
  <2>10. \A x, y \in Seq(Pairs) : x \o y \in Seq(Pairs) /\ (Has(x, p) => Has(x \o y, p))
    BY ConcatProperties, HasConcat
  <2>11. Has(body, p)
    <3>1. CASE kind = "ICRQ"
      <4>1. body = i0 \o w \o c \o e \o k \o v
        BY <1>1, <2>3, <2>4, <2>7, <3>1, Zenon DEF BodyFields
      <4> QED BY <2>7, <2>10, <4>1
    <3>2. CASE kind = "ICRP"
      <4>1. body = i1 \o c \o k \o v
        BY <1>1, <2>3, <2>8, <3>2, Zenon DEF BodyFields
      <4> QED BY <2>8, <2>10, <4>1
    <3>3. CASE kind = "ICCN"
      <4>1. body = i1 \o c \o v
        BY <1>1, <2>3, <2>8, <3>3, Zenon DEF BodyFields
      <4> QED BY <2>8, <2>10, <4>1
    <3>4. CASE kind = "CDN"
      <4>1. body = i1 \o r
        BY <1>1, <1>3, <2>8, <3>4, Zenon DEF BodyFields
      <4> QED BY <2>8, <2>10, <4>1
    <3> QED BY <1>8, <3>1, <3>2, <3>3, <3>4
  <2>12. kind = "CDN" => Has(body, pr)
    <3> HAVE kind = "CDN"
    <3>1. body = i1 \o r
      BY <1>1, <1>3, <2>8, Zenon DEF BodyFields
    <3> QED BY <1>4, <3>1, HasConcat
  <2>13. f = "LOCAL_SESSION_ID" \/ (kind = "CDN" /\ f = "RESULT_CODE")
    BY <1>2, <1>8
  <2> QED BY <1>1, <1>5, <2>9, <2>11, <2>12, <2>13, Zenon
<1> QED BY <1>2, <1>6, <1>7, <1>8

\* A message begins with its type, and has what its parser must find.
IsComplete(list) ==
    \E kind \in Kinds :
        /\ Len(list) >= 1 /\ list[1] = <<"MESSAGE_TYPE", Num(MessageType[kind])>>
        /\ \A f \in MandatoryFields(MessageType[kind]) : \E p : Has(list, p) /\ p[1] = f

\* The messages of the state machines are complete.
LEMMA FieldsComplete ==
  ASSUME NEW kind \in Kinds, NEW t, TunnelTyped(t), NEW s, kind \in TunnelKinds \/ SessionTyped(s),
         NEW sid, IsNumber(sid), NEW result \in {6, 2}
  PROVE  IsComplete(Fields(kind, t, s, sid, result))
<1>1. PICK body \in Seq(Pairs) : body = BodyFields(kind, t, s, sid, result)
  BY BodyType
<1>2. PICK n \in Nat : n = Len(body) /\ DOMAIN body = 1..n
  OBVIOUS
<1>3. PICK T : T = Seq(Pairs)
  OBVIOUS
<1> DEFINE Kept(i) == IF body[i][2] = None THEN <<>> ELSE <<body[i]>>
<1>4. ASSUME NEW i \in 1..n PROVE Kept(i) \in T /\ (body[i][2] # None => Has(Kept(i), body[i]))
  <2>1. PICK p \in Pairs : p = body[i]
    BY <1>2
  <2>2. <<>> \in T /\ <<p>> \in T /\ Len(<<p>>) = 1 /\ <<p>>[1] = p /\ 1 \in 1..1
    BY <1>3
  <2>3. CASE body[i][2] = None
    BY <2>2, <2>3
  <2>4. CASE body[i][2] # None
    <3>1. Kept(i) = <<p>>
      BY <2>1, <2>4
    <3> HIDE DEF Kept
    <3> QED BY <2>1, <2>2, <3>1 DEF Has
  <2> QED BY <2>3, <2>4
<1>5. PICK kept : kept = [i \in 1..n |-> Kept(i)]
  OBVIOUS
<1>6. kept \in Lists(Pairs) /\ Len(kept) = n
  <2>1. kept \in [1..n -> T]
    BY <1>4, <1>5
  <2>2. kept \in Seq(T) /\ Len(kept) = n
    BY <2>1, FunctionSeq
  <2> QED BY <1>3, <2>2 DEF Lists
<1>7. PICK rest \in Seq(Pairs) : rest = FlattenSeq(kept)
  BY <1>6, FlattenType
<1>8. PICK m \in Pairs : m = <<"MESSAGE_TYPE", Num(MessageType[kind])>>
  <2>1. AnyNumber(Num(MessageType[kind]))
    BY KindTypes, NumType DEF AnyNumber
  <2>2. "MESSAGE_TYPE" \in DOMAIN Digits
    BY DEF Digits
  <2> QED BY <2>1, <2>2, NumberPair
<1>9. PICK list : list = Fields(kind, t, s, sid, result) /\ list = <<m>> \o rest
  BY <1>1, <1>2, <1>5, <1>7, <1>8, Zenon DEF Fields
<1>10. PICK h \in Seq(Pairs) : h = <<m>> /\ Len(h) = 1 /\ h[1] = m
  <2>1. <<m>> \in Seq(Pairs) /\ Len(<<m>>) = 1 /\ <<m>>[1] = m
    OBVIOUS
  <2> QED BY <2>1, Zenon
<1>11. Len(list) >= 1 /\ list[1] = m
  <2>1. Len(list) = Len(h) + Len(rest) /\ \A i \in 1..Len(h) : list[i] = h[i]
    BY <1>9, <1>10, Concat
  <2> QED BY <1>10, <2>1
<1>12. HasMandatory(body, MessageType[kind])
  BY <1>1, BodyHas
<1>13. ASSUME NEW f \in MandatoryFields(MessageType[kind])
       PROVE  \E p : Has(list, p) /\ p[1] = f
  <2>1. PICK p : Has(body, p) /\ p[1] = f /\ p[2] # None
    BY <1>12, Zenon DEF HasMandatory
  <2>2. PICK j \in 1..n : body[j] = p
    BY <1>2, <2>1 DEF Has
  <2>3. Has(kept[j], p)
    <3>1. Has(Kept(j), body[j])
      BY <1>4, <2>1, <2>2
    <3>2. kept[j] = Kept(j)
      BY <1>5
    <3> HIDE DEF Kept
    <3> QED BY <2>2, <3>1, <3>2
  <2>4. Has(rest, p)
    BY <1>6, <1>7, <2>3, HasFlatten
  <2>5. Has(h \o rest, p)
    BY <2>4, HasConcat
  <2> QED BY <1>9, <1>10, <2>1, <2>5
<1> QED BY <1>8, <1>9, <1>11, <1>13 DEF IsComplete

-----------------------------------------------------------------------------
(* Messages *)

\* The AVPs of a message, before one is signed.
IsBody(avps) ==
    /\ avps \in Seq(Avps)
    /\ \A i \in 1..Len(avps) : ~avps[i].hidden /\ ~IsDigest(avps[i])

\* The builders make no hidden AVP and no Message Digest.
LEMMA BuildAllType ==
  ASSUME NEW list \in Seq(Built), BuildsAll(list)
  PROVE  IsBody(BuildAll(list))
<1>1. PICK n \in Nat : n = Len(list) /\ DOMAIN list = 1..n
  OBVIOUS
<1>2. PICK b : b = BuildAll(list)
  OBVIOUS
<1>3. b = [i \in 1..n |-> build(list[i][1], list[i][2])]
  BY <1>1, <1>2 DEF BuildAll
<1>4. ASSUME NEW i \in 1..n PROVE b[i] \in Avps /\ ~b[i].hidden /\ ~IsDigest(b[i])
  <2>1. PICK p \in Built : p = list[i]
    BY <1>1
  <2>2. PICK f, v :
          f \in DOMAIN AttrType /\ f = p[1] /\ v = p[2] /\ f # "MESSAGE_DIGEST" /\ FieldTyped(f, v)
    BY DEF Built, IsBuilt
  <2>3. builds(f, v)
    BY <1>1, <2>1, <2>2 DEF BuildsAll
  <2>4. b[i] = build(f, v)
    BY <1>3, <2>1, <2>2
  <2>5. /\ b[i] \in Avps /\ ~b[i].hidden
        /\ b[i].attribute_type = AttrType[f]
    BY <2>2, <2>3, <2>4, BuildType
  <2>6. AttrType[f] # AttrType.MESSAGE_DIGEST
    BY <2>2, SMTT(60) DEF AttrType
  <2> QED BY <2>5, <2>6 DEF IsDigest
<1>5. b \in [1..n -> Avps]
  BY <1>3, <1>4
<1>6. b \in Seq(Avps) /\ Len(b) = n
  BY <1>5, FunctionSeq
<1> QED BY <1>2, <1>4, <1>6 DEF IsBody

\* AVPs that can be encoded, and are not hidden, are plain.
LEMMA EncodesPlain ==
  ASSUME NEW avps \in Seq(Avps), NEW rv, \A i \in 1..Len(avps) : ~avps[i].hidden,
         encodes_message(avps, rv)
  PROVE  AllPlain(avps)
<1>1. ASSUME NEW i \in 1..Len(avps) PROVE Plain(avps[i])
  <2>1. avps[i] \in Avps /\ ~avps[i].hidden
    BY ElementOfSeq
  <2>2. PICK n \in Nat : n = Len(avps[i].value)
    <3>1. avps[i].value \in Seq(Byte)
      BY <2>1 DEF Avps
    <3> QED BY <3>1
  <2>3. encodes(avps[i], rv)
    BY DEF encodes_message
  <2>4. 6 + n <= 1023
    BY <2>1, <2>2, <2>3 DEF encodes, value_field
  <2>5. n <= 1017
    BY <2>4
  <2> QED BY <2>1, <2>2, <2>5 DEF Plain
<1> QED BY <1>1 DEF AllPlain

\* A message that can be encoded is a datagram of bytes.
LEMMA MessageBytes ==
  ASSUME NEW hdr, IsHeader(hdr), NEW avps \in Seq(Avps), NEW rv, encodes_message(avps, rv)
  PROVE  encode_message(hdr, avps, rv) \in Seq(Byte)
<1>1. Encodable(avps, rv)
  <2>1. ASSUME NEW i \in 1..Len(avps) PROVE encode(avps[i], rv) \in Seq(Byte)
    <3>1. avps[i] \in Avps
      BY ElementOfSeq
    <3>2. encodes(avps[i], rv)
      BY DEF encodes_message
    <3> QED BY <3>1, <3>2, EncodeType
  <2> QED BY <2>1 DEF Encodable
<1>2. PICK e \in Seq(Byte) : e = EncodeAll(avps, rv)
  BY <1>1, EncodeAllType
<1>3. PICK n \in Nat : n = 12 + Len(e)
  OBVIOUS
<1>4. n <= 65535
  BY <1>2, <1>3 DEF encodes_message
<1>5. PICK h : h = Header(hdr, n) /\ HeaderAs(hdr, n, h)
  BY HeaderBytes
<1>6. h \in Seq(Byte)
  <2>1. h \in Seq(Whole) /\ Len(h) = 12
    BY <1>5 DEF HeaderAs
  <2>2. ASSUME NEW i \in 1..12 PROVE h[i] \in Byte
    <3>1. CASE i \in 1..2
      <4>1. h[1] = 200 /\ h[2] = 3
        BY <1>5 DEF HeaderAs
      <4>2. 200 \in Byte /\ 3 \in Byte
        BY ByteIs, SMT
      <4>3. i \in {1, 2}
        BY <3>1
      <4> QED BY <4>1, <4>2, <4>3
    <3>2. CASE i \in 3..4
      <4>1. n \in Word
        BY <1>4, WordIs
      <4>2. n \div 256 \in Byte /\ n % 256 \in Byte
        BY <4>1, U16Bytes
      <4>3. h[3] = n \div 256 /\ h[4] = n % 256
        BY <1>5 DEF HeaderAs
      <4>4. i \in {3, 4}
        BY <3>2
      <4> QED BY <4>2, <4>3, <4>4
    <3>3. CASE i \in 5..8
      <4>1. PICK j \in 1..4 : i = 4 + j
        <5>1. i - 4 \in 1..4 /\ i = 4 + (i - 4)
          BY <3>3
        <5> QED BY <5>1
      <4>2. h[4 + j] \in Byte
        BY <1>5 DEF HeaderAs
      <4> QED BY <4>1, <4>2
    <3>4. CASE i \in 9..12
      <4>1. /\ hdr.ns \div 256 \in Byte /\ hdr.ns % 256 \in Byte
            /\ hdr.nr \div 256 \in Byte /\ hdr.nr % 256 \in Byte
        BY U16Bytes DEF IsHeader
      <4>2. h[9] \in Byte /\ h[10] \in Byte /\ h[11] \in Byte /\ h[12] \in Byte
        BY <1>5, <4>1 DEF HeaderAs
      <4>3. i \in {9, 10, 11, 12}
        BY <3>4
      <4> QED BY <4>2, <4>3
    <3> QED BY <3>1, <3>2, <3>3, <3>4
  <2>3. h \in [1..12 -> Byte]
    <3>1. h = [i \in 1..12 |-> h[i]]
      BY <2>1
    <3> QED BY <2>2, <3>1
  <2> QED BY <2>3, FunctionSeq
<1>7. encode_message(hdr, avps, rv) = h \o e
  BY <1>2, <1>3, <1>5 DEF encode_message
<1> QED BY <1>6, <1>7, ConcatProperties

\* The Message Digest AVP of a signed message, with its digest and zeroed.
LEMMA DigestType ==
  ASSUME NEW alg \in {0, 1}
  PROVE  /\ Plain(Zeroed(alg)) /\ Plain(Digest(alg, Hmac(alg)))
         /\ IsDigest(Zeroed(alg))
         /\ Digest(alg, Hmac(alg))
              = [ attribute_type |-> AttrType.MESSAGE_DIGEST, vendor_id |-> 0, hidden |-> FALSE,
                  mandatory |-> TRUE, value |-> <<alg>> \o Hmac(alg) ]
<1>1. ASSUME NEW d \in Seq(Byte), Len(d) <= 20
      PROVE  /\ Plain(Digest(alg, d))
             /\ Digest(alg, d) = [ attribute_type |-> AttrType.MESSAGE_DIGEST, vendor_id |-> 0,
                                   hidden |-> FALSE, mandatory |-> TRUE, value |-> <<alg>> \o d ]
  <2>1. PICK v : v = <<alg>> \o d
    OBVIOUS
  <2>2. v \in Seq(Byte) /\ Len(v) <= 1017
    <3>1. PICK a \in Byte : a = alg
      BY ByteIs, SMT
    <3>2. PICK s : s = <<a>>
      OBVIOUS
    <3>3. s \in Seq(Byte) /\ Len(s) = 1
      BY <3>2
    <3>4. v = s \o d
      BY <2>1, <3>1, <3>2
    <3>5. v \in Seq(Byte) /\ Len(v) = Len(s) + Len(d)
      <4>1. s \in Seq(Byte)
        BY <3>3
      <4> QED BY <3>4, <4>1, ConcatProperties
    <3> QED BY <1>1, <3>3, <3>5
  <2>3. PICK f : f = "MESSAGE_DIGEST"
    OBVIOUS
  <2>4. f \notin DOMAIN Digits /\ f # "PSEUDOWIRE_CAPABILITIES_LIST" /\ f # "RESULT_CODE"
    BY <2>3 DEF Digits
  <2>5. (CASE f \in DOMAIN Digits -> pack(v, Digits[f])
           [] f = "PSEUDOWIRE_CAPABILITIES_LIST" ->
                 FlattenSeq([i \in DOMAIN v |-> pack(v[i], 1)])
           [] f = "RESULT_CODE" ->
                 pack(v.result, 1) \o
                 (IF v.error = None THEN <<>> ELSE pack(v.error, 1) \o v.message)
           [] OTHER -> v) = v
    BY <2>4, Zenon
  <2>6. f \notin NotMandatory
    BY <2>3 DEF NotMandatory
  <2>7. Digest(alg, d) = build(f, v)
    BY <2>1, <2>3 DEF Digest
  <2>8. build(f, v) = [ attribute_type |-> AttrType[f], vendor_id |-> 0,
                        hidden |-> FALSE, mandatory |-> TRUE, value |-> v ]
    BY <2>5, <2>6 DEF build
  <2>9. AttrType[f] \in Word /\ 0 \in Word
    <3>1. AttrType[f] = 59
      BY <2>3 DEF AttrType
    <3> QED BY <3>1, WordIs, SMT
  <2>10. build(f, v) \in Avps /\ ~build(f, v).hidden /\ build(f, v).value = v
    BY <2>2, <2>8, <2>9 DEF Avps
  <2>11. Plain(build(f, v))
    BY <2>2, <2>10 DEF Plain
  <2> QED BY <2>1, <2>3, <2>7, <2>8, <2>11
<1>2. PICK k \in {16, 20} : k = digest_size(alg)
  BY DEF digest_size
<1>3. 0 \in Byte /\ 255 \in Byte /\ k \in Nat /\ k <= 20
  BY ByteIs, SMT
<1>4. PICK z : z = [i \in 1..k |-> 0]
  OBVIOUS
<1>5. z \in Seq(Byte) /\ Len(z) = k
  BY <1>3, <1>4, FunctionSeq
<1>6. PICK h : h = [i \in 1..k |-> 255]
  OBVIOUS
<1>7. h \in Seq(Byte) /\ Len(h) = k
  BY <1>3, <1>6, FunctionSeq
<1>8. Zeroed(alg) = Digest(alg, z) /\ Hmac(alg) = h
  BY <1>2, <1>4, <1>6 DEF Zeroed, Hmac
<1>9. IsDigest(Zeroed(alg))
  BY <1>1, <1>3, <1>5, <1>8 DEF IsDigest
<1> QED BY <1>1, <1>3, <1>5, <1>7, <1>8, <1>9

-----------------------------------------------------------------------------
(* The inductive invariant *)

\* The receiver has begun to decode.
Begun == got # None \/ stage \in {"decoding", "verified", "malformed", "accepted"}

\* The AVPs of g that are not hidden are plain; without hidden ones they are
\* the bytes of b up to the position.
Decoded(g, b) ==
    /\ IsHeader(g.hdr)
    /\ g.pos \in Nat /\ 12 <= g.pos /\ g.pos <= Len(b)
    /\ g.avps \in Seq(Avps)
    /\ \A i \in 1..Len(g.avps) : ~g.avps[i].hidden => Plain(g.avps[i])
    /\ AllPlain(g.avps) =>
        Header(g.hdr, Len(b)) \o EncodeAll(g.avps, None) = SubSeq(b, 1, g.pos)

\* The keys of got.
IsGot(g) ==
    \E h, p, r, a, f : g = [hdr |-> h, pos |-> p, rv |-> r, avps |-> a, fields |-> f]

DecodeInv ==
    /\ stage \in Stages
    /\ doc \in Documents
    /\ \A i \in DOMAIN cfg : TunnelTyped(cfg[i])
    /\ buf \in Seq(Byte)
    /\ stage \in {"start", "rejected", "configured", "sent", "damaged"} => got = None
    /\ Begun => IsGot(got) /\ Decoded(got, buf)

\* A round of decode_sequence: the AVP is added, and so are its bytes.
LEMMA DecodeRound ==
  ASSUME NEW b \in Seq(Byte), NEW g, Decoded(g, b), NEW rv, decodes_one(b, g.pos, rv),
         NEW a, a = decode_one(b, g.pos, rv),
         NEW h, h.hdr = g.hdr, h.pos = g.pos + TotalLen(b, g.pos), h.avps = Append(g.avps, a)
  PROVE  Decoded(h, b)
<1>1. PICK avps \in Seq(Avps), pos \in Nat, hdr \in {g.hdr} :
        avps = g.avps /\ pos = g.pos /\ hdr = g.hdr
  BY DEF Decoded
<1>2. PICK len \in Nat : len = Len(b)
  OBVIOUS
<1>3. 12 <= pos /\ pos <= len
  BY <1>1, <1>2 DEF Decoded
<1>4. a \in Avps
  BY <1>1, DecodeType
<1>5. PICK total \in Nat : total = TotalLen(b, pos) /\ total >= 6 /\ pos + total <= len
  BY <1>1, <1>2, DecodeType
<1>6. PICK more \in Seq(Avps) : more = Append(avps, a)
  BY <1>4, AppendProperties
<1>7. PICK n \in Nat : n = Len(avps)
  OBVIOUS
<1>8. /\ Len(more) = n + 1 /\ more[n + 1] = a
      /\ \A i \in 1..n : more[i] = avps[i]
  BY <1>6, <1>7
<1>9. ~a.hidden => Plain(a)
  BY <1>1, EncodeDecoded
<1>10. ASSUME NEW i \in 1..Len(more), ~more[i].hidden PROVE Plain(more[i])
  <2>1. CASE i = n + 1
    BY <1>8, <1>9, <1>10, <2>1
  <2>2. CASE i # n + 1
    <3>1. i \in 1..n
      BY <1>8, <2>2
    <3> QED BY <1>1, <1>7, <1>8, <1>10, <3>1 DEF Decoded
  <2> QED BY <2>1, <2>2
<1>11. ASSUME AllPlain(more)
       PROVE  Header(hdr, len) \o EncodeAll(more, None) = SubSeq(b, 1, pos + total)
  <2>1. Plain(a)
    <3>1. n + 1 \in 1..Len(more)
      BY <1>8
    <3> QED BY <1>8, <1>11, <3>1 DEF AllPlain
  <2>2. AllPlain(avps)
    <3>1. ASSUME NEW i \in 1..n PROVE Plain(avps[i])
      <4>1. i \in 1..Len(more)
        BY <1>8
      <4> QED BY <1>8, <1>11, <4>1 DEF AllPlain
    <3> QED BY <1>7, <3>1 DEF AllPlain
  <2>3. Header(hdr, len) \o EncodeAll(avps, None) = SubSeq(b, 1, pos)
    BY <1>1, <1>2, <2>2 DEF Decoded
  <2>4. ~a.hidden
    BY <2>1 DEF Plain
  <2>5. PICK e \in Seq(Byte) : e = encode(a, None) /\ e = SubSeq(b, pos + 1, pos + total)
    <3>1. decodes_one(b, pos, rv) /\ a = decode_one(b, pos, rv)
      BY <1>1
    <3>2. encode(a, None) = SubSeq(b, pos + 1, pos + TotalLen(b, pos))
      BY <2>4, <3>1, EncodeDecoded
    <3>3. encode(a, None) = SubSeq(b, pos + 1, pos + total)
      BY <1>5, <3>2
    <3>4. EncodedAs(a, encode(a, None))
      BY <2>1, EncodeBytes
    <3> QED BY <3>3, <3>4 DEF EncodedAs
  <2>6. PICK x \in Seq(Byte) : x = EncodeAll(avps, None)
    BY <2>2, PlainEncodable, EncodeAllType
  <2>7. EncodeAll(more, None) = x \o e
    BY <1>4, <1>6, <2>2, <2>5, <2>6, PlainEncodable, EncodeAllAppend
  <2>8. PICK y : y = Header(hdr, len)
    OBVIOUS
  <2>9. y \in Seq(Whole) /\ x \in Seq(Whole) /\ e \in Seq(Whole)
    <3>1. HeaderAs(hdr, len, y)
      BY <1>1, <2>8, HeaderBytes DEF Decoded
    <3>2. Byte \subseteq Whole
      BY ByteIs DEF Whole
    <3> QED BY <3>1, <3>2, SeqMonotonic DEF HeaderAs
  <2>10. y \o (x \o e) = (y \o x) \o e
    <3>1. PICK y1 \in Seq(Whole), x1 \in Seq(Whole), e1 \in Seq(Whole) :
            y1 = y /\ x1 = x /\ e1 = e
      BY <2>9
    <3>2. y1 \o (x1 \o e1) = (y1 \o x1) \o e1
      BY Associative, Zenon
    <3> QED BY <3>1, <3>2
  <2>11. SubSeq(b, 1, pos + total) = SubSeq(b, 1, pos) \o e
    <3>1. PICK s, t, u : s = SubSeq(b, 1, pos) /\ t = SubSeq(b, 1, pos + total) /\ u = s \o e
      OBVIOUS
    <3>2. PICK q \in Nat : q = pos + total /\ q <= len
      BY <1>5
    <3>3. s \in Seq(Byte) /\ Len(s) = pos /\ \A i \in 1..pos : s[i] = b[i]
      <4>1. /\ 1 \in Int /\ pos \in Int /\ 1 <= 1 /\ 1 <= pos + 1 /\ pos <= Len(b)
            /\ pos - 1 + 1 = pos /\ \A i \in 1..pos : 1 + i - 1 = i
        BY <1>2, <1>3
      <4>2. /\ s \in Seq(Byte) /\ Len(s) = pos - 1 + 1
            /\ \A i \in 1..(pos - 1 + 1) : s[i] = b[1 + i - 1]
        BY <3>1, <4>1, PartOf
      <4> QED BY <4>1, <4>2
    <3>4. t \in Seq(Byte) /\ Len(t) = q /\ \A i \in 1..q : t[i] = b[i]
      <4>1. /\ 1 \in Int /\ q \in Int /\ 1 <= 1 /\ 1 <= q + 1 /\ q <= Len(b)
            /\ q - 1 + 1 = q /\ \A i \in 1..q : 1 + i - 1 = i
        BY <1>2, <3>2
      <4>2. t = SubSeq(b, 1, q)
        BY <3>1, <3>2
      <4>3. /\ t \in Seq(Byte) /\ Len(t) = q - 1 + 1
            /\ \A i \in 1..(q - 1 + 1) : t[i] = b[1 + i - 1]
        BY <4>1, <4>2, PartOf
      <4> QED BY <4>1, <4>3
    <3>5. Len(e) = total /\ \A i \in 1..total : e[i] = b[pos + i]
      <4>1. /\ pos + 1 \in Int /\ pos + total \in Int /\ 1 <= pos + 1
            /\ pos + 1 <= pos + total + 1 /\ pos + total <= Len(b)
            /\ pos + total - (pos + 1) + 1 = total
        <5>1. pos + total <= Len(b)
          BY <1>2, <1>5
        <5> QED BY <5>1, SMT
      <4>2. \A i \in 1..total : pos + 1 + i - 1 = pos + i
        OBVIOUS
      <4>3. /\ Len(e) = pos + total - (pos + 1) + 1
            /\ \A i \in 1..(pos + total - (pos + 1) + 1) : e[i] = b[pos + 1 + i - 1]
        BY <2>5, <4>1, PartOf
      <4> QED BY <4>1, <4>2, <4>3
    <3>6. /\ u \in Seq(Byte) /\ Len(u) = Len(s) + Len(e)
          /\ \A i \in 1..Len(s) : u[i] = s[i]
          /\ \A i \in 1..Len(e) : u[Len(s) + i] = e[i]
      BY <3>1, <3>3, Concat
    <3>7. Len(u) = q
      BY <3>2, <3>3, <3>5, <3>6
    <3>8. ASSUME NEW i \in 1..q PROVE t[i] = u[i]
      <4>1. CASE i <= pos
        <5>1. i \in 1..pos
          BY <4>1
        <5> QED BY <3>3, <3>4, <3>6, <5>1
      <4>2. CASE i > pos
        <5>1. PICK j \in 1..total : i = pos + j
          <6>1. i - pos \in 1..total /\ i = pos + (i - pos)
            BY <3>2, <4>2
          <6> QED BY <6>1
        <5>2. u[i] = e[j]
          BY <3>3, <3>5, <3>6, <5>1
        <5> QED BY <3>4, <3>5, <5>1, <5>2
      <4> QED BY <4>1, <4>2
    <3>9. t = u
      BY <3>4, <3>6, <3>7, <3>8, SeqEqual
    <3> QED BY <3>1, <3>9
  <2> QED BY <2>3, <2>6, <2>7, <2>8, <2>10, <2>11
<1>12. pos + total \in Nat /\ 12 <= pos + total /\ pos + total <= Len(b)
  BY <1>2, <1>3, <1>5
<1>13. h.hdr = hdr /\ h.pos = pos + total /\ h.avps = more
  BY <1>1, <1>5, <1>6
<1>14. IsHeader(hdr)
  BY <1>1 DEF Decoded
<1> QED BY <1>2, <1>10, <1>11, <1>12, <1>13, <1>14 DEF Decoded

\* The header of every message.
MessageHeader(t) == [ccid |-> t.remote_ccid, ns |-> Ns, nr |-> Nr]

\* Its fields have their width.
LEMMA MessageHeaderType ==
  ASSUME NEW t, TunnelTyped(t)
  PROVE  IsHeader(MessageHeader(t))
<1>1. HeaderKeys(MessageHeader(t))
  BY DEF HeaderKeys, MessageHeader
<1> QED BY <1>1, WireAssumption DEF IsHeader, MessageHeader, TunnelTyped

\* A datagram leaves.
LEMMA TransmitStep ==
  ASSUME DecodeInv, stage = "configured", NEW t, TunnelTyped(t), NEW list, NEW avps \in Seq(Avps),
         NEW key, encodes_message(avps, key), NEW mac, Transmit(t, list, avps, key, mac)
  PROVE  DecodeInv'
<1>1. buf' = encode_message(MessageHeader(t), avps, key)
  BY DEF Transmit, MessageHeader
<1>2. buf' \in Seq(Byte)
  BY <1>1, MessageHeaderType, MessageBytes
<1>3. stage' = "sent" /\ UNCHANGED <<doc, cfg, got>>
  BY DEF Transmit
<1>4. got = None
  BY DEF DecodeInv
<1>5. ~Begun'
  BY <1>3, <1>4 DEF Begun
<1>6. stage' \in Stages
  BY <1>3 DEF Stages
<1> QED BY <1>2, <1>3, <1>4, <1>5, <1>6 DEF DecodeInv

\* The AVPs of a message that is sent, and the digest that covers it.
LEMMA SendAvps ==
  ASSUME NEW t, TunnelTyped(t), NEW list \in Seq(Built), BuildsAll(list),
         NEW avps, avps = IF t.password = None THEN BuildAll(list)
                          ELSE Signed(t.digest_alg, BuildAll(list)),
         encodes_message(avps, None)
  PROVE  AllPlain(avps)
<1>1. PICK built \in Seq(Avps) : built = BuildAll(list) /\ IsBody(built)
  BY BuildAllType DEF IsBody
<1>2. CASE t.password = None
  BY <1>1, <1>2, EncodesPlain DEF IsBody
<1>3. CASE t.password # None
  <2>1. PICK d : d = Digest(t.digest_alg, Hmac(t.digest_alg)) /\ Plain(d)
    BY DigestType DEF TunnelTyped
  <2>2. avps = Append(built, d)
    BY <1>1, <1>3, <2>1 DEF Signed
  <2>3. d \in Avps /\ ~d.hidden
    BY <2>1 DEF Plain
  <2>4. PICK n \in Nat : n = Len(built)
    OBVIOUS
  <2>5. /\ avps \in Seq(Avps) /\ Len(avps) = n + 1 /\ avps[n + 1] = d
        /\ \A i \in 1..n : avps[i] = built[i]
    BY <2>2, <2>3, <2>4, SMTT(60)
  <2>6. ASSUME NEW i \in 1..Len(avps) PROVE ~avps[i].hidden
    <3>1. CASE i = n + 1
      BY <2>3, <2>5, <3>1
    <3>2. CASE i # n + 1
      <4>1. i \in 1..n
        BY <2>5, <3>2
      <4> QED BY <1>1, <2>4, <2>5, <4>1 DEF IsBody
    <3> QED BY <3>1, <3>2
  <2> QED BY <2>5, <2>6, EncodesPlain
<1> QED BY <1>2, <1>3

\* Tunnel._send: an exception, or a datagram leaves.
LEMMA SendStep ==
  ASSUME DecodeInv, NEW t, TunnelTyped(t), NEW list \in Seq(Built), Send(t, list)
  PROVE  DecodeInv'
<1>1. PICK avps : avps = IF t.password = None THEN BuildAll(list)
                         ELSE Signed(t.digest_alg, BuildAll(list))
  OBVIOUS
<1>2. stage = "configured"
  BY DEF Send
<1>3. CASE ~BuildsAll(list) \/ ~encodes_message(avps, None)
  <2>1. stage' = "raised" /\ UNCHANGED <<doc, cfg, table, sent, rx, buf, got>>
    BY <1>1, <1>3 DEF Send
  <2>2. got = None
    BY <1>2 DEF DecodeInv
  <2>3. ~Begun' /\ stage' \in Stages
    BY <2>1, <2>2 DEF Begun, Stages
  <2> QED BY <2>1, <2>3 DEF DecodeInv
<1>4. CASE BuildsAll(list) /\ encodes_message(avps, None)
  <2>1. PICK mac : Transmit(t, list, avps, None, mac)
    BY <1>1, <1>4 DEF Send
  <2>2. avps \in Seq(Avps)
    BY <1>1, <1>4, SendAvps DEF AllPlain
  <2> QED BY <1>2, <1>4, <2>1, <2>2, TransmitStep
<1> QED BY <1>3, <1>4

\* A message of a tunnel or of a session has fields that can be built, and all
\* that its parser must find.
LEMMA SendCases ==
  ASSUME DecodeInv, SendTunnel \/ SendSession
  PROVE  \E t, list : TunnelTyped(t) /\ list \in Seq(Built) /\ IsComplete(list) /\ Send(t, list)
<1>1. IsNumber(PeerSid)
  BY WireAssumption
<1>2. CASE SendTunnel
  <2>1. PICK i \in DOMAIN cfg, kind \in TunnelKinds, result \in {6, 2} :
          Send(cfg[i], Fields(kind, cfg[i], None, PeerSid, result))
    BY <1>2 DEF SendTunnel
  <2>2. TunnelTyped(cfg[i])
    BY DEF DecodeInv
  <2>3. kind \in Kinds
    BY DEF TunnelKinds, Kinds, MessageType
  <2>4. Fields(kind, cfg[i], None, PeerSid, result) \in Seq(Built)
    BY <1>1, <2>2, <2>3, FieldsType
  <2>5. IsComplete(Fields(kind, cfg[i], None, PeerSid, result))
    BY <1>1, <2>2, <2>3, FieldsComplete
  <2> QED BY <2>1, <2>2, <2>4, <2>5
<1>3. CASE SendSession
  <2>1. PICK i \in DOMAIN cfg, kind \in Kinds \ TunnelKinds, result \in {6, 2} :
          \E j \in DOMAIN cfg[i].sessions :
              Send(cfg[i], Fields(kind, cfg[i], cfg[i].sessions[j], PeerSid, result))
    BY <1>3 DEF SendSession
  <2>2. PICK j \in DOMAIN cfg[i].sessions :
          Send(cfg[i], Fields(kind, cfg[i], cfg[i].sessions[j], PeerSid, result))
    BY <2>1
  <2>3. TunnelTyped(cfg[i])
    BY DEF DecodeInv
  <2>4. SessionTyped(cfg[i].sessions[j])
    BY <2>3 DEF TunnelTyped
  <2>5. Fields(kind, cfg[i], cfg[i].sessions[j], PeerSid, result) \in Seq(Built)
    BY <1>1, <2>3, <2>4, FieldsType
  <2>6. IsComplete(Fields(kind, cfg[i], cfg[i].sessions[j], PeerSid, result))
    BY <1>1, <2>3, <2>4, FieldsComplete
  <2> QED BY <2>2, <2>3, <2>5, <2>6
<1> QED BY <1>2, <1>3

\* A ZLB can be encoded.
LEMMA EmptyEncodes ==
  /\ <<>> \in Seq(Avps) /\ encodes_message(<<>>, None)
  /\ EncodeAll(<<>>, None) = <<>>
<1>1. PICK e : e = [i \in DOMAIN <<>> |-> encode(<<>>[i], None)]
  OBVIOUS
<1>2. e = <<>>
  BY <1>1
<1>3. EncodeAll(<<>>, None) = <<>>
  BY <1>1, <1>2, FlattenEmpty DEF EncodeAll
<1>4. <<>> \in Seq(Avps)
  OBVIOUS
<1> QED BY <1>3, <1>4 DEF encodes_message

\* A ZLB leaves.
LEMMA SendAckStep ==
  ASSUME DecodeInv, SendAck
  PROVE  DecodeInv'
<1>1. PICK i \in DOMAIN cfg : Transmit(cfg[i], <<>>, <<>>, None, NoMac)
  BY DEF SendAck
<1>2. stage = "configured" /\ TunnelTyped(cfg[i])
  BY DEF SendAck, DecodeInv
<1> QED BY <1>1, <1>2, EmptyEncodes, TransmitStep

\* The AVPs of a message with a hidden one.
LEMMA HiddenAvps ==
  ASSUME NEW t, TunnelTyped(t)
  PROVE  << build("MESSAGE_TYPE", Num(MessageType.HELLO)), build("RANDOM_VECTOR", RandomVector),
            [build("HOST_NAME", t.host_name) EXCEPT !.hidden = TRUE] >> \in Seq(Avps)
<1>1. build("MESSAGE_TYPE", Num(MessageType.HELLO)) \in Avps
  <2>1. PICK f, v : f = "MESSAGE_TYPE" /\ v = Num(6)
    OBVIOUS
  <2>2. f \in DOMAIN AttrType /\ f \in DOMAIN Digits /\ Digits[f] = 1
    BY <2>1 DEF AttrType, Digits
  <2>3. IsNumber(v) /\ Len(v) <= 1
    <3>1. 6 \in Word
      BY WordIs, SMT
    <3> QED BY <2>1, <3>1, NumType
  <2>4. v \notin {None, Negative}
    BY <2>3, NotNumbers DEF IsNumber
  <2>5. Fits(v, Digits[f])
    BY <2>2, <2>3, <2>4 DEF Fits
  <2>6. f \notin {"PSEUDOWIRE_CAPABILITIES_LIST", "ASSIGNED_COOKIE", "CTL_MSG_AUTH_NONCE",
                  "RANDOM_VECTOR", "RESULT_CODE"}
    BY <2>1
  <2>7. builds(f, v)
    BY <2>2, <2>5, <2>6, Zenon DEF builds
  <2>8. FieldTyped(f, v)
    BY <2>2, <2>3 DEF FieldTyped
  <2>9. MessageType.HELLO = 6
    BY DEF MessageType
  <2> QED BY <2>1, <2>2, <2>7, <2>8, <2>9, BuildType
<1>2. build("RANDOM_VECTOR", RandomVector) \in Avps
  <2>1. PICK f : f = "RANDOM_VECTOR"
    OBVIOUS
  <2>2. f \in DOMAIN AttrType /\ f \notin DOMAIN Digits
    BY <2>1 DEF AttrType, Digits
  <2>3. f \notin {"PSEUDOWIRE_CAPABILITIES_LIST", "ASSIGNED_COOKIE", "CTL_MSG_AUTH_NONCE",
                  "RESULT_CODE"}
    BY <2>1
  <2>4. Len(RandomVector) >= 16 /\ RandomVector \in Seq(Byte)
    BY WireAssumption
  <2>5. builds(f, RandomVector)
    BY <2>1, <2>2, <2>3, <2>4, Zenon DEF builds
  <2>6. FieldTyped(f, RandomVector)
    BY <2>2, <2>3, <2>4 DEF FieldTyped
  <2> QED BY <2>1, <2>2, <2>5, <2>6, BuildType
<1>3. [build("HOST_NAME", t.host_name) EXCEPT !.hidden = TRUE] \in Avps
  <2>1. PICK f : f = "HOST_NAME"
    OBVIOUS
  <2>2. f \in DOMAIN AttrType /\ f \notin DOMAIN Digits
    BY <2>1 DEF AttrType, Digits
  <2>3. f \notin {"PSEUDOWIRE_CAPABILITIES_LIST", "ASSIGNED_COOKIE", "CTL_MSG_AUTH_NONCE",
                  "RANDOM_VECTOR", "RESULT_CODE"}
    BY <2>1
  <2>4. builds(f, t.host_name)
    BY <2>2, <2>3, Zenon DEF builds
  <2>5. FieldTyped(f, t.host_name)
    BY <2>2, <2>3 DEF FieldTyped, TunnelTyped
  <2>6. PICK a \in Avps : a = build(f, t.host_name)
    BY <2>2, <2>4, <2>5, BuildType
  <2>7. [a EXCEPT !.hidden = TRUE] \in Avps
    BY DEF Avps
  <2> QED BY <2>1, <2>6, <2>7
<1>4. PICK a \in Avps, b \in Avps, c \in Avps :
        /\ a = build("MESSAGE_TYPE", Num(MessageType.HELLO))
        /\ b = build("RANDOM_VECTOR", RandomVector)
        /\ c = [build("HOST_NAME", t.host_name) EXCEPT !.hidden = TRUE]
  BY <1>1, <1>2, <1>3
<1>5. <<a, b, c>> \in Seq(Avps)
  OBVIOUS
<1> QED BY <1>4, <1>5, Zenon

\* Sending a message with a hidden AVP.
LEMMA SendHiddenStep ==
  ASSUME DecodeInv, SendHidden
  PROVE  DecodeInv'
<1>1. PICK i \in DOMAIN cfg :
        LET list == << build("MESSAGE_TYPE", Num(MessageType.HELLO)),
                       build("RANDOM_VECTOR", RandomVector),
                       [build("HOST_NAME", cfg[i].host_name) EXCEPT !.hidden = TRUE] >>
        IN  /\ stage = "configured"
            /\ encodes_message(list, RandomVector)
            /\ Transmit(cfg[i], None, list, RandomVector, NoMac)
  BY DEF SendHidden
<1>2. TunnelTyped(cfg[i])
  BY DEF DecodeInv
<1> QED BY <1>1, <1>2, HiddenAvps, TransmitStep

\* Loading the file.
LEMMA LoadStep ==
  ASSUME DecodeInv, Load
  PROVE  DecodeInv'
<1>1. got = None /\ doc \in Documents
  BY DEF DecodeInv, Load
<1>2. UNCHANGED <<doc, sent, rx, buf, got>> /\ stage' \in {"configured", "rejected"}
  BY DEF Load
<1>3. ~Begun'
  BY <1>1, <1>2 DEF Begun
<1>4. \A i \in DOMAIN cfg' : TunnelTyped(cfg'[i])
  <2>1. CASE parses_document(doc)
    <3>1. cfg' = parse_document(doc)
      BY <2>1 DEF Load
    <3>2. IsDocument(doc)
      BY <1>1, WireAssumption
    <3> QED BY <2>1, <3>1, <3>2, LoadType
  <2>2. CASE ~parses_document(doc)
    BY <2>2 DEF Load, DecodeInv
  <2> QED BY <2>1, <2>2
<1>5. stage' \in Stages
  BY <1>2 DEF Stages
<1> QED BY <1>1, <1>2, <1>3, <1>4, <1>5 DEF DecodeInv

\* The network damages the datagram, but not into something else than bytes.
LEMMA DamageStep ==
  ASSUME DecodeInv, Flip \/ Truncate
  PROVE  DecodeInv'
<1>1. /\ stage = "sent" /\ stage' = "damaged"
      /\ UNCHANGED <<doc, cfg, table, sent, rx, got>>
  BY DEF Flip, Truncate
<1>2. got = None /\ buf \in Seq(Byte)
  BY <1>1 DEF DecodeInv
<1>3. buf' \in Seq(Byte)
  <2>1. CASE Flip
    <3>1. PICK i \in DOMAIN buf : \E m : buf' = [buf EXCEPT ![i] = Xor(@, m)]
      BY <2>1 DEF Flip
    <3>2. PICK x \in Byte : buf' = [buf EXCEPT ![i] = x]
      BY <3>1, XorByte
    <3> QED BY <1>2, <3>2, ExceptSeq
  <2>2. CASE Truncate
    <3>1. PICK n \in 0..(Len(buf) - 1) : buf' = SubSeq(buf, 1, n)
      BY <2>2 DEF Truncate
    <3>2. 1 \in Int /\ n \in Int /\ 1 <= 1 /\ 1 <= n + 1 /\ n <= Len(buf)
      BY <1>2
    <3> QED BY <1>2, <3>1, <3>2, PartOf
  <2> QED BY <2>1, <2>2
<1>4. ~Begun' /\ stage' \in Stages
  BY <1>1, <1>2 DEF Begun, Stages
<1> QED BY <1>1, <1>2, <1>3, <1>4 DEF DecodeInv

\* The receiver reads the header.
LEMMA DecodeHeaderStep ==
  ASSUME DecodeInv, DecodeHeader
  PROVE  DecodeInv'
<1>1. got = None /\ buf \in Seq(Byte) /\ UNCHANGED <<doc, cfg, table, sent, rx, buf>>
  BY DEF DecodeInv, DecodeHeader
<1>2. CASE ~decodes_header(buf)
  <2>1. stage' = "dropped" /\ got' = None
    BY <1>1, <1>2 DEF DecodeHeader
  <2>2. ~Begun' /\ stage' \in Stages
    BY <2>1 DEF Begun, Stages
  <2> QED BY <1>1, <2>1, <2>2 DEF DecodeInv
<1>3. CASE decodes_header(buf)
  <2>1. PICK h : h = decode_header(buf)
    OBVIOUS
  <2>2. /\ got' = [hdr |-> h, pos |-> 12, rv |-> None, avps |-> <<>>, fields |-> None]
        /\ stage' = "decoding"
    BY <1>3, <2>1 DEF DecodeHeader
  <2>3. IsGot(got')
    BY <2>2 DEF IsGot
  <2>4. /\ IsHeader(h) /\ Len(buf) >= 12
        /\ Header(h, Len(buf)) = SubSeq(buf, 1, 12)
    BY <1>1, <1>3, <2>1, HeaderDecoded
  <2>5. EncodeAll(<<>>, None) = <<>>
    BY EmptyEncodes
  <2>6. Header(h, Len(buf)) \o <<>> = SubSeq(buf, 1, 12)
    <3>1. PICK x : x = Header(h, Len(buf))
      OBVIOUS
    <3>2. x \in Seq(Whole)
      <4>1. Len(buf) \in Nat
        BY <1>1
      <4>2. HeaderAs(h, Len(buf), x)
        BY <2>4, <3>1, <4>1, HeaderBytes
      <4> QED BY <4>2 DEF HeaderAs
    <3>3. x \o <<>> = x
      BY <3>2, ConcatEmptySeq
    <3> QED BY <2>4, <3>1, <3>3
  <2>7. Decoded(got', buf)
    <3>1. <<>> \in Seq(Avps) /\ Len(<<>>) = 0
      OBVIOUS
    <3>2. /\ got'.hdr = h /\ got'.pos = 12 /\ got'.avps = <<>>
      BY <2>2
    <3>3. \A i \in 1..Len(got'.avps) : ~got'.avps[i].hidden => Plain(got'.avps[i])
      BY <3>1, <3>2
    <3>4. got'.pos \in Nat /\ 12 <= got'.pos /\ got'.pos <= Len(buf)
      BY <2>4, <3>2
    <3>5. got'.avps \in Seq(Avps)
      BY <3>1, <3>2
    <3>6. Header(got'.hdr, Len(buf)) \o EncodeAll(got'.avps, None) = SubSeq(buf, 1, got'.pos)
      BY <2>5, <2>6, <3>2
    <3> QED BY <2>4, <3>2, <3>3, <3>4, <3>5, <3>6 DEF Decoded
  <2>8. stage' \in Stages
    BY <2>2 DEF Stages
  <2> QED BY <1>1, <2>2, <2>3, <2>7, <2>8 DEF DecodeInv
<1> QED BY <1>2, <1>3

\* The receiver reads one more AVP.
LEMMA DecodeAvpStep ==
  ASSUME DecodeInv, DecodeAvp
  PROVE  DecodeInv'
<1>1. /\ stage = "decoding" /\ buf \in Seq(Byte) /\ UNCHANGED <<doc, cfg, table, sent, rx, buf>>
      /\ IsGot(got) /\ Decoded(got, buf)
  BY DEF DecodeInv, DecodeAvp, Begun
<1>2. PICK key : key = IF sent.key = None THEN None ELSE got.rv
  OBVIOUS
<1>3. CASE ~decodes_one(buf, got.pos, key)
  <2>1. stage' = "dropped" /\ got' = got
    BY <1>2, <1>3 DEF DecodeAvp
  <2>2. stage' \in Stages
    BY <2>1 DEF Stages
  <2> QED BY <1>1, <2>1, <2>2 DEF DecodeInv
<1>4. CASE decodes_one(buf, got.pos, key)
  <2>1. PICK a : a = decode_one(buf, got.pos, key)
    OBVIOUS
  <2>2. PICK h, p, r, s, f :
          got = [hdr |-> h, pos |-> p, rv |-> r, avps |-> s, fields |-> f]
    BY <1>1 DEF IsGot
  <2>3. PICK v : got' = [hdr |-> h, pos |-> p + TotalLen(buf, p), rv |-> v,
                         avps |-> Append(s, a), fields |-> f]
    <3>1. PICK v : v = IF find_avp(<<a>>, "RANDOM_VECTOR") = None THEN got.rv ELSE a.value
      OBVIOUS
    <3>2. got' = [got EXCEPT !.pos  = @ + TotalLen(buf, got.pos),
                             !.avps = Append(@, a), !.rv = v]
      BY <1>2, <1>4, <2>1, <3>1 DEF DecodeAvp
    <3> QED BY <2>2, <3>2
  <2>4. stage' = stage
    BY <1>2, <1>4 DEF DecodeAvp
  <2>5. IsGot(got')
    BY <2>3 DEF IsGot
  <2>6. /\ got'.hdr = got.hdr /\ got'.pos = got.pos + TotalLen(buf, got.pos)
        /\ got'.avps = Append(got.avps, a)
    BY <2>2, <2>3
  <2>7. Decoded(got', buf)
    BY <1>1, <1>4, <2>1, <2>6, DecodeRound
  <2>8. stage' \in Stages
    BY <1>1, <2>4 DEF Stages
  <2>9. stage' \notin {"start", "rejected", "configured", "sent", "damaged"}
    BY <1>1, <2>4
  <2> QED BY <1>1, <2>4, <2>5, <2>7, <2>8, <2>9 DEF DecodeInv
<1> QED BY <1>3, <1>4

\* Verification leaves what was decoded, and the parser adds the fields.
LEMMA ReadStep ==
  ASSUME DecodeInv, Verify \/ Parse
  PROVE  DecodeInv'
<1>1. /\ stage \in {"decoding", "verified"} /\ buf \in Seq(Byte)
      /\ IsGot(got) /\ Decoded(got, buf)
  BY DEF DecodeInv, Verify, Parse, Begun
<1>2. UNCHANGED <<doc, cfg, buf>>
  BY DEF Verify, Parse
<1>3. stage' \in {"verified", "dropped", "raised", "malformed", "accepted"}
  BY DEF Verify, Parse
<1>4. IsGot(got') /\ Decoded(got', buf)
  <2>1. CASE got' = got
    BY <1>1, <2>1
  <2>2. CASE got' # got
    <3>1. PICK v : got' = [got EXCEPT !.fields = v]
      BY <2>2 DEF Verify, Parse
    <3>2. PICK h, p, r, s, f :
            got = [hdr |-> h, pos |-> p, rv |-> r, avps |-> s, fields |-> f]
      BY <1>1 DEF IsGot
    <3>3. got' = [hdr |-> h, pos |-> p, rv |-> r, avps |-> s, fields |-> v]
      BY <3>1, <3>2
    <3>4. got'.hdr = got.hdr /\ got'.pos = got.pos /\ got'.avps = got.avps
      BY <3>2, <3>3
    <3>5. IsGot(got')
      BY <3>3 DEF IsGot
    <3> QED BY <1>1, <3>4, <3>5 DEF Decoded
  <2> QED BY <2>1, <2>2
<1>5. /\ stage' \in Stages
      /\ stage' \notin {"start", "rejected", "configured", "sent", "damaged"}
  BY <1>3 DEF Stages
<1> QED BY <1>1, <1>2, <1>4, <1>5 DEF DecodeInv

\* The invariant of decoding: whatever the configuration and the damage, what
\* has been decoded is made of the bytes up to the position.
THEOREM Decoding == Spec => []DecodeInv
<1>1. Init => DecodeInv
  <2> SUFFICES ASSUME Init PROVE DecodeInv
    OBVIOUS
  <2>1. cfg = <<>> /\ buf = <<>> /\ got = None /\ stage = "start" /\ doc \in Documents
    BY DEF Init
  <2>2. DOMAIN cfg = {} /\ buf \in Seq(Byte)
    BY <2>1
  <2>3. ~Begun /\ stage \in Stages
    BY <2>1 DEF Begun, Stages
  <2> QED BY <2>1, <2>2, <2>3 DEF DecodeInv
<1>2. DecodeInv /\ [Next]_vars => DecodeInv'
  <2> SUFFICES ASSUME DecodeInv, [Next]_vars PROVE DecodeInv'
    OBVIOUS
  <2>1. CASE Load
    BY <2>1, LoadStep
  <2>2. CASE SendTunnel \/ SendSession
    BY <2>2, SendCases, SendStep
  <2>3. CASE SendAck
    BY <2>3, SendAckStep
  <2>4. CASE SendHidden
    BY <2>4, SendHiddenStep
  <2>5. CASE Flip \/ Truncate
    BY <2>5, DamageStep
  <2>6. CASE DecodeHeader
    BY <2>6, DecodeHeaderStep
  <2>7. CASE DecodeAvp
    BY <2>7, DecodeAvpStep
  <2>8. CASE Verify \/ Parse
    BY <2>8, ReadStep
  <2>9. CASE UNCHANGED vars
    BY <2>9 DEF vars, DecodeInv, Begun
  <2> QED BY <2>1, <2>2, <2>3, <2>4, <2>5, <2>6, <2>7, <2>8, <2>9 DEF Next
<1> QED BY <1>1, <1>2, PTL DEF Spec

\* decode_sequence never reads past the datagram, and every AVP it makes has a
\* type and a vendor of 16 bits and a value of bytes.
THEOREM TypeCorrect == Spec => []TypeOK
<1>1. DecodeInv => TypeOK
  <2> SUFFICES ASSUME DecodeInv PROVE TypeOK
    OBVIOUS
  <2>1. ASSUME NEW s \in Seq(Byte) PROVE Range(s) \subseteq Byte
    <3>1. \A i \in DOMAIN s : s[i] \in Byte
      OBVIOUS
    <3> QED BY <3>1 DEF Range
  <2>2. buf \in Seq(Byte) /\ stage \in Stages
    BY DEF DecodeInv
  <2>3. ASSUME got # None PROVE got.pos \in 12..Len(buf)
    <3>1. Decoded(got, buf)
      BY <2>3 DEF DecodeInv, Begun
    <3>2. got.pos \in Nat /\ 12 <= got.pos /\ got.pos <= Len(buf)
      BY <3>1 DEF Decoded
    <3>3. Len(buf) \in Nat
      BY <2>2
    <3> QED BY <3>2, <3>3
  <2>4. ASSUME got # None, NEW i \in DOMAIN got.avps
        PROVE  /\ Range(got.avps[i].value) \subseteq Byte
               /\ {got.avps[i].attribute_type, got.avps[i].vendor_id} \subseteq Word
    <3>1. Decoded(got, buf)
      BY <2>4 DEF DecodeInv, Begun
    <3>2. PICK s \in Seq(Avps) : s = got.avps
      BY <3>1 DEF Decoded
    <3>3. s[i] \in Avps
      BY <2>4, <3>2
    <3>4. s[i].value \in Seq(Byte) /\ s[i].attribute_type \in Word /\ s[i].vendor_id \in Word
      BY <3>3 DEF Avps
    <3> QED BY <2>1, <3>2, <3>4
  <2> QED BY <2>1, <2>2, <2>3, <2>4 DEF TypeOK
<1> QED BY <1>1, Decoding, PTL

\* Decoding loses nothing: what _decode_and_verify_impl encodes again is what
\* was received, for every datagram.
THEOREM DecodingIsCanonical == Spec => []Canonical
<1>1. DecodeInv => Canonical
  <2> SUFFICES ASSUME DecodeInv, got # None, \A i \in DOMAIN got.avps : ~got.avps[i].hidden
               PROVE  Header(got.hdr, Len(buf)) \o EncodeAll(got.avps, None)
                        = SubSeq(buf, 1, got.pos)
    BY DEF Canonical
  <2>1. Decoded(got, buf)
    BY DEF DecodeInv, Begun
  <2>2. AllPlain(got.avps)
    BY <2>1 DEF Decoded, AllPlain
  <2> QED BY <2>1, <2>2 DEF Decoded
<1> QED BY <1>1, Decoding, PTL

-----------------------------------------------------------------------------
(* A message has one encoding, and an encoding one message *)

\* Two lists are equal, or one of them has an AVP at k + 1 that the other does
\* not have there, and before it they agree.
LEMMA FirstDifference ==
  ASSUME NEW S, NEW a \in Seq(S), NEW b \in Seq(S), a # b
  PROVE  \E k \in Nat : /\ k <= Len(a) /\ k <= Len(b) /\ Agree(a, b, k)
                        /\ k < Len(a) \/ k < Len(b)
                        /\ k < Len(a) /\ k < Len(b) => a[k + 1] # b[k + 1]
<1>1. PICK m \in Nat, n \in Nat : m = Len(a) /\ n = Len(b)
  OBVIOUS
<1> DEFINE D == {j \in Nat : 1 <= j /\ (j <= m /\ j <= n => a[j] # b[j])}
<1>2. D \subseteq Nat /\ m + 1 \in D
  OBVIOUS
<1>3. PICK x \in Nat : 1 <= x /\ (x <= m /\ x <= n => a[x] # b[x]) /\ \A y \in D : x <= y
  <2>1. D # {}
    BY <1>2
  <2>2. \A y \in D : y \in Nat /\ 1 <= y /\ (y <= m /\ y <= n => a[y] # b[y])
    OBVIOUS
  <2> HIDE DEF D
  <2>3. PICK x \in D : \A y \in D : x <= y
    BY <1>2, <2>1, LeastExists
  <2> QED BY <2>2, <2>3
<1>4. \A j \in Nat : 1 <= j /\ j < x => j <= m /\ j <= n /\ a[j] = b[j]
  <2>1. ASSUME NEW j \in Nat, 1 <= j, j < x PROVE j <= m /\ j <= n /\ a[j] = b[j]
    <3>1. j \notin D
      BY <1>3, <2>1
    <3> QED BY <2>1, <3>1
  <2> QED BY <2>1
<1> HIDE DEF D
<1>5. PICK k \in Nat : x = k + 1
  <2>1. x - 1 \in Nat /\ x = (x - 1) + 1
    BY <1>3
  <2> QED BY <2>1
<1>6. k <= m /\ k <= n
  <2>1. CASE k = 0
    BY <2>1
  <2>2. CASE k # 0
    <3>1. 1 <= k /\ k < x
      BY <1>5, <2>2
    <3> QED BY <1>4, <3>1
  <2> QED BY <2>1, <2>2
<1>7. Agree(a, b, k)
  BY <1>4, <1>5 DEF Agree
<1>8. k < m \/ k < n
  <2>1. ASSUME k = m, k = n PROVE FALSE
    <3>1. \A i \in 1..m : a[i] = b[i]
      BY <1>7, <2>1 DEF Agree
    <3>2. a = b
      BY <1>1, <2>1, <3>1, SeqEqual
    <3> QED BY <3>2
  <2> QED BY <1>6, <2>1
<1>9. k < m /\ k < n => a[k + 1] # b[k + 1]
  BY <1>3, <1>5
<1> QED BY <1>1, <1>6, <1>7, <1>8, <1>9

\* The bytes of AVP a follow those of the AVPs before it.
Follows(avps, rv, first, a) ==
    LET p == EncodeAll(first, rv)
        e == encode(a, rv)
        w == EncodeAll(avps, rv)
    IN  /\ p \in Seq(Byte) /\ e \in Seq(Byte) /\ w \in Seq(Byte)
        /\ EncodeAll(Append(first, a), rv) = p \o e
        /\ Len(p) + Len(e) <= Len(w)
        /\ HasAt(w, Len(p), e)

\* After the bytes of the first k AVPs stand those of AVP k + 1.
LEMMA NextFollows ==
  ASSUME NEW rv, NEW avps, Encodable(avps, rv), NEW k \in Nat, k < Len(avps),
         NEW first \in Seq(Avps), Len(first) = k, Agree(first, avps, k)
  PROVE  Follows(avps, rv, first, avps[k + 1])
<1>1. PICK n \in Nat : n = Len(avps) /\ avps \in Seq(Avps)
  BY DEF Encodable
<1>2. k + 1 \in 1..n /\ k + 1 <= n
  BY <1>1
<1>3. PICK a \in Avps : a = avps[k + 1]
  BY <1>1, <1>2
<1>4. Encodable(first, rv)
  <2>1. ASSUME NEW i \in 1..k PROVE encode(first[i], rv) \in Seq(Byte)
    <3>1. i \in 1..n
      BY <1>1
    <3> QED BY <1>1, <3>1 DEF Agree, Encodable
  <2> QED BY <2>1 DEF Encodable
<1>5. PICK e \in Seq(Byte) : e = encode(a, rv)
  BY <1>1, <1>2, <1>3 DEF Encodable
<1>6. PICK p \in Seq(Byte) : p = EncodeAll(first, rv)
  BY <1>4, EncodeAllType
<1>7. PICK more \in Seq(Avps) : more = Append(first, a)
  BY AppendProperties
<1>8. /\ Len(more) = k + 1 /\ more[k + 1] = a
      /\ \A i \in 1..k : more[i] = first[i]
  BY <1>7
<1>9. Encodable(more, rv) /\ EncodeAll(more, rv) = p \o e
  BY <1>4, <1>5, <1>6, <1>7, EncodeAllAppend
<1>10. PICK x \in Lists(Byte), y \in Lists(Byte) :
         /\ x = Encodings(more, rv) /\ y = Encodings(avps, rv)
         /\ Len(x) = k + 1 /\ Len(y) = n
  BY <1>1, <1>8, <1>9, EncodingsType
<1>11. Agree(x, y, k + 1)
  <2>1. ASSUME NEW i \in 1..(k + 1) PROVE more[i] = avps[i]
    <3>1. CASE i = k + 1
      BY <1>3, <1>8, <3>1
    <3>2. CASE i # k + 1
      <4>1. i \in 1..k
        BY <3>2
      <4> QED BY <1>8, <4>1 DEF Agree
    <3> QED BY <3>1, <3>2
  <2>2. DOMAIN more = 1..(k + 1) /\ DOMAIN avps = 1..n
    BY <1>1, <1>8
  <2>3. ASSUME NEW i \in 1..(k + 1) PROVE x[i] = y[i]
    <3>1. i \in 1..n
      BY <1>2
    <3>2. x[i] = encode(more[i], rv) /\ y[i] = encode(avps[i], rv)
      BY <1>10, <2>2, <3>1 DEF Encodings
    <3> QED BY <2>1, <3>2
  <2> QED BY <2>3 DEF Agree
<1>12. PICK rest \in Seq(Byte) : FlattenSeq(y) = FlattenSeq(x) \o rest
  <2>1. PICK m \in Nat : m = k + 1
    OBVIOUS
  <2>2. m <= Len(y) /\ Len(x) = m /\ Agree(x, y, m)
    BY <1>2, <1>10, <1>11, <2>1
  <2> QED BY <2>2, FlattenPrefix, ZenonT(90)
<1>13. EncodeAll(avps, rv) = (p \o e) \o rest
  BY <1>9, <1>10, <1>12 DEF EncodeAll, Encodings
<1>14. PICK q, w : q = p \o e /\ w = q \o rest
  OBVIOUS
<1>15. /\ q \in Seq(Byte) /\ Len(q) = Len(p) + Len(e)
       /\ \A i \in 1..Len(e) : q[Len(p) + i] = e[i]
  BY <1>14, Concat
<1>16. /\ w \in Seq(Byte) /\ Len(w) = Len(q) + Len(rest)
       /\ \A i \in 1..Len(q) : w[i] = q[i]
  <2>1. q \in Seq(Byte)
    BY <1>15
  <2> QED BY <1>14, <2>1, Concat
<1>17. PICK lp \in Nat, le \in Nat, lr \in Nat : lp = Len(p) /\ le = Len(e) /\ lr = Len(rest)
  OBVIOUS
<1>18. lp + le <= Len(w)
  BY <1>15, <1>16, <1>17
<1>19. ASSUME NEW i \in 1..le PROVE w[lp + i] = e[i]
  <2>1. lp + i \in 1..Len(q)
    BY <1>15, <1>17
  <2> QED BY <1>15, <1>16, <1>17, <2>1
<1>20. Len(p) + Len(e) <= Len(w) /\ HasAt(w, Len(p), e)
  BY <1>17, <1>18, <1>19 DEF HasAt
<1>21. w = EncodeAll(avps, rv) /\ EncodeAll(Append(first, a), rv) = p \o e
  BY <1>7, <1>9, <1>13, <1>14
<1> QED BY <1>3, <1>5, <1>6, <1>16, <1>20, <1>21 DEF Follows

\* After the bytes of the first k AVPs decode_one reads AVP k + 1.
LEMMA EncodeAllAt ==
  ASSUME NEW avps, AllPlain(avps), NEW k \in Nat, k < Len(avps),
         NEW first \in Seq(Avps), Len(first) = k, Agree(first, avps, k),
         NEW p, p = EncodeAll(first, None)
  PROVE  /\ p \in Seq(Byte)
         /\ Len(p) + 6 <= Len(EncodeAll(avps, None))
         /\ decode_one(EncodeAll(avps, None), Len(p), None) = avps[k + 1]
<1>1. PICK n \in Nat : n = Len(avps) /\ avps \in Seq(Avps) /\ \A i \in 1..n : Plain(avps[i])
  BY DEF AllPlain
<1>2. k + 1 \in 1..n
  BY <1>1
<1>3. PICK a \in Avps : a = avps[k + 1] /\ Plain(a)
  BY <1>1, <1>2
<1>4. PICK e, w : e = encode(a, None) /\ w = EncodeAll(avps, None)
  OBVIOUS
<1>5. Follows(avps, None, first, a)
  BY <1>3, PlainEncodable, NextFollows
<1>6. /\ p \in Seq(Byte) /\ e \in Seq(Byte) /\ w \in Seq(Byte)
      /\ Len(p) + Len(e) <= Len(w) /\ HasAt(w, Len(p), e)
  BY <1>4, <1>5 DEF Follows
<1>7. EncodedAs(a, e)
  BY <1>3, <1>4, EncodeBytes
<1>8. Len(p) \in Nat /\ Len(e) \in Nat /\ Len(w) \in Nat
  BY <1>6
<1>9. /\ decodes_one(w, Len(p), None) /\ decode_one(w, Len(p), None) = a
      /\ TotalLen(w, Len(p)) = Len(e)
  <2>1. PICK off \in Nat : off = Len(p)
    BY <1>8
  <2>2. off + Len(e) <= Len(w) /\ HasAt(w, off, e)
    BY <1>6, <2>1
  <2>3. /\ decodes_one(w, off, None) /\ decode_one(w, off, None) = a
        /\ TotalLen(w, off) = Len(e)
    BY <1>3, <1>6, <1>7, <2>2, DecodeEncoded
  <2> QED BY <2>1, <2>3
<1>10. Len(e) >= 6
  BY <1>9 DEF decodes_one
<1>11. Len(p) + 6 <= Len(w)
  <2>1. PICK lp \in Nat, le \in Nat, lw \in Nat : lp = Len(p) /\ le = Len(e) /\ lw = Len(w)
    BY <1>8
  <2>2. lp + le <= lw /\ le >= 6
    BY <1>6, <1>10, <2>1
  <2>3. lp + 6 <= lw
    BY <2>2
  <2> QED BY <2>1, <2>3
<1> QED BY <1>3, <1>4, <1>6, <1>9, <1>11

\* Different lists of plain AVPs have different encodings.
LEMMA EncodeAllInjective ==
  ASSUME NEW a, AllPlain(a), NEW b, AllPlain(b), EncodeAll(a, None) = EncodeAll(b, None)
  PROVE  a = b
<1> SUFFICES ASSUME a # b PROVE FALSE
  OBVIOUS
<1>1. a \in Seq(Avps) /\ b \in Seq(Avps)
  BY DEF AllPlain
<1>2. PICK m \in Nat, n \in Nat : m = Len(a) /\ n = Len(b)
  BY <1>1
<1>3. PICK k \in Nat : /\ k <= m /\ k <= n /\ Agree(a, b, k)
                       /\ k < m \/ k < n
                       /\ k < m /\ k < n => a[k + 1] # b[k + 1]
  BY <1>1, <1>2, FirstDifference
<1>4. PICK first : first = [i \in 1..k |-> a[i]]
  OBVIOUS
<1>5. first \in Seq(Avps) /\ Len(first) = k
  <2>1. \A i \in 1..k : a[i] \in Avps
    BY <1>1, <1>2, <1>3
  <2>2. first \in [1..k -> Avps]
    BY <1>4, <2>1
  <2> QED BY <2>2, FunctionSeq
<1>6. Agree(first, a, k) /\ Agree(first, b, k)
  BY <1>3, <1>4 DEF Agree
<1>7. PICK p : p = EncodeAll(first, None)
  OBVIOUS
<1>8. PICK e : e = EncodeAll(a, None) /\ e = EncodeAll(b, None)
  OBVIOUS
<1>9. CASE k < m /\ k < n
  <2>1. decode_one(e, Len(p), None) = a[k + 1]
    BY <1>2, <1>5, <1>6, <1>7, <1>8, <1>9, EncodeAllAt
  <2>2. decode_one(e, Len(p), None) = b[k + 1]
    BY <1>2, <1>5, <1>6, <1>7, <1>8, <1>9, EncodeAllAt
  <2> QED BY <1>3, <1>9, <2>1, <2>2
<1>10. CASE k = m
  <2>1. first = a
    BY <1>1, <1>2, <1>5, <1>6, <1>10, SeqEqual DEF Agree
  <2>2. k < n
    BY <1>3, <1>10
  <2>3. p \in Seq(Byte) /\ Len(p) + 6 <= Len(e)
    BY <1>2, <1>5, <1>6, <1>7, <1>8, <2>2, EncodeAllAt
  <2>4. e = p
    BY <1>7, <1>8, <2>1
  <2> QED BY <2>3, <2>4
<1>11. CASE k = n
  <2>1. first = b
    BY <1>1, <1>2, <1>5, <1>6, <1>11, SeqEqual DEF Agree
  <2>2. k < m
    BY <1>3, <1>11
  <2>3. p \in Seq(Byte) /\ Len(p) + 6 <= Len(e)
    BY <1>2, <1>5, <1>6, <1>7, <1>8, <2>2, EncodeAllAt
  <2>4. e = p
    BY <1>7, <1>8, <2>1
  <2> QED BY <2>3, <2>4
<1> QED BY <1>3, <1>9, <1>10, <1>11

\* The bytes of a header determine it, and what follows it.
LEMMA HeaderInjective ==
  ASSUME NEW a, IsHeader(a), NEW b, IsHeader(b), NEW m \in Nat, NEW n \in Nat,
         NEW x \in Seq(Byte), NEW y \in Seq(Byte),
         Header(a, m) \o x = Header(b, n) \o y
  PROVE  a = b /\ x = y
<1>1. PICK g, h : g = Header(a, m) /\ h = Header(b, n)
  OBVIOUS
<1>2. HeaderAs(a, m, g) /\ HeaderAs(b, n, h)
  BY <1>1, HeaderBytes
<1>3. g \in Seq(Whole) /\ h \in Seq(Whole) /\ Len(g) = 12 /\ Len(h) = 12
  BY <1>2 DEF HeaderAs
<1>4. x \in Seq(Whole) /\ y \in Seq(Whole)
  <2>1. Byte \subseteq Whole
    BY ByteIs DEF Whole
  <2> QED BY <2>1, SeqMonotonic
<1>5. PICK w : w = g \o x /\ w = h \o y
  BY <1>1
<1>6. /\ Len(w) = Len(g) + Len(x)
      /\ \A i \in 1..Len(g) : w[i] = g[i]
      /\ \A i \in 1..Len(x) : w[Len(g) + i] = x[i]
  <2>1. g \in Seq(Whole) /\ x \in Seq(Whole)
    BY <1>3, <1>4
  <2>2. w = g \o x
    BY <1>5
  <2> QED BY <2>1, <2>2, Concat
<1>7. /\ Len(w) = Len(h) + Len(y)
      /\ \A i \in 1..Len(h) : w[i] = h[i]
      /\ \A i \in 1..Len(y) : w[Len(h) + i] = y[i]
  <2>1. h \in Seq(Whole) /\ y \in Seq(Whole)
    BY <1>3, <1>4
  <2>2. w = h \o y
    BY <1>5
  <2> QED BY <2>1, <2>2, Concat
<1>8. \A i \in 1..12 : g[i] = h[i]
  BY <1>3, <1>6, <1>7
<1>9. x = y
  <2>1. PICK k \in Nat : k = Len(x) /\ k = Len(y)
    <3>1. PICK k \in Nat, l \in Nat : k = Len(x) /\ l = Len(y)
      OBVIOUS
    <3>2. 12 + k = 12 + l
      BY <1>3, <1>6, <1>7, <3>1
    <3>3. k = l
      BY <3>2
    <3> QED BY <3>1, <3>3
  <2>2. \A i \in 1..k : x[i] = y[i]
    BY <1>3, <1>6, <1>7, <2>1
  <2> QED BY <2>1, <2>2, SeqEqual
<1>10. a.ns = b.ns /\ a.nr = b.nr
  <2>1. /\ a.ns \in Word /\ a.nr \in Word /\ b.ns \in Word /\ b.nr \in Word
    BY DEF IsHeader
  <2>2. /\ a.ns \div 256 = b.ns \div 256 /\ a.ns % 256 = b.ns % 256
        /\ a.nr \div 256 = b.nr \div 256 /\ a.nr % 256 = b.nr % 256
    <3>1. g[9] = h[9] /\ g[10] = h[10] /\ g[11] = h[11] /\ g[12] = h[12]
      BY <1>8
    <3>2. /\ g[9] = a.ns \div 256 /\ g[10] = a.ns % 256
          /\ g[11] = a.nr \div 256 /\ g[12] = a.nr % 256
      BY <1>2 DEF HeaderAs
    <3>3. /\ h[9] = b.ns \div 256 /\ h[10] = b.ns % 256
          /\ h[11] = b.nr \div 256 /\ h[12] = b.nr % 256
      BY <1>2 DEF HeaderAs
    <3>4. a.ns \div 256 = b.ns \div 256
      BY <3>1, <3>2, <3>3, ZenonT(90)
    <3>5. a.ns % 256 = b.ns % 256
      BY <3>1, <3>2, <3>3, ZenonT(90)
    <3>6. a.nr \div 256 = b.nr \div 256
      BY <3>1, <3>2, <3>3, ZenonT(90)
    <3>7. a.nr % 256 = b.nr % 256
      BY <3>1, <3>2, <3>3, ZenonT(90)
    <3> QED BY <3>4, <3>5, <3>6, <3>7
  <2>3. /\ 256 * (a.ns \div 256) + (a.ns % 256) = a.ns
        /\ 256 * (b.ns \div 256) + (b.ns % 256) = b.ns
        /\ 256 * (a.nr \div 256) + (a.nr % 256) = a.nr
        /\ 256 * (b.nr \div 256) + (b.nr % 256) = b.nr
    BY <2>1, U16Bytes
  <2> QED BY <2>2, <2>3, SMTT(60)
<1>11. a.ccid = b.ccid
  <2>1. /\ IsNumber(a.ccid) /\ Len(a.ccid) <= 2 /\ IsNumber(b.ccid) /\ Len(b.ccid) <= 2
    BY DEF IsHeader
  <2>2. 2 \in Nat
    OBVIOUS
  <2>3. PICK p, q : p = pack(a.ccid, 2) /\ q = pack(b.ccid, 2)
    OBVIOUS
  <2>4. p \in Seq(Byte) /\ Len(p) = 4 /\ q \in Seq(Byte) /\ Len(q) = 4
    BY <2>1, <2>3, CcidBytes
  <2>5. ASSUME NEW j \in 1..4 PROVE p[j] = q[j]
    <3>1. PICK i \in 1..12 : i = 4 + j
      <4>1. 4 + j \in 1..12
        OBVIOUS
      <4> QED BY <4>1
    <3>2. g[4 + j] = p[j] /\ h[4 + j] = q[j]
      BY <1>2, <2>3, ZenonT(90) DEF HeaderAs
    <3> QED BY <1>8, <3>1, <3>2
  <2>6. p = q
    BY <2>4, <2>5, SeqEqual
  <2>7. unpack(p) = a.ccid /\ unpack(q) = b.ccid
    BY <2>1, <2>2, <2>3, UnpackPack
  <2> QED BY <2>6, <2>7
<1>12. a = b
  <2>1. PICK c, s, r : a = [ccid |-> c, ns |-> s, nr |-> r]
    BY DEF IsHeader, HeaderKeys
  <2>2. PICK d, t, u : b = [ccid |-> d, ns |-> t, nr |-> u]
    BY DEF IsHeader, HeaderKeys
  <2> QED BY <1>10, <1>11, <2>1, <2>2
<1> QED BY <1>9, <1>12

\* What encode_message returns determines the message.
THEOREM MessageInjective ==
  ASSUME NEW g, IsHeader(g), NEW h, IsHeader(h), NEW a, AllPlain(a), NEW b, AllPlain(b),
         encode_message(g, a, None) = encode_message(h, b, None)
  PROVE  g = h /\ a = b
<1>1. PICK x \in Seq(Byte), y \in Seq(Byte) : x = EncodeAll(a, None) /\ y = EncodeAll(b, None)
  BY PlainEncodable, EncodeAllType
<1>2. PICK m \in Nat, n \in Nat : m = 12 + Len(x) /\ n = 12 + Len(y)
  <2>1. 12 + Len(x) \in Nat /\ 12 + Len(y) \in Nat
    OBVIOUS
  <2> QED BY <2>1
<1>3. Header(g, m) \o x = Header(h, n) \o y
  BY <1>1, <1>2 DEF encode_message
<1>4. g = h /\ x = y
  BY <1>3, HeaderInjective
<1> QED BY <1>1, <1>4, EncodeAllInjective

\* The Message Digest AVP that find_avp returns is one of the list.
LEMMA DigestFound ==
  ASSUME NEW avps \in Seq(Avps), find_avp(avps, "MESSAGE_DIGEST") # None
  PROVE  \E i \in 1..Len(avps) : /\ IsDigest(avps[i])
                                 /\ find_avp(avps, "MESSAGE_DIGEST") = avps[i]
<1> DEFINE Match(a) == a.vendor_id = 0 /\ a.attribute_type = AttrType["MESSAGE_DIGEST"]
           I == {i \in 1..Len(avps) : Match(avps[i])}
<1>1. PICK f : f = SelectInSeq(avps, Match)
  OBVIOUS
<1>2. f = IF I # {} THEN Min(I) ELSE 0
  BY <1>1 DEF SelectInSeq
<1>3. find_avp(avps, "MESSAGE_DIGEST") = IF f = 0 THEN None ELSE avps[f]
  BY <1>1 DEF find_avp
<1>4. \A i \in I : i \in 1..Len(avps) /\ IsDigest(avps[i])
  BY DEF IsDigest
<1>5. I \subseteq Nat
  OBVIOUS
<1> HIDE DEF I
<1>6. I # {} /\ f = Min(I) /\ find_avp(avps, "MESSAGE_DIGEST") = avps[f]
  BY <1>2, <1>3
<1>7. f \in I
  <2>1. \E x \in I : \A y \in I : x <= y
    BY <1>5, <1>6, LeastExists
  <2> QED BY <1>6, <2>1 DEF Min
<1> QED BY <1>4, <1>6, <1>7

-----------------------------------------------------------------------------
(* Signed messages *)

\* a is b, except for the M bit of a Message Digest AVP.
SameAvp(a, b) ==
    a \in {b} \cup (IF IsDigest(b) THEN {[b EXCEPT !.mandatory = TRUE]} ELSE {})

\* What is decoded and has the digest of a message is that message: its header,
\* and each of its AVPs in its place.
LEMMA DigestCovers ==
  ASSUME NEW avps, AllPlain(avps), NEW g, IsHeader(g),
         NEW built, AllPlain(built), IsBody(built), NEW h, IsHeader(h),
         NEW alg \in {0, 1}, zeroed_bytes(alg, g, avps) = SignedBytes(alg, h, built),
         NEW md, md = find_avp(avps, "MESSAGE_DIGEST"), md # None,
         md.value = <<alg>> \o Hmac(alg)
  PROVE  /\ g = h /\ Len(avps) = Len(Signed(alg, built))
         /\ \A i \in 1..Len(avps) : SameAvp(Signed(alg, built)[i], avps[i])
<1>1. PICK n \in Nat : n = Len(avps) /\ avps \in Seq(Avps) /\ DOMAIN avps = 1..n
  BY DEF AllPlain
<1>2. PICK m \in Nat : m = Len(built) /\ built \in Seq(Avps)
  BY DEF AllPlain
<1>3. PICK z : z = Zeroed(alg) /\ Plain(z) /\ IsDigest(z)
  BY DigestType
<1>4. z \in Avps
  BY <1>3 DEF Plain
<1>5. PICK d : d = Digest(alg, Hmac(alg)) /\ Plain(d)
  BY DigestType
<1>6. d \in Avps
  BY <1>5 DEF Plain
<1>7. PICK zs : zs = [i \in 1..n |-> IF IsDigest(avps[i]) THEN z ELSE avps[i]]
  OBVIOUS
<1>8. AllPlain(zs) /\ Len(zs) = n
  <2>1. ASSUME NEW i \in 1..n PROVE zs[i] \in Avps /\ Plain(zs[i])
    BY <1>1, <1>3, <1>4, <1>7 DEF AllPlain
  <2>2. zs \in [1..n -> Avps]
    BY <1>7, <2>1
  <2>3. zs \in Seq(Avps) /\ Len(zs) = n
    BY <2>2, FunctionSeq
  <2> QED BY <2>1, <2>3 DEF AllPlain
<1>9. PICK ws \in Seq(Avps) : ws = Append(built, z)
  BY <1>2, <1>4, AppendProperties
<1>10. /\ Len(ws) = m + 1 /\ ws[m + 1] = z
       /\ \A i \in 1..m : ws[i] = built[i]
  BY <1>2, <1>4, <1>9
<1>11. AllPlain(ws)
  BY <1>3, <1>9, AllPlainAppend
<1>12. encode_message(g, zs, None) = encode_message(h, ws, None)
  <2>1. zeroed_bytes(alg, g, avps) = encode_message(g, zs, None)
    BY <1>1, <1>3, <1>7 DEF zeroed_bytes
  <2>2. SignedBytes(alg, h, built) = encode_message(h, ws, None)
    BY <1>3, <1>9 DEF SignedBytes
  <2> QED BY <2>1, <2>2
<1>13. g = h /\ zs = ws
  BY <1>8, <1>11, <1>12, MessageInjective
<1>14. n = m + 1
  BY <1>8, <1>10, <1>13
<1>15. PICK s \in Seq(Avps) : s = Signed(alg, built) /\ s = Append(built, d)
  BY <1>2, <1>5, <1>6, AppendProperties DEF Signed
<1>16. /\ Len(s) = m + 1 /\ s[m + 1] = d
       /\ \A i \in 1..m : s[i] = built[i]
  BY <1>2, <1>6, <1>15
<1>17. ASSUME NEW i \in 1..m PROVE avps[i] = built[i] /\ ~IsDigest(avps[i])
  <2>1. i \in 1..n
    BY <1>14
  <2>2. zs[i] = built[i]
    BY <1>10, <1>13
  <2>3. ~IsDigest(built[i])
    BY <1>2 DEF IsBody
  <2>4. zs[i] = IF IsDigest(avps[i]) THEN z ELSE avps[i]
    BY <1>7, <2>1
  <2> QED BY <1>3, <2>2, <2>3, <2>4
<1>18. PICK j \in 1..n : IsDigest(avps[j]) /\ md = avps[j]
  BY <1>1, DigestFound
<1>19. j = m + 1
  <2>1. ~(j \in 1..m)
    BY <1>17, <1>18
  <2> QED BY <1>14, <2>1
<1>20. SameAvp(s[m + 1], avps[m + 1])
  <2>1. PICK a \in Avps : a = avps[m + 1]
    BY <1>1, <1>14
  <2>2. IsDigest(a) /\ a.value = <<alg>> \o Hmac(alg)
    BY <1>18, <1>19, <2>1
  <2>3. ~a.hidden
    BY <1>1, <1>14, <2>1 DEF AllPlain, Plain
  <2>4. PICK v : v = <<alg>> \o Hmac(alg)
    OBVIOUS
  <2>5. d = [ attribute_type |-> AttrType.MESSAGE_DIGEST, vendor_id |-> 0, hidden |-> FALSE,
              mandatory |-> TRUE, value |-> v ]
    BY <1>5, <2>4, DigestType
  <2>6. a.attribute_type = AttrType.MESSAGE_DIGEST /\ a.vendor_id = 0 /\ a.hidden = FALSE
    BY <2>2, <2>3 DEF IsDigest, Avps
  <2>7. PICK b : b = a.mandatory
    OBVIOUS
  <2>8. a = [ attribute_type |-> AttrType.MESSAGE_DIGEST, vendor_id |-> 0, hidden |-> FALSE,
              mandatory |-> b, value |-> v ]
    <3>1. PICK V : V = Seq(Byte)
      OBVIOUS
    <3>2. a \in [ attribute_type : Word, vendor_id : Word, hidden : BOOLEAN,
                  mandatory : BOOLEAN, value : V ]
      BY <3>1 DEF Avps
    <3>3. a = [ attribute_type |-> a.attribute_type, vendor_id |-> a.vendor_id,
                hidden |-> a.hidden, mandatory |-> a.mandatory, value |-> a.value ]
      BY <3>2
    <3> QED BY <2>2, <2>4, <2>6, <2>7, <3>3, Zenon
  <2>9. [a EXCEPT !.mandatory = TRUE] = d
    <3>1. PICK t, y, n0, f : t = AttrType.MESSAGE_DIGEST /\ y = TRUE /\ n0 = 0 /\ f = FALSE
      OBVIOUS
    <3>2. PICK r : r = [ attribute_type |-> t, vendor_id |-> n0, hidden |-> f,
                         mandatory |-> b, value |-> v ]
      OBVIOUS
    <3>3. [r EXCEPT !.mandatory = y]
            = [ attribute_type |-> t, vendor_id |-> n0, hidden |-> f,
                mandatory |-> y, value |-> v ]
      BY <3>2
    <3>4. a = r
      BY <2>8, <3>1, <3>2, Zenon
    <3>5. [a EXCEPT !.mandatory = TRUE] = [r EXCEPT !.mandatory = y]
      BY <3>1, <3>4, Zenon
    <3> QED BY <2>5, <3>1, <3>3, <3>5, Zenon
  <2> QED BY <1>16, <2>1, <2>2, <2>9 DEF SameAvp
<1>21. ASSUME NEW i \in 1..n PROVE SameAvp(s[i], avps[i])
  <2>1. CASE i = m + 1
    BY <1>20, <2>1
  <2>2. CASE i # m + 1
    <3>1. i \in 1..m
      BY <1>14, <2>2
    <3>2. s[i] = avps[i]
      BY <1>16, <1>17, <3>1
    <3> QED BY <3>2 DEF SameAvp
  <2> QED BY <2>1, <2>2
<1> QED BY <1>1, <1>13, <1>14, <1>15, <1>16, <1>21

\* The digest of a message was computed over the AVPs built for it, with the
\* secret and the algorithm of its tunnel; a message with a digest hides none.
IsSigned(t, hdr, avps, key, mac) ==
    /\ key = None /\ t.digest_alg \in {0, 1}
    /\ \E built : /\ AllPlain(built) /\ IsBody(built)
                  /\ avps = Signed(t.digest_alg, built)
                  /\ mac = [secret |-> t.password, alg |-> t.digest_alg,
                            bytes |-> SignedBytes(t.digest_alg, hdr, built)]

SentAs(s) ==
    /\ IsHeader(s.hdr)
    /\ s.mac # NoMac => IsSigned(s.tunnel, s.hdr, s.avps, s.key, s.mac)

SignInv ==
    /\ Begun \/ stage \in {"sent", "damaged"} => SentAs(sent)
    /\ Begun /\ sent.key = None => AllPlain(got.avps)
    /\ SignedMeansSent

\* A datagram leaves, with a digest or without one.
LEMMA SignTransmit ==
  ASSUME DecodeInv, stage = "configured", NEW t, TunnelTyped(t), NEW list, NEW avps, NEW key,
         NEW mac, Transmit(t, list, avps, key, mac),
         mac # NoMac => IsSigned(t, MessageHeader(t), avps, key, mac)
  PROVE  SignInv'
<1>1. got = None
  BY DEF DecodeInv
<1>2. stage' = "sent" /\ got' = got
  BY DEF Transmit
<1>3. PICK h, w : /\ h = MessageHeader(t)
                  /\ sent' = [tunnel |-> t, fields |-> list, hdr |-> h, avps |-> avps,
                              key |-> key, mac |-> mac, wire |-> w]
  BY DEF Transmit, MessageHeader
<1>4. /\ sent'.tunnel = t /\ sent'.hdr = h /\ sent'.avps = avps
      /\ sent'.key = key /\ sent'.mac = mac
  BY <1>3
<1>5. SentAs(sent')
  BY <1>3, <1>4, MessageHeaderType DEF SentAs
<1>6. ~Begun' /\ SignedMeansSent'
  BY <1>1, <1>2 DEF Begun, SignedMeansSent
<1> QED BY <1>5, <1>6 DEF SignInv

\* What Tunnel._send signs.
LEMMA SendSigned ==
  ASSUME NEW t, TunnelTyped(t), t.password # None, NEW list \in Seq(Built), BuildsAll(list),
         NEW built, built = BuildAll(list), NEW avps, avps = Signed(t.digest_alg, built),
         encodes_message(avps, None), NEW hdr,
         NEW mac, mac = [secret |-> t.password, alg |-> t.digest_alg,
                         bytes |-> SignedBytes(t.digest_alg, hdr, built)]
  PROVE  IsSigned(t, hdr, avps, None, mac)
<1>1. IsBody(built)
  BY BuildAllType
<1>2. AllPlain(avps)
  BY SendAvps
<1>3. AllPlain(built)
  <2>1. PICK d : d = Digest(t.digest_alg, Hmac(t.digest_alg)) /\ d \in Avps
    BY DigestType DEF TunnelTyped, Plain
  <2>2. PICK n \in Nat : n = Len(built) /\ built \in Seq(Avps)
    BY <1>1 DEF IsBody
  <2>3. avps = Append(built, d)
    BY <2>1 DEF Signed
  <2>4. Len(avps) = n + 1 /\ \A i \in 1..n : avps[i] = built[i]
    BY <2>1, <2>2, <2>3
  <2>5. ASSUME NEW i \in 1..n PROVE Plain(built[i])
    <3>1. i \in 1..Len(avps)
      BY <2>4
    <3> QED BY <1>2, <2>4, <3>1 DEF AllPlain
  <2> QED BY <2>2, <2>5 DEF AllPlain
<1> QED BY <1>1, <1>3 DEF IsSigned, TunnelTyped

\* Without a password a message has no digest, with one it has the digest of
\* its AVPs.
LEMMA SignSend ==
  ASSUME DecodeInv, NEW t, TunnelTyped(t), NEW list \in Seq(Built), Send(t, list)
  PROVE  SignInv'
<1>1. PICK built, avps, hdr :
        /\ built = BuildAll(list) /\ hdr = MessageHeader(t)
        /\ avps = IF t.password = None THEN built ELSE Signed(t.digest_alg, built)
  OBVIOUS
<1>2. stage = "configured"
  BY DEF Send
<1>3. CASE ~BuildsAll(list) \/ ~encodes_message(avps, None)
  <2>1. stage' = "raised" /\ UNCHANGED <<doc, cfg, table, sent, rx, buf, got>>
    BY <1>1, <1>3 DEF Send
  <2>2. got = None
    BY <1>2 DEF DecodeInv
  <2> QED BY <2>1, <2>2 DEF Begun, SignInv, SignedMeansSent
<1>4. CASE BuildsAll(list) /\ encodes_message(avps, None)
  <2>1. PICK mac : mac = [secret |-> t.password, alg |-> t.digest_alg,
                          bytes |-> SignedBytes(t.digest_alg, hdr, built)]
    OBVIOUS
  <2>2. Transmit(t, list, avps, None, IF t.password = None THEN NoMac ELSE mac)
    BY <1>1, <1>4, <2>1 DEF Send, MessageHeader
  <2>3. CASE t.password = None
    <3>1. Transmit(t, list, avps, None, NoMac)
      BY <2>2, <2>3
    <3> QED BY <1>2, <3>1, SignTransmit
  <2>4. CASE t.password # None
    <3>1. Transmit(t, list, avps, None, mac)
      BY <2>2, <2>4
    <3>2. avps = Signed(t.digest_alg, built)
      BY <1>1, <2>4
    <3>3. IsSigned(t, hdr, avps, None, mac)
      BY <1>1, <1>4, <2>1, <2>4, <3>2, SendSigned
    <3> QED BY <1>1, <1>2, <3>1, <3>3, SignTransmit
  <2> QED BY <2>3, <2>4
<1> QED BY <1>3, <1>4

\* Every message the daemon sends.
LEMMA SignSendStep ==
  ASSUME DecodeInv, SendTunnel \/ SendSession \/ SendAck \/ SendHidden
  PROVE  SignInv'
<1>1. CASE SendTunnel \/ SendSession
  BY <1>1, SendCases, SignSend
<1>2. CASE SendAck
  <2>1. PICK i \in DOMAIN cfg : stage = "configured" /\ Transmit(cfg[i], <<>>, <<>>, None, NoMac)
    BY <1>2 DEF SendAck
  <2>2. TunnelTyped(cfg[i])
    BY DEF DecodeInv
  <2> QED BY <2>1, <2>2, SignTransmit
<1>3. CASE SendHidden
  <2>1. PICK i \in DOMAIN cfg :
          stage = "configured" /\ \E avps : Transmit(cfg[i], None, avps, RandomVector, NoMac)
    BY <1>3 DEF SendHidden
  <2>2. TunnelTyped(cfg[i])
    BY DEF DecodeInv
  <2> QED BY <2>1, <2>2, SignTransmit
<1> QED BY <1>1, <1>2, <1>3

\* The network, and the receiver up to verification.  Without a secret no
\* hidden AVP is read.
LEMMA SignReadStep ==
  ASSUME DecodeInv, SignInv, Load \/ Flip \/ Truncate \/ DecodeHeader \/ DecodeAvp
  PROVE  SignInv'
<1>1. CASE Load \/ Flip \/ Truncate
  <2>1. /\ stage \in {"start", "sent"} /\ UNCHANGED <<sent, got>>
        /\ stage' \in {"configured", "rejected", "damaged"}
        /\ stage' = "damaged" => stage = "sent"
    BY <1>1 DEF Load, Flip, Truncate
  <2>2. got = None
    BY <2>1 DEF DecodeInv
  <2>3. ~Begun' /\ SignedMeansSent'
    BY <2>1, <2>2 DEF Begun, SignedMeansSent
  <2>4. stage' = "damaged" => SentAs(sent')
    BY <2>1 DEF SignInv
  <2> QED BY <2>1, <2>3, <2>4 DEF SignInv
<1>2. CASE DecodeHeader
  <2>1. /\ stage \in {"sent", "damaged"} /\ sent' = sent /\ stage' \in {"decoding", "dropped"}
    BY <1>2 DEF DecodeHeader
  <2>2. SentAs(sent') /\ SignedMeansSent'
    BY <2>1 DEF SignInv, SignedMeansSent
  <2>3. Begun' => AllPlain(got'.avps)
    <3>1. CASE decodes_header(buf)
      <4>1. got'.avps = <<>>
        BY <1>2, <3>1 DEF DecodeHeader
      <4>2. <<>> \in Seq(Avps) /\ Len(<<>>) = 0
        OBVIOUS
      <4> QED BY <4>1, <4>2 DEF AllPlain
    <3>2. CASE ~decodes_header(buf)
      <4>1. got' = None /\ stage' = "dropped"
        BY <1>2, <3>2 DEF DecodeHeader, DecodeInv
      <4> QED BY <4>1 DEF Begun
    <3> QED BY <3>1, <3>2
  <2> QED BY <2>2, <2>3 DEF SignInv
<1>3. CASE DecodeAvp
  <2>1. /\ stage = "decoding" /\ sent' = sent /\ stage' \in {"decoding", "dropped"}
    BY <1>3 DEF DecodeAvp
  <2>2. SentAs(sent') /\ SignedMeansSent'
    BY <2>1 DEF SignInv, SignedMeansSent, Begun
  <2>3. ASSUME sent.key = None PROVE AllPlain(got'.avps)
    <3>1. AllPlain(got.avps) /\ IsGot(got) /\ Decoded(got, buf) /\ buf \in Seq(Byte)
      BY <2>1, <2>3 DEF SignInv, DecodeInv, Begun
    <3>2. CASE got' = got
      BY <3>1, <3>2
    <3>3. CASE got' # got
      <4>1. PICK a, v, p :
              /\ decodes_one(buf, got.pos, None) /\ a = decode_one(buf, got.pos, None)
              /\ got' = [got EXCEPT !.pos = p, !.avps = Append(@, a), !.rv = v]
        BY <1>3, <2>3, <3>3 DEF DecodeAvp
      <4>2. PICK h, q, r, s, f :
              got = [hdr |-> h, pos |-> q, rv |-> r, avps |-> s, fields |-> f]
        BY <3>1 DEF IsGot
      <4>3. got'.avps = Append(got.avps, a)
        BY <4>1, <4>2
      <4>4. ~a.hidden
        BY <4>1 DEF decodes_one, decode_one, Readable
      <4>5. Plain(a)
        BY <3>1, <4>1, <4>4, EncodeDecoded DEF Decoded
      <4> QED BY <3>1, <4>3, <4>5, AllPlainAppend
    <3> QED BY <3>2, <3>3
  <2> QED BY <2>1, <2>2, <2>3 DEF SignInv
<1> QED BY <1>1, <1>2, <1>3

\* Verification.
LEMMA VerifyStep ==
  ASSUME DecodeInv, SignInv, Verify
  PROVE  SignInv'
<1>1. /\ stage = "decoding" /\ UNCHANGED <<sent, got>> /\ stage' \in {"verified", "dropped"}
  BY DEF Verify
<1>2. SentAs(sent) /\ Decoded(got, buf) /\ (sent.key = None => AllPlain(got.avps))
  BY <1>1 DEF SignInv, DecodeInv, Begun
<1>3. ASSUME stage' = "verified", rx'.password # None PROVE SignedMeansSent'
  <2>1. PICK p, alg : alg \in {0, 1} /\ rx' = [password |-> p, alg |-> alg]
    BY DEF Verify, Receivers
  <2>2. verifies(p, alg, got.hdr, got.avps, sent.mac)
    BY <1>3, <2>1 DEF Verify
  <2>3. PICK md : md = find_avp(got.avps, "MESSAGE_DIGEST") /\ md # None
                  /\ md.value = <<alg>> \o Hmac(alg)
    BY <2>2 DEF verifies
  <2>4. PICK z : /\ z = zeroed_bytes(alg, got.hdr, got.avps)
                 /\ sent.mac = [secret |-> p, alg |-> alg, bytes |-> z]
    BY <2>2 DEF verifies
  <2>5. sent.mac # NoMac
    <3>1. DOMAIN sent.mac = {"secret", "alg", "bytes"} /\ DOMAIN NoMac = {}
      BY <2>4 DEF NoMac
    <3> QED BY <3>1
  <2>6. IsSigned(sent.tunnel, sent.hdr, sent.avps, sent.key, sent.mac)
    BY <1>2, <2>5 DEF SentAs
  <2>7. PICK t : t = sent.tunnel
    OBVIOUS
  <2>8. PICK built : /\ AllPlain(built) /\ IsBody(built)
                     /\ sent.avps = Signed(t.digest_alg, built)
                     /\ sent.mac = [secret |-> t.password, alg |-> t.digest_alg,
                                    bytes |-> SignedBytes(t.digest_alg, sent.hdr, built)]
    BY <2>6, <2>7 DEF IsSigned
  <2>9. /\ t.password = p /\ t.digest_alg = alg
        /\ SignedBytes(t.digest_alg, sent.hdr, built) = z
    BY <2>4, <2>8
  <2>10. AllPlain(got.avps)
    BY <1>2, <2>6 DEF IsSigned
  <2>11. IsHeader(got.hdr) /\ IsHeader(sent.hdr)
    BY <1>2 DEF Decoded, SentAs
  <2>12. zeroed_bytes(alg, got.hdr, got.avps) = SignedBytes(alg, sent.hdr, built)
    BY <2>4, <2>9
  <2>13. sent.avps = Signed(alg, built)
    BY <2>8, <2>9
  <2>14. /\ got.hdr = sent.hdr /\ Len(got.avps) = Len(sent.avps)
         /\ \A i \in 1..Len(got.avps) : SameAvp(sent.avps[i], got.avps[i])
    <3>1. PICK m, a, g, h : m = md /\ a = got.avps /\ g = got.hdr /\ h = sent.hdr
      OBVIOUS
    <3>2. alg \in {0, 1} /\ AllPlain(a) /\ IsHeader(g) /\ AllPlain(built) /\ IsBody(built)
      BY <2>1, <2>8, <2>10, <2>11, <3>1
    <3>3. IsHeader(h) /\ zeroed_bytes(alg, g, a) = SignedBytes(alg, h, built)
      BY <2>11, <2>12, <3>1
    <3>4. m = find_avp(a, "MESSAGE_DIGEST") /\ m # None /\ m.value = <<alg>> \o Hmac(alg)
      BY <2>3, <3>1
    <3>5. /\ g = h /\ Len(a) = Len(Signed(alg, built))
          /\ \A i \in 1..Len(a) : SameAvp(Signed(alg, built)[i], a[i])
      BY <3>2, <3>3, <3>4, DigestCovers, SMTT(60)
    <3> QED BY <2>13, <3>1, <3>5
  <2>15. DOMAIN got.avps = 1..Len(got.avps)
    BY <2>10 DEF AllPlain
  <2>16. Agreed'
    BY <1>1, <2>1, <2>5, <2>7, <2>9 DEF Agreed
  <2> QED BY <1>1, <2>14, <2>15, <2>16 DEF SignedMeansSent, SameAvp
<1>4. ASSUME stage' # "verified" \/ rx'.password = None PROVE SignedMeansSent'
  BY <1>1, <1>4 DEF SignedMeansSent
<1>5. SignedMeansSent'
  BY <1>3, <1>4
<1> QED BY <1>1, <1>2, <1>5 DEF SignInv

\* Parsing changes neither the header nor the AVPs.
LEMMA ParseStep ==
  ASSUME DecodeInv, SignInv, Parse
  PROVE  SignInv'
<1>1. /\ stage = "verified" /\ UNCHANGED <<sent, rx>>
      /\ stage' \in {"raised", "malformed", "accepted"}
  BY DEF Parse
<1>2. /\ SentAs(sent) /\ IsGot(got) /\ (sent.key = None => AllPlain(got.avps))
  BY <1>1 DEF SignInv, DecodeInv, Begun
<1>3. got'.hdr = got.hdr /\ got'.avps = got.avps
  <2>1. CASE got' = got
    BY <2>1
  <2>2. CASE got' # got
    <3>1. PICK v : got' = [got EXCEPT !.fields = v]
      BY <2>2 DEF Parse
    <3>2. PICK h, p, r, s, f :
            got = [hdr |-> h, pos |-> p, rv |-> r, avps |-> s, fields |-> f]
      BY <1>2 DEF IsGot
    <3> QED BY <3>1, <3>2
  <2> QED BY <2>1, <2>2
<1>4. SignedMeansSent'
  BY <1>1, <1>3 DEF SignInv, SignedMeansSent, Agreed
<1> QED BY <1>1, <1>2, <1>3, <1>4 DEF SignInv

\* The invariant of signing.
THEOREM Signing == Spec => []SignInv
<1>1. Init => SignInv
  BY DEF Init, SignInv, Begun, SignedMeansSent
<1>2. DecodeInv /\ SignInv /\ [Next]_vars => SignInv'
  <2> SUFFICES ASSUME DecodeInv, SignInv, [Next]_vars PROVE SignInv'
    OBVIOUS
  <2>1. CASE SendTunnel \/ SendSession \/ SendAck \/ SendHidden
    BY <2>1, SignSendStep
  <2>2. CASE Load \/ Flip \/ Truncate \/ DecodeHeader \/ DecodeAvp
    BY <2>2, SignReadStep
  <2>3. CASE Verify
    BY <2>3, VerifyStep
  <2>4. CASE Parse
    BY <2>4, ParseStep
  <2>5. CASE UNCHANGED vars
    BY <2>5 DEF vars, SignInv, Begun, SignedMeansSent, Agreed
  <2> QED BY <2>1, <2>2, <2>3, <2>4, <2>5 DEF Next
<1> QED BY <1>1, <1>2, Decoding, PTL DEF Spec

\* With a password, what _decode_and_verify_impl lets pass is the message that
\* _encode_signed_impl made, in every field of its header and every AVP, for
\* every configuration and every damage to the datagram.
THEOREM VerifiedIsSent == Spec => []SignedMeansSent
<1>1. SignInv => SignedMeansSent
  BY DEF SignInv
<1> QED BY <1>1, Signing, PTL

-----------------------------------------------------------------------------
(* What the parsers read *)

\* The decode_* function of a field takes what its factory built, and returns
\* what the factory was given.
ReadsBack(f, v) ==
    /\ decodes(f, build(f, v).value)
    /\ decode_value(f, build(f, v).value) = v

\* A number.
LEMMA NumberReadsBack ==
  ASSUME NEW f \in DOMAIN Digits, NEW v, IsNumber(v), Len(v) <= Digits[f]
  PROVE  ReadsBack(f, v)
<1>1. PICK k \in Nat : k = Digits[f]
  BY DEF Digits
<1>2. f \notin {"PSEUDOWIRE_CAPABILITIES_LIST", "ASSIGNED_COOKIE", "CTL_MSG_AUTH_NONCE",
                "RANDOM_VECTOR", "RESULT_CODE"}
  BY DEF Digits
<1>3. PICK w : w = pack(v, k)
  OBVIOUS
<1>4. Len(w) = 2 * k
  <2>1. v \in Seq(Word) /\ Len(v) <= k
    BY <1>1 DEF IsNumber
  <2> QED BY <1>3, <2>1, PackBytes
<1>5. unpack(w) = v
  BY <1>1, <1>3, UnpackPack
<1>6. build(f, v).value = w
  <2>1. (CASE f \in DOMAIN Digits -> w
           [] f = "PSEUDOWIRE_CAPABILITIES_LIST" ->
                 FlattenSeq([i \in DOMAIN v |-> pack(v[i], 1)])
           [] f = "RESULT_CODE" ->
                 pack(v.result, 1) \o
                 (IF v.error = None THEN <<>> ELSE pack(v.error, 1) \o v.message)
           [] OTHER -> v) = w
    BY <1>2, Zenon
  <2> QED BY <1>1, <1>3, <2>1 DEF build
<1>7. decodes(f, w)
  BY <1>1, <1>2, <1>4, Zenon DEF decodes
<1>8. decode_value(f, w) = v
  BY <1>2, <1>5, Zenon DEF decode_value
<1> QED BY <1>6, <1>7, <1>8 DEF ReadsBack

\* Bytes.
LEMMA BytesReadBack ==
  ASSUME NEW f \in ByteFields, NEW v \in Seq(Byte), builds(f, v)
  PROVE  ReadsBack(f, v)
<1>1. f \notin DOMAIN Digits \cup {"PSEUDOWIRE_CAPABILITIES_LIST", "RESULT_CODE",
                                   "CTL_MSG_AUTH_NONCE", "RANDOM_VECTOR"}
  BY DEF Digits, ByteFields
<1>2. build(f, v).value = v
  BY <1>1 DEF build
<1>3. decode_value(f, v) = v
  BY <1>1 DEF decode_value
<1>4. decodes(f, v)
  BY <1>1 DEF decodes, builds
<1> QED BY <1>2, <1>3, <1>4 DEF ReadsBack

\* The first and the second pair of four bytes.
LEMMA Halves ==
  ASSUME NEW a \in Seq(Byte), NEW b \in Seq(Byte)
  PROVE  Len(a) = 2 /\ Len(b) = 2 =>
            /\ a \o b \in Seq(Byte) /\ Len(a \o b) = 4
            /\ Slice(a \o b, 0, 2) = a /\ Slice(a \o b, 2, 4) = b
<1>1. PICK m \in Nat, n \in Nat : m = Len(a) /\ n = Len(b)
  OBVIOUS
<1>2. PICK s \in Seq(Byte) : s = a \o b
  BY Concat
<1>3. /\ Len(s) = m + n
      /\ \A i \in 1..m : s[i] = a[i]
      /\ \A i \in 1..n : s[m + i] = b[i]
  BY <1>1, <1>2, Concat
<1> SUFFICES ASSUME m = 2, n = 2
             PROVE  /\ a \o b \in Seq(Byte) /\ Len(a \o b) = 4
                    /\ Slice(a \o b, 0, 2) = a /\ Slice(a \o b, 2, 4) = b
  BY <1>1
<1>4. /\ s \in Seq(Byte) /\ Len(s) = 4
      /\ s[1] = a[1] /\ s[2] = a[2] /\ s[3] = b[1] /\ s[4] = b[2]
  BY <1>3
<1>5. SubSeq(s, 1, 2) = a
  <2>1. PICK u : u = SubSeq(s, 1, 2)
    OBVIOUS
  <2>2. 2 - 1 + 1 = 2 /\ 1 + 1 - 1 = 1 /\ 1 + 2 - 1 = 2
    OBVIOUS
  <2>3. PICK lo \in Int, hi \in Int : lo = 1 /\ hi = 2
    OBVIOUS
  <2>4. 1 <= lo /\ lo <= hi + 1 /\ hi <= Len(s)
    BY <1>4, <2>3
  <2>5. u = SubSeq(s, lo, hi)
    BY <2>1, <2>3
  <2>6. /\ u \in Seq(Byte) /\ Len(u) = hi - lo + 1
        /\ \A i \in 1..(hi - lo + 1) : u[i] = s[lo + i - 1]
    BY <2>4, <2>5, PartOf
  <2>7. u \in Seq(Byte) /\ Len(u) = 2 - 1 + 1 /\ \A i \in 1..(2 - 1 + 1) : u[i] = s[1 + i - 1]
    BY <2>3, <2>6
  <2>8. u[1] = s[1] /\ u[2] = s[2] /\ Len(u) = m
    BY <2>2, <2>7
  <2>9. \A i \in 1..m : u[i] = a[i]
    BY <1>4, <2>8
  <2> QED BY <1>1, <2>1, <2>7, <2>8, <2>9, SeqEqual
<1>6. SubSeq(s, 3, 4) = b
  <2>1. PICK u : u = SubSeq(s, 3, 4)
    OBVIOUS
  <2>2. 4 - 3 + 1 = 2 /\ 3 + 1 - 1 = 3 /\ 3 + 2 - 1 = 4
    OBVIOUS
  <2>3. PICK lo \in Int, hi \in Int : lo = 3 /\ hi = 4
    OBVIOUS
  <2>4. 1 <= lo /\ lo <= hi + 1 /\ hi <= Len(s)
    BY <1>4, <2>3
  <2>5. u = SubSeq(s, lo, hi)
    BY <2>1, <2>3
  <2>6. /\ u \in Seq(Byte) /\ Len(u) = hi - lo + 1
        /\ \A i \in 1..(hi - lo + 1) : u[i] = s[lo + i - 1]
    BY <2>4, <2>5, PartOf
  <2>7. u \in Seq(Byte) /\ Len(u) = 4 - 3 + 1 /\ \A i \in 1..(4 - 3 + 1) : u[i] = s[3 + i - 1]
    BY <2>3, <2>6
  <2>8. u[1] = s[3] /\ u[2] = s[4] /\ Len(u) = n
    BY <2>2, <2>7
  <2>9. \A i \in 1..n : u[i] = b[i]
    BY <1>4, <2>8
  <2> QED BY <1>1, <2>1, <2>7, <2>8, <2>9, SeqEqual
<1>7. Slice(s, 0, 2) = SubSeq(s, 1, 2) /\ Slice(s, 2, 4) = SubSeq(s, 3, 4)
  BY <1>4 DEF Slice
<1> QED BY <1>2, <1>4, <1>5, <1>6, <1>7

\* A sequence of two.
LEMMA TwoOf ==
  ASSUME NEW T, NEW a \in T, NEW b \in T
  PROVE  /\ <<>> \in Seq(T) /\ <<a>> \in Seq(T)
         /\ Append(<<>>, a) = <<a>> /\ Append(<<a>>, b) = <<a, b>>
<1>1. <<>> \in Seq(T)
  OBVIOUS
<1>2. <<a>> \in Seq(T)
  OBVIOUS
<1>3. Append(<<>>, a) = <<a>>
  OBVIOUS
<1>4. Append(<<a>>, b) = <<a, b>>
  <2>1. PICK x : x = Append(<<a>>, b)
    OBVIOUS
  <2>2. x \in Seq(T) /\ Len(x) = 2 /\ x[1] = a /\ x[2] = b
    BY <1>2, <2>1
  <2>3. PICK y : y = <<a, b>>
    OBVIOUS
  <2>4. y \in Seq(T) /\ Len(y) = 2 /\ y[1] = a /\ y[2] = b
    BY <2>3
  <2>5. x = y
    BY <2>2, <2>4, SeqEqual
  <2> QED BY <2>1, <2>3, <2>5
<1> QED BY <1>1, <1>2, <1>3, <1>4

\* Two lists joined.
LEMMA FlattenTwo ==
  ASSUME NEW a \in Seq(Byte), NEW b \in Seq(Byte)
  PROVE  FlattenSeq(<<a, b>>) = a \o b
<1>1. <<>> \in Lists(Byte) /\ <<a>> \in Lists(Byte)
  BY TwoOf, Zenon DEF Lists
<1>2. Append(<<>>, a) = <<a>> /\ Append(<<a>>, b) = <<a, b>>
  BY TwoOf, Zenon
<1>3. FlattenSeq(Append(<<>>, a)) = FlattenSeq(<<>>) \o a
  BY <1>1, FlattenAppend, Zenon
<1>4. FlattenSeq(Append(<<a>>, b)) = FlattenSeq(<<a>>) \o b
  BY <1>1, FlattenAppend, Zenon
<1>5. <<>> \o a = a
  OBVIOUS
<1> QED BY <1>2, <1>3, <1>4, <1>5, FlattenEmpty, Zenon

\* The pseudowire types.
LEMMA CapabilitiesReadBack == ReadsBack("PSEUDOWIRE_CAPABILITIES_LIST", Capabilities)
<1> DEFINE f == "PSEUDOWIRE_CAPABILITIES_LIST"
<1>1. f \notin DOMAIN Digits
  BY DEF Digits
<1>2. Num(5) = <<5>> /\ Num(4) = <<4>>
  BY DEF Num
<1>3. PICK a \in Seq(Byte), b \in Seq(Byte) :
        a = pack(<<5>>, 1) /\ b = pack(<<4>>, 1) /\ Len(a) = 2 /\ Len(b) = 2
  BY <1>2, SmallWords, PackWord
<1>4. unpack(a) = <<5>> /\ unpack(b) = <<4>>
  <2>1. IsNumber(Num(5)) /\ Len(Num(5)) <= 1 /\ IsNumber(Num(4)) /\ Len(Num(4)) <= 1
    BY SmallWords, NumType
  <2> QED BY <1>2, <1>3, <2>1, UnpackPack
<1>5. build(f, Capabilities).value = a \o b
  <2>1. [i \in DOMAIN Capabilities |-> pack(Capabilities[i], 1)] = <<a, b>>
    BY <1>3 DEF Capabilities
  <2>2. build(f, Capabilities).value
          = FlattenSeq([i \in DOMAIN Capabilities |-> pack(Capabilities[i], 1)])
    BY <1>1 DEF build
  <2> QED BY <2>1, <2>2, FlattenTwo
<1>6. PICK s \in Seq(Byte) : s = a \o b /\ Len(s) = 4 /\ Slice(s, 0, 2) = a /\ Slice(s, 2, 4) = b
  BY <1>3, Halves
<1>7. decodes(f, s)
  BY <1>1, <1>6 DEF decodes
<1>8. decode_value(f, s) = Capabilities
  <2>1. decode_value(f, s) = [i \in 1..(Len(s) \div 2) |-> unpack(Slice(s, 2*i - 2, 2*i))]
    BY <1>1 DEF decode_value
  <2>2. Len(s) \div 2 = 2
    BY <1>6
  <2>3. 2*1 - 2 = 0 /\ 2*1 = 2 /\ 2*2 - 2 = 2 /\ 2*2 = 4 /\ \A i \in 1..2 : i = 1 \/ i = 2
    OBVIOUS
  <2>4. \A i \in 1..2 : unpack(Slice(s, 2*i - 2, 2*i)) = Capabilities[i]
    <3>1. unpack(Slice(s, 2*1 - 2, 2*1)) = Capabilities[1]
      BY <1>4, <1>6, <2>3 DEF Capabilities
    <3>2. unpack(Slice(s, 2*2 - 2, 2*2)) = Capabilities[2]
      BY <1>4, <1>6, <2>3 DEF Capabilities
    <3> QED BY <2>3, <3>1, <3>2
  <2>5. Capabilities = [i \in 1..2 |-> Capabilities[i]]
    BY DEF Capabilities
  <2> QED BY <2>1, <2>2, <2>4, <2>5
<1> QED BY <1>5, <1>6, <1>7, <1>8 DEF ReadsBack

\* A Result Code.
LEMMA ResultReadsBack ==
  ASSUME NEW v \in Results
  PROVE  ReadsBack("RESULT_CODE", v)
<1> DEFINE f == "RESULT_CODE"
<1>1. f \notin DOMAIN Digits
  BY DEF Digits
<1>2. PICK n \in Word : v = ResultCode(Num(n), None, <<>>)
  <2>1. 6 \in Word /\ 2 \in Word
    BY WordIs, SMT
  <2> QED BY <2>1 DEF Results
<1>3. PICK p \in Seq(Byte) : p = pack(Num(n), 1) /\ Len(p) = 2
  BY PackWord
<1>4. unpack(p) = Num(n)
  BY <1>3, NumType, UnpackPack
<1>5. build(f, v).value = p
  <2>1. v.result = Num(n) /\ v.error = None
    BY <1>2 DEF ResultCode
  <2>2. build(f, v).value = p \o <<>>
    BY <1>1, <1>3, <2>1 DEF build
  <2> QED BY <2>2
<1>6. decodes(f, p)
  BY <1>1, <1>3 DEF decodes
<1>7. Slice(p, 0, 2) = p
  <2>1. Slice(p, 0, 2) = SubSeq(p, 1, 2)
    BY <1>3 DEF Slice
  <2>2. SubSeq(p, 1, 2) = p
    BY <1>3
  <2> QED BY <2>1, <2>2
<1>8. decode_value(f, p) = v
  <2>0. f # "PSEUDOWIRE_CAPABILITIES_LIST"
    OBVIOUS
  <2>1. Len(p) < 4
    <3>1. Len(p) = 2
      BY <1>3, Zenon
    <3> QED BY <3>1
  <2>2. decode_value(f, p)
          = IF Len(p) < 4 THEN ResultCode(unpack(Slice(p, 0, 2)), None, <<>>)
            ELSE ResultCode(unpack(Slice(p, 0, 2)), unpack(Slice(p, 2, 4)),
                            Slice(p, 4, Len(p)))
    BY <1>1, <2>0, Zenon DEF decode_value
  <2> QED BY <1>2, <1>4, <1>7, <2>1, <2>2, Zenon
<1> QED BY <1>5, <1>6, <1>8 DEF ReadsBack

\* Every field that the daemon sends is read back.
LEMMA BuiltReadsBack ==
  ASSUME NEW p \in Built, builds(p[1], p[2])
  PROVE  ReadsBack(p[1], p[2])
<1>1. p \in Pairs /\ FieldTyped(p[1], p[2])
  BY DEF Built, IsBuilt
<1>2. CASE p \in NumberFields \X Numbers
  <2>1. p[1] \in DOMAIN Digits
    BY <1>2 DEF NumberFields
  <2>2. p[1] \notin {"PSEUDOWIRE_CAPABILITIES_LIST", "ASSIGNED_COOKIE", "CTL_MSG_AUTH_NONCE",
                     "RANDOM_VECTOR", "RESULT_CODE"}
    BY <2>1 DEF Digits
  <2>3. Fits(p[2], Digits[p[1]])
    BY <2>1, <2>2, Zenon DEF builds
  <2>4. IsNumber(p[2]) /\ Len(p[2]) <= Digits[p[1]]
    BY <1>1, <2>1, <2>3 DEF FieldTyped, Fits
  <2> QED BY <2>1, <2>4, NumberReadsBack
<1>3. CASE p \in {"PSEUDOWIRE_CAPABILITIES_LIST"} \X {Capabilities}
  BY <1>3, CapabilitiesReadBack
<1>4. CASE p \in {"RESULT_CODE"} \X Results
  BY <1>4, ResultReadsBack
<1>5. CASE p \in ByteFields \X (Seq(Byte) \cup {None})
  <2>1. p[1] \in ByteFields
    BY <1>5
  <2>2. p[2] \in Seq(Byte)
    <3>1. p[1] \notin DOMAIN Digits \cup {"PSEUDOWIRE_CAPABILITIES_LIST", "RESULT_CODE"}
      BY <2>1 DEF Digits, ByteFields
    <3> QED BY <1>1, <3>1 DEF FieldTyped
  <2> QED BY <2>1, <2>2, BytesReadBack
<1> QED BY <1>1, <1>2, <1>3, <1>4, <1>5 DEF Pairs

\* An AVP of the field.
Matches(a, f) == a.vendor_id = 0 /\ a.attribute_type = AttrType[f]

\* k is the first index of 1..n in I, 0 without one.
IsFirst(k, I, n) ==
    \/ k = 0 /\ I = {}
    \/ k \in 1..n /\ k \in I /\ \A i \in I : k <= i

\* The least member of a set of indices.
LEMMA FirstIs ==
  ASSUME NEW n \in Nat, NEW I, I \subseteq 1..n, NEW k, k = IF I # {} THEN Min(I) ELSE 0
  PROVE  IsFirst(k, I, n)
<1>1. CASE I = {}
  BY <1>1 DEF IsFirst
<1>2. CASE I # {}
  <2>1. I \subseteq Nat
    OBVIOUS
  <2>2. \E x \in I : \A y \in I : x <= y
    BY <1>2, <2>1, LeastExists
  <2>3. k \in I /\ \A y \in I : k <= y
    BY <1>2, <2>2 DEF Min
  <2> QED BY <2>3 DEF IsFirst
<1> QED BY <1>1, <1>2

\* What find_avp finds.
LEMMA FindAvp ==
  ASSUME NEW avps \in Seq(Avps), NEW f
  PROVE  \E k : /\ IsFirst(k, {i \in 1..Len(avps) : Matches(avps[i], f)}, Len(avps))
                /\ find_avp(avps, f) = IF k = 0 THEN None ELSE avps[k]
<1> DEFINE Match(a) == a.vendor_id = 0 /\ a.attribute_type = AttrType[f]
           I == {i \in 1..Len(avps) : Match(avps[i])}
<1>1. PICK k : k = SelectInSeq(avps, Match)
  OBVIOUS
<1>2. k = IF I # {} THEN Min(I) ELSE 0
  BY <1>1 DEF SelectInSeq
<1>3. find_avp(avps, f) = IF k = 0 THEN None ELSE avps[k]
  BY <1>1 DEF find_avp
<1>4. I = {i \in 1..Len(avps) : Matches(avps[i], f)} /\ I \subseteq 1..Len(avps)
  BY Zenon DEF Matches
<1>5. Len(avps) \in Nat
  OBVIOUS
<1> HIDE DEF I
<1>6. IsFirst(k, I, Len(avps))
  BY <1>2, <1>4, <1>5, FirstIs
<1> QED BY <1>3, <1>4, <1>6

\* What the sender's builder was given for a field.
FieldOf(list, f) ==
    LET i == SelectInSeq(list, LAMBDA fv : fv[1] = f)
    IN  IF i # 0 THEN list[i][2]
        ELSE IF f = "REMOTE_SESSION_ID" THEN Num(0) ELSE None

\* Where it stands.
LEMMA FieldOfFirst ==
  ASSUME NEW list \in Seq(Built), NEW f
  PROVE  \E k : /\ IsFirst(k, {i \in 1..Len(list) : list[i][1] = f}, Len(list))
                /\ FieldOf(list, f) = IF k # 0 THEN list[k][2]
                                      ELSE IF f = "REMOTE_SESSION_ID" THEN Num(0) ELSE None
<1> DEFINE I == {i \in 1..Len(list) : list[i][1] = f}
<1>1. PICK k : k = SelectInSeq(list, LAMBDA fv : fv[1] = f)
  OBVIOUS
<1>2. k = IF I # {} THEN Min(I) ELSE 0
  BY <1>1 DEF SelectInSeq
<1>3. FieldOf(list, f) = IF k # 0 THEN list[k][2]
                         ELSE IF f = "REMOTE_SESSION_ID" THEN Num(0) ELSE None
  BY <1>1 DEF FieldOf
<1>4. I \subseteq 1..Len(list) /\ Len(list) \in Nat
  OBVIOUS
<1>5. IsFirst(k, I, Len(list))
  <2> HIDE DEF I
  <2> QED BY <1>2, <1>4, FirstIs
<1> QED BY <1>3, <1>5

\* No two fields have the same attribute type.
LEMMA TypesDistinct ==
  ASSUME NEW f \in DOMAIN AttrType, NEW g \in DOMAIN AttrType, AttrType[f] = AttrType[g]
  PROVE  f = g
  BY SMTT(60) DEF AttrType

\* The AVPs of a list of fields, and a Message Digest after them or not.
MadeOf(avps, list) ==
    /\ avps \in Seq(Avps) /\ list \in Seq(Built) /\ BuildsAll(list)
    /\ Len(list) <= Len(avps)
    /\ \A i \in 1..Len(list) : avps[i] = build(list[i][1], list[i][2])
    /\ \A i \in 1..Len(avps) : i > Len(list) => IsDigest(avps[i])

\* An AVP is found for every field given and for no other, and it reads as what
\* was given.
ReadsAs(avps, list, f) ==
    \/ /\ find_avp(avps, f) = None
       /\ \A i \in 1..Len(list) : list[i][1] # f
       /\ FieldOf(list, f) = IF f = "REMOTE_SESSION_ID" THEN Num(0) ELSE None
    \/ /\ find_avp(avps, f) # None
       /\ decodes(f, find_avp(avps, f).value)
       /\ decode_value(f, find_avp(avps, f).value) = FieldOf(list, f)

\* None is no AVP.
LEMMA AvpNotNone == None \notin Avps
  BY AbsentAssumption DEF Avps

\* The AVP of a field given matches that field and no other.
LEMMA BuiltMatches ==
  ASSUME NEW p \in Built, builds(p[1], p[2]), NEW f \in DOMAIN AttrType
  PROVE  Matches(build(p[1], p[2]), f) <=> p[1] = f
<1>1. p[1] \in DOMAIN AttrType /\ FieldTyped(p[1], p[2])
  BY DEF Built, IsBuilt
<1>2. /\ build(p[1], p[2]).vendor_id = 0
      /\ build(p[1], p[2]).attribute_type = AttrType[p[1]]
  BY <1>1, BuildType
<1> QED BY <1>1, <1>2, TypesDistinct DEF Matches

\* Every field but the Message Digest is read back.
LEMMA FieldReads ==
  ASSUME NEW avps, NEW list, MadeOf(avps, list), NEW f \in DOMAIN AttrType, f # "MESSAGE_DIGEST"
  PROVE  ReadsAs(avps, list, f)
<1>1. avps \in Seq(Avps) /\ list \in Seq(Built)
  BY DEF MadeOf
<1>2. PICK n \in Nat, m \in Nat : n = Len(list) /\ m = Len(avps)
  BY <1>1
<1>3. n <= m /\ \A i \in 1..n : avps[i] = build(list[i][1], list[i][2])
  BY <1>2 DEF MadeOf
<1>4. \A i \in 1..m : i > n => IsDigest(avps[i])
  BY <1>2 DEF MadeOf
<1>5. \A i \in 1..n : list[i] \in Built /\ builds(list[i][1], list[i][2])
  BY <1>1, <1>2 DEF MadeOf, BuildsAll
<1>6. \A i \in 1..n : Matches(avps[i], f) <=> list[i][1] = f
  BY <1>3, <1>5, BuiltMatches
<1>7. \A i \in 1..m : i > n => ~Matches(avps[i], f)
  <2>1. AttrType[f] # AttrType.MESSAGE_DIGEST
    <3>1. "MESSAGE_DIGEST" \in DOMAIN AttrType
      BY DEF AttrType
    <3> QED BY <3>1, TypesDistinct
  <2> QED BY <1>4, <2>1 DEF Matches, IsDigest
<1>8. PICK I, J : /\ I = {i \in 1..Len(avps) : Matches(avps[i], f)}
                  /\ J = {i \in 1..Len(list) : list[i][1] = f}
  OBVIOUS
<1>9. I = J
  <2>1. \A i : i \in I <=> i \in 1..m /\ Matches(avps[i], f)
    BY <1>2, <1>8
  <2>2. \A i : i \in J <=> i \in 1..n /\ list[i][1] = f
    BY <1>2, <1>8
  <2>3. \A i \in 1..n : i \in 1..m
    BY <1>3
  <2>4. \A i \in 1..m : i \in 1..n \/ i > n
    OBVIOUS
  <2> QED BY <1>6, <1>7, <2>1, <2>2, <2>3, <2>4, Zenon
<1>10. PICK k : IsFirst(k, I, m) /\ find_avp(avps, f) = IF k = 0 THEN None ELSE avps[k]
  BY <1>1, <1>2, <1>8, FindAvp, Zenon
<1>11. PICK l : /\ IsFirst(l, J, n)
                /\ FieldOf(list, f) = IF l # 0 THEN list[l][2]
                                      ELSE IF f = "REMOTE_SESSION_ID" THEN Num(0) ELSE None
  BY <1>1, <1>2, <1>8, FieldOfFirst, Zenon
<1>12. k = l
  BY <1>9, <1>10, <1>11 DEF IsFirst
<1>13. CASE k = 0
  <2>1. J = {}
    BY <1>9, <1>10, <1>13 DEF IsFirst
  <2>2. \A i \in 1..Len(list) : list[i][1] # f
    BY <1>8, <2>1
  <2> QED BY <1>10, <1>11, <1>12, <1>13, <2>2, Zenon DEF ReadsAs
<1>14. CASE k # 0
  <2>1. k \in J /\ k \in 1..n /\ k \in 1..m
    BY <1>10, <1>11, <1>12, <1>14 DEF IsFirst
  <2>2. PICK p \in Built : p = list[k] /\ builds(p[1], p[2])
    BY <1>5, <2>1
  <2>3. p[1] = f
    BY <1>8, <2>1, <2>2
  <2>4. find_avp(avps, f) = build(f, p[2]) /\ FieldOf(list, f) = p[2]
    <3>1. avps[k] = build(list[k][1], list[k][2])
      BY <1>3, <2>1
    <3> QED BY <1>10, <1>11, <1>12, <1>14, <2>2, <2>3, <3>1, Zenon
  <2>5. ReadsBack(f, p[2])
    BY <2>2, <2>3, BuiltReadsBack
  <2>6. find_avp(avps, f) \in Avps
    BY <1>1, <1>2, <1>10, <1>14, <2>1
  <2>7. find_avp(avps, f) # None
    BY <2>6, AvpNotNone
  <2> QED BY <2>4, <2>5, <2>7, Zenon DEF ReadsAs, ReadsBack
<1> QED BY <1>13, <1>14

\* The parser takes the AVPs of a message, and reads what was put into them.
Understood(avps, list) ==
    LET mt   == find_avp(avps, "MESSAGE_TYPE")
        type == get_message_type(avps)
    IN  /\ mt # None => decodes("MESSAGE_TYPE", mt.value)
        /\ parses(type, avps)
        /\ list # None => \A f \in ParsedFields(type) : parse(type, avps)[f] = FieldOf(list, f)

\* The names of the fields that parsers read.
LEMMA ParsedNames ==
  ASSUME NEW type, NEW f \in ParsedFields(type)
  PROVE  f \in DOMAIN AttrType /\ f # "MESSAGE_DIGEST"
<1>1. MandatoryFields(type) \subseteq
        {"ROUTER_ID", "ASSIGNED_CONTROL_CONNECTION_ID", "HOST_NAME",
         "PSEUDOWIRE_CAPABILITIES_LIST", "RESULT_CODE", "LOCAL_SESSION_ID"}
  BY DEF MandatoryFields
<1>2. f \in MandatoryFields(type) \cup
        {"RECEIVE_WINDOW_SIZE", "CTL_MSG_AUTH_NONCE", "REMOTE_SESSION_ID", "PSEUDOWIRE_TYPE",
         "L2_SPECIFIC_SUBLAYER", "DATA_SEQUENCING", "CIRCUIT_STATUS", "ASSIGNED_COOKIE",
         "REMOTE_END_ID", "TX_CONNECT_SPEED", "RX_CONNECT_SPEED"}
  BY DEF ParsedFields
<1> QED BY <1>1, <1>2 DEF AttrType

\* The Message Type of a message that begins with it.
LEMMA TypeReadsBack ==
  ASSUME NEW avps \in Seq(Avps), Len(avps) >= 1, NEW n \in Word,
         avps[1] = build("MESSAGE_TYPE", Num(n))
  PROVE  /\ decodes("MESSAGE_TYPE", find_avp(avps, "MESSAGE_TYPE").value)
         /\ get_message_type(avps) = n
<1>1. find_avp(avps, "MESSAGE_TYPE") = avps[1]
  <2>1. PICK k : /\ IsFirst(k, {i \in 1..Len(avps) : Matches(avps[i], "MESSAGE_TYPE")}, Len(avps))
                 /\ find_avp(avps, "MESSAGE_TYPE") = IF k = 0 THEN None ELSE avps[k]
    BY FindAvp
  <2>2. PICK I : I = {i \in 1..Len(avps) : Matches(avps[i], "MESSAGE_TYPE")}
    OBVIOUS
  <2>3. Matches(avps[1], "MESSAGE_TYPE")
    BY DEF Matches, build
  <2>4. 1 \in 1..Len(avps)
    OBVIOUS
  <2>5. 1 \in I /\ IsFirst(k, I, Len(avps)) /\ Len(avps) \in Nat
    BY <2>1, <2>2, <2>3, <2>4
  <2>6. k = 1
    BY <2>5 DEF IsFirst
  <2> QED BY <2>1, <2>6
<1>2. "MESSAGE_TYPE" \in DOMAIN Digits /\ Digits["MESSAGE_TYPE"] = 1
  BY DEF Digits
<1>3. avps[1].value = pack(Num(n), 1)
  BY <1>2 DEF build
<1>4. avps[1] # None
  <2>1. avps[1] \in Avps
    OBVIOUS
  <2> QED BY <2>1, AvpNotNone
<1>5. get_message_type(avps) = n
  <2>1. PICK w : w = pack(Num(n), 1) /\ w[1] = n \div 256 /\ w[2] = n % 256
    BY PackWord
  <2>2. u16(w, 0) = n
    <3>1. 0 + 1 = 1 /\ 0 + 2 = 2
      OBVIOUS
    <3> QED BY <2>1, <3>1, U16Bytes DEF u16
  <2> QED BY <1>1, <1>3, <1>4, <2>1, <2>2 DEF get_message_type
<1>6. ReadsBack("MESSAGE_TYPE", Num(n))
  BY <1>2, NumType, NumberReadsBack
<1> QED BY <1>1, <1>5, <1>6 DEF ReadsBack

\* A complete message is understood.
LEMMA CompleteUnderstood ==
  ASSUME NEW avps, NEW list, MadeOf(avps, list), IsComplete(list)
  PROVE  Understood(avps, list)
<1>1. PICK kind \in Kinds :
        /\ Len(list) >= 1 /\ list[1] = <<"MESSAGE_TYPE", Num(MessageType[kind])>>
        /\ \A f \in MandatoryFields(MessageType[kind]) : \E p : Has(list, p) /\ p[1] = f
  BY DEF IsComplete
<1>2. PICK n \in Word : n = MessageType[kind]
  BY KindTypes
<1>3. avps \in Seq(Avps) /\ list \in Seq(Built) /\ Len(list) \in Nat
  BY DEF MadeOf
<1>4. avps[1] = build("MESSAGE_TYPE", Num(n))
  <2>1. avps[1] = build(list[1][1], list[1][2])
    BY <1>1, <1>3 DEF MadeOf
  <2>2. list[1][1] = "MESSAGE_TYPE" /\ list[1][2] = Num(n)
    BY <1>1, <1>2
  <2> QED BY <2>1, <2>2
<1>5. /\ decodes("MESSAGE_TYPE", find_avp(avps, "MESSAGE_TYPE").value)
      /\ get_message_type(avps) = n
  <2>1. Len(avps) >= 1
    BY <1>1, <1>3 DEF MadeOf
  <2> QED BY <1>3, <1>4, <2>1, TypeReadsBack
<1>6. ASSUME NEW f \in ParsedFields(n) PROVE ReadsAs(avps, list, f)
  BY ParsedNames, FieldReads
<1>7. parses(n, avps)
  <2>1. ASSUME NEW f \in ParsedFields(n), find_avp(avps, f) = None
        PROVE  f \notin MandatoryFields(n)
    <3>1. \A i \in 1..Len(list) : list[i][1] # f
      BY <1>6, <2>1 DEF ReadsAs
    <3> QED BY <1>1, <1>2, <3>1, Zenon DEF Has
  <2>2. ASSUME NEW f \in ParsedFields(n), find_avp(avps, f) # None
        PROVE  decodes(f, find_avp(avps, f).value)
    BY <1>6, <2>2 DEF ReadsAs
  <2> QED BY <2>1, <2>2, Zenon DEF parses
<1>8. ASSUME NEW f \in ParsedFields(n) PROVE parse(n, avps)[f] = FieldOf(list, f)
  <2>1. parse(n, avps)[f] = IF find_avp(avps, f) # None
                            THEN decode_value(f, find_avp(avps, f).value)
                            ELSE IF f = "REMOTE_SESSION_ID" THEN Num(0) ELSE None
    BY Zenon DEF parse
  <2> QED BY <1>6, <2>1, Zenon DEF ReadsAs
<1> QED BY <1>5, <1>7, <1>8 DEF Understood

-----------------------------------------------------------------------------
(* A message on the wire *)

\* w is what encode() returns for a message.
Wired(hdr, avps, key, w) ==
    /\ IsHeader(hdr) /\ avps \in Seq(Avps) /\ encodes_message(avps, key)
    /\ w = encode_message(hdr, avps, key)

\* The bytes of the AVPs follow the twelve of the header.
InTwo(hdr, w, e) ==
    /\ w \in Seq(Byte) /\ e \in Seq(Byte) /\ Len(w) \in Word
    /\ Len(w) = 12 + Len(e)
    /\ HeaderAs(hdr, Len(w), Header(hdr, Len(w)))
    /\ \A i \in 1..12 : w[i] = Header(hdr, Len(w))[i]
    /\ \A i \in 1..Len(e) : w[12 + i] = e[i]

LEMMA WireInTwo ==
  ASSUME NEW hdr, NEW avps, NEW key, NEW w, Wired(hdr, avps, key, w)
  PROVE  Encodable(avps, key) /\ InTwo(hdr, w, EncodeAll(avps, key))
<1>1. IsHeader(hdr) /\ avps \in Seq(Avps) /\ encodes_message(avps, key)
  BY DEF Wired
<1>2. Encodable(avps, key)
  <2>1. ASSUME NEW i \in 1..Len(avps) PROVE encode(avps[i], key) \in Seq(Byte)
    <3>1. avps[i] \in Avps
      BY <1>1, ElementOfSeq
    <3>2. encodes(avps[i], key)
      BY <1>1 DEF encodes_message
    <3> QED BY <3>1, <3>2, EncodeType
  <2> QED BY <1>1, <2>1 DEF Encodable
<1>3. PICK e \in Seq(Byte) : e = EncodeAll(avps, key)
  BY <1>2, EncodeAllType
<1>4. PICK n \in Nat : n = 12 + Len(e)
  OBVIOUS
<1>5. PICK h : h = Header(hdr, n) /\ HeaderAs(hdr, n, h)
  BY <1>1, HeaderBytes
<1>6. h \in Seq(Whole) /\ Len(h) = 12
  BY <1>5 DEF HeaderAs
<1>7. e \in Seq(Whole)
  <2>1. Byte \subseteq Whole
    BY ByteIs DEF Whole
  <2> QED BY <2>1, SeqMonotonic
<1>8. w = h \o e
  BY <1>3, <1>4, <1>5 DEF Wired, encode_message
<1>9. /\ Len(w) = Len(h) + Len(e)
      /\ \A i \in 1..Len(h) : w[i] = h[i]
      /\ \A i \in 1..Len(e) : w[Len(h) + i] = e[i]
  <2>1. h \in Seq(Whole)
    BY <1>6
  <2> QED BY <1>7, <1>8, <2>1, Concat
<1>10. Len(w) = n
  BY <1>4, <1>6, <1>9
<1>11. n \in Word
  <2>1. n <= 65535
    BY <1>1, <1>3, <1>4 DEF encodes_message
  <2> QED BY <2>1, WordIs
<1>12. w \in Seq(Byte)
  BY <1>1, MessageBytes DEF Wired
<1>13. /\ \A i \in 1..12 : w[i] = h[i]
       /\ \A i \in 1..Len(e) : w[12 + i] = e[i]
  BY <1>6, <1>9
<1> QED BY <1>2, <1>3, <1>4, <1>5, <1>10, <1>11, <1>12, <1>13 DEF InTwo

\* The receiver takes the header of a message, and reads it as it was written.
LEMMA HeaderReadsBack ==
  ASSUME NEW hdr, IsHeader(hdr), NEW w, NEW e, InTwo(hdr, w, e)
  PROVE  decodes_header(w) /\ decode_header(w) = hdr
<1>1. PICK n \in Word : n = Len(w)
  BY DEF InTwo
<1>2. n \in Nat /\ n >= 12
  <2>1. Len(e) \in Nat /\ n = 12 + Len(e)
    BY <1>1 DEF InTwo
  <2> QED BY <2>1
<1>3. PICK h : h = Header(hdr, n)
  OBVIOUS
<1>4. HeaderAs(hdr, n, h) /\ \A i \in 1..12 : w[i] = h[i]
  BY <1>1, <1>3 DEF InTwo
<1>5. h[1] = 200 /\ h[2] = 3 /\ h[3] = n \div 256 /\ h[4] = n % 256
  BY <1>4 DEF HeaderAs
<1>6. w[1] = h[1] /\ w[2] = h[2] /\ w[3] = h[3] /\ w[4] = h[4]
  BY <1>4
<1>7. 256 * (n \div 256) + (n % 256) = n
  BY U16Bytes
<1>8. u16(w, 2) = n
  <2>1. 2 + 1 = 3 /\ 2 + 2 = 4
    OBVIOUS
  <2> QED BY <1>5, <1>6, <1>7, <2>1 DEF u16
<1>9. decodes_header(w)
  BY <1>1, <1>2, <1>5, <1>6, <1>8 DEF decodes_header
<1>10. PICK g : g = decode_header(w)
  OBVIOUS
<1>11. w \in Seq(Byte)
  BY DEF InTwo
<1>12. IsHeader(g) /\ Header(g, n) = SubSeq(w, 1, 12)
  BY <1>1, <1>9, <1>10, <1>11, HeaderDecoded
<1>13. PICK s : s = SubSeq(w, 1, 12)
  OBVIOUS
<1>14. s \in Seq(Byte) /\ Len(s) = 12 /\ \A i \in 1..12 : s[i] = w[i]
  <2>1. 1 \in Int /\ 12 \in Int /\ 1 <= 1 /\ 1 <= 12 + 1 /\ 12 <= Len(w)
    BY <1>1, <1>2
  <2>2. /\ s \in Seq(Byte) /\ Len(s) = 12 - 1 + 1
        /\ \A i \in 1..(12 - 1 + 1) : s[i] = w[1 + i - 1]
    BY <1>11, <1>13, <2>1, PartOf
  <2>3. 12 - 1 + 1 = 12 /\ \A j \in 1..12 : 1 + j - 1 = j
    OBVIOUS
  <2> QED BY <2>2, <2>3
<1>15. h = s
  <2>1. Byte \subseteq Whole
    BY ByteIs DEF Whole
  <2>2. s \in Seq(Whole)
    BY <1>14, <2>1, SeqMonotonic
  <2>3. h \in Seq(Whole) /\ Len(h) = 12
    BY <1>4 DEF HeaderAs
  <2> QED BY <1>4, <1>14, <2>2, <2>3, SeqEqual, ZenonT(90)
<1>16. Header(g, n) = Header(hdr, n)
  BY <1>3, <1>12, <1>13, <1>15
<1>17. <<>> \in Seq(Byte) /\ Header(g, n) \o <<>> = Header(hdr, n) \o <<>>
  BY <1>16
<1>18. g = hdr
  BY <1>2, <1>12, <1>17, HeaderInjective
<1> QED BY <1>9, <1>10, <1>18

\* A message with a hidden AVP: the Random Vector is the AVP before it.
IsHiding(avps, key) ==
    /\ key = RandomVector /\ Len(avps) = 3
    /\ Plain(avps[1]) /\ Plain(avps[2])
    /\ Matches(avps[2], "RANDOM_VECTOR") /\ avps[2].value = RandomVector
    /\ avps[3].hidden /\ avps[3].attribute_type = AttrType.HOST_NAME

\* Every AVP is plain, or can be read with the Random Vector before it.
Legible(avps, key) == (key = None /\ AllPlain(avps)) \/ IsHiding(avps, key)

\* What decode_one makes of the bytes at an offset.
ReadAt(w, off, rv, a, next) ==
    /\ decodes_one(w, off, rv) /\ decode_one(w, off, rv) = a
    /\ off + TotalLen(w, off) = next /\ off < Len(w)

\* With the random vector read before it, decode_one reads AVP k + 1.
LEMMA NextReadsBack ==
  ASSUME NEW hdr, NEW avps, NEW key, NEW w, Wired(hdr, avps, key, w), Legible(avps, key),
         NEW k \in Nat, k < Len(avps), NEW first \in Seq(Avps), Len(first) = k,
         Agree(first, avps, k), NEW rv, key # None /\ k = 2 => rv = key
  PROVE  ReadAt(w, 12 + Len(EncodeAll(first, key)), rv, avps[k + 1],
                12 + Len(EncodeAll(Append(first, avps[k + 1]), key)))
<1>1. Encodable(avps, key) /\ InTwo(hdr, w, EncodeAll(avps, key))
  BY WireInTwo
<1>2. PICK a, p, e, all : /\ a = avps[k + 1] /\ p = EncodeAll(first, key)
                          /\ e = encode(a, key) /\ all = EncodeAll(avps, key)
  OBVIOUS
<1>3. Follows(avps, key, first, a)
  BY <1>1, <1>2, NextFollows
<1>4. /\ p \in Seq(Byte) /\ e \in Seq(Byte) /\ all \in Seq(Byte)
      /\ EncodeAll(Append(first, a), key) = p \o e
      /\ Len(p) + Len(e) <= Len(all) /\ HasAt(all, Len(p), e)
  BY <1>2, <1>3 DEF Follows
<1>5. PICK lp \in Nat, le \in Nat, la \in Nat : lp = Len(p) /\ le = Len(e) /\ la = Len(all)
  BY <1>4
<1>6. lp + le <= la /\ \A i \in 1..le : all[lp + i] = e[i]
  BY <1>4, <1>5 DEF HasAt
<1>7. w \in Seq(Byte) /\ Len(w) = 12 + la /\ \A i \in 1..la : w[12 + i] = all[i]
  BY <1>1, <1>2, <1>5 DEF InTwo
<1>8. PICK off \in Nat : off = 12 + lp
  OBVIOUS
<1>9. off + Len(e) <= Len(w) /\ HasAt(w, off, e)
  <2>1. off + le <= 12 + la
    BY <1>6, <1>8
  <2>2. ASSUME NEW i \in 1..le PROVE w[off + i] = e[i]
    <3>1. lp + i \in 1..la /\ off + i = 12 + (lp + i)
      BY <1>6, <1>8
    <3> QED BY <1>6, <1>7, <3>1
  <2> QED BY <1>5, <1>7, <2>1, <2>2 DEF HasAt
<1>10. /\ decodes_one(w, off, rv) /\ decode_one(w, off, rv) = a
       /\ TotalLen(w, off) = Len(e)
  <2>1. CASE Plain(a)
    <3>1. EncodedAs(a, e)
      BY <1>2, <2>1, EncodeBytes
    <3> QED BY <1>7, <1>9, <2>1, <3>1, DecodeEncoded
  <2>2. CASE ~Plain(a)
    <3>1. Len(avps) \in Nat /\ k + 1 \in 1..Len(avps)
      BY DEF Wired
    <3>2. ~AllPlain(avps)
      BY <1>2, <2>2, <3>1 DEF AllPlain
    <3>3. IsHiding(avps, key)
      BY <3>2 DEF Legible
    <3>4. k = 2
      <4>1. k \in {0, 1, 2}
        BY <3>1, <3>3 DEF IsHiding
      <4> QED BY <1>2, <2>2, <3>3, <4>1 DEF IsHiding
    <3>5. key = RandomVector /\ key # None
      BY <3>3, NotNone, WireAssumption DEF IsHiding
    <3>6. rv = key
      BY <3>4, <3>5
    <3>7. a.hidden /\ a.attribute_type = AttrType.HOST_NAME
      BY <1>2, <3>3, <3>4 DEF IsHiding
    <3>8. a \in Avps /\ encodes(a, key)
      BY <1>2, <3>1 DEF Wired, encodes_message
    <3>9. StreamBytes(a.attribute_type, key, 1017)
      BY <3>5, <3>7, KeystreamAssumption, ZenonT(90) DEF StreamBytes
    <3> QED BY <1>2, <1>7, <1>9, <3>6, <3>7, <3>8, <3>9, DecodeHidden
  <2> QED BY <2>1, <2>2
<1>11. le >= 6
  BY <1>5, <1>10 DEF decodes_one
<1>12. Len(p \o e) = lp + le
  BY <1>4, <1>5, Concat
<1>13. off + TotalLen(w, off) = 12 + Len(EncodeAll(Append(first, a), key)) /\ off < Len(w)
  <2>1. off + le = 12 + (lp + le) /\ off < 12 + la
    BY <1>6, <1>8, <1>11
  <2>2. TotalLen(w, off) = le /\ Len(EncodeAll(Append(first, a), key)) = lp + le
    BY <1>4, <1>5, <1>10, <1>12
  <2> QED BY <1>7, <2>1, <2>2
<1> QED BY <1>2, <1>5, <1>8, <1>10, <1>13 DEF ReadAt

-----------------------------------------------------------------------------
(* From the configuration of the sender to the fields of the receiver *)

\* A ZLB is understood: it has no type, and nothing is read.
LEMMA EmptyUnderstood == Understood(<<>>, <<>>)
<1>1. <<>> \in Seq(Avps) /\ Len(<<>>) = 0
  OBVIOUS
<1>2. find_avp(<<>>, "MESSAGE_TYPE") = None
  <2>1. PICK e \in Seq(Avps) : e = <<>> /\ Len(e) = 0
    BY <1>1
  <2>2. PICK k : /\ IsFirst(k, {i \in 1..Len(e) : Matches(e[i], "MESSAGE_TYPE")}, Len(e))
                 /\ find_avp(e, "MESSAGE_TYPE") = IF k = 0 THEN None ELSE e[k]
    BY FindAvp
  <2>3. k = 0
    BY <2>1, <2>2 DEF IsFirst
  <2> QED BY <2>1, <2>2, <2>3
<1>3. get_message_type(<<>>) = None
  BY <1>2 DEF get_message_type
<1>4. ParsedFields(None) = {}
  <2>1. None \notin {1, 2} /\ None # 4 /\ None \notin {10, 11, 12} /\ None # 14
    BY AbsentAssumption
  <2> QED BY <2>1 DEF ParsedFields, MandatoryFields
<1>5. parses(None, <<>>)
  BY <1>4 DEF parses
<1> QED BY <1>2, <1>3, <1>4, <1>5 DEF Understood

\* So is a HELLO, whatever it carries.
LEMMA HelloUnderstood ==
  ASSUME NEW avps \in Seq(Avps), Len(avps) >= 1,
         avps[1] = build("MESSAGE_TYPE", Num(MessageType.HELLO))
  PROVE  Understood(avps, None)
<1>1. MessageType.HELLO = 6 /\ 6 \in Word
  BY WordIs, SMT DEF MessageType
<1>2. avps[1] = build("MESSAGE_TYPE", Num(6))
  BY <1>1
<1>3. /\ decodes("MESSAGE_TYPE", find_avp(avps, "MESSAGE_TYPE").value)
      /\ get_message_type(avps) = 6
  BY <1>1, <1>2, TypeReadsBack
<1>4. ParsedFields(6) = {}
  BY DEF ParsedFields, MandatoryFields
<1>5. parses(6, avps)
  BY <1>4 DEF parses
<1> QED BY <1>3, <1>5 DEF Understood

\* The AVPs that Tunnel._send encodes are those of the fields it was given, and
\* with a password a Message Digest.
LEMMA SendMadeOf ==
  ASSUME NEW t, TunnelTyped(t), NEW list \in Seq(Built), BuildsAll(list),
         NEW avps, avps = IF t.password = None THEN BuildAll(list)
                          ELSE Signed(t.digest_alg, BuildAll(list))
  PROVE  MadeOf(avps, list)
<1>1. PICK built \in Seq(Avps) : built = BuildAll(list)
  BY BuildAllType DEF IsBody
<1>2. PICK n \in Nat : n = Len(list) /\ DOMAIN list = 1..n
  OBVIOUS
<1>3. built = [i \in 1..n |-> build(list[i][1], list[i][2])]
  BY <1>1, <1>2 DEF BuildAll
<1>4. Len(built) = n /\ \A i \in 1..n : built[i] = build(list[i][1], list[i][2])
  BY <1>3
<1>5. CASE t.password = None
  <2>1. avps = built
    BY <1>1, <1>5
  <2>2. \A i \in 1..Len(avps) : i > Len(list) => IsDigest(avps[i])
    BY <1>2, <1>4, <2>1
  <2> QED BY <1>2, <1>4, <2>1, <2>2 DEF MadeOf
<1>6. CASE t.password # None
  <2>1. PICK d \in Avps : d = Digest(t.digest_alg, Hmac(t.digest_alg)) /\ IsDigest(d)
    <3>1. PICK d, v : /\ d = Digest(t.digest_alg, Hmac(t.digest_alg)) /\ Plain(d)
                      /\ d = [ attribute_type |-> AttrType.MESSAGE_DIGEST, vendor_id |-> 0,
                               hidden |-> FALSE, mandatory |-> TRUE, value |-> v ]
      BY DigestType DEF TunnelTyped
    <3> QED BY <3>1 DEF IsDigest, Plain
  <2>2. avps = Append(built, d)
    BY <1>1, <1>6, <2>1 DEF Signed
  <2>3. /\ avps \in Seq(Avps) /\ Len(avps) = n + 1 /\ avps[n + 1] = d
        /\ \A i \in 1..n : avps[i] = built[i]
    BY <1>4, <2>2, SMTT(60)
  <2>4. ASSUME NEW i \in 1..Len(avps), i > n PROVE IsDigest(avps[i])
    <3>1. i = n + 1
      BY <2>3, <2>4
    <3> QED BY <2>1, <2>3, <3>1
  <2>5. \A i \in 1..Len(list) : avps[i] = build(list[i][1], list[i][2])
    BY <1>2, <1>4, <2>3
  <2>6. Len(list) <= Len(avps)
    BY <1>2, <2>3
  <2> QED BY <1>2, <2>3, <2>4, <2>5, <2>6 DEF MadeOf
<1> QED BY <1>5, <1>6

\* A signed message passes at an end with the same secret and algorithm.
LEMMA SignedVerifies ==
  ASSUME NEW t, NEW hdr, NEW avps, NEW key, NEW mac, IsSigned(t, hdr, avps, key, mac)
  PROVE  verifies(t.password, t.digest_alg, hdr, avps, mac)
<1>1. PICK alg \in {0, 1} : alg = t.digest_alg
  BY DEF IsSigned
<1>2. PICK built : /\ AllPlain(built) /\ IsBody(built)
                   /\ avps = Signed(alg, built)
                   /\ mac = [secret |-> t.password, alg |-> alg,
                             bytes |-> SignedBytes(alg, hdr, built)]
  BY <1>1 DEF IsSigned
<1>3. PICK n \in Nat : n = Len(built) /\ built \in Seq(Avps)
                      /\ \A i \in 1..n : ~IsDigest(built[i])
  BY <1>2 DEF IsBody
<1>4. PICK v : v = <<alg>> \o Hmac(alg)
  OBVIOUS
<1>5. PICK d : /\ d = Digest(alg, Hmac(alg)) /\ Plain(d)
               /\ d = [ attribute_type |-> AttrType.MESSAGE_DIGEST, vendor_id |-> 0,
                        hidden |-> FALSE, mandatory |-> TRUE, value |-> v ]
  BY <1>4, DigestType
<1>6. d \in Avps /\ IsDigest(d) /\ d.value = v
  BY <1>5 DEF IsDigest, Plain
<1>7. /\ avps \in Seq(Avps) /\ Len(avps) = n + 1 /\ avps[n + 1] = d
      /\ \A i \in 1..n : avps[i] = built[i]
  <2>1. avps = Append(built, d)
    BY <1>2, <1>5 DEF Signed
  <2> QED BY <1>3, <1>6, <2>1
<1>8. find_avp(avps, "MESSAGE_DIGEST") = d /\ d # None
  <2>1. PICK k : /\ IsFirst(k, {i \in 1..Len(avps) : Matches(avps[i], "MESSAGE_DIGEST")}, Len(avps))
                 /\ find_avp(avps, "MESSAGE_DIGEST") = IF k = 0 THEN None ELSE avps[k]
    BY <1>7, FindAvp
  <2>2. PICK I : I = {i \in 1..Len(avps) : Matches(avps[i], "MESSAGE_DIGEST")}
    OBVIOUS
  <2>3. \A a : Matches(a, "MESSAGE_DIGEST") <=> IsDigest(a)
    BY DEF Matches, IsDigest
  <2>4. n + 1 \in I /\ \A i \in I : i \in 1..(n + 1) /\ IsDigest(avps[i])
    BY <1>6, <1>7, <2>2, <2>3
  <2>5. IsFirst(k, I, n + 1)
    BY <1>7, <2>1, <2>2
  <2>6. k \in I
    BY <2>4, <2>5 DEF IsFirst
  <2>7. k = n + 1
    <3>1. ~(k \in 1..n)
      BY <1>3, <1>7, <2>4, <2>6
    <3> QED BY <2>4, <2>6, <3>1
  <2>8. find_avp(avps, "MESSAGE_DIGEST") = d
    BY <1>7, <2>1, <2>7
  <2> QED BY <1>6, <2>8, AvpNotNone
<1>9. Len(v) = 1 + digest_size(alg)
  <2>1. PICK m \in Nat : m = digest_size(alg)
    BY DEF digest_size
  <2>2. PICK h : h = [i \in 1..m |-> 255]
    OBVIOUS
  <2>3. Hmac(alg) = h /\ h \in Seq(Int) /\ Len(h) = m
    <3>1. h \in [1..m -> Int]
      BY <2>2
    <3> QED BY <2>1, <2>2, <3>1, FunctionSeq DEF Hmac
  <2>4. <<alg>> \in Seq(Int) /\ Len(<<alg>>) = 1
    OBVIOUS
  <2>5. Len(<<alg>> \o h) = Len(<<alg>>) + Len(h)
    BY <2>3, <2>4, Concat
  <2> QED BY <1>4, <2>1, <2>3, <2>4, <2>5
<1>10. zeroed_bytes(alg, hdr, avps) = SignedBytes(alg, hdr, built)
  <2>1. PICK z \in Avps : z = Zeroed(alg)
    BY DigestType DEF Plain
  <2>2. PICK zs : zs = [i \in 1..(n + 1) |-> IF IsDigest(avps[i]) THEN z ELSE avps[i]]
    OBVIOUS
  <2>3. DOMAIN avps = 1..(n + 1)
    BY <1>7
  <2>4. zeroed_bytes(alg, hdr, avps) = encode_message(hdr, zs, None)
    BY <2>1, <2>2, <2>3 DEF zeroed_bytes
  <2>5. PICK more : more = Append(built, z)
    OBVIOUS
  <2>6. /\ more \in Seq(Avps) /\ Len(more) = n + 1 /\ more[n + 1] = z
        /\ \A i \in 1..n : more[i] = built[i]
    BY <1>3, <2>5
  <2>7. ASSUME NEW i \in 1..(n + 1) PROVE zs[i] = more[i]
    <3>1. CASE i = n + 1
      BY <1>6, <1>7, <2>2, <2>6, <3>1
    <3>2. CASE i # n + 1
      <4>1. i \in 1..n
        BY <3>2
      <4> QED BY <1>3, <1>7, <2>2, <2>6, <4>1
    <3> QED BY <3>1, <3>2
  <2>8. zs \in Seq(Avps) /\ Len(zs) = n + 1
    <3>1. zs \in [1..(n + 1) -> Avps]
      BY <1>7, <2>2
    <3> QED BY <3>1, FunctionSeq
  <2>9. zs = more
    BY <2>6, <2>7, <2>8, SeqEqual
  <2> QED BY <2>1, <2>4, <2>5, <2>9 DEF SignedBytes
<1> QED BY <1>1, <1>2, <1>4, <1>6, <1>8, <1>9, <1>10 DEF verifies

\* What every message that leaves satisfies.
MessageSent(s) ==
    /\ Wired(s.hdr, s.avps, s.key, s.wire)
    /\ Legible(s.avps, s.key)
    /\ Understood(s.avps, s.fields)
    /\ s.tunnel.password \in Seq(Byte) \cup {None}
    /\ s.mac # NoMac => IsSigned(s.tunnel, s.hdr, s.avps, s.key, s.mac)

\* What has been decoded of an undamaged message is where the message begins.
\* After two AVPs the Random Vector has been read, when one AVP is hidden.
Along(g, s) ==
    /\ g.hdr = s.hdr
    /\ g.avps \in Seq(Avps) /\ Len(g.avps) <= Len(s.avps)
    /\ Agree(g.avps, s.avps, Len(g.avps))
    /\ g.pos = 12 + Len(EncodeAll(g.avps, s.key))
    /\ s.key # None /\ Len(g.avps) = 2 => g.rv = s.key

RoundInv ==
    /\ stage \in {"start", "rejected", "configured"} => sent = None
    /\ sent # None \/ stage \in {"sent", "damaged", "decoding", "verified"} => MessageSent(sent)
    /\ sent # None /\ buf = sent.wire =>
        /\ Begun => Along(got, sent)
        /\ stage \in {"verified", "accepted"} => got.avps = sent.avps
    /\ RoundTrip

\* Where the position is at the end of the datagram the message is complete.
LEMMA AlongEnds ==
  ASSUME NEW s, MessageSent(s), NEW g, Along(g, s)
  PROVE  g.pos >= Len(s.wire) <=> g.avps = s.avps
<1>1. PICK avps, key, w, hdr, first :
        avps = s.avps /\ key = s.key /\ w = s.wire /\ hdr = s.hdr /\ first = g.avps
  OBVIOUS
<1>2. Wired(hdr, avps, key, w) /\ Legible(avps, key)
  BY <1>1 DEF MessageSent
<1>3. avps \in Seq(Avps) /\ first \in Seq(Avps)
  BY <1>1, <1>2 DEF Along, Wired
<1>4. PICK k \in Nat, n \in Nat : k = Len(first) /\ n = Len(avps)
  BY <1>3
<1>5. k <= n /\ Agree(first, avps, k) /\ g.pos = 12 + Len(EncodeAll(first, key))
  BY <1>1, <1>4 DEF Along
<1>6. InTwo(hdr, w, EncodeAll(avps, key))
  BY <1>2, WireInTwo
<1>7. CASE k = n
  <2>1. first = avps
    BY <1>3, <1>4, <1>5, <1>7, SeqEqual DEF Agree
  <2>2. g.pos = Len(w) /\ Len(w) \in Word
    BY <1>5, <1>6, <2>1 DEF InTwo
  <2>3. Len(w) >= Len(w)
    BY <2>2, WordIs
  <2> QED BY <1>1, <2>1, <2>2, <2>3
<1>8. CASE k # n
  <2>1. k < n
    BY <1>5, <1>8
  <2>2. PICK rv : rv = key
    OBVIOUS
  <2>3. PICK off, next, a :
          /\ off = 12 + Len(EncodeAll(first, key)) /\ a = avps[k + 1]
          /\ next = 12 + Len(EncodeAll(Append(first, a), key))
    OBVIOUS
  <2>4. ReadAt(w, off, rv, a, next)
    BY <1>2, <1>3, <1>4, <1>5, <2>1, <2>2, <2>3, NextReadsBack
  <2>5. off < Len(w)
    BY <2>4 DEF ReadAt
  <2>6. off \in Int /\ Len(w) \in Int
    <3>1. Len(w) \in Int
      BY <1>6, WordIs DEF InTwo
    <3>2. Encodable(avps, key)
      BY <1>2, WireInTwo
    <3>3. Follows(avps, key, first, a)
      BY <1>3, <1>4, <1>5, <2>1, <2>3, <3>2, NextFollows
    <3>4. Len(EncodeAll(first, key)) \in Nat
      BY <3>3 DEF Follows
    <3> QED BY <2>3, <3>1, <3>4
  <2>7. first # avps
    BY <1>4, <1>8
  <2>8. ~(off >= Len(w))
    BY <2>5, <2>6
  <2> QED BY <1>1, <1>5, <2>3, <2>7, <2>8
<1> QED BY <1>7, <1>8

\* One more AVP.
LEMMA AlongMoves ==
  ASSUME NEW s, MessageSent(s), NEW g, Along(g, s), ~(g.pos >= Len(s.wire)),
         NEW rv, rv = IF s.key = None THEN None ELSE g.rv
  PROVE  LET a == decode_one(s.wire, g.pos, rv)
         IN  /\ decodes_one(s.wire, g.pos, rv)
             /\ \A h : /\ h.hdr = g.hdr /\ h.pos = g.pos + TotalLen(s.wire, g.pos)
                       /\ h.avps = Append(g.avps, a)
                       /\ h.rv = (IF find_avp(<<a>>, "RANDOM_VECTOR") = None THEN g.rv
                                  ELSE a.value)
                       => Along(h, s)
<1>1. PICK avps, key, w, hdr, first, pos :
        /\ avps = s.avps /\ key = s.key /\ w = s.wire /\ hdr = s.hdr
        /\ first = g.avps /\ pos = g.pos
  OBVIOUS
<1>2. Wired(hdr, avps, key, w) /\ Legible(avps, key)
  BY <1>1 DEF MessageSent
<1>3. avps \in Seq(Avps) /\ first \in Seq(Avps)
  BY <1>1, <1>2 DEF Along, Wired
<1>4. PICK k \in Nat, n \in Nat : k = Len(first) /\ n = Len(avps)
  BY <1>3
<1>5. k <= n /\ Agree(first, avps, k) /\ pos = 12 + Len(EncodeAll(first, key))
  BY <1>1, <1>4 DEF Along
<1>6. k < n
  <2>1. first # avps
    BY <1>1, AlongEnds
  <2>2. CASE k = n
    <3>1. first = avps
      BY <1>3, <1>4, <1>5, <2>2, SeqEqual DEF Agree
    <3> QED BY <2>1, <3>1
  <2> QED BY <1>5, <2>2
<1>7. PICK next, a : a = avps[k + 1] /\ next = 12 + Len(EncodeAll(Append(first, a), key))
  OBVIOUS
<1>8. key # None /\ k = 2 => rv = key
  BY <1>1, <1>4 DEF Along
<1>9. ReadAt(w, pos, rv, a, next)
  BY <1>2, <1>3, <1>4, <1>5, <1>6, <1>7, <1>8, NextReadsBack
<1>10. decodes_one(w, pos, rv) /\ decode_one(w, pos, rv) = a /\ pos + TotalLen(w, pos) = next
  BY <1>9 DEF ReadAt
<1>11. PICK more : more = Append(first, a)
  OBVIOUS
<1>12. a \in Avps
  <2>1. k + 1 \in 1..n
    BY <1>6
  <2> QED BY <1>3, <1>4, <1>7, <2>1
<1>13. /\ more \in Seq(Avps) /\ Len(more) = k + 1 /\ more[k + 1] = a
       /\ \A i \in 1..k : more[i] = first[i]
  BY <1>3, <1>4, <1>11, <1>12
<1>14. Agree(more, avps, k + 1)
  <2>1. ASSUME NEW i \in 1..(k + 1) PROVE more[i] = avps[i]
    <3>1. CASE i = k + 1
      BY <1>7, <1>13, <3>1
    <3>2. CASE i # k + 1
      <4>1. i \in 1..k
        BY <3>2
      <4> QED BY <1>5, <1>13, <4>1 DEF Agree
    <3> QED BY <3>1, <3>2
  <2> QED BY <2>1 DEF Agree
<1>15. ASSUME key # None, k + 1 = 2
       PROVE  find_avp(<<a>>, "RANDOM_VECTOR") # None /\ a.value = key
  <2>1. IsHiding(avps, key)
    BY <1>2, <1>15 DEF Legible
  <2>2. Matches(a, "RANDOM_VECTOR") /\ a.value = key
    BY <1>7, <1>15, <2>1 DEF IsHiding
  <2>3. PICK one : one = <<a>>
    OBVIOUS
  <2>4. one \in Seq(Avps) /\ Len(one) = 1 /\ one[1] = a
    BY <1>12, <2>3
  <2>5. PICK j : /\ IsFirst(j, {i \in 1..Len(one) : Matches(one[i], "RANDOM_VECTOR")}, Len(one))
                 /\ find_avp(one, "RANDOM_VECTOR") = IF j = 0 THEN None ELSE one[j]
    BY <2>4, FindAvp
  <2>6. j = 1
    <3>1. PICK I : I = {i \in 1..Len(one) : Matches(one[i], "RANDOM_VECTOR")}
      OBVIOUS
    <3>2. 1 \in I
      BY <2>2, <2>4, <3>1
    <3>3. IsFirst(j, I, 1)
      BY <2>4, <2>5, <3>1
    <3> QED BY <3>2, <3>3 DEF IsFirst
  <2>7. find_avp(one, "RANDOM_VECTOR") = a
    BY <2>4, <2>5, <2>6
  <2> QED BY <1>12, <2>2, <2>3, <2>7, AvpNotNone
<1>16. ASSUME NEW h, h.hdr = g.hdr, h.pos = pos + TotalLen(w, pos), h.avps = Append(first, a),
              h.rv = IF find_avp(<<a>>, "RANDOM_VECTOR") = None THEN g.rv ELSE a.value
       PROVE  Along(h, s)
  <2>1. h.hdr = s.hdr
    BY <1>16 DEF Along
  <2>2. h.avps = more /\ h.pos = 12 + Len(EncodeAll(more, key))
    BY <1>7, <1>10, <1>11, <1>16
  <2>3. Len(more) <= Len(avps) /\ Agree(more, avps, Len(more))
    BY <1>4, <1>6, <1>13, <1>14
  <2>4. key # None /\ Len(more) = 2 => h.rv = key
    BY <1>13, <1>15, <1>16
  <2> QED BY <1>1, <1>13, <2>1, <2>2, <2>3, <2>4 DEF Along
<1> QED BY <1>1, <1>10, <1>16

\* A datagram leaves.
LEMMA RoundTransmit ==
  ASSUME DecodeInv, stage = "configured", NEW t, TunnelTyped(t), NEW list, NEW avps \in Seq(Avps),
         NEW key, encodes_message(avps, key), Legible(avps, key), Understood(avps, list), NEW mac,
         mac # NoMac => IsSigned(t, MessageHeader(t), avps, key, mac),
         Transmit(t, list, avps, key, mac)
  PROVE  RoundInv'
<1>1. got = None
  BY DEF DecodeInv
<1>2. stage' = "sent" /\ got' = got
  BY DEF Transmit
<1>3. PICK h, w : /\ h = MessageHeader(t) /\ w = encode_message(h, avps, key)
                  /\ sent' = [tunnel |-> t, fields |-> list, hdr |-> h, avps |-> avps,
                              key |-> key, mac |-> mac, wire |-> w]
  BY DEF Transmit, MessageHeader
<1>4. /\ sent'.tunnel = t /\ sent'.fields = list /\ sent'.hdr = h /\ sent'.avps = avps
      /\ sent'.key = key /\ sent'.mac = mac /\ sent'.wire = w
  BY <1>3
<1>5. Wired(h, avps, key, w)
  BY <1>3, MessageHeaderType DEF Wired
<1>6. t.password \in Seq(Byte) \cup {None}
  BY DEF TunnelTyped
<1>7. MessageSent(sent')
  BY <1>3, <1>4, <1>5, <1>6 DEF MessageSent
<1>8. ~Begun' /\ RoundTrip'
  BY <1>1, <1>2 DEF Begun, RoundTrip
<1> QED BY <1>2, <1>7, <1>8 DEF RoundInv

\* Tunnel._send.
LEMMA RoundSend ==
  ASSUME DecodeInv, RoundInv, NEW t, TunnelTyped(t), NEW list \in Seq(Built), IsComplete(list),
         Send(t, list)
  PROVE  RoundInv'
<1>1. PICK built, avps, hdr :
        /\ built = BuildAll(list) /\ hdr = MessageHeader(t)
        /\ avps = IF t.password = None THEN built ELSE Signed(t.digest_alg, built)
  OBVIOUS
<1>2. stage = "configured"
  BY DEF Send
<1>3. CASE ~BuildsAll(list) \/ ~encodes_message(avps, None)
  <2>1. stage' = "raised" /\ UNCHANGED <<doc, cfg, table, sent, rx, buf, got>>
    BY <1>1, <1>3 DEF Send
  <2>2. sent = None
    BY <1>2 DEF RoundInv
  <2> QED BY <2>1, <2>2 DEF RoundInv, RoundTrip
<1>4. CASE BuildsAll(list) /\ encodes_message(avps, None)
  <2>1. PICK mac : mac = [secret |-> t.password, alg |-> t.digest_alg,
                          bytes |-> SignedBytes(t.digest_alg, hdr, built)]
    OBVIOUS
  <2>2. Transmit(t, list, avps, None, IF t.password = None THEN NoMac ELSE mac)
    BY <1>1, <1>4, <2>1 DEF Send, MessageHeader
  <2>3. AllPlain(avps)
    BY <1>1, <1>4, SendAvps
  <2>4. avps \in Seq(Avps) /\ Legible(avps, None)
    BY <2>3 DEF Legible, AllPlain
  <2>5. Understood(avps, list)
    BY <1>1, <1>4, SendMadeOf, CompleteUnderstood
  <2>6. CASE t.password = None
    <3>1. Transmit(t, list, avps, None, NoMac)
      BY <2>2, <2>6
    <3> QED BY <1>2, <1>4, <2>4, <2>5, <3>1, RoundTransmit
  <2>7. CASE t.password # None
    <3>1. Transmit(t, list, avps, None, mac)
      BY <2>2, <2>7
    <3>2. avps = Signed(t.digest_alg, built)
      BY <1>1, <2>7
    <3>3. IsSigned(t, hdr, avps, None, mac)
      BY <1>1, <1>4, <2>1, <2>7, <3>2, SendSigned
    <3>4. IsSigned(t, MessageHeader(t), avps, None, mac)
      BY <1>1, <3>3
    <3> QED BY <1>2, <1>4, <2>4, <2>5, <3>1, <3>4, RoundTransmit
  <2> QED BY <2>6, <2>7
<1> QED BY <1>3, <1>4

\* A message with a hidden AVP.
LEMMA HiddenLegible ==
  ASSUME NEW t, TunnelTyped(t), NEW avps,
         avps = << build("MESSAGE_TYPE", Num(MessageType.HELLO)),
                   build("RANDOM_VECTOR", RandomVector),
                   [build("HOST_NAME", t.host_name) EXCEPT !.hidden = TRUE] >>,
         encodes_message(avps, RandomVector)
  PROVE  avps \in Seq(Avps) /\ Legible(avps, RandomVector) /\ Understood(avps, None)
<1>1. avps \in Seq(Avps)
  BY HiddenAvps
<1>2. PICK a, b, c, d : /\ a = build("MESSAGE_TYPE", Num(MessageType.HELLO))
                        /\ b = build("RANDOM_VECTOR", RandomVector)
                        /\ d = build("HOST_NAME", t.host_name)
                        /\ c = [d EXCEPT !.hidden = TRUE]
  OBVIOUS
<1>3. avps = <<a, b, c>>
  BY <1>2, Zenon
<1>4. Len(avps) = 3 /\ avps[1] = a /\ avps[2] = b /\ avps[3] = c
  BY <1>3
<1>5. ~a.hidden /\ ~b.hidden
  BY <1>2 DEF build
<1>6. a \in Avps /\ b \in Avps
  BY <1>1, <1>4
<1>7. encodes(a, RandomVector) /\ encodes(b, RandomVector)
  <2>1. 1 \in DOMAIN avps /\ 2 \in DOMAIN avps
    BY <1>1, <1>4
  <2> QED BY <1>4, <2>1 DEF encodes_message
<1>8. ASSUME NEW x \in Avps, ~x.hidden, encodes(x, RandomVector) PROVE Plain(x)
  <2>1. PICK n \in Nat : n = Len(x.value)
    <3>1. x.value \in Seq(Byte)
      BY DEF Avps
    <3> QED BY <3>1
  <2>2. 6 + n <= 1023
    BY <1>8, <2>1 DEF encodes, value_field
  <2>3. n <= 1017
    BY <2>2
  <2> QED BY <1>8, <2>1, <2>3 DEF Plain
<1>9. Plain(a) /\ Plain(b)
  BY <1>5, <1>6, <1>7, <1>8
<1>10. Matches(b, "RANDOM_VECTOR") /\ b.value = RandomVector
  <2>1. "RANDOM_VECTOR" \notin DOMAIN Digits
    BY DEF Digits
  <2> QED BY <1>2, <2>1 DEF Matches, build
<1>11. c.hidden /\ c.attribute_type = AttrType.HOST_NAME
  <2>1. PICK y, u, f, m, v : d = [ attribute_type |-> y, vendor_id |-> u, hidden |-> f,
                                   mandatory |-> m, value |-> v ]
                             /\ y = AttrType.HOST_NAME
    BY <1>2 DEF build
  <2> QED BY <1>2, <2>1
<1>12. Legible(avps, RandomVector)
  BY <1>4, <1>9, <1>10, <1>11 DEF Legible, IsHiding
<1>13. Understood(avps, None)
  <2>1. Len(avps) >= 1 /\ avps[1] = build("MESSAGE_TYPE", Num(MessageType.HELLO))
    BY <1>2, <1>4
  <2> QED BY <1>1, <2>1, HelloUnderstood
<1> QED BY <1>1, <1>12, <1>13

\* Every message the daemon sends.
LEMMA RoundSendStep ==
  ASSUME DecodeInv, RoundInv, SendTunnel \/ SendSession \/ SendAck \/ SendHidden
  PROVE  RoundInv'
<1>1. CASE SendTunnel \/ SendSession
  BY <1>1, SendCases, RoundSend
<1>2. CASE SendAck
  <2>1. PICK i \in DOMAIN cfg : stage = "configured" /\ Transmit(cfg[i], <<>>, <<>>, None, NoMac)
    BY <1>2 DEF SendAck
  <2>2. TunnelTyped(cfg[i])
    BY DEF DecodeInv
  <2>3. <<>> \in Seq(Avps) /\ Len(<<>>) = 0
    OBVIOUS
  <2>4. Legible(<<>>, None)
    BY <2>3 DEF Legible, AllPlain
  <2> QED BY <2>1, <2>2, <2>4, EmptyEncodes, EmptyUnderstood, RoundTransmit
<1>3. CASE SendHidden
  <2>1. PICK i \in DOMAIN cfg :
          LET avps == << build("MESSAGE_TYPE", Num(MessageType.HELLO)),
                         build("RANDOM_VECTOR", RandomVector),
                         [build("HOST_NAME", cfg[i].host_name) EXCEPT !.hidden = TRUE] >>
          IN  /\ stage = "configured"
              /\ encodes_message(avps, RandomVector)
              /\ Transmit(cfg[i], None, avps, RandomVector, NoMac)
    BY <1>3 DEF SendHidden
  <2>2. TunnelTyped(cfg[i])
    BY DEF DecodeInv
  <2>3. PICK avps :
          /\ avps = << build("MESSAGE_TYPE", Num(MessageType.HELLO)),
                       build("RANDOM_VECTOR", RandomVector),
                       [build("HOST_NAME", cfg[i].host_name) EXCEPT !.hidden = TRUE] >>
          /\ stage = "configured"
          /\ encodes_message(avps, RandomVector)
          /\ Transmit(cfg[i], None, avps, RandomVector, NoMac)
    BY <2>1
  <2>4. avps \in Seq(Avps) /\ Legible(avps, RandomVector) /\ Understood(avps, None)
    BY <2>2, <2>3, HiddenLegible
  <2> QED BY <2>2, <2>3, <2>4, RoundTransmit
<1> QED BY <1>1, <1>2, <1>3

\* The file, the network and the header.
LEMMA RoundHeaderStep ==
  ASSUME DecodeInv, RoundInv, Load \/ Flip \/ Truncate \/ DecodeHeader
  PROVE  RoundInv'
<1>1. CASE Load
  <2>1. stage = "start" /\ stage' \in {"configured", "rejected"} /\ sent' = sent
    BY <1>1 DEF Load
  <2>2. sent = None
    BY <2>1 DEF RoundInv
  <2> QED BY <2>1, <2>2 DEF RoundInv, RoundTrip
<1>2. CASE Flip \/ Truncate
  <2>1. stage = "sent" /\ stage' = "damaged" /\ UNCHANGED <<sent, got>>
    BY <1>2 DEF Flip, Truncate
  <2>2. got = None
    BY <2>1 DEF DecodeInv
  <2>3. ~Begun' /\ RoundTrip'
    BY <2>1, <2>2 DEF Begun, RoundTrip
  <2> QED BY <2>1, <2>3 DEF RoundInv
<1>3. CASE DecodeHeader
  <2>1. /\ stage \in {"sent", "damaged"} /\ UNCHANGED <<sent, buf>>
        /\ stage' \in {"decoding", "dropped"}
    BY <1>3 DEF DecodeHeader
  <2>2. MessageSent(sent)
    BY <2>1 DEF RoundInv
  <2>3. ASSUME sent # None, buf = sent.wire
        PROVE  stage' = "decoding" /\ Along(got', sent)
    <3>1. PICK s : s = sent
      OBVIOUS
    <3>2. MessageSent(s) /\ buf = s.wire
      BY <2>2, <2>3, <3>1
    <3>3. Wired(s.hdr, s.avps, s.key, buf)
      BY <3>2 DEF MessageSent
    <3>4. IsHeader(s.hdr) /\ InTwo(s.hdr, buf, EncodeAll(s.avps, s.key)) /\ s.avps \in Seq(Avps)
      BY <3>3, WireInTwo DEF Wired
    <3>5. decodes_header(buf) /\ decode_header(buf) = s.hdr
      BY <3>4, HeaderReadsBack
    <3>6. PICK h : h = s.hdr
      OBVIOUS
    <3>7. /\ got' = [hdr |-> h, pos |-> 12, rv |-> None, avps |-> <<>>, fields |-> None]
          /\ stage' = "decoding"
      BY <1>3, <3>5, <3>6 DEF DecodeHeader
    <3>8. got'.hdr = h /\ got'.pos = 12 /\ got'.avps = <<>>
      BY <3>7
    <3>9. <<>> \in Seq(Avps) /\ Len(<<>>) = 0
      OBVIOUS
    <3>10. EncodeAll(<<>>, s.key) = <<>>
      <4>1. PICK e : e = [i \in DOMAIN <<>> |-> encode(<<>>[i], s.key)]
        OBVIOUS
      <4>2. e = <<>>
        BY <4>1
      <4> QED BY <4>1, <4>2, FlattenEmpty DEF EncodeAll
    <3>11. 0 <= Len(s.avps)
      BY <3>4
    <3>12. Agree(<<>>, s.avps, 0)
      BY DEF Agree
    <3> QED BY <3>1, <3>6, <3>7, <3>8, <3>9, <3>10, <3>11, <3>12 DEF Along
  <2>4. RoundTrip'
    BY <2>1, <2>3 DEF RoundTrip
  <2> QED BY <2>1, <2>2, <2>3, <2>4 DEF RoundInv
<1> QED BY <1>1, <1>2, <1>3

\* One more AVP of an undamaged message.
LEMMA RoundAvpStep ==
  ASSUME DecodeInv, RoundInv, DecodeAvp
  PROVE  RoundInv'
<1>1. /\ stage = "decoding" /\ UNCHANGED <<sent, buf>> /\ stage' \in {"decoding", "dropped"}
  BY DEF DecodeAvp
<1>2. Begun /\ IsGot(got) /\ buf \in Seq(Byte) /\ Decoded(got, buf)
  BY <1>1 DEF Begun, DecodeInv
<1>3. MessageSent(sent)
  BY <1>1 DEF RoundInv
<1>4. ASSUME sent # None, buf = sent.wire
      PROVE  stage' = "decoding" /\ Along(got', sent)
  <2>1. PICK s : s = sent
    OBVIOUS
  <2>2. MessageSent(s) /\ Along(got, s) /\ buf = s.wire
    BY <1>2, <1>3, <1>4, <2>1 DEF RoundInv
  <2>3. PICK rv : rv = IF s.key = None THEN None ELSE got.rv
    OBVIOUS
  <2>4. PICK a : a = decode_one(buf, got.pos, rv)
    OBVIOUS
  <2>5. ~(got.pos >= Len(buf))
    <3>1. got.pos < Len(buf)
      BY DEF DecodeAvp
    <3>2. got.pos \in Int /\ Len(buf) \in Int
      BY <1>2 DEF Decoded
    <3> QED BY <3>1, <3>2
  <2>6. /\ decodes_one(buf, got.pos, rv)
        /\ \A h : /\ h.hdr = got.hdr /\ h.pos = got.pos + TotalLen(buf, got.pos)
                  /\ h.avps = Append(got.avps, a)
                  /\ h.rv = (IF find_avp(<<a>>, "RANDOM_VECTOR") = None THEN got.rv ELSE a.value)
                  => Along(h, s)
    BY <2>2, <2>3, <2>4, <2>5, AlongMoves
  <2>7. PICK v : v = IF find_avp(<<a>>, "RANDOM_VECTOR") = None THEN got.rv ELSE a.value
    OBVIOUS
  <2>8. /\ stage' = stage
        /\ got' = [got EXCEPT !.pos  = @ + TotalLen(buf, got.pos),
                              !.avps = Append(@, a), !.rv = v]
    BY <2>1, <2>3, <2>4, <2>6, <2>7 DEF DecodeAvp
  <2>9. PICK h, p, r, as, f :
          got = [hdr |-> h, pos |-> p, rv |-> r, avps |-> as, fields |-> f]
    BY <1>2 DEF IsGot
  <2>10. /\ got'.hdr = got.hdr /\ got'.pos = got.pos + TotalLen(buf, got.pos)
         /\ got'.avps = Append(got.avps, a) /\ got'.rv = v
    BY <2>8, <2>9
  <2> QED BY <1>1, <2>1, <2>6, <2>7, <2>8, <2>10
<1>5. RoundTrip'
  BY <1>1, <1>4 DEF RoundTrip
<1> QED BY <1>1, <1>3, <1>4, <1>5 DEF RoundInv

\* What a receiver is configured with.
LEMMA ReceiverType ==
  ASSUME NEW t, t.password \in Seq(Byte) \cup {None}, NEW c \in Receivers(t)
  PROVE  /\ \E p, alg : alg \in {0, 1} /\ c = [password |-> p, alg |-> alg]
                        /\ p \in Seq(Byte) \cup {None}
         /\ c # None
<1>1. PICK q : q = t.password
  OBVIOUS
<1>2. PICK p \in {q, None} \cup (IF q = None THEN {} ELSE {Append(q, 0)}), alg \in {0, 1} :
        c = [password |-> p, alg |-> alg]
  BY <1>1 DEF Receivers
<1>3. p \in Seq(Byte) \cup {None}
  <2>1. 0 \in Byte
    BY ByteIs
  <2>2. q # None => Append(q, 0) \in Seq(Byte)
    BY <1>1, <2>1
  <2> QED BY <1>1, <1>2, <2>2
<1>4. c # None
  <2>1. c \in [password : Seq(Byte) \cup {None}, alg : {0, 1}]
    BY <1>2, <1>3
  <2> QED BY <2>1, AbsentAssumption
<1> QED BY <1>2, <1>3, <1>4

\* The end of the datagram is the end of the message, and an end that agrees
\* takes the message.
LEMMA RoundVerifyStep ==
  ASSUME DecodeInv, RoundInv, Verify
  PROVE  RoundInv'
<1>1. /\ stage = "decoding" /\ UNCHANGED <<sent, buf, got>> /\ stage' \in {"verified", "dropped"}
  BY DEF Verify
<1>2. Begun /\ MessageSent(sent)
  BY <1>1 DEF Begun, RoundInv
<1>3. ASSUME sent # None, buf = sent.wire
      PROVE  /\ Along(got, sent) /\ got.avps = sent.avps
             /\ stage' = "dropped" => rx' # None /\ ~Agreed'
  <2>1. PICK s : s = sent
    OBVIOUS
  <2>2. MessageSent(s) /\ Along(got, s)
    BY <1>2, <1>3, <2>1 DEF RoundInv
  <2>3. got.avps = s.avps /\ got.hdr = s.hdr
    <3>1. got.pos >= Len(s.wire)
      BY <1>3, <2>1 DEF Verify
    <3> QED BY <2>2, <3>1, AlongEnds DEF Along
  <2>4. PICK p, alg : /\ alg \in {0, 1} /\ rx' = [password |-> p, alg |-> alg]
                      /\ p \in Seq(Byte) \cup {None}
    BY <2>1, <2>2, ReceiverType DEF Verify, MessageSent
  <2>5. rx' # None
    BY <2>1, <2>2, ReceiverType DEF Verify, MessageSent
  <2>6. ASSUME Agreed' PROVE stage' = "verified"
    <3>1. CASE p = None
      BY <2>4, <3>1 DEF Verify
    <3>2. CASE p # None
      <4>1. /\ s.mac # NoMac
            /\ rx' = [password |-> s.tunnel.password, alg |-> s.tunnel.digest_alg]
        BY <1>1, <2>1, <2>4, <2>6, <3>2 DEF Agreed
      <4>2. p = s.tunnel.password /\ alg = s.tunnel.digest_alg
        BY <2>4, <4>1
      <4>3. IsSigned(s.tunnel, s.hdr, s.avps, s.key, s.mac)
        BY <2>2, <4>1 DEF MessageSent
      <4>4. verifies(p, alg, s.hdr, s.avps, s.mac)
        BY <4>2, <4>3, SignedVerifies
      <4>5. verifies(rx'.password, rx'.alg, got.hdr, got.avps, sent.mac)
        BY <2>1, <2>3, <2>4, <4>4
      <4> QED BY <4>5 DEF Verify
    <3> QED BY <3>1, <3>2
  <2> QED BY <2>1, <2>2, <2>3, <2>5, <2>6
<1>4. RoundTrip'
  BY <1>1, <1>3 DEF RoundTrip
<1> QED BY <1>1, <1>2, <1>3, <1>4 DEF RoundInv

\* What FieldSent says of the message that was sent.
LEMMA SentFields ==
  /\ \A f : FieldSent(f) = FieldOf(sent.fields, f)
  /\ \A f : FieldSent(f)' = FieldOf(sent'.fields, f)
<1>1. \A f : FieldSent(f) = FieldOf(sent.fields, f)
  BY Zenon DEF FieldSent, FieldOf
<1>2. \A f : FieldSent(f)' = FieldOf(sent'.fields, f)
  BY Zenon DEF FieldSent, FieldOf, SelectInSeq
<1> QED BY <1>1, <1>2

\* Every field that the parser reads is what was sent.
LEMMA RoundParseStep ==
  ASSUME DecodeInv, RoundInv, Parse
  PROVE  RoundInv'
<1>1. /\ stage = "verified" /\ UNCHANGED <<sent, rx, buf>>
      /\ stage' \in {"raised", "malformed", "accepted"}
  BY DEF Parse
<1>2. Begun /\ IsGot(got) /\ (sent # None => MessageSent(sent))
  BY <1>1 DEF Begun, DecodeInv, RoundInv
<1>3. ASSUME sent # None, buf = sent.wire
      PROVE  /\ stage' = "accepted" /\ Along(got', sent) /\ got'.avps = sent.avps
             /\ sent.fields # None =>
                    \A f \in DOMAIN got'.fields : got'.fields[f] = FieldSent(f)
  <2>1. PICK s : s = sent
    OBVIOUS
  <2>2. MessageSent(s) /\ Along(got, s) /\ got.avps = s.avps
    BY <1>1, <1>2, <1>3, <2>1 DEF RoundInv
  <2>3. Understood(got.avps, s.fields)
    BY <2>2 DEF MessageSent
  <2>4. PICK type, v : type = get_message_type(got.avps) /\ v = parse(type, got.avps)
    OBVIOUS
  <2>5. /\ find_avp(got.avps, "MESSAGE_TYPE") # None =>
              decodes("MESSAGE_TYPE", find_avp(got.avps, "MESSAGE_TYPE").value)
        /\ parses(type, got.avps)
        /\ s.fields # None => \A f \in ParsedFields(type) : v[f] = FieldOf(s.fields, f)
    BY <2>3, <2>4 DEF Understood
  <2>6. stage' = "accepted" /\ got' = [got EXCEPT !.fields = v]
    BY <2>4, <2>5 DEF Parse
  <2>7. PICK h, p, r, as, f :
          got = [hdr |-> h, pos |-> p, rv |-> r, avps |-> as, fields |-> f]
    BY <1>2 DEF IsGot
  <2>8. /\ got'.hdr = got.hdr /\ got'.pos = got.pos /\ got'.avps = got.avps
        /\ got'.rv = got.rv /\ got'.fields = v
    BY <2>6, <2>7
  <2>9. Along(got', s)
    BY <2>2, <2>8 DEF Along
  <2>10. DOMAIN v = ParsedFields(type)
    BY <2>4 DEF parse
  <2>11. \A g : FieldSent(g) = FieldOf(s.fields, g)
    BY <2>1, SentFields, Zenon
  <2> QED BY <2>1, <2>2, <2>5, <2>6, <2>8, <2>9, <2>10, <2>11
<1>4. RoundTrip'
  <2>1. sent' = sent
    BY <1>1
  <2>2. \A f : FieldSent(f)' = FieldSent(f)
    BY <2>1, SentFields, Zenon
  <2> QED BY <1>1, <1>3, <2>2 DEF RoundTrip, Along
<1> QED BY <1>1, <1>2, <1>3, <1>4 DEF RoundInv

\* The invariant of an undamaged message.
THEOREM Rounding == Spec => []RoundInv
<1>1. Init => RoundInv
  BY DEF Init, RoundInv, RoundTrip
<1>2. DecodeInv /\ RoundInv /\ [Next]_vars => RoundInv'
  <2> SUFFICES ASSUME DecodeInv, RoundInv, [Next]_vars PROVE RoundInv'
    OBVIOUS
  <2>1. CASE SendTunnel \/ SendSession \/ SendAck \/ SendHidden
    BY <2>1, RoundSendStep
  <2>2. CASE Load \/ Flip \/ Truncate \/ DecodeHeader
    BY <2>2, RoundHeaderStep
  <2>3. CASE DecodeAvp
    BY <2>3, RoundAvpStep
  <2>4. CASE Verify
    BY <2>4, RoundVerifyStep
  <2>5. CASE Parse
    BY <2>5, RoundParseStep
  <2>6. CASE UNCHANGED vars
    <3>1. UNCHANGED <<stage, sent, rx, buf, got>>
      BY <2>6 DEF vars
    <3>2. sent' = sent
      BY <3>1
    <3>3. \A f : FieldSent(f)' = FieldSent(f)
      BY <3>2, SentFields, Zenon
    <3>4. Agreed' = Agreed
      BY <3>1 DEF Agreed
    <3>5. RoundTrip'
      BY <3>1, <3>3, <3>4 DEF RoundInv, RoundTrip
    <3> QED BY <3>1, <3>5 DEF RoundInv, Begun
  <2> QED BY <2>1, <2>2, <2>3, <2>4, <2>5, <2>6 DEF Next
<1> QED BY <1>1, <1>2, Decoding, PTL DEF Spec

\* A message that arrives undamaged is never refused by an end that agrees on
\* the secret, and every field that its parser reads is the one that the
\* configuration and the state machine gave it: whatever the accepted file, the
\* message and the size of its fields, with hidden AVPs and without.
THEOREM RoundTripHolds == Spec => []RoundTrip
<1>1. RoundInv => RoundTrip
  BY DEF RoundInv
<1> QED BY <1>1, Rounding, PTL

-----------------------------------------------------------------------------
(* What raises an exception *)

\* The factory takes the value and its AVP can be encoded.
Buildable(p) == builds(p[1], p[2]) /\ Len(build(p[1], p[2]).value) <= 1017

\* What the builders are given when no value is unchecked, None among them.
Sound == {p \in Pairs : p[2] # None => Buildable(p)}

\* Lengths that fit into an AVP.
LEMMA Short == \A n \in {0, 2, 4, 8} : n <= 1017
  OBVIOUS

\* A number within its range.
LEMMA NumberSound ==
  ASSUME NEW f \in DOMAIN Digits, NEW v, AnyNumber(v), v # None => Fits(v, Digits[f])
  PROVE  <<f, v>> \in Sound
<1>1. <<f, v>> \in Pairs
  BY NumberPair
<1>2. ASSUME v # None PROVE Buildable(<<f, v>>)
  <2>1. f \notin {"PSEUDOWIRE_CAPABILITIES_LIST", "ASSIGNED_COOKIE", "CTL_MSG_AUTH_NONCE",
                  "RANDOM_VECTOR", "RESULT_CODE"}
    BY DEF Digits
  <2>2. builds(f, v)
    BY <1>2, <2>1, Zenon DEF builds
  <2>3. IsNumber(v) /\ Len(v) <= Digits[f]
    BY <1>2 DEF AnyNumber, Fits
  <2>4. decodes(f, build(f, v).value)
    BY <2>3, NumberReadsBack DEF ReadsBack
  <2>5. Len(build(f, v).value) = 2 * Digits[f]
    BY <2>1, <2>4, Zenon DEF decodes
  <2>6. 2 * Digits[f] <= 1017
    BY DEF Digits
  <2> QED BY <2>2, <2>5, <2>6 DEF Buildable
<1> QED BY <1>1, <1>2 DEF Sound

\* Bytes that are few enough.
LEMMA BytesSound ==
  ASSUME NEW f \in ByteFields, NEW v \in Seq(Byte) \cup {None},
         v # None => IF f = "ASSIGNED_COOKIE" THEN Len(v) \in {0, 4, 8} ELSE Len(v) <= 1017
  PROVE  <<f, v>> \in Sound
<1>1. <<f, v>> \in Pairs
  BY BytesPair
<1>2. ASSUME v # None PROVE Buildable(<<f, v>>)
  <2>1. f \notin DOMAIN Digits /\ f # "PSEUDOWIRE_CAPABILITIES_LIST" /\ f # "RESULT_CODE"
        /\ f # "CTL_MSG_AUTH_NONCE" /\ f # "RANDOM_VECTOR"
    BY DEF Digits, ByteFields
  <2>2. builds(f, v)
    BY <1>2, <2>1 DEF builds
  <2>3. build(f, v).value = v
    BY <2>1 DEF build
  <2>4. CASE f = "ASSIGNED_COOKIE"
    <3>1. Len(v) \in {0, 4, 8}
      BY <1>2, <2>4
    <3>2. PICK n \in {0, 4, 8} : n = Len(v)
      BY <3>1, Zenon
    <3>3. n <= 1017
      <4>1. \A k \in {0, 4, 8} : k <= 1017
        OBVIOUS
      <4> QED BY <4>1, ZenonT(60)
    <3> QED BY <2>2, <2>3, <3>2, <3>3, Zenon DEF Buildable
  <2>5. CASE f # "ASSIGNED_COOKIE"
    <3>1. Len(v) <= 1017
      BY <1>2, <2>5
    <3> QED BY <2>2, <2>3, <3>1 DEF Buildable
  <2> QED BY <2>4, <2>5
<1> QED BY <1>1, <1>2 DEF Sound

\* The pseudowire types.
LEMMA CapabilitiesSound == <<"PSEUDOWIRE_CAPABILITIES_LIST", << <<5>>, <<4>> >> >> \in Sound
<1> DEFINE f == "PSEUDOWIRE_CAPABILITIES_LIST"
<1>1. <<f, Capabilities>> \in Pairs
  BY DEF Pairs
<1>2. f \notin DOMAIN Digits
  BY DEF Digits
<1>3. Num(5) = <<5>> /\ Num(4) = <<4>>
  BY DEF Num
<1>4. builds(f, Capabilities)
  <2>1. Fits(<<5>>, 1) /\ Fits(<<4>>, 1)
    BY <1>3, SmallWords, NumFits
  <2>2. Capabilities # <<>> /\ \A i \in DOMAIN Capabilities : Fits(Capabilities[i], 1)
    BY <2>1 DEF Capabilities
  <2> QED BY <1>2, <2>2 DEF builds
<1>5. PICK a \in Seq(Byte), b \in Seq(Byte) :
        a = pack(<<5>>, 1) /\ b = pack(<<4>>, 1) /\ Len(a) = 2 /\ Len(b) = 2
  BY <1>3, SmallWords, PackWord
<1>6. build(f, Capabilities).value = a \o b
  <2>1. [i \in DOMAIN Capabilities |-> pack(Capabilities[i], 1)] = <<a, b>>
    BY <1>5 DEF Capabilities
  <2>2. build(f, Capabilities).value
          = FlattenSeq([i \in DOMAIN Capabilities |-> pack(Capabilities[i], 1)])
    BY <1>2 DEF build
  <2> QED BY <2>1, <2>2, FlattenTwo
<1>7. Len(a \o b) = 4
  <2>1. Len(a \o b) = Len(a) + Len(b)
    BY Concat
  <2>2. 2 + 2 = 4
    OBVIOUS
  <2> QED BY <1>5, <2>1, <2>2
<1>8. Buildable(<<f, Capabilities>>)
  <2>1. PICK n : n = Len(build(f, Capabilities).value) /\ n = 4
    BY <1>6, <1>7
  <2>2. n <= 1017
    BY <2>1, Short, ZenonT(60)
  <2> QED BY <1>4, <2>1, <2>2, Zenon DEF Buildable
<1>9. <<f, Capabilities>> \in Sound
  BY <1>1, <1>8 DEF Sound
<1> QED BY <1>9 DEF Capabilities

\* A Result Code.
LEMMA ResultSound ==
  ASSUME NEW result \in {6, 2}
  PROVE  <<"RESULT_CODE", ResultCode(Num(result), None, <<>>)>> \in Sound
<1> DEFINE f == "RESULT_CODE"
<1>1. PICK v \in Results : v = ResultCode(Num(result), None, <<>>)
  BY Zenon DEF Results
<1>2. <<f, v>> \in Pairs
  BY DEF Pairs
<1>3. f \notin DOMAIN Digits
  BY DEF Digits
<1>4. result \in Word
  BY WordIs, SMT
<1>5. v.result = Num(result) /\ v.error = None /\ v.message = <<>>
  BY <1>1 DEF ResultCode
<1>6. builds(f, v)
  <2>1. Fits(v.result, 1)
    BY <1>4, <1>5, NumFits
  <2> QED BY <1>3, <1>5, <2>1 DEF builds
<1>7. PICK p \in Seq(Byte) : p = pack(Num(result), 1) /\ Len(p) = 2
  BY <1>4, PackWord
<1>8. build(f, v).value = p \o <<>>
  BY <1>3, <1>5, <1>7 DEF build
<1>9. Len(p \o <<>>) = 2
  BY <1>7
<1>10. Buildable(<<f, v>>)
  <2>1. PICK n : n = Len(build(f, v).value) /\ n = 2
    BY <1>8, <1>9
  <2>2. n <= 1017
    BY <2>1, Short, ZenonT(60)
  <2> QED BY <1>6, <2>1, <2>2, Zenon DEF Buildable
<1> QED BY <1>1, <1>2, <1>10 DEF Sound

\* At most n of them.
UpTo(x, n) == x \in Seq(Sound) /\ Len(x) <= n

\* One list after the other.
LEMMA UpToConcat ==
  ASSUME NEW m \in Nat, NEW n \in Nat, NEW x, UpTo(x, m), NEW y, UpTo(y, n)
  PROVE  UpTo(x \o y, m + n)
<1>1. x \in Seq(Sound) /\ y \in Seq(Sound) /\ Len(x) <= m /\ Len(y) <= n
  BY DEF UpTo
<1>2. x \o y \in Seq(Sound) /\ Len(x \o y) = Len(x) + Len(y)
  BY <1>1, Concat
<1>3. PICK p \in Nat, q \in Nat : p = Len(x) /\ q = Len(y)
  BY <1>1
<1>4. p + q <= m + n
  BY <1>1, <1>3
<1> QED BY <1>2, <1>3, <1>4 DEF UpTo

\* Tunnels and sessions without an unchecked value.
SessionChecked(s) ==
    /\ SessionTyped(s) /\ Len(s.name) <= 1017
    /\ s.tx_connect_speed # None => Fits(s.tx_connect_speed, 4)
    /\ s.rx_connect_speed # None => Fits(s.rx_connect_speed, 4)

TunnelChecked(t) ==
    /\ TunnelTyped(t) /\ Len(t.host_name) <= 1017
    /\ t.vendor_name # None => Len(t.vendor_name) <= 1017
    /\ \A j \in DOMAIN t.sessions : SessionChecked(t.sessions[j])

\* Those that are not Unchecked.
LEMMA NotUnchecked ==
  ASSUME NEW t, TunnelTyped(t), ~Unchecked(t)
  PROVE  TunnelChecked(t)
<1>1. Len(t.host_name) <= 1017
  <2>1. Len(t.host_name) \in Nat /\ ~(Len(t.host_name) > 1017)
    BY DEF TunnelTyped, Unchecked
  <2> QED BY <2>1
<1>2. ASSUME t.vendor_name # None PROVE Len(t.vendor_name) <= 1017
  <2>1. ~(Len(t.vendor_name) > 1017)
    BY <1>2 DEF Unchecked
  <2>2. Len(t.vendor_name) \in Nat
    BY <1>2 DEF TunnelTyped
  <2> QED BY <2>1, <2>2
<1>3. ASSUME NEW j \in DOMAIN t.sessions PROVE SessionChecked(t.sessions[j])
  <2>1. PICK s : s = t.sessions[j]
    OBVIOUS
  <2>2. SessionTyped(s)
    BY <2>1 DEF TunnelTyped
  <2>3. /\ ~(Len(s.name) > 1017)
        /\ \A v \in {s.tx_connect_speed, s.rx_connect_speed} : v = None \/ Fits(v, 4)
    BY <2>1 DEF Unchecked
  <2>4. Len(s.name) \in Nat
    BY <2>2 DEF SessionTyped
  <2>5. Len(s.name) <= 1017
    BY <2>3, <2>4
  <2> QED BY <2>1, <2>2, <2>3, <2>5 DEF SessionChecked
<1> QED BY <1>1, <1>2, <1>3 DEF TunnelChecked

\* The fields of SCCRQ and SCCRP.
LEMMA SccrxSound ==
  ASSUME NEW t, TunnelChecked(t)
  PROVE  UpTo(SccrxFields(t), 7)
<1>1. TunnelTyped(t) /\ TunnelRanged(t)
  BY DEF TunnelChecked, TunnelTyped
<1>2. PICK p1 \in Sound, p2 \in Sound : /\ p1 = <<"ROUTER_ID", t.router_id>>
                                       /\ p2 = <<"ASSIGNED_CONTROL_CONNECTION_ID", t.local_ccid>>
  <2>1. /\ "ROUTER_ID" \in DOMAIN Digits /\ Digits["ROUTER_ID"] = 2
        /\ "ASSIGNED_CONTROL_CONNECTION_ID" \in DOMAIN Digits
        /\ Digits["ASSIGNED_CONTROL_CONNECTION_ID"] = 2
    BY DEF Digits
  <2> QED BY <1>1, <2>1, NumberSound DEF TunnelTyped, TunnelRanged
<1>3. PICK p3 \in Sound : p3 = <<"PSEUDOWIRE_CAPABILITIES_LIST", << <<5>>, <<4>> >> >>
  BY CapabilitiesSound
<1>4. PICK p4 \in Sound, p6 \in Sound : /\ p4 = <<"HOST_NAME", t.host_name>>
                                       /\ p6 = <<"VENDOR_NAME", t.vendor_name>>
  <2>1. "HOST_NAME" \in ByteFields /\ "VENDOR_NAME" \in ByteFields
    BY DEF ByteFields
  <2>2. t.host_name \in Seq(Byte) \cup {None} /\ t.vendor_name \in Seq(Byte) \cup {None}
    BY <1>1 DEF TunnelTyped
  <2>3. Len(t.host_name) <= 1017 /\ (t.vendor_name # None => Len(t.vendor_name) <= 1017)
    BY DEF TunnelChecked
  <2> QED BY <2>1, <2>2, <2>3, BytesSound
<1>5. PICK p5 \in Sound, p7 \in Sound : /\ p5 = <<"RECEIVE_WINDOW_SIZE", t.receive_window>>
                                       /\ p7 = <<"FIRMWARE_REVISION", t.firmware_revision>>
  <2>1. /\ "RECEIVE_WINDOW_SIZE" \in DOMAIN Digits /\ Digits["RECEIVE_WINDOW_SIZE"] = 1
        /\ "FIRMWARE_REVISION" \in DOMAIN Digits /\ Digits["FIRMWARE_REVISION"] = 1
    BY DEF Digits
  <2> QED BY <1>1, <2>1, NumberSound DEF TunnelTyped, TunnelRanged
<1>6. SccrxFields(t) = <<p1, p2, p3, p4, p5, p6, p7>>
  BY <1>2, <1>3, <1>4, <1>5, Zenon DEF SccrxFields
<1>7. <<p1, p2, p3, p4, p5, p6, p7>> \in Seq(Sound) /\ Len(<<p1, p2, p3, p4, p5, p6, p7>>) = 7
  OBVIOUS
<1> QED BY <1>6, <1>7 DEF UpTo

\* One, two or three fields.
LEMMA UpToThree ==
  ASSUME NEW p \in Sound, NEW q \in Sound, NEW r \in Sound
  PROVE  UpTo(<<>>, 0) /\ UpTo(<<p>>, 1) /\ UpTo(<<p, q>>, 2) /\ UpTo(<<p, q, r>>, 3)
<1>1. <<>> \in Seq(Sound) /\ Len(<<>>) = 0
  OBVIOUS
<1>2. <<p>> \in Seq(Sound) /\ Len(<<p>>) = 1
  OBVIOUS
<1>3. <<p, q>> \in Seq(Sound) /\ Len(<<p, q>>) = 2
  OBVIOUS
<1>4. <<p, q, r>> \in Seq(Sound) /\ Len(<<p, q, r>>) = 3
  OBVIOUS
<1> QED BY <1>1, <1>2, <1>3, <1>4 DEF UpTo

\* The fields of the messages of a session.
LEMMA SessionSound ==
  ASSUME NEW s, SessionChecked(s)
  PROVE  /\ \A sid : IsNumber(sid) /\ Len(sid) <= 2 => UpTo(SessionIds(s, sid), 2)
         /\ UpTo(Circuit(s), 3) /\ UpTo(Speeds(s), 2) /\ UpTo(Cookie(s), 1)
         /\ UpTo(<< <<"PSEUDOWIRE_TYPE", s.pseudowire_type>> >>, 1)
         /\ UpTo(<< <<"REMOTE_END_ID", s.name>> >>, 1)
<1>1. SessionTyped(s) /\ SessionRanged(s)
  BY DEF SessionChecked, SessionTyped
<1>2. \A f \in {"LOCAL_SESSION_ID", "REMOTE_SESSION_ID"} : f \in DOMAIN Digits /\ Digits[f] = 2
  BY DEF Digits
<1>3. \A f \in {"L2_SPECIFIC_SUBLAYER", "DATA_SEQUENCING", "CIRCUIT_STATUS", "PSEUDOWIRE_TYPE"} :
        f \in DOMAIN Digits /\ Digits[f] = 1
  BY DEF Digits
<1>4. \A f \in {"TX_CONNECT_SPEED", "RX_CONNECT_SPEED"} : f \in DOMAIN Digits /\ Digits[f] = 4
  BY DEF Digits
<1>5. ASSUME NEW sid, IsNumber(sid), Len(sid) <= 2 PROVE UpTo(SessionIds(s, sid), 2)
  <2>1. PICK p \in Sound : p = <<"LOCAL_SESSION_ID", s.local_sid>>
    BY <1>1, <1>2, NumberSound DEF SessionTyped, SessionRanged
  <2>2. AnyNumber(sid) /\ Fits(sid, 2)
    BY <1>5, NotNumbers DEF AnyNumber, Fits, IsNumber
  <2>3. PICK q \in Sound : q = <<"REMOTE_SESSION_ID", sid>>
    BY <1>2, <2>2, NumberSound
  <2>4. SessionIds(s, sid) = <<p, q>>
    BY <2>1, <2>3, Zenon DEF SessionIds
  <2> QED BY <2>4, UpToThree
<1>6. PICK c1 \in Sound, c2 \in Sound, c3 \in Sound :
        /\ c1 = <<"L2_SPECIFIC_SUBLAYER", s.l2_specific_sublayer>>
        /\ c2 = <<"DATA_SEQUENCING", s.data_sequencing>>
        /\ c3 = <<"CIRCUIT_STATUS", s.circuit_status>>
  BY <1>1, <1>3, NumberSound DEF SessionTyped, SessionRanged
<1>7. PICK t1 \in Sound, t2 \in Sound : /\ t1 = <<"TX_CONNECT_SPEED", s.tx_connect_speed>>
                                       /\ t2 = <<"RX_CONNECT_SPEED", s.rx_connect_speed>>
  BY <1>1, <1>4, NumberSound DEF SessionTyped, SessionChecked
<1>8. PICK k \in Sound, e \in Sound : /\ k = <<"ASSIGNED_COOKIE", s.cookie>>
                                     /\ e = <<"REMOTE_END_ID", s.name>>
  <2>1. "ASSIGNED_COOKIE" \in ByteFields /\ "REMOTE_END_ID" \in ByteFields
    BY DEF ByteFields
  <2>2. s.cookie \in Seq(Byte) \cup {None} /\ s.name \in Seq(Byte) \cup {None}
    BY <1>1 DEF SessionTyped
  <2>3. Len(s.name) <= 1017 /\ (s.cookie # None => Len(s.cookie) \in {0, 4, 8})
    BY <1>1 DEF SessionChecked, SessionRanged
  <2> QED BY <2>1, <2>2, <2>3, BytesSound
<1>9. PICK w \in Sound : w = <<"PSEUDOWIRE_TYPE", s.pseudowire_type>>
  BY <1>1, <1>3, NumberSound DEF SessionTyped, SessionRanged
<1>10. /\ Circuit(s) = <<c1, c2, c3>> /\ Speeds(s) = <<t1, t2>> /\ Cookie(s) = <<k>>
       /\ << <<"PSEUDOWIRE_TYPE", s.pseudowire_type>> >> = <<w>>
       /\ << <<"REMOTE_END_ID", s.name>> >> = <<e>>
  BY <1>6, <1>7, <1>8, <1>9, Zenon DEF Circuit, Speeds, Cookie
<1> QED BY <1>5, <1>10, UpToThree, Zenon

\* What follows the Message Type.
LEMMA BodySound ==
  ASSUME NEW kind \in Kinds, NEW t, TunnelChecked(t), NEW s,
         kind \in TunnelKinds \/ SessionChecked(s),
         NEW sid, IsNumber(sid), Len(sid) <= 2, NEW result \in {6, 2}
  PROVE  UpTo(BodyFields(kind, t, s, sid, result), 10)
<1>1. PICK body : body = BodyFields(kind, t, s, sid, result)
  OBVIOUS
<1> SUFFICES UpTo(body, 10)
  BY <1>1
<1>2. /\ kind \in {"SCCRQ", "SCCRP", "SCCCN", "HELLO", "StopCCN", "ICRQ", "ICRP", "ICCN", "CDN"}
      /\ kind \in {"ICRQ", "ICRP", "ICCN", "CDN"} => SessionChecked(s)
  BY DEF Kinds, MessageType, TunnelKinds
<1>3. ASSUME NEW n \in 0..10, UpTo(body, n) PROVE UpTo(body, 10)
  <2>1. body \in Seq(Sound) /\ Len(body) <= n
    BY <1>3 DEF UpTo
  <2>2. Len(body) <= 10
    BY <2>1
  <2> QED BY <2>1, <2>2 DEF UpTo
<1>4. PICK r : r = Result(result) /\ UpTo(r, 1)
  <2>1. PICK p \in Sound : p = <<"RESULT_CODE", ResultCode(Num(result), None, <<>>)>>
    BY ResultSound
  <2>2. Result(result) = <<p>>
    BY <2>1, Zenon DEF Result
  <2> QED BY <2>2, UpToThree
<1>5. CASE kind \in {"SCCRQ", "SCCRP"}
  <2>1. body = SccrxFields(t)
    BY <1>1, <1>5, Zenon DEF BodyFields
  <2>2. 7 \in 0..10
    OBVIOUS
  <2> QED BY <1>3, <2>1, <2>2, SccrxSound
<1>6. CASE kind \in {"SCCCN", "HELLO"}
  <2>1. body = <<>>
    BY <1>1, <1>6, Zenon DEF BodyFields
  <2>2. <<>> \in Seq(Sound) /\ Len(<<>>) <= 10
    OBVIOUS
  <2> QED BY <2>1, <2>2 DEF UpTo
<1>7. CASE kind = "StopCCN"
  <2>1. body = << <<"ASSIGNED_CONTROL_CONNECTION_ID", t.local_ccid>> >> \o r
    BY <1>1, <1>4, <1>7, Zenon DEF BodyFields
  <2>2. "ASSIGNED_CONTROL_CONNECTION_ID" \in DOMAIN Digits
        /\ Digits["ASSIGNED_CONTROL_CONNECTION_ID"] = 2
    BY DEF Digits
  <2>3. PICK p \in Sound : p = <<"ASSIGNED_CONTROL_CONNECTION_ID", t.local_ccid>>
    BY <2>2, NumberSound DEF TunnelChecked, TunnelTyped, TunnelRanged
  <2>4. body = <<p>> \o r
    BY <2>1, <2>3
  <2>5. UpTo(<<p>>, 1)
    BY UpToThree
  <2>6. UpTo(body, 1 + 1)
    BY <1>4, <2>4, <2>5, UpToConcat
  <2> QED BY <1>3, <2>6
<1>8. CASE SessionChecked(s) /\ kind \in {"ICRQ", "ICRP", "ICCN", "CDN"}
  <2>1. IsNumber(Num(0)) /\ Len(Num(0)) <= 2
    <3>1. IsNumber(Num(0)) /\ Len(Num(0)) <= 1
      BY SmallWords, NumType
    <3>2. Len(Num(0)) \in Nat
      BY <3>1 DEF IsNumber
    <3> QED BY <3>1, <3>2
  <2>2. PICK i0, i1 : /\ i0 = SessionIds(s, Num(0)) /\ UpTo(i0, 2)
                      /\ i1 = SessionIds(s, sid) /\ UpTo(i1, 2)
    BY <1>8, <2>1, SessionSound
  <2>3. PICK c, v, k : /\ c = Circuit(s) /\ UpTo(c, 3) /\ v = Speeds(s) /\ UpTo(v, 2)
                       /\ k = Cookie(s) /\ UpTo(k, 1)
    BY <1>8, SessionSound
  <2>4. PICK p, e : /\ p = << <<"PSEUDOWIRE_TYPE", s.pseudowire_type>> >> /\ UpTo(p, 1)
                    /\ e = << <<"REMOTE_END_ID", s.name>> >> /\ UpTo(e, 1)
    BY <1>8, SessionSound
  <2>5. CASE kind = "ICRQ"
    <3>1. body = i0 \o p \o c \o e \o k \o v
      BY <1>1, <2>2, <2>3, <2>4, <2>5, Zenon DEF BodyFields
    <3>2. UpTo(i0 \o p, 2 + 1)
      BY <2>2, <2>4, UpToConcat
    <3>3. UpTo(i0 \o p \o c, 2 + 1 + 3)
      BY <2>3, <3>2, UpToConcat
    <3>4. UpTo(i0 \o p \o c \o e, 2 + 1 + 3 + 1)
      BY <2>4, <3>3, UpToConcat
    <3>5. UpTo(i0 \o p \o c \o e \o k, 2 + 1 + 3 + 1 + 1)
      BY <2>3, <3>4, UpToConcat
    <3>6. UpTo(i0 \o p \o c \o e \o k \o v, 2 + 1 + 3 + 1 + 1 + 2)
      BY <2>3, <3>5, UpToConcat
    <3> QED BY <3>1, <3>6
  <2>6. CASE kind = "ICRP"
    <3>1. body = i1 \o c \o k \o v
      BY <1>1, <2>2, <2>3, <2>6, Zenon DEF BodyFields
    <3>2. UpTo(i1 \o c, 2 + 3)
      BY <2>2, <2>3, UpToConcat
    <3>3. UpTo(i1 \o c \o k, 2 + 3 + 1)
      BY <2>3, <3>2, UpToConcat
    <3>4. UpTo(i1 \o c \o k \o v, 2 + 3 + 1 + 2)
      BY <2>3, <3>3, UpToConcat
    <3> QED BY <1>3, <3>1, <3>4
  <2>7. CASE kind = "ICCN"
    <3>1. body = i1 \o c \o v
      BY <1>1, <2>2, <2>3, <2>7, Zenon DEF BodyFields
    <3>2. UpTo(i1 \o c, 2 + 3)
      BY <2>2, <2>3, UpToConcat
    <3>3. UpTo(i1 \o c \o v, 2 + 3 + 2)
      BY <2>3, <3>2, UpToConcat
    <3> QED BY <1>3, <3>1, <3>3
  <2>8. CASE kind = "CDN"
    <3>1. body = i1 \o r
      BY <1>1, <1>4, <2>2, <2>8, Zenon DEF BodyFields
    <3>2. UpTo(i1 \o r, 2 + 1)
      BY <1>4, <2>2, UpToConcat
    <3> QED BY <1>3, <3>1, <3>2
  <2> QED BY <1>8, <2>5, <2>6, <2>7, <2>8
<1> QED BY <1>2, <1>5, <1>6, <1>7, <1>8

\* A message of at most eleven fields, all of which can be built.
LEMMA FieldsSound ==
  ASSUME NEW kind \in Kinds, NEW t, TunnelChecked(t), NEW s,
         kind \in TunnelKinds \/ SessionChecked(s),
         NEW sid, IsNumber(sid), Len(sid) <= 2, NEW result \in {6, 2},
         NEW list, list = Fields(kind, t, s, sid, result)
  PROVE  Len(list) <= 11 /\ \A i \in 1..Len(list) : Buildable(list[i])
<1>1. PICK body \in Seq(Sound) : body = BodyFields(kind, t, s, sid, result) /\ Len(body) <= 10
  BY BodySound DEF UpTo
<1>2. PICK n \in Nat : n = Len(body) /\ DOMAIN body = 1..n
  OBVIOUS
<1> DEFINE P == {p \in Sound : Buildable(p)}
           T == Seq(P)
           Kept(i) == IF body[i][2] = None THEN <<>> ELSE <<body[i]>>
<1>4. ASSUME NEW i \in 1..n PROVE Kept(i) \in T /\ Len(Kept(i)) <= 1
  <2>1. PICK p \in Sound : p = body[i]
    BY <1>2
  <2>2. CASE p[2] = None
    <3>1. Kept(i) = <<>>
      BY <2>1, <2>2
    <3>2. <<>> \in T /\ Len(<<>>) <= 1
      OBVIOUS
    <3> HIDE DEF Kept, T
    <3> QED BY <3>1, <3>2
  <2>3. CASE p[2] # None
    <3>1. Buildable(p)
      BY <2>3 DEF Sound
    <3>2. p \in P
      BY <3>1
    <3>3. Kept(i) = <<p>>
      BY <2>1, <2>3
    <3>4. <<p>> \in T /\ Len(<<p>>) <= 1
      <4> HIDE DEF P
      <4> QED BY <3>2
    <3> HIDE DEF Kept, T
    <3> QED BY <3>3, <3>4
  <2> QED BY <2>2, <2>3
<1>5. PICK kept : kept = [i \in 1..n |-> Kept(i)]
  OBVIOUS
<1>6. kept \in Seq(T) /\ Len(kept) = n /\ \A i \in 1..n : Len(kept[i]) <= 1
  <2> HIDE DEF Kept, T
  <2>1. kept \in [1..n -> T]
    BY <1>4, <1>5
  <2>2. \A i \in 1..n : kept[i] = Kept(i)
    BY <1>5
  <2> QED BY <1>4, <2>1, <2>2, FunctionSeq
<1>7. PICK rest \in Seq(P) : rest = FlattenSeq(kept) /\ Len(rest) <= 10
  <2>1. kept \in Lists(P)
    BY <1>6 DEF Lists
  <2>2. FlattenSeq(kept) \in Seq(P)
    <3> HIDE DEF P
    <3> QED BY <2>1, FlattenType
  <2>3. Len(FlattenSeq(kept)) <= n * 1
    <3> HIDE DEF P, T
    <3>1. 1 \in Nat /\ \A i \in 1..Len(kept) : Len(kept[i]) <= 1
      BY <1>6
    <3> QED BY <1>6, <2>1, <3>1, FlattenBound
  <2>4. PICK m \in Nat : m = Len(FlattenSeq(kept))
    <3> HIDE DEF P
    <3> QED BY <2>2
  <2>5. m <= 10
    <3> HIDE DEF P, T, Kept
    <3>1. m <= n /\ n <= 10
      BY <1>1, <1>2, <2>3, <2>4
    <3> QED BY <3>1
  <2> QED BY <2>2, <2>4, <2>5
<1>8. PICK h \in P : h = <<"MESSAGE_TYPE", Num(MessageType[kind])>>
  <2>1. MessageType[kind] \in Word
    BY KindTypes
  <2>2. AnyNumber(Num(MessageType[kind])) /\ Fits(Num(MessageType[kind]), 1)
    BY <2>1, NumType, NumFits DEF AnyNumber
  <2>3. "MESSAGE_TYPE" \in DOMAIN Digits /\ Digits["MESSAGE_TYPE"] = 1
    BY DEF Digits
  <2>4. PICK p \in Sound : p = <<"MESSAGE_TYPE", Num(MessageType[kind])>>
    BY <2>2, <2>3, NumberSound
  <2>5. p[2] # None
    BY <2>2, <2>4 DEF Fits
  <2>6. Buildable(p)
    BY <2>5 DEF Sound
  <2> QED BY <2>4, <2>6
<1>9. list = <<h>> \o rest
  BY <1>1, <1>2, <1>5, <1>7, <1>8, Zenon DEF Fields
<1>10. list \in Seq(P) /\ Len(list) <= 11
  <2> HIDE DEF P
  <2>1. PICK g \in Seq(P) : g = <<h>> /\ Len(g) = 1
    <3>1. <<h>> \in Seq(P) /\ Len(<<h>>) = 1
      OBVIOUS
    <3> QED BY <3>1, Zenon
  <2>2. list \in Seq(P) /\ Len(list) = Len(g) + Len(rest)
    BY <1>9, <2>1, Concat
  <2>3. PICK m \in Nat : m = Len(rest) /\ m <= 10
    BY <1>7
  <2>4. Len(list) = 1 + m
    BY <2>1, <2>2, <2>3
  <2> QED BY <2>2, <2>3, <2>4
<1>11. \A i \in 1..Len(list) : list[i] \in P
  <2> HIDE DEF P
  <2> QED BY <1>10, ElementOfSeq
<1> QED BY <1>10, <1>11

\* A message of a dozen AVPs fits into a datagram.
LEMMA ShortEncodes ==
  ASSUME NEW avps, AllPlain(avps), Len(avps) <= 12
  PROVE  encodes_message(avps, None)
<1>1. PICK n \in Nat : n = Len(avps) /\ DOMAIN avps = 1..n /\ n <= 12
  BY DEF AllPlain
<1>2. ASSUME NEW i \in 1..n
      PROVE  /\ encodes(avps[i], None)
             /\ encode(avps[i], None) \in Seq(Byte) /\ Len(encode(avps[i], None)) <= 1023
  <2>1. PICK a : a = avps[i] /\ Plain(a)
    BY <1>1 DEF AllPlain
  <2>2. EncodedAs(a, encode(a, None))
    BY <2>1, EncodeBytes
  <2>3. PICK m \in Nat : m = Len(a.value) /\ m <= 1017
    <3>1. a.value \in Seq(Byte) /\ Len(a.value) <= 1017
      BY <2>1 DEF Plain, Avps
    <3> QED BY <3>1
  <2>4. 6 + m <= 1023
    BY <2>3
  <2>5. encode(a, None) \in Seq(Byte) /\ Len(encode(a, None)) = 6 + m
    BY <2>2, <2>3 DEF EncodedAs
  <2>6. encodes(a, None)
    BY <2>1, <2>3, <2>4 DEF encodes, value_field, Plain
  <2> QED BY <2>1, <2>4, <2>5, <2>6
<1>3. PICK parts : parts = [i \in 1..n |-> encode(avps[i], None)]
  OBVIOUS
<1>4. PICK B : B = Seq(Byte)
  OBVIOUS
<1>5. parts \in Seq(B) /\ Len(parts) = n
  <2>1. parts \in [1..n -> B]
    BY <1>2, <1>3, <1>4
  <2> QED BY <2>1, FunctionSeq
<1>6. parts \in Lists(Byte)
  BY <1>4, <1>5 DEF Lists
<1>7. \A i \in 1..Len(parts) : Len(parts[i]) <= 1023
  BY <1>2, <1>3, <1>5
<1>8. Len(FlattenSeq(parts)) <= n * 1023
  <2>1. PICK b \in Nat : b = 1023
    OBVIOUS
  <2>2. \A i \in 1..Len(parts) : Len(parts[i]) <= b
    BY <1>7, <2>1
  <2>3. Len(FlattenSeq(parts)) <= Len(parts) * b
    BY <1>6, <2>2, FlattenBound
  <2> QED BY <1>5, <2>1, <2>3
<1>9. PICK m \in Nat : m = Len(FlattenSeq(parts))
  <2>1. FlattenSeq(parts) \in Seq(Byte)
    BY <1>6, FlattenType
  <2> QED BY <2>1
<1>10. 12 + m <= 65535
  <2>1. m <= n * 1023
    BY <1>8, <1>9
  <2> QED BY <1>1, <2>1
<1>11. EncodeAll(avps, None) = FlattenSeq(parts)
  BY <1>1, <1>3 DEF EncodeAll
<1> QED BY <1>1, <1>2, <1>9, <1>10, <1>11 DEF encodes_message

\* Fields that can be built make a message that can be sent, signed or not.
LEMMA SoundEncodes ==
  ASSUME NEW t, TunnelTyped(t), NEW list \in Seq(Built), Len(list) <= 11,
         \A i \in 1..Len(list) : Buildable(list[i]),
         NEW avps, avps = IF t.password = None THEN BuildAll(list)
                          ELSE Signed(t.digest_alg, BuildAll(list))
  PROVE  BuildsAll(list) /\ encodes_message(avps, None)
<1>1. PICK n \in Nat : n = Len(list) /\ DOMAIN list = 1..n /\ n <= 11
  OBVIOUS
<1>2. BuildsAll(list)
  BY <1>1 DEF BuildsAll, Buildable
<1>3. PICK built : built = BuildAll(list)
  OBVIOUS
<1>4. IsBody(built)
  BY <1>2, <1>3, BuildAllType
<1>5. built = [i \in 1..n |-> build(list[i][1], list[i][2])]
  BY <1>1, <1>3 DEF BuildAll
<1>6. built \in Seq(Avps) /\ Len(built) = n
  <2>1. built \in Seq(Avps)
    BY <1>4 DEF IsBody
  <2>2. DOMAIN built = 1..n
    BY <1>5
  <2> QED BY <2>1, <2>2
<1>7. AllPlain(built)
  <2>1. ASSUME NEW i \in 1..n PROVE Plain(built[i])
    <3>1. built[i] \in Avps /\ ~built[i].hidden
      BY <1>4, <1>6 DEF IsBody
    <3>2. built[i] = build(list[i][1], list[i][2])
      BY <1>5
    <3>3. Len(build(list[i][1], list[i][2]).value) <= 1017
      BY <1>1 DEF Buildable
    <3> QED BY <3>1, <3>2, <3>3 DEF Plain
  <2> QED BY <1>6, <2>1 DEF AllPlain
<1>8. CASE t.password = None
  <2>1. Len(built) <= 12
    BY <1>1, <1>6
  <2> QED BY <1>2, <1>3, <1>7, <1>8, <2>1, ShortEncodes
<1>9. CASE t.password # None
  <2>1. PICK d : d = Digest(t.digest_alg, Hmac(t.digest_alg)) /\ Plain(d)
    BY DigestType DEF TunnelTyped
  <2>2. avps = Append(built, d)
    BY <1>3, <1>9, <2>1 DEF Signed
  <2>3. AllPlain(avps)
    BY <1>7, <2>1, <2>2, AllPlainAppend
  <2>4. Len(avps) = n + 1
    <3>1. d \in Avps
      BY <2>1 DEF Plain
    <3> QED BY <1>6, <2>2, <3>1
  <2>5. Len(avps) <= 12
    BY <1>1, <2>4
  <2> QED BY <1>2, <2>3, <2>5, ShortEncodes
<1> QED BY <1>8, <1>9

\* A message that cannot be built has an unchecked value in it.
LEMMA SendRaises ==
  ASSUME DecodeInv, SendTunnel \/ SendSession, stage' = "raised"
  PROVE  \E i \in DOMAIN cfg : Unchecked(cfg[i])
<1>1. IsNumber(PeerSid) /\ Len(PeerSid) <= 2
  BY WireAssumption
<1>2. ASSUME NEW i \in DOMAIN cfg, NEW kind \in Kinds, NEW s, NEW result \in {6, 2},
             ~Unchecked(cfg[i]),
             kind \in TunnelKinds \/ \E j \in DOMAIN cfg[i].sessions : s = cfg[i].sessions[j],
             Send(cfg[i], Fields(kind, cfg[i], s, PeerSid, result))
      PROVE  FALSE
  <2>1. PICK t, list : t = cfg[i] /\ list = Fields(kind, t, s, PeerSid, result) /\ Send(t, list)
    BY <1>2
  <2>2. TunnelTyped(t) /\ TunnelChecked(t)
    BY <1>2, <2>1, NotUnchecked DEF DecodeInv
  <2>3. kind \in TunnelKinds \/ SessionChecked(s)
    BY <1>2, <2>1, <2>2 DEF TunnelChecked
  <2>4. list \in Seq(Built)
    <3>1. kind \in TunnelKinds \/ SessionTyped(s)
      BY <2>3 DEF SessionChecked
    <3> QED BY <1>1, <2>1, <2>2, <3>1, FieldsType
  <2>5. Len(list) <= 11 /\ \A k \in 1..Len(list) : Buildable(list[k])
    BY <1>1, <2>1, <2>2, <2>3, FieldsSound
  <2>6. PICK avps : avps = IF t.password = None THEN BuildAll(list)
                           ELSE Signed(t.digest_alg, BuildAll(list))
    OBVIOUS
  <2>7. BuildsAll(list) /\ encodes_message(avps, None)
    BY <2>2, <2>4, <2>5, <2>6, SoundEncodes
  <2>8. stage' = "sent"
    BY <2>1, <2>6, <2>7 DEF Send, Transmit
  <2> QED BY <2>8
<1>3. CASE SendTunnel
  <2>1. PICK i \in DOMAIN cfg, kind \in TunnelKinds, result \in {6, 2} :
          Send(cfg[i], Fields(kind, cfg[i], None, PeerSid, result))
    BY <1>3 DEF SendTunnel
  <2>2. kind \in Kinds
    BY DEF TunnelKinds, Kinds, MessageType
  <2> QED BY <1>2, <2>1, <2>2
<1>4. CASE SendSession
  <2>1. PICK i \in DOMAIN cfg, kind \in Kinds \ TunnelKinds, result \in {6, 2} :
          \E j \in DOMAIN cfg[i].sessions :
              Send(cfg[i], Fields(kind, cfg[i], cfg[i].sessions[j], PeerSid, result))
    BY <1>4 DEF SendSession
  <2>2. PICK j \in DOMAIN cfg[i].sessions :
          Send(cfg[i], Fields(kind, cfg[i], cfg[i].sessions[j], PeerSid, result))
    BY <2>1
  <2>3. PICK s : s = cfg[i].sessions[j]
    OBVIOUS
  <2> QED BY <1>2, <2>2, <2>3
<1> QED BY <1>3, <1>4

\* With the AVPs of the message that was sent, an end finds its Message Type.
LEMMA VerifiedDecodes ==
  ASSUME NEW a \in Seq(Avps), NEW b \in Seq(Avps), Len(a) = Len(b),
         \A i \in 1..Len(a) : SameAvp(b[i], a[i]),
         NEW m, m = find_avp(a, "MESSAGE_TYPE"), m # None
  PROVE  m = find_avp(b, "MESSAGE_TYPE")
<1> DEFINE f == "MESSAGE_TYPE"
           I == {i \in 1..Len(a) : Matches(a[i], f)}
           J == {i \in 1..Len(b) : Matches(b[i], f)}
<1>1. PICK n \in Nat : n = Len(a) /\ n = Len(b)
  OBVIOUS
<1>2. ASSUME NEW i \in 1..n
      PROVE  /\ Matches(a[i], f) <=> Matches(b[i], f)
             /\ Matches(a[i], f) => a[i] = b[i]
  <2>1. SameAvp(b[i], a[i]) /\ a[i] \in Avps
    BY <1>1
  <2>2. CASE b[i] = a[i]
    BY <2>2
  <2>3. CASE IsDigest(a[i]) /\ b[i] = [a[i] EXCEPT !.mandatory = TRUE]
    <3>1. PICK x, y : x \in Avps /\ x = a[i] /\ y = b[i] /\ y = [x EXCEPT !.mandatory = TRUE]
      BY <2>1, <2>3
    <3>2. y.vendor_id = x.vendor_id /\ y.attribute_type = x.attribute_type
      BY <3>1 DEF Avps
    <3>3. AttrType["MESSAGE_TYPE"] # AttrType.MESSAGE_DIGEST
      BY DEF AttrType
    <3>4. x.attribute_type = AttrType.MESSAGE_DIGEST
      BY <2>3, <3>1 DEF IsDigest
    <3>5. ~Matches(x, f) /\ ~Matches(y, f)
      BY <3>2, <3>3, <3>4 DEF Matches
    <3> QED BY <3>1, <3>5
  <2> QED BY <2>1, <2>2, <2>3 DEF SameAvp
<1>3. I = J
  BY <1>1, <1>2
<1>4. PICK k : IsFirst(k, I, n) /\ m = IF k = 0 THEN None ELSE a[k]
  BY <1>1, FindAvp
<1>5. PICK l : IsFirst(l, J, n) /\ find_avp(b, f) = IF l = 0 THEN None ELSE b[l]
  BY <1>1, FindAvp
<1>6. k # 0 /\ k \in 1..n /\ k \in I /\ m = a[k]
  <2> HIDE DEF I, J
  <2> QED BY <1>4 DEF IsFirst
<1>7. l = k
  <2> HIDE DEF I, J
  <2>1. l \in 1..n /\ l \in I /\ (\A i \in I : l <= i) /\ (\A i \in I : k <= i)
    BY <1>3, <1>4, <1>5, <1>6 DEF IsFirst
  <2>2. l <= k /\ k <= l /\ l \in Int /\ k \in Int
    BY <1>6, <2>1
  <2> QED BY <2>2
<1>8. a[k] = b[k]
  BY <1>2, <1>6
<1> QED BY <1>5, <1>6, <1>7, <1>8

\* No receiver has been chosen before verification.
RaiseInv ==
    /\ stage \in {"start", "rejected", "configured", "sent", "damaged", "decoding"} => rx = None
    /\ stage = "verified" => rx # None
    /\ OnlyUncheckedRaise

\* Parsing what an end with a password let pass.
LEMMA ParseRaises ==
  ASSUME DecodeInv, SignInv, RoundInv, stage = "verified", rx.password # None, Parse
  PROVE  stage' # "raised"
<1>1. MessageSent(sent) /\ SignedMeansSent
  BY DEF RoundInv, SignInv
<1>2. PICK a, b : a = got.avps /\ b = sent.avps
  OBVIOUS
<1>3. a \in Seq(Avps) /\ b \in Seq(Avps)
  <2>1. Decoded(got, buf)
    BY DEF DecodeInv, Begun
  <2>2. a \in Seq(Avps)
    BY <1>2, <2>1 DEF Decoded
  <2>3. b \in Seq(Avps)
    BY <1>1, <1>2 DEF MessageSent, Wired
  <2> QED BY <2>2, <2>3
<1>4. Len(a) = Len(b) /\ \A i \in 1..Len(a) : SameAvp(b[i], a[i])
  <2>1. DOMAIN a = 1..Len(a)
    BY <1>3
  <2> QED BY <1>1, <1>2, <2>1 DEF SignedMeansSent, SameAvp
<1>5. find_avp(b, "MESSAGE_TYPE") # None =>
        decodes("MESSAGE_TYPE", find_avp(b, "MESSAGE_TYPE").value)
  BY <1>1, <1>2 DEF MessageSent, Understood
<1>6. PICK m : m = find_avp(a, "MESSAGE_TYPE")
  OBVIOUS
<1>7. m = None \/ decodes("MESSAGE_TYPE", m.value)
  <2>1. CASE m # None
    <3>1. m = find_avp(b, "MESSAGE_TYPE")
      BY <1>3, <1>4, <1>6, <2>1, VerifiedDecodes
    <3> QED BY <1>5, <2>1, <3>1
  <2> QED BY <2>1
<1> QED BY <1>2, <1>6, <1>7 DEF Parse

\* Every exception that nothing catches is due to a value that the loader does
\* not check, or met by an end without a password: for every file, every
\* message that its tunnels and sessions send, and every damage to it.
THEOREM UncheckedRaises == Spec => []OnlyUncheckedRaise
<1>1. Init => RaiseInv
  BY DEF Init, RaiseInv, OnlyUncheckedRaise
<1>2. DecodeInv /\ SignInv /\ RoundInv /\ RaiseInv /\ [Next]_vars => RaiseInv'
  <2> SUFFICES ASSUME DecodeInv, SignInv, RoundInv, RaiseInv, [Next]_vars PROVE RaiseInv'
    OBVIOUS
  <2>1. CASE SendTunnel \/ SendSession
    <3>1. stage = "configured" /\ UNCHANGED <<cfg, rx>> /\ stage' \in {"raised", "sent"}
      <4>1. PICK t, list : Send(t, list)
        BY <2>1, SendCases
      <4> QED BY <4>1 DEF Send, Transmit
    <3>2. stage' = "raised" => \E i \in DOMAIN cfg : Unchecked(cfg[i])
      BY <2>1, SendRaises
    <3> QED BY <3>1, <3>2 DEF RaiseInv, OnlyUncheckedRaise
  <2>2. CASE Load \/ SendAck \/ SendHidden \/ Flip \/ Truncate
    <3>1. /\ stage \in {"start", "configured", "sent"} /\ rx' = rx
          /\ stage' \in {"rejected", "configured", "sent", "damaged"}
      BY <2>2 DEF Load, SendAck, SendHidden, Transmit, Flip, Truncate
    <3> QED BY <3>1 DEF RaiseInv, OnlyUncheckedRaise
  <2>3. CASE DecodeHeader \/ DecodeAvp
    <3>1. /\ stage \in {"sent", "damaged", "decoding"} /\ rx' = rx
          /\ stage' \in {"decoding", "dropped"}
      BY <2>3 DEF DecodeHeader, DecodeAvp
    <3> QED BY <3>1 DEF RaiseInv, OnlyUncheckedRaise
  <2>4. CASE Verify
    <3>1. rx' \in Receivers(sent.tunnel) /\ stage' \in {"verified", "dropped"}
      BY <2>4 DEF Verify
    <3>2. rx' # None
      <4>1. stage = "decoding"
        BY <2>4 DEF Verify
      <4>2. MessageSent(sent)
        BY <4>1 DEF RoundInv
      <4>3. sent.tunnel.password \in Seq(Byte) \cup {None}
        BY <4>2 DEF MessageSent
      <4> QED BY <3>1, <4>3, ReceiverType
    <3> QED BY <3>1, <3>2 DEF RaiseInv, OnlyUncheckedRaise
  <2>5. CASE Parse
    <3>1. stage = "verified" /\ rx' = rx /\ stage' \in {"raised", "malformed", "accepted"}
      BY <2>5 DEF Parse
    <3>2. rx # None
      BY <3>1 DEF RaiseInv
    <3>3. rx.password # None => stage' # "raised"
      BY <2>5, <3>1, ParseRaises
    <3> QED BY <3>1, <3>2, <3>3 DEF RaiseInv, OnlyUncheckedRaise
  <2>6. CASE UNCHANGED vars
    BY <2>6 DEF vars, RaiseInv, OnlyUncheckedRaise
  <2> QED BY <2>1, <2>2, <2>3, <2>4, <2>5, <2>6 DEF Next
<1>3. RaiseInv => OnlyUncheckedRaise
  BY DEF RaiseInv
<1> QED BY <1>1, <1>2, <1>3, Decoding, Signing, Rounding, PTL DEF Spec
=============================================================================
