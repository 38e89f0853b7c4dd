--------------------------- MODULE CanFrame_proofs ---------------------------
(***************************************************************************)
(* Proofs about CanFrame for any frames and any capacities that hold them: *)
(* stuffing leaves no six bits alike, no push panics, and a receiver       *)
(* switched on at any bit reads back every frame but the one it was        *)
(* switched on in, with a CRC that divides.                                *)
(***************************************************************************)
EXTENDS CanFrame, TLAPS

(***************************************************************************)
(* Bits.                                                                   *)
(***************************************************************************)

LEMMA ConcatBits ==
    ASSUME NEW s \in Seq(Bit), NEW t \in Seq(Bit)
    PROVE  /\ s \o t \in Seq(Bit)
           /\ Len(s \o t) = Len(s) + Len(t)
           /\ \A a \in 1 .. Len(s) : (s \o t)[a] = s[a]
           /\ \A a \in 1 .. Len(t) : (s \o t)[Len(s) + a] = t[a]
OBVIOUS

LEMMA ConcatNats ==
    ASSUME NEW s \in Seq(Nat), NEW t \in Seq(Nat)
    PROVE  /\ s \o t \in Seq(Nat)
           /\ Len(s \o t) = Len(s) + Len(t)
           /\ \A a \in 1 .. Len(s) : (s \o t)[a] = s[a]
           /\ \A a \in 1 .. Len(t) : (s \o t)[Len(s) + a] = t[a]
OBVIOUS

LEMMA MsbFirstBits ==
    ASSUME NEW x \in Nat, NEW w \in 0 .. 11
    PROVE  MsbFirst(x, w) \in [1 .. w -> Bit]
<1>1. ASSUME NEW i \in 1 .. w PROVE (x \div Power[w - i + 1]) % 2 \in Bit
  <2>1. w - i + 1 \in 1 .. 11
    OBVIOUS
  <2>2. Power[w - i + 1] \in Nat \ {0}
    BY <2>1 DEF Power
  <2> DEFINE y == Power[w - i + 1]
  <2> HIDE DEF y
  <2>3. (x \div y) % 2 \in {0, 1}
    BY <2>2 DEF y
  <2> QED BY <2>3 DEF y, Bit
<1> QED BY <1>1 DEF MsbFirst

\* s is a vector of n bits.
IsBits(s, n) == n \in Nat /\ s \in Seq(Bit) /\ Len(s) = n

LEMMA FunIsBits ==
    ASSUME NEW n \in Nat, NEW f \in [1 .. n -> Bit]
    PROVE  IsBits(f, n)
BY DEF IsBits

LEMMA ConcatIsBits ==
    ASSUME NEW s, NEW t, NEW m, NEW n, IsBits(s, m), IsBits(t, n)
    PROVE  IsBits(s \o t, m + n)
BY DEF IsBits

LEMMA MsbFirstIsBits ==
    ASSUME NEW x \in Nat, NEW w \in 0 .. 11
    PROVE  IsBits(MsbFirst(x, w), w)
<1>1. w \in Nat
  OBVIOUS
<1> QED BY <1>1, MsbFirstBits, FunIsBits, Zenon

LEMMA ByteNat == \A x \in Byte : x \in Nat
BY DEF Byte

LEMMA DataBitsIsBits ==
    ASSUME NEW d \in Seq(Byte)
    PROVE  IsBits(DataBits(d), 8 * Len(d))
<1>1. Len(d) \in Nat /\ 8 * Len(d) \in Nat
  OBVIOUS
<1>2. ASSUME NEW i \in 1 .. 8 * Len(d)
      PROVE  MsbFirst(d[((i - 1) \div 8) + 1], 8)[((i - 1) % 8) + 1] \in Bit
  <2>1. ((i - 1) \div 8) + 1 \in 1 .. Len(d) /\ ((i - 1) % 8) + 1 \in 1 .. 8
    BY <1>1
  <2>2. PICK q \in 1 .. Len(d), r \in 1 .. 8 :
           q = ((i - 1) \div 8) + 1 /\ r = ((i - 1) % 8) + 1
    BY <2>1
  <2>3. d[q] \in Byte
    OBVIOUS
  <2>4. d[q] \in Nat
    BY <2>3, ByteNat, Zenon
  <2>5. MsbFirst(d[q], 8) \in [1 .. 8 -> Bit]
    <3>1. 8 \in 0 .. 11
      OBVIOUS
    <3> QED BY <2>4, <3>1, MsbFirstBits, Zenon
  <2>6. MsbFirst(d[q], 8)[r] \in Bit
    BY <2>5, Zenon
  <2> QED BY <2>2, <2>6, Zenon
<1>3. DataBits(d) \in [1 .. 8 * Len(d) -> Bit]
  BY <1>2, Zenon DEF DataBits
<1> QED BY <1>1, <1>3, FunIsBits, Zenon

LEMMA BodyIsBits ==
    ASSUME NEW x \in Nat, NEW d \in Seq(Byte)
    PROVE  IsBits(Body(x, d), 19 + 8 * Len(d))
<1>1. Len(d) \in Nat /\ 11 \in 0 .. 11 /\ 4 \in 0 .. 11
  OBVIOUS
<1>2. IsBits(MsbFirst(x, 11), 11)
  BY <1>1, MsbFirstIsBits, Zenon
<1>3. IsBits(MsbFirst(Len(d), 4), 4)
  BY <1>1, MsbFirstIsBits, Zenon
<1>4. IsBits(DataBits(d), 8 * Len(d))
  BY DataBitsIsBits, Zenon
<1>5. IsBits(<<0>>, 1) /\ IsBits(<<0, 0, 0>>, 3)
  BY DEF IsBits, Bit
<1>6. IsBits(Body(x, d), 1 + 11 + 3 + 4 + 8 * Len(d))
  BY <1>2, <1>3, <1>4, <1>5, ConcatIsBits, Zenon DEF Body
<1>7. 1 + 11 + 3 + 4 + 8 * Len(d) = 19 + 8 * Len(d)
  BY <1>1
<1> QED BY <1>6, <1>7, Zenon

LEMMA BodyBits ==
    ASSUME NEW f \in Frames
    PROVE  \E n \in 1 .. Longest - 15 : IsBits(Body(f.id, f.data), n)
<1>1. PICK x, d : x = f.id /\ d = f.data
  OBVIOUS
<1>2. f \in [id : 0 .. 2047, data : Seq(Byte)]
  BY CanAssumption
<1>3. x \in 0 .. 2047
  BY <1>1, <1>2
<1>4. d \in Seq(Byte)
  BY <1>1, <1>2
<1>5. Len(d) <= MaxData
  BY <1>1, CanAssumption
<1>6. x \in Nat
  BY <1>3
<1>7. Len(d) \in Nat
  BY <1>4
<1>8. 19 + 8 * Len(d) \in 1 .. Longest - 15
  BY <1>5, <1>7, CanAssumption DEF Longest
<1>9. IsBits(Body(x, d), 19 + 8 * Len(d))
  BY <1>4, <1>6, BodyIsBits, Zenon
<1> QED BY <1>1, <1>8, <1>9, Zenon

LEMMA CrcStepBits ==
    ASSUME NEW c \in [0 .. 14 -> Bit], NEW b \in Bit
    PROVE  CrcStep(c, b) \in [0 .. 14 -> Bit]
<1>1. \A x, y \in Bit : Xor(x, y) \in Bit
  BY DEF Xor, Bit
<1>2. ASSUME NEW j \in 0 .. 14
      PROVE  /\ (IF j = 0 THEN 0 ELSE c[j - 1]) \in Bit
             /\ (IF j \in Poly THEN Xor(c[14], b) ELSE 0) \in Bit
  <2>1. j # 0 => c[j - 1] \in Bit
    OBVIOUS
  <2>2. Xor(c[14], b) \in Bit
    BY <1>1
  <2> QED BY <2>1, <2>2 DEF Bit
<1> QED BY <1>1, <1>2 DEF CrcStep

LEMMA CrcBitsIsBits ==
    ASSUME crc \in [0 .. 14 -> Bit]
    PROVE  IsBits(CrcBits, 15)
<1>1. CrcBits \in [1 .. 15 -> Bit]
  BY DEF CrcBits
<1> QED BY <1>1, FunIsBits

\* A whole frame: its start, and the length that its DLC says.
IsFrame(u) == /\ u \in Seq(Bit) /\ u[1] = 0
              /\ Dlc(u) \in Nat /\ Len(u) = 34 + 8 * Dlc(u)

LEMMA DlcOfLength ==
    ASSUME NEW n \in 0 .. 15
    PROVE  8 * MsbFirst(n, 4)[1] + 4 * MsbFirst(n, 4)[2] + 2 * MsbFirst(n, 4)[3] + MsbFirst(n, 4)[4] = n
<1>1. /\ MsbFirst(n, 4)[1] = (n \div 8) % 2 /\ MsbFirst(n, 4)[2] = (n \div 4) % 2
      /\ MsbFirst(n, 4)[3] = (n \div 2) % 2 /\ MsbFirst(n, 4)[4] = (n \div 1) % 2
  BY DEF MsbFirst, Power
<1> DEFINE p == n \div 8
           q == n \div 4
           h == n \div 2
<1>2. /\ p \in 0 .. 1 /\ q \in 0 .. 3 /\ h \in 0 .. 7 /\ n \div 1 = n
      /\ 8 * p <= n /\ n < 8 * p + 8 /\ 4 * q <= n /\ n < 4 * q + 4 /\ 2 * h <= n /\ n < 2 * h + 2
  OBVIOUS
<1> HIDE DEF p, q, h
<1>3. \A x \in Nat, y \in Nat : (2 * y <= x /\ x < 2 * y + 2) => x % 2 = x - 2 * y
  OBVIOUS
<1>4. /\ 2 * 0 <= p /\ p < 2 * 0 + 2 /\ 2 * p <= q /\ q < 2 * p + 2
      /\ 2 * q <= h /\ h < 2 * q + 2 /\ 2 * h <= n /\ n < 2 * h + 2
  BY <1>2
<1>5. p \in Nat /\ q \in Nat /\ h \in Nat /\ n \in Nat /\ 0 \in Nat
  BY <1>2
<1>6. p % 2 = p - 2 * 0 /\ q % 2 = q - 2 * p /\ h % 2 = h - 2 * q /\ n % 2 = n - 2 * h
  BY <1>3, <1>4, <1>5, Zenon
<1>7. /\ MsbFirst(n, 4)[1] = p - 2 * 0 /\ MsbFirst(n, 4)[2] = q - 2 * p
      /\ MsbFirst(n, 4)[3] = h - 2 * q /\ MsbFirst(n, 4)[4] = n - 2 * h
  BY <1>1, <1>2, <1>6, Zenon DEF p, q, h
<1> QED BY <1>5, <1>7

\* What Body has where: the start of frame, the identifier, the DLC and the data.
LEMMA BodyHeader ==
    ASSUME NEW x \in Nat, NEW d \in Seq(Byte)
    PROVE  /\ Body(x, d)[1] = 0
           /\ \A j \in 1 .. 11 : Body(x, d)[1 + j] = MsbFirst(x, 11)[j]
           /\ \A j \in 1 .. 4 : Body(x, d)[15 + j] = MsbFirst(Len(d), 4)[j]
           /\ \A a \in 1 .. 8 * Len(d) : Body(x, d)[19 + a] = DataBits(d)[a]
<1> DEFINE dl == MsbFirst(Len(d), 4)
           h1 == <<0>> \o MsbFirst(x, 11)
           h2 == h1 \o <<0, 0, 0>>
           h3 == h2 \o dl
<1>1. Len(d) \in Nat /\ 11 \in 0 .. 11 /\ 4 \in 0 .. 11
  OBVIOUS
<1>2. IsBits(MsbFirst(x, 11), 11) /\ IsBits(dl, 4)
  BY <1>1, MsbFirstIsBits, Zenon
<1>3. IsBits(DataBits(d), 8 * Len(d))
  BY DataBitsIsBits, Zenon
<1>4. IsBits(<<0>>, 1) /\ IsBits(<<0, 0, 0>>, 3) /\ <<0>>[1] = 0
  BY DEF IsBits, Bit
<1>5. IsBits(h1, 1 + 11) /\ IsBits(h2, 1 + 11 + 3) /\ IsBits(h3, 1 + 11 + 3 + 4)
  BY <1>2, <1>4, ConcatIsBits, Zenon
<1>6. Body(x, d) = h3 \o DataBits(d)
  BY DEF Body
<1> HIDE DEF dl, h1, h2, h3
<1>7. /\ \A a \in 1 .. 19 : Body(x, d)[a] = h3[a]
      /\ \A a \in 1 .. 8 * Len(d) : Body(x, d)[19 + a] = DataBits(d)[a]
  <2>1. Len(h3) = 19 /\ h3 \in Seq(Bit) /\ DataBits(d) \in Seq(Bit)
    BY <1>3, <1>5 DEF IsBits
  <2>2. /\ \A a \in 1 .. Len(h3) : (h3 \o DataBits(d))[a] = h3[a]
        /\ \A a \in 1 .. Len(DataBits(d)) : (h3 \o DataBits(d))[Len(h3) + a] = DataBits(d)[a]
    BY <2>1, ConcatBits, Zenon
  <2>3. Len(DataBits(d)) = 8 * Len(d)
    BY <1>3 DEF IsBits
  <2> QED BY <1>6, <2>1, <2>2, <2>3
<1>8. /\ \A a \in 1 .. 15 : h3[a] = h2[a]
      /\ \A j \in 1 .. 4 : h3[15 + j] = dl[j]
  <2>1. Len(h2) = 15 /\ h2 \in Seq(Bit) /\ dl \in Seq(Bit) /\ Len(dl) = 4
    BY <1>2, <1>5 DEF IsBits
  <2>2. /\ \A a \in 1 .. Len(h2) : (h2 \o dl)[a] = h2[a]
        /\ \A a \in 1 .. Len(dl) : (h2 \o dl)[Len(h2) + a] = dl[a]
    BY <2>1, ConcatBits, Zenon
  <2> QED BY <2>1, <2>2 DEF h3
<1>9. \A a \in 1 .. 12 : h2[a] = h1[a]
  <2>1. Len(h1) = 12 /\ h1 \in Seq(Bit) /\ <<0, 0, 0>> \in Seq(Bit)
    BY <1>4, <1>5 DEF IsBits
  <2>2. \A a \in 1 .. Len(h1) : (h1 \o <<0, 0, 0>>)[a] = h1[a]
    BY <2>1, ConcatBits, Zenon
  <2> QED BY <2>1, <2>2 DEF h2
<1>10. h1[1] = 0 /\ \A j \in 1 .. 11 : h1[1 + j] = MsbFirst(x, 11)[j]
  <2>1. <<0>> \in Seq(Bit) /\ Len(<<0>>) = 1 /\ MsbFirst(x, 11) \in Seq(Bit)
    BY <1>2, <1>4 DEF IsBits
  <2>2. /\ \A a \in 1 .. Len(<<0>>) : (<<0>> \o MsbFirst(x, 11))[a] = <<0>>[a]
        /\ \A a \in 1 .. Len(MsbFirst(x, 11)) :
              (<<0>> \o MsbFirst(x, 11))[Len(<<0>>) + a] = MsbFirst(x, 11)[a]
    BY <2>1, ConcatBits, Zenon
  <2>3. Len(MsbFirst(x, 11)) = 11
    BY <1>2 DEF IsBits
  <2>4. h1[1] = 0
    BY <1>4, <2>1, <2>2 DEF h1
  <2>5. \A j \in 1 .. 11 : h1[1 + j] = MsbFirst(x, 11)[j]
    BY <2>1, <2>2, <2>3 DEF h1
  <2> QED BY <2>4, <2>5
<1>11. Body(x, d)[1] = 0
  BY <1>7, <1>8, <1>9, <1>10
<1>12. \A j \in 1 .. 4 : Body(x, d)[15 + j] = dl[j]
  BY <1>7, <1>8
<1>13. \A j \in 1 .. 11 : Body(x, d)[1 + j] = MsbFirst(x, 11)[j]
  <2> SUFFICES ASSUME NEW j \in 1 .. 11 PROVE Body(x, d)[1 + j] = MsbFirst(x, 11)[j]
    OBVIOUS
  <2>1. 1 + j \in 1 .. 12 /\ 1 + j \in 1 .. 15 /\ 1 + j \in 1 .. 19
    OBVIOUS
  <2> QED BY <1>7, <1>8, <1>9, <1>10, <2>1
<1> QED BY <1>7, <1>11, <1>12, <1>13, Zenon DEF dl

\* SOF to CRC.
LEMMA WholeFrame ==
    ASSUME NEW f \in Frames, NEW c, IsBits(c, 15)
    PROVE  IsFrame(Body(f.id, f.data) \o c)
<1>1. PICK x, d : x = f.id /\ d = f.data
  OBVIOUS
<1>2. f \in [id : 0 .. 2047, data : Seq(Byte)] /\ MaxData \in 0 .. 15
  BY CanAssumption
<1>3. x \in Nat
  <2>1. x \in 0 .. 2047
    BY <1>1, <1>2
  <2> QED BY <2>1
<1>4. d \in Seq(Byte) /\ Len(d) \in Nat
  <2>1. d \in Seq(Byte)
    BY <1>1, <1>2
  <2>2. Len(d) \in Nat
    BY <2>1
  <2> QED BY <2>1, <2>2
<1>5. Len(d) <= MaxData
  BY <1>1, CanAssumption
<1>6. Len(d) \in 0 .. 15
  <2>1. PICK m : m = Len(d)
    OBVIOUS
  <2>2. m \in Nat /\ m <= MaxData /\ MaxData \in 0 .. 15
    BY <1>2, <1>4, <1>5, <2>1
  <2>3. m \in 0 .. 15
    BY <2>2
  <2> QED BY <2>1, <2>3, Zenon
<1> DEFINE n == Len(d)
           w == Body(x, d)
           u == w \o c
<1>7. IsBits(w, 19 + 8 * n)
  BY <1>3, <1>4, BodyIsBits, Zenon
<1>8. w[1] = 0 /\ \A j \in 1 .. 4 : w[15 + j] = MsbFirst(n, 4)[j]
  BY <1>3, <1>4, BodyHeader, Zenon
<1>9. 8 * MsbFirst(n, 4)[1] + 4 * MsbFirst(n, 4)[2] + 2 * MsbFirst(n, 4)[3] + MsbFirst(n, 4)[4] = n
  BY <1>6, DlcOfLength, Zenon
<1> HIDE DEF w
<1>10. w[16] = MsbFirst(n, 4)[1] /\ w[17] = MsbFirst(n, 4)[2] /\ w[18] = MsbFirst(n, 4)[3] /\ w[19] = MsbFirst(n, 4)[4]
  <2>1. /\ w[15 + 1] = MsbFirst(n, 4)[1] /\ w[15 + 2] = MsbFirst(n, 4)[2]
        /\ w[15 + 3] = MsbFirst(n, 4)[3] /\ w[15 + 4] = MsbFirst(n, 4)[4]
    BY <1>8
  <2> QED BY <2>1
<1>11. /\ w \in Seq(Bit) /\ c \in Seq(Bit) /\ Len(w) = 19 + 8 * n /\ Len(c) = 15
  BY <1>7 DEF IsBits
<1>12. /\ u \in Seq(Bit) /\ Len(u) = Len(w) + Len(c)
       /\ \A a \in 1 .. Len(w) : u[a] = w[a]
  BY <1>11, ConcatBits, Zenon
<1> HIDE DEF u
<1>13. u[1] = w[1] /\ u[16] = w[16] /\ u[17] = w[17] /\ u[18] = w[18] /\ u[19] = w[19]
  BY <1>6, <1>11, <1>12
<1>14. Dlc(u) = n
  BY <1>9, <1>10, <1>13 DEF Dlc
<1>15. Len(u) = 34 + 8 * n
  BY <1>6, <1>11, <1>12
<1>16. IsFrame(u)
  <2>1. u[1] = 0 /\ Len(u) = 34 + 8 * Dlc(u) /\ Dlc(u) \in Nat
    BY <1>4, <1>8, <1>13, <1>14, <1>15, Zenon
  <2> QED BY <1>12, <2>1, Zenon DEF IsFrame
<1> QED BY <1>1, <1>16, Zenon DEF u, w

\* The receiver knows the end of a frame: no proper prefix has the length its DLC says.
LEMMA PrefixRead ==
    ASSUME NEW u, NEW rx \in Seq(Bit), IsFrame(u), Len(rx) <= Len(u),
           \A a \in 1 .. Len(rx) : rx[a] = u[a]
    PROVE  AllRead(rx) <=> Len(rx) = Len(u)
<1>1. Len(rx) \in Nat /\ Len(u) = 34 + 8 * Dlc(u) /\ Dlc(u) \in Nat
  BY DEF IsFrame
<1>2. CASE Len(rx) < 19
  BY <1>1, <1>2 DEF AllRead
<1>3. CASE Len(rx) >= 19
  <2>1. rx[16] = u[16] /\ rx[17] = u[17] /\ rx[18] = u[18] /\ rx[19] = u[19]
    BY <1>1, <1>3
  <2>2. Dlc(rx) = Dlc(u)
    BY <2>1 DEF Dlc
  <2> QED BY <1>1, <1>3, <2>2 DEF AllRead
<1> QED BY <1>1, <1>2, <1>3

LEMMA LowBit == \A x, y \in Nat : (2 * y <= x /\ x < 2 * y + 2) => x % 2 = x - 2 * y
OBVIOUS

LEMMA ByteValue ==
    ASSUME NEW x \in Byte
    PROVE  Octet(MsbFirst(x, 8), 1) = x
<1> DEFINE m == MsbFirst(x, 8)
<1>0. x \in Nat /\ x < 256
  BY DEF Byte
<1>1. /\ m[1] = (x \div 128) % 2 /\ m[2] = (x \div 64) % 2 /\ m[3] = (x \div 32) % 2
      /\ m[4] = (x \div 16) % 2 /\ m[5] = (x \div 8) % 2 /\ m[6] = (x \div 4) % 2
      /\ m[7] = (x \div 2) % 2 /\ m[8] = (x \div 1) % 2
  BY DEF MsbFirst, Power
<1> DEFINE a7 == x \div 128
           a6 == x \div 64
           a5 == x \div 32
           a4 == x \div 16
           a3 == x \div 8
           a2 == x \div 4
           a1 == x \div 2
<1>2. /\ a7 \in Nat /\ 2 * 0 <= a7 /\ a7 < 2 * 0 + 2
      /\ a6 \in Nat /\ 2 * a7 <= a6 /\ a6 < 2 * a7 + 2
      /\ a5 \in Nat /\ 2 * a6 <= a5 /\ a5 < 2 * a6 + 2
      /\ a4 \in Nat /\ 2 * a5 <= a4 /\ a4 < 2 * a5 + 2
  BY <1>0
<1>3. /\ a3 \in Nat /\ 2 * a4 <= a3 /\ a3 < 2 * a4 + 2
      /\ a2 \in Nat /\ 2 * a3 <= a2 /\ a2 < 2 * a3 + 2
      /\ a1 \in Nat /\ 2 * a2 <= a1 /\ a1 < 2 * a2 + 2
      /\ 2 * a1 <= x /\ x < 2 * a1 + 2 /\ x \div 1 = x
  BY <1>0
<1> HIDE DEF a7, a6, a5, a4, a3, a2, a1
<1>4. 0 \in Nat
  OBVIOUS
<1>5. /\ a7 % 2 = a7 - 2 * 0 /\ a6 % 2 = a6 - 2 * a7 /\ a5 % 2 = a5 - 2 * a6
      /\ a4 % 2 = a4 - 2 * a5
  BY <1>2, <1>4, LowBit, Zenon
<1>6. /\ a3 % 2 = a3 - 2 * a4 /\ a2 % 2 = a2 - 2 * a3 /\ a1 % 2 = a1 - 2 * a2
      /\ x % 2 = x - 2 * a1
  BY <1>0, <1>2, <1>3, LowBit, Zenon
<1>7. /\ m[1] = a7 - 2 * 0 /\ m[2] = a6 - 2 * a7 /\ m[3] = a5 - 2 * a6 /\ m[4] = a4 - 2 * a5
      /\ m[5] = a3 - 2 * a4 /\ m[6] = a2 - 2 * a3 /\ m[7] = a1 - 2 * a2 /\ m[8] = x - 2 * a1
  BY <1>1, <1>3, <1>5, <1>6, Zenon DEF a7, a6, a5, a4, a3, a2, a1
<1> HIDE DEF m
<1>8. Octet(m, 1) = 128 * m[1] + 64 * m[2] + 32 * m[3] + 16 * m[4] + 8 * m[5] + 4 * m[6]
                    + 2 * m[7] + m[8]
  BY DEF Octet
<1>9. Octet(m, 1) = x
  BY <1>0, <1>2, <1>3, <1>7, <1>8
<1> QED BY <1>9 DEF m

Id == 0 .. 2047

LEMMA IdValue ==
    ASSUME NEW x \in Id
    PROVE  LET m == MsbFirst(x, 11)
           IN  8 * Octet(m, 1) + 4 * m[9] + 2 * m[10] + m[11] = x
<1> DEFINE m == MsbFirst(x, 11)
<1>0. x \in Nat
  BY DEF Id
<1>1. /\ m[1] = (x \div 1024) % 2 /\ m[2] = (x \div 512) % 2 /\ m[3] = (x \div 256) % 2
      /\ m[4] = (x \div 128) % 2 /\ m[5] = (x \div 64) % 2 /\ m[6] = (x \div 32) % 2
      /\ m[7] = (x \div 16) % 2 /\ m[8] = (x \div 8) % 2 /\ m[9] = (x \div 4) % 2
      /\ m[10] = (x \div 2) % 2 /\ m[11] = (x \div 1) % 2
  BY DEF MsbFirst, Power
<1> DEFINE b0 == x \div 1024
           b9 == x \div 512
           b8 == x \div 256
           a7 == x \div 128
           a6 == x \div 64
           a5 == x \div 32
           a4 == x \div 16
           a3 == x \div 8
           a2 == x \div 4
           a1 == x \div 2
<1>2. /\ b0 \in Nat /\ 2 * 0 <= b0 /\ b0 < 2 * 0 + 2
      /\ b9 \in Nat /\ 2 * b0 <= b9 /\ b9 < 2 * b0 + 2
      /\ b8 \in Nat /\ 2 * b9 <= b8 /\ b8 < 2 * b9 + 2
      /\ a7 \in Nat /\ 2 * b8 <= a7 /\ a7 < 2 * b8 + 2
  BY DEF Id
<1>3. /\ a6 \in Nat /\ 2 * a7 <= a6 /\ a6 < 2 * a7 + 2
      /\ a5 \in Nat /\ 2 * a6 <= a5 /\ a5 < 2 * a6 + 2
      /\ a4 \in Nat /\ 2 * a5 <= a4 /\ a4 < 2 * a5 + 2
      /\ a3 \in Nat /\ 2 * a4 <= a3 /\ a3 < 2 * a4 + 2
  BY <1>0
<1>4. /\ a2 \in Nat /\ 2 * a3 <= a2 /\ a2 < 2 * a3 + 2
      /\ a1 \in Nat /\ 2 * a2 <= a1 /\ a1 < 2 * a2 + 2
      /\ 2 * a1 <= x /\ x < 2 * a1 + 2 /\ x \div 1 = x /\ 0 \in Nat
  BY <1>0
<1> HIDE DEF b0, b9, b8, a7, a6, a5, a4, a3, a2, a1
<1>5. /\ b0 % 2 = b0 - 2 * 0 /\ b9 % 2 = b9 - 2 * b0 /\ b8 % 2 = b8 - 2 * b9
      /\ a7 % 2 = a7 - 2 * b8
  BY <1>2, <1>4, LowBit, Zenon
<1>6. /\ a6 % 2 = a6 - 2 * a7 /\ a5 % 2 = a5 - 2 * a6
      /\ a4 % 2 = a4 - 2 * a5 /\ a3 % 2 = a3 - 2 * a4
  BY <1>2, <1>3, LowBit, Zenon
<1>7. /\ a2 % 2 = a2 - 2 * a3 /\ a1 % 2 = a1 - 2 * a2 /\ x % 2 = x - 2 * a1
  BY <1>0, <1>3, <1>4, LowBit, Zenon
<1>8. /\ m[1] = b0 - 2 * 0 /\ m[2] = b9 - 2 * b0 /\ m[3] = b8 - 2 * b9 /\ m[4] = a7 - 2 * b8
      /\ m[5] = a6 - 2 * a7 /\ m[6] = a5 - 2 * a6 /\ m[7] = a4 - 2 * a5 /\ m[8] = a3 - 2 * a4
      /\ m[9] = a2 - 2 * a3 /\ m[10] = a1 - 2 * a2 /\ m[11] = x - 2 * a1
  BY <1>1, <1>4, <1>5, <1>6, <1>7 DEF b0, b9, b8, a7, a6, a5, a4, a3, a2, a1
<1> HIDE DEF m
<1>9. Octet(m, 1) = 128 * m[1] + 64 * m[2] + 32 * m[3] + 16 * m[4] + 8 * m[5] + 4 * m[6]
                    + 2 * m[7] + m[8]
  BY DEF Octet
<1>10. Octet(m, 1) = a3
  BY <1>2, <1>3, <1>8, <1>9
<1>11. 8 * Octet(m, 1) + 4 * m[9] + 2 * m[10] + m[11] = x
  BY <1>0, <1>3, <1>4, <1>8, <1>10
<1> QED BY <1>11 DEF m

\* Eight equal bits, the same octet.
LEMMA OctetAt ==
    ASSUME NEW s, NEW t, NEW i \in Nat, \A r \in 1 .. 8 : s[i - 1 + r] = t[r]
    PROVE  Octet(s, i) = Octet(t, 1)
<1>1. /\ s[i - 1 + 1] = t[1] /\ s[i - 1 + 2] = t[2] /\ s[i - 1 + 3] = t[3] /\ s[i - 1 + 4] = t[4]
      /\ s[i - 1 + 5] = t[5] /\ s[i - 1 + 6] = t[6] /\ s[i - 1 + 7] = t[7] /\ s[i - 1 + 8] = t[8]
  OBVIOUS
<1>2. /\ i - 1 + 1 = i /\ i - 1 + 2 = i + 1 /\ i - 1 + 3 = i + 2 /\ i - 1 + 4 = i + 3
      /\ i - 1 + 5 = i + 4 /\ i - 1 + 6 = i + 5 /\ i - 1 + 7 = i + 6 /\ i - 1 + 8 = i + 7
  OBVIOUS
<1>3. /\ s[i] = t[1] /\ s[i + 1] = t[2] /\ s[i + 2] = t[3] /\ s[i + 3] = t[4]
      /\ s[i + 4] = t[5] /\ s[i + 5] = t[6] /\ s[i + 6] = t[7] /\ s[i + 7] = t[8]
  BY <1>1, <1>2
<1>4. Octet(t, 1) = 128 * t[1] + 64 * t[2] + 32 * t[3] + 16 * t[4] + 8 * t[5] + 4 * t[6]
                    + 2 * t[7] + t[8]
  BY DEF Octet
<1> QED BY <1>3, <1>4 DEF Octet

LEMMA DataBitAt ==
    ASSUME NEW d \in Seq(Byte), NEW i \in 1 .. Len(d), NEW r \in 1 .. 8
    PROVE  DataBits(d)[8 * (i - 1) + r] = MsbFirst(d[i], 8)[r]
<1>1. Len(d) \in Nat
  OBVIOUS
<1>2. PICK a : a = 8 * (i - 1) + r
  OBVIOUS
<1>3. a \in 1 .. 8 * Len(d) /\ ((a - 1) \div 8) + 1 = i /\ ((a - 1) % 8) + 1 = r
  BY <1>1, <1>2
<1>4. DataBits(d)[a] = MsbFirst(d[((a - 1) \div 8) + 1], 8)[((a - 1) % 8) + 1]
  BY <1>3 DEF DataBits
<1> QED BY <1>2, <1>3, <1>4, Zenon

\* A receiver takes from a whole frame the identifier and the data it was built from.
LEMMA DecodedFrame ==
    ASSUME NEW f \in Frames, NEW c, IsBits(c, 15)
    PROVE  Decoded(Body(f.id, f.data) \o c) = f
<1>1. PICK x, d : x = f.id /\ d = f.data
  OBVIOUS
<1>2. f \in [id : 0 .. 2047, data : Seq(Byte)]
  BY CanAssumption
<1>3. x \in Id /\ d \in Seq(Byte) /\ f = [id |-> x, data |-> d]
  BY <1>1, <1>2 DEF Id
<1>4. PICK n : n = Len(d)
  OBVIOUS
<1>5. n \in Nat
  BY <1>3, <1>4
<1>6. x \in Nat
  BY <1>3 DEF Id
<1> DEFINE w == Body(x, d)
           u == w \o c
<1>7. w \in Seq(Bit) /\ c \in Seq(Bit) /\ Len(w) = 19 + 8 * n /\ Len(c) = 15
  BY <1>3, <1>4, <1>6, BodyIsBits DEF IsBits
<1>8. /\ \A j \in 1 .. 11 : w[1 + j] = MsbFirst(x, 11)[j]
      /\ \A a \in 1 .. 8 * n : w[19 + a] = DataBits(d)[a]
  BY <1>3, <1>4, <1>6, BodyHeader, Zenon
<1>9. IsFrame(u)
  BY <1>1, WholeFrame, Zenon
<1> HIDE DEF w
<1>10. /\ Len(u) = Len(w) + Len(c)
       /\ \A a \in 1 .. Len(w) : u[a] = w[a]
  BY <1>7, ConcatBits, Zenon
<1> HIDE DEF u
<1>11. Dlc(u) = n
  <2>1. Dlc(u) \in Nat /\ 34 + 8 * Dlc(u) = 19 + 8 * n + 15
    BY <1>7, <1>9, <1>10 DEF IsFrame
  <2> QED BY <1>5, <2>1
<1>12. \A j \in 1 .. 11 : u[1 + j] = MsbFirst(x, 11)[j]
  <2> SUFFICES ASSUME NEW j \in 1 .. 11 PROVE u[1 + j] = MsbFirst(x, 11)[j]
    OBVIOUS
  <2>1. 1 + j \in 1 .. Len(w)
    BY <1>5, <1>7
  <2> QED BY <1>8, <1>10, <2>1
<1>13. 8 * Octet(u, 2) + 4 * u[10] + 2 * u[11] + u[12] = x
  <2> DEFINE m == MsbFirst(x, 11)
  <2>1. 8 * Octet(m, 1) + 4 * m[9] + 2 * m[10] + m[11] = x
    BY <1>3, IdValue, Zenon
  <2> HIDE DEF m
  <2>2. \A r \in 1 .. 8 : u[2 - 1 + r] = m[r]
    BY <1>12 DEF m
  <2>3. Octet(u, 2) = Octet(m, 1)
    BY <2>2, OctetAt
  <2>4. u[1 + 9] = m[9] /\ u[1 + 10] = m[10] /\ u[1 + 11] = m[11]
    BY <1>12 DEF m
  <2> QED BY <2>1, <2>3, <2>4
<1>14. ASSUME NEW i \in 1 .. n PROVE Octet(u, 12 + 8 * i) = d[i]
  <2>1. PICK y : y = d[i]
    OBVIOUS
  <2>2. y \in Byte
    BY <1>3, <1>4, <2>1
  <2>3. ASSUME NEW r \in 1 .. 8 PROVE u[12 + 8 * i - 1 + r] = MsbFirst(y, 8)[r]
    <3>1. PICK a : a = 8 * (i - 1) + r
      OBVIOUS
    <3>2. a \in 1 .. 8 * n /\ 12 + 8 * i - 1 + r = 19 + a /\ 19 + a \in 1 .. Len(w)
      BY <1>5, <1>7, <3>1
    <3>3. u[19 + a] = DataBits(d)[a]
      BY <1>8, <1>10, <3>2
    <3>4. DataBits(d)[a] = MsbFirst(y, 8)[r]
      BY <1>3, <1>4, <2>1, <3>1, DataBitAt, Zenon
    <3> QED BY <3>2, <3>3, <3>4, Zenon
  <2>4. 12 + 8 * i \in Nat
    BY <1>5
  <2>5. Octet(u, 12 + 8 * i) = Octet(MsbFirst(y, 8), 1)
    BY <2>3, <2>4, OctetAt
  <2> QED BY <2>1, <2>2, <2>5, ByteValue
<1>15. [i \in 1 .. Dlc(u) |-> Octet(u, 12 + 8 * i)] = d
  <2>1. d = [i \in 1 .. n |-> d[i]]
    BY <1>3, <1>4
  <2> QED BY <1>11, <1>14, <2>1, Zenon
<1>16. Decoded(u) = f
  BY <1>3, <1>13, <1>15, Zenon DEF Decoded
<1> QED BY <1>1, <1>16, Zenon DEF u, w

(***************************************************************************)
(* can_crc15() divides.                                                    *)
(***************************************************************************)

Shifts == {0, 1, 5, 7, 8, 11, 12, 15}

\* A bit f more of the quotient adds f at every shift.
LEMMA NextProduct ==
    ASSUME NEW q \in Seq(Bit), NEW f \in Bit, NEW i \in Int
    PROVE  ProductBit(Append(q, f), i) = IF i - (Len(q) + 1) \in Shifts
                                         THEN Xor(ProductBit(q, i), f) ELSE ProductBit(q, i)
<1> DEFINE p == Append(q, f)
<1>1. PICK n : n = Len(q)
  OBVIOUS
<1>2. n \in Nat /\ p \in Seq(Bit) /\ Len(p) = n + 1 /\ p[n + 1] = f
      /\ \A a \in 1 .. n : p[a] = q[a] /\ q[a] \in Bit
  BY <1>1
<1> HIDE DEF p
<1>3. ASSUME NEW a \in Int
      PROVE  /\ At(p, a) = (IF a = n + 1 THEN f ELSE At(q, a)) /\ At(q, a) \in Bit
             /\ a = n + 1 => At(q, a) = 0
  BY <1>1, <1>2, <1>3 DEF At, Bit
<1>4. \A x, b \in Nat : (x + b) % 2 = ((x % 2) + b) % 2
  OBVIOUS
<1>5. PICK x0, x1, x5, x7, x8, x11, x12, x15 :
         /\ x0 = At(q, i) /\ x1 = At(q, i - 1) /\ x5 = At(q, i - 5) /\ x7 = At(q, i - 7)
         /\ x8 = At(q, i - 8) /\ x11 = At(q, i - 11) /\ x12 = At(q, i - 12) /\ x15 = At(q, i - 15)
  OBVIOUS
<1>6. PICK y0, y1, y5, y7, y8, y11, y12, y15 :
         /\ y0 = At(p, i) /\ y1 = At(p, i - 1) /\ y5 = At(p, i - 5) /\ y7 = At(p, i - 7)
         /\ y8 = At(p, i - 8) /\ y11 = At(p, i - 11) /\ y12 = At(p, i - 12) /\ y15 = At(p, i - 15)
  OBVIOUS
<1>7. PICK d : d = i - (n + 1)
  OBVIOUS
<1>8. d \in Int
  BY <1>2, <1>7
<1>9. /\ y0 = (IF d = 0 THEN f ELSE x0) /\ x0 \in {0, 1} /\ (d = 0 => x0 = 0)
      /\ y1 = (IF d = 1 THEN f ELSE x1) /\ x1 \in {0, 1} /\ (d = 1 => x1 = 0)
      /\ y5 = (IF d = 5 THEN f ELSE x5) /\ x5 \in {0, 1} /\ (d = 5 => x5 = 0)
      /\ y7 = (IF d = 7 THEN f ELSE x7) /\ x7 \in {0, 1} /\ (d = 7 => x7 = 0)
  <2>1. /\ i \in Int /\ i - 1 \in Int /\ i - 5 \in Int /\ i - 7 \in Int
        /\ (i = n + 1 <=> d = 0) /\ (i - 1 = n + 1 <=> d = 1)
        /\ (i - 5 = n + 1 <=> d = 5) /\ (i - 7 = n + 1 <=> d = 7)
    BY <1>2, <1>7
  <2> QED BY <1>3, <1>5, <1>6, <2>1 DEF Bit
<1>10. /\ y8 = (IF d = 8 THEN f ELSE x8) /\ x8 \in {0, 1} /\ (d = 8 => x8 = 0)
       /\ y11 = (IF d = 11 THEN f ELSE x11) /\ x11 \in {0, 1} /\ (d = 11 => x11 = 0)
       /\ y12 = (IF d = 12 THEN f ELSE x12) /\ x12 \in {0, 1} /\ (d = 12 => x12 = 0)
       /\ y15 = (IF d = 15 THEN f ELSE x15) /\ x15 \in {0, 1} /\ (d = 15 => x15 = 0)
  <2>1. /\ i - 8 \in Int /\ i - 11 \in Int /\ i - 12 \in Int /\ i - 15 \in Int
        /\ (i - 8 = n + 1 <=> d = 8) /\ (i - 11 = n + 1 <=> d = 11)
        /\ (i - 12 = n + 1 <=> d = 12) /\ (i - 15 = n + 1 <=> d = 15)
    BY <1>2, <1>7
  <2> QED BY <1>3, <1>5, <1>6, <2>1 DEF Bit
<1>11. f \in {0, 1}
  BY DEF Bit
<1> DEFINE x == x0 + x1 + x5 + x7 + x8 + x11 + x12 + x15
           y == y0 + y1 + y5 + y7 + y8 + y11 + y12 + y15
<1>12. x \in Nat /\ y = IF d \in Shifts THEN x + f ELSE x
  BY <1>8, <1>9, <1>10, <1>11 DEF Shifts
<1>13. ProductBit(q, i) = x % 2 /\ ProductBit(p, i) = y % 2
  BY <1>5, <1>6, Zenon DEF ProductBit
<1> HIDE DEF x, y
<1>14. f \in Nat
  BY <1>11
<1>15. CASE d \in Shifts
  <2>1. y % 2 = ((x % 2) + f) % 2
    BY <1>4, <1>12, <1>14, <1>15
  <2> QED BY <1>1, <1>7, <1>13, <1>15, <2>1, Zenon DEF Xor, p
<1>16. CASE d \notin Shifts
  BY <1>1, <1>7, <1>12, <1>13, <1>16, Zenon DEF p
<1> QED BY <1>15, <1>16

\* Past the last bit the product is zero.
LEMMA ProductEnds ==
    ASSUME NEW q \in Seq(Bit), NEW i \in Int, i > Len(q) + 15
    PROVE  ProductBit(q, i) = 0
<1>1. Len(q) \in Nat
  OBVIOUS
<1>2. /\ At(q, i) = 0 /\ At(q, i - 1) = 0 /\ At(q, i - 5) = 0 /\ At(q, i - 7) = 0
      /\ At(q, i - 8) = 0 /\ At(q, i - 11) = 0 /\ At(q, i - 12) = 0 /\ At(q, i - 15) = 0
  BY <1>1 DEF At
<1> QED BY <1>2 DEF ProductBit

(***************************************************************************)
(* One bit appended to a vector without six bits alike.                    *)
(***************************************************************************)

LEMMA PushBit ==
    ASSUME NEW s \in Seq(Bit), NEW b \in Bit, NEW l \in Bit, NEW r \in 1 .. 5,
           NoSix(s, Len(s)), EndsWith(s, r, l), r = 5 => b # l
    PROVE  LET t == s \o <<b>>
           IN  /\ t \in Seq(Bit) /\ Len(t) = Len(s) + 1
               /\ NoSix(t, Len(t))
               /\ EndsWith(t, IF b = l THEN r + 1 ELSE 1, b)
<1> DEFINE t == s \o <<b>>
           n == Len(s)
<1>1. <<b>> \in Seq(Bit) /\ Len(<<b>>) = 1 /\ <<b>>[1] = b /\ n \in Nat
  OBVIOUS
<1>2. /\ t \in Seq(Bit) /\ Len(t) = n + 1
      /\ \A a \in 1 .. n : t[a] = s[a]
      /\ t[n + 1] = b
  BY <1>1, ConcatBits
<1> HIDE DEF t
<1>3. n >= r /\ s[n] = l
  BY <1>1 DEF EndsWith
<1>4. NoSix(t, n + 1)
  <2> SUFFICES ASSUME NEW a \in 1 .. n - 4 PROVE \E m \in a .. a + 4 : t[m] # t[m + 1]
    BY <1>1 DEF NoSix
  <2>1. CASE a < n - 4
    <3>1. PICK m \in a .. a + 4 : s[m] # s[m + 1]
      BY <1>1, <2>1 DEF NoSix
    <3>2. m \in 1 .. n /\ m + 1 \in 1 .. n
      BY <1>1, <2>1
    <3>3. t[m] = s[m] /\ t[m + 1] = s[m + 1]
      BY <1>2, <3>2
    <3> QED BY <3>1, <3>3
  <2>2. CASE a = n - 4 /\ b # l
    BY <1>1, <1>2, <1>3, <2>2
  <2>3. CASE a = n - 4 /\ b = l
    <3>1. n > r /\ r < 5
      BY <1>1, <2>3
    <3>2. s[n - r] # l /\ s[n - r + 1] = l
      BY <1>1, <3>1 DEF EndsWith
    <3>3. n - r \in a .. a + 4 /\ t[n - r] = s[n - r] /\ t[n - r + 1] = s[n - r + 1]
      BY <1>1, <1>2, <2>3, <3>1
    <3> QED BY <3>2, <3>3
  <2> QED BY <1>1, <2>1, <2>2, <2>3
<1>5. EndsWith(t, IF b = l THEN r + 1 ELSE 1, b)
  <2>1. CASE b = l
    <3>1. \A a \in n - r + 1 .. n + 1 : t[a] = b
      BY <1>1, <1>2, <1>3, <2>1 DEF EndsWith
    <3>2. ASSUME n > r PROVE t[n - r] # b
      <4>1. n - r \in 1 .. n /\ s[n - r] # l
        BY <1>1, <3>2 DEF EndsWith
      <4> QED BY <1>2, <2>1, <4>1
    <3> QED BY <1>1, <1>2, <1>3, <2>1, <3>1, <3>2 DEF EndsWith
  <2>2. CASE b # l
    BY <1>1, <1>2, <1>3, <2>2 DEF EndsWith
  <2> QED BY <2>1, <2>2
<1> QED BY <1>2, <1>4, <1>5 DEF t

(***************************************************************************)
(* The steps of the sender.                                                *)
(***************************************************************************)

LEMMA Bounds ==
    /\ Longest \in Nat /\ Longest >= 34
    /\ CapFrame \in Nat /\ Longest <= CapFrame
    /\ CapStuffed \in Nat /\ 5 * Longest + 40 <= 4 * CapStuffed
    /\ Iterations \in Nat \ {0} /\ GapBits \in Nat
BY CanAssumption DEF Longest

\* What is pushed when input bit k is copied: no six alike, and a run of RunWith(b).
LEMMA CopiedBit ==
    ASSUME SendInv, Stuffing
    PROVE  LET b == unstuffed[k]
               t == stuffed \o <<b>>
           IN  /\ b \in Bit /\ RunWith(b) \in 1 .. 5
               /\ RunWith(b) <= run + 1
               /\ t \in Seq(Bit) /\ Len(t) = Len(stuffed) + 1
               /\ NoSix(t, Len(t)) /\ EndsWith(t, RunWith(b), b)
<1> DEFINE b == unstuffed[k]
           t == stuffed \o <<b>>
<1>1. /\ unstuffed \in Seq(Bit) /\ k \in Nat \ {0} /\ k <= Len(unstuffed)
      /\ run \in 0 .. 4 /\ last \in Bit
  BY DEF SendInv, SenderType, Stuffing
<1>2. b \in Bit
  BY <1>1
<1>3. stuffed \in Seq(Bit)
  BY DEF SendInv, SenderType
<1>4. NoSix(stuffed, Len(stuffed)) /\ LoopInv
  BY DEF SendInv, StuffInv, StuffingHolds, Stuffing
<1> HIDE DEF b
<1>5. CASE k = 1
  <2>1. stuffed = <<>> /\ run = 0 /\ last # b
    BY <1>4, <1>5 DEF LoopInv, b
  <2>2. RunWith(b) = 1
    BY <2>1 DEF RunWith
  <2>3. t = <<b>> /\ Len(stuffed) = 0
    BY <1>2, <2>1
  <2> HIDE DEF t
  <2>4. t \in Seq(Bit) /\ Len(t) = 1 /\ t[1] = b
    BY <1>2, <2>3
  <2>5. NoSix(t, 1) /\ EndsWith(t, 1, b)
    BY <2>4 DEF NoSix, EndsWith
  <2> QED BY <1>2, <2>1, <2>2, <2>3, <2>4, <2>5 DEF b, t
<1>6. CASE k # 1
  <2>1. run \in 1 .. 5 /\ run # 5 /\ EndsWith(stuffed, run, last)
    BY <1>1, <1>4, <1>6 DEF LoopInv
  <2>2. /\ t \in Seq(Bit) /\ Len(t) = Len(stuffed) + 1
        /\ NoSix(t, Len(t)) /\ EndsWith(t, IF b = last THEN run + 1 ELSE 1, b)
    BY <1>1, <1>2, <1>3, <1>4, <2>1, PushBit, Zenon
  <2>3. RunWith(b) = IF b = last THEN run + 1 ELSE 1
    BY DEF RunWith
  <2>4. RunWith(b) \in 1 .. 5 /\ RunWith(b) <= run + 1
    BY <1>1, <2>3
  <2> QED BY <1>2, <2>2, <2>3, <2>4, Zenon DEF b
<1> QED BY <1>5, <1>6

\* What is pushed with a stuff bit after it.
LEMMA StuffedBit ==
    ASSUME SendInv, Stuffing, RunWith(unstuffed[k]) = 5
    PROVE  LET b == unstuffed[k]
               u == stuffed \o <<b, Not(b)>>
           IN  /\ Not(b) \in Bit
               /\ u \in Seq(Bit) /\ Len(u) = Len(stuffed) + 2
               /\ NoSix(u, Len(u)) /\ EndsWith(u, 1, Not(b))
<1> DEFINE b == unstuffed[k]
           t == stuffed \o <<b>>
           u == stuffed \o <<b, Not(b)>>
<1>1. /\ b \in Bit
      /\ t \in Seq(Bit) /\ Len(t) = Len(stuffed) + 1
      /\ NoSix(t, Len(t)) /\ EndsWith(t, 5, b)
  BY CopiedBit, Zenon
<1>2. stuffed \in Seq(Bit)
  BY DEF SendInv, SenderType
<1> HIDE DEF b
<1>3. Not(b) \in Bit /\ Not(b) # b
  BY <1>1 DEF Not, Bit
<1>4. u = t \o <<Not(b)>>
  BY <1>1, <1>2, <1>3
<1> HIDE DEF t
<1>5. 5 \in 1 .. 5
  OBVIOUS
<1>6. LET v == t \o <<Not(b)>>
      IN  /\ v \in Seq(Bit) /\ Len(v) = Len(t) + 1
          /\ NoSix(v, Len(v)) /\ EndsWith(v, IF Not(b) = b THEN 5 + 1 ELSE 1, Not(b))
  BY <1>1, <1>3, <1>5, PushBit, Zenon
<1>7. Len(u) = Len(stuffed) + 2
  <2>1. Len(stuffed) \in Nat
    BY <1>2
  <2> HIDE DEF u
  <2>2. Len(u) = Len(t) + 1 /\ Len(t) = Len(stuffed) + 1
    BY <1>1, <1>4, <1>6, Zenon
  <2> QED BY <2>1, <2>2
<1> QED BY <1>3, <1>4, <1>6, <1>7, Zenon DEF b

LEMMA StuffStep ==
    ASSUME SendInv, Stuff
    PROVE  SendInv'
<1> DEFINE b == unstuffed[k]
<1>1. /\ pc = "stuff" /\ k \in Nat \ {0} /\ k <= Len(unstuffed)
      /\ run \in 0 .. 4 /\ Len(unstuffed) <= Longest
      /\ 4 * (Len(stuffed) - (k - 1)) + run <= k - 1 /\ sent < Iterations
  BY DEF SendInv, SenderType, Stuff, Stuffing, StuffInv, LoopInv
<1>2. Len(unstuffed) \in Nat /\ Len(stuffed) \in Nat
  BY DEF SendInv, SenderType
<1>3. Stuffing
  BY DEF Stuff
<1>4. PICK s, r, l : Push(s, r, l) /\ \/ s = <<b>> /\ r = RunWith(b) /\ l = b /\ r # 5
                                      \/ s = <<b, Not(b)>> /\ r = 1 /\ l = Not(b) /\ RunWith(b) = 5
  BY DEF Stuff
<1> HIDE DEF b
<1>5. /\ stuffed \o s \in Seq(Bit) /\ NoSix(stuffed \o s, Len(stuffed \o s))
      /\ l \in Bit /\ EndsWith(stuffed \o s, r, l)
  BY <1>3, <1>4, CopiedBit, StuffedBit, Zenon DEF b
<1>6. \/ Len(s) = 1 /\ Len(stuffed \o s) = Len(stuffed) + 1 /\ r \in 1 .. 4 /\ r <= run + 1
      \/ Len(s) = 2 /\ Len(stuffed \o s) = Len(stuffed) + 2 /\ r = 1 /\ run = 4
  <2>1. RunWith(b) \in 1 .. 5 /\ RunWith(b) <= run + 1 /\ Len(stuffed \o <<b>>) = Len(stuffed) + 1
    BY <1>3, CopiedBit, Zenon DEF b
  <2>2. RunWith(b) = 5 => Len(stuffed \o <<b, Not(b)>>) = Len(stuffed) + 2
    BY <1>3, StuffedBit, Zenon DEF b
  <2>3. Len(<<b>>) = 1 /\ Len(<<b, Not(b)>>) = 2
    OBVIOUS
  <2>4. CASE s = <<b>> /\ r = RunWith(b) /\ r # 5
    <3>1. Len(stuffed \o s) = Len(stuffed) + 1 /\ Len(s) = 1
      BY <2>1, <2>3, <2>4, Zenon
    <3> QED BY <2>1, <2>4, <3>1
  <2>5. CASE s = <<b, Not(b)>> /\ r = 1 /\ RunWith(b) = 5
    <3>1. Len(stuffed \o s) = Len(stuffed) + 2 /\ Len(s) = 2
      BY <2>2, <2>3, <2>5, Zenon
    <3>2. run = 4
      BY <1>1, <2>1, <2>5
    <3> QED BY <2>5, <3>1, <3>2
  <2> QED BY <1>4, <2>4, <2>5, Zenon
<1>7. /\ 4 * (Len(stuffed \o s) - k) + r <= k
      /\ Len(stuffed) + Len(s) <= CapStuffed /\ r \in 1 .. 4
  <2>1. 4 * (Len(stuffed) + Len(s) - k) + r <= k
    BY <1>1, <1>2, <1>6
  <2> QED BY <1>1, <1>2, <1>6, <2>1, Bounds
<1>8. /\ pc' = "stuff" /\ stuffed' = stuffed \o s /\ run' = r /\ last' = l /\ k' = k + 1
      /\ UNCHANGED <<frame, unstuffed, crc, sent>>
  BY <1>1, <1>2, <1>4, <1>6, <1>7, Bounds DEF Push, Panics
<1>9. SenderType'
  BY <1>1, <1>5, <1>7, <1>8 DEF SendInv, SenderType
<1>10. LoopInv'
  <2>1. k' # 1 /\ k' <= Len(unstuffed') + 1 /\ run' >= 1
    BY <1>1, <1>2, <1>7, <1>8
  <2>2. 4 * (Len(stuffed') - (k' - 1)) + run' <= k' - 1
    <3>1. k' - 1 = k
      BY <1>1, <1>8
    <3> QED BY <1>7, <1>8, <3>1
  <2>3. EndsWith(stuffed', run', last')
    BY <1>5, <1>8
  <2> QED BY <2>1, <2>2, <2>3 DEF LoopInv, EndsWith
<1>11. StuffInv'
  <2>1. NoSix(stuffed', Len(stuffed'))
    BY <1>5, <1>8
  <2>2. /\ pc' = "stuff" /\ Len(unstuffed') >= 1 /\ Len(unstuffed') <= Longest
        /\ sent' < Iterations
    BY <1>1, <1>2, <1>8
  <2> QED BY <1>10, <2>1, <2>2 DEF StuffInv, StuffingHolds
<1> QED BY <1>9, <1>11 DEF SendInv

LEMMA BuildStep ==
    ASSUME SendInv, BuildUnstuffed
    PROVE  SendInv'
<1>1. /\ unstuffed' = Body(frame.id, frame.data) /\ stuffed' = <<>> /\ crc' = ZeroCrc /\ k' = 1
      /\ UNCHANGED <<frame, last, run, sent>> /\ sent < Iterations
      /\ Panics(Len(unstuffed'), CapFrame) \/ pc' = "crc"
  BY DEF BuildUnstuffed
<1>2. frame \in Frames /\ last \in Bit /\ run \in 0 .. 4 /\ sent \in 0 .. Iterations
  BY DEF SendInv, SenderType
<1>3. PICK n \in 1 .. Longest - 15 : IsBits(unstuffed', n)
  BY <1>1, <1>2, BodyBits, Zenon
<1>4. unstuffed' \in Seq(Bit) /\ Len(unstuffed') \in 1 .. Longest - 15
  BY <1>3 DEF IsBits
<1>5. pc' = "crc"
  BY <1>1, <1>4, Bounds DEF Panics
<1>6. ZeroCrc \in [0 .. 14 -> Bit] /\ <<>> \in Seq(Bit)
  BY DEF ZeroCrc, Bit
<1>7. SenderType'
  BY <1>1, <1>2, <1>4, <1>5, <1>6 DEF SenderType
<1>8. StuffInv'
  BY <1>1, <1>4, <1>5, Bounds DEF StuffInv, StuffingHolds
<1> QED BY <1>7, <1>8 DEF SendInv

LEMMA CrcLoopStep ==
    ASSUME SendInv, CanCrc15
    PROVE  SendInv'
<1>1. crc' = CrcStep(crc, unstuffed[k])
  BY DEF CanCrc15
<1>2. unstuffed[k] \in Bit /\ crc \in [0 .. 14 -> Bit]
  BY DEF SendInv, SenderType, CanCrc15
<1>3. crc' \in [0 .. 14 -> Bit]
  BY <1>1, <1>2, CrcStepBits, Zenon
<1>4. SenderType'
  BY <1>3 DEF SendInv, SenderType, CanCrc15
<1>5. StuffInv'
  BY DEF SendInv, SenderType, StuffInv, StuffingHolds, CanCrc15
<1> QED BY <1>4, <1>5 DEF SendInv

LEMMA PushCrcStep ==
    ASSUME SendInv, PushCrc
    PROVE  SendInv'
<1> DEFINE c == CrcBits
<1>1. /\ unstuffed' = unstuffed \o c /\ k' = 1 /\ run' = 0 /\ last' = Not(unstuffed[1])
      /\ UNCHANGED <<frame, stuffed, crc, sent>>
      /\ Panics(Len(unstuffed) + 15, CapFrame) \/ pc' = "stuff"
  BY DEF PushCrc
<1>2. /\ frame \in Frames /\ crc \in [0 .. 14 -> Bit] /\ sent \in 0 .. Iterations
      /\ stuffed = <<>> /\ unstuffed \in Seq(Bit)
      /\ Len(unstuffed) \in 1 .. Longest - 15 /\ sent < Iterations
  <2>1. unstuffed \in Seq(Bit) /\ Len(unstuffed) \in Nat
    BY DEF SendInv, SenderType
  <2>2. stuffed = <<>> /\ Len(unstuffed) >= 1 /\ Len(unstuffed) <= Longest - 15 /\ sent < Iterations
    BY DEF SendInv, StuffInv, PushCrc
  <2> QED BY <2>1, <2>2, Bounds DEF SendInv, SenderType
<1>3. IsBits(c, 15)
  BY <1>2, CrcBitsIsBits
<1>4. c \in Seq(Bit) /\ Len(c) = 15
  BY <1>3 DEF IsBits
<1> HIDE DEF c
<1>5. /\ unstuffed' \in Seq(Bit) /\ Len(unstuffed') = Len(unstuffed) + Len(c)
      /\ \A a \in 1 .. Len(unstuffed) : unstuffed'[a] = unstuffed[a]
  BY <1>1, <1>2, <1>4, ConcatBits, Zenon
<1>6. /\ Len(unstuffed') >= 1 /\ Len(unstuffed') <= Longest /\ pc' = "stuff"
      /\ unstuffed'[1] = unstuffed[1]
  BY <1>1, <1>2, <1>4, <1>5, Bounds DEF Panics
<1>7. unstuffed[1] \in Bit
  BY <1>2
<1>8. last' \in Bit /\ last' # unstuffed'[1]
  BY <1>1, <1>6, <1>7 DEF Not, Bit
<1>9. SenderType'
  BY <1>1, <1>2, <1>5, <1>6, <1>8 DEF SenderType
<1>10. LoopInv'
  BY <1>1, <1>2, <1>6, <1>8 DEF LoopInv
<1>11. NoSix(<<>>, Len(<<>>))
  BY DEF NoSix
<1>12. NoSix(stuffed', Len(stuffed'))
  BY <1>1, <1>2, <1>11, Zenon
<1>13. StuffInv'
  BY <1>1, <1>2, <1>6, <1>10, <1>12 DEF StuffInv, StuffingHolds
<1> QED BY <1>9, <1>13 DEF SendInv

LEMMA TrailerStep ==
    ASSUME SendInv, PushTrailer
    PROVE  SendInv'
<1> DEFINE d == Recessive(10)
           n == Len(stuffed)
<1>1. /\ stuffed' = stuffed \o d /\ k' = 1
      /\ UNCHANGED <<frame, unstuffed, crc, last, run, sent>>
      /\ Panics(n + 10, CapStuffed) \/ pc' = "emit"
  BY DEF PushTrailer
<1>2. stuffed \in Seq(Bit) /\ n \in Nat
  BY DEF SendInv, SenderType
<1>3. /\ 4 * (n - (k - 1)) + run <= k - 1 /\ k = Len(unstuffed) + 1
      /\ Len(unstuffed) <= Longest /\ run \in 0 .. 4 /\ sent < Iterations
      /\ k \in Nat
  BY DEF SendInv, SenderType, StuffInv, LoopInv, PushTrailer
<1>4. NoSix(stuffed, n)
  BY DEF SendInv, StuffInv, StuffingHolds, PushTrailer
<1>5. d \in Seq(Bit) /\ Len(d) = 10
  <2>1. d \in [1 .. 10 -> Bit]
    BY DEF Recessive, Bit
  <2>2. IsBits(d, 10)
    BY <2>1, FunIsBits
  <2> QED BY <2>2 DEF IsBits
<1> HIDE DEF d
<1>6. /\ stuffed' \in Seq(Bit) /\ Len(stuffed') = n + Len(d)
      /\ \A a \in 1 .. n : stuffed'[a] = stuffed[a]
  BY <1>1, <1>2, <1>5, ConcatBits, Zenon
<1>7. pc' = "emit"
  BY <1>1, <1>2, <1>3, Bounds DEF Panics
<1>8. NoSix(stuffed', n)
  <2> SUFFICES ASSUME NEW a \in 1 .. n - 5 PROVE \E b \in a .. a + 4 : stuffed'[b] # stuffed'[b + 1]
    BY DEF NoSix
  <2>1. PICK b \in a .. a + 4 : stuffed[b] # stuffed[b + 1]
    BY <1>4 DEF NoSix
  <2>2. b \in 1 .. n /\ b + 1 \in 1 .. n
    BY <1>2
  <2> QED BY <1>6, <2>1, <2>2
<1>9. Len(stuffed') - 10 = n
  BY <1>2, <1>5, <1>6
<1>10. SenderType'
  BY <1>1, <1>6, <1>7 DEF SendInv, SenderType
<1>11. StuffInv'
  BY <1>1, <1>2, <1>3, <1>7, <1>8, <1>9 DEF StuffInv, StuffingHolds
<1> QED BY <1>10, <1>11 DEF SendInv

LEMMA EmitStep ==
    ASSUME SendInv, EmitBit
    PROVE  SendInv'
<1>1. /\ UNCHANGED <<frame, unstuffed, stuffed, crc, last, run>> /\ pc = "emit"
      /\ \/ k < Len(stuffed) /\ k' = k + 1 /\ pc' = pc /\ sent' = sent
         \/ k >= Len(stuffed) /\ k' = 1 /\ pc' = "gap" /\ sent' = sent + 1
  <2>1. Len(stuffed) \in Nat /\ k \in Nat
    BY DEF SendInv, SenderType
  <2> QED BY <2>1 DEF EmitBit
<1>2. /\ k \in Nat \ {0} /\ sent \in 0 .. Iterations /\ sent < Iterations
      /\ Len(stuffed) >= 10 /\ Len(stuffed) \in Nat
  BY <1>1 DEF SendInv, SenderType, StuffInv
<1>3. NoSix(stuffed, Len(stuffed) - 10)
  BY <1>1 DEF SendInv, StuffInv, StuffingHolds
<1>4. /\ k' \in Nat \ {0} /\ sent' \in 0 .. Iterations
      /\ \/ pc' = "emit" /\ k' <= Len(stuffed) /\ sent' < Iterations
         \/ pc' = "gap" /\ k' = 1
  BY <1>1, <1>2, Bounds
<1>5. SenderType'
  <2>1. SenderType
    BY DEF SendInv
  <2> QED BY <1>1, <1>4, <2>1 DEF SenderType
<1>6. NoSix(stuffed', Len(stuffed') - 10)
  BY <1>1, <1>3
<1>7. StuffInv'
  BY <1>1, <1>2, <1>4, <1>6, Bounds DEF StuffInv, StuffingHolds
<1> QED BY <1>5, <1>7 DEF SendInv

LEMMA IdleStep ==
    ASSUME SendInv, IdleBit \/ Pass
    PROVE  SendInv'
<1>1. /\ UNCHANGED <<frame, unstuffed, stuffed, crc, last, run, sent>> /\ pc = "gap"
      /\ \/ k <= GapBits /\ k' = k + 1 /\ pc' = "gap"
         \/ k' = k /\ pc' = "pass"
  BY DEF IdleBit, Pass
<1>2. SenderType /\ k \in Nat \ {0}
  BY DEF SendInv, SenderType
<1>3. k' \in Nat \ {0} /\ (pc' = "gap" => k' <= GapBits + 1)
  BY <1>1, <1>2, Bounds
<1>4. SenderType'
  BY <1>1, <1>2, <1>3 DEF SenderType
<1>5. StuffInv'
  BY <1>1, <1>3 DEF StuffInv, StuffingHolds
<1> QED BY <1>4, <1>5 DEF SendInv

LEMMA QuietStep ==
    ASSUME SendInv, SwitchOn \/ UNCHANGED vars
    PROVE  SendInv'
<1>1. UNCHANGED <<frame, pc, k, unstuffed, stuffed, crc, last, run, sent>>
  BY DEF SwitchOn, vars, cpuVars
<1>2. SenderType'
  BY <1>1 DEF SendInv, SenderType
<1>3. StuffInv'
  BY <1>1 DEF SendInv, StuffInv, StuffingHolds, LoopInv, EndsWith, NoSix
<1> QED BY <1>2, <1>3 DEF SendInv

(***************************************************************************)
(* Runs of alike bits.                                                     *)
(***************************************************************************)

LEMMA RunFive ==
    ASSUME NEW s, NEW j \in Nat, NEW l, NEW r \in 1 .. 5, RunAt(s, j, r, l)
    PROVE  r = 5 <=> AfterFive(s, j + 1)
<1>1. ASSUME r = 5 PROVE AfterFive(s, j + 1)
  BY <1>1 DEF RunAt, AfterFive
<1>2. ASSUME AfterFive(s, j + 1), r # 5 PROVE FALSE
  <2>1. j > r /\ s[j - r] # l
    BY <1>2 DEF RunAt, AfterFive
  <2>2. s[j - r + 1] = l
    BY <2>1 DEF RunAt
  <2>3. j - r \in j + 1 - 5 .. j + 1 - 2
    BY <1>2, <2>1
  <2> QED BY <1>2, <2>1, <2>2, <2>3 DEF AfterFive
<1> QED BY <1>1, <1>2

LEMMA RunNext ==
    ASSUME NEW s, NEW j \in Nat, NEW l, NEW r \in 1 .. 5, RunAt(s, j, r, l)
    PROVE  RunAt(s, j + 1, IF s[j + 1] = l THEN r + 1 ELSE 1, s[j + 1])
<1>1. r <= j /\ s[j] = l /\ \A a \in j - r + 1 .. j : s[a] = l
  BY DEF RunAt
<1>2. CASE s[j + 1] = l
  <2>1. \A a \in (j + 1) - (r + 1) + 1 .. j + 1 : s[a] = l
    BY <1>1, <1>2
  <2>2. j + 1 > r + 1 => s[(j + 1) - (r + 1)] # l
    <3>1. j > r => s[j - r] # l
      BY DEF RunAt
    <3>2. (j + 1) - (r + 1) = j - r
      OBVIOUS
    <3> QED BY <3>1, <3>2
  <2> QED BY <1>1, <1>2, <2>1, <2>2 DEF RunAt
<1>3. CASE s[j + 1] # l
  <2>1. (j + 1) - 1 = j
    OBVIOUS
  <2> QED BY <1>1, <1>3, <2>1 DEF RunAt
<1> QED BY <1>2, <1>3

\* Six alike would be a run of five and one more.
LEMMA NextDiffers ==
    ASSUME NEW s, NEW m \in Nat, NoSix(s, m), NEW j \in Nat, NEW l, RunAt(s, j, 5, l), j + 1 <= m
    PROVE  s[j + 1] # l
<1> SUFFICES ASSUME s[j + 1] = l PROVE FALSE
  OBVIOUS
<1>1. j >= 5 /\ \A a \in j - 5 + 1 .. j : s[a] = l
  BY DEF RunAt
<1>2. PICK b \in j - 4 .. j - 4 + 4 : s[b] # s[b + 1]
  <2>1. j - 4 \in 1 .. m - 5
    BY <1>1
  <2> QED BY <2>1 DEF NoSix
<1> QED BY <1>1, <1>2

LEMMA AfterFivePrefix ==
    ASSUME NEW s, NEW t, NEW i \in Nat, \A a \in 1 .. i - 1 : s[a] = t[a]
    PROVE  AfterFive(s, i) <=> AfterFive(t, i)
<1>1. ASSUME i > 5, NEW a \in i - 5 .. i - 2
      PROVE  s[a] = t[a] /\ s[a + 1] = t[a + 1]
  <2>1. a \in 1 .. i - 1 /\ a + 1 \in 1 .. i - 1
    BY <1>1
  <2> QED BY <2>1
<1> QED BY <1>1 DEF AfterFive

LEMMA EndIsRun ==
    ASSUME NEW s \in Seq(Bit), NEW r \in Nat, NEW l
    PROVE  EndsWith(s, r, l) <=> RunAt(s, Len(s), r, l)
<1>1. Len(s) \in Nat
  OBVIOUS
<1> QED BY <1>1 DEF EndsWith, RunAt

(***************************************************************************)
(* The quotient of the input and the register: CrcInv.                     *)
(***************************************************************************)

LEMMA PolyShifts == \A j \in 0 .. 14 : j \in Poly <=> 15 - j \in Shifts
BY DEF Poly, Shifts

LEMMA XorBits ==
    /\ \A x, y \in Bit : Xor(x, Xor(x, y)) = y /\ Xor(x, y) \in Bit
    /\ \A x \in Bit : Xor(x, 0) = x
BY DEF Xor, Bit

LEMMA CrcLoop ==
    ASSUME SendInv, CrcInv, CanCrc15
    PROVE  CrcInv'
<1>1. /\ pc = "crc" /\ k <= Len(unstuffed) /\ k' = k + 1 /\ pc' = "crc" /\ unstuffed' = unstuffed
      /\ crc' = CrcStep(crc, unstuffed[k])
      /\ quotient' = Append(quotient, Xor(crc[14], unstuffed[k]))
  BY DEF CanCrc15
<1>2. /\ k \in Nat \ {0} /\ unstuffed \in Seq(Bit) /\ crc \in [0 .. 14 -> Bit]
  BY DEF SendInv, SenderType
<1>3. /\ quotient \in Seq(Bit) /\ Len(quotient) = k - 1
      /\ \A i \in 1 .. k - 1 : ProductBit(quotient, i) = unstuffed[i]
      /\ \A j \in 0 .. 14 : ProductBit(quotient, k + 14 - j) = crc[j]
  BY <1>1 DEF CrcInv
<1>4. PICK n, b, f : n = k /\ b = unstuffed[k] /\ f = Xor(crc[14], b)
  OBVIOUS
<1>5. b \in Bit /\ crc[14] \in Bit
  BY <1>1, <1>2, <1>4
<1>6. f \in Bit
  BY <1>4, <1>5, XorBits, Zenon
<1>7. quotient' = Append(quotient, f) /\ Len(quotient) + 1 = n
  BY <1>1, <1>2, <1>3, <1>4
<1>8. quotient' \in Seq(Bit) /\ Len(quotient') = k' - 1 /\ k' <= Len(unstuffed') + 1
  BY <1>1, <1>2, <1>3, <1>6, <1>7
<1>9. \A i \in Int : ProductBit(quotient', i) = IF i - n \in Shifts THEN Xor(ProductBit(quotient, i), f)
                                                ELSE ProductBit(quotient, i)
  BY <1>3, <1>6, <1>7, NextProduct
<1>10. n \in Nat /\ n >= 1
  BY <1>2, <1>4
<1>11. ASSUME NEW i \in 1 .. k' - 1 PROVE ProductBit(quotient', i) = unstuffed'[i]
  <2>1. i \in Int /\ i \in 1 .. n
    BY <1>1, <1>2, <1>4
  <2>2. CASE i # n
    <3>1. i - n \notin Shifts /\ i \in 1 .. k - 1
      BY <1>4, <1>10, <2>1, <2>2 DEF Shifts
    <3> QED BY <1>1, <1>3, <1>9, <2>1, <3>1
  <2>3. CASE i = n
    <3>1. i - n \in Shifts
      BY <1>10, <2>3 DEF Shifts
    <3>2. n = k + 14 - 14 /\ 14 \in 0 .. 14
      BY <1>2, <1>4
    <3>3. ProductBit(quotient, n) = crc[14]
      BY <1>3, <3>2
    <3>4. ProductBit(quotient', n) = Xor(crc[14], f)
      BY <1>9, <2>1, <2>3, <3>1, <3>3
    <3>5. Xor(crc[14], f) = b
      BY <1>4, <1>5, XorBits, Zenon
    <3> QED BY <1>1, <1>4, <2>3, <3>4, <3>5
  <2> QED BY <2>2, <2>3
<1>12. ASSUME NEW j \in 0 .. 14 PROVE ProductBit(quotient', k' + 14 - j) = crc'[j]
  <2>1. PICK i, x : i = n + 15 - j /\ x = IF j = 0 THEN 0 ELSE crc[j - 1]
    OBVIOUS
  <2>2. i \in Int /\ i - n = 15 - j /\ k' + 14 - j = i
    BY <1>1, <1>4, <1>10, <2>1
  <2>3. ProductBit(quotient, i) = x
    <3>1. CASE j = 0
      <4>1. i > Len(quotient) + 15
        BY <1>2, <1>3, <1>4, <2>1, <3>1
      <4> QED BY <1>3, <2>1, <2>2, <3>1, <4>1, ProductEnds
    <3>2. CASE j # 0
      <4>1. j - 1 \in 0 .. 14 /\ i = k + 14 - (j - 1)
        BY <1>2, <1>4, <2>1, <3>2
      <4>2. ProductBit(quotient, k + 14 - (j - 1)) = crc[j - 1]
        BY <1>3, <4>1
      <4> QED BY <2>1, <3>2, <4>1, <4>2
    <3> QED BY <3>1, <3>2
  <2>4. x \in Bit
    BY <1>2, <2>1 DEF Bit
  <2>5. crc'[j] = Xor(x, IF j \in Poly THEN f ELSE 0)
    BY <1>1, <1>4, <2>1 DEF CrcStep
  <2>6. i - n \in Shifts <=> j \in Poly
    BY <2>2, PolyShifts
  <2>7. ProductBit(quotient', i) = IF j \in Poly THEN Xor(x, f) ELSE x
    BY <1>9, <2>2, <2>3, <2>6, Zenon
  <2>8. ProductBit(quotient', i) = crc'[j]
    <3>1. Xor(x, 0) = x
      BY <2>4, XorBits, Zenon
    <3>2. CASE j \in Poly
      BY <2>5, <2>7, <3>2
    <3>3. CASE j \notin Poly
      BY <2>5, <2>7, <3>1, <3>3
    <3> QED BY <3>2, <3>3
  <2> QED BY <2>2, <2>8, Zenon
<1> QED BY <1>1, <1>8, <1>11, <1>12 DEF CrcInv

LEMMA CrcPush ==
    ASSUME SendInv, CrcInv, PushCrc, SendInv'
    PROVE  CrcInv'
<1>1. /\ pc = "crc" /\ pc' = "stuff" /\ k > Len(unstuffed)
      /\ unstuffed' = unstuffed \o CrcBits /\ quotient' = quotient
  BY DEF PushCrc, Panics, SendInv, StuffInv, StuffingHolds
<1>2. /\ k \in Nat \ {0} /\ unstuffed \in Seq(Bit) /\ crc \in [0 .. 14 -> Bit]
  BY DEF SendInv, SenderType
<1>3. /\ quotient \in Seq(Bit) /\ Len(quotient) = k - 1 /\ k <= Len(unstuffed) + 1
      /\ \A i \in 1 .. k - 1 : ProductBit(quotient, i) = unstuffed[i]
      /\ \A j \in 0 .. 14 : ProductBit(quotient, k + 14 - j) = crc[j]
  BY <1>1 DEF CrcInv
<1>4. PICK n : n = Len(unstuffed)
  OBVIOUS
<1>5. n \in Nat /\ k = n + 1
  <2>1. n \in Nat
    BY <1>2, <1>4
  <2>2. k > n /\ k <= n + 1 /\ k \in Nat
    BY <1>1, <1>2, <1>3, <1>4
  <2> QED BY <2>1, <2>2
<1>6. CrcBits \in Seq(Bit) /\ Len(CrcBits) = 15
  BY <1>2, CrcBitsIsBits DEF IsBits
<1>7. /\ Len(unstuffed') = n + 15
      /\ \A a \in 1 .. n : unstuffed'[a] = unstuffed[a]
      /\ \A a \in 1 .. 15 : unstuffed'[n + a] = CrcBits[a]
  <2>1. /\ Len(unstuffed \o CrcBits) = Len(unstuffed) + Len(CrcBits)
        /\ \A a \in 1 .. Len(unstuffed) : (unstuffed \o CrcBits)[a] = unstuffed[a]
        /\ \A a \in 1 .. Len(CrcBits) : (unstuffed \o CrcBits)[Len(unstuffed) + a] = CrcBits[a]
    BY <1>2, <1>6, ConcatBits, Zenon
  <2> QED BY <1>1, <1>4, <1>6, <2>1
<1>8. ASSUME NEW i \in 1 .. n + 15 PROVE unstuffed'[i] = ProductBit(quotient', i)
  <2>1. CASE i <= n
    <3>1. i \in 1 .. n /\ i \in 1 .. k - 1
      BY <1>5, <2>1
    <3> QED BY <1>1, <1>3, <1>7, <3>1
  <2>2. CASE i > n
    <3>1. PICK a, j : a = i - n /\ j = 15 - a
      OBVIOUS
    <3>2. a \in 1 .. 15 /\ j \in 0 .. 14 /\ n + a = i /\ k + 14 - j = i
      BY <1>5, <2>2, <3>1
    <3>3. CrcBits[a] = crc[j]
      BY <3>1, <3>2 DEF CrcBits
    <3>4. unstuffed'[n + a] = CrcBits[a] /\ ProductBit(quotient, k + 14 - j) = crc[j]
      BY <1>3, <1>7, <3>2
    <3> QED BY <1>1, <3>2, <3>3, <3>4, Zenon
  <2> QED BY <1>5, <2>1, <2>2
<1>9. Len(unstuffed') = Len(quotient') + 15
  BY <1>1, <1>3, <1>5, <1>7
<1> QED BY <1>1, <1>7, <1>8, <1>9 DEF CrcInv, IsMultiple

LEMMA CrcKept ==
    ASSUME SendInv, CrcInv, [Next]_vars, SendInv'
    PROVE  CrcInv'
<1>1. pc' # "panic"
  BY DEF SendInv, StuffInv, StuffingHolds
<1>2. CASE BuildUnstuffed
  <2>1. /\ pc' = "crc" /\ quotient' = <<>> /\ crc' = ZeroCrc /\ k' = 1
    BY <1>1, <1>2 DEF BuildUnstuffed, Panics
  <2>2. unstuffed' \in Seq(Bit)
    BY DEF SendInv, SenderType
  <2>3. <<>> \in Seq(Bit) /\ Len(<<>>) = 0 /\ 1 <= Len(unstuffed') + 1
    BY <2>2
  <2>4. ASSUME NEW j \in 0 .. 14 PROVE ProductBit(<<>>, 1 + 14 - j) = ZeroCrc[j]
    <3>1. \A i \in Int : At(<<>>, i) = 0
      BY DEF At
    <3>2. ProductBit(<<>>, 1 + 14 - j) = 0
      BY <3>1 DEF ProductBit
    <3> QED BY <3>2 DEF ZeroCrc
  <2> QED BY <2>1, <2>3, <2>4 DEF CrcInv
<1>3. CASE CanCrc15
  BY <1>3, CrcLoop
<1>4. CASE PushCrc
  BY <1>4, CrcPush
<1>5. CASE UNCHANGED vars
  BY <1>5 DEF vars, cpuVars, CrcInv
<1>6. CASE Stuff \/ PushTrailer \/ EmitBit \/ IdleBit \/ Pass \/ SwitchOn
  <2>1. /\ quotient' = quotient /\ unstuffed' = unstuffed
        /\ \/ pc' = pc /\ k' = k /\ crc' = crc
           \/ pc' \in {"stuff", "emit"} /\ pc \in {"stuff", "emit"}
           \/ pc' \in {"gap", "pass"}
    BY <1>1, <1>6 DEF Stuff, Stuffing, Push, Panics, PushTrailer, EmitBit, IdleBit, Pass, SwitchOn, cpuVars
  <2> QED BY <2>1 DEF CrcInv, IsMultiple
<1> QED BY <1>2, <1>3, <1>4, <1>5, <1>6 DEF Next, Sender, Park

(***************************************************************************)
(* The output is the input with its stuff bits: CopyInv.                   *)
(***************************************************************************)

LEMMA CopyKept ==
    ASSUME NEW i \in Nat \ {0}, CopyOf(i), unstuffed' = unstuffed,
           \A a \in 1 .. i : taken'[a] = taken[a] /\ stuffed'[a] = stuffed[a]
    PROVE  CopyOf(i)'
<1>1. \A a \in 1 .. i - 1 : stuffed[a] = stuffed'[a]
  OBVIOUS
<1>2. AfterFive(stuffed, i) <=> AfterFive(stuffed', i)
  BY <1>1, AfterFivePrefix
<1>3. /\ taken'[i] = taken[i] /\ stuffed'[i] = stuffed[i]
      /\ i # 1 => taken'[i - 1] = taken[i - 1]
  OBVIOUS
<1> QED BY <1>2, <1>3 DEF CopyOf

LEMMA CopyStuff ==
    ASSUME SendInv, CopyInv, Stuff, SendInv'
    PROVE  CopyInv'
<1> DEFINE b == unstuffed[k]
<1>0. PICK n : n = Len(stuffed)
  OBVIOUS
<1>1. PICK s : /\ stuffed' = stuffed \o s /\ taken' = taken \o [i \in 1 .. Len(s) |-> k]
               /\ k' = k + 1 /\ unstuffed' = unstuffed /\ frame' = frame /\ crc' = crc
               /\ pc' = pc \/ pc' = "panic"
               /\ \/ s = <<b>>
                  \/ s = <<b, Not(b)>> /\ RunWith(b) = 5
  BY DEF Stuff, Push, Panics
<1>2. /\ pc = "stuff" /\ pc' = "stuff" /\ Stuffing
  BY <1>1 DEF Stuff, Stuffing, SendInv, StuffInv, StuffingHolds
<1>3. /\ k \in Nat \ {0} /\ k <= Len(unstuffed) /\ Len(unstuffed) \in Nat
      /\ n \in Nat /\ stuffed \in Seq(Bit) /\ run \in 0 .. 4
  BY <1>0, <1>2 DEF SendInv, SenderType, Stuffing
<1>4. LoopInv
  BY <1>2 DEF SendInv, StuffInv
<1>5. /\ taken \in Seq(Nat) /\ Len(taken) = n
      /\ k = 1 => taken = <<>>
      /\ k # 1 => taken # <<>> /\ taken[Len(taken)] = k - 1
      /\ \A i \in 1 .. n : CopyOf(i)
      /\ unstuffed = Body(frame.id, frame.data) \o CrcBits
  BY <1>0, <1>2 DEF CopyInv
<1>6. b \in Bit /\ Not(b) \in Bit
  <2>1. b \in Bit
    BY <1>2, CopiedBit, Zenon
  <2> QED BY <2>1 DEF Not, Bit
<1> HIDE DEF b
<1>7. /\ Len(s) \in 1 .. 2 /\ s \in Seq(Bit) /\ s[1] = b
      /\ Len(s) = 2 => RunWith(b) = 5
  <2>1. CASE s = <<b>>
    BY <1>6, <2>1
  <2>2. CASE s = <<b, Not(b)>> /\ RunWith(b) = 5
    BY <1>6, <2>2
  <2> QED BY <1>1, <2>1, <2>2
<1>8. /\ Len(stuffed') = n + Len(s)
      /\ \A a \in 1 .. n : stuffed'[a] = stuffed[a]
      /\ stuffed'[n + 1] = b
  <2>1. /\ Len(stuffed') = Len(stuffed) + Len(s)
        /\ \A a \in 1 .. Len(stuffed) : stuffed'[a] = stuffed[a]
        /\ \A a \in 1 .. Len(s) : stuffed'[Len(stuffed) + a] = s[a]
    BY <1>1, <1>3, <1>7, ConcatBits, Zenon
  <2> QED BY <1>0, <1>3, <1>7, <2>1
<1>9. /\ taken' \in Seq(Nat) /\ Len(taken') = n + Len(s)
      /\ \A a \in 1 .. n : taken'[a] = taken[a]
      /\ \A a \in n + 1 .. n + Len(s) : taken'[a] = k
  <2> DEFINE t == [i \in 1 .. Len(s) |-> k]
  <2>1. t \in Seq(Nat) /\ Len(t) = Len(s) /\ \A a \in 1 .. Len(s) : t[a] = k
    BY <1>3, <1>7
  <2>2. taken' = taken \o t
    BY <1>1
  <2> HIDE DEF t
  <2>3. /\ taken' \in Seq(Nat) /\ Len(taken') = Len(taken) + Len(t)
        /\ \A a \in 1 .. Len(taken) : taken'[a] = taken[a]
        /\ \A a \in 1 .. Len(t) : taken'[Len(taken) + a] = t[a]
    BY <1>5, <2>1, <2>2, ConcatNats, Zenon
  <2>4. ASSUME NEW a \in n + 1 .. n + Len(s) PROVE taken'[a] = k
    <3>1. a - n \in 1 .. Len(t) /\ n + (a - n) = a
      BY <1>3, <1>7, <2>1
    <3>2. taken'[n + (a - n)] = t[a - n]
      BY <1>5, <2>3, <3>1
    <3> QED BY <2>1, <3>1, <3>2
  <2> QED BY <1>5, <2>1, <2>3, <2>4
<1>10. ASSUME NEW i \in 1 .. n PROVE CopyOf(i)'
  <2>1. i \in Nat \ {0}
    OBVIOUS
  <2>2. ASSUME NEW a \in 1 .. i PROVE taken'[a] = taken[a] /\ stuffed'[a] = stuffed[a]
    <3>1. a \in 1 .. n
      BY <1>3
    <3> QED BY <1>8, <1>9, <3>1
  <2>3. CopyOf(i) /\ unstuffed' = unstuffed
    BY <1>1, <1>5
  <2> QED BY <2>1, <2>2, <2>3, CopyKept
<1>11. k # 1 => n >= 1 /\ taken[n] = k - 1
  BY <1>3, <1>5
<1>12. k = 1 => n = 0
  BY <1>5
<1>13. AfterFive(stuffed, n + 1) <=> AfterFive(stuffed', n + 1)
  <2>1. PICK m : m = n + 1
    OBVIOUS
  <2>2. m \in Nat /\ m - 1 = n
    BY <1>3, <2>1
  <2>3. AfterFive(stuffed, m) <=> AfterFive(stuffed', m)
    BY <1>8, <2>2, AfterFivePrefix
  <2> QED BY <2>1, <2>3, Zenon
<1>14. ~AfterFive(stuffed', n + 1)
  <2>1. CASE k = 1
    BY <1>12, <2>1 DEF AfterFive
  <2>2. CASE k # 1
    <3>1. run \in 1 .. 5 /\ run # 5 /\ EndsWith(stuffed, run, last)
      BY <1>3, <1>4, <2>2 DEF LoopInv
    <3>2. run \in Nat
      BY <3>1
    <3>3. RunAt(stuffed, n, run, last)
      BY <1>0, <1>3, <3>1, <3>2, EndIsRun, Zenon
    <3>4. ~AfterFive(stuffed, n + 1)
      BY <1>3, <3>1, <3>3, RunFive, Zenon
    <3> QED BY <1>13, <3>4, Zenon
  <2> QED BY <2>1, <2>2
<1>15. CopyOf(n + 1)'
  <2>1. PICK m : m = n + 1
    OBVIOUS
  <2>2. taken'[m] = k /\ k \in 1 .. Len(unstuffed') /\ m \in Nat /\ m - 1 = n
    <3>1. m \in n + 1 .. n + Len(s) /\ m \in Nat /\ m - 1 = n
      BY <1>3, <1>7, <2>1
    <3>2. taken'[m] = k
      BY <1>9, <3>1
    <3>3. k \in 1 .. Len(unstuffed) /\ unstuffed' = unstuffed
      BY <1>1, <1>3
    <3> QED BY <3>1, <3>2, <3>3, Zenon
  <2>3. k = (IF m = 1 THEN 0 ELSE taken'[m - 1]) + 1
    <3>1. CASE k = 1
      BY <1>12, <2>1, <3>1
    <3>2. CASE k # 1
      BY <1>3, <1>9, <1>11, <2>1, <2>2, <3>2
    <3> QED BY <3>1, <3>2
  <2>4. stuffed'[m] = unstuffed'[k]
    BY <1>1, <1>8, <2>1 DEF b
  <2>5. ~AfterFive(stuffed', m)
    BY <1>14, <2>1, Zenon
  <2>6. CopyOf(m)'
    BY <2>2, <2>3, <2>4, <2>5 DEF CopyOf
  <2> QED BY <2>1, <2>6, Zenon
<1>16. ASSUME Len(s) = 2 PROVE CopyOf(n + 2)'
  <2>1. AfterFive(stuffed', n + 2)
    <3> DEFINE t == stuffed \o <<b>>
    <3>1. RunWith(b) = 5
      BY <1>7, <1>16
    <3>2. t \in Seq(Bit) /\ Len(t) = n + 1 /\ EndsWith(t, 5, b)
      BY <1>0, <1>2, <3>1, CopiedBit, Zenon DEF b
    <3>3. <<b>> \in Seq(Bit) /\ Len(<<b>>) = 1 /\ <<b>>[1] = b
      BY <1>6
    <3>4. /\ \A a \in 1 .. Len(stuffed) : t[a] = stuffed[a]
          /\ \A a \in 1 .. Len(<<b>>) : t[Len(stuffed) + a] = <<b>>[a]
      BY <1>3, <3>3, ConcatBits, Zenon
    <3> HIDE DEF t
    <3>5. t[n + 1] = b
      BY <1>0, <1>3, <3>3, <3>4
    <3>6. PICK m : m = n + 2
      OBVIOUS
    <3>7. m \in Nat /\ \A a \in 1 .. m - 1 : t[a] = stuffed'[a]
      BY <1>0, <1>3, <1>8, <3>4, <3>5, <3>6
    <3>8. RunAt(t, n + 1, 5, b)
      <4>1. 5 \in Nat
        OBVIOUS
      <4> QED BY <3>2, <4>1, EndIsRun, Zenon
    <3>9. AfterFive(t, n + 1 + 1)
      <4>1. n + 1 \in Nat /\ 5 \in 1 .. 5
        BY <1>3
      <4> QED BY <3>8, <4>1, RunFive, Zenon
    <3>10. n + 1 + 1 = n + 2
      BY <1>3
    <3>11. AfterFive(t, m) <=> AfterFive(stuffed', m)
      BY <3>7, AfterFivePrefix
    <3> QED BY <3>6, <3>9, <3>10, <3>11, Zenon
  <2>2. taken'[n + 1] = k /\ taken'[n + 2] = k /\ k \in 1 .. Len(unstuffed')
    BY <1>1, <1>3, <1>9, <1>16
  <2>3. PICK m : m = n + 2
    OBVIOUS
  <2>4. m # 1 /\ m - 1 = n + 1
    BY <1>3, <2>3
  <2>5. CopyOf(m)'
    BY <2>1, <2>2, <2>3, <2>4 DEF CopyOf
  <2> QED BY <2>3, <2>5, Zenon
<1>17. ASSUME NEW i \in 1 .. Len(taken') PROVE CopyOf(i)'
  <2>1. i \in 1 .. n \/ i = n + 1 \/ (i = n + 2 /\ Len(s) = 2)
    <3>1. Len(s) = 1 \/ Len(s) = 2
      BY <1>7
    <3>2. i \in 1 .. n + Len(s)
      BY <1>9
    <3>3. CASE Len(s) = 1
      BY <1>3, <3>2, <3>3
    <3>4. CASE Len(s) = 2
      BY <1>3, <3>2, <3>4
    <3> QED BY <3>1, <3>3, <3>4
  <2>2. CASE i = n + 1
    BY <1>15, <2>2
  <2>3. CASE i = n + 2 /\ Len(s) = 2
    BY <1>16, <2>3
  <2> QED BY <1>10, <2>1, <2>2, <2>3
<1>18. /\ k' # 1 /\ taken' # <<>> /\ taken'[Len(taken')] = k' - 1 /\ Len(taken') = Len(stuffed')
  <2>1. k' - 1 = k /\ k' # 1
    BY <1>1, <1>3
  <2>2. Len(taken') \in n + 1 .. n + Len(s) /\ Len(taken') > 0
    BY <1>3, <1>7, <1>9
  <2>3. taken' # <<>>
    BY <2>2
  <2> QED BY <1>8, <1>9, <2>1, <2>2, <2>3
<1>19. unstuffed' = Body(frame'.id, frame'.data) \o CrcBits'
  BY <1>1, <1>5 DEF CrcBits
<1> QED BY <1>2, <1>9, <1>17, <1>18, <1>19 DEF CopyInv

LEMMA CopyTrailer ==
    ASSUME SendInv, CopyInv, PushTrailer, SendInv'
    PROVE  CopyInv'
<1>0. PICK n : n = Len(stuffed)
  OBVIOUS
<1>1. /\ stuffed' = stuffed \o Recessive(10) /\ k' = 1
      /\ frame' = frame /\ unstuffed' = unstuffed /\ crc' = crc /\ taken' = taken
      /\ pc' = "emit" \/ pc' = "panic"
  BY DEF PushTrailer, Panics
<1>2. pc = "stuff" /\ pc' = "emit"
  BY <1>1 DEF PushTrailer, SendInv, StuffInv, StuffingHolds
<1>3. /\ n \in Nat /\ stuffed \in Seq(Bit) /\ run \in 0 .. 4
      /\ k \in Nat \ {0} /\ k > Len(unstuffed) /\ Len(unstuffed) \in Nat /\ Len(unstuffed) >= 1
  BY <1>0, <1>2 DEF SendInv, SenderType, StuffInv, PushTrailer
<1>4. LoopInv
  BY <1>2 DEF SendInv, StuffInv
<1>5. k = Len(unstuffed) + 1 /\ k # 1
  BY <1>3, <1>4 DEF LoopInv
<1>6. /\ taken \in Seq(Nat) /\ Len(taken) = n
      /\ taken # <<>> /\ taken[n] = k - 1
      /\ \A i \in 1 .. n : CopyOf(i)
      /\ unstuffed = Body(frame.id, frame.data) \o CrcBits
  BY <1>0, <1>2, <1>5 DEF CopyInv
<1>7. /\ Recessive(10) \in Seq(Bit) /\ Len(Recessive(10)) = 10
      /\ \A a \in 1 .. 10 : Recessive(10)[a] = 1
  <2>1. Recessive(10) \in [1 .. 10 -> Bit]
    BY DEF Recessive, Bit
  <2>2. IsBits(Recessive(10), 10)
    BY <2>1, FunIsBits
  <2> QED BY <2>2 DEF IsBits, Recessive
<1>8. /\ Len(stuffed') = n + 10
      /\ \A a \in 1 .. n : stuffed'[a] = stuffed[a]
      /\ \A a \in n + 1 .. n + 10 : stuffed'[a] = 1
  <2>1. /\ Len(stuffed') = Len(stuffed) + Len(Recessive(10))
        /\ \A a \in 1 .. Len(stuffed) : stuffed'[a] = stuffed[a]
        /\ \A a \in 1 .. Len(Recessive(10)) :
              stuffed'[Len(stuffed) + a] = Recessive(10)[a]
    BY <1>1, <1>3, <1>7, ConcatBits, Zenon
  <2>2. ASSUME NEW a \in n + 1 .. n + 10 PROVE stuffed'[a] = 1
    <3>1. a - n \in 1 .. 10 /\ n + (a - n) = a
      BY <1>3
    <3>2. stuffed'[n + (a - n)] = Recessive(10)[a - n]
      BY <1>0, <1>7, <2>1, <3>1
    <3> QED BY <1>7, <3>1, <3>2
  <2> QED BY <1>0, <1>7, <2>1, <2>2
<1>9. ASSUME NEW i \in 1 .. Len(taken') PROVE CopyOf(i)'
  <2>1. i \in Nat \ {0} /\ i \in 1 .. n
    BY <1>1, <1>6
  <2>2. ASSUME NEW a \in 1 .. i PROVE taken'[a] = taken[a] /\ stuffed'[a] = stuffed[a]
    <3>1. a \in 1 .. n
      BY <1>3, <2>1
    <3> QED BY <1>1, <1>8, <3>1
  <2>3. CopyOf(i) /\ unstuffed' = unstuffed
    BY <1>1, <1>6, <2>1
  <2> QED BY <2>1, <2>2, <2>3, CopyKept
<1>10. ~AfterFive(stuffed', n + 1)
  <2>1. run \in 1 .. 5 /\ run # 5 /\ EndsWith(stuffed, run, last) /\ run \in Nat
    BY <1>3, <1>4, <1>5 DEF LoopInv
  <2>2. RunAt(stuffed, n, run, last)
    BY <1>0, <1>3, <2>1, EndIsRun, Zenon
  <2>3. ~AfterFive(stuffed, n + 1)
    BY <1>3, <2>1, <2>2, RunFive, Zenon
  <2>4. PICK m : m = n + 1
    OBVIOUS
  <2>5. m \in Nat /\ m - 1 = n
    BY <1>3, <2>4
  <2>6. AfterFive(stuffed, m) <=> AfterFive(stuffed', m)
    BY <1>8, <2>5, AfterFivePrefix
  <2> QED BY <2>3, <2>4, <2>6, Zenon
<1>11. unstuffed' = Body(frame'.id, frame'.data) \o CrcBits'
  BY <1>1, <1>6 DEF CrcBits
<1>12. taken'[Len(taken')] = Len(unstuffed') /\ Len(taken') = n
  <2>1. k - 1 = Len(unstuffed)
    BY <1>3, <1>5
  <2> QED BY <1>1, <1>6, <2>1
<1>13. \A i \in Len(taken') + 1 .. Len(stuffed') : stuffed'[i] = 1
  BY <1>8, <1>12
<1>14. taken' \in Seq(Nat) /\ taken' # <<>> /\ Len(stuffed') = Len(taken') + 10
       /\ ~AfterFive(stuffed', Len(taken') + 1)
  BY <1>1, <1>6, <1>8, <1>10, <1>12
<1> QED BY <1>2, <1>9, <1>11, <1>12, <1>13, <1>14 DEF CopyInv

LEMMA CopySame ==
    ASSUME SendInv, CopyInv, SendInv',
           BuildUnstuffed \/ CanCrc15 \/ PushCrc \/ EmitBit \/ IdleBit \/ Pass
               \/ SwitchOn \/ UNCHANGED vars
    PROVE  CopyInv'
<1>1. pc' # "panic"
  BY DEF SendInv, StuffInv, StuffingHolds
<1>2. CASE BuildUnstuffed
  <2>1. /\ unstuffed' = Body(frame.id, frame.data) /\ taken' = <<>> /\ frame' = frame
        /\ pc' = "crc"
    BY <1>1, <1>2 DEF BuildUnstuffed, Panics
  <2>2. <<>> \in Seq(Nat)
    OBVIOUS
  <2> QED BY <2>1, <2>2 DEF CopyInv
<1>3. CASE CanCrc15
  BY <1>3 DEF CanCrc15, CopyInv
<1>4. CASE PushCrc
  <2>1. /\ pc = "crc" /\ pc' = "stuff" /\ k' = 1
        /\ unstuffed' = unstuffed \o CrcBits /\ taken' = taken /\ frame' = frame
        /\ crc' = crc /\ stuffed' = stuffed
    BY <1>1, <1>4 DEF PushCrc, Panics
  <2>2. /\ taken \in Seq(Nat) /\ taken = <<>> /\ stuffed = <<>>
        /\ unstuffed = Body(frame.id, frame.data)
    BY <2>1 DEF CopyInv, SendInv, StuffInv
  <2>3. CrcBits' = CrcBits
    BY <2>1 DEF CrcBits
  <2>4. \A i \in 1 .. Len(taken') : CopyOf(i)'
    <3>1. Len(taken') = 0
      BY <2>1, <2>2
    <3> QED BY <3>1
  <2>5. unstuffed' = Body(frame'.id, frame'.data) \o CrcBits'
    BY <2>1, <2>2, <2>3
  <2>6. Len(taken') = Len(stuffed') /\ taken' = <<>> /\ taken' \in Seq(Nat)
    BY <2>1, <2>2
  <2> QED BY <2>1, <2>4, <2>5, <2>6 DEF CopyInv
<1>5. CASE EmitBit \/ IdleBit \/ Pass \/ SwitchOn \/ UNCHANGED vars
  <2>1. /\ unstuffed' = unstuffed /\ taken' = taken /\ frame' = frame /\ crc' = crc
        /\ stuffed' = stuffed
        /\ (k' = k /\ pc' = pc) \/ (pc = "emit" /\ pc' = "emit") \/ pc' = "gap" \/ pc' = "pass"
    BY <1>5 DEF EmitBit, IdleBit, Pass, SwitchOn, vars, cpuVars
  <2>2. CrcBits' = CrcBits
    BY <2>1 DEF CrcBits
  <2>3. (\A i \in 1 .. Len(taken) : CopyOf(i)) => \A i \in 1 .. Len(taken') : CopyOf(i)'
    BY <2>1 DEF CopyOf, AfterFive
  <2>4. taken' \in Seq(Nat)
    BY <2>1 DEF CopyInv
  <2>5. CASE pc' \in {"gap", "pass"}
    BY <2>4, <2>5 DEF CopyInv
  <2>6. CASE pc' = pc /\ pc = "emit"
    BY <2>1, <2>2, <2>3, <2>4, <2>6 DEF CopyInv, AfterFive
  <2>7. CASE pc' = pc /\ k' = k /\ pc # "emit"
    BY <2>1, <2>2, <2>3, <2>4, <2>7 DEF CopyInv
  <2> QED BY <2>1, <2>5, <2>6, <2>7
<1> QED BY <1>2, <1>3, <1>4, <1>5

LEMMA CopyStep ==
    ASSUME SendInv, CopyInv, SendInv', [Next]_vars
    PROVE  CopyInv'
BY CopyStuff, CopyTrailer, CopySame DEF Next, Sender, Park

(***************************************************************************)
(* The receiver follows the wire: EarInv.                                  *)
(***************************************************************************)

LEMMA WireFacts ==
    ASSUME SendInv, CopyInv, pc = "emit"
    PROVE  /\ IsFrame(unstuffed)
           /\ Len(taken) \in Nat /\ Len(taken) >= 2 /\ taken[1] = 1
           /\ Len(stuffed) = Len(taken) + 10 /\ stuffed \in Seq(Bit)
           /\ NoSix(stuffed, Len(taken)) /\ stuffed[1] = 0
           /\ \A i \in Len(taken) + 1 .. Len(stuffed) : stuffed[i] = 1
<1>1. /\ taken \in Seq(Nat) /\ taken # <<>> /\ taken[Len(taken)] = Len(unstuffed)
      /\ Len(stuffed) = Len(taken) + 10
      /\ \A i \in 1 .. Len(taken) : CopyOf(i)
      /\ unstuffed = Body(frame.id, frame.data) \o CrcBits
      /\ \A i \in Len(taken) + 1 .. Len(stuffed) : stuffed[i] = 1
  BY DEF CopyInv
<1>2. /\ frame \in Frames /\ crc \in [0 .. 14 -> Bit] /\ stuffed \in Seq(Bit)
      /\ NoSix(stuffed, Len(stuffed) - 10)
  BY DEF SendInv, SenderType, StuffInv, StuffingHolds
<1>3. IsFrame(unstuffed)
  BY <1>1, <1>2, CrcBitsIsBits, WholeFrame, Zenon
<1>4. Len(taken) \in Nat /\ Len(taken) >= 1
  BY <1>1
<1>5. Len(stuffed) - 10 = Len(taken)
  BY <1>1, <1>4
<1>6. CopyOf(1)
  BY <1>1, <1>4
<1>7. taken[1] = 1 /\ stuffed[1] = unstuffed[1]
  <2>1. ~AfterFive(stuffed, 1)
    BY DEF AfterFive
  <2> QED BY <1>6, <2>1 DEF CopyOf
<1>8. Len(taken) # 1
  <2>1. Len(unstuffed) # 1
    BY <1>3 DEF IsFrame
  <2> QED BY <1>1, <1>7, <2>1
<1>9. unstuffed[1] = 0
  BY <1>3 DEF IsFrame
<1> QED BY <1>1, <1>2, <1>3, <1>4, <1>5, <1>7, <1>8, <1>9

\* The last bit of the input, once five alike cannot follow it, is the end.
LEMMA EndsOnlyThere ==
    ASSUME SendInv, CopyInv, pc = "emit", NEW j \in 1 .. Len(taken)
    PROVE  (taken[j] = Len(unstuffed) /\ ~AfterFive(stuffed, j + 1)) <=> j = Len(taken)
<1>1. Len(taken) \in Nat /\ Len(unstuffed) \in Nat
  <2>1. unstuffed \in Seq(Bit)
    BY DEF SendInv, SenderType
  <2> QED BY <2>1, WireFacts
<1>2. /\ taken[Len(taken)] = Len(unstuffed) /\ ~AfterFive(stuffed, Len(taken) + 1)
      /\ \A i \in 1 .. Len(taken) : CopyOf(i)
  BY DEF CopyInv
<1>3. ASSUME taken[j] = Len(unstuffed), ~AfterFive(stuffed, j + 1), j # Len(taken)
      PROVE  FALSE
  <2>1. PICK i : i = j + 1
    OBVIOUS
  <2>2. i \in 1 .. Len(taken) /\ i # 1 /\ i - 1 = j
    BY <1>1, <1>3, <2>1
  <2>3. CopyOf(i)
    BY <1>2, <2>2
  <2>4. ~AfterFive(stuffed, i)
    BY <1>3, <2>1, Zenon
  <2>5. taken[i] = taken[j] + 1 /\ taken[i] \in 1 .. Len(unstuffed)
    BY <2>2, <2>3, <2>4 DEF CopyOf
  <2> QED BY <1>1, <1>3, <2>5
<1> QED BY <1>2, <1>3

\* What ReadBit makes of the next bit on the wire.
LEMMA BitRead ==
    ASSUME SendInv, CopyInv, EarInv, pc = "emit", ear.state = "frame"
    PROVE  LET b     == stuffed[k]
               bits  == IF ear.run = 5 THEN ear.rx ELSE Append(ear.rx, b)
               alike == IF b = ear.last THEN ear.run + 1 ELSE 1
           IN  /\ k \in 2 .. Len(taken) /\ b \in Bit
               /\ ~(ear.run = 5 /\ b = ear.last)
               /\ alike \in 1 .. 5 /\ RunAt(stuffed, k, alike, b)
               /\ bits \in Seq(Bit) /\ Len(bits) = taken[k]
               /\ \A a \in 1 .. Len(bits) : bits[a] = unstuffed[a]
               /\ (AllRead(bits) /\ alike # 5) <=> k = Len(taken)
               /\ k = Len(taken) => bits = unstuffed
<1> DEFINE b     == stuffed[k]
           bits  == IF ear.run = 5 THEN ear.rx ELSE Append(ear.rx, b)
           alike == IF b = ear.last THEN ear.run + 1 ELSE 1
<1>1. /\ IsFrame(unstuffed) /\ Len(taken) \in Nat /\ stuffed \in Seq(Bit)
      /\ Len(stuffed) = Len(taken) + 10 /\ NoSix(stuffed, Len(taken))
  BY WireFacts
<1>2. /\ k - 1 \in 1 .. Len(taken) - 1 /\ ear.run >= 1
      /\ RunAt(stuffed, k - 1, ear.run, ear.last)
      /\ Len(ear.rx) = taken[k - 1]
      /\ \A a \in 1 .. Len(ear.rx) : ear.rx[a] = unstuffed[a]
  BY DEF EarInv, ReadInv
<1>3. k \in Nat \ {0}
  BY DEF SendInv, SenderType
<1>4. /\ ear.run \in 0 .. 5 /\ ear.rx \in Seq(Bit) /\ ear.last \in Bit
  BY DEF EarInv, Ear
<1>5. PICK j : j = k - 1
  OBVIOUS
<1>6. j \in Nat /\ j \in 1 .. Len(taken) /\ j + 1 = k /\ j + 1 <= Len(taken) /\ k # 1
  BY <1>1, <1>2, <1>3, <1>5
<1>7. k \in 2 .. Len(taken) /\ k \in 1 .. Len(taken) /\ k \in 1 .. Len(stuffed)
  BY <1>1, <1>2, <1>3
<1>8. b \in Bit
  BY <1>1, <1>7
<1>9. ear.run \in 1 .. 5 /\ RunAt(stuffed, j, ear.run, ear.last)
  BY <1>2, <1>4, <1>5
<1>10. ear.run = 5 <=> AfterFive(stuffed, k)
  BY <1>6, <1>9, RunFive
<1>11. ear.run = 5 => b # ear.last
  BY <1>1, <1>6, <1>9, NextDiffers
<1> HIDE DEF b
<1>12. RunAt(stuffed, k, alike, b)
  BY <1>6, <1>9, RunNext DEF b
<1>13. alike \in 1 .. 5
  BY <1>9, <1>11
<1> HIDE DEF alike
<1>14. alike = 5 <=> AfterFive(stuffed, k + 1)
  BY <1>3, <1>12, <1>13, RunFive
<1>15. CopyOf(k) /\ taken \in Seq(Nat)
  BY <1>7 DEF CopyInv
<1>16. taken[k] \in 1 .. Len(unstuffed) /\ Len(unstuffed) \in Nat /\ Len(ear.rx) \in Nat
  BY <1>1, <1>4, <1>15 DEF CopyOf, IsFrame
<1>17. /\ bits \in Seq(Bit) /\ Len(bits) = taken[k]
       /\ \A a \in 1 .. Len(bits) : bits[a] = unstuffed[a]
  <2>1. CASE ear.run = 5
    <3>1. taken[k] = taken[k - 1]
      BY <1>6, <1>10, <1>15, <2>1 DEF CopyOf
    <3>2. bits = ear.rx
      BY <2>1
    <3> QED BY <1>2, <1>4, <3>1, <3>2, Zenon
  <2>2. CASE ear.run # 5
    <3>1. taken[k] = taken[k - 1] + 1 /\ b = unstuffed[taken[k]]
      BY <1>6, <1>10, <1>15, <2>2 DEF CopyOf, b
    <3>2. bits = Append(ear.rx, b)
      BY <2>2
    <3> HIDE DEF bits
    <3>3. /\ bits \in Seq(Bit) /\ Len(bits) = Len(ear.rx) + 1
          /\ \A a \in 1 .. Len(ear.rx) : bits[a] = ear.rx[a]
          /\ bits[Len(ear.rx) + 1] = b
      BY <1>4, <1>8, <3>2
    <3>4. Len(bits) = taken[k]
      BY <1>2, <3>1, <3>3
    <3>5. ASSUME NEW a \in 1 .. Len(bits) PROVE bits[a] = unstuffed[a]
      <4>1. CASE a = Len(ear.rx) + 1
        BY <1>2, <3>1, <3>3, <4>1
      <4>2. CASE a # Len(ear.rx) + 1
        <5>1. a \in 1 .. Len(ear.rx)
          BY <1>16, <3>3, <4>2
        <5> QED BY <1>2, <3>3, <5>1
      <4> QED BY <4>1, <4>2
    <3> QED BY <3>3, <3>4, <3>5
  <2> QED BY <2>1, <2>2
<1> HIDE DEF bits
<1>18. AllRead(bits) <=> taken[k] = Len(unstuffed)
  <2>1. Len(bits) <= Len(unstuffed)
    BY <1>16, <1>17
  <2> QED BY <1>1, <1>17, <2>1, PrefixRead
<1>19. (taken[k] = Len(unstuffed) /\ ~AfterFive(stuffed, k + 1)) <=> k = Len(taken)
  BY <1>7, EndsOnlyThere
<1>20. (AllRead(bits) /\ alike # 5) <=> k = Len(taken)
  BY <1>14, <1>18, <1>19, Zenon
<1>21. ASSUME k = Len(taken) PROVE bits = unstuffed
  <2>1. Len(bits) = Len(unstuffed)
    BY <1>17, <1>19, <1>21
  <2>2. unstuffed \in Seq(Bit)
    BY <1>1 DEF IsFrame
  <2> QED BY <1>17, <2>1, <2>2
<1> QED BY <1>7, <1>8, <1>11, <1>12, <1>13, <1>17, <1>20, <1>21, Zenon DEF b, bits, alike

LEMMA EarType ==
    ASSUME ear \in Ear
    PROVE  /\ ear.state \in {"off", "sync", "idle", "frame", "tail", "error"}
           /\ ear.quiet \in 0 .. 11 /\ ear.rx \in Seq(Bit) /\ ear.last \in Bit
           /\ ear.run \in 0 .. 5
           /\ ear.heard \in 0 .. Iterations /\ ear.missed \in 0 .. Iterations + 1
BY DEF Ear

\* The control of emit_frame().
LEMMA EmitControl ==
    ASSUME SendInv, CopyInv, EmitBit
    PROVE  /\ pc = "emit" /\ k \in 1 .. Len(stuffed) /\ stuffed[k] \in Bit
           /\ sent \in Nat /\ sent + 1 <= Iterations
           /\ unstuffed' = unstuffed /\ stuffed' = stuffed /\ taken' = taken
           /\ ear' = Hears(ear, stuffed[k])
           /\ \/ k < Len(stuffed) /\ k' = k + 1 /\ pc' = "emit" /\ sent' = sent
              \/ k = Len(stuffed) /\ k' = 1 /\ pc' = "gap" /\ sent' = sent + 1
<1>1. /\ pc = "emit" /\ unstuffed' = unstuffed /\ stuffed' = stuffed /\ taken' = taken
      /\ ear' = Hears(ear, stuffed[k])
      /\ IF k < Len(stuffed) THEN k' = k + 1 /\ UNCHANGED <<pc, sent>>
         ELSE k' = 1 /\ pc' = "gap" /\ sent' = sent + 1
  BY DEF EmitBit
<1>2. /\ k \in Nat \ {0} /\ k <= Len(stuffed) /\ stuffed \in Seq(Bit)
      /\ sent \in 0 .. Iterations /\ sent < Iterations
  BY <1>1 DEF SendInv, SenderType, StuffInv
<1>3. Len(stuffed) \in Nat /\ k \in 1 .. Len(stuffed)
  BY <1>2
<1>4. stuffed[k] \in Bit
  BY <1>2, <1>3
<1>5. sent \in Nat /\ sent + 1 <= Iterations
  BY <1>2, Bounds
<1>6. k < Len(stuffed) \/ k = Len(stuffed)
  BY <1>3
<1> QED BY <1>1, <1>3, <1>4, <1>5, <1>6

LEMMA EmitToOff ==
    ASSUME SendInv, CopyInv, EarInv, EmitBit, ear.state \in {"off", "error"}
    PROVE  EarInv'
<1>1. ear.state = "off" /\ ear.heard = 0 /\ ear.quiet = 0 /\ ear \in Ear
  BY DEF EarInv
<1>2. ear' = ear
  BY <1>1, EmitControl DEF Hears
<1>3. sent' \in Nat
  BY EmitControl
<1> QED BY <1>1, <1>2, <1>3 DEF EarInv, SyncInv, ReadInv

LEMMA EmitToSync ==
    ASSUME SendInv, CopyInv, EarInv, EmitBit, ear.state = "sync"
    PROVE  EarInv'
<1> DEFINE b == stuffed[k]
<1>1. /\ ear \in Ear /\ ear.quiet <= 10 /\ ear.heard = 0 /\ ear.missed > sent
      /\ \A a \in 1 .. k - 1 : a > k - 1 - ear.quiet => stuffed[a] = 1
  BY EmitControl DEF EarInv, SyncInv
<1>2. /\ pc = "emit" /\ k \in 1 .. Len(stuffed) /\ b \in Bit
      /\ sent \in Nat /\ sent + 1 <= Iterations
      /\ stuffed' = stuffed /\ taken' = taken /\ ear' = Hears(ear, b)
      /\ \/ k < Len(stuffed) /\ k' = k + 1 /\ pc' = "emit" /\ sent' = sent
         \/ k = Len(stuffed) /\ k' = 1 /\ pc' = "gap" /\ sent' = sent + 1
  BY EmitControl
<1>3. /\ Len(taken) \in Nat /\ Len(stuffed) = Len(taken) + 10
      /\ NoSix(stuffed, Len(taken)) /\ stuffed[1] = 0
      /\ \A i \in Len(taken) + 1 .. Len(stuffed) : stuffed[i] = 1
  BY <1>2, WireFacts
<1>4. ear.quiet \in 0 .. 11 /\ ear.missed \in 0 .. Iterations + 1
  BY <1>1, EarType
<1>5. k \in Nat /\ k >= 1
  BY <1>2
<1> HIDE DEF b
<1>6. ear.missed >= sent' /\ 0 >= sent' - ear.missed /\ 0 <= sent'
      /\ (pc' = "emit" => ear.missed > sent')
  BY <1>1, <1>2, <1>4, Bounds
<1>7. CASE b = 0
  <2>1. ear' = [ear EXCEPT !.quiet = 0]
    BY <1>2, <1>7 DEF Hears
  <2>2. ear' \in Ear
    BY <1>1, <2>1 DEF Ear
  <2>3. /\ ear'.state = "sync" /\ ear'.quiet = 0 /\ ear'.heard = 0
        /\ ear'.missed = ear.missed
    BY <1>1, <2>1 DEF Ear
  <2>4. pc' = "emit"
    BY <1>2, <1>3, <1>7 DEF b
  <2>5. \A a \in 1 .. k' - 1 : a > k' - 1 - ear'.quiet => stuffed'[a] = 1
    BY <1>2, <1>5, <2>3, <2>4
  <2>6. SyncInv'
    BY <1>6, <2>3, <2>4, <2>5 DEF SyncInv
  <2> QED BY <1>6, <2>2, <2>3, <2>6 DEF EarInv, ReadInv
<1>8. CASE b = 1 /\ ear.quiet # 10
  <2>1. ear' = [ear EXCEPT !.quiet = ear.quiet + 1, !.state = "sync"]
    BY <1>2, <1>8 DEF Hears
  <2>2. ear.quiet + 1 \in 0 .. 10 /\ ear.quiet + 1 \in 0 .. 11
    BY <1>1, <1>4, <1>8
  <2>3. ear' \in Ear
    BY <1>1, <2>1, <2>2 DEF Ear
  <2>4. /\ ear'.state = "sync" /\ ear'.quiet = ear.quiet + 1 /\ ear'.heard = 0
        /\ ear'.missed = ear.missed
    BY <1>1, <2>1 DEF Ear
  <2>5. pc' = "emit" => \A a \in 1 .. k' - 1 : a > k' - 1 - ear'.quiet => stuffed'[a] = 1
    <3> SUFFICES ASSUME pc' = "emit", NEW a \in 1 .. k' - 1, a > k' - 1 - ear'.quiet
                 PROVE  stuffed'[a] = 1
      OBVIOUS
    <3>1. k' - 1 = k /\ a \in 1 .. k /\ a > k - (ear.quiet + 1)
      BY <1>2, <1>5, <2>4
    <3>2. CASE a = k
      BY <1>2, <1>8, <3>2 DEF b
    <3>3. CASE a # k
      <4>1. a \in 1 .. k - 1 /\ a > k - 1 - ear.quiet
        BY <1>4, <1>5, <3>1, <3>3
      <4> QED BY <1>1, <1>2, <4>1
    <3> QED BY <3>2, <3>3
  <2>6. pc' = "gap" => ear'.quiet >= k' - 1
    BY <1>2, <2>2, <2>4
  <2>7. ear'.quiet <= 10
    BY <2>2, <2>4
  <2>8. SyncInv'
    BY <1>6, <1>2, <2>4, <2>5, <2>6, <2>7 DEF SyncInv
  <2> QED BY <1>6, <2>3, <2>4, <2>8 DEF EarInv, ReadInv
<1>9. CASE b = 1 /\ ear.quiet = 10
  <2>1. ear' = [ear EXCEPT !.quiet = ear.quiet + 1, !.state = "idle"]
    BY <1>2, <1>9 DEF Hears
  <2>2. ear.quiet + 1 \in 0 .. 11
    BY <1>9
  <2>3. ear' \in Ear
    BY <1>1, <2>1, <2>2 DEF Ear
  <2>4. ear'.state = "idle" /\ ear'.heard = 0 /\ ear'.missed = ear.missed
    BY <1>1, <2>1 DEF Ear
  <2>5. k >= Len(taken)
    <3> SUFFICES ASSUME k < Len(taken) PROVE FALSE
      BY <1>3, <1>5
    <3>1. \A a \in 1 .. k : a >= k - 10 => stuffed[a] = 1
      BY <1>1, <1>5, <1>9 DEF b
    <3>2. k > 11
      <4> SUFFICES ASSUME k <= 11 PROVE FALSE
        BY <1>5
      <4>1. stuffed[1] = 1
        BY <1>5, <3>1
      <4> QED BY <1>3, <4>1
    <3>3. k - 5 \in 1 .. Len(taken) - 5
      BY <1>3, <1>5, <3>2
    <3>4. PICK c \in k - 5 .. k - 5 + 4 : stuffed[c] # stuffed[c + 1]
      BY <1>3, <3>3 DEF NoSix
    <3>5. stuffed[c] = 1 /\ stuffed[c + 1] = 1
      BY <1>5, <3>1, <3>2
    <3> QED BY <3>4, <3>5
  <2>6. pc' = "emit" => k' > Len(taken') /\ ear'.missed > sent'
    BY <1>2, <1>3, <1>5, <1>6, <2>4, <2>5
  <2> QED BY <1>6, <2>3, <2>4, <2>6 DEF EarInv, SyncInv, ReadInv
<1> QED BY <1>2, <1>7, <1>8, <1>9 DEF Bit

LEMMA EmitToIdle ==
    ASSUME SendInv, CopyInv, EarInv, EmitBit, ear.state = "idle"
    PROVE  EarInv'
<1> DEFINE b == stuffed[k]
<1>1. /\ ear \in Ear /\ ear.heard <= sent /\ ear.heard >= sent - ear.missed
      /\ k > 1 => k > Len(taken) /\ ear.missed > sent
  BY EmitControl DEF EarInv, ReadInv
<1>2. /\ pc = "emit" /\ k \in 1 .. Len(stuffed) /\ b \in Bit
      /\ sent \in Nat /\ sent + 1 <= Iterations
      /\ unstuffed' = unstuffed /\ stuffed' = stuffed /\ taken' = taken
      /\ ear' = Hears(ear, b)
      /\ \/ k < Len(stuffed) /\ k' = k + 1 /\ pc' = "emit" /\ sent' = sent
         \/ k = Len(stuffed) /\ k' = 1 /\ pc' = "gap" /\ sent' = sent + 1
  BY EmitControl
<1>3. /\ Len(taken) \in Nat /\ Len(taken) >= 2 /\ taken[1] = 1
      /\ Len(stuffed) = Len(taken) + 10 /\ stuffed[1] = 0
      /\ \A i \in Len(taken) + 1 .. Len(stuffed) : stuffed[i] = 1
      /\ IsFrame(unstuffed)
  BY <1>2, WireFacts
<1>4. ear.heard \in 0 .. Iterations /\ ear.missed \in 0 .. Iterations + 1
  BY <1>1, EarType
<1>5. k \in Nat /\ k >= 1
  BY <1>2
<1> HIDE DEF b
<1>6. CASE k = 1
  <2>1. b = 0
    BY <1>3, <1>6 DEF b
  <2>2. ear' = [ear EXCEPT !.state = "frame", !.rx = <<0>>, !.last = 0, !.run = 1]
    BY <1>2, <2>1 DEF Hears
  <2>3. <<0>> \in Seq(Bit) /\ 0 \in Bit /\ 1 \in 0 .. 5
    BY DEF Bit
  <2>4. ear' \in Ear
    BY <1>1, <2>2, <2>3 DEF Ear
  <2>5. /\ ear'.state = "frame" /\ ear'.rx = <<0>> /\ ear'.last = 0 /\ ear'.run = 1
        /\ ear'.heard = ear.heard /\ ear'.missed = ear.missed
    BY <1>1, <2>2 DEF Ear
  <2>6. pc' = "emit" /\ k' - 1 = 1 /\ sent' = sent /\ 1 \in 1 .. Len(taken') - 1
    BY <1>2, <1>3, <1>6
  <2>7. RunAt(stuffed', 1, 1, 0)
    BY <1>2, <1>3 DEF RunAt
  <2>8. Len(<<0>>) = 1 /\ \A a \in 1 .. 1 : <<0>>[a] = unstuffed'[a]
    BY <1>2, <1>3 DEF IsFrame
  <2>9. ReadInv'
    BY <1>2, <1>3, <2>5, <2>6, <2>7, <2>8 DEF ReadInv
  <2> QED BY <1>1, <2>4, <2>5, <2>6, <2>9 DEF EarInv, SyncInv
<1>7. CASE k > 1
  <2>1. b = 1
    BY <1>1, <1>2, <1>3, <1>7 DEF b
  <2>2. ear' = ear
    BY <1>2, <2>1 DEF Hears
  <2>3. ear.heard <= sent' /\ ear.heard >= sent' - ear.missed
    BY <1>1, <1>2, <1>4, <1>7
  <2>4. pc' = "emit" => k' > Len(taken') /\ ear.missed > sent'
    BY <1>1, <1>2, <1>3, <1>5, <1>7
  <2> QED BY <1>1, <2>2, <2>3, <2>4 DEF EarInv, SyncInv, ReadInv
<1> QED BY <1>5, <1>6, <1>7

LEMMA EmitToFrame ==
    ASSUME SendInv, CopyInv, EarInv, EmitBit, ear.state = "frame"
    PROVE  EarInv'
<1> DEFINE b     == stuffed[k]
           bits  == IF ear.run = 5 THEN ear.rx ELSE Append(ear.rx, b)
           alike == IF b = ear.last THEN ear.run + 1 ELSE 1
           over  == AllRead(bits) /\ alike # 5
<1>1. ear \in Ear /\ ear.heard <= sent /\ ear.heard >= sent - ear.missed
  BY DEF EarInv
<1>2. /\ pc = "emit" /\ unstuffed' = unstuffed /\ stuffed' = stuffed /\ taken' = taken
      /\ ear' = Hears(ear, b)
      /\ \/ k < Len(stuffed) /\ k' = k + 1 /\ pc' = "emit" /\ sent' = sent
         \/ k = Len(stuffed) /\ k' = 1 /\ pc' = "gap" /\ sent' = sent + 1
  BY EmitControl
<1>3. /\ k \in 2 .. Len(taken) /\ b \in Bit
      /\ ~(ear.run = 5 /\ b = ear.last)
      /\ alike \in 1 .. 5 /\ RunAt(stuffed, k, alike, b)
      /\ bits \in Seq(Bit) /\ Len(bits) = taken[k]
      /\ \A a \in 1 .. Len(bits) : bits[a] = unstuffed[a]
      /\ over <=> k = Len(taken)
      /\ k = Len(taken) => bits = unstuffed
  BY <1>2, BitRead, Zenon
<1>4. ear' = ReadBit(ear, b)
  BY <1>2 DEF Hears
<1>5. ear' = [ear EXCEPT !.rx = bits, !.last = b, !.run = alike, !.quiet = 0,
                         !.state = IF over THEN "tail" ELSE "frame"]
  BY <1>3, <1>4, Zenon DEF ReadBit
<1> HIDE DEF b, bits, alike, over
<1>6. PICK x : x = IF over THEN "tail" ELSE "frame"
  OBVIOUS
<1>7. ear' = [ear EXCEPT !.rx = bits, !.last = b, !.run = alike, !.quiet = 0, !.state = x]
  BY <1>5, <1>6, Zenon
<1>8. x = "tail" \/ x = "frame"
  BY <1>6
<1>9. alike \in 0 .. 5 /\ 0 \in 0 .. 11 /\ b \in Bit /\ bits \in Seq(Bit)
  BY <1>3
<1>10. ear' \in Ear
  <2>1. x \in {"off", "sync", "idle", "frame", "tail", "error"}
    BY <1>8
  <2> QED BY <1>1, <1>7, <1>9, <2>1 DEF Ear
<1>11. /\ ear'.state = x /\ ear'.rx = bits /\ ear'.last = b /\ ear'.run = alike
       /\ ear'.quiet = 0 /\ ear'.heard = ear.heard /\ ear'.missed = ear.missed
  BY <1>1, <1>7 DEF Ear
<1>12. Len(taken) \in Nat /\ Len(stuffed) = Len(taken) + 10
  BY <1>2, WireFacts
<1>13. pc' = "emit" /\ k' - 1 = k /\ sent' = sent
  BY <1>2, <1>3, <1>12
<1>14. CASE k = Len(taken)
  <2>1. x = "tail" /\ bits = unstuffed
    BY <1>3, <1>6, <1>14, Zenon
  <2>2. k' - 1 = Len(taken') + ear'.quiet
    BY <1>2, <1>11, <1>12, <1>13, <1>14
  <2>3. ReadInv'
    BY <1>2, <1>11, <1>13, <2>1, <2>2 DEF ReadInv
  <2> QED BY <1>1, <1>10, <1>11, <1>13, <2>1, <2>3 DEF EarInv, SyncInv
<1>15. CASE k # Len(taken)
  <2>1. x = "frame"
    BY <1>3, <1>6, <1>15, Zenon
  <2>2. k' - 1 \in 1 .. Len(taken') - 1
    BY <1>2, <1>3, <1>12, <1>13, <1>15
  <2>3. /\ ear'.run >= 1 /\ RunAt(stuffed', k' - 1, ear'.run, ear'.last)
        /\ Len(ear'.rx) = taken'[k' - 1]
        /\ \A a \in 1 .. Len(ear'.rx) : ear'.rx[a] = unstuffed'[a]
    BY <1>2, <1>3, <1>11, <1>13
  <2>4. ReadInv'
    BY <1>11, <1>13, <2>1, <2>2, <2>3 DEF ReadInv, RunAt
  <2> QED BY <1>1, <1>10, <1>11, <1>13, <2>1, <2>4 DEF EarInv, SyncInv
<1> QED BY <1>14, <1>15

LEMMA EmitToTail ==
    ASSUME SendInv, CopyInv, EarInv, EmitBit, ear.state = "tail"
    PROVE  EarInv'
<1>1. /\ ear \in Ear /\ ear.heard <= sent /\ ear.heard >= sent - ear.missed
      /\ ear.quiet <= 9 /\ k - 1 = Len(taken) + ear.quiet /\ ear.rx = unstuffed
  BY EmitControl DEF EarInv, ReadInv
<1>2. /\ pc = "emit" /\ k \in 1 .. Len(stuffed)
      /\ sent \in Nat /\ sent + 1 <= Iterations
      /\ unstuffed' = unstuffed /\ stuffed' = stuffed /\ taken' = taken
      /\ ear' = Hears(ear, stuffed[k])
      /\ \/ k < Len(stuffed) /\ k' = k + 1 /\ pc' = "emit" /\ sent' = sent
         \/ k = Len(stuffed) /\ k' = 1 /\ pc' = "gap" /\ sent' = sent + 1
  BY EmitControl
<1>3. /\ Len(taken) \in Nat /\ Len(stuffed) = Len(taken) + 10
      /\ \A i \in Len(taken) + 1 .. Len(stuffed) : stuffed[i] = 1
  BY <1>2, WireFacts
<1>4. /\ ear.quiet \in 0 .. 11 /\ ear.heard \in 0 .. Iterations
      /\ ear.missed \in 0 .. Iterations + 1
  BY <1>1, EarType
<1>5. /\ k = Len(taken) + ear.quiet + 1 /\ k \in Len(taken) + 1 .. Len(stuffed)
      /\ k \in Nat /\ Len(stuffed) \in Nat
  <2>1. PICK n, q : n = Len(taken) /\ q = ear.quiet
    OBVIOUS
  <2>2. n \in Nat /\ q \in Nat /\ q <= 9 /\ k - 1 = n + q /\ Len(stuffed) = n + 10
    BY <1>1, <1>3, <1>4, <2>1
  <2>3. k \in Nat
    BY <1>2
  <2>4. k = n + q + 1 /\ k \in n + 1 .. Len(stuffed) /\ Len(stuffed) \in Nat
    BY <2>2, <2>3
  <2> QED BY <2>1, <2>3, <2>4, Zenon
<1>6. stuffed[k] = 1
  BY <1>3, <1>5
<1>7. CASE ear.quiet < 9
  <2>1. ear' = [ear EXCEPT !.quiet = ear.quiet + 1]
    BY <1>2, <1>6, <1>7 DEF Hears
  <2>2. ear.quiet + 1 \in 0 .. 11 /\ ear.quiet + 1 <= 9
    BY <1>4, <1>7
  <2>3. ear' \in Ear
    BY <1>1, <2>1, <2>2 DEF Ear
  <2>4. /\ ear'.state = "tail" /\ ear'.quiet = ear.quiet + 1 /\ ear'.rx = ear.rx
        /\ ear'.heard = ear.heard /\ ear'.missed = ear.missed
    BY <1>1, <2>1 DEF Ear
  <2>5. pc' = "emit" /\ sent' = sent /\ k' - 1 = k
    <3>1. k < Len(stuffed)
      BY <1>3, <1>4, <1>5, <1>7
    <3>2. k' = k + 1 /\ pc' = "emit" /\ sent' = sent
      BY <1>2, <1>5, <3>1
    <3> QED BY <1>5, <3>2
  <2>6. k' - 1 = Len(taken') + ear'.quiet
    <3>1. k = Len(taken) + (ear.quiet + 1)
      BY <1>3, <1>4, <1>5
    <3> QED BY <1>2, <2>4, <2>5, <3>1
  <2> QED BY <1>1, <1>2, <2>2, <2>3, <2>4, <2>5, <2>6 DEF EarInv, SyncInv, ReadInv
<1>8. CASE ear.quiet = 9
  <2>1. ear' = [ear EXCEPT !.state = "idle", !.quiet = 0, !.heard = ear.heard + 1]
    BY <1>2, <1>6, <1>8 DEF Hears
  <2>2. pc' = "gap" /\ sent' = sent + 1
    BY <1>2, <1>3, <1>5, <1>8
  <2>3. ear.heard + 1 \in 0 .. Iterations /\ 0 \in 0 .. 11
    BY <1>1, <1>2, <1>4, Bounds
  <2>4. ear' \in Ear
    BY <1>1, <2>1, <2>3 DEF Ear
  <2>5. /\ ear'.state = "idle" /\ ear'.heard = ear.heard + 1 /\ ear'.missed = ear.missed
    BY <1>1, <2>1 DEF Ear
  <2>6. ear'.heard <= sent' /\ ear'.heard >= sent' - ear'.missed
    BY <1>1, <1>2, <1>4, <2>2, <2>5
  <2> QED BY <2>2, <2>4, <2>5, <2>6 DEF EarInv, SyncInv, ReadInv
<1> QED BY <1>1, <1>4, <1>7, <1>8

\* delay_ms(): recessive bits.
LEMMA EarIdle ==
    ASSUME SendInv, EarInv, IdleBit
    PROVE  EarInv'
<1>1. /\ pc = "gap" /\ pc' = "gap" /\ k' = k + 1 /\ sent' = sent /\ ear' = Hears(ear, 1)
      /\ k <= GapBits
  BY DEF IdleBit
<1>2. k \in Nat \ {0} /\ sent \in 0 .. Iterations
  BY DEF SendInv, SenderType
<1>3. /\ ear \in Ear /\ ear.state # "error" /\ ear.heard <= sent
      /\ ear.state = "off" => ear.heard = 0 /\ ear.quiet = 0
      /\ ear.state # "off" => ear.heard >= sent - ear.missed
      /\ ear.state # "frame" /\ ear.state # "tail"
  BY <1>1 DEF EarInv, ReadInv
<1>4. ear.quiet \in 0 .. 11 /\ ear.missed \in 0 .. Iterations + 1
  BY <1>3, EarType
<1>5. CASE ear.state # "sync"
  <2>1. ear' = ear
    BY <1>1, <1>3, <1>5 DEF Hears
  <2> QED BY <1>1, <1>3, <1>5, <2>1 DEF EarInv, SyncInv, ReadInv
<1>6. CASE ear.state = "sync"
  <2>1. /\ ear.quiet <= 10 /\ ear.heard = 0 /\ ear.missed >= sent
        /\ ear.missed = sent => ear.quiet >= k - 1
    BY <1>1, <1>6 DEF EarInv, SyncInv
  <2>2. PICK x : x = IF ear.quiet = 10 THEN "idle" ELSE "sync"
    OBVIOUS
  <2>3. ear' = [ear EXCEPT !.quiet = ear.quiet + 1, !.state = x]
    BY <1>1, <1>6, <2>2 DEF Hears
  <2>4. ear.quiet + 1 \in 0 .. 11
    BY <1>4, <2>1
  <2>5. x \in {"off", "sync", "idle", "frame", "tail", "error"}
    BY <2>2
  <2>6. ear' \in Ear
    BY <1>3, <2>3, <2>4, <2>5 DEF Ear
  <2>7. /\ ear'.state = x /\ ear'.quiet = ear.quiet + 1 /\ ear'.heard = 0
        /\ ear'.missed = ear.missed
    BY <1>3, <2>1, <2>3 DEF Ear
  <2>8. ear'.heard <= sent' /\ ear'.heard >= sent' - ear'.missed /\ ear'.missed >= sent'
    BY <1>1, <1>2, <1>3, <1>4, <1>6, <2>1, <2>7
  <2>9. ear'.missed = sent' => ear'.quiet >= k' - 1
    BY <1>1, <1>2, <1>4, <2>1, <2>7
  <2>10. x = "sync" => ear'.quiet <= 10
    BY <1>4, <2>1, <2>2, <2>7
  <2>11. x = "sync" \/ x = "idle"
    BY <2>2
  <2> QED BY <1>1, <2>6, <2>7, <2>8, <2>9, <2>10, <2>11 DEF EarInv, SyncInv, ReadInv
<1> QED BY <1>5, <1>6

\* A receiver that was waiting when delay_ms() began has heard eleven recessive bits
\* before the frame, because the gap is as long.
LEMMA EarBuild ==
    ASSUME SendInv, EarInv, BuildUnstuffed, SendInv'
    PROVE  EarInv'
<1>1. /\ pc = "gap" /\ k = GapBits + 1 /\ sent' = sent /\ ear' = ear /\ pc' = "crc" /\ k' = 1
  BY DEF BuildUnstuffed, Panics, SendInv, StuffInv, StuffingHolds
<1>2. sent \in Nat /\ GapBits \in Nat /\ GapBits >= 11
  BY CanAssumption DEF SendInv, SenderType
<1>3. ear \in Ear
  BY DEF EarInv
<1>4. ear.quiet \in 0 .. 11 /\ ear.missed \in 0 .. Iterations + 1
  BY <1>3, EarType
<1>5. ear.state = "sync" => ear.missed > sent
  BY <1>1, <1>2, <1>4 DEF EarInv, SyncInv
<1> QED BY <1>1, <1>5 DEF EarInv, SyncInv, ReadInv

LEMMA EarSwitchOn ==
    ASSUME SendInv, EarInv, SwitchOn
    PROVE  EarInv'
<1>1. PICK m : m = IF pc = "gap" /\ k = 1 THEN sent ELSE sent + 1
  OBVIOUS
<1>2. /\ ear.state = "off" /\ ear' = [ear EXCEPT !.state = "sync", !.missed = m]
      /\ pc' = pc /\ k' = k /\ stuffed' = stuffed /\ sent' = sent
  BY <1>1 DEF SwitchOn, cpuVars
<1>3. /\ ear \in Ear /\ ear.heard = 0 /\ ear.quiet = 0
  BY <1>2 DEF EarInv
<1>4. sent \in 0 .. Iterations /\ k \in Nat \ {0} /\ Iterations \in Nat
  BY Bounds DEF SendInv, SenderType
<1>5. /\ m \in 0 .. Iterations + 1 /\ m >= sent /\ (m = sent => k = 1)
      /\ pc # "gap" => m > sent
  BY <1>1, <1>4
<1>6. ear' \in Ear
  BY <1>2, <1>3, <1>5 DEF Ear
<1>7. ear'.state = "sync" /\ ear'.quiet = 0 /\ ear'.heard = 0 /\ ear'.missed = m
  BY <1>2, <1>3 DEF Ear
<1>8. 0 <= sent' /\ 0 >= sent' - m
  BY <1>2, <1>4, <1>5
<1>9. pc' = "emit" => \A a \in 1 .. k' - 1 : a > k' - 1 - 0 => stuffed'[a] = 1
  BY <1>2, <1>4
<1>10. SyncInv'
  BY <1>2, <1>4, <1>5, <1>7, <1>9 DEF SyncInv
<1> QED BY <1>6, <1>7, <1>8, <1>10 DEF EarInv, ReadInv

\* The steps that put nothing on the wire.
LEMMA EarSame ==
    ASSUME SendInv, EarInv, SendInv',
           CanCrc15 \/ PushCrc \/ Stuff \/ PushTrailer \/ Pass \/ UNCHANGED vars
    PROVE  EarInv'
<1>1. CASE UNCHANGED vars
  BY <1>1 DEF vars, cpuVars, EarInv, SyncInv, ReadInv, RunAt
<1>2. CASE CanCrc15 \/ PushCrc \/ Stuff \/ PushTrailer
  <2>1. pc' # "panic"
    BY DEF SendInv, StuffInv, StuffingHolds
  <2>2. /\ pc \in {"crc", "stuff"} /\ sent' = sent /\ ear' = ear
        /\ pc' \in {"crc", "stuff"} \/ (pc' = "emit" /\ k' = 1)
    BY <1>2, <2>1 DEF CanCrc15, PushCrc, Stuff, Stuffing, Push, PushTrailer, Panics
  <2>3. k' = 1 => \A a \in 1 .. k' - 1 : a > k' - 1 - ear'.quiet => stuffed'[a] = 1
    OBVIOUS
  <2> QED BY <2>2, <2>3 DEF EarInv, SyncInv, ReadInv
<1>3. CASE Pass
  BY <1>3 DEF Pass, EarInv, SyncInv, ReadInv
<1> QED BY <1>1, <1>2, <1>3

LEMMA EarStep ==
    ASSUME SendInv, CopyInv, EarInv, SendInv', [Next]_vars
    PROVE  EarInv'
<1>1. ear.state \in {"off", "sync", "idle", "frame", "tail", "error"}
  BY EarType DEF EarInv
<1>2. EmitBit => EarInv'
  BY <1>1, EmitToOff, EmitToSync, EmitToIdle, EmitToFrame, EmitToTail
<1> QED BY <1>2, EarIdle, EarBuild, EarSwitchOn, EarSame DEF Next, Sender, Park

(***************************************************************************)
(* The theorems.                                                           *)
(***************************************************************************)

LEMMA InitInv == Init => IInv
<1> SUFFICES ASSUME Init PROVE IInv
  OBVIOUS
<1>1. <<>> \in Seq(Bit) /\ <<>> \in Seq(Nat) /\ ZeroCrc \in [0 .. 14 -> Bit]
  BY DEF ZeroCrc, Bit
<1>2. SendInv
  BY <1>1, Bounds DEF Init, SendInv, SenderType, StuffInv, StuffingHolds, Bit
<1>3. CopyInv
  BY <1>1 DEF Init, CopyInv
<1>4. EarInv
  <2>1. /\ ear = [state |-> "off", quiet |-> 0, rx |-> <<>>, last |-> 0, run |-> 0,
                  heard |-> 0, missed |-> 0]
        /\ sent = 0
    BY DEF Init
  <2>2. 0 \in 0 .. 11 /\ 0 \in 0 .. 5 /\ 0 \in 0 .. Iterations /\ 0 \in 0 .. Iterations + 1 /\ 0 \in Bit
    BY Bounds DEF Bit
  <2>3. ear \in Ear
    BY <1>1, <2>1, <2>2 DEF Ear
  <2>4. ear.state = "off" /\ ear.heard = 0 /\ ear.quiet = 0
    BY <2>1
  <2> QED BY <2>1, <2>3, <2>4 DEF EarInv, SyncInv, ReadInv
<1>5. CrcInv
  BY DEF Init, CrcInv
<1> QED BY <1>2, <1>3, <1>4, <1>5 DEF IInv

LEMMA SendStep ==
    ASSUME SendInv, [Next]_vars
    PROVE  SendInv'
BY BuildStep, CrcLoopStep, PushCrcStep, StuffStep, TrailerStep, EmitStep, IdleStep, QuietStep
   DEF Next, Sender, Park

\* The invariant of the sender's loops and of the receiver: run and last describe the
\* end of what apply_stuffing() pushed, its output is the input with a stuff bit after
\* every five alike, and a receiver inside a frame has read the input up to the bit
\* the last one on the wire was taken from.
THEOREM InvCorrect == Spec => []IInv
<1>1. IInv /\ [Next]_vars => IInv'
  BY SendStep, CrcKept, CopyStep, EarStep DEF IInv
<1> QED BY InitInv, <1>1, PTL DEF Spec

\* apply_stuffing(): whatever the identifier, the data and the capacities, no six bits
\* up to the CRC are alike, and no push(..).unwrap() of build_unstuffed(),
\* apply_stuffing() or emit_frame() panics.
THEOREM StuffingCorrect == Spec => []StuffingHolds
<1>1. IInv => StuffingHolds
  BY DEF IInv, SendInv, StuffInv
<1> QED BY <1>1, InvCorrect, PTL

\* emit_frame() on the wire: for any frames and any gap of at least eleven bit times, a
\* receiver switched on at any bit sees no stuff or form error, never takes the middle
\* of a frame for its start, reads back what was stuffed, and misses no frame but the
\* one it was switched on in.
THEOREM FramesAreHeard == Spec => []EveryFrameHeard
<1>1. IInv => EveryFrameHeard
  <2> SUFFICES ASSUME IInv PROVE EveryFrameHeard
    OBVIOUS
  <2>1. ear \in Ear /\ sent \in 0 .. Iterations
    BY DEF IInv, EarInv, SendInv, SenderType
  <2>2. ear.heard \in 0 .. Iterations /\ ear.missed \in 0 .. Iterations + 1
    BY <2>1, EarType
  <2>3. ear.state # "off" => ear.heard \in sent - ear.missed .. sent
    BY <2>1, <2>2, Bounds DEF IInv, EarInv
  <2> QED BY <2>3 DEF IInv, EarInv, ReadInv, EveryFrameHeard
<1> QED BY <1>1, InvCorrect, PTL

\* can_crc15() and build_unstuffed(), through the stuffing and the wire: whatever the
\* identifier and the data, a receiver that reaches the end of a frame takes both from
\* what it has read, and that is a multiple of the generator polynomial, the CRC
\* included.
THEOREM FramesAreRead == Spec => []HeardIsSent
<1>1. IInv => HeardIsSent
  <2> SUFFICES ASSUME IInv, ear.state = "tail" PROVE Decoded(ear.rx) = frame /\ IsMultiple(ear.rx, quotient)
    BY DEF HeardIsSent
  <2>1. pc = "emit" /\ ear.rx = unstuffed
    BY DEF IInv, EarInv, ReadInv
  <2>2. unstuffed = Body(frame.id, frame.data) \o CrcBits /\ IsMultiple(unstuffed, quotient)
    BY <2>1 DEF IInv, CopyInv, CrcInv
  <2>3. frame \in Frames /\ crc \in [0 .. 14 -> Bit]
    BY DEF IInv, SendInv, SenderType
  <2>4. Decoded(unstuffed) = frame
    BY <2>2, <2>3, CrcBitsIsBits, DecodedFrame, Zenon
  <2> QED BY <2>1, <2>2, <2>4, Zenon
<1> QED BY <1>1, InvCorrect, PTL
=============================================================================
