----------------------------- MODULE CrcProofs -----------------------------
(***************************************************************************)
(* Proofs about Crc, for messages of any length, any output buffers and    *)
(* any bits the line flips.                                                *)
(*                                                                         *)
(* The register of the CRC is a recursive function of the bits; that it    *)
(* exists, stays in 16 bits and depends on the bits before only follows by *)
(* least counterexample.  What addCRC and removeCRC answer follows from    *)
(* that and from what memcpy leaves in a buffer.  That damage within       *)
(* sixteen bits is found follows from how the register forgets: the bit    *)
(* shifted out can be read off the lowest bit of the next register.  That  *)
(* an odd number of flips is found follows from the polynomial, whose four *)
(* terms leave the parity of the register to the bits that were taken.     *)
(***************************************************************************)
EXTENDS Crc, SequenceTheorems, FiniteSetTheorems, WellFoundedInduction, TLAPS

-----------------------------------------------------------------------------
(* The register.                                                           *)

\* Every set of naturals that is not empty has a least element.
LEMMA LeastNumber ==
  ASSUME NEW T, T \subseteq Nat, T # {}
  PROVE  \E x \in T : \A y \in T : x <= y
<1> DEFINE R == OpToRel(<, Nat)
<1>1. IsWellFoundedOn(R, Nat)  BY NatLessThanWellFounded
<1> HIDE DEF R
<1>2. PICK x \in T : \A y \in T : ~(<<y, x>> \in R)  BY <1>1, WFMin
<1>3. \A y \in T : y < x => <<y, x>> \in R  BY DEF R, OpToRel
<1>4. \A y \in T : ~(y < x)  BY <1>2, <1>3, Zenon
<1>5. \A y \in T : x <= y  BY <1>4
<1>6. QED  BY <1>5, Zenon

IsRegister(f, bytes, n) ==
    f = [i \in 0 .. n |-> IF i = 0 THEN 65535 ELSE Shift(f[i - 1], Bit(bytes, i))]

LEMMA RegisterExists ==
  ASSUME NEW bytes, NEW n \in Nat
  PROVE  \E f : IsRegister(f, bytes, n)
<1> DEFINE T == {m \in Nat : ~ \E f : IsRegister(f, bytes, m)}
<1>1. SUFFICES T = {}  OBVIOUS
<1>2. ASSUME T # {}  PROVE FALSE
  <2>1. PICK m \in T : \A k \in T : m <= k
    <3> HIDE DEF T
    <3>1. T \subseteq Nat  BY DEF T
    <3>2. QED  BY <1>2, <3>1, LeastNumber
  <2>2. m \in Nat /\ ~ \E f : IsRegister(f, bytes, m)  OBVIOUS
  <2>3. CASE m = 0
    <3>1. IsRegister([i \in 0 .. 0 |-> 65535], bytes, m)  BY <2>3 DEF IsRegister
    <3>2. QED  BY <2>2, <3>1
  <2>4. CASE m # 0
    <3>1. m - 1 \in Nat /\ ~(m <= m - 1)  BY <2>2, <2>4
    <3>2. PICK f : IsRegister(f, bytes, m - 1)  BY <2>1, <3>1
    <3>3. PICK g : g = [i \in 0 .. m |-> IF i = m THEN Shift(f[m - 1], Bit(bytes, m))
                                         ELSE f[i]]
      OBVIOUS
    <3>4. ASSUME NEW i \in 0 .. m
          PROVE  g[i] = IF i = 0 THEN 65535 ELSE Shift(g[i - 1], Bit(bytes, i))
      <4>1. \A j \in 0 .. m - 1 : g[j] = f[j]  BY <2>2, <3>3
      <4>2. CASE i = m
        <5>1. m - 1 \in 0 .. m - 1  BY <2>2, <2>4
        <5>2. g[i] = Shift(f[m - 1], Bit(bytes, m))  BY <3>3, <4>2
        <5>3. QED  BY <2>4, <4>1, <4>2, <5>1, <5>2
      <4>3. CASE i # m
        <5>1. i \in 0 .. m - 1 /\ (i # 0 => i - 1 \in 0 .. m - 1)  BY <2>2, <4>3
        <5>2. f[i] = IF i = 0 THEN 65535 ELSE Shift(f[i - 1], Bit(bytes, i))
          BY <3>2, <5>1 DEF IsRegister
        <5>3. QED  BY <4>1, <5>1, <5>2
      <4>4. QED  BY <4>2, <4>3
    <3>5. IsRegister(g, bytes, m)
      <4> DEFINE h == [i \in 0 .. m |-> IF i = 0 THEN 65535
                                        ELSE Shift(g[i - 1], Bit(bytes, i))]
      <4>1. \A i \in 0 .. m : h[i] = g[i]  BY <3>4
      <4>2. DOMAIN g = 0 .. m /\ g = [i \in 0 .. m |-> g[i]]  BY <3>3
      <4>3. DOMAIN h = 0 .. m /\ h = [i \in 0 .. m |-> h[i]]  OBVIOUS
      <4> HIDE DEF h
      <4>4. g = h  BY <4>1, <4>2, <4>3
      <4>5. QED  BY <4>4 DEF IsRegister, h
    <3>6. QED  BY <2>2, <3>5
  <2>5. QED  BY <2>3, <2>4
<1>3. QED  BY <1>2

LEMMA RegisterIs ==
  ASSUME NEW bytes, 8 * Len(bytes) \in Nat
  PROVE  \A i \in 0 .. 8 * Len(bytes) :
           Register(bytes)[i] = IF i = 0 THEN 65535
                                ELSE Shift(Register(bytes)[i - 1], Bit(bytes, i))
<1> DEFINE Is(f) == f = [i \in 0 .. 8 * Len(bytes) |->
                         IF i = 0 THEN 65535 ELSE Shift(f[i - 1], Bit(bytes, i))]
<1>1. PICK f : Is(f)  BY RegisterExists, SMT DEF IsRegister
<1>2. Register(bytes) = CHOOSE g : Is(g)  BY SMT DEF Register
<1>3. Is(Register(bytes))
  <2> HIDE DEF Is
  <2>1. QED  BY <1>1, <1>2, Zenon
<1>4. PICK g : g = Register(bytes)  OBVIOUS
<1>5. \A i \in 0 .. 8 * Len(bytes) :
        g[i] = IF i = 0 THEN 65535 ELSE Shift(g[i - 1], Bit(bytes, i))
  BY <1>3, <1>4
<1>6. QED  BY <1>4, <1>5

\* The CRC is a word of 16 bits.
Word == {x \in Nat : x < 65536}
Wrap(x) == x % 65536
Top(x) == x \div 32768

LEMMA IntervalIs ==
  ASSUME NEW n \in Int
  PROVE  \A x : x \in 0 .. n <=> x \in Int /\ 0 <= x /\ x <= n
OBVIOUS

LEMMA UInt16Is == \A x : x \in UInt16 <=> x \in Word
<1>1. PICK n \in Int : n = 65535  OBVIOUS
<1>2. UInt16 = 0 .. n  BY <1>1, SMT DEF UInt16
<1>3. \A x : x \in UInt16 <=> x \in Int /\ 0 <= x /\ x <= n  BY <1>2, IntervalIs
<1>4. QED  BY <1>1, <1>3 DEF Word

LEMMA ByteIs == \A x : x \in Byte <=> x \in Int /\ 0 <= x /\ x <= 255
<1>1. PICK n \in Int : n = 255  OBVIOUS
<1>2. Byte = 0 .. n  BY <1>1, SMT DEF Byte
<1>3. \A x : x \in Byte <=> x \in Int /\ 0 <= x /\ x <= n  BY <1>2, IntervalIs
<1>4. QED  BY <1>1, <1>3

LEMMA BitsOf ==
  ASSUME NEW bytes \in Seq(Byte)
  PROVE  /\ Len(bytes) \in Nat /\ 8 * Len(bytes) \in Nat
         /\ \A i \in 1 .. 8 * Len(bytes) :
              /\ ((i - 1) \div 8) + 1 \in 1 .. Len(bytes)
              /\ ((i - 1) % 8) + 1 \in 1 .. 8
              /\ Bit(bytes, i) \in {0, 1}
<1>1. PICK n \in Nat : n = Len(bytes)  BY LenProperties
<1>2. ASSUME NEW i \in 1 .. 8 * n
      PROVE  /\ ((i - 1) \div 8) + 1 \in 1 .. n
             /\ ((i - 1) % 8) + 1 \in 1 .. 8
             /\ Bit(bytes, i) \in {0, 1}
  <2>1. PICK j \in Int : j = ((i - 1) \div 8) + 1  OBVIOUS
  <2>2. PICK k \in Int : k = ((i - 1) % 8) + 1  OBVIOUS
  <2>3. j \in 1 .. n /\ k \in 1 .. 8  BY <2>1, <2>2
  <2>4. bytes[j] \in Nat  BY <1>1, <2>3, ElementOfSeq, ByteIs
  <2>5. Weight[k] \in Nat \ {0}  BY <2>3 DEF Weight
  <2>6. \A x \in Nat, w \in Nat \ {0} : (x \div w) % 2 \in {0, 1}  OBVIOUS
  <2>7. Bit(bytes, i) = (bytes[j] \div Weight[k]) % 2  BY <2>1, <2>2 DEF Bit
  <2>8. QED  BY <2>1, <2>2, <2>3, <2>4, <2>5, <2>6, <2>7
<1>3. QED  BY <1>1, <1>2

LEMMA ShiftType ==
  ASSUME NEW c \in Word, NEW bit \in {0, 1}
  PROVE  /\ Shift(c, bit) \in Word
         /\ c \div 32768 = bit => Shift(c, bit) = (2 * c) % 65536
<1>1. PICK shifted \in Word : shifted = (2 * c) % 65536  BY DEF Word
<1>2. \A x \in Word : Flip(x, 1) \in Word  BY DEF Flip, Word
<1>3. \A x \in Word : Flip(x, 32) \in Word  BY DEF Flip, Word
<1>4. \A x \in Word : Flip(x, 4096) \in Word  BY DEF Flip, Word
<1>5. Flip(Flip(Flip(shifted, 1), 32), 4096) \in Word  BY <1>2, <1>3, <1>4
<1>6. Shift(c, bit) = IF c \div 32768 = bit THEN shifted
                      ELSE Flip(Flip(Flip(shifted, 1), 32), 4096)
  BY <1>1 DEF Shift
<1>7. CASE c \div 32768 = bit  BY <1>1, <1>6, <1>7
<1>8. CASE c \div 32768 # bit  BY <1>5, <1>6, <1>8
<1>9. QED  BY <1>7, <1>8

\* The register stays in 16 bits.
LEMMA RegisterType ==
  ASSUME NEW bytes \in Seq(Byte)
  PROVE  \A i \in 0 .. 8 * Len(bytes) : Register(bytes)[i] \in Word
<1>1. PICK n \in Nat : n = 8 * Len(bytes)  BY BitsOf
<1> DEFINE T == {i \in 0 .. n : ~(Register(bytes)[i] \in Word)}
<1>2. ASSUME T # {}  PROVE FALSE
  <2>1. PICK m \in T : \A k \in T : m <= k
    <3> HIDE DEF T
    <3>1. T \subseteq Nat  BY DEF T
    <3>2. QED  BY <1>2, <3>1, LeastNumber
  <2>2. m \in 0 .. n /\ ~(Register(bytes)[m] \in Word)  OBVIOUS
  <2>3. Register(bytes)[m] = IF m = 0 THEN 65535
                             ELSE Shift(Register(bytes)[m - 1], Bit(bytes, m))
    BY <1>1, <2>2, RegisterIs
  <2>4. m # 0  BY <2>2, <2>3 DEF Word
  <2>5. m - 1 \in 0 .. n /\ m \in 1 .. n /\ ~(m <= m - 1)  BY <2>2, <2>4
  <2>6. Register(bytes)[m - 1] \in Word  BY <2>1, <2>5
  <2>7. Bit(bytes, m) \in {0, 1}  BY <1>1, <2>5, BitsOf
  <2>8. QED  BY <2>2, <2>3, <2>4, <2>6, <2>7, ShiftType
<1>3. QED  BY <1>1, <1>2

LEMMA CalculateType ==
  ASSUME NEW bytes \in Seq(Byte)
  PROVE  Calculate(bytes) \in Word
<1>1. 8 * Len(bytes) \in 0 .. 8 * Len(bytes)  BY BitsOf
<1>2. QED  BY <1>1, RegisterType DEF Calculate

LEMMA EmptyCalculate == Calculate(<< >>) = 65535
<1>1. Len(<< >>) = 0 /\ 8 * Len(<< >>) = 0 /\ 8 * Len(<< >>) \in Nat  OBVIOUS
<1>2. 0 \in 0 .. 8 * Len(<< >>)  BY <1>1
<1>3. Register(<< >>)[0] = 65535  BY <1>1, <1>2, RegisterIs
<1>4. QED  BY <1>1, <1>3 DEF Calculate

\* The two bytes of a CRC are bytes, and the CRC is read back from them.
LEMMA CrcBytesAre ==
  ASSUME NEW crc \in Word
  PROVE  /\ getHighByte(crc) \in Byte /\ getLowByte(crc) \in Byte
         /\ bindTwobytes(getHighByte(crc), getLowByte(crc)) = crc
         /\ CrcBytes(crc) \in Seq(Byte) /\ Len(CrcBytes(crc)) = 2
         /\ CrcBytes(crc)[1] = getHighByte(crc) /\ CrcBytes(crc)[2] = getLowByte(crc)
<1>1. /\ getHighByte(crc) \in Byte /\ getLowByte(crc) \in Byte
      /\ bindTwobytes(getHighByte(crc), getLowByte(crc)) = crc
  BY ByteIs DEF getHighByte, getLowByte, bindTwobytes, Word
<1>2. QED  BY <1>1 DEF CrcBytes

\* The register depends on the bits before only.
LEMMA RegisterPrefix ==
  ASSUME NEW a \in Seq(Byte), NEW b \in Seq(Byte)
  PROVE  \A i \in 0 .. 8 * Len(a) : Register(a \o b)[i] = Register(a)[i]
<1>1. PICK n \in Nat : n = Len(a)  BY LenProperties
<1>2. PICK s \in Seq(Byte) : /\ s = a \o b /\ 8 * n <= 8 * Len(s) /\ 8 * Len(s) \in Nat
                             /\ \A j \in 1 .. n : s[j] = a[j]
  <2>1. /\ a \o b \in Seq(Byte) /\ Len(a \o b) = Len(a) + Len(b)
        /\ \A j \in 1 .. Len(a) + Len(b) :
             (a \o b)[j] = IF j <= Len(a) THEN a[j] ELSE b[j - Len(a)]
    BY ConcatProperties
  <2>2. Len(b) \in Nat  BY LenProperties
  <2>3. PICK k \in Nat : k = Len(b)  BY <2>2
  <2>4. /\ Len(a \o b) = n + k /\ 8 * n <= 8 * (n + k) /\ 8 * (n + k) \in Nat
        /\ \A j \in 1 .. n : (a \o b)[j] = a[j]
    BY <1>1, <2>1, <2>3
  <2>5. QED  BY <2>1, <2>4
<1> DEFINE T == {i \in 0 .. 8 * n : Register(s)[i] # Register(a)[i]}
<1>3. ASSUME T # {}  PROVE FALSE
  <2>1. PICK m \in T : \A k \in T : m <= k
    <3> HIDE DEF T
    <3>1. T \subseteq Nat  BY DEF T
    <3>2. QED  BY <1>3, <3>1, LeastNumber
  <2>2. m \in 0 .. 8 * n /\ Register(s)[m] # Register(a)[m]  OBVIOUS
  <2>3. m \in 0 .. 8 * Len(s) /\ m \in 0 .. 8 * Len(a) /\ 8 * Len(a) \in Nat
    BY <1>1, <1>2, <2>2
  <2>4. Register(a)[m] = IF m = 0 THEN 65535 ELSE Shift(Register(a)[m - 1], Bit(a, m))
    BY <2>3, RegisterIs
  <2>5. Register(s)[m] = IF m = 0 THEN 65535 ELSE Shift(Register(s)[m - 1], Bit(s, m))
    <3>1. 8 * Len(s) \in Nat  BY <1>2
    <3>2. m \in 0 .. 8 * Len(s)  BY <2>3
    <3>3. QED  BY <3>1, <3>2, RegisterIs
  <2>6. m # 0  BY <2>2, <2>4, <2>5
  <2>7. m - 1 \in 0 .. 8 * n /\ m \in 1 .. 8 * n /\ ~(m <= m - 1)  BY <2>2, <2>6
  <2>8. Register(s)[m - 1] = Register(a)[m - 1]  BY <2>1, <2>7
  <2>9. Bit(s, m) = Bit(a, m)
    <3>1. ((m - 1) \div 8) + 1 \in 1 .. n  BY <1>1, <2>7, BitsOf
    <3>2. s[((m - 1) \div 8) + 1] = a[((m - 1) \div 8) + 1]  BY <1>2, <3>1
    <3>3. QED  BY <3>2 DEF Bit
  <2>10. QED  BY <2>2, <2>4, <2>5, <2>6, <2>8, <2>9
<1>4. QED  BY <1>1, <1>2, <1>3

\* A bit equal to the register's highest only shifts the register.
LEMMA OneBit ==
  ASSUME NEW bytes \in Seq(Byte), NEW i \in 1 .. 8 * Len(bytes), NEW c \in Word,
         Register(bytes)[i - 1] = c, Top(c) = Bit(bytes, i)
  PROVE  Register(bytes)[i] = Wrap(2 * c)
<1>1. PICK n \in Nat : n = 8 * Len(bytes)  BY BitsOf
<1>2. i \in 0 .. n /\ i # 0  BY <1>1
<1>3. Register(bytes)[i] = Shift(c, Bit(bytes, i))  BY <1>1, <1>2, RegisterIs
<1>4. Bit(bytes, i) \in {0, 1}  BY BitsOf
<1>5. QED  BY <1>3, <1>4, ShiftType DEF Wrap, Top

\* A byte equal to the register's high byte shifts it out.
LEMMA OneByte ==
  ASSUME NEW bytes \in Seq(Byte), NEW n \in Nat, n + 1 \in 1 .. Len(bytes), NEW c \in Word,
         Register(bytes)[8 * n] = c, c \div 256 = bytes[n + 1]
  PROVE  Register(bytes)[8 * n + 8] = Wrap(256 * c)
<1>1. PICK N \in Nat : N = 8 * n /\ N + 8 <= 8 * Len(bytes)  BY LenProperties
<1> DEFINE R(k) == Register(bytes)[N + k]
           B(k) == Bit(bytes, N + k)
<1>2. \A k \in 1 .. 8 : N + k \in 1 .. 8 * Len(bytes) /\ (N + k) - 1 = N + (k - 1)
  BY <1>1, LenProperties
<1>3. \A k \in 1 .. 8, x \in Word :
        R(k - 1) = x /\ Top(x) = B(k) => R(k) = Wrap(2 * x)
  <2>1. ASSUME NEW k \in 1 .. 8, NEW x \in Word, R(k - 1) = x, Top(x) = B(k)
        PROVE  R(k) = Wrap(2 * x)
    <3>1. PICK i : i = N + k  OBVIOUS
    <3>2. i \in 1 .. 8 * Len(bytes) /\ i - 1 = N + (k - 1)  BY <1>2, <3>1
    <3>3. Register(bytes)[i - 1] = x /\ Top(x) = Bit(bytes, i)  BY <2>1, <3>1, <3>2
    <3>4. Register(bytes)[i] = Wrap(2 * x)  BY <3>2, <3>3, OneBit
    <3>5. QED  BY <3>1, <3>4
  <2>2. QED  BY <2>1
<1>4. ASSUME NEW k \in 1 .. 8  PROVE B(k) = ((c \div 256) \div Weight[k]) % 2
  <2>1. PICK i \in Nat : i = N + k /\ i = 8 * n + k  BY <1>1
  <2>2. (i - 1) \div 8 = n /\ (i - 1) % 8 = k - 1  BY <2>1
  <2>3. ((i - 1) \div 8) + 1 = n + 1 /\ ((i - 1) % 8) + 1 = k  BY <2>2
  <2>4. Bit(bytes, i) = (bytes[n + 1] \div Weight[k]) % 2  BY <2>3 DEF Bit
  <2>5. QED  BY <2>1, <2>4
<1> HIDE DEF R, B
<1>5. \A k \in 0 .. 7, j \in 1 .. 8, x \in Word :
        j = k + 1 /\ R(k) = x /\ Top(x) = B(j) => R(j) = Wrap(2 * x)
  <2>1. ASSUME NEW k \in 0 .. 7, NEW j \in 1 .. 8, j = k + 1, NEW x \in Word,
               R(k) = x, Top(x) = B(j)
        PROVE  R(j) = Wrap(2 * x)
    <3>1. j - 1 = k  BY <2>1
    <3>2. R(j - 1) = x  BY <2>1, <3>1
    <3>3. QED  BY <1>3, <2>1, <3>2
  <2>2. QED  BY <2>1, Zenon
<1>6. /\ B(1) = ((c \div 256) \div 128) % 2 /\ B(2) = ((c \div 256) \div 64) % 2
      /\ B(3) = ((c \div 256) \div 32) % 2 /\ B(4) = ((c \div 256) \div 16) % 2
      /\ B(5) = ((c \div 256) \div 8) % 2 /\ B(6) = ((c \div 256) \div 4) % 2
      /\ B(7) = ((c \div 256) \div 2) % 2 /\ B(8) = ((c \div 256) \div 1) % 2
  BY <1>4 DEF Weight
<1>7. R(0) = c  BY <1>1 DEF R
<1>8. R(1) = Wrap(2 * c)
  <2>1. PICK x \in Word : /\ x = c /\ Wrap(2 * x) = Wrap(2 * c)
                          /\ Top(x) = ((c \div 256) \div 128) % 2
    BY DEF Word, Wrap, Top
  <2>2. R(0) = x /\ Top(x) = B(1)  BY <1>6, <1>7, <2>1, Zenon
  <2>3. 0 \in 0 .. 7 /\ 1 \in 1 .. 8 /\ 1 = 0 + 1  OBVIOUS
  <2>4. R(1) = Wrap(2 * x)  BY <1>5, <2>2, <2>3
  <2>5. QED  BY <2>1, <2>4
<1>9. R(2) = Wrap(4 * c)
  <2>1. PICK x \in Word : /\ x = Wrap(2 * c) /\ Wrap(2 * x) = Wrap(4 * c)
                          /\ Top(x) = ((c \div 256) \div 64) % 2
    BY DEF Word, Wrap, Top
  <2>2. R(1) = x /\ Top(x) = B(2)  BY <1>6, <1>8, <2>1, Zenon
  <2>3. 1 \in 0 .. 7 /\ 2 \in 1 .. 8 /\ 2 = 1 + 1  OBVIOUS
  <2>4. R(2) = Wrap(2 * x)  BY <1>5, <2>2, <2>3
  <2>5. QED  BY <2>1, <2>4
<1>10. R(3) = Wrap(8 * c)
  <2>1. PICK x \in Word : /\ x = Wrap(4 * c) /\ Wrap(2 * x) = Wrap(8 * c)
                          /\ Top(x) = ((c \div 256) \div 32) % 2
    BY DEF Word, Wrap, Top
  <2>2. R(2) = x /\ Top(x) = B(3)  BY <1>6, <1>9, <2>1, Zenon
  <2>3. 2 \in 0 .. 7 /\ 3 \in 1 .. 8 /\ 3 = 2 + 1  OBVIOUS
  <2>4. R(3) = Wrap(2 * x)  BY <1>5, <2>2, <2>3
  <2>5. QED  BY <2>1, <2>4
<1>11. R(4) = Wrap(16 * c)
  <2>1. PICK x \in Word : /\ x = Wrap(8 * c) /\ Wrap(2 * x) = Wrap(16 * c)
                          /\ Top(x) = ((c \div 256) \div 16) % 2
    BY DEF Word, Wrap, Top
  <2>2. R(3) = x /\ Top(x) = B(4)  BY <1>6, <1>10, <2>1, Zenon
  <2>3. 3 \in 0 .. 7 /\ 4 \in 1 .. 8 /\ 4 = 3 + 1  OBVIOUS
  <2>4. R(4) = Wrap(2 * x)  BY <1>5, <2>2, <2>3
  <2>5. QED  BY <2>1, <2>4
<1>12. R(5) = Wrap(32 * c)
  <2>1. PICK x \in Word : /\ x = Wrap(16 * c) /\ Wrap(2 * x) = Wrap(32 * c)
                          /\ Top(x) = ((c \div 256) \div 8) % 2
    BY DEF Word, Wrap, Top
  <2>2. R(4) = x /\ Top(x) = B(5)  BY <1>6, <1>11, <2>1, Zenon
  <2>3. 4 \in 0 .. 7 /\ 5 \in 1 .. 8 /\ 5 = 4 + 1  OBVIOUS
  <2>4. R(5) = Wrap(2 * x)  BY <1>5, <2>2, <2>3
  <2>5. QED  BY <2>1, <2>4
<1>13. R(6) = Wrap(64 * c)
  <2>1. PICK x \in Word : /\ x = Wrap(32 * c) /\ Wrap(2 * x) = Wrap(64 * c)
                          /\ Top(x) = ((c \div 256) \div 4) % 2
    BY DEF Word, Wrap, Top
  <2>2. R(5) = x /\ Top(x) = B(6)  BY <1>6, <1>12, <2>1, Zenon
  <2>3. 5 \in 0 .. 7 /\ 6 \in 1 .. 8 /\ 6 = 5 + 1  OBVIOUS
  <2>4. R(6) = Wrap(2 * x)  BY <1>5, <2>2, <2>3
  <2>5. QED  BY <2>1, <2>4
<1>14. R(7) = Wrap(128 * c)
  <2>1. PICK x \in Word : /\ x = Wrap(64 * c) /\ Wrap(2 * x) = Wrap(128 * c)
                          /\ Top(x) = ((c \div 256) \div 2) % 2
    BY DEF Word, Wrap, Top
  <2>2. R(6) = x /\ Top(x) = B(7)  BY <1>6, <1>13, <2>1, Zenon
  <2>3. 6 \in 0 .. 7 /\ 7 \in 1 .. 8 /\ 7 = 6 + 1  OBVIOUS
  <2>4. R(7) = Wrap(2 * x)  BY <1>5, <2>2, <2>3
  <2>5. QED  BY <2>1, <2>4
<1>15. R(8) = Wrap(256 * c)
  <2>1. PICK x \in Word : /\ x = Wrap(128 * c) /\ Wrap(2 * x) = Wrap(256 * c)
                          /\ Top(x) = ((c \div 256) \div 1) % 2
    BY DEF Word, Wrap, Top
  <2>2. R(7) = x /\ Top(x) = B(8)  BY <1>6, <1>14, <2>1, Zenon
  <2>3. 7 \in 0 .. 7 /\ 8 \in 1 .. 8 /\ 8 = 7 + 1  OBVIOUS
  <2>4. R(8) = Wrap(2 * x)  BY <1>5, <2>2, <2>3
  <2>5. QED  BY <2>1, <2>4
<1>16. QED  BY <1>1, <1>15 DEF R

\* A message with its CRC, high byte first, leaves the register at 0.
LEMMA ZeroRemainder ==
  ASSUME NEW bytes \in Seq(Byte)
  PROVE  Calculate(bytes \o CrcBytes(Calculate(bytes))) = 0
<1>1. PICK c \in Word : c = Calculate(bytes)  BY CalculateType
<1>2. PICK n \in Nat : n = Len(bytes)  BY LenProperties
<1>3. PICK s \in Seq(Byte) : /\ s = bytes \o CrcBytes(c) /\ Len(s) = n + 2
                             /\ s[n + 1] = getHighByte(c) /\ s[n + 2] = getLowByte(c)
  <2>1. /\ CrcBytes(c) \in Seq(Byte) /\ Len(CrcBytes(c)) = 2
        /\ CrcBytes(c)[1] = getHighByte(c) /\ CrcBytes(c)[2] = getLowByte(c)
    BY CrcBytesAre
  <2>2. /\ bytes \o CrcBytes(c) \in Seq(Byte) /\ Len(bytes \o CrcBytes(c)) = n + 2
        /\ \A j \in 1 .. n + 2 :
             (bytes \o CrcBytes(c))[j] = IF j <= n THEN bytes[j] ELSE CrcBytes(c)[j - n]
    <3>1. /\ bytes \o CrcBytes(c) \in Seq(Byte)
          /\ Len(bytes \o CrcBytes(c)) = Len(bytes) + Len(CrcBytes(c))
          /\ \A j \in 1 .. Len(bytes) + Len(CrcBytes(c)) :
               (bytes \o CrcBytes(c))[j]
                 = IF j <= Len(bytes) THEN bytes[j] ELSE CrcBytes(c)[j - Len(bytes)]
      BY <2>1, ConcatProperties
    <3>2. QED  BY <1>2, <2>1, <3>1
  <2>3. /\ n + 1 \in 1 .. n + 2 /\ ~(n + 1 <= n) /\ (n + 1) - n = 1
        /\ n + 2 \in 1 .. n + 2 /\ ~(n + 2 <= n) /\ (n + 2) - n = 2
    OBVIOUS
  <2>4. QED  BY <2>1, <2>2, <2>3
<1>4. Register(s)[8 * n] = c
  <2>1. CrcBytes(c) \in Seq(Byte)  BY CrcBytesAre
  <2>2. 8 * n \in 0 .. 8 * n  BY <1>2
  <2>3. Register(s)[8 * n] = Register(bytes)[8 * n]
    BY <1>2, <1>3, <2>1, <2>2, RegisterPrefix
  <2>4. QED  BY <1>1, <1>2, <2>3 DEF Calculate
<1>5. Register(s)[8 * n + 8] = Wrap(256 * c)
  <2>1. n + 1 \in 1 .. Len(s) /\ c \div 256 = s[n + 1]  BY <1>3 DEF getHighByte
  <2>2. QED  BY <1>4, <2>1, OneByte
<1>6. Register(s)[8 * (n + 1) + 8] = 0
  <2>1. PICK d \in Word : /\ d = Wrap(256 * c) /\ d \div 256 = c % 256
                          /\ Wrap(256 * d) = 0
    BY DEF Word, Wrap
  <2>2. PICK m \in Nat : m = n + 1  OBVIOUS
  <2>3. Register(s)[8 * m] = d  BY <1>5, <2>1, <2>2
  <2>4. m + 1 \in 1 .. Len(s) /\ d \div 256 = s[m + 1]  BY <1>3, <2>1, <2>2 DEF getLowByte
  <2>5. Register(s)[8 * m + 8] = Wrap(256 * d)  BY <2>3, <2>4, OneByte
  <2>6. QED  BY <2>1, <2>2, <2>5
<1>7. 8 * (n + 1) + 8 = 8 * Len(s)  BY <1>3
<1>8. QED  BY <1>1, <1>3, <1>6, <1>7 DEF Calculate

-----------------------------------------------------------------------------
(* Buffers, and what the two calls answer.                                 *)

\* A sequence of bytes as a function.
LEMMA AsSequence ==
  ASSUME NEW n \in Nat, NEW f \in [1 .. n -> Byte]
  PROVE  f \in Seq(Byte) /\ Len(f) = n
<1>1. f \in Seq(Byte)  BY SeqDef
<1>2. QED  BY <1>1, LenProperties

LEMMA SameBytes ==
  ASSUME NEW a \in Seq(Byte), NEW b \in Seq(Byte), Len(a) = Len(b),
         \A i \in 1 .. Len(a) : a[i] = b[i]
  PROVE  a = b
<1>1. PICK n \in Nat : n = Len(a) /\ n = Len(b)  BY LenProperties
<1>2. a \in [1 .. n -> Byte] /\ b \in [1 .. n -> Byte]  BY <1>1, LenProperties
<1>3. QED  BY <1>1, <1>2

LEMMA BufferType ==
  ASSUME NEW buffer \in Buffers
  PROVE  buffer \in Seq(Byte)
<1>1. PICK n \in BufferSizes : buffer \in [1 .. n -> OldBytes]  BY DEF Buffers
<1>2. n \in Nat /\ OldBytes \subseteq Byte  BY BufferAssumption DEF BufferAssumption
<1>3. buffer \in [1 .. n -> Byte]  BY <1>1, <1>2
<1>4. QED  BY <1>2, <1>3, AsSequence

\* memcpy to the front: the bytes, and behind them what was there.
LEMMA WrittenIs ==
  ASSUME NEW bytes \in Seq(Byte), NEW buffer \in Seq(Byte), Len(bytes) <= Len(buffer)
  PROVE  /\ Written(bytes, buffer) \in Seq(Byte)
         /\ Len(Written(bytes, buffer)) = Len(buffer)
         /\ DOMAIN Written(bytes, buffer) = DOMAIN buffer
         /\ SubSeq(Written(bytes, buffer), 1, Len(bytes)) = bytes
         /\ \A i \in DOMAIN buffer : i > Len(bytes) => Written(bytes, buffer)[i] = buffer[i]
<1>1. PICK n \in Nat : n = Len(buffer)  BY LenProperties
<1>2. PICK k \in Nat : k = Len(bytes) /\ k <= n  BY <1>1, LenProperties
<1>3. buffer \in [1 .. n -> Byte] /\ bytes \in [1 .. k -> Byte]  BY <1>1, <1>2, LenProperties
<1>4. PICK w : w = Written(bytes, buffer)  OBVIOUS
<1>5. w = [i \in 1 .. n |-> IF i <= k THEN bytes[i] ELSE buffer[i]]
  BY <1>2, <1>3, <1>4 DEF Written
<1>6. w \in [1 .. n -> Byte]
  <2>1. \A i \in 1 .. n : (IF i <= k THEN bytes[i] ELSE buffer[i]) \in Byte  BY <1>2, <1>3
  <2>2. QED  BY <1>5, <2>1
<1>7. w \in Seq(Byte) /\ Len(w) = n  BY <1>6, AsSequence
<1>8. SubSeq(w, 1, k) = bytes
  <2>1. \A i \in 1 .. k : w[i] \in Byte /\ w[i] = bytes[i]  BY <1>2, <1>5, <1>6
  <2>2. /\ SubSeq(w, 1, k) \in Seq(Byte) /\ Len(SubSeq(w, 1, k)) = k
        /\ \A i \in 1 .. k : SubSeq(w, 1, k)[i] = w[i]
    BY <2>1, SubSeqProperties
  <2>3. QED  BY <1>2, <2>1, <2>2, SameBytes
<1>9. \A i \in 1 .. n : i > k => w[i] = buffer[i]  BY <1>2, <1>5
<1>10. DOMAIN w = 1 .. n /\ DOMAIN buffer = 1 .. n  BY <1>3, <1>6
<1>11. QED  BY <1>1, <1>2, <1>4, <1>7, <1>8, <1>9, <1>10

\* What any call does to its buffer.
Respects(r, buffer) ==
    /\ r.error \in {"none", "InputBufferTooSmall", "OutputBufferTooSmall", "CrcMismatch"}
    /\ r.buffer \in Seq(Byte) /\ r.size \in 0 .. Len(r.buffer)
    /\ DOMAIN r.buffer = DOMAIN buffer
    /\ \A i \in DOMAIN buffer : i > r.size => r.buffer[i] = buffer[i]

LEMMA FailureRespects ==
  ASSUME NEW buffer \in Seq(Byte),
         NEW error \in {"InputBufferTooSmall", "OutputBufferTooSmall", "CrcMismatch"}
  PROVE  Respects(Failure(error, buffer), buffer)
BY LenProperties DEF Respects, Failure

LEMMA SuccessRespects ==
  ASSUME NEW bytes \in Seq(Byte), NEW buffer \in Seq(Byte), Len(bytes) <= Len(buffer),
         NEW r, r = Success(Len(bytes), Written(bytes, buffer))
  PROVE  Respects(r, buffer) /\ r.error = "none" /\ View(r) = bytes
<1>1. Len(bytes) \in 0 .. Len(buffer)  BY LenProperties
<1>2. r.error = "none" /\ r.size = Len(bytes) /\ r.buffer = Written(bytes, buffer)
  BY DEF Success
<1>3. Respects(r, buffer)  BY <1>1, <1>2, WrittenIs DEF Respects
<1>4. View(r) = bytes  BY <1>2, WrittenIs DEF View
<1>5. QED  BY <1>2, <1>3, <1>4

\* A message with its CRC.
WithCrc(bytes) == bytes \o CrcBytes(Calculate(bytes))

LEMMA WithCrcIs ==
  ASSUME NEW bytes \in Seq(Byte)
  PROVE  /\ WithCrc(bytes) \in Seq(Byte) /\ Len(WithCrc(bytes)) = Len(bytes) + 2
         /\ \A i \in 1 .. Len(bytes) : WithCrc(bytes)[i] = bytes[i]
         /\ WithCrc(bytes)[Len(bytes) + 1] = getHighByte(Calculate(bytes))
         /\ WithCrc(bytes)[Len(bytes) + 2] = getLowByte(Calculate(bytes))
<1>1. PICK n \in Nat : n = Len(bytes)  BY LenProperties
<1>2. PICK c \in Word : c = Calculate(bytes)  BY CalculateType
<1>3. PICK t \in Seq(Byte) : /\ t = CrcBytes(c) /\ Len(t) = 2
                             /\ t[1] = getHighByte(c) /\ t[2] = getLowByte(c)
  BY CrcBytesAre
<1>4. /\ bytes \o t \in Seq(Byte) /\ Len(bytes \o t) = n + 2
      /\ \A i \in 1 .. n + 2 : (bytes \o t)[i] = IF i <= n THEN bytes[i] ELSE t[i - n]
  <2>1. /\ bytes \o t \in Seq(Byte) /\ Len(bytes \o t) = Len(bytes) + Len(t)
        /\ \A i \in 1 .. Len(bytes) + Len(t) :
             (bytes \o t)[i] = IF i <= Len(bytes) THEN bytes[i] ELSE t[i - Len(bytes)]
    BY <1>3, ConcatProperties
  <2>2. QED  BY <1>1, <1>3, <2>1
<1>5. /\ n + 1 \in 1 .. n + 2 /\ ~(n + 1 <= n) /\ (n + 1) - n = 1
      /\ n + 2 \in 1 .. n + 2 /\ ~(n + 2 <= n) /\ (n + 2) - n = 2
  OBVIOUS
<1>6. (bytes \o t)[n + 1] = getHighByte(c) /\ (bytes \o t)[n + 2] = getLowByte(c)
  BY <1>3, <1>4, <1>5
<1>7. \A i \in 1 .. n : (bytes \o t)[i] = bytes[i]  BY <1>4
<1>8. WithCrc(bytes) = bytes \o t  BY <1>2, <1>3 DEF WithCrc
<1>9. QED  BY <1>1, <1>2, <1>4, <1>6, <1>7, <1>8

LEMMA AddCrcIs ==
  ASSUME NEW input \in Seq(Byte), NEW buffer \in Seq(Byte), NEW r, r = addCRC(input, buffer)
  PROVE  /\ Respects(r, buffer)
         /\ (r.error = "none") <=> (input # << >> /\ Len(input) + 2 <= Len(buffer))
         /\ r.error = "none" => View(r) = WithCrc(input)
<1>1. Len(input) \in Nat /\ Len(buffer) \in Nat  BY LenProperties
<1>2. CASE input = << >>
  <2>1. r = Failure("InputBufferTooSmall", buffer)  BY <1>2 DEF addCRC
  <2>2. r.error = "InputBufferTooSmall"  BY <2>1 DEF Failure
  <2>3. QED  BY <1>2, <2>1, <2>2, FailureRespects
<1>3. CASE input # << >> /\ Len(input) + 2 > Len(buffer)
  <2>1. r = Failure("OutputBufferTooSmall", buffer)
    BY <1>3 DEF addCRC, minimumAddingOutputBufferSize, CRC_Lenght
  <2>2. r.error = "OutputBufferTooSmall"  BY <2>1 DEF Failure
  <2>3. QED  BY <1>1, <1>3, <2>1, <2>2, FailureRespects
<1>4. CASE input # << >> /\ ~(Len(input) + 2 > Len(buffer))
  <2>1. PICK w \in Seq(Byte) : w = WithCrc(input) /\ Len(w) = Len(input) + 2
    BY WithCrcIs
  <2>2. r = Success(Len(w), Written(w, buffer))
    BY <1>4, <2>1 DEF addCRC, minimumAddingOutputBufferSize, CRC_Lenght, WithCrc
  <2>3. Len(w) <= Len(buffer)  BY <1>1, <1>4, <2>1
  <2>4. QED  BY <1>1, <1>4, <2>1, <2>2, <2>3, SuccessRespects
<1>5. QED  BY <1>2, <1>3, <1>4

LEMMA RemoveCrcIs ==
  ASSUME NEW input \in Seq(Byte), NEW buffer \in Seq(Byte)
  PROVE  LET r == removeCRC(input, buffer)
             n == Len(input) - 2
             front == SubSeq(input, 1, n)
         IN  /\ Respects(r, buffer)
             /\ n >= 0 => front \in Seq(Byte) /\ Len(front) = n
             /\ (r.error = "none") <=> (n >= 0 /\ n <= Len(buffer) /\ input = WithCrc(front))
             /\ r.error = "none" => View(r) = front
             /\ n >= 0 /\ n > Len(buffer) => r.error = "OutputBufferTooSmall"
             /\ n >= 0 /\ n <= Len(buffer) => r.error \in {"none", "CrcMismatch"}
<1> DEFINE Answers(r, n, front) ==
             /\ Respects(r, buffer)
             /\ n >= 0 => front \in Seq(Byte) /\ Len(front) = n
             /\ (r.error = "none") <=> (n >= 0 /\ n <= Len(buffer) /\ input = WithCrc(front))
             /\ r.error = "none" => View(r) = front
             /\ n >= 0 /\ n > Len(buffer) => r.error = "OutputBufferTooSmall"
             /\ n >= 0 /\ n <= Len(buffer) => r.error \in {"none", "CrcMismatch"}
<1> SUFFICES ASSUME NEW r, r = removeCRC(input, buffer),
                    NEW n \in Int, n = Len(input) - 2,
                    NEW front, front = SubSeq(input, 1, n)
             PROVE  Answers(r, n, front)
  <2>0. Len(input) \in Nat /\ Len(input) - 2 \in Int  BY LenProperties
  <2>1. PICK n \in Int : n = Len(input) - 2  BY <2>0, Zenon
  <2>2. PICK r, front : r = removeCRC(input, buffer) /\ front = SubSeq(input, 1, n)  OBVIOUS
  <2> HIDE DEF Answers
  <2>3. Answers(r, n, front)  BY <2>1, <2>2
  <2>4. Answers(removeCRC(input, buffer), Len(input) - 2, SubSeq(input, 1, Len(input) - 2))
    BY <2>1, <2>2, <2>3, Zenon
  <2>5. QED  BY <2>4 DEF Answers
<1>1. Len(input) \in Nat /\ Len(buffer) \in Nat /\ Len(input) = n + 2  BY LenProperties
<1>2. CASE n < 0
  <2>1. minimumRemovingOutputBufferSize(Len(input)) = -1
    BY <1>1, <1>2 DEF minimumRemovingOutputBufferSize, CRC_Lenght
  <2>2. r = Failure("InputBufferTooSmall", buffer)  BY <2>1 DEF removeCRC
  <2>3. r.error = "InputBufferTooSmall"  BY <2>2 DEF Failure
  <2>4. QED  BY <1>2, <2>2, <2>3, FailureRespects
<1>3. CASE n >= 0
  <2>1. minimumRemovingOutputBufferSize(Len(input)) = n /\ n # -1
    BY <1>1, <1>3 DEF minimumRemovingOutputBufferSize, CRC_Lenght
  <2>2. \A i \in 1 .. Len(input) : input[i] \in Byte  BY ElementOfSeq
  <2>3. /\ front \in Seq(Byte) /\ Len(front) = n
        /\ \A i \in 1 .. n : front[i] = input[i]
    <3>1. \A i \in 1 .. n : input[i] \in Byte  BY <1>1, <2>2
    <3>2. /\ front \in Seq(Byte) /\ Len(front) = IF 1 <= n THEN n - 1 + 1 ELSE 0
          /\ \A i \in 1 .. n - 1 + 1 : front[i] = input[1 + i - 1]
      <4>1. 1 \in Int  OBVIOUS
      <4>2. QED  BY <3>1, <4>1, SubSeqProperties
    <3>3. Len(front) = n  BY <1>3, <3>2
    <3>4. \A i \in 1 .. n : i \in 1 .. n - 1 + 1 /\ 1 + i - 1 = i  OBVIOUS
    <3>5. \A i \in 1 .. n : front[i] = input[i]
      <4>1. ASSUME NEW i \in 1 .. n  PROVE front[i] = input[i]
        <5>1. front[i] = input[1 + i - 1]  BY <3>2, <3>4
        <5>2. QED  BY <3>4, <5>1, Zenon
      <4>2. QED  BY <4>1
    <3>6. QED  BY <3>2, <3>3, <3>5
  <2>4. CASE n > Len(buffer)
    <3>1. r = Failure("OutputBufferTooSmall", buffer)  BY <2>1, <2>4 DEF removeCRC
    <3>2. r.error = "OutputBufferTooSmall"  BY <3>1 DEF Failure
    <3>3. ~(n <= Len(buffer))  BY <1>1, <2>4
    <3>4. QED  BY <1>1, <2>3, <2>4, <3>1, <3>2, <3>3, FailureRespects
  <2>5. PICK c \in Word : c = Calculate(front)  BY <2>3, CalculateType
  <2>6. CrcMatches(input, n) <=> input = WithCrc(front)
    <3>1. /\ WithCrc(front) \in Seq(Byte) /\ Len(WithCrc(front)) = n + 2
          /\ \A i \in 1 .. n : WithCrc(front)[i] = front[i]
          /\ WithCrc(front)[n + 1] = getHighByte(c)
          /\ WithCrc(front)[n + 2] = getLowByte(c)
      BY <2>3, <2>5, WithCrcIs
    <3>2. PICK h, l : /\ h = input[n + 1] /\ l = input[n + 2]
                      /\ h \in Byte /\ l \in Byte
      <4>1. n + 1 \in 1 .. Len(input) /\ n + 2 \in 1 .. Len(input)  BY <1>1, <1>3
      <4>2. QED  BY <2>2, <4>1
    <3>3. CrcMatches(input, n) <=> h * 256 + l = c
      BY <2>5, <3>2 DEF CrcMatches, bindTwobytes
    <3>4. h * 256 + l = c <=> h = getHighByte(c) /\ l = getLowByte(c)
      <4>1. h \in Int /\ l \in Int /\ 0 <= l /\ l <= 255  BY <3>2, ByteIs
      <4>2. c \in Int  BY DEF Word
      <4>3. h * 256 + l = c => h = c \div 256 /\ l = c % 256  BY <4>1, <4>2, SMTT(15)
      <4>4. h = c \div 256 /\ l = c % 256 => h * 256 + l = c  BY <4>1, <4>2
      <4>5. QED  BY <4>3, <4>4 DEF getHighByte, getLowByte
    <3>5. ASSUME h = getHighByte(c), l = getLowByte(c)  PROVE input = WithCrc(front)
      <4>1. \A i \in 1 .. n + 2 : i \in 1 .. n \/ i = n + 1 \/ i = n + 2  BY <1>3
      <4>2. \A i \in 1 .. n + 2 : input[i] = WithCrc(front)[i]
        BY <2>3, <3>1, <3>2, <3>5, <4>1
      <4>3. QED  BY <1>1, <3>1, <4>2, SameBytes
    <3>6. ASSUME input = WithCrc(front)  PROVE h = getHighByte(c) /\ l = getLowByte(c)
      BY <3>1, <3>2, <3>6
    <3>7. QED  BY <3>3, <3>4, <3>5, <3>6
  <2>7. CASE ~(n > Len(buffer)) /\ ~CrcMatches(input, n)
    <3>1. r = Failure("CrcMismatch", buffer)  BY <2>1, <2>7 DEF removeCRC, Untouched
    <3>2. r.error = "CrcMismatch"  BY <3>1 DEF Failure
    <3>3. QED  BY <2>3, <2>6, <2>7, <3>1, <3>2, FailureRespects
  <2>8. CASE ~(n > Len(buffer)) /\ CrcMatches(input, n)
    <3>1. r = Success(Len(front), Written(front, buffer))  BY <2>1, <2>3, <2>8 DEF removeCRC
    <3>2. Len(front) <= Len(buffer)  BY <1>1, <2>3, <2>8
    <3>3. Respects(r, buffer) /\ r.error = "none" /\ View(r) = front
      BY <2>3, <3>1, <3>2, SuccessRespects
    <3>4. QED  BY <1>1, <1>3, <2>3, <2>6, <2>8, <3>3
  <2>9. QED  BY <2>4, <2>7, <2>8
<1>4. QED  BY <1>2, <1>3

LEMMA RemoveRespects ==
  ASSUME NEW input \in Seq(Byte), NEW buffer \in Seq(Byte)
  PROVE  Respects(removeCRC(input, buffer), buffer)
BY RemoveCrcIs, Zenon

-----------------------------------------------------------------------------
(* The line.                                                               *)

\* A byte is the sum of its bits.
LEMMA BitsSum ==
  ASSUME NEW x \in Nat, x <= 255
  PROVE  x = 128 * ((x \div 128) % 2) + 64 * ((x \div 64) % 2) + 32 * ((x \div 32) % 2)
             + 16 * ((x \div 16) % 2) + 8 * ((x \div 8) % 2) + 4 * ((x \div 4) % 2)
             + 2 * ((x \div 2) % 2) + (x % 2)
<1>1. PICK a \in Nat : a = x \div 2 /\ x = 2 * a + (x % 2) /\ a <= 127  OBVIOUS
<1>2. PICK b \in Nat : b = x \div 4 /\ a = 2 * b + (a % 2) /\ b <= 63  BY <1>1
<1>3. PICK c \in Nat : c = x \div 8 /\ b = 2 * c + (b % 2) /\ c <= 31  BY <1>2
<1>4. PICK d \in Nat : d = x \div 16 /\ c = 2 * d + (c % 2) /\ d <= 15  BY <1>3
<1>5. PICK e \in Nat : e = x \div 32 /\ d = 2 * e + (d % 2) /\ e <= 7  BY <1>4
<1>6. PICK f \in Nat : f = x \div 64 /\ e = 2 * f + (e % 2) /\ f <= 3  BY <1>5
<1>7. PICK g \in Nat : g = x \div 128 /\ f = 2 * g + (f % 2) /\ g = g % 2  BY <1>6
<1>8. x % 2 \in Int /\ a % 2 \in Int /\ b % 2 \in Int /\ c % 2 \in Int
      /\ d % 2 \in Int /\ e % 2 \in Int /\ f % 2 \in Int /\ g % 2 \in Int
  OBVIOUS
<1>9. x = 128 * (g % 2) + 64 * (f % 2) + 32 * (e % 2) + 16 * (d % 2) + 8 * (c % 2)
          + 4 * (b % 2) + 2 * (a % 2) + (x % 2)
  <2>1. PICK a0 \in Int, b0 \in Int, c0 \in Int, d0 \in Int,
             e0 \in Int, f0 \in Int, g0 \in Int, x0 \in Int :
          /\ a0 = a % 2 /\ b0 = b % 2 /\ c0 = c % 2 /\ d0 = d % 2
          /\ e0 = e % 2 /\ f0 = f % 2 /\ g0 = g % 2 /\ x0 = x % 2
    BY <1>8, Zenon
  <2>2. x = 2 * a + x0 /\ a = 2 * b + a0 /\ b = 2 * c + b0 /\ c = 2 * d + c0
        /\ d = 2 * e + d0 /\ e = 2 * f + e0 /\ f = 2 * g + f0 /\ g = g0
    BY <1>1, <1>2, <1>3, <1>4, <1>5, <1>6, <1>7, <2>1
  <2>3. x = 128 * g0 + 64 * f0 + 32 * e0 + 16 * d0 + 8 * c0 + 4 * b0 + 2 * a0 + x0
    BY <2>2
  <2>4. QED  BY <2>1, <2>3
<1>10. QED  BY <1>1, <1>2, <1>3, <1>4, <1>5, <1>6, <1>7, <1>9

LEMMA DamagedIs ==
  ASSUME NEW bytes \in Seq(Byte), NEW bits
  PROVE  /\ Damaged(bytes, bits) \in Seq(Byte) /\ Len(Damaged(bytes, bits)) = Len(bytes)
         /\ bits = {} => Damaged(bytes, bits) = bytes
<1>1. PICK n \in Nat : n = Len(bytes)  BY LenProperties
<1> DEFINE sent(i) == (Bit(bytes, i) + (IF i \in bits THEN 1 ELSE 0)) % 2
           Whole(j) == 128 * sent(8 * j - 7) + 64 * sent(8 * j - 6) + 32 * sent(8 * j - 5)
                       + 16 * sent(8 * j - 4) + 8 * sent(8 * j - 3) + 4 * sent(8 * j - 2)
                       + 2 * sent(8 * j - 1) + sent(8 * j)
<1>2. PICK d : d = Damaged(bytes, bits) /\ d = [j \in 1 .. n |-> Whole(j)]
  BY <1>1, Zenon DEF Damaged
<1>3. \A i \in 1 .. 8 * n : sent(i) \in {0, 1} /\ (bits = {} => sent(i) = Bit(bytes, i))
  <2>1. ASSUME NEW i \in 1 .. 8 * n
        PROVE  sent(i) \in {0, 1} /\ (bits = {} => sent(i) = Bit(bytes, i))
    <3>1. Bit(bytes, i) \in {0, 1}  BY <1>1, BitsOf
    <3>2. QED  BY <3>1
  <2>2. QED  BY <2>1
<1> HIDE DEF sent
<1>4. ASSUME NEW j \in 1 .. n  PROVE Whole(j) \in Byte
  <2>1. /\ sent(8 * j - 7) \in {0, 1} /\ sent(8 * j - 6) \in {0, 1}
        /\ sent(8 * j - 5) \in {0, 1} /\ sent(8 * j - 4) \in {0, 1}
        /\ sent(8 * j - 3) \in {0, 1} /\ sent(8 * j - 2) \in {0, 1}
        /\ sent(8 * j - 1) \in {0, 1} /\ sent(8 * j) \in {0, 1}
    BY <1>3
  <2>2. PICK s1 \in {0, 1}, s2 \in {0, 1}, s3 \in {0, 1}, s4 \in {0, 1},
             s5 \in {0, 1}, s6 \in {0, 1}, s7 \in {0, 1}, s8 \in {0, 1} :
          /\ s1 = sent(8 * j - 7) /\ s2 = sent(8 * j - 6) /\ s3 = sent(8 * j - 5)
          /\ s4 = sent(8 * j - 4) /\ s5 = sent(8 * j - 3) /\ s6 = sent(8 * j - 2)
          /\ s7 = sent(8 * j - 1) /\ s8 = sent(8 * j)
    BY <2>1, ZenonT(30)
  <2>3. PICK w \in Int : /\ 0 <= w /\ w <= 255
                         /\ w = 128 * s1 + 64 * s2 + 32 * s3 + 16 * s4 + 8 * s5 + 4 * s6
                                + 2 * s7 + s8
    OBVIOUS
  <2>4. w = Whole(j)  BY <2>2, <2>3, Zenon
  <2>5. QED  BY <2>3, <2>4, ByteIs
<1>5. ASSUME bits = {}, NEW j \in 1 .. n  PROVE Whole(j) = bytes[j]
  <2>1. PICK x : x = bytes[j] /\ x \in Int /\ 0 <= x /\ x <= 255
    BY <1>1, ElementOfSeq, ByteIs
  <2>2. ASSUME NEW k \in 0 .. 7
        PROVE  sent(8 * j - k) = (x \div Weight[8 - k]) % 2
    <3>1. PICK i \in Int : i = 8 * j - k /\ i \in 1 .. 8 * n
      <4>1. 8 * j - k \in 1 .. 8 * n /\ 8 * j - k \in Int  OBVIOUS
      <4>2. QED  BY <4>1, Zenon
    <3>2. (i - 1) \div 8 = j - 1 /\ (i - 1) % 8 = 7 - k  BY <3>1
    <3>3. ((i - 1) \div 8) + 1 = j /\ ((i - 1) % 8) + 1 = 8 - k  BY <3>2
    <3>4. Bit(bytes, i) = (x \div Weight[8 - k]) % 2  BY <2>1, <3>3 DEF Bit
    <3>5. QED  BY <1>3, <1>5, <3>1, <3>4
  <2>3. /\ sent(8 * j - 7) = (x \div 128) % 2 /\ sent(8 * j - 6) = (x \div 64) % 2
        /\ sent(8 * j - 5) = (x \div 32) % 2 /\ sent(8 * j - 4) = (x \div 16) % 2
        /\ sent(8 * j - 3) = (x \div 8) % 2 /\ sent(8 * j - 2) = (x \div 4) % 2
        /\ sent(8 * j - 1) = (x \div 2) % 2 /\ sent(8 * j - 0) = (x \div 1) % 2
    BY <2>2 DEF Weight
  <2>4. sent(8 * j) = x % 2  BY <2>1, <2>3
  <2>5. x \in Nat /\ x <= 255  BY <2>1
  <2>6. Whole(j) = 128 * ((x \div 128) % 2) + 64 * ((x \div 64) % 2)
                   + 32 * ((x \div 32) % 2) + 16 * ((x \div 16) % 2) + 8 * ((x \div 8) % 2)
                   + 4 * ((x \div 4) % 2) + 2 * ((x \div 2) % 2) + (x % 2)
    BY <2>3, <2>4, Zenon
  <2>7. Whole(j) = x  BY <2>5, <2>6, BitsSum, Zenon
  <2>8. QED  BY <2>1, <2>7
<1> HIDE DEF Whole
<1>6. d \in [1 .. n -> Byte]  BY <1>2, <1>4
<1>7. d \in Seq(Byte) /\ Len(d) = n  BY <1>6, AsSequence
<1>8. ASSUME bits = {}  PROVE d = bytes
  <2>1. \A j \in 1 .. n : d[j] = bytes[j]  BY <1>2, <1>5, <1>8
  <2>2. QED  BY <1>1, <1>7, <2>1, SameBytes
<1>9. QED  BY <1>1, <1>2, <1>7, <1>8
-----------------------------------------------------------------------------
(* Bursts: what a flipped bit does to the register, and how far back two   *)
(* registers that agree must have agreed.                                  *)

\* Powers of two, 2^16 down to 2.
Powers == {2, 4, 8, 16, 32, 64, 128, 256, 512, 1024, 2048, 4096, 8192, 16384, 32768, 65536}
Power == <<65536, 32768, 16384, 8192, 4096, 2048, 1024, 512, 256, 128, 64, 32, 16, 8, 4, 2>>

LEMMA PowerIs ==
  ASSUME NEW k \in 1 .. 16
  PROVE  /\ Power[k] \in Powers
         /\ k < 16 => Power[k + 1] = Power[k] \div 2
         /\ \A x, y \in Word : x % Power[k] = y % Power[k] => x % 2 = y % 2
<1> USE DEF Powers
<1>1. k \in {1, 2, 3, 4, 5, 6, 7, 8, 9, 10, 11, 12, 13, 14, 15, 16}  OBVIOUS
<1>2. /\ Power[k] \in Powers
      /\ k < 16 => Power[k + 1] = Power[k] \div 2
  BY <1>1 DEF Power
<1>3. PICK m \in Powers : m = Power[k]
  BY <1>2
<1>4. \A x, y \in Word : x % m = y % m => x % 2 = y % 2  BY DEF Word
<1>5. QED  BY <1>2, <1>3, <1>4

\* A flip is seen in the low bits, or not at all.
LEMMA FlipSeen ==
  ASSUME NEW x \in Word
  PROVE  /\ \A m \in Powers : x % m = Flip(Flip(x, 1) % m, 1)
         /\ \A m \in {2, 4, 8, 16, 32} : x % m = Flip(x, 32) % m
         /\ \A m \in {64, 128, 256, 512, 1024, 2048, 4096, 8192, 16384, 32768, 65536} :
              x % m = Flip(Flip(x, 32) % m, 32)
         /\ \A m \in {2, 4, 8, 16, 32, 64, 128, 256, 512, 1024, 2048, 4096} :
              x % m = Flip(x, 4096) % m
         /\ \A m \in {8192, 16384, 32768, 65536} : x % m = Flip(Flip(x, 4096) % m, 4096)
<1> USE DEF Powers
<1>1. \A m \in Powers : x % m = Flip(Flip(x, 1) % m, 1)
  BY SMT DEF Flip, Word
<1>2. \A m \in {2, 4, 8, 16, 32} : x % m = Flip(x, 32) % m
  BY SMT DEF Flip, Word
<1>3. \A m \in {64, 128, 256, 512, 1024, 2048, 4096, 8192, 16384, 32768, 65536} :
        x % m = Flip(Flip(x, 32) % m, 32)
  <2>1. \A m \in {64, 128, 256, 512, 1024} : x % m = Flip(Flip(x, 32) % m, 32)
    BY SMT DEF Flip, Word
  <2>2. \A m \in {2048, 4096, 8192, 16384, 32768, 65536} :
          x % m = Flip(Flip(x, 32) % m, 32)
    BY SMT DEF Flip, Word
  <2>3. QED  BY <2>1, <2>2, SMT
<1>4. \A m \in {2, 4, 8, 16, 32, 64, 128, 256, 512, 1024, 2048, 4096} :
        x % m = Flip(x, 4096) % m
  BY SMT DEF Flip, Word
<1>5. \A m \in {8192, 16384, 32768, 65536} : x % m = Flip(Flip(x, 4096) % m, 4096)
  BY SMT DEF Flip, Word
<1>6. QED  BY <1>1, <1>2, <1>3, <1>4, <1>5, SMT

LEMMA FlipLow ==
  ASSUME NEW m \in Powers,
         NEW weight \in {1, 32, 4096}, NEW x \in Word, NEW y \in Word,
         Flip(x, weight) % m = Flip(y, weight) % m
  PROVE  x % m = y % m
<1> USE DEF Powers
<1>1. CASE weight = 1  BY <1>1, FlipSeen, SMT
<1>2. CASE weight = 32
  <2>1. CASE m \in {2, 4, 8, 16, 32}  BY <1>2, <2>1, FlipSeen, SMT
  <2>2. CASE m \in {64, 128, 256, 512, 1024, 2048, 4096, 8192, 16384, 32768, 65536}
    BY <1>2, <2>2, FlipSeen, SMT
  <2>3. QED  BY <2>1, <2>2, SMT
<1>3. CASE weight = 4096
  <2>1. CASE m \in {2, 4, 8, 16, 32, 64, 128, 256, 512, 1024, 2048, 4096}
    BY <1>3, <2>1, FlipSeen, SMT
  <2>2. CASE m \in {8192, 16384, 32768, 65536}  BY <1>3, <2>2, FlipSeen, SMT
  <2>3. QED  BY <2>1, <2>2, SMT
<1>4. QED  BY <1>1, <1>2, <1>3, SMT

\* The lowest bit of the register says whether the polynomial was taken.
LEMMA Parity ==
  ASSUME NEW c \in Word, NEW bit \in {0, 1}
  PROVE  Shift(c, bit) % 2 = IF Top(c) = bit THEN 0 ELSE 1
<1>1. PICK s \in Word : s = (2 * c) % 65536 /\ s % 2 = 0  BY DEF Word
<1>2. PICK t \in Word : t = Flip(s, 1) /\ t % 2 = 1  BY <1>1 DEF Word, Flip
<1>3. PICK u \in Word : u = Flip(t, 32) /\ u % 2 = 1  BY <1>2 DEF Word, Flip
<1>4. Flip(u, 4096) % 2 = 1  BY <1>3 DEF Word, Flip
<1>5. Shift(c, bit) = IF Top(c) = bit THEN s ELSE Flip(u, 4096)
  BY <1>1, <1>2, <1>3 DEF Shift, Top
<1>6. QED  BY <1>1, <1>4, <1>5

LEMMA LowBits ==
  ASSUME NEW m \in Powers,
         NEW c \in Word, NEW d \in Word, NEW a \in {0, 1}, NEW b \in {0, 1},
         Shift(c, a) % m = Shift(d, b) % m
  PROVE  (Top(c) = a <=> Top(d) = b) /\ c % (m \div 2) = d % (m \div 2)
<1> USE DEF Powers
<1>1. Shift(c, a) % 2 = Shift(d, b) % 2
  <2>1. PICK x \in Word, y \in Word : x = Shift(c, a) /\ y = Shift(d, b)  BY ShiftType
  <2>2. x % m = y % m => x % 2 = y % 2  BY DEF Word
  <2>3. QED  BY <2>1, <2>2
<1>2. Top(c) = a <=> Top(d) = b  BY <1>1, Parity
<1>3. PICK s \in Word, t \in Word : s = (2 * c) % 65536 /\ t = (2 * d) % 65536
  BY DEF Word
<1>4. s % m = t % m
  <2>1. CASE Top(c) = a
    <3>1. Shift(c, a) = s /\ Shift(d, b) = t  BY <1>2, <1>3, <2>1 DEF Shift, Top
    <3>2. QED  BY <3>1
  <2>2. CASE Top(c) # a
    <3>1. PICK s1 \in Word, t1 \in Word : s1 = Flip(s, 1) /\ t1 = Flip(t, 1)
      BY DEF Flip, Word
    <3>2. PICK s2 \in Word, t2 \in Word : s2 = Flip(s1, 32) /\ t2 = Flip(t1, 32)
      BY DEF Flip, Word
    <3>3. Shift(c, a) = Flip(s2, 4096) /\ Shift(d, b) = Flip(t2, 4096)
      BY <1>2, <1>3, <2>2, <3>1, <3>2 DEF Shift, Top
    <3>4. s2 % m = t2 % m  BY <3>3, FlipLow
    <3>5. s1 % m = t1 % m  BY <3>2, <3>4, FlipLow
    <3>6. QED  BY <3>1, <3>5, FlipLow
  <2>3. QED  BY <2>1, <2>2
<1>5. c % (m \div 2) = d % (m \div 2)
  <2>1. \A x \in Word : ((2 * x) % 65536) % m = 2 * (x % (m \div 2))  BY DEF Word
  <2>2. 2 * (c % (m \div 2)) = 2 * (d % (m \div 2))  BY <1>3, <1>4, <2>1
  <2>3. PICK h \in {1, 2, 4, 8, 16, 32, 64, 128, 256, 512, 1024, 2048, 4096, 8192, 16384,
                    32768} : h = m \div 2
    OBVIOUS
  <2>4. c % h \in Int /\ d % h \in Int  BY DEF Word
  <2>5. QED  BY <2>2, <2>3, <2>4
<1>6. QED  BY <1>2, <1>5

\* The same bit keeps different registers different.
LEMMA ShiftInjective ==
  ASSUME NEW c \in Word, NEW d \in Word, NEW bit \in {0, 1}, Shift(c, bit) = Shift(d, bit)
  PROVE  c = d
<1> USE DEF Powers
<1>1. PICK m \in Powers : m = 65536 /\ m \div 2 = 32768
  OBVIOUS
<1>2. Shift(c, bit) % m = Shift(d, bit) % m  OBVIOUS
<1>3. (Top(c) = bit <=> Top(d) = bit) /\ c % (m \div 2) = d % (m \div 2)  BY <1>2, LowBits
<1>4. Top(c) \in {0, 1} /\ Top(d) \in {0, 1}  BY DEF Top, Word
<1>5. Top(c) = Top(d)  BY <1>3, <1>4
<1>6. c % 32768 = d % 32768  BY <1>1, <1>3
<1>7. QED  BY <1>5, <1>6 DEF Top, Word

\* A byte of the line has the bits that were sent, flipped or not.
LEMMA DamagedBit ==
  ASSUME NEW bytes \in Seq(Byte), NEW bits, NEW i \in 1 .. 8 * Len(bytes)
  PROVE  /\ Bit(Damaged(bytes, bits), i) \in {0, 1} /\ Bit(bytes, i) \in {0, 1}
         /\ Bit(Damaged(bytes, bits), i) # Bit(bytes, i) <=> i \in bits
<1>1. PICK n \in Nat : n = Len(bytes)  BY LenProperties
<1> DEFINE sent(b) == (Bit(bytes, b) + (IF b \in bits THEN 1 ELSE 0)) % 2
           Whole(j) == 128 * sent(8 * j - 7) + 64 * sent(8 * j - 6) + 32 * sent(8 * j - 5)
                       + 16 * sent(8 * j - 4) + 8 * sent(8 * j - 3) + 4 * sent(8 * j - 2)
                       + 2 * sent(8 * j - 1) + sent(8 * j)
<1>2. PICK d : d = Damaged(bytes, bits) /\ d = [j \in 1 .. n |-> Whole(j)]
  BY <1>1, Zenon DEF Damaged
<1>3. \A b \in 1 .. 8 * n : sent(b) \in {0, 1} /\ (sent(b) # Bit(bytes, b) <=> b \in bits)
  <2>1. ASSUME NEW b \in 1 .. 8 * n
        PROVE  sent(b) \in {0, 1} /\ (sent(b) # Bit(bytes, b) <=> b \in bits)
    <3>1. Bit(bytes, b) \in {0, 1}  BY <1>1, BitsOf
    <3>2. QED  BY <3>1
  <2>2. QED  BY <2>1
<1> HIDE DEF sent
<1>4. PICK j \in Int : j = ((i - 1) \div 8) + 1  OBVIOUS
<1>5. PICK k \in Int : k = ((i - 1) % 8) + 1  OBVIOUS
<1>6. j \in 1 .. n /\ k \in 1 .. 8 /\ i = 8 * j - (8 - k)  BY <1>1, <1>4, <1>5
<1>7. /\ sent(8 * j - 7) \in {0, 1} /\ sent(8 * j - 6) \in {0, 1}
      /\ sent(8 * j - 5) \in {0, 1} /\ sent(8 * j - 4) \in {0, 1}
      /\ sent(8 * j - 3) \in {0, 1} /\ sent(8 * j - 2) \in {0, 1}
      /\ sent(8 * j - 1) \in {0, 1} /\ sent(8 * j) \in {0, 1}
  BY <1>3, <1>6
<1>8. PICK s1 \in {0, 1}, s2 \in {0, 1}, s3 \in {0, 1}, s4 \in {0, 1},
           s5 \in {0, 1}, s6 \in {0, 1}, s7 \in {0, 1}, s8 \in {0, 1} :
        /\ s1 = sent(8 * j - 7) /\ s2 = sent(8 * j - 6) /\ s3 = sent(8 * j - 5)
        /\ s4 = sent(8 * j - 4) /\ s5 = sent(8 * j - 3) /\ s6 = sent(8 * j - 2)
        /\ s7 = sent(8 * j - 1) /\ s8 = sent(8 * j)
  BY <1>7, ZenonT(30)
<1>9. PICK w \in Int : w = 128 * s1 + 64 * s2 + 32 * s3 + 16 * s4 + 8 * s5 + 4 * s6
                           + 2 * s7 + s8
  OBVIOUS
<1>10. d[j] = w  BY <1>2, <1>6, <1>8, <1>9
<1>11. Bit(d, i) = (w \div Weight[k]) % 2  BY <1>4, <1>5, <1>10 DEF Bit
<1>12. (w \div Weight[k]) % 2 = sent(i)
  <2>1. CASE k = 1
    <3>1. Weight[k] = 128 /\ i = 8 * j - 7  BY <1>6, <2>1 DEF Weight
    <3>2. (w \div 128) % 2 = s1  BY <1>9
    <3>3. QED  BY <1>8, <3>1, <3>2
  <2>2. CASE k = 2
    <3>1. Weight[k] = 64 /\ i = 8 * j - 6  BY <1>6, <2>2 DEF Weight
    <3>2. (w \div 64) % 2 = s2  BY <1>9
    <3>3. QED  BY <1>8, <3>1, <3>2
  <2>3. CASE k = 3
    <3>1. Weight[k] = 32 /\ i = 8 * j - 5  BY <1>6, <2>3 DEF Weight
    <3>2. (w \div 32) % 2 = s3  BY <1>9
    <3>3. QED  BY <1>8, <3>1, <3>2
  <2>4. CASE k = 4
    <3>1. Weight[k] = 16 /\ i = 8 * j - 4  BY <1>6, <2>4 DEF Weight
    <3>2. (w \div 16) % 2 = s4  BY <1>9
    <3>3. QED  BY <1>8, <3>1, <3>2
  <2>5. CASE k = 5
    <3>1. Weight[k] = 8 /\ i = 8 * j - 3  BY <1>6, <2>5 DEF Weight
    <3>2. (w \div 8) % 2 = s5  BY <1>9
    <3>3. QED  BY <1>8, <3>1, <3>2
  <2>6. CASE k = 6
    <3>1. Weight[k] = 4 /\ i = 8 * j - 2  BY <1>6, <2>6 DEF Weight
    <3>2. (w \div 4) % 2 = s6  BY <1>9
    <3>3. QED  BY <1>8, <3>1, <3>2
  <2>7. CASE k = 7
    <3>1. Weight[k] = 2 /\ i = 8 * j - 1  BY <1>6, <2>7 DEF Weight
    <3>2. (w \div 2) % 2 = s7  BY <1>9
    <3>3. QED  BY <1>8, <3>1, <3>2
  <2>8. CASE k = 8
    <3>1. Weight[k] = 1 /\ i = 8 * j  BY <1>6, <2>8 DEF Weight
    <3>2. (w \div 1) % 2 = s8  BY <1>9
    <3>3. QED  BY <1>8, <3>1, <3>2
  <2>9. QED  BY <1>6, <2>1, <2>2, <2>3, <2>4, <2>5, <2>6, <2>7, <2>8
<1>13. sent(i) \in {0, 1} /\ (sent(i) # Bit(bytes, i) <=> i \in bits)  BY <1>1, <1>3
<1>14. Bit(bytes, i) \in {0, 1}  BY BitsOf
<1>15. QED  BY <1>2, <1>11, <1>12, <1>13, <1>14

\* Two byte sequences that differ within 16 bits have different CRCs.
LEMMA BurstChanges ==
  ASSUME NEW a \in Seq(Byte), NEW b \in Seq(Byte), Len(a) = Len(b),
         NEW first \in 1 .. 8 * Len(a), Bit(a, first) # Bit(b, first),
         \A i \in 1 .. 8 * Len(a) : ~(i \in first .. first + 15) => Bit(a, i) = Bit(b, i)
  PROVE  Calculate(a) # Calculate(b)
<1>1. PICK n \in Nat : n = 8 * Len(a) /\ n = 8 * Len(b)  BY BitsOf
<1> DEFINE A(i) == Register(a)[i]
           B(i) == Register(b)[i]
<1>2. first \in 1 .. n /\ Bit(a, first) # Bit(b, first)
      /\ \A i \in 1 .. n : ~(i \in first .. first + 15) => Bit(a, i) = Bit(b, i)
  BY <1>1
<1>3. \A i \in 1 .. n : Bit(a, i) \in {0, 1} /\ Bit(b, i) \in {0, 1}  BY <1>1, BitsOf
<1>4. \A i \in 0 .. n : A(i) \in Word /\ B(i) \in Word  BY <1>1, RegisterType
<1>5. A(0) = B(0)
  <2>1. 0 \in 0 .. n  OBVIOUS
  <2>2. PICK w \in Word : w = 65535  BY DEF Word
  <2>3. A(0) = w /\ B(0) = w  BY <1>1, <2>1, <2>2, RegisterIs, SMT
  <2>4. QED  BY <2>3
<1>6. \A i \in 0 .. n - 1 : /\ A(i + 1) = Shift(A(i), Bit(a, i + 1))
                            /\ B(i + 1) = Shift(B(i), Bit(b, i + 1))
  <2>1. ASSUME NEW i \in 0 .. n - 1
        PROVE  A(i + 1) = Shift(A(i), Bit(a, i + 1)) /\ B(i + 1) = Shift(B(i), Bit(b, i + 1))
    <3>1. PICK j \in Int : j = i + 1 /\ j \in 0 .. n /\ j # 0 /\ j - 1 = i
      <4>1. i + 1 \in 0 .. n /\ i + 1 # 0 /\ (i + 1) - 1 = i /\ i + 1 \in Int  BY <1>1
      <4>2. QED  BY <4>1, Zenon
    <3>2. Register(a)[j] = Shift(Register(a)[j - 1], Bit(a, j))  BY <1>1, <3>1, RegisterIs, SMT
    <3>3. Register(b)[j] = Shift(Register(b)[j - 1], Bit(b, j))  BY <1>1, <3>1, RegisterIs, SMT
    <3>4. QED  BY <3>1, <3>2, <3>3
  <2>2. QED  BY <2>1
<1> HIDE DEF A, B
\* The registers agree up to the first flipped bit, ...
<1>7. \A i \in 0 .. first - 1 : A(i) = B(i)
  <2> DEFINE T == {i \in 0 .. first - 1 : A(i) # B(i)}
  <2>1. ASSUME T # {}  PROVE FALSE
    <3>1. PICK m \in T : \A k \in T : m <= k
      <4>1. T \subseteq Nat  BY <1>2
      <4> HIDE DEF T
      <4>2. QED  BY <2>1, <4>1, LeastNumber
    <3>2. m \in 0 .. first - 1 /\ A(m) # B(m)  OBVIOUS
    <3>3. m # 0  BY <1>5, <3>2
    <3>4. PICK l \in Int : l = m - 1 /\ l \in 0 .. n - 1 /\ l \in 0 .. first - 1 /\ l + 1 = m
                           /\ l + 1 \in 1 .. n /\ ~(l + 1 \in first .. first + 15) /\ ~(m <= l)
      <4>1. m - 1 \in Int /\ m - 1 \in 0 .. n - 1 /\ m - 1 \in 0 .. first - 1
            /\ (m - 1) + 1 = m /\ (m - 1) + 1 \in 1 .. n
            /\ ~((m - 1) + 1 \in first .. first + 15) /\ ~(m <= m - 1)
        BY <1>2, <3>2, <3>3
      <4>2. QED  BY <4>1, Zenon
    <3>5. A(l) = B(l)  BY <3>1, <3>4
    <3>6. Bit(a, l + 1) = Bit(b, l + 1)  BY <1>2, <3>4
    <3>7. A(l + 1) = B(l + 1)  BY <1>6, <3>4, <3>5, <3>6
    <3>8. QED  BY <3>2, <3>4, <3>7
  <2>2. QED  BY <2>1
\* ... where they get different lowest bits.
<1>8. A(first) % 2 # B(first) % 2
  <2>1. PICK f \in Int : f = first - 1 /\ f \in 0 .. n - 1 /\ f \in 0 .. first - 1
                         /\ f + 1 = first /\ f \in 0 .. n
    <3>1. first - 1 \in Int /\ first - 1 \in 0 .. n - 1 /\ first - 1 \in 0 .. first - 1
          /\ (first - 1) + 1 = first /\ first - 1 \in 0 .. n
      BY <1>2
    <3>2. QED  BY <3>1, Zenon
  <2>2. PICK c \in Word : c = A(f) /\ c = B(f)  BY <1>4, <1>7, <2>1
  <2>3. A(first) = Shift(c, Bit(a, first)) /\ B(first) = Shift(c, Bit(b, first))
    BY <1>6, <2>1, <2>2
  <2>4. Bit(a, first) \in {0, 1} /\ Bit(b, first) \in {0, 1}  BY <1>2, <1>3
  <2>5. Top(c) \in {0, 1}  BY DEF Top, Word
  <2>6. QED  BY <1>2, <2>3, <2>4, <2>5, Parity
<1>9. SUFFICES ASSUME A(n) = B(n)  PROVE FALSE
  BY <1>1 DEF Calculate, A, B
\* Behind the last flipped bit the registers stay different, ...
<1>10. \A i \in first + 15 .. n : A(i) = B(i)
  <2> DEFINE T == {k \in 0 .. n : n - k >= first + 15 /\ A(n - k) # B(n - k)}
  <2>1. ASSUME T # {}  PROVE FALSE
    <3>1. PICK m \in T : \A k \in T : m <= k
      <4>1. T \subseteq Nat  BY <1>1
      <4> HIDE DEF T
      <4>2. QED  BY <2>1, <4>1, LeastNumber
    <3>2. m \in 0 .. n /\ n - m >= first + 15 /\ A(n - m) # B(n - m)  OBVIOUS
    <3>3. m # 0
      <4>1. m = 0 => n - m = n  BY <1>1
      <4>2. QED  BY <1>9, <3>2, <4>1
    <3>4. PICK l \in Int : /\ l = n - m /\ l \in 0 .. n - 1 /\ l \in 0 .. n
                           /\ l + 1 = n - (m - 1) /\ m - 1 \in 0 .. n
                           /\ l + 1 >= first + 15 /\ ~(m <= m - 1)
                           /\ l + 1 \in 1 .. n /\ ~(l + 1 \in first .. first + 15)
      <4>1. /\ n - m \in 0 .. n - 1 /\ n - m \in Int /\ n - m \in 0 .. n
            /\ (n - m) + 1 = n - (m - 1)
            /\ m - 1 \in 0 .. n /\ (n - m) + 1 >= first + 15 /\ ~(m <= m - 1)
            /\ (n - m) + 1 \in 1 .. n /\ ~((n - m) + 1 \in first .. first + 15)
        BY <1>1, <1>2, <3>2, <3>3
      <4>2. QED  BY <4>1, Zenon
    <3>5. A(l + 1) = B(l + 1)
      <4>1. ~(m - 1 \in T)  BY <3>1, <3>4
      <4>2. QED  BY <3>4, <4>1
    <3>6. Bit(a, l + 1) = Bit(b, l + 1)  BY <1>2, <3>4
    <3>7. A(l) = B(l)
      <4>1. PICK bit \in {0, 1} : bit = Bit(a, l + 1) /\ bit = Bit(b, l + 1)
        BY <1>3, <3>4, <3>6
      <4>2. PICK c \in Word, d \in Word : c = A(l) /\ d = B(l)  BY <1>4, <3>4
      <4>3. Shift(c, bit) = Shift(d, bit)  BY <1>6, <3>4, <3>5, <4>1, <4>2
      <4>4. QED  BY <4>2, <4>3, ShiftInjective
    <3>8. QED  BY <3>2, <3>4, <3>7
  <2>2. ASSUME NEW i \in first + 15 .. n  PROVE A(i) = B(i)
    <3>1. PICK k \in Int : k = n - i /\ k \in 0 .. n /\ n - k = i /\ n - k >= first + 15
      <4>1. /\ n - i \in Int /\ n - i \in 0 .. n /\ n - (n - i) = i
            /\ n - (n - i) >= first + 15
        BY <1>1, <1>2
      <4>2. QED  BY <4>1, Zenon
    <3>2. QED  BY <2>1, <3>1
  <2>3. QED  BY <2>2
\* ... and in front of it they agree in fewer and fewer low bits, but never in none.
<1>11. PICK last \in first .. n : last <= first + 15 /\ A(last) = B(last)
  <2>1. CASE n <= first + 15
    <3>1. n \in first .. n  BY <1>2
    <3>2. QED  BY <1>9, <2>1, <3>1
  <2>2. CASE ~(n <= first + 15)
    <3>1. first + 15 \in first .. n /\ first + 15 \in first + 15 .. n
          /\ first + 15 <= first + 15
      BY <1>2, <2>2
    <3>2. QED  BY <1>10, <3>1
  <2>3. QED  BY <2>1, <2>2
<1> DEFINE Agree(k) == A(last - k) % Power[k + 1] = B(last - k) % Power[k + 1]
<1>12. \A k \in 0 .. last - first : Agree(k)
  <2> DEFINE T == {k \in 0 .. last - first : ~Agree(k)}
  <2>1. ASSUME T # {}  PROVE FALSE
    <3>1. PICK m \in T : \A k \in T : m <= k
      <4> HIDE DEF Agree
      <4>1. T \subseteq Nat  OBVIOUS
      <4> HIDE DEF T
      <4>2. QED  BY <2>1, <4>1, LeastNumber
    <3>2. m \in 0 .. last - first /\ ~Agree(m)  OBVIOUS
    <3>3. m # 0
      <4>1. last - 0 = last  BY <1>11
      <4>2. Agree(0)  BY <1>11, <4>1
      <4>3. QED  BY <3>2, <4>2
    <3>4. PICK l \in Int, k \in Int :
            /\ l = last - m /\ l + 1 = last - k /\ l \in 0 .. n - 1 /\ l \in 0 .. n
            /\ l + 1 \in 1 .. n /\ l + 1 \in 0 .. n
            /\ m = k + 1 /\ k \in 0 .. last - first /\ ~(m <= k)
            /\ k + 1 \in 1 .. 16 /\ k + 1 < 16
      <4>1. /\ last - m \in Int /\ m - 1 \in Int
            /\ (last - m) + 1 = last - (m - 1) /\ last - m \in 0 .. n - 1
            /\ last - m \in 0 .. n /\ (last - m) + 1 \in 1 .. n /\ (last - m) + 1 \in 0 .. n
            /\ m = (m - 1) + 1
            /\ m - 1 \in 0 .. last - first /\ ~(m <= m - 1)
            /\ (m - 1) + 1 \in 1 .. 16 /\ (m - 1) + 1 < 16
        BY <1>1, <1>2, <1>11, <3>2, <3>3
      <4>2. QED  BY <4>1, Zenon
    <3>5. PICK p \in Powers : p = Power[k + 1] /\ Power[m + 1] = p \div 2
      <4>1. PICK q \in 1 .. 16 : q = k + 1 /\ q < 16 /\ q + 1 = m + 1  BY <3>4
      <4>2. QED  BY <4>1, PowerIs
    <3>6. A(l + 1) % p = B(l + 1) % p
      <4> HIDE DEF Agree
      <4>1. Agree(k)  BY <3>1, <3>4
      <4>2. QED  BY <3>4, <3>5, <4>1 DEF Agree
    <3>7. PICK c \in Word, d \in Word : c = A(l) /\ d = B(l)  BY <1>4, <3>4
    <3>8. PICK x \in {0, 1}, y \in {0, 1} : x = Bit(a, l + 1) /\ y = Bit(b, l + 1)
      BY <1>3, <3>4
    <3>9. Shift(c, x) % p = Shift(d, y) % p  BY <1>6, <3>4, <3>6, <3>7, <3>8
    <3>10. c % (p \div 2) = d % (p \div 2)  BY <3>9, LowBits
    <3>11. QED  BY <3>2, <3>4, <3>5, <3>7, <3>10
  <2>2. QED  BY <2>1
<1>13. PICK h \in Int : h = last - first /\ h \in 0 .. last - first /\ last - h = first
                       /\ h + 1 \in 1 .. 16
  <2>1. last - first \in Int /\ last - first \in 0 .. last - first
        /\ last - (last - first) = first /\ (last - first) + 1 \in 1 .. 16
    BY <1>2, <1>11
  <2>2. QED  BY <2>1, Zenon
<1>14. A(first) % Power[h + 1] = B(first) % Power[h + 1]
  <2>1. Agree(h)  BY <1>12, <1>13
  <2>2. QED  BY <1>13, <2>1
<1>15. A(first) \in Word /\ B(first) \in Word
  <2>1. first \in 0 .. n  BY <1>2
  <2>2. QED  BY <1>4, <2>1
<1>16. A(first) % 2 = B(first) % 2
  <2>1. PICK q \in 1 .. 16 : q = h + 1  BY <1>13
  <2>2. QED  BY <1>14, <1>15, <2>1, PowerIs
<1>17. QED  BY <1>8, <1>16

\* The one bits of a word.
BitAt(x, m) == (x \div m) % 2
Ones(x) ==
    BitAt(x, 1) + BitAt(x, 2) + BitAt(x, 4) + BitAt(x, 8) + BitAt(x, 16) + BitAt(x, 32)
    + BitAt(x, 64) + BitAt(x, 128) + BitAt(x, 256) + BitAt(x, 512) + BitAt(x, 1024)
    + BitAt(x, 2048) + BitAt(x, 4096) + BitAt(x, 8192) + BitAt(x, 16384) + BitAt(x, 32768)

LEMMA BitType == \A x \in Word, m \in Powers \cup {1} : BitAt(x, m) \in {0, 1}
<1>1. \A x \in Nat, w \in Nat \ {0} : (x \div w) % 2 \in {0, 1}  OBVIOUS
<1>2. \A m \in Powers \cup {1} : m \in Nat \ {0}  BY DEF Powers
<1>3. ASSUME NEW x \in Word, NEW m \in Powers \cup {1}  PROVE BitAt(x, m) \in {0, 1}
  <2>1. x \in Nat /\ m \in Nat \ {0}  BY <1>2 DEF Word
  <2>2. QED  BY <1>1, <2>1 DEF BitAt
<1>4. QED  BY <1>3

LEMMA OnesType ==
  ASSUME NEW x \in Word
  PROVE  Ones(x) \in Int
<1>1. \A m \in Powers \cup {1} : BitAt(x, m) \in Int  BY BitType
<1>2. QED  BY <1>1 DEF Ones, Powers

LEMMA OnesDouble ==
  ASSUME NEW c \in Word
  PROVE  Ones((2 * c) % 65536) + Top(c) = Ones(c)
<1>1. PICK s \in Word : s = (2 * c) % 65536  BY DEF Word
<1>2. /\ BitAt(s, 1) = 0 /\ BitAt(s, 2) = BitAt(c, 1) /\ BitAt(s, 4) = BitAt(c, 2)
      /\ BitAt(s, 8) = BitAt(c, 4) /\ BitAt(s, 16) = BitAt(c, 8)
      /\ BitAt(s, 32) = BitAt(c, 16) /\ BitAt(s, 64) = BitAt(c, 32)
      /\ BitAt(s, 128) = BitAt(c, 64) /\ BitAt(s, 256) = BitAt(c, 128)
      /\ BitAt(s, 512) = BitAt(c, 256) /\ BitAt(s, 1024) = BitAt(c, 512)
      /\ BitAt(s, 2048) = BitAt(c, 1024) /\ BitAt(s, 4096) = BitAt(c, 2048)
      /\ BitAt(s, 8192) = BitAt(c, 4096) /\ BitAt(s, 16384) = BitAt(c, 8192)
      /\ BitAt(s, 32768) = BitAt(c, 16384) /\ Top(c) = BitAt(c, 32768)
  <2>1. PICK d \in Nat : d = c % 32768 /\ c = 32768 * Top(c) + d /\ s = 2 * d /\ d < 32768
    BY <1>1 DEF Word, Top
  <2>2. Top(c) \in {0, 1} /\ Top(c) = BitAt(c, 32768)  BY DEF Word, Top, BitAt
  <2>3. PICK h \in {0, 1} : c = 32768 * h + d  BY <2>1, <2>2
  <2>4. /\ BitAt(d, 1) = BitAt(c, 1) /\ BitAt(d, 2) = BitAt(c, 2)
        /\ BitAt(d, 4) = BitAt(c, 4) /\ BitAt(d, 8) = BitAt(c, 8)
        /\ BitAt(d, 16) = BitAt(c, 16) /\ BitAt(d, 32) = BitAt(c, 32)
        /\ BitAt(d, 64) = BitAt(c, 64) /\ BitAt(d, 128) = BitAt(c, 128)
    BY <2>3 DEF BitAt
  <2>5. /\ BitAt(d, 256) = BitAt(c, 256) /\ BitAt(d, 512) = BitAt(c, 512)
        /\ BitAt(d, 1024) = BitAt(c, 1024) /\ BitAt(d, 2048) = BitAt(c, 2048)
        /\ BitAt(d, 4096) = BitAt(c, 4096) /\ BitAt(d, 8192) = BitAt(c, 8192)
        /\ BitAt(d, 16384) = BitAt(c, 16384)
    BY <2>3 DEF BitAt
  <2>6. /\ BitAt(s, 1) = 0 /\ BitAt(s, 2) = BitAt(d, 1) /\ BitAt(s, 4) = BitAt(d, 2)
        /\ BitAt(s, 8) = BitAt(d, 4) /\ BitAt(s, 16) = BitAt(d, 8)
        /\ BitAt(s, 32) = BitAt(d, 16) /\ BitAt(s, 64) = BitAt(d, 32)
        /\ BitAt(s, 128) = BitAt(d, 64)
    BY <2>1 DEF BitAt
  <2>7. /\ BitAt(s, 256) = BitAt(d, 128) /\ BitAt(s, 512) = BitAt(d, 256)
        /\ BitAt(s, 1024) = BitAt(d, 512) /\ BitAt(s, 2048) = BitAt(d, 1024)
        /\ BitAt(s, 4096) = BitAt(d, 2048) /\ BitAt(s, 8192) = BitAt(d, 4096)
        /\ BitAt(s, 16384) = BitAt(d, 8192) /\ BitAt(s, 32768) = BitAt(d, 16384)
    BY <2>1 DEF BitAt
  <2>8. QED  BY <2>2, <2>4, <2>5, <2>6, <2>7
<1>3. \A m \in Powers \cup {1} : BitAt(c, m) \in Int  BY BitType
<1>4. QED  BY <1>1, <1>2, <1>3 DEF Ones, Powers

\* A flip changes one bit.
LEMMA FlipsOne ==
  ASSUME NEW x \in Word, NEW weight \in {1, 32, 4096}
  PROVE  /\ Flip(x, weight) \in Word
         /\ Ones(Flip(x, weight)) \in {Ones(x) - 1, Ones(x) + 1}
<1>0. Flip(x, weight) \in Word  BY DEF Flip, Word
<1>1. PICK y \in Word : y = Flip(x, weight)  BY <1>0
<1>2. \A m \in (Powers \cup {1}) \ {weight, 65536} : BitAt(y, m) = BitAt(x, m)
  <2>1. CASE weight = 1
    <3>1. \A m \in {2, 4, 8, 16, 32, 64, 128} : BitAt(y, m) = BitAt(x, m)
      BY <1>1, <2>1 DEF BitAt, Flip, Word
    <3>2. \A m \in {256, 512, 1024, 2048, 4096} : BitAt(y, m) = BitAt(x, m)
      BY <1>1, <2>1 DEF BitAt, Flip, Word
    <3>3. \A m \in {8192, 16384, 32768} : BitAt(y, m) = BitAt(x, m)
      BY <1>1, <2>1 DEF BitAt, Flip, Word
    <3>4. QED  BY <2>1, <3>1, <3>2, <3>3 DEF Powers
  <2>2. CASE weight = 32
    <3>1. \A m \in {1, 2, 4, 8, 16} : BitAt(y, m) = BitAt(x, m)
      BY <1>1, <2>2 DEF BitAt, Flip, Word
    <3>2. PICK h \in Nat : x \div 64 = h /\ y \div 64 = h
      BY <1>1, <2>2 DEF Flip, Word
    <3>3. /\ \A z \in Nat : /\ z \div 64 = (z \div 64) \div 1
                           /\ z \div 128 = (z \div 64) \div 2
                           /\ z \div 256 = (z \div 64) \div 4
                           /\ z \div 512 = (z \div 64) \div 8
                           /\ z \div 1024 = (z \div 64) \div 16
      OBVIOUS
    <3>4. /\ \A z \in Nat : /\ z \div 2048 = (z \div 64) \div 32
                           /\ z \div 4096 = (z \div 64) \div 64
                           /\ z \div 8192 = (z \div 64) \div 128
                           /\ z \div 16384 = (z \div 64) \div 256
                           /\ z \div 32768 = (z \div 64) \div 512
      OBVIOUS
    <3>5. x \in Nat /\ y \in Nat  BY DEF Word
    <3>6. \A m \in Powers \ {2, 4, 8, 16, 32, 65536} : x \div m = y \div m
      BY <3>2, <3>3, <3>4, <3>5 DEF Powers
    <3>7. QED  BY <2>2, <3>1, <3>6 DEF Powers, BitAt
  <2>3. CASE weight = 4096
    <3>1. \A m \in {1, 2, 4, 8, 16, 32} : BitAt(y, m) = BitAt(x, m)
      BY <1>1, <2>3 DEF BitAt, Flip, Word
    <3>2. \A m \in {64, 128, 256, 512, 1024, 2048} : BitAt(y, m) = BitAt(x, m)
      BY <1>1, <2>3 DEF BitAt, Flip, Word
    <3>3. \A m \in {8192, 16384, 32768} : BitAt(y, m) = BitAt(x, m)
      BY <1>1, <2>3 DEF BitAt, Flip, Word
    <3>4. QED  BY <2>3, <3>1, <3>2, <3>3 DEF Powers
  <2>4. QED  BY <2>1, <2>2, <2>3
<1>3. BitAt(y, weight) # BitAt(x, weight)
  <2>1. CASE weight = 1   BY <1>1, <2>1 DEF BitAt, Flip, Word
  <2>2. CASE weight = 32  BY <1>1, <2>2 DEF BitAt, Flip, Word
  <2>3. CASE weight = 4096  BY <1>1, <2>3 DEF BitAt, Flip, Word
  <2>4. QED  BY <2>1, <2>2, <2>3
<1>4. \A m \in Powers \cup {1} : BitAt(x, m) \in {0, 1} /\ BitAt(y, m) \in {0, 1}  BY BitType
<1>5. weight \in Powers \cup {1} /\ BitAt(x, weight) \in {0, 1} /\ BitAt(y, weight) \in {0, 1}
  BY <1>4 DEF Powers
<1>6. Ones(y) - Ones(x) = BitAt(y, weight) - BitAt(x, weight)
  <2>1. CASE weight = 1   BY <1>2, <1>4, <2>1 DEF Ones, Powers
  <2>2. CASE weight = 32  BY <1>2, <1>4, <2>2 DEF Ones, Powers
  <2>3. CASE weight = 4096  BY <1>2, <1>4, <2>3 DEF Ones, Powers
  <2>4. QED  BY <2>1, <2>2, <2>3
<1>7. Ones(x) \in Int /\ Ones(y) \in Int  BY OnesType
<1>8. QED  BY <1>1, <1>3, <1>5, <1>6, <1>7

\* The polynomial has four terms: a step changes the parity of the register by the bit it takes.
LEMMA ShiftParity ==
  ASSUME NEW c \in Word, NEW bit \in {0, 1}
  PROVE  Ones(Shift(c, bit)) % 2 = (Ones(c) + bit) % 2
<1>1. PICK s \in Word : s = (2 * c) % 65536  BY DEF Word
<1>2. PICK t \in Word : t = Flip(s, 1) /\ Ones(t) \in {Ones(s) - 1, Ones(s) + 1}  BY FlipsOne
<1>3. PICK u \in Word : u = Flip(t, 32) /\ Ones(u) \in {Ones(t) - 1, Ones(t) + 1}  BY FlipsOne
<1>4. PICK v \in Word : v = Flip(u, 4096) /\ Ones(v) \in {Ones(u) - 1, Ones(u) + 1}  BY FlipsOne
<1>5. Shift(c, bit) = IF Top(c) = bit THEN s ELSE v
  BY <1>1, <1>2, <1>3, <1>4 DEF Shift, Top
<1>6. Ones(s) + Top(c) = Ones(c) /\ Top(c) \in {0, 1}  BY <1>1, OnesDouble DEF Top, Word
<1>7. Ones(s) \in Int /\ Ones(c) \in Int /\ Ones(t) \in Int /\ Ones(u) \in Int /\ Ones(v) \in Int
  BY OnesType
<1>8. CASE Top(c) = bit  BY <1>5, <1>6, <1>7, <1>8
<1>9. CASE Top(c) # bit  BY <1>2, <1>3, <1>4, <1>5, <1>6, <1>7, <1>9
<1>10. QED  BY <1>8, <1>9

\* The flips in the first bits, one more bit at a time.
LEMMA FlipsBefore ==
  ASSUME NEW n \in Nat, NEW bits, bits \subseteq 1 .. n, NEW i \in 1 .. n
  PROVE  /\ IsFiniteSet(bits)
         /\ Cardinality(bits \cap (1 .. i)) \in Nat
         /\ Cardinality(bits \cap (1 .. i - 1)) \in Nat
         /\ Cardinality(bits \cap (1 .. i)) = IF i \in bits
                                            THEN Cardinality(bits \cap (1 .. i - 1)) + 1
                                            ELSE Cardinality(bits \cap (1 .. i - 1))
<1> DEFINE FirstFlips(k) == bits \cap (1 .. k)
<1>1. IsFiniteSet(bits)
  <2>1. IsFiniteSet(1 .. n)  BY FS_Interval
  <2>2. QED  BY <2>1, FS_Subset
<1>2. IsFiniteSet(FirstFlips(i)) /\ IsFiniteSet(FirstFlips(i - 1))  BY <1>1, FS_Subset
<1>3. Cardinality(FirstFlips(i)) \in Nat /\ Cardinality(FirstFlips(i - 1)) \in Nat
  BY <1>2, FS_CardinalityType
<1>4. CASE i \in bits
  <2>1. FirstFlips(i) = FirstFlips(i - 1) \cup {i} /\ i \notin FirstFlips(i - 1)  BY <1>4
  <2>2. QED  BY <1>1, <1>2, <1>3, <1>4, <2>1, FS_AddElement
<1>5. CASE i \notin bits
  <2>1. FirstFlips(i) = FirstFlips(i - 1)  BY <1>5
  <2>2. QED  BY <1>1, <1>3, <1>5, <2>1
<1>6. QED  BY <1>4, <1>5

\* Two byte sequences that differ in an odd number of bits have different CRCs.
LEMMA OddChanges ==
  ASSUME NEW a \in Seq(Byte), NEW b \in Seq(Byte), Len(a) = Len(b),
         NEW bits, bits \subseteq 1 .. 8 * Len(a), Cardinality(bits) % 2 = 1,
         \A i \in 1 .. 8 * Len(a) : Bit(a, i) # Bit(b, i) <=> i \in bits
  PROVE  Calculate(a) # Calculate(b)
<1>1. PICK n \in Nat : n = 8 * Len(a) /\ n = 8 * Len(b)  BY BitsOf
<1> DEFINE A(i) == Register(a)[i]
           B(i) == Register(b)[i]
           D(i) == Cardinality(bits \cap (1 .. i))
           Even(i) == (Ones(A(i)) + Ones(B(i)) + D(i)) % 2 = 0
<1>2. bits \subseteq 1 .. n  BY <1>1
<1>3. \A i \in 0 .. n : /\ A(i) \in Word /\ B(i) \in Word
                        /\ Ones(A(i)) \in Int /\ Ones(B(i)) \in Int
  BY <1>1, RegisterType, OnesType
<1>4. Even(0)
  <2>1. 0 \in 0 .. n  OBVIOUS
  <2>2. A(0) = B(0)  BY <1>1, <2>1, RegisterIs, SMT
  <2>3. bits \cap (1 .. 0) = {}  OBVIOUS
  <2>4. D(0) = 0  BY <2>3, FS_EmptySet
  <2>5. Ones(A(0)) \in Int /\ Ones(B(0)) = Ones(A(0))  BY <1>3, <2>1, <2>2
  <2> HIDE DEF A, B, D
  <2>6. QED  BY <2>4, <2>5
<1>5. ASSUME NEW i \in 1 .. n, Even(i - 1)  PROVE Even(i)
  <2>1. i \in 0 .. n /\ i - 1 \in 0 .. n /\ i # 0  BY <1>5
  <2>2. PICK x \in {0, 1}, y \in {0, 1} : x = Bit(a, i) /\ y = Bit(b, i)  BY <1>1, BitsOf
  <2>3. A(i) = Shift(A(i - 1), x) /\ B(i) = Shift(B(i - 1), y)
    <3>1. /\ 8 * Len(a) \in Nat /\ i \in 0 .. 8 * Len(a)
          /\ 8 * Len(b) \in Nat /\ i \in 0 .. 8 * Len(b)
      BY <1>1, <2>1
    <3>2. Register(a)[i] = Shift(Register(a)[i - 1], Bit(a, i))  BY <2>1, <3>1, RegisterIs
    <3>3. Register(b)[i] = Shift(Register(b)[i - 1], Bit(b, i))  BY <2>1, <3>1, RegisterIs
    <3>4. QED  BY <2>2, <3>2, <3>3
  <2>4. x # y <=> i \in bits  BY <1>1, <2>2
  <2>5. D(i - 1) \in Nat /\ D(i) = IF x # y THEN D(i - 1) + 1 ELSE D(i - 1)
    BY <1>2, <2>4, FlipsBefore
  <2>6. PICK c \in Word, d \in Word : c = A(i - 1) /\ d = B(i - 1)  BY <1>3, <2>1
  <2>7. Ones(A(i)) % 2 = (Ones(c) + x) % 2  BY <2>3, <2>6, ShiftParity
  <2>8. Ones(B(i)) % 2 = (Ones(d) + y) % 2  BY <2>3, <2>6, ShiftParity
  <2>9. PICK p \in Int, q \in Int, r \in Int, s \in Int, k \in Int :
          /\ p = Ones(A(i)) /\ q = Ones(B(i)) /\ r = Ones(c) /\ s = Ones(d) /\ k = D(i - 1)
    <3>1. /\ Ones(A(i)) \in Int /\ Ones(B(i)) \in Int /\ D(i - 1) \in Int
          /\ Ones(c) \in Int /\ Ones(d) \in Int
      BY <1>3, <2>1, <2>5, OnesType
    <3>2. QED  BY <3>1, Zenon
  <2>10. (r + s + k) % 2 = 0  BY <1>5, <2>6, <2>9
  <2>11. p % 2 = (r + x) % 2 /\ q % 2 = (s + y) % 2  BY <2>7, <2>8, <2>9
  <2>12. (p + q + (IF x # y THEN k + 1 ELSE k)) % 2 = 0
    <3>1. \A g, h \in Int : g % 2 = h % 2 => g = h + 2 * ((g \div 2) - (h \div 2))  OBVIOUS
    <3>2. PICK u \in Int : p = r + x + 2 * u
      <4>1. r + x \in Int /\ (p \div 2) - ((r + x) \div 2) \in Int  BY <2>2
      <4>2. QED  BY <2>11, <3>1, <4>1
    <3>3. PICK v \in Int : q = s + y + 2 * v
      <4>1. s + y \in Int /\ (q \div 2) - ((s + y) \div 2) \in Int  BY <2>2
      <4>2. QED  BY <2>11, <3>1, <4>1
    <3>4. PICK w \in Int : r + s + k = 2 * w
      <4>1. (r + s + k) \div 2 \in Int  OBVIOUS
      <4>2. r + s + k = 2 * ((r + s + k) \div 2)  BY <2>10
      <4>3. QED  BY <4>1, <4>2
    <3>5. \A z \in Int : (2 * z) % 2 = 0  OBVIOUS
    <3>6. CASE x = y
      <4>1. x \in Int  BY <2>2
      <4>2. p + q + k = 2 * (u + v + w + x)  BY <3>2, <3>3, <3>4, <3>6, <4>1
      <4>3. u + v + w + x \in Int  BY <4>1
      <4>4. QED  BY <3>5, <3>6, <4>2, <4>3
    <3>7. CASE x # y
      <4>1. x \in Int /\ y \in Int /\ x + y = 1  BY <2>2, <3>7
      <4>2. p + q + (k + 1) = 2 * (u + v + w + 1)  BY <3>2, <3>3, <3>4, <4>1
      <4>3. u + v + w + 1 \in Int  OBVIOUS
      <4>4. QED  BY <3>5, <3>7, <4>2, <4>3
    <3>8. QED  BY <3>6, <3>7
  <2>13. QED  BY <2>5, <2>9, <2>12
<1>6. Even(n)
  <2> DEFINE T == {i \in 0 .. n : ~Even(i)}
  <2>1. ASSUME T # {}  PROVE FALSE
    <3>1. PICK m \in T : \A k \in T : m <= k
      <4>1. T \subseteq Nat  OBVIOUS
      <4> HIDE DEF T
      <4>2. QED  BY <2>1, <4>1, LeastNumber
    <3> HIDE DEF Even
    <3>2. m \in 0 .. n /\ ~Even(m) /\ m # 0  BY <1>4
    <3>3. m \in 1 .. n /\ m - 1 \in 0 .. n /\ ~(m <= m - 1)  BY <3>2
    <3>4. Even(m - 1)  BY <3>1, <3>3
    <3>5. QED  BY <1>5, <3>2, <3>3, <3>4
  <2> HIDE DEF Even
  <2>2. QED  BY <2>1
<1>7. D(n) = Cardinality(bits)
  <2>1. bits \cap (1 .. n) = bits  BY <1>2
  <2>2. QED  BY <2>1
<1>8. n \in 0 .. n  OBVIOUS
<1>9. ASSUME A(n) = B(n)  PROVE FALSE
  <2>1. PICK p \in Int : p = Ones(A(n)) /\ p = Ones(B(n))  BY <1>3, <1>8, <1>9
  <2>2. Cardinality(bits) \in Nat
    <3>1. IsFiniteSet(1 .. n)  BY FS_Interval
    <3>2. QED  BY <1>2, <3>1, FS_Subset, FS_CardinalityType
  <2>3. PICK k \in Nat : k = Cardinality(bits) /\ k % 2 = 1 /\ (p + p + k) % 2 = 0
    BY <1>6, <1>7, <2>1, <2>2
  <2>4. QED  BY <2>2, <2>3
<1>10. QED  BY <1>1, <1>9 DEF Calculate

LEMMA DamagesAre ==
  ASSUME NEW n \in Nat, NEW bits \in Damages(n)
  PROVE  bits \subseteq 1 .. 8 * n
<1>1. PICK all : all = 1 .. 8 * n  OBVIOUS
<1>2. \/ bits = {}
      \/ \E a, b \in all : bits = {a, b}
      \/ \E first \in all :
           \E s \in SUBSET ((first + 1 .. first + MaxBurst - 1) \cap all) : bits = {first} \cup s
      \/ \E a, b, c \in all : bits = {a, b, c}
  BY <1>1, SMTT(20) DEF Damages
<1>3. bits \subseteq all  BY <1>2
<1>4. QED  BY <1>1, <1>3

\* The front of a message with its CRC is the message.
LEMMA FrontIs ==
  ASSUME NEW bytes \in Seq(Byte), NEW n \in Int, n = Len(WithCrc(bytes)) - 2
  PROVE  n >= 0 /\ n = Len(bytes) /\ SubSeq(WithCrc(bytes), 1, n) = bytes
<1>1. Len(bytes) \in Nat /\ \A i \in 1 .. Len(bytes) : bytes[i] \in Byte
  BY LenProperties, ElementOfSeq
<1>2. PICK w \in Seq(Byte) : /\ w = WithCrc(bytes) /\ Len(w) = Len(bytes) + 2
                             /\ \A i \in 1 .. Len(bytes) : w[i] = bytes[i]
  BY WithCrcIs
<1>3. n >= 0 /\ n = Len(bytes)  BY <1>1, <1>2
<1>4. PICK s : s = SubSeq(w, 1, n)  OBVIOUS
<1>5. s \in Seq(Byte) /\ Len(s) = n /\ \A i \in 1 .. n : s[i] = w[i]
  <2>1. \A i \in 1 .. n : w[i] \in Byte  BY <1>1, <1>2, <1>3
  <2>2. QED  BY <1>3, <1>4, <2>1, SubSeqProperties
<1>6. \A i \in 1 .. Len(s) : s[i] = bytes[i]  BY <1>2, <1>3, <1>5
<1>7. s = bytes  BY <1>3, <1>5, <1>6, SameBytes
<1>8. QED  BY <1>2, <1>3, <1>4, <1>7

LEMMA HeaderBytes ==
  ASSUME NEW h \in Headers
  PROVE  /\ toBytes(h) \in Seq(Byte)
         /\ bindTwobytes(toBytes(h)[3], toBytes(h)[4]) = h.payloadLenght
<1>1. h.version \in Byte /\ h.flags \in Byte /\ h.payloadLenght \in UInt16
  BY HeaderAssumption, Zenon DEF HeaderAssumption
<1>2. PICK c \in Word : c = h.payloadLenght  BY <1>1, UInt16Is
<1>3. /\ getHighByte(c) \in Byte /\ getLowByte(c) \in Byte
      /\ bindTwobytes(getHighByte(c), getLowByte(c)) = c
  BY CrcBytesAre
<1>4. toBytes(h) = <<h.version, h.flags, getHighByte(c), getLowByte(c)>>
  BY <1>2 DEF toBytes
<1>5. QED  BY <1>1, <1>2, <1>3, <1>4

-----------------------------------------------------------------------------
(* The invariant: what the last call was given and what it answered.       *)

CallTypeInv ==
    /\ phase \in {"idle", "added", "sent", "removed", "stray", "judged"}
    /\ message \in Seq(Byte) /\ line \in Seq(Byte)
    /\ header # NoHeader => header \in Headers /\ message = toBytes(header)
    /\ result.error \in {"none", "InputBufferTooSmall", "OutputBufferTooSmall", "CrcMismatch"}
    /\ result.buffer \in Seq(Byte) /\ result.size \in 0 .. Len(result.buffer)

AddedInv == phase = "added" => before \in Buffers /\ result = addCRC(message, before)

LineInv ==
    phase \in {"sent", "removed"} =>
        /\ message # << >> /\ line = Damaged(WithCrc(message), flips)
        /\ flips \subseteq 1 .. 8 * Len(line)

RemovedInv ==
    phase \in {"removed", "judged"} => before \in Buffers /\ result = removeCRC(line, before)

CallInv == CallTypeInv /\ AddedInv /\ LineInv /\ RemovedInv
LEMMA CallInit == Init => CallInv
<1> SUFFICES ASSUME Init  PROVE CallInv
  OBVIOUS
<1>1. message \in Seq(Byte) /\ (header # NoHeader => header \in Headers /\ message = toBytes(header))
  <2>1. CASE header \in Headers
    <3>1. message = toBytes(header)  BY <2>1 DEF Init
    <3>2. QED  BY <2>1, <3>1, HeaderBytes
  <2>2. CASE ~(header \in Headers)
    <3>1. header = NoHeader /\ message \in Messages  BY <2>2 DEF Init
    <3>2. QED  BY <3>1, MessageAssumption DEF MessageAssumption
  <2>3. QED  BY <2>1, <2>2
<1>2. line = << >> /\ << >> \in Seq(Byte) /\ Len(<< >>) = 0  BY DEF Init
<1>3. result.error = "none" /\ result.size = 0 /\ result.buffer = << >>
  BY DEF Init, Success
<1>4. phase = "idle"  BY DEF Init
<1>5. QED  BY <1>1, <1>2, <1>3, <1>4 DEF CallInv, CallTypeInv, AddedInv, LineInv, RemovedInv

LEMMA CallStep == CallInv /\ [Next]_vars => CallInv'
<1> SUFFICES ASSUME CallInv, [Next]_vars  PROVE CallInv'
  OBVIOUS
<1> USE DEF CallInv
<1>1. CASE AddCRC
  <2>1. before' \in Buffers /\ before' \in Seq(Byte)  BY <1>1, BufferType DEF AddCRC
  <2>2. /\ result' = addCRC(message, before') /\ phase' = "added"
        /\ message' = message /\ header' = header /\ line' = line
    BY <1>1 DEF AddCRC
  <2>3. Respects(result', before')  BY <2>1, <2>2, AddCrcIs DEF CallTypeInv
  <2>4. CallTypeInv'  BY <2>2, <2>3 DEF CallTypeInv, Respects
  <2>5. AddedInv'  BY <2>1, <2>2 DEF AddedInv
  <2>6. LineInv' /\ RemovedInv'  BY <2>2 DEF LineInv, RemovedInv
  <2>7. QED  BY <2>4, <2>5, <2>6
<1>2. CASE Send
  <2>1. /\ phase = "added" /\ result.error = "none" /\ phase' = "sent"
        /\ line' = Damaged(View(result), flips')
        /\ message' = message /\ header' = header /\ before' = before /\ result' = result
    BY <1>2 DEF Send, View
  <2>2. before \in Seq(Byte) /\ message \in Seq(Byte) /\ result = addCRC(message, before)
    BY <2>1, BufferType DEF CallTypeInv, AddedInv
  <2>3. message # << >> /\ View(result) = WithCrc(message)  BY <2>1, <2>2, AddCrcIs
  <2>4. PICK w \in Seq(Byte) : w = View(result) /\ w = WithCrc(message)
    BY <2>2, <2>3, WithCrcIs
  <2>5. line' \in Seq(Byte) /\ Len(line') = Len(w)  BY <2>1, <2>4, DamagedIs
  <2>6. flips' \subseteq 1 .. 8 * Len(line')
    <3>1. PICK n \in Nat : n = result.size /\ n = Len(w)
      <4>1. result.buffer \in Seq(Byte) /\ result.size \in 0 .. Len(result.buffer)
        BY DEF CallTypeInv
      <4>2. \A i \in 1 .. result.size : result.buffer[i] \in Byte
        BY <4>1, LenProperties, ElementOfSeq
      <4>3. result.size \in Nat  BY <4>1, LenProperties
      <4>4. Len(SubSeq(result.buffer, 1, result.size)) = result.size
        BY <4>2, <4>3, SubSeqProperties
      <4>5. QED  BY <2>4, <4>3, <4>4 DEF View
    <3>2. flips' \in Damages(n)  BY <1>2, <3>1 DEF Send
    <3>3. QED  BY <2>5, <3>1, <3>2, DamagesAre
  <2>7. LineInv'  BY <2>1, <2>3, <2>6 DEF LineInv, WithCrc
  <2>8. CallTypeInv'  BY <2>1, <2>5 DEF CallTypeInv
  <2>9. AddedInv' /\ RemovedInv'  BY <2>1 DEF AddedInv, RemovedInv
  <2>10. QED  BY <2>8, <2>9, <2>7
<1>3. CASE Stray
  <2>1. /\ phase' = "stray" /\ line' = message /\ message' = message /\ header' = header
        /\ result' = result
    BY <1>3 DEF Stray
  <2>2. CallTypeInv'  BY <2>1 DEF CallTypeInv
  <2>3. AddedInv' /\ LineInv' /\ RemovedInv'  BY <2>1 DEF AddedInv, LineInv, RemovedInv
  <2>4. QED  BY <2>2, <2>3
<1>4. CASE RemoveCRC
  <2>1. before' \in Buffers /\ before' \in Seq(Byte)  BY <1>4, BufferType DEF RemoveCRC
  <2>2. /\ phase \in {"sent", "stray"} /\ result' = removeCRC(line, before')
        /\ phase' = IF phase = "sent" THEN "removed" ELSE "judged"
        /\ message' = message /\ header' = header /\ line' = line /\ flips' = flips
    BY <1>4 DEF RemoveCRC
  <2>3. Respects(result', before')
    <3>1. line \in Seq(Byte)  BY DEF CallTypeInv
    <3>2. QED  BY <2>1, <2>2, <3>1, RemoveRespects
  <2>4. phase' \in {"removed", "judged"} /\ (phase' = "removed" => phase = "sent")  BY <2>2
  <2>5. CallTypeInv'  BY <2>2, <2>3, <2>4 DEF CallTypeInv, Respects
  <2>6. RemovedInv'  BY <2>1, <2>2 DEF RemovedInv
  <2>7. AddedInv'  BY <2>4 DEF AddedInv
  <2>8. LineInv'  BY <2>2, <2>4 DEF LineInv, WithCrc
  <2>9. QED  BY <2>5, <2>6, <2>7, <2>8
<1>5. CASE UNCHANGED vars
  BY <1>5 DEF vars, CallTypeInv, AddedInv, LineInv, RemovedInv, WithCrc
<1>6. QED  BY <1>1, <1>2, <1>3, <1>4, <1>5 DEF Next

LEMMA CallInvariant == Spec => []CallInv
<1>1. Init => CallInv  BY CallInit
<1>2. CallInv /\ [Next]_vars => CallInv'  BY CallStep
<1>3. QED  BY <1>1, <1>2, PTL DEF Spec

-----------------------------------------------------------------------------
\* Every answer is a view inside a buffer of bytes.
THEOREM TypeCorrect == Spec => []TypeOK
<1>1. CallInv => TypeOK  BY DEF CallInv, CallTypeInv, TypeOK
<1>2. QED  BY <1>1, CallInvariant, PTL

\* A call that fails leaves its buffer alone, one that succeeds what is behind its view
\* (std::memcpy in addCRC and removeCRC).
THEOREM BuffersRespected == Spec => []BufferRespected
<1>1. ASSUME CallInv  PROVE BufferRespected
  <2>1. CASE phase = "added"
    <3>1. /\ before \in Seq(Byte) /\ message \in Seq(Byte)
          /\ result = addCRC(message, before)
      BY <1>1, <2>1, BufferType DEF CallInv, CallTypeInv, AddedInv
    <3>2. Respects(result, before)  BY <3>1, AddCrcIs
    <3>3. QED  BY <3>2 DEF BufferRespected, Respects
  <2>2. CASE phase \in {"removed", "judged"}
    <3>1. /\ before \in Seq(Byte) /\ line \in Seq(Byte)
          /\ result = removeCRC(line, before)
      BY <1>1, <2>2, BufferType DEF CallInv, CallTypeInv, RemovedInv
    <3>2. Respects(result, before)  BY <3>1, RemoveRespects
    <3>3. QED  BY <3>2 DEF BufferRespected, Respects
  <2>3. QED  BY <2>1, <2>2 DEF BufferRespected
<1>2. QED  BY <1>1, CallInvariant, PTL

\* What addCRC returns has the remainder 0 (CRC_16_CCITTFALSE, high byte first), whatever the
\* message.
THEOREM StandardFrames == Spec => []StandardFrame
<1>1. ASSUME CallInv  PROVE StandardFrame
  <2>1. SUFFICES ASSUME phase = "added", result.error = "none"
                 PROVE  Calculate(View(result)) = 0
    BY DEF StandardFrame
  <2>2. /\ before \in Seq(Byte) /\ message \in Seq(Byte)
        /\ result = addCRC(message, before)
    BY <1>1, <2>1, BufferType DEF CallInv, CallTypeInv, AddedInv
  <2>3. View(result) = WithCrc(message)  BY <2>1, <2>2, AddCrcIs
  <2>4. Calculate(WithCrc(message)) = 0  BY <2>2, ZeroRemainder DEF WithCrc
  <2>5. QED  BY <2>3, <2>4
<1>2. QED  BY <1>1, CallInvariant, PTL

\* An undamaged message of any length comes back from removeCRC, and the length of a header is
\* read back from its two bytes.
THEOREM RoundTripHolds == Spec => []RoundTrip
<1>1. ASSUME CallInv  PROVE RoundTrip
  <2>1. SUFFICES ASSUME phase = "removed", flips = {}
                 PROVE  IF Len(before) < Len(message)
                        THEN result.error = "OutputBufferTooSmall"
                        ELSE /\ result.error = "none" /\ View(result) = message
                             /\ header # NoHeader =>
                                  bindTwobytes(View(result)[3], View(result)[4])
                                    = header.payloadLenght
    BY DEF RoundTrip
  <2>2. /\ before \in Seq(Byte) /\ message \in Seq(Byte)
        /\ result = removeCRC(line, before)
        /\ line = Damaged(WithCrc(message), {})
    BY <1>1, <2>1, BufferType DEF CallInv, CallTypeInv, LineInv, RemovedInv
  <2>3. PICK w \in Seq(Byte) : w = WithCrc(message) /\ w = line
    BY <2>2, WithCrcIs, DamagedIs
  <2>4. Len(before) \in Nat /\ Len(message) \in Nat /\ Len(w) \in Int  BY <2>2, LenProperties
  <2>5. PICK n \in Int : n = Len(w) - 2  BY <2>4
  <2>6. n >= 0 /\ n = Len(message) /\ SubSeq(w, 1, n) = message
    BY <2>2, <2>3, <2>5, FrontIs
  <2>7. /\ (result.error = "none") <=> (n >= 0 /\ n <= Len(before) /\ w = WithCrc(message))
        /\ result.error = "none" => View(result) = message
        /\ n >= 0 /\ n > Len(before) => result.error = "OutputBufferTooSmall"
    <3>1. PICK front : front = SubSeq(w, 1, n) /\ front = message  BY <2>6
    <3>2. result = removeCRC(w, before)  BY <2>2, <2>3
    <3>3. /\ (result.error = "none") <=> (n >= 0 /\ n <= Len(before) /\ w = WithCrc(front))
          /\ result.error = "none" => View(result) = front
          /\ n >= 0 /\ n > Len(before) => result.error = "OutputBufferTooSmall"
      BY <2>2, <2>3, <2>5, <3>1, <3>2, RemoveCrcIs
    <3>4. QED  BY <3>1, <3>3, Zenon
  <2>8. header # NoHeader =>
          bindTwobytes(message[3], message[4]) = header.payloadLenght
    BY <1>1, HeaderBytes DEF CallInv, CallTypeInv
  <2>9. CASE Len(before) < Len(message)  BY <2>4, <2>6, <2>7, <2>9
  <2>10. CASE ~(Len(before) < Len(message))
    <3>1. n <= Len(before)  BY <2>4, <2>6, <2>10
    <3>2. result.error = "none" /\ View(result) = message  BY <2>3, <2>6, <2>7, <3>1
    <3>3. QED  BY <2>8, <2>10, <3>2
  <2>11. QED  BY <2>9, <2>10
<1>2. QED  BY <1>1, CallInvariant, PTL

\* Damage within sixteen bits, and damage to an odd number of bits, never passes, in a message of
\* any length: a register that took different bits needs more than fifteen equal steps to forget
\* them, and each bit taken shows in the parity of the register.
THEOREM DamagesDetected == Spec => []DamageDetected
<1>1. ASSUME CallInv  PROVE DamageDetected
  <2>1. SUFFICES ASSUME phase = "removed", Len(before) >= Len(message),
                        \/ \E first \in flips : flips \subseteq first .. first + 15
                        \/ Cardinality(flips) % 2 = 1
                 PROVE  result.error = "CrcMismatch"
    BY DEF DamageDetected
  <2>2. /\ before \in Seq(Byte) /\ message \in Seq(Byte) /\ line \in Seq(Byte)
        /\ result = removeCRC(line, before)
        /\ line = Damaged(WithCrc(message), flips) /\ flips \subseteq 1 .. 8 * Len(line)
    BY <1>1, <2>1, BufferType DEF CallInv, CallTypeInv, LineInv, RemovedInv
  <2>3. PICK w \in Seq(Byte) : w = WithCrc(message) /\ Len(w) = Len(message) + 2
    BY <2>2, WithCrcIs
  <2>4. line = Damaged(w, flips) /\ Len(line) = Len(w)  BY <2>2, <2>3, DamagedIs
  <2>5. \A i \in 1 .. 8 * Len(line) : Bit(line, i) # Bit(w, i) <=> i \in flips
    BY <2>4, DamagedBit
  <2>6. Calculate(line) # Calculate(w)
    <3>1. ASSUME NEW first \in flips, flips \subseteq first .. first + 15
          PROVE  Calculate(line) # Calculate(w)
      <4>1. first \in 1 .. 8 * Len(line) /\ Bit(line, first) # Bit(w, first)
        BY <2>2, <2>5, <3>1
      <4>2. \A i \in 1 .. 8 * Len(line) :
              ~(i \in first .. first + 15) => Bit(line, i) = Bit(w, i)
        BY <2>5, <3>1, Zenon
      <4>3. QED  BY <2>2, <2>4, <4>1, <4>2, BurstChanges
    <3>2. ASSUME Cardinality(flips) % 2 = 1  PROVE Calculate(line) # Calculate(w)
      BY <2>2, <2>4, <2>5, <3>2, OddChanges
    <3>3. QED  BY <2>1, <3>1, <3>2
  <2>7. Calculate(w) = 0  BY <2>2, <2>3, ZeroRemainder DEF WithCrc
  <2>8. Len(message) \in Nat /\ Len(before) \in Nat  BY <2>2, LenProperties
  <2>9. PICK n \in Int : n = Len(line) - 2 /\ n = Len(message)  BY <2>3, <2>4, <2>8
  <2>10. PICK front : front = SubSeq(line, 1, n)  OBVIOUS
  <2>11. n >= 0 /\ n <= Len(before)  BY <2>1, <2>8, <2>9
  <2>12. /\ front \in Seq(Byte)
         /\ result.error = "none" => line = WithCrc(front)
         /\ result.error \in {"none", "CrcMismatch"}
    BY <2>2, <2>9, <2>10, <2>11, RemoveCrcIs
  <2>13. Calculate(WithCrc(front)) = 0  BY <2>12, ZeroRemainder DEF WithCrc
  <2>14. QED  BY <2>6, <2>7, <2>12, <2>13
<1>2. QED  BY <1>1, CallInvariant, PTL

\* removeCRC accepts exactly what addCRC could have made, and the CRC of no message.
THEOREM OnlyFramesAccepted == Spec => []AcceptsOnlyFrames
<1>1. ASSUME CallInv  PROVE AcceptsOnlyFrames
  <2>1. SUFFICES ASSUME phase = "judged"
                 PROVE  (result.error = "none") <=>
                          /\ Len(line) >= 2 /\ Len(before) >= Len(line) - 2
                          /\ MadeByAddCRC(line)
    BY DEF AcceptsOnlyFrames, CRC_Lenght
  <2>2. /\ before \in Seq(Byte) /\ line \in Seq(Byte)
        /\ result = removeCRC(line, before)
    BY <1>1, <2>1, BufferType DEF CallInv, CallTypeInv, RemovedInv
  <2>3. Len(before) \in Nat /\ Len(line) \in Nat  BY <2>2, LenProperties
  <2>4. PICK n \in Int : n = Len(line) - 2 /\ Len(line) = n + 2  BY <2>3
  <2>5. PICK front : front = SubSeq(line, 1, n)  OBVIOUS
  <2>6. /\ n >= 0 => front \in Seq(Byte) /\ Len(front) = n
        /\ (result.error = "none") <=> (n >= 0 /\ n <= Len(before) /\ line = WithCrc(front))
    BY <2>2, <2>4, <2>5, RemoveCrcIs
  <2>7. (Len(line) >= 2 <=> n >= 0) /\ (Len(before) >= n <=> n <= Len(before))
    BY <2>3, <2>4
  <2>8. ASSUME n = 0  PROVE line = WithCrc(front) <=> MadeByAddCRC(line)
    <3>1. front \in Seq(Byte) /\ Len(front) = 0  BY <2>6, <2>8
    <3>2. front = << >>  BY <3>1, EmptySeq
    <3>3. PICK c \in Word : c = 65535 /\ Calculate(front) = c
      BY <3>2, EmptyCalculate DEF Word
    <3>4. CrcBytes(c) \in Seq(Byte)  BY <3>3, CrcBytesAre
    <3>5. WithCrc(front) = CrcBytes(c)  BY <3>2, <3>3, <3>4 DEF WithCrc
    <3>6. MadeByAddCRC(line) <=> line = CrcBytes(65535)
      BY <2>4, <2>8 DEF MadeByAddCRC, CRC_Lenght
    <3>7. QED  BY <3>3, <3>5, <3>6
  <2>9. ASSUME n >= 0, n # 0
        PROVE  line = WithCrc(front) <=> MadeByAddCRC(line)
    <3>1. front \in Seq(Byte) /\ Len(front) = n /\ Len(front) # 0  BY <2>6, <2>9
    <3>2. front # << >>  BY <3>1
    <3>3. PICK r : r = addCRC(front, line)  OBVIOUS
    <3>4. Len(front) + 2 <= Len(line)  BY <2>4, <3>1
    <3>5. r.error = "none" /\ View(r) = WithCrc(front)
      BY <2>2, <3>1, <3>2, <3>3, <3>4, AddCrcIs
    <3>6. MadeByAddCRC(line) <=> r.error = "none" /\ View(r) = line
      BY <2>4, <2>5, <2>9, <3>3 DEF MadeByAddCRC, CRC_Lenght
    <3>7. QED  BY <3>5, <3>6
  <2>10. QED
    <3>1. CASE n = 0  BY <2>4, <2>6, <2>7, <2>8, <3>1
    <3>2. CASE n # 0  BY <2>4, <2>6, <2>7, <2>9, <3>2
    <3>3. QED  BY <3>1, <3>2
<1>2. QED  BY <1>1, CallInvariant, PTL

=============================================================================
