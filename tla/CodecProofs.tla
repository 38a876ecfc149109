---------------------------- MODULE CodecProofs -----------------------------
(***************************************************************************)
(* What the library writes can be read back, for every length and every    *)
(* sequence of bytes: CompactU16::encode, whatever follows it in the       *)
(* buffer, and b64encode, by the library's decoder and by a reader that    *)
(* goes by the format.  And b58tobin makes of a text the key it stands     *)
(* for, and b58enc of the key that text.                                   *)
(***************************************************************************)
EXTENDS CompactU16, Base64, Base58, CommonLemmas, SequenceTheorems

----------------------------------------------------------------------------
(* CompactU16. *)

Bits7 == 0 .. 127
Bits2 == 0 .. 3
HighBytes == 128 .. 255

\* a number and its lowest seven bits
LEMMA LowBits ==
  ASSUME NEW n \in Nat
  PROVE  n \div 128 \in Nat /\ n % 128 \in 0 .. 127
OBVIOUS

\* two bits are what a mask of two bits leaves
LEMMA TwoBits ==
  ASSUME NEW c \in 0 .. 3
  PROVE  c % 4 = c
OBVIOUS

\* groups that are zero add nothing to the number
LEMMA Sum ==
  ASSUME NEW n \in Int, NEW a \in Int, NEW b \in Int, NEW c \in Int,
         n = a + 128 * b + 128 * 128 * c
  PROVE  /\ c = 0 => n = a + 128 * b
         /\ c = 0 /\ b = 0 => n = a
OBVIOUS

\* the three groups of a 16-bit number
LEMMA SevenBits ==
  ASSUME NEW n \in UInt16
  PROVE  /\ Low(n) \in Bits7 /\ Mid(n) \in Bits7 /\ High(n) \in Bits2
         /\ n = Low(n) + 128 * Mid(n) + 128 * 128 * High(n)
         /\ OneByte(n) => n = Low(n)
         /\ TwoBytes(n) => n = Low(n) + 128 * Mid(n)
<1>1. n \in Nat /\ n <= 65535
      BY SMTT(30) DEF UInt16
<1>2. n \div 128 \in Nat /\ n % 128 \in 0 .. 127
      BY <1>1, LowBits
<1>3. (n \div 128) % 128 \in 0 .. 127 /\ (n \div 128) \div 128 \in Nat
      BY <1>2, LowBits
<1>4. n = (n % 128) + 128 * ((n \div 128) % 128) + 128 * 128 * ((n \div 128) \div 128)
      BY <1>1, SMTT(60)
<1>5. (n \div 128) \div 128 \in 0 .. 3
      BY <1>1, <1>2, <1>3, <1>4, SMTT(30)
<1>6. High(n) = (n \div 128) \div 128
      BY <1>5, TwoBits DEF High
<1>7. /\ Low(n) \in 0 .. 127 /\ Mid(n) \in 0 .. 127 /\ High(n) \in 0 .. 3
      /\ n = Low(n) + 128 * Mid(n) + 128 * 128 * High(n)
      BY <1>2, <1>3, <1>4, <1>5, <1>6 DEF Low, Mid
<1>8. 0 % 128 = 0 /\ 0 \div 128 = 0
      OBVIOUS
<1>9. TwoBytes(n) => High(n) = 0
      BY <1>6 DEF TwoBytes
<1>10. OneByte(n) => Mid(n) = 0 /\ High(n) = 0
      BY <1>6, <1>8, Zenon DEF OneByte, Mid
<1>11. n \in Int /\ Low(n) \in Int /\ Mid(n) \in Int /\ High(n) \in Int
      BY <1>1, <1>7
<1>12. /\ High(n) = 0 => n = Low(n) + 128 * Mid(n)
       /\ High(n) = 0 /\ Mid(n) = 0 => n = Low(n)
      BY <1>7, <1>11, Sum
<1>13. QED
      BY <1>7, <1>9, <1>10, <1>12, SMTT(30) DEF Bits7, Bits2

\* a byte with the high bit set
LEMMA HighBit ==
  ASSUME NEW b \in Bits7
  PROVE  More(b) \in HighBytes /\ More(b) - 128 = b
BY DEF More, Bits7, HighBytes

\* what a reader makes of one, two and three bytes at the head of a buffer
LEMMA OneRead ==
  ASSUME NEW a \in Bits7, NEW rest \in Seq(Byte)
  PROVE  /\ Width(<<a>> \o rest) = Len(<<a>>)
         /\ Decode(<<a>> \o rest) = a
<1> DEFINE s == <<a>> \o rest
<1>1. Len(<<a>>) = 1 /\ s[1] = a
      BY DEF Bits7, Bits2, HighBytes, Byte
<1> HIDE DEF s
<1>2. Width(s) = 1
      BY <1>1 DEF Width, Bits7, HighBytes
<1>3. Decode(s) = a
      BY <1>1, <1>2 DEF Decode, Bits7, Bits2, HighBytes
<1>4. QED
      BY <1>1, <1>2, <1>3 DEF s

\* two bytes at the head of a buffer
LEMMA TwoRead ==
  ASSUME NEW x \in HighBytes, NEW y \in Bits7, NEW rest \in Seq(Byte)
  PROVE  /\ Width(<<x, y>> \o rest) = Len(<<x, y>>)
         /\ Decode(<<x, y>> \o rest) = (x - 128) + 128 * y
<1> DEFINE s == <<x, y>> \o rest
<1>1. Len(<<x, y>>) = 2 /\ s[1] = x /\ s[2] = y
      BY DEF Bits7, Bits2, HighBytes, Byte
<1> HIDE DEF s
<1>2. Width(s) = 2
      BY <1>1 DEF Width, Bits7, HighBytes
<1>3. Decode(s) = (x - 128) + 128 * y
      BY <1>1, <1>2 DEF Decode, Bits7, Bits2, HighBytes
<1>4. QED
      BY <1>1, <1>2, <1>3 DEF s

\* three bytes at the head of a buffer
LEMMA ThreeRead ==
  ASSUME NEW x \in HighBytes, NEW y \in HighBytes, NEW z \in Bits2, NEW rest \in Seq(Byte)
  PROVE  /\ Width(<<x, y, z>> \o rest) = Len(<<x, y, z>>)
         /\ Decode(<<x, y, z>> \o rest) = (x - 128) + 128 * (y - 128) + 128 * 128 * z
<1> DEFINE s == <<x, y, z>> \o rest
<1>1. Len(<<x, y, z>>) = 3 /\ s[1] = x /\ s[2] = y /\ s[3] = z
      BY DEF Bits7, Bits2, HighBytes, Byte
<1> HIDE DEF s
<1>2. Width(s) = 3
      BY <1>1 DEF Width, Bits7, HighBytes
<1>3. Decode(s) = (x - 128) + 128 * (y - 128) + 128 * 128 * z
      BY <1>1, <1>2 DEF Decode, Bits7, Bits2, HighBytes
<1>4. QED
      BY <1>1, <1>2, <1>3 DEF s

(* Reading a buffer that starts with an encoded length gives that length   *)
(* and consumes exactly the bytes written for it (solana.cpp:448-460), so  *)
(* a reader finds the items that follow where they are.                    *)
THEOREM RoundTrip ==
  ASSUME NEW n \in UInt16, NEW rest \in Seq(Byte)
  PROVE  /\ Width(Encode(n) \o rest) = Len(Encode(n))
         /\ Decode(Encode(n) \o rest) = n
<1>1. /\ Low(n) \in Bits7 /\ Mid(n) \in Bits7 /\ High(n) \in Bits2
      /\ n = Low(n) + 128 * Mid(n) + 128 * 128 * High(n)
      BY SevenBits
<1>2. /\ More(Low(n)) \in HighBytes /\ More(Low(n)) - 128 = Low(n)
      /\ More(Mid(n)) \in HighBytes /\ More(Mid(n)) - 128 = Mid(n)
      BY <1>1, HighBit
<1>3. CASE OneByte(n)
  <2>1. Encode(n) = <<Low(n)>>
        BY <1>3 DEF Encode
  <2>3. n = Low(n)
        BY <1>3, SevenBits
  <2>4. /\ Width(<<Low(n)>> \o rest) = Len(<<Low(n)>>)
        /\ Decode(<<Low(n)>> \o rest) = Low(n)
        BY <1>1, OneRead
  <2>5. QED
        BY <2>1, <2>3, <2>4
<1>4. CASE ~OneByte(n) /\ TwoBytes(n)
  <2> DEFINE bytes == <<More(Low(n)), Mid(n)>>
  <2>1. Encode(n) = bytes
        BY <1>4 DEF Encode
  <2>3. n = Low(n) + 128 * Mid(n)
        BY <1>4, SevenBits
  <2>4. /\ Width(bytes \o rest) = Len(bytes)
        /\ Decode(bytes \o rest) = (More(Low(n)) - 128) + 128 * Mid(n)
        BY <1>1, <1>2, TwoRead
  <2> HIDE DEF bytes
  <2>5. QED
        BY <1>2, <2>1, <2>3, <2>4
<1>5. CASE ~OneByte(n) /\ ~TwoBytes(n)
  <2> DEFINE bytes == <<More(Low(n)), More(Mid(n)), High(n)>>
  <2>1. Encode(n) = bytes
        BY <1>5 DEF Encode
  <2>2. /\ Width(bytes \o rest) = Len(bytes)
        /\ Decode(bytes \o rest)
             = (More(Low(n)) - 128) + 128 * (More(Mid(n)) - 128) + 128 * 128 * High(n)
        BY <1>1, <1>2, ThreeRead
  <2> HIDE DEF bytes
  <2>3. Decode(bytes \o rest) = Low(n) + 128 * Mid(n) + 128 * 128 * High(n)
        BY <1>2, <2>2, Zenon
  <2>4. QED
        BY <1>1, <2>1, <2>2, <2>3, Zenon
<1>6. QED
      BY <1>3, <1>4, <1>5

----------------------------------------------------------------------------
(* The digits of one group. *)

(* Four digits of 24 bits make the same 24 bits.                            *)
LEMMA FourDigits ==
  ASSUME NEW n \in Int, 0 <= n, n < 16777216
  PROVE  LET d1 == n \div 262144
             d2 == (n \div 4096) % 64
             d3 == (n \div 64) % 64
             d4 == n % 64
         IN  /\ 0 <= d1 /\ d1 < 64 /\ 0 <= d2 /\ d2 < 64 /\ 0 <= d3 /\ d3 < 64 /\ 0 <= d4 /\ d4 < 64
             /\ d1 * 262144 + d2 * 4096 + d3 * 64 + d4 = n
             /\ (d1 * 64 + d2) \div 16 = n \div 65536
             /\ ((d2 * 64 + d3) \div 4) % 256 = (n \div 256) % 256
             /\ (d3 * 64 + d4) % 256 = n % 256
BY SMTT(60)

(* The three bytes of a number of 24 bits.                                  *)
LEMMA ThreeBytes ==
  ASSUME NEW b1 \in Int, 0 <= b1, b1 < 256,
         NEW b2 \in Int, 0 <= b2, b2 < 256,
         NEW b3 \in Int, 0 <= b3, b3 < 256
  PROVE  LET n == b1 * 65536 + b2 * 256 + b3
         IN  /\ n \in Int /\ 0 <= n /\ n < 16777216
             /\ n \div 65536 = b1
             /\ (n \div 256) % 256 = b2
             /\ n % 256 = b3
BY SMTT(60)

(* The digits of two bytes are those of two bytes and a zero.               *)
LEMMA TwoBytesDigits ==
  ASSUME NEW n \in Int, 0 <= n, n < 65536
  PROVE  /\ (n \div 1024) % 64 = (n * 256) \div 262144
         /\ (n \div 16) % 64 = ((n * 256) \div 4096) % 64
         /\ (n * 4) % 64 = ((n * 256) \div 64) % 64
         /\ (n * 256) % 64 = 0
BY SMTT(60)

(* The digits of one byte are those of one byte and two zeros.              *)
LEMMA OneByteDigits ==
  ASSUME NEW b \in Int, 0 <= b, b < 256
  PROVE  /\ b \div 4 = (b * 65536) \div 262144
         /\ (b * 16) % 64 = ((b * 65536) \div 4096) % 64
         /\ ((b * 65536) \div 64) % 64 = 0
         /\ (b * 65536) % 64 = 0
BY SMTT(60)

----------------------------------------------------------------------------
(* The letters of one group. *)

(* The bytes, as a range of numbers.                                        *)
LEMMA ByteRange == \A b : b \in Byte <=> b \in Int /\ 0 <= b /\ b < 256
BY DEF Byte

(* The digits, as a range of numbers.                                       *)
LEMMA SextetRange == \A d : d \in Sextet <=> d \in Int /\ 0 <= d /\ d < 64
BY DEF Sextet

(* A complete group.                                                        *)
LEMMA FourLetters ==
  ASSUME NEW b1 \in Byte, NEW b2 \in Byte, NEW b3 \in Byte
  PROVE  \E d1, d2, d3, d4 \in Sextet :
           /\ Four(b1, b2, b3) = <<d1, d2, d3, d4>>
           /\ Three(d1, d2, d3, d4) = <<b1, b2, b3>>
           /\ (d1 * 64 + d2) \div 16 = b1
           /\ ((d2 * 64 + d3) \div 4) % 256 = b2
           /\ (d3 * 64 + d4) % 256 = b3
<1> DEFINE n == b1 * 65536 + b2 * 256 + b3
           d1 == n \div 262144
           d2 == (n \div 4096) % 64
           d3 == (n \div 64) % 64
           d4 == n % 64
<1>1. Four(b1, b2, b3) = <<d1, d2, d3, d4>>
  BY DEF Four
<1>2. /\ n \in Int /\ 0 <= n /\ n < 16777216
      /\ n \div 65536 = b1 /\ (n \div 256) % 256 = b2 /\ n % 256 = b3
  BY ByteRange, ThreeBytes
<1> HIDE DEF n
<1>3. /\ 0 <= d1 /\ d1 < 64 /\ 0 <= d2 /\ d2 < 64 /\ 0 <= d3 /\ d3 < 64 /\ 0 <= d4 /\ d4 < 64
      /\ d1 * 262144 + d2 * 4096 + d3 * 64 + d4 = n
      /\ (d1 * 64 + d2) \div 16 = n \div 65536
      /\ ((d2 * 64 + d3) \div 4) % 256 = (n \div 256) % 256
      /\ (d3 * 64 + d4) % 256 = n % 256
  BY <1>2, FourDigits, SMTT(40)
<1>4. d1 \in Int /\ d2 \in Int /\ d3 \in Int /\ d4 \in Int
  BY <1>2
<1> HIDE DEF d1, d2, d3, d4
<1>5. d1 \in Sextet /\ d2 \in Sextet /\ d3 \in Sextet /\ d4 \in Sextet
  BY <1>3, <1>4, SextetRange
<1>6. Three(d1, d2, d3, d4) = <<b1, b2, b3>>
  BY <1>2, <1>3 DEF Three
<1>7. QED
  BY <1>1, <1>2, <1>3, <1>5, <1>6

(* Two bytes have the letters of a group that ends in a zero, but '=' for   *)
(* the last.                                                                *)
LEMMA TwoBytesLetters ==
  ASSUME NEW b1 \in Byte, NEW b2 \in Byte
  PROVE  \E d1, d2, d3 \in Sextet :
           /\ PadTwo(b1, b2) = <<d1, d2, d3, Pad>>
           /\ Three(d1, d2, d3, 0) = <<b1, b2, 0>>
           /\ (d1 * 64 + d2) \div 16 = b1
           /\ ((d2 * 64 + d3) \div 4) % 256 = b2
<1>1. 0 \in Byte
  BY ByteRange
<1>2. PICK d1, d2, d3, d4 \in Sextet :
         /\ Four(b1, b2, 0) = <<d1, d2, d3, d4>>
         /\ Three(d1, d2, d3, d4) = <<b1, b2, 0>>
         /\ (d1 * 64 + d2) \div 16 = b1
         /\ ((d2 * 64 + d3) \div 4) % 256 = b2
  BY <1>1, FourLetters
<1> DEFINE n == b1 * 256 + b2
<1>3. n \in Int /\ 0 <= n /\ n < 65536 /\ b1 * 65536 + b2 * 256 + 0 = n * 256
  BY ByteRange
<1>4. /\ d1 = (n * 256) \div 262144 /\ d2 = ((n * 256) \div 4096) % 64
      /\ d3 = ((n * 256) \div 64) % 64 /\ d4 = (n * 256) % 64
  BY <1>2, <1>3 DEF Four
<1>5. PadTwo(b1, b2) = <<(n \div 1024) % 64, (n \div 16) % 64, (n * 4) % 64, Pad>>
  BY DEF PadTwo
<1> HIDE DEF n
<1>6. /\ (n \div 1024) % 64 = (n * 256) \div 262144
      /\ (n \div 16) % 64 = ((n * 256) \div 4096) % 64
      /\ (n * 4) % 64 = ((n * 256) \div 64) % 64
      /\ (n * 256) % 64 = 0
  BY <1>3, TwoBytesDigits, SMTT(40)
<1>7. PadTwo(b1, b2) = <<d1, d2, d3, Pad>> /\ d4 = 0
  BY <1>4, <1>5, <1>6
<1>8. QED
  BY <1>2, <1>7

(* One byte has the letters of a group that ends in two zeros, but '=' for  *)
(* the last two.                                                            *)
LEMMA OneByteLetters ==
  ASSUME NEW b1 \in Byte
  PROVE  \E d1, d2 \in Sextet :
           /\ PadOne(b1) = <<d1, d2, Pad, Pad>>
           /\ Three(d1, d2, 0, 0) = <<b1, 0, 0>>
           /\ (d1 * 64 + d2) \div 16 = b1
<1>1. 0 \in Byte
  BY ByteRange
<1>2. PICK d1, d2, d3, d4 \in Sextet :
         /\ Four(b1, 0, 0) = <<d1, d2, d3, d4>>
         /\ Three(d1, d2, d3, d4) = <<b1, 0, 0>>
         /\ (d1 * 64 + d2) \div 16 = b1
  BY <1>1, FourLetters
<1>3. b1 \in Int /\ 0 <= b1 /\ b1 < 256 /\ b1 * 65536 + 0 * 256 + 0 = b1 * 65536
  BY ByteRange
<1>4. /\ d1 = (b1 * 65536) \div 262144 /\ d2 = ((b1 * 65536) \div 4096) % 64
      /\ d3 = ((b1 * 65536) \div 64) % 64 /\ d4 = (b1 * 65536) % 64
  BY <1>2, <1>3 DEF Four
<1>5. /\ b1 \div 4 = (b1 * 65536) \div 262144
      /\ (b1 * 16) % 64 = ((b1 * 65536) \div 4096) % 64
      /\ ((b1 * 65536) \div 64) % 64 = 0
      /\ (b1 * 65536) % 64 = 0
  BY <1>3, OneByteDigits, SMTT(40)
<1>6. PadOne(b1) = <<d1, d2, Pad, Pad>> /\ d3 = 0 /\ d4 = 0
  BY <1>4, <1>5 DEF PadOne
<1>7. QED
  BY <1>2, <1>6

----------------------------------------------------------------------------
(* The text as a whole. *)

Groups(s) == (Len(s) + 2) \div 3

(* Where a letter stands: the j-th of group g.                              *)
LEMMA Place4 ==
  ASSUME NEW g \in Nat, NEW j \in 1 .. 4
  PROVE  (4 * g + j - 1) \div 4 = g /\ ((4 * g + j - 1) % 4) + 1 = j
OBVIOUS

(* The number of letters, and each of them by its group and place.          *)
LEMMA LettersOfText ==
  ASSUME NEW s \in Seq(Byte)
  PROVE  /\ Groups(s) \in Nat
         /\ Len(Encode64(s)) = 4 * Groups(s)
         /\ \A g \in 0 .. Groups(s) - 1 : \A j \in 1 .. 4 :
              Encode64(s)[4 * g + j] = Letters(s, g)[j]
<1>1. Len(s) \in Nat /\ Groups(s) \in Nat
  BY DEF Groups
<1>2. Encode64(s) = [k \in 1 .. 4 * Groups(s) |-> Letters(s, (k - 1) \div 4)[((k - 1) % 4) + 1]]
  BY DEF Encode64, Groups
<1>3. Len(Encode64(s)) = 4 * Groups(s)
  BY <1>1, <1>2
<1>4. ASSUME NEW g \in 0 .. Groups(s) - 1, NEW j \in 1 .. 4
      PROVE  Encode64(s)[4 * g + j] = Letters(s, g)[j]
  <2>1. g \in Nat /\ 4 * g + j \in 1 .. 4 * Groups(s)
    BY <1>1
  <2>2. (4 * g + j - 1) \div 4 = g /\ ((4 * g + j - 1) % 4) + 1 = j
    BY <2>1, Place4
  <2>3. QED
    BY <1>2, <2>1, <2>2
<1>5. QED
  BY <1>1, <1>3, <1>4

\* the letters of group g of the text of s, which has rest bytes
GroupIs(s, t, g) ==
  LET rest == Len(s) - 3 * g
      b(k) == s[3 * g + k]
      d(k) == t[4 * g + k]
  IN  \/ /\ rest >= 3
         /\ d(1) \in Sextet /\ d(2) \in Sextet /\ d(3) \in Sextet /\ d(4) \in Sextet
         /\ Three(d(1), d(2), d(3), d(4)) = <<b(1), b(2), b(3)>>
         /\ (d(1) * 64 + d(2)) \div 16 = b(1)
         /\ ((d(2) * 64 + d(3)) \div 4) % 256 = b(2)
         /\ (d(3) * 64 + d(4)) % 256 = b(3)
      \/ /\ rest = 2
         /\ d(1) \in Sextet /\ d(2) \in Sextet /\ d(3) \in Sextet /\ d(4) = Pad
         /\ Three(d(1), d(2), d(3), 0) = <<b(1), b(2), 0>>
         /\ (d(1) * 64 + d(2)) \div 16 = b(1)
         /\ ((d(2) * 64 + d(3)) \div 4) % 256 = b(2)
      \/ /\ rest = 1
         /\ d(1) \in Sextet /\ d(2) \in Sextet /\ d(3) = Pad /\ d(4) = Pad
         /\ Three(d(1), d(2), 0, 0) = <<b(1), 0, 0>>
         /\ (d(1) * 64 + d(2)) \div 16 = b(1)

(* Every group is of one of the three kinds.                                *)
LEMMA GroupsOfText ==
  ASSUME NEW s \in Seq(Byte), NEW g \in 0 .. Groups(s) - 1
  PROVE  GroupIs(s, Encode64(s), g)
<1> DEFINE rest == Len(s) - 3 * g
           b(k) == s[3 * g + k]
           d(k) == Encode64(s)[4 * g + k]
<1>1. Len(s) \in Nat /\ g \in Nat /\ rest \in Nat /\ rest >= 1
  BY DEF Groups
<1>2. \A j \in 1 .. 4 : d(j) = Letters(s, g)[j]
  BY LettersOfText
<1>3. \A k \in 1 .. 3 : k <= rest => b(k) \in Byte
  BY <1>1
<1>4. CASE rest >= 3
  <2>1. Letters(s, g) = Four(b(1), b(2), b(3))
    BY <1>4 DEF Letters
  <2>2. b(1) \in Byte /\ b(2) \in Byte /\ b(3) \in Byte
    BY <1>1, <1>3, <1>4
  <2> HIDE DEF b, d, rest
  <2>3. PICK d1, d2, d3, d4 \in Sextet :
          /\ Four(b(1), b(2), b(3)) = <<d1, d2, d3, d4>>
          /\ Three(d1, d2, d3, d4) = <<b(1), b(2), b(3)>>
          /\ (d1 * 64 + d2) \div 16 = b(1)
          /\ ((d2 * 64 + d3) \div 4) % 256 = b(2)
          /\ (d3 * 64 + d4) % 256 = b(3)
    BY <2>2, FourLetters
  <2>4. d(1) = d1 /\ d(2) = d2 /\ d(3) = d3 /\ d(4) = d4
    BY <1>2, <2>1, <2>3
  <2>5. /\ rest >= 3
        /\ d(1) \in Sextet /\ d(2) \in Sextet /\ d(3) \in Sextet /\ d(4) \in Sextet
        /\ Three(d(1), d(2), d(3), d(4)) = <<b(1), b(2), b(3)>>
        /\ (d(1) * 64 + d(2)) \div 16 = b(1)
        /\ ((d(2) * 64 + d(3)) \div 4) % 256 = b(2)
        /\ (d(3) * 64 + d(4)) % 256 = b(3)
    BY <1>4, <2>3, <2>4
  <2>6. QED
    BY <2>5, Zenon DEF GroupIs, b, d, rest
<1>5. CASE rest = 2
  <2>1. Letters(s, g) = PadTwo(b(1), b(2))
    BY <1>5 DEF Letters
  <2>2. b(1) \in Byte /\ b(2) \in Byte
    BY <1>1, <1>3, <1>5
  <2> HIDE DEF b, d, rest
  <2>3. PICK d1, d2, d3 \in Sextet :
          /\ PadTwo(b(1), b(2)) = <<d1, d2, d3, Pad>>
          /\ Three(d1, d2, d3, 0) = <<b(1), b(2), 0>>
          /\ (d1 * 64 + d2) \div 16 = b(1)
          /\ ((d2 * 64 + d3) \div 4) % 256 = b(2)
    BY <2>2, TwoBytesLetters
  <2>4. d(1) = d1 /\ d(2) = d2 /\ d(3) = d3 /\ d(4) = Pad
    BY <1>2, <2>1, <2>3
  <2>5. /\ rest = 2
        /\ d(1) \in Sextet /\ d(2) \in Sextet /\ d(3) \in Sextet /\ d(4) = Pad
        /\ Three(d(1), d(2), d(3), 0) = <<b(1), b(2), 0>>
        /\ (d(1) * 64 + d(2)) \div 16 = b(1)
        /\ ((d(2) * 64 + d(3)) \div 4) % 256 = b(2)
    BY <1>5, <2>3, <2>4
  <2>6. QED
    BY <2>5, Zenon DEF GroupIs, b, d, rest
<1>6. CASE rest = 1
  <2>1. Letters(s, g) = PadOne(b(1))
    BY <1>6 DEF Letters
  <2>2. b(1) \in Byte
    BY <1>1, <1>3, <1>6
  <2> HIDE DEF b, d, rest
  <2>3. PICK d1, d2 \in Sextet :
          /\ PadOne(b(1)) = <<d1, d2, Pad, Pad>>
          /\ Three(d1, d2, 0, 0) = <<b(1), 0, 0>>
          /\ (d1 * 64 + d2) \div 16 = b(1)
    BY <2>2, OneByteLetters
  <2>4. d(1) = d1 /\ d(2) = d2 /\ d(3) = Pad /\ d(4) = Pad
    BY <1>2, <2>1, <2>3
  <2>5. /\ rest = 1
        /\ d(1) \in Sextet /\ d(2) \in Sextet /\ d(3) = Pad /\ d(4) = Pad
        /\ Three(d(1), d(2), 0, 0) = <<b(1), 0, 0>>
        /\ (d(1) * 64 + d(2)) \div 16 = b(1)
    BY <1>6, <2>3, <2>4
  <2>6. QED
    BY <2>5, Zenon DEF GroupIs, b, d, rest
<1>7. QED
  BY <1>1, <1>4, <1>5, <1>6

----------------------------------------------------------------------------
(* What the readers make of the end of the text. *)

(* How many bytes the last group has.                                       *)
LEMMA LastGroup ==
  ASSUME NEW n \in Int, n >= 1
  PROVE  LET groups == (n + 2) \div 3
             rest == n - 3 * (groups - 1)
         IN  /\ groups >= 1 /\ rest >= 1 /\ rest <= 3
             /\ rest = 3 => n % 3 = 0 /\ n \div 3 = groups
             /\ rest = 2 => n % 3 = 2 /\ n \div 3 = groups - 1
             /\ rest = 1 => n % 3 = 1 /\ n \div 3 = groups - 1
             /\ 3 * groups - (3 - rest) = n
OBVIOUS

(* The padding tells how many bytes the last group has.                     *)
LEMMA EndOfText ==
  ASSUME NEW s \in Seq(Byte), s # <<>>
  PROVE  LET t == Encode64(s)
         IN  /\ Groups(s) >= 1 /\ t # <<>> /\ Len(t) = 4 * Groups(s)
             /\ FirstByte(t) = IF Len(s) % 3 = 0 THEN 0 ELSE 1
             /\ SecondByte(t) = IF Len(s) % 3 = 2 THEN 1 ELSE 0
             /\ Complete(t) = Len(s) \div 3
             /\ 3 * Groups(s) - Padding(t) = Len(s)
<1> DEFINE t == Encode64(s)
           g == Groups(s) - 1
           rest == Len(s) - 3 * g
<1>1. Len(s) \in Nat /\ Len(s) >= 1 /\ Groups(s) \in Nat /\ Groups(s) >= 1
  BY DEF Groups
<1>2. Len(t) = 4 * Groups(s) /\ t # <<>> /\ Len(t) % 4 = 0 /\ Len(t) = 4 * g + 4
  <2>1. Len(t) = 4 * Groups(s)
    BY LettersOfText
  <2>2. QED
    BY <1>1, <2>1
<1>3. /\ g \in 0 .. Groups(s) - 1 /\ rest \in 1 .. 3
      /\ rest = 3 => Len(s) % 3 = 0 /\ Len(s) \div 3 = Groups(s)
      /\ rest = 2 => Len(s) % 3 = 2 /\ Len(s) \div 3 = g
      /\ rest = 1 => Len(s) % 3 = 1 /\ Len(s) \div 3 = g
      /\ 3 * Groups(s) - (3 - rest) = Len(s)
  BY <1>1, LastGroup DEF Groups
<1>4. GroupIs(s, t, g)
  BY <1>3, GroupsOfText
<1>5. /\ rest = 3 => t[4 * g + 4] \in Sextet
      /\ rest = 2 => t[4 * g + 3] \in Sextet /\ t[4 * g + 4] = Pad
      /\ rest = 1 => t[4 * g + 3] = Pad /\ t[4 * g + 4] = Pad
  <2> HIDE DEF t, g
  <2>1. QED
    BY <1>3, <1>4 DEF GroupIs
<1>6. \A d \in Sextet : d # Pad
  BY SextetRange DEF Pad
<1> HIDE DEF t
<1>7. t[Len(t)] = t[4 * g + 4] /\ t[Len(t) - 1] = t[4 * g + 3]
  BY <1>1, <1>2
<1> HIDE DEF g, rest
<1>8. FirstByte(t) = (IF rest = 3 THEN 0 ELSE 1)
  BY <1>2, <1>3, <1>5, <1>6, <1>7 DEF FirstByte
<1>9. SecondByte(t) = IF rest = 2 THEN 1 ELSE 0
  BY <1>2, <1>3, <1>5, <1>6, <1>7, <1>8 DEF SecondByte
<1>10. Padding(t) = 3 - rest
  BY <1>2, <1>3, <1>5, <1>6, <1>7 DEF Padding
<1>11. Complete(t) = Len(s) \div 3
  <2>1. \A a \in Nat : (4 * a - 0) \div 4 = a /\ (4 * a + 4 - 1) \div 4 = a
    OBVIOUS
  <2>2. CASE rest = 3
    BY <1>1, <1>2, <1>3, <1>8, <2>1, <2>2 DEF Complete
  <2>3. CASE rest # 3
    <3>1. g \in Nat
      BY <1>3
    <3>2. QED
      BY <1>2, <1>3, <1>8, <2>1, <2>3, <3>1 DEF Complete
  <2>4. QED
    BY <2>2, <2>3
<1>12. QED
  BY <1>1, <1>2, <1>3, <1>8, <1>9, <1>10, <1>11, SMTT(30) DEF t

(* A digit is its own index.                                                *)
LEMMA IndexOfSextet == \A d \in Sextet : Index64(d) = d
BY SextetRange DEF Index64, Pad

(* Where a byte stands: the j-th of group g.                                *)
LEMMA Place3 ==
  ASSUME NEW n \in Nat, NEW k \in 1 .. n
  PROVE  LET g == (k - 1) \div 3
             j == ((k - 1) % 3) + 1
         IN  /\ g \in 0 .. ((n + 2) \div 3) - 1
             /\ j \in 1 .. 3
             /\ k = 3 * g + j
             /\ n - 3 * g >= j
             /\ g < n \div 3 <=> n - 3 * g >= 3
OBVIOUS

(* b64decode gets back what b64encode was given, whatever the number of     *)
(* bytes that are left over for the last group (base64.hpp:20-70).          *)
THEOREM DecodesWhatItEncodes == \A s \in Seq(Byte) : Decode64(Encode64(s)) = s
<1> SUFFICES ASSUME NEW s \in Seq(Byte)
             PROVE  Decode64(Encode64(s)) = s
  OBVIOUS
<1> DEFINE t == Encode64(s)
<1>1. CASE s = <<>>
  <2>1. Len(t) = 0 /\ t \in Seq({0})
    BY <1>1 DEF Encode64
  <2>2. QED
    BY <1>1, <2>1 DEF Decode64
<1>2. CASE s # <<>>
  <2>1. /\ t # <<>>
        /\ FirstByte(t) = (IF Len(s) % 3 = 0 THEN 0 ELSE 1)
        /\ SecondByte(t) = (IF Len(s) % 3 = 2 THEN 1 ELSE 0)
        /\ Complete(t) = Len(s) \div 3
    BY <1>2, EndOfText
  <2>2. 3 * Complete(t) + FirstByte(t) + SecondByte(t) = Len(s) /\ Len(s) \in Nat
    BY <2>1
  <2>3. ASSUME NEW k \in 1 .. Len(s)
        PROVE  Octets(t, (k - 1) \div 3)[((k - 1) % 3) + 1] = s[k]
    <3> DEFINE g == (k - 1) \div 3
               j == ((k - 1) % 3) + 1
               rest == Len(s) - 3 * g
    <3>1. /\ g \in 0 .. Groups(s) - 1 /\ j \in 1 .. 3 /\ k = 3 * g + j /\ rest >= j
          /\ g < Len(s) \div 3 <=> rest >= 3
      BY <2>2, Place3 DEF Groups
    <3>2. GroupIs(s, t, g)
      BY <3>1, GroupsOfText
    <3> HIDE DEF g, j, t
    <3>3. CASE rest >= 3
      <4>1. /\ t[4 * g + 1] \in Sextet /\ t[4 * g + 2] \in Sextet
            /\ t[4 * g + 3] \in Sextet /\ t[4 * g + 4] \in Sextet
            /\ Three(t[4 * g + 1], t[4 * g + 2], t[4 * g + 3], t[4 * g + 4])
                 = <<s[3 * g + 1], s[3 * g + 2], s[3 * g + 3]>>
        BY <3>1, <3>2, <3>3 DEF GroupIs
      <4>2. g < Complete(t)
        BY <2>1, <3>1, <3>3
      <4>3. Octets(t, g) = <<s[3 * g + 1], s[3 * g + 2], s[3 * g + 3]>>
        BY <4>1, <4>2, IndexOfSextet DEF Octets
      <4>4. QED
        BY <3>1, <4>3, SMTT(30) DEF g, j
    <3>4. CASE rest = 2
      <4>1. /\ t[4 * g + 1] \in Sextet /\ t[4 * g + 2] \in Sextet /\ t[4 * g + 3] \in Sextet
            /\ Three(t[4 * g + 1], t[4 * g + 2], t[4 * g + 3], 0)
                 = <<s[3 * g + 1], s[3 * g + 2], 0>>
        BY <3>1, <3>2, <3>4 DEF GroupIs
      <4>2. SecondByte(t) = 1 /\ ~(g < Complete(t))
        BY <2>1, <2>2, <3>1, <3>4
      <4>3. Octets(t, g) = <<s[3 * g + 1], s[3 * g + 2], 0>>
        BY <4>1, <4>2, IndexOfSextet DEF Octets
      <4>4. QED
        BY <3>1, <3>4, <4>3 DEF g, j
    <3>5. CASE rest = 1
      <4>1. /\ t[4 * g + 1] \in Sextet /\ t[4 * g + 2] \in Sextet
            /\ Three(t[4 * g + 1], t[4 * g + 2], 0, 0) = <<s[3 * g + 1], 0, 0>>
        BY <3>1, <3>2, <3>5 DEF GroupIs
      <4>2. SecondByte(t) = 0 /\ ~(g < Complete(t))
        BY <2>1, <2>2, <3>1, <3>5
      <4>3. Octets(t, g) = <<s[3 * g + 1], 0, 0>>
        BY <4>1, <4>2, IndexOfSextet DEF Octets
      <4>4. QED
        BY <3>1, <3>5, <4>3 DEF g, j
    <3>6. QED
      BY <3>2, <3>3, <3>4, <3>5 DEF GroupIs
  <2>4. Decode64(t) = [k \in 1 .. Len(s) |-> Octets(t, (k - 1) \div 3)[((k - 1) % 3) + 1]]
    BY <2>1, <2>2 DEF Decode64
  <2> HIDE DEF t
  <2>5. Decode64(t) = [k \in 1 .. Len(s) |-> s[k]]
    BY <2>3, <2>4
  <2>6. QED
    BY <2>5 DEF t
<1>3. QED
  BY <1>1, <1>2

(* Where the format finds the j-th byte of group g.                         *)
LEMMA PlaceOfBits ==
  ASSUME NEW g \in Nat
  PROVE  /\ \A b \in Int : b = 8 * (3 * g + 1 - 1) => b % 6 = 0 /\ b \div 6 = 4 * g
         /\ \A b \in Int : b = 8 * (3 * g + 2 - 1) => b % 6 = 2 /\ b \div 6 = 4 * g + 1
         /\ \A b \in Int : b = 8 * (3 * g + 3 - 1) => b % 6 = 4 /\ b \div 6 = 4 * g + 2
OBVIOUS

(* A reader that goes by the format gets it back, too: what the library     *)
(* sends is Base64 (base64.hpp:20-42).                                      *)
THEOREM CarriesWhatItEncodes == \A s \in Seq(Byte) : Carried(Encode64(s)) = s
<1> SUFFICES ASSUME NEW s \in Seq(Byte)
             PROVE  Carried(Encode64(s)) = s
  OBVIOUS
<1> DEFINE t == Encode64(s)
           bit(k) == 8 * (k - 1)
           pair(k) == Index64(t[(bit(k) \div 6) + 1]) * 64 + Index64(t[(bit(k) \div 6) + 2])
           byte(k) == CASE bit(k) % 6 = 0 -> pair(k) \div 16
                        [] bit(k) % 6 = 2 -> (pair(k) \div 4) % 256
                        [] OTHER -> pair(k) % 256
<1>1. 3 * (Len(t) \div 4) - Padding(t) = Len(s) /\ Len(s) \in Nat
  <2>1. CASE s = <<>>
    <3>1. Len(t) = 0
      BY <2>1 DEF Encode64
    <3>2. t = <<>>
      BY <2>1, <3>1 DEF Encode64
    <3>3. QED
      BY <2>1, <3>1, <3>2 DEF Padding
  <2>2. CASE s # <<>>
    <3>1. Len(t) = 4 * Groups(s) /\ 3 * Groups(s) - Padding(t) = Len(s) /\ Groups(s) \in Nat
      BY <2>2, EndOfText, LettersOfText
    <3>2. QED
      BY <3>1
  <2>3. QED
    BY <2>1, <2>2
<1>2. ASSUME NEW k \in 1 .. Len(s)
      PROVE  byte(k) = s[k]
  <2> DEFINE g == (k - 1) \div 3
             j == ((k - 1) % 3) + 1
             rest == Len(s) - 3 * g
  <2>1. g \in 0 .. Groups(s) - 1 /\ g \in Nat /\ j \in 1 .. 3 /\ k = 3 * g + j /\ rest >= j
    BY <1>1, Place3 DEF Groups
  <2>2. GroupIs(s, t, g)
    BY <2>1, GroupsOfText
  <2> HIDE DEF g, j, t
  <2>3. bit(k) \in Int
    BY <1>1
  <2>4. CASE j = 1
    <3>1. bit(k) % 6 = 0 /\ bit(k) \div 6 = 4 * g
      BY <2>1, <2>3, <2>4, PlaceOfBits
    <3>2. /\ t[4 * g + 1] \in Sextet /\ t[4 * g + 2] \in Sextet
          /\ (t[4 * g + 1] * 64 + t[4 * g + 2]) \div 16 = s[3 * g + 1]
      BY <2>2 DEF GroupIs
    <3> HIDE DEF bit
    <3>3. pair(k) = t[4 * g + 1] * 64 + t[4 * g + 2]
      BY <3>1, <3>2, IndexOfSextet
    <3> HIDE DEF pair
    <3>4. QED
      BY <2>1, <2>4, <3>1, <3>2, <3>3
  <2>5. CASE j = 2
    <3>1. bit(k) % 6 = 2 /\ bit(k) \div 6 = 4 * g + 1
      BY <2>1, <2>3, <2>5, PlaceOfBits
    <3>2. /\ t[4 * g + 2] \in Sextet /\ t[4 * g + 3] \in Sextet
          /\ ((t[4 * g + 2] * 64 + t[4 * g + 3]) \div 4) % 256 = s[3 * g + 2]
      BY <2>1, <2>2, <2>5 DEF GroupIs
    <3> HIDE DEF bit
    <3>3. pair(k) = t[4 * g + 2] * 64 + t[4 * g + 3]
      BY <2>1, <3>1, <3>2, IndexOfSextet
    <3> HIDE DEF pair
    <3>4. QED
      BY <2>1, <2>5, <3>1, <3>2, <3>3
  <2>6. CASE j = 3
    <3>1. bit(k) % 6 = 4 /\ bit(k) \div 6 = 4 * g + 2
      BY <2>1, <2>3, <2>6, PlaceOfBits
    <3>2. /\ t[4 * g + 3] \in Sextet /\ t[4 * g + 4] \in Sextet
          /\ (t[4 * g + 3] * 64 + t[4 * g + 4]) % 256 = s[3 * g + 3]
      BY <2>1, <2>2, <2>6 DEF GroupIs
    <3> HIDE DEF bit
    <3>3. pair(k) = t[4 * g + 3] * 64 + t[4 * g + 4]
      BY <2>1, <3>1, <3>2, IndexOfSextet
    <3> HIDE DEF pair
    <3>4. QED
      BY <2>1, <2>6, <3>1, <3>2, <3>3, SMTT(30)
  <2>7. QED
    BY <2>1, <2>4, <2>5, <2>6
<1>3. Carried(t) = [k \in 1 .. Len(s) |-> byte(k)]
  BY <1>1 DEF Carried
<1> HIDE DEF t, byte
<1>4. Carried(t) = [k \in 1 .. Len(s) |-> s[k]]
  BY <1>2, <1>3
<1>5. QED
  BY <1>4 DEF t

----------------------------------------------------------------------------
(* Base58: the functions that read a key. *)

(* Quotients and remainders, by a divisor that is not known.                *)
LEMMA DivFacts ==
  ASSUME NEW n \in Nat, NEW d \in Nat \ {0}
  PROVE  /\ n \div d \in Nat /\ n % d \in Nat /\ n % d < d
         /\ d * (n \div d) <= n /\ (n % d = 0 => d * (n \div d) = n)
<1>1. n \div d \in Nat
  OBVIOUS
<1>2. n % d \in Nat /\ n % d < d
  OBVIOUS
<1>3. d * (n \div d) <= n
  OBVIOUS
<1>4. n % d = 0 => d * (n \div d) = n
  OBVIOUS
<1>5. QED
  BY <1>1, <1>2, <1>3, <1>4

(* A quotient is below the bound that its dividend stays below.             *)
LEMMA QuotientBelow ==
  ASSUME NEW n \in Nat, NEW d \in Nat \ {0}, NEW q \in Nat, NEW m \in Nat, d * q <= n, n < d * m
  PROVE  q < m
OBVIOUS

(* Every limb has a number of values, and at least one.                     *)
LEMMA ValuesTyped ==
  /\ \A n \in 0 .. LimbBytes : Values[n] \in Nat \ {0}
  /\ Values[0] = 1 /\ \A n \in 0 .. LimbBytes - 1 : Values[n + 1] = 256 * Values[n]
<1> DEFINE V == Nat \ {0}
           h == [k \in 1 .. LimbBytes |-> [x \in V |-> 256 * x]]
           Eq(g) == g = [n \in 0 .. LimbBytes |-> IF n = 0 THEN 1 ELSE 256 * g[n - 1]]
<1>1. LimbBytes \in Nat
  BY LimbsAssumption
<1>2. \E g : Eq(g)
  <2>1. h \in [1 .. LimbBytes -> [V -> V]] /\ 1 \in V
    OBVIOUS
  <2>2. \A x \in V : \A k \in 1 .. LimbBytes : h[k][x] = 256 * x
    OBVIOUS
  <2> HIDE DEF V, h
  <2>3. PICK g \in [0 .. LimbBytes -> V] : Iterates(g, 1, LimbBytes, h)
    BY <1>1, <2>1, Recursion
  <2>4. \A k \in 1 .. LimbBytes : g[k] = 256 * g[k - 1]
    BY <1>1, <2>2, <2>3 DEF Iterates
  <2>5. Eq(g)
    BY <1>1, <2>3, <2>4 DEF Iterates
  <2>6. QED
    BY <2>5, ZenonT(60)
<1>3. Eq(Values)
  <2>1. Values = CHOOSE g : Eq(g)
    BY DEF Values
  <2> HIDE DEF Eq
  <2>2. QED
    BY <1>2, <2>1
<1>4. Values[0] = 1 /\ \A n \in 0 .. LimbBytes - 1 : Values[n + 1] = 256 * Values[n]
  BY <1>1, <1>3
<1> DEFINE S == {n \in 0 .. LimbBytes : Values[n] \in V}
<1>5. 0 \in S /\ \A n \in 0 .. LimbBytes - 1 : n \in S => n + 1 \in S
  BY <1>1, <1>4
<1> HIDE DEF S
<1>6. \A n \in 0 .. LimbBytes : n \in S
  BY <1>1, <1>5, FiniteInduction
<1>7. QED
  BY <1>4, <1>6 DEF S

(* The number of zeros in front is one of the counts up to the length.      *)
LEMMA LeadingZerosTyped ==
  ASSUME NEW A, NEW s \in Seq(A)
  PROVE  /\ LeadingZeros(s) \in 0 .. Len(s)
         /\ \A k \in 1 .. LeadingZeros(s) : s[k] = 0
         /\ LeadingZeros(s) < Len(s) => s[LeadingZeros(s) + 1] # 0
<1> DEFINE S == {n \in 0 .. Len(s) : n < Len(s) => s[n + 1] # 0}
<1>1. Len(s) \in S /\ S \in SUBSET Nat /\ S # {}
  OBVIOUS
<1>2. PICK m \in S : \A k \in S : m <= k
  <2> HIDE DEF S
  <2>1. QED
    BY <1>1, LeastElement
<1>3. \A k \in 1 .. m : s[k] = 0
  <2> SUFFICES ASSUME NEW k \in 1 .. m, s[k] # 0
               PROVE  FALSE
    OBVIOUS
  <2>1. k - 1 \in Nat /\ k - 1 + 1 = k /\ k - 1 \in 0 .. Len(s)
    BY <1>2
  <2>3. k - 1 \in S
    BY <2>1
  <2>4. m <= k - 1
    BY <1>2, <2>3
  <2>2. QED
    BY <1>2, <2>1, <2>4
<1>4. m \in 0 .. Len(s) /\ (\A k \in 1 .. m : s[k] = 0) /\ (m < Len(s) => s[m + 1] # 0)
  BY <1>2, <1>3
<1>5. QED
  BY <1>4 DEF LeadingZeros

----------------------------------------------------------------------------
(* Numbers written with digits. *)

\* z, and then for each digit times b and the digit
Horner(z, s, n, b) ==
  LET v[k \in 0 .. n] == IF k = 0 THEN z ELSE v[k - 1] * b + s[k] IN v[n]

\* what the first n digits of s stand for
Value(s, n, b) == Horner(0, s, n, b)

\* how many numbers n digits can stand for
Power(b, n) == Horner(1, [k \in Nat |-> 0], n, b)

\* v is the function of the first k digits that Horner defines
IsRun(v, z, s, k, b) == v = [j \in 0 .. k |-> IF j = 0 THEN z ELSE v[j - 1] * b + s[j]]

\* There is one.
LEMMA RunExists ==
  ASSUME NEW z \in Nat, NEW b \in Nat, NEW n \in Nat, NEW s, \A k \in 1 .. n : s[k] \in Nat
  PROVE  \E v \in [0 .. n -> Nat] : IsRun(v, z, s, n, b)
<1> DEFINE h == [k \in 1 .. n |-> [x \in Nat |-> x * b + s[k]]]
<1>1. h \in [1 .. n -> [Nat -> Nat]]
  OBVIOUS
<1>2. \A k \in 1 .. n, x \in Nat : h[k][x] = x * b + s[k]
  OBVIOUS
<1> HIDE DEF h
<1>3. PICK v \in [0 .. n -> Nat] : Iterates(v, z, n, h)
  BY <1>1, Recursion
<1>4. v[0] = z /\ \A k \in 1 .. n : v[k] = v[k - 1] * b + s[k]
  <2>1. \A k \in 1 .. n : v[k - 1] \in Nat /\ v[k] = h[k][v[k - 1]]
    BY <1>3 DEF Iterates
  <2>2. v[0] = z
    BY <1>3 DEF Iterates
  <2>3. QED
    BY <1>2, <2>1, <2>2
<1>5. IsRun(v, z, s, n, b)
  BY <1>3, <1>4 DEF IsRun
<1>6. QED
  BY <1>5

\* Where two overlap they agree.
LEMMA RunUnique ==
  ASSUME NEW z, NEW b, NEW s, NEW k \in Nat, NEW l \in Nat, k <= l,
         NEW v, IsRun(v, z, s, k, b), NEW w, IsRun(w, z, s, l, b)
  PROVE  \A j \in 0 .. k : v[j] = w[j]
<1> DEFINE S == {j \in 0 .. k : v[j] = w[j]}
<1>1. \A j \in 0 .. k : v[j] = IF j = 0 THEN z ELSE v[j - 1] * b + s[j]
  BY DEF IsRun
<1>2. \A j \in 0 .. l : w[j] = IF j = 0 THEN z ELSE w[j - 1] * b + s[j]
  BY DEF IsRun
<1>3. 0 \in S
  BY <1>1, <1>2
<1>4. ASSUME NEW j \in 0 .. k - 1, j \in S
      PROVE  j + 1 \in S
  <2>1. j + 1 \in 0 .. k /\ j + 1 \in 0 .. l /\ j + 1 # 0 /\ (j + 1) - 1 = j
    OBVIOUS
  <2>2. v[j + 1] = v[j] * b + s[j + 1] /\ w[j + 1] = w[j] * b + s[j + 1]
    BY <1>1, <1>2, <2>1
  <2>3. QED
    BY <1>4, <2>1, <2>2
<1> HIDE DEF S
<1>5. \A j \in 0 .. k : j \in S
  BY <1>3, <1>4, FiniteInduction
<1>6. QED
  BY <1>5 DEF S

\* A digit more.
LEMMA HornerFacts ==
  ASSUME NEW z \in Nat, NEW b \in Nat, NEW n \in Nat, NEW s, \A k \in 1 .. n : s[k] \in Nat
  PROVE  /\ Horner(z, s, 0, b) = z
         /\ \A k \in 0 .. n : Horner(z, s, k, b) \in Nat
         /\ \A k \in 0 .. n - 1 : Horner(z, s, k + 1, b) = Horner(z, s, k, b) * b + s[k + 1]
<1> DEFINE V(k) == CHOOSE v : IsRun(v, z, s, k, b)
<1>1. ASSUME NEW k \in 0 .. n
      PROVE  /\ IsRun(V(k), z, s, k, b) /\ Horner(z, s, k, b) = V(k)[k]
             /\ \A j \in 0 .. k : V(k)[j] \in Nat
  <2>1. k \in Nat /\ \A j \in 1 .. k : s[j] \in Nat
    OBVIOUS
  <2>2. PICK v \in [0 .. k -> Nat] : IsRun(v, z, s, k, b)
    BY <2>1, RunExists
  <2>3. IsRun(V(k), z, s, k, b)
    BY <2>2
  <2>4. Horner(z, s, k, b) = V(k)[k]
    BY DEF Horner, IsRun
  <2> HIDE DEF V
  <2>5. \A j \in 0 .. k : V(k)[j] = v[j]
    BY <2>1, <2>2, <2>3, RunUnique
  <2>6. QED
    BY <2>2, <2>3, <2>4, <2>5
<1> HIDE DEF V
<1>2. Horner(z, s, 0, b) = z
  <2>1. 0 \in 0 .. n
    OBVIOUS
  <2>2. V(0)[0] = z
    BY <1>1, <2>1 DEF IsRun
  <2>3. QED
    BY <1>1, <2>1, <2>2
<1>3. \A k \in 0 .. n : Horner(z, s, k, b) \in Nat
  BY <1>1
<1>4. ASSUME NEW k \in 0 .. n - 1
      PROVE  Horner(z, s, k + 1, b) = Horner(z, s, k, b) * b + s[k + 1]
  <2>1. k \in 0 .. n /\ k + 1 \in 0 .. n /\ k \in Nat /\ k + 1 \in Nat /\ k <= k + 1 /\ (k + 1) - 1 = k
        /\ k + 1 \in 0 .. k + 1 /\ k \in 0 .. k /\ k + 1 # 0
    OBVIOUS
  <2>2. V(k + 1)[k + 1] = V(k + 1)[k] * b + s[k + 1]
    <3>1. \A j \in 0 .. k + 1 : V(k + 1)[j] = IF j = 0 THEN z ELSE V(k + 1)[j - 1] * b + s[j]
      BY <1>1, <2>1 DEF IsRun
    <3>2. QED
      BY <2>1, <3>1
  <2>3. V(k)[k] = V(k + 1)[k]
    BY <1>1, <2>1, RunUnique
  <2>4. QED
    BY <1>1, <2>1, <2>2, <2>3
<1>5. QED
  BY <1>2, <1>3, <1>4

\* The value with a digit more.
LEMMA ValueFacts ==
  ASSUME NEW b \in Nat, NEW n \in Nat, NEW s, \A k \in 1 .. n : s[k] \in Nat
  PROVE  /\ Value(s, 0, b) = 0
         /\ \A k \in 0 .. n : Value(s, k, b) \in Nat
         /\ \A k \in 0 .. n - 1 : Value(s, k + 1, b) = Value(s, k, b) * b + s[k + 1]
<1>1. 0 \in Nat
  OBVIOUS
<1>2. QED
  BY <1>1, HornerFacts DEF Value

\* A power more.
LEMMA PowerFacts ==
  ASSUME NEW b \in Nat \ {0}
  PROVE  /\ Power(b, 0) = 1
         /\ \A k \in Nat : Power(b, k) \in Nat \ {0}
         /\ \A k \in Nat : Power(b, k + 1) = Power(b, k) * b
<1> DEFINE s == [k \in Nat |-> 0]
<1>1. ASSUME NEW n \in Nat
      PROVE  /\ Power(b, 0) = 1
             /\ \A k \in 0 .. n : Power(b, k) \in Nat
             /\ \A k \in 0 .. n - 1 : Power(b, k + 1) = Power(b, k) * b
  <2>1. 1 \in Nat /\ b \in Nat /\ \A k \in 1 .. n : s[k] = 0
    OBVIOUS
  <2>2. \A k : Power(b, k) = Horner(1, s, k, b)
    BY DEF Power
  <2> HIDE DEF s
  <2>3. /\ Horner(1, s, 0, b) = 1
        /\ \A k \in 0 .. n : Horner(1, s, k, b) \in Nat
        /\ \A k \in 0 .. n - 1 : Horner(1, s, k + 1, b) = Horner(1, s, k, b) * b + s[k + 1]
    BY <2>1, HornerFacts
  <2>4. ASSUME NEW k \in 0 .. n - 1
        PROVE  Power(b, k + 1) = Power(b, k) * b
    <3>1. s[k + 1] = 0 /\ Horner(1, s, k, b) * b \in Nat
      BY <2>1, <2>3
    <3>2. QED
      BY <2>2, <2>3, <3>1
  <2>5. QED
    BY <2>2, <2>3, <2>4
<1>2. \A k \in Nat : Power(b, k) \in Nat /\ Power(b, k + 1) = Power(b, k) * b
  <2> SUFFICES ASSUME NEW k \in Nat
               PROVE  Power(b, k) \in Nat /\ Power(b, k + 1) = Power(b, k) * b
    OBVIOUS
  <2>1. k + 1 \in Nat /\ k \in 0 .. (k + 1) - 1 /\ k \in 0 .. k + 1
    OBVIOUS
  <2>2. QED
    BY <1>1, <2>1
<1>3. Power(b, 0) = 1
  BY <1>1
<1> DEFINE S == {k \in Nat : Power(b, k) # 0}
<1>4. 0 \in S
  BY <1>3
<1>5. ASSUME NEW k \in Nat, k \in S
      PROVE  k + 1 \in S
  <2>1. Power(b, k) \in Nat \ {0} /\ Power(b, k + 1) = Power(b, k) * b
    BY <1>2, <1>5
  <2>2. Power(b, k) * b # 0
    BY <2>1
  <2>3. QED
    BY <2>1, <2>2
<1> HIDE DEF S
<1>6. \A k \in Nat : k \in S
  BY <1>4, <1>5, SetInduction
<1>7. QED
  BY <1>2, <1>3, <1>6 DEF S

\* every digit more to the base b stands for b times as many numbers
Multiplies(b) ==
  /\ Power(b, 0) = 1
  /\ \A k \in Nat : Power(b, k) \in Nat \ {0} /\ Power(b, k + 1) = Power(b, k) * b

\* So many numbers so many bytes can stand for.
LEMMA BytePowers ==
  /\ Power(256, 0) = 1
  /\ \A k \in Nat : Power(256, k) \in Nat \ {0} /\ Power(256, k + 1) = Power(256, k) * 256
<1>1. \A b \in Nat \ {0} : Multiplies(b)
  BY PowerFacts DEF Multiplies
<1>2. 256 \in Nat \ {0}
  OBVIOUS
<1>3. Multiplies(256)
  BY <1>1, <1>2
<1>4. QED
  BY <1>3 DEF Multiplies

\* A higher power is no less.
LEMMA PowerGrows ==
  ASSUME NEW b \in Nat \ {0}, NEW i \in Nat, NEW j \in Nat, i <= j
  PROVE  Power(b, i) <= Power(b, j)
<1> DEFINE S == {k \in i .. j : Power(b, i) <= Power(b, k)}
<1>1. \A k \in Nat : Power(b, k) \in Nat \ {0} /\ Power(b, k + 1) = Power(b, k) * b
  BY PowerFacts
<1>2. i \in S
  BY <1>1
<1>3. ASSUME NEW k \in i .. j - 1, k \in S
      PROVE  k + 1 \in S
  <2>1. k \in Nat /\ k + 1 \in i .. j /\ Power(b, i) <= Power(b, k) /\ Power(b, i) \in Nat
    BY <1>1, <1>3
  <2> DEFINE p == Power(b, k)
  <2>2. p \in Nat /\ Power(b, k + 1) = p * b
    BY <1>1, <2>1
  <2>3. 1 * p <= b * p
    <3> HIDE DEF p
    <3>1. 1 \in Int /\ b \in Int /\ 1 <= b /\ p \in Nat
      BY <2>2
    <3>2. QED
      BY <3>1, ProductMonotone
  <2>4. 1 * p = p /\ b * p = p * b /\ p * b \in Int
    BY <2>2
  <2>5. QED
    BY <2>1, <2>2, <2>3, <2>4
<1> HIDE DEF S
<1>4. i \in Int /\ j \in Int /\ j \in i .. j
  OBVIOUS
<1>5. \A k \in i .. j : k \in S
  BY <1>2, <1>3, <1>4, RangeInduction
<1>6. QED
  BY <1>4, <1>5 DEF S

\* Powers multiply.
LEMMA PowerAdd ==
  ASSUME NEW b \in Nat \ {0}, NEW i \in Nat, NEW j \in Nat
  PROVE  Power(b, i + j) = Power(b, i) * Power(b, j)
<1> DEFINE S == {k \in Nat : Power(b, i + k) = Power(b, i) * Power(b, k)}
<1>1. Power(b, 0) = 1 /\ \A k \in Nat : Power(b, k) \in Nat \ {0} /\ Power(b, k + 1) = Power(b, k) * b
  BY PowerFacts
<1>2. 0 \in S
  <2>1. Power(b, i) * 1 = Power(b, i) /\ i + 0 = i
    BY <1>1
  <2>2. QED
    BY <1>1, <2>1
<1>3. ASSUME NEW k \in Nat, k \in S
      PROVE  k + 1 \in S
  <2> DEFINE p == Power(b, i)
             q == Power(b, k)
  <2>1. p \in Nat /\ q \in Nat /\ Power(b, k + 1) = q * b /\ Power(b, (i + k) + 1) = Power(b, i + k) * b
    BY <1>1
  <2>2. Power(b, i + k) = p * q /\ (i + k) + 1 = i + (k + 1)
    BY <1>3
  <2> HIDE DEF p, q
  <2>3. (p * q) * b = p * (q * b)
    BY <2>1
  <2>4. QED
    BY <2>1, <2>2, <2>3 DEF p
<1> HIDE DEF S
<1>4. \A k \in Nat : k \in S
  BY <1>2, <1>3, SetInduction
<1>5. QED
  BY <1>4 DEF S

\* t has the digits of s after the first o
Shifted(t, s, o, n) == (\A k \in 1 .. o + n : s[k] \in Nat) /\ \A k \in 1 .. n : t[k] = s[o + k]

\* Equal digits have equal values.
LEMMA SameValue ==
  ASSUME NEW b \in Nat, NEW n \in Nat, NEW s, NEW t, NEW o \in Nat, Shifted(t, s, o, n), Value(s, o, b) = 0
  PROVE  \A k \in 0 .. n : Value(t, k, b) = Value(s, o + k, b)
<1> USE DEF Shifted
<1> DEFINE S == {k \in 0 .. n : Value(t, k, b) = Value(s, o + k, b)}
<1>1. \A k \in 1 .. n : o + k \in 1 .. o + n /\ t[k] \in Nat
  OBVIOUS
<1>2. /\ Value(t, 0, b) = 0
      /\ \A k \in 0 .. n - 1 : Value(t, k + 1, b) = Value(t, k, b) * b + t[k + 1]
  BY <1>1, ValueFacts
<1>3. \A k \in 0 .. (o + n) - 1 : Value(s, k + 1, b) = Value(s, k, b) * b + s[k + 1]
  <2>1. o + n \in Nat
    OBVIOUS
  <2>2. QED
    BY <2>1, ValueFacts
<1>4. 0 \in S
  <2>1. o + 0 = o
    OBVIOUS
  <2>2. QED
    BY <1>2, <2>1
<1>5. ASSUME NEW k \in 0 .. n - 1, k \in S
      PROVE  k + 1 \in S
  <2>1. o + k \in 0 .. (o + n) - 1 /\ (o + k) + 1 = o + (k + 1) /\ k + 1 \in 1 .. n /\ k + 1 \in 0 .. n
    OBVIOUS
  <2>2. Value(t, k + 1, b) = Value(t, k, b) * b + t[k + 1]
    BY <1>2
  <2>3. Value(s, o + (k + 1), b) = Value(s, o + k, b) * b + s[o + (k + 1)]
    BY <1>3, <2>1
  <2>4. t[k + 1] = s[o + (k + 1)]
    BY <2>1
  <2>5. QED
    BY <1>5, <2>1, <2>2, <2>3, <2>4
<1> HIDE DEF S
<1>6. \A k \in 0 .. n : k \in S
  BY <1>4, <1>5, FiniteInduction
<1>7. QED
  BY <1>6 DEF S

\* the first n digits of s are zero
Zeros(s, n) == \A k \in 1 .. n : s[k] = 0

\* Zeros have the value zero.
LEMMA ZerosValue ==
  ASSUME NEW b \in Nat, NEW n \in Nat, NEW s, Zeros(s, n)
  PROVE  \A k \in 0 .. n : Value(s, k, b) = 0
<1> USE DEF Zeros
<1> DEFINE S == {k \in 0 .. n : Value(s, k, b) = 0}
<1>1. /\ Value(s, 0, b) = 0
      /\ \A k \in 0 .. n - 1 : Value(s, k + 1, b) = Value(s, k, b) * b + s[k + 1]
  BY ValueFacts
<1>2. 0 \in S
  BY <1>1
<1>3. ASSUME NEW k \in 0 .. n - 1, k \in S
      PROVE  k + 1 \in S
  <2>1. k + 1 \in 1 .. n /\ 0 * b + 0 = 0 /\ k + 1 \in 0 .. n
    OBVIOUS
  <2>2. s[k + 1] = 0 /\ Value(s, k, b) = 0
    BY <1>3, <2>1
  <2>3. QED
    BY <1>1, <2>1, <2>2
<1> HIDE DEF S
<1>4. \A k \in 0 .. n : k \in S
  BY <1>2, <1>3, FiniteInduction
<1>5. QED
  BY <1>4 DEF S

\* n digits stand for a number below the power.
LEMMA ValueBelow ==
  ASSUME NEW b \in Nat \ {0}, NEW n \in Nat, NEW s, \A k \in 1 .. n : s[k] \in 0 .. b - 1
  PROVE  \A k \in 0 .. n : Value(s, k, b) \in Nat /\ Value(s, k, b) < Power(b, k)
<1> DEFINE S == {k \in 0 .. n : Value(s, k, b) < Power(b, k)}
<1>1. /\ Value(s, 0, b) = 0
      /\ \A k \in 0 .. n : Value(s, k, b) \in Nat
      /\ \A k \in 0 .. n - 1 : Value(s, k + 1, b) = Value(s, k, b) * b + s[k + 1]
  <2>1. b \in Nat /\ \A k \in 1 .. n : s[k] \in Nat
    OBVIOUS
  <2>2. QED
    BY <2>1, ValueFacts
<1>2. Power(b, 0) = 1 /\ \A k \in Nat : Power(b, k) \in Nat \ {0} /\ Power(b, k + 1) = Power(b, k) * b
  BY PowerFacts
<1>3. 0 \in S
  BY <1>1, <1>2
<1>4. ASSUME NEW k \in 0 .. n - 1, k \in S
      PROVE  k + 1 \in S
  <2> DEFINE v == Value(s, k, b)
             p == Power(b, k)
             d == s[k + 1]
  <2>1. k + 1 \in 1 .. n /\ k + 1 \in 0 .. n /\ k \in Nat /\ k \in 0 .. n
    OBVIOUS
  <2>2. v \in Nat /\ p \in Nat /\ v < p /\ d \in Nat /\ d < b
    BY <1>1, <1>2, <1>4, <2>1
  <2>3. Value(s, k + 1, b) = v * b + d /\ Power(b, k + 1) = p * b
    BY <1>1, <1>2, <2>1
  <2> HIDE DEF v, p, d
  <2>4. p * b >= v * b + b
    <3>1. p \in Int /\ v \in Int /\ b \in Nat /\ p >= v + 1
      BY <2>2
    <3>2. QED
      BY <3>1, ProductGrows
  <2>5. v * b \in Int /\ p * b \in Int
    BY <2>2
  <2>6. v * b + d < p * b
    BY <2>2, <2>4, <2>5
  <2>7. QED
    BY <2>1, <2>3, <2>6
<1> HIDE DEF S
<1>5. \A k \in 0 .. n : k \in S
  BY <1>3, <1>4, FiniteInduction
<1>6. QED
  BY <1>1, <1>5 DEF S

\* Not less digits, not less value; with a first digit it is at least a power.
LEMMA ValueAbove ==
  ASSUME NEW b \in Nat \ {0}, NEW n \in Nat \ {0}, NEW s, \A k \in 1 .. n : s[k] \in Nat, s[1] # 0
  PROVE  Power(b, n - 1) <= Value(s, n, b)
<1> DEFINE S == {k \in 1 .. n : Power(b, k - 1) <= Value(s, k, b)}
<1>1. /\ Value(s, 0, b) = 0
      /\ \A k \in 0 .. n : Value(s, k, b) \in Nat
      /\ \A k \in 0 .. n - 1 : Value(s, k + 1, b) = Value(s, k, b) * b + s[k + 1]
  <2>1. b \in Nat /\ n \in Nat
    OBVIOUS
  <2>2. QED
    BY <2>1, ValueFacts
<1>2. Power(b, 0) = 1 /\ \A k \in Nat : Power(b, k) \in Nat \ {0} /\ Power(b, k + 1) = Power(b, k) * b
  BY PowerFacts
<1>3. 1 \in S
  <2>1. Value(s, 0 + 1, b) = 0 * b + s[0 + 1] /\ 0 + 1 = 1 /\ s[1] \in Nat /\ 1 - 1 = 0 /\ 0 * b = 0
    BY <1>1
  <2>2. Value(s, 1, b) = s[1]
    BY <2>1
  <2>3. QED
    BY <1>2, <2>1, <2>2
<1>4. ASSUME NEW k \in 1 .. n - 1, k \in S
      PROVE  k + 1 \in S
  <2> DEFINE v == Value(s, k, b)
             p == Power(b, k - 1)
             d == s[k + 1]
  <2>1. /\ k + 1 \in 1 .. n /\ k \in 0 .. n /\ k \in 0 .. n - 1 /\ k - 1 \in Nat
        /\ (k - 1) + 1 = k /\ (k + 1) - 1 = k
    OBVIOUS
  <2>2. v \in Nat /\ p \in Nat /\ p <= v /\ d \in Nat
    BY <1>1, <1>2, <1>4, <2>1
  <2>3. Value(s, k + 1, b) = v * b + d /\ Power(b, (k + 1) - 1) = p * b
    <3>1. Power(b, (k - 1) + 1) = p * b
      BY <1>2, <2>1
    <3>2. QED
      BY <1>1, <2>1, <3>1
  <2> HIDE DEF v, p, d
  <2>4. p * b <= v * b /\ v * b \in Int /\ p * b \in Int
    BY <2>2, ProductMonotone
  <2>5. p * b <= v * b + d
    BY <2>2, <2>4
  <2>6. QED
    BY <2>1, <2>3, <2>5
<1> HIDE DEF S
<1>5. 1 \in Int /\ n \in Int /\ n \in 1 .. n
  OBVIOUS
<1>6. \A k \in 1 .. n : k \in S
  BY <1>3, <1>4, <1>5, RangeInduction
<1>7. QED
  BY <1>5, <1>6 DEF S

\* the first n items of s are digits
AreDigits(s, n, b) == \A k \in 1 .. n : s[k] \in 0 .. b - 1

\* The same number with as many digits has the same digits.
LEMMA SameDigits ==
  ASSUME NEW b \in Nat \ {0}, NEW n \in Nat, NEW s, NEW t,
         AreDigits(s, n, b), AreDigits(t, n, b), Value(s, n, b) = Value(t, n, b)
  PROVE  \A k \in 1 .. n : s[k] = t[k]
<1> USE DEF AreDigits
<1> DEFINE S == {k \in 0 .. n : Value(s, k, b) = Value(t, k, b) => \A j \in 1 .. k : s[j] = t[j]}
<1>1. /\ \A k \in 0 .. n : Value(s, k, b) \in Nat
      /\ \A k \in 0 .. n - 1 : Value(s, k + 1, b) = Value(s, k, b) * b + s[k + 1]
  <2>1. b \in Nat /\ \A k \in 1 .. n : s[k] \in Nat
    OBVIOUS
  <2>2. QED
    BY <2>1, ValueFacts, ZenonT(60)
<1>2. /\ \A k \in 0 .. n : Value(t, k, b) \in Nat
      /\ \A k \in 0 .. n - 1 : Value(t, k + 1, b) = Value(t, k, b) * b + t[k + 1]
  <2>1. b \in Nat /\ \A k \in 1 .. n : t[k] \in Nat
    OBVIOUS
  <2>2. QED
    BY <2>1, ValueFacts, SMTT(30)
<1>3. 0 \in S
  OBVIOUS
<1>4. ASSUME NEW k \in 0 .. n - 1, k \in S
      PROVE  k + 1 \in S
  <2> SUFFICES ASSUME Value(s, k + 1, b) = Value(t, k + 1, b)
               PROVE  \A j \in 1 .. k + 1 : s[j] = t[j]
    OBVIOUS
  <2> DEFINE v == Value(s, k, b)
             w == Value(t, k, b)
             x == s[k + 1]
             y == t[k + 1]
             a == Value(s, k + 1, b)
  <2>1. v \in Int /\ w \in Int /\ x \in Int /\ y \in Int /\ 0 <= x /\ 0 <= y /\ x < b /\ y < b
    <3>1. k + 1 \in 1 .. n /\ k \in 0 .. n
      OBVIOUS
    <3>2. x \in 0 .. b - 1 /\ y \in 0 .. b - 1
      BY <3>1
    <3>3. QED
      BY <1>1, <1>2, <3>1, <3>2
  <2>2. a = v * b + x /\ a = w * b + y /\ a \in Int
    <3>1. k + 1 \in 0 .. n
      OBVIOUS
    <3>2. QED
      BY <1>1, <1>2, <3>1
  <2> HIDE DEF v, w, x, y, a
  <2>3. a \div b = v /\ a % b = x
    <3>1. a = v * b + x /\ a \in Int /\ v \in Int /\ x \in Int /\ 0 <= x /\ x < b /\ b \in Nat \ {0}
      BY <2>1, <2>2
    <3>2. QED
      BY <3>1, DivUnique
  <2>4. a \div b = w /\ a % b = y
    <3>1. a = w * b + y /\ a \in Int
      BY <2>2
    <3>2. QED
      BY <2>1, <3>1, DivUnique, ZenonT(60)
  <2>5. s[k + 1] = t[k + 1] /\ Value(s, k, b) = Value(t, k, b)
    BY <2>3, <2>4 DEF v, w, x, y
  <2>6. QED
    BY <1>4, <2>5
<1> HIDE DEF S
<1>5. \A k \in 0 .. n : k \in S
  BY <1>3, <1>4, FiniteInduction
<1>6. QED
  BY <1>5 DEF S

\* digits with no zero in front
Canonical(s, b) == s \in Seq(0 .. b - 1) /\ (s # <<>> => s[1] # 0)

\* Without zeros in front there is one way to write a number.
LEMMA CanonicalUnique ==
  ASSUME NEW b \in Nat \ {0}, NEW s, NEW t, Canonical(s, b), Canonical(t, b),
         Value(s, Len(s), b) = Value(t, Len(t), b)
  PROVE  s = t
<1>1. ASSUME NEW x, NEW y, Canonical(x, b), Canonical(y, b), Value(x, Len(x), b) = Value(y, Len(y), b)
      PROVE  ~(Len(x) < Len(y))
  <2> SUFFICES ASSUME Len(x) < Len(y)
               PROVE  FALSE
    OBVIOUS
  <2>1. x \in Seq(0 .. b - 1) /\ y \in Seq(0 .. b - 1) /\ Len(x) \in Nat /\ Len(y) \in Nat \ {0} /\ y # <<>>
    BY <1>1 DEF Canonical
  <2>2. Value(x, Len(x), b) \in Nat /\ Value(x, Len(x), b) < Power(b, Len(x))
    <3>1. \A k \in 1 .. Len(x) : x[k] \in 0 .. b - 1
      BY <2>1
    <3>2. Len(x) \in 0 .. Len(x)
      BY <2>1
    <3>3. QED
      BY <2>1, <3>1, <3>2, ValueBelow
  <2>3. Power(b, Len(y) - 1) <= Value(y, Len(y), b)
    <3>1. \A k \in 1 .. Len(y) : y[k] \in Nat
      BY <2>1
    <3>2. y[1] # 0
      BY <1>1, <2>1 DEF Canonical
    <3>3. QED
      BY <2>1, <3>1, <3>2, ValueAbove
  <2>4. Power(b, Len(x)) <= Power(b, Len(y) - 1)
    <3>1. Len(y) - 1 \in Nat /\ Len(x) <= Len(y) - 1
      BY <2>1
    <3>2. QED
      BY <2>1, <3>1, PowerGrows
  <2>5. Power(b, Len(x)) \in Nat /\ Power(b, Len(y) - 1) \in Nat
    <3>1. Len(y) - 1 \in Nat
      BY <2>1
    <3>2. QED
      BY <2>1, <3>1, PowerFacts
  <2>6. QED
    BY <1>1, <2>2, <2>3, <2>4, <2>5
<1>2. s \in Seq(0 .. b - 1) /\ t \in Seq(0 .. b - 1) /\ Len(s) \in Nat /\ Len(t) \in Nat
  BY DEF Canonical
<1>3. Len(s) = Len(t)
  <2>1. ~(Len(s) < Len(t)) /\ ~(Len(t) < Len(s))
    BY <1>1
  <2>2. QED
    BY <1>2, <2>1
<1>4. \A k \in 1 .. Len(s) : s[k] \in 0 .. b - 1 /\ t[k] \in 0 .. b - 1
  BY <1>2, <1>3
<1>5. \A k \in 1 .. Len(s) : s[k] = t[k]
  <2>1. PICK n \in Nat : n = Len(s)
    BY <1>2
  <2>2. AreDigits(s, n, b)
    BY <1>4, <2>1 DEF AreDigits
  <2>3. AreDigits(t, n, b)
    BY <1>4, <2>1 DEF AreDigits
  <2>4. Value(s, n, b) = Value(t, n, b)
    BY <1>3, <2>1
  <2>5. \A k \in 1 .. n : s[k] = t[k]
    BY <2>2, <2>3, <2>4, SameDigits
  <2>6. QED
    BY <2>1, <2>5
<1>6. QED
  BY <1>2, <1>3, <1>5, SMTT(30)

\* a loop from the last digit of s to the first, which multiplies each by m and
\* adds the carry, leaves the digits d and the carries c
Carries(s, m, d, c, n, b) ==
  /\ \A k \in 1 .. n : s[k] \in Nat /\ d[k] \in Nat
  /\ \A k \in 1 .. n + 1 : c[k] \in Nat
  /\ \A k \in 1 .. n : c[k] * b + d[k] = s[k] * m + c[k + 1]

\* Digits and carry together are the product.
LEMMA CarryValue ==
  ASSUME NEW b \in Nat \ {0}, NEW m \in Nat, NEW n \in Nat, NEW s, NEW d, NEW c, Carries(s, m, d, c, n, b)
  PROVE  Value(s, n, b) * m + c[n + 1] = Value(d, n, b) + c[1] * Power(b, n)
<1> USE DEF Carries
<1> DEFINE S == {k \in 0 .. n : Value(s, k, b) * m + c[k + 1] = Value(d, k, b) + c[1] * Power(b, k)}
<1>1. /\ Value(s, 0, b) = 0
      /\ \A k \in 0 .. n : Value(s, k, b) \in Nat
      /\ \A k \in 0 .. n - 1 : Value(s, k + 1, b) = Value(s, k, b) * b + s[k + 1]
  <2>1. b \in Nat /\ \A k \in 1 .. n : s[k] \in Nat
    OBVIOUS
  <2> HIDE DEF Carries
  <2>2. QED
    BY <2>1, ValueFacts
<1>2. /\ Value(d, 0, b) = 0
      /\ \A k \in 0 .. n : Value(d, k, b) \in Nat
      /\ \A k \in 0 .. n - 1 : Value(d, k + 1, b) = Value(d, k, b) * b + d[k + 1]
  <2>1. b \in Nat /\ \A k \in 1 .. n : d[k] \in Nat
    OBVIOUS
  <2> HIDE DEF Carries
  <2>2. QED
    BY <2>1, ValueFacts
<1>3. Power(b, 0) = 1 /\ \A k \in Nat : Power(b, k) \in Nat \ {0} /\ Power(b, k + 1) = Power(b, k) * b
  BY PowerFacts
<1>4. 0 \in S
  <2>1. c[1] \in Nat /\ 0 + 1 = 1 /\ 0 * m = 0 /\ c[1] * 1 = c[1]
    OBVIOUS
  <2>2. QED
    BY <1>1, <1>2, <1>3, <2>1, SMTT(30)
<1>5. ASSUME NEW k \in 0 .. n - 1, k \in S
      PROVE  k + 1 \in S
  <2> DEFINE v == Value(s, k, b)
             w == Value(d, k, b)
             p == Power(b, k)
             x == s[k + 1]
             y == d[k + 1]
             e == c[k + 1]
             f == c[k + 2]
             g == c[1]
  <2>1. k + 1 \in 1 .. n /\ k \in 0 .. n /\ k \in Nat /\ k + 1 \in 1 .. n + 1 /\ k + 2 \in 1 .. n + 1
        /\ 1 \in 1 .. n + 1 /\ (k + 1) + 1 = k + 2 /\ k + 1 \in 0 .. n
    OBVIOUS
  <2>2. /\ v \in Int /\ w \in Int /\ p \in Int /\ x \in Int /\ y \in Int
        /\ e \in Int /\ f \in Int /\ g \in Int
    BY <1>1, <1>2, <1>3, <2>1, SMTT(30)
  <2>3. v * m + e = w + g * p
    BY <1>5
  <2>4. e * b + y = x * m + f
    BY <2>1
  <2>5. /\ Value(s, k + 1, b) = v * b + x /\ Value(d, k + 1, b) = w * b + y
        /\ Power(b, k + 1) = p * b /\ c[(k + 1) + 1] = f /\ c[1] = g
    BY <1>1, <1>2, <1>3, <2>1
  <2> HIDE DEF v, w, p, x, y, e, f, g
  <2>6. (v * b + x) * m + f = (w * b + y) + g * (p * b)
    <3>1. (v * b + x) * m + f = (v * m) * b + (x * m + f)
      <4>1. (v * b + x) * m = (v * m) * b + x * m
        BY <2>2
      <4>2. (v * m) * b \in Int /\ x * m \in Int
        BY <2>2
      <4>3. QED
        BY <2>2, <4>1, <4>2
    <3>2. (v * m) * b + (e * b + y) = (v * m + e) * b + y
      <4> DEFINE u == v * m
      <4>1. u \in Int
        BY <2>2
      <4> HIDE DEF u
      <4>2. (u + e) * b = u * b + e * b /\ u * b \in Int /\ e * b \in Int
        BY <2>2, <4>1
      <4>3. u * b + (e * b + y) = (u + e) * b + y
        BY <2>2, <4>2
      <4>4. QED
        BY <4>3 DEF u
    <3>3. (w + g * p) * b + y = (w * b + y) + g * (p * b)
      <4>1. (w + g * p) * b = w * b + g * (p * b) /\ w * b \in Int /\ g * (p * b) \in Int
        BY <2>2
      <4>2. QED
        BY <2>2, <4>1
    <3>4. QED
      BY <2>3, <2>4, <3>1, <3>2, <3>3
  <2>7. QED
    BY <2>1, <2>5, <2>6
<1> HIDE DEF S
<1>6. \A k \in 0 .. n : k \in S
  BY <1>4, <1>5, FiniteInduction
<1>7. QED
  BY <1>6 DEF S

\* the items of d are put in front, from n down
Prepends(q, d, n) == q[n + 1] = <<>> /\ \A j \in 1 .. n : q[j] = <<d[j]>> \o q[j + 1]

\* s has the items of d
Consists(s, d, n, A) == s \in Seq(A) /\ Len(s) = n /\ \A k \in 1 .. n : s[k] = d[k]

\* What is put in front of a sequence, one item after the other, is in it.
LEMMA Prepended ==
  ASSUME NEW n \in Nat, NEW A, NEW d \in [1 .. n -> A], NEW q, Prepends(q, d, n)
  PROVE  Consists(q[1], d, n, A)
<1> USE DEF Prepends, Consists
<1> DEFINE S == {j \in 1 .. n + 1 : /\ q[j] \in Seq(A) /\ Len(q[j]) = (n + 1) - j
                                    /\ \A x \in 1 .. (n + 1) - j : q[j][x] = d[(j + x) - 1]}
<1>1. n + 1 \in S
  <2>1. /\ q[n + 1] \in Seq(A) /\ Len(q[n + 1]) = 0 /\ (n + 1) - (n + 1) = 0
        /\ n + 1 \in 1 .. n + 1 /\ 1 .. 0 = {}
    OBVIOUS
  <2>2. QED
    BY <2>1
<1>2. ASSUME NEW j \in 1 .. n, j + 1 \in S
      PROVE  j \in S
  <2> DEFINE r == q[j + 1]
             m == (n + 1) - (j + 1)
  <2>1. r \in Seq(A) /\ Len(r) = m /\ m \in Nat /\ \A x \in 1 .. m : r[x] = d[((j + 1) + x) - 1]
    BY <1>2
  <2>2. d[j] \in A /\ q[j] = <<d[j]>> \o r /\ (n + 1) - j = m + 1
    OBVIOUS
  <2> HIDE DEF r
  <2>3. /\ q[j] \in Seq(A) /\ Len(q[j]) = m + 1
        /\ q[j][1] = d[j] /\ \A x \in 2 .. m + 1 : q[j][x] = r[x - 1]
    <3> HIDE DEF m
    <3>1. <<d[j]>> \in Seq(A) /\ Len(<<d[j]>>) = 1
      BY <2>2
    <3>2. QED
      BY <2>1, <2>2, <3>1
  <2>4. ASSUME NEW x \in 1 .. m + 1
        PROVE  q[j][x] = d[(j + x) - 1]
    <3>1. CASE x = 1
      <4>1. (j + x) - 1 = j
        BY <3>1
      <4>2. QED
        BY <2>3, <3>1, <4>1
    <3>2. CASE x # 1
      <4>1. x \in 2 .. m + 1 /\ x - 1 \in 1 .. m /\ ((j + 1) + (x - 1)) - 1 = (j + x) - 1
        BY <2>1, <3>2
      <4>2. q[j][x] = r[x - 1] /\ r[x - 1] = d[((j + 1) + (x - 1)) - 1]
        BY <2>1, <2>3, <4>1
      <4>3. QED
        BY <4>1, <4>2
    <3>3. QED
      BY <3>1, <3>2
  <2>5. j \in 1 .. n + 1
    OBVIOUS
  <2>6. QED
    BY <2>2, <2>3, <2>4, <2>5
<1> HIDE DEF S
<1>3. \A j \in 1 .. n + 1 : j \in S
  BY <1>1, <1>2, BackInduction
<1>4. 1 \in S /\ (n + 1) - 1 = n /\ \A x \in 1 .. n : (1 + x) - 1 = x
  BY <1>3
<1>5. QED
  BY <1>4 DEF S

----------------------------------------------------------------------------
(* b58tobin. *)

\* what a loop over the limbs leaves: a carry and the limbs it has written
Limbs == [carry : Nat, outi : Seq(Nat)]

\* There are limbs, each with its values.
LEMMA LimbFacts == /\ LimbBytes \in Nat \ {0} /\ KeySize \in Nat \ {0} /\ Outisz \in Nat
                   /\ KeySize = LimbBytes * Outisz /\ Limb \in Nat \ {0}
<1>1. LimbBytes \in Nat \ {0} /\ KeySize \in Nat \ {0} /\ KeySize % LimbBytes = 0
  BY KeySizeAssumption, LimbsAssumption
<1>2. Outisz \in Nat /\ LimbBytes * Outisz = KeySize
  BY <1>1, DivFacts DEF Outisz
<1>3. Limb \in Nat \ {0}
  <2>1. LimbBytes \in 0 .. LimbBytes
    BY <1>1
  <2>2. QED
    BY <2>1, ValuesTyped DEF Limb
<1>4. QED
  BY <1>1, <1>2, <1>3

(* The inner loop of b58tobin writes every limb, and with the carry they    *)
(* are the product and the digit.                                           *)
LEMMA MultiplyFacts ==
  ASSUME NEW outi \in Seq(Nat), Len(outi) = Outisz, NEW digit \in Nat
  PROVE  /\ Multiply(outi, digit) \in Limbs /\ Len(Multiply(outi, digit).outi) = Outisz
         /\ AreDigits(Multiply(outi, digit).outi, Outisz, Limb)
         /\ Value(outi, Outisz, Limb) * 58 + digit
              = Value(Multiply(outi, digit).outi, Outisz, Limb)
                  + Multiply(outi, digit).carry * Power(Limb, Outisz)
<1> DEFINE N == Outisz
           First == [carry |-> digit, outi |-> <<>>]
           T(x, j) == outi[j] * 58 + x.carry
           Step(x, j) == [carry |-> T(x, j) \div Limb, outi |-> <<T(x, j) % Limb>> \o x.outi]
           Eq(g) == g = [j \in 1 .. N + 1 |-> IF j > N THEN First ELSE Step(g[j + 1], j)]
           f == CHOOSE g : Eq(g)
           h == [j \in 1 .. N |-> [x \in Limbs |-> Step(x, j)]]
<1>1. Multiply(outi, digit) = f[1]
  BY DEF Multiply
<1>2. N \in Nat /\ Limb \in Nat \ {0} /\ \A j \in 1 .. N : outi[j] \in Nat
  BY LimbFacts
<1> HIDE DEF N
<1>3. First \in Limbs /\ First.carry = digit /\ First.outi = <<>>
  BY DEF Limbs
<1>4. ASSUME NEW x \in Limbs, NEW j \in 1 .. N
      PROVE  /\ Step(x, j) \in Limbs /\ Step(x, j).outi = <<T(x, j) % Limb>> \o x.outi
             /\ T(x, j) % Limb \in 0 .. Limb - 1 /\ x.carry \in Nat
             /\ Step(x, j).carry * Limb + (T(x, j) % Limb) = outi[j] * 58 + x.carry
  <2>1. T(x, j) \in Nat /\ x.outi \in Seq(Nat) /\ x.carry \in Nat
    BY <1>2 DEF Limbs
  <2>2. T(x, j) = outi[j] * 58 + x.carry /\ Step(x, j).carry = T(x, j) \div Limb
        /\ Step(x, j).outi = <<T(x, j) % Limb>> \o x.outi
    OBVIOUS
  <2>3. Step(x, j) = [carry |-> T(x, j) \div Limb, outi |-> <<T(x, j) % Limb>> \o x.outi]
    OBVIOUS
  <2> HIDE DEF T, Step
  <2>4. /\ T(x, j) \div Limb \in Nat /\ T(x, j) % Limb \in Nat /\ T(x, j) % Limb < Limb
        /\ (T(x, j) \div Limb) * Limb + (T(x, j) % Limb) = T(x, j)
    <3>1. PICK y \in Nat : y = T(x, j)
      BY <2>1
    <3>2. y \in Int /\ y \div Limb \in Nat /\ y % Limb \in Nat /\ y % Limb < Limb
      BY <1>2, DivFacts
    <3>3. (y \div Limb) * Limb + (y % Limb) = y
      BY <1>2, <3>2, DivMod
    <3>4. QED
      BY <3>1, <3>2, <3>3
  <2>5. Step(x, j) \in Limbs
    BY <2>1, <2>3, <2>4 DEF Limbs
  <2>6. QED
    BY <1>2, <2>1, <2>2, <2>4, <2>5
<1>5. \E g : Eq(g)
  <2>1. h \in [1 .. N -> [Limbs -> Limbs]]
    BY <1>4
  <2>2. \A x \in Limbs : \A j \in 1 .. N : h[j][x] = Step(x, j)
    OBVIOUS
  <2> HIDE DEF h, First, Step
  <2>3. PICK g \in [1 .. N + 1 -> Limbs] : IteratesBack(g, First, N, h)
    BY <1>2, <1>3, <2>1, BackRecursion
  <2>4. \A j \in 1 .. N + 1 : g[j] = IF j > N THEN First ELSE Step(g[j + 1], j)
    <3>1. \A j \in 1 .. N : g[j + 1] \in Limbs
      BY <1>2, <2>3
    <3>2. \A j \in 1 .. N : g[j] = Step(g[j + 1], j)
      BY <2>2, <2>3, <3>1 DEF IteratesBack
    <3>3. \A j \in 1 .. N + 1 : (j > N => j = N + 1) /\ (~(j > N) => j \in 1 .. N)
      BY <1>2
    <3>4. QED
      BY <2>3, <3>2, <3>3 DEF IteratesBack
  <2>5. Eq(g)
    BY <2>3, <2>4
  <2>6. QED
    BY <2>5
<1>6. Eq(f)
  <2> HIDE DEF Eq
  <2>1. QED
    BY <1>5
<1> HIDE DEF f, First, Step
<1>7. f[N + 1] = First /\ \A j \in 1 .. N : f[j] = Step(f[j + 1], j)
  <2>1. \A j \in 1 .. N + 1 : f[j] = IF j > N THEN First ELSE Step(f[j + 1], j)
    BY <1>6, Zenon
  <2>2. N + 1 \in 1 .. N + 1 /\ N + 1 > N /\ \A j \in 1 .. N : j \in 1 .. N + 1 /\ ~(j > N)
    BY <1>2
  <2>3. QED
    BY <2>1, <2>2
<1> HIDE DEF Eq, T
<1>8. \A j \in 1 .. N + 1 : f[j] \in Limbs
  <2> DEFINE S == {j \in 1 .. N + 1 : f[j] \in Limbs}
  <2>1. N + 1 \in S
    BY <1>2, <1>3, <1>7
  <2>2. ASSUME NEW j \in 1 .. N, j + 1 \in S
        PROVE  j \in S
    <3>1. j \in 1 .. N + 1
      BY <1>2
    <3>2. QED
      BY <1>4, <1>7, <2>2, <3>1
  <2> HIDE DEF S
  <2>3. \A j \in 1 .. N + 1 : j \in S
    BY <1>2, <2>1, <2>2, BackInduction
  <2>4. QED
    BY <2>3 DEF S
<1> DEFINE d == [j \in 1 .. N |-> T(f[j + 1], j) % Limb]
           q == [j \in 1 .. N + 1 |-> f[j].outi]
           c == [j \in 1 .. N + 1 |-> f[j].carry]
<1>9. \A j \in 1 .. N : j \in 1 .. N + 1 /\ j + 1 \in 1 .. N + 1
  BY <1>2
<1>10. /\ d \in [1 .. N -> 0 .. Limb - 1] /\ q[N + 1] = <<>> /\ c[N + 1] = digit
       /\ \A j \in 1 .. N + 1 : c[j] \in Nat
       /\ \A j \in 1 .. N : q[j] = <<d[j]>> \o q[j + 1]
       /\ \A j \in 1 .. N : c[j] * Limb + d[j] = outi[j] * 58 + c[j + 1]
  <2>1. N + 1 \in 1 .. N + 1
    BY <1>2
  <2>2. d \in [1 .. N -> 0 .. Limb - 1]
    BY <1>4, <1>8, <1>9
  <2>3. q[N + 1] = <<>> /\ c[N + 1] = digit
    BY <1>3, <1>7, <2>1
  <2>4. \A j \in 1 .. N + 1 : c[j] \in Nat
    BY <1>8 DEF Limbs
  <2>5. ASSUME NEW j \in 1 .. N
        PROVE  q[j] = <<d[j]>> \o q[j + 1] /\ c[j] * Limb + d[j] = outi[j] * 58 + c[j + 1]
    <3>1. f[j + 1] \in Limbs /\ f[j] = Step(f[j + 1], j)
      BY <1>7, <1>8, <1>9
    <3>2. /\ q[j] = f[j].outi /\ q[j + 1] = f[j + 1].outi /\ d[j] = T(f[j + 1], j) % Limb
          /\ c[j] = f[j].carry /\ c[j + 1] = f[j + 1].carry
      BY <1>9
    <3>3. /\ Step(f[j + 1], j).outi = <<T(f[j + 1], j) % Limb>> \o f[j + 1].outi
          /\ Step(f[j + 1], j).carry * Limb + (T(f[j + 1], j) % Limb) = outi[j] * 58 + f[j + 1].carry
      BY <1>4, <3>1
    <3>4. q[j] = <<d[j]>> \o q[j + 1]
      BY <3>1, <3>2, <3>3
    <3>5. c[j] * Limb + d[j] = outi[j] * 58 + c[j + 1]
      BY <3>1, <3>2, <3>3
    <3>6. QED
      BY <3>4, <3>5
  <2>6. QED
    BY <2>2, <2>3, <2>4, <2>5
<1>11. f[1].outi = q[1] /\ f[1].carry = c[1] /\ f[1] \in Limbs
  BY <1>2, <1>8
<1> HIDE DEF d, q, c
<1>12. q[1] \in Seq(0 .. Limb - 1) /\ Len(q[1]) = N /\ \A k \in 1 .. N : q[1][k] = d[k]
  <2>1. N \in Nat /\ d \in [1 .. N -> 0 .. Limb - 1]
    BY <1>2, <1>10
  <2>2. Prepends(q, d, N)
    BY <1>10 DEF Prepends
  <2>3. Consists(q[1], d, N, 0 .. Limb - 1)
    BY <2>1, <2>2, Prepended
  <2>4. QED
    BY <2>3 DEF Consists
<1>13. AreDigits(q[1], N, Limb)
  BY <1>10, <1>12 DEF AreDigits
<1>14. Value(outi, N, Limb) * 58 + digit = Value(q[1], N, Limb) + c[1] * Power(Limb, N)
  <2> DEFINE e == q[1]
  <2>1. \A k \in 1 .. N : e[k] \in Nat /\ e[k] = d[k]
    <3>1. \A k \in 1 .. N : d[k] \in 0 .. Limb - 1
      BY <1>10
    <3>2. QED
      BY <1>2, <1>12, <3>1
  <2> HIDE DEF e
  <2>2. Carries(outi, 58, e, c, N, Limb)
    <3>1. \A k \in 1 .. N : c[k] * Limb + e[k] = outi[k] * 58 + c[k + 1]
      BY <1>10, <2>1
    <3>2. QED
      BY <1>2, <1>10, <2>1, <3>1 DEF Carries
  <2>3. 58 \in Nat
    OBVIOUS
  <2>4. Value(outi, N, Limb) * 58 + c[N + 1] = Value(e, N, Limb) + c[1] * Power(Limb, N)
    BY <1>2, <2>2, <2>3, CarryValue
  <2>5. QED
    BY <1>10, <2>4 DEF e
<1>15. QED
  BY <1>1, <1>11, <1>12, <1>13, <1>14 DEF N

\* what the outer loop has after k letters: the number of those, or a carry if
\* they are not all digits or stand for too much
ReadSoFar(x, text, k) ==
  /\ x.carry \in Nat
  /\ x.carry = 0 => /\ AreDigits(text, k, 58)
                    /\ x.outi \in Seq(Nat) /\ Len(x.outi) = Outisz /\ AreDigits(x.outi, Outisz, Limb)
                    /\ Value(x.outi, Outisz, Limb) = Value(text, k, 58)
  /\ x.carry # 0 /\ AreDigits(text, k, 58) => Power(Limb, Outisz) <= Value(text, k, 58)

\* Digits are numbers below the base.
LEMMA DigitsBelow ==
  ASSUME NEW s, NEW n \in Nat, NEW b \in Nat, AreDigits(s, n, b)
  PROVE  \A k \in 1 .. n : s[k] \in Nat /\ s[k] < b
BY DEF AreDigits

\* The values of digits.
LEMMA DigitsFacts ==
  ASSUME NEW s, NEW n \in Nat, NEW b \in Nat, AreDigits(s, n, b)
  PROVE  /\ Value(s, 0, b) = 0
         /\ \A k \in 0 .. n : Value(s, k, b) \in Nat
         /\ \A k \in 0 .. n - 1 : Value(s, k + 1, b) = Value(s, k, b) * b + s[k + 1]
<1>1. \A k \in 1 .. n : s[k] \in Nat
  BY DigitsBelow
<1>2. QED
  BY <1>1, ValueFacts

\* Fewer digits are digits, and so is one more that is one.
LEMMA DigitsPrefix ==
  ASSUME NEW s, NEW b, NEW k \in Nat
  PROVE  AreDigits(s, k + 1, b) <=> AreDigits(s, k, b) /\ s[k + 1] \in 0 .. b - 1
<1>1. \A j \in 1 .. k : j \in 1 .. k + 1
  OBVIOUS
<1>2. k + 1 \in 1 .. k + 1 /\ \A j \in 1 .. k + 1 : j \in 1 .. k \/ j = k + 1
  OBVIOUS
<1>3. AreDigits(s, k + 1, b) => AreDigits(s, k, b) /\ s[k + 1] \in 0 .. b - 1
  BY <1>1, <1>2 DEF AreDigits
<1>4. AreDigits(s, k, b) /\ s[k + 1] \in 0 .. b - 1 => AreDigits(s, k + 1, b)
  BY <1>2 DEF AreDigits
<1>5. QED
  BY <1>3, <1>4

\* The value with a digit more, for digits.
LEMMA DigitsValue ==
  ASSUME NEW s, NEW b \in Nat \ {0}, NEW k \in Nat, AreDigits(s, k + 1, b)
  PROVE  /\ Value(s, k, b) \in Nat /\ s[k + 1] \in 0 .. b - 1
         /\ Value(s, k + 1, b) = Value(s, k, b) * b + s[k + 1]
<1>1. b \in Nat /\ k + 1 \in Nat /\ k \in 0 .. (k + 1) - 1 /\ k \in 0 .. k + 1 /\ k + 1 \in 1 .. k + 1
  OBVIOUS
<1>2. \A j \in 1 .. k + 1 : s[j] \in Nat
  BY DEF AreDigits
<1>3. /\ \A j \in 0 .. k + 1 : Value(s, j, b) \in Nat
      /\ \A j \in 0 .. (k + 1) - 1 : Value(s, j + 1, b) = Value(s, j, b) * b + s[j + 1]
  BY <1>1, <1>2, ValueFacts
<1>4. s[k + 1] \in 0 .. b - 1
  BY <1>1 DEF AreDigits
<1>5. QED
  BY <1>1, <1>3, <1>4

\* A letter more.
LEMMA ReadMore ==
  ASSUME NEW x, NEW text, NEW k \in Nat, ReadSoFar(x, text, k), text[k + 1] \in Digit \cup {NoDigit}
  PROVE  /\ x.carry # 0 \/ text[k + 1] = NoDigit => ReadSoFar([carry |-> 1, outi |-> <<>>], text, k + 1)
         /\ ~(x.carry # 0 \/ text[k + 1] = NoDigit) => ReadSoFar(Multiply(x.outi, text[k + 1]), text, k + 1)
<1>1. 58 \in Nat \ {0} /\ Outisz \in Nat /\ Limb \in Nat \ {0}
  BY LimbFacts
<1>2. Power(Limb, Outisz) \in Nat \ {0}
  BY <1>1, PowerFacts
<1>3. ASSUME AreDigits(text, k + 1, 58)
      PROVE  /\ AreDigits(text, k, 58) /\ text[k + 1] \in 0 .. 57 /\ Value(text, k, 58) \in Nat
             /\ Value(text, k + 1, 58) = Value(text, k, 58) * 58 + text[k + 1]
  <2>1. AreDigits(text, k, 58)
    BY <1>3, DigitsPrefix
  <2>2. /\ text[k + 1] \in 0 .. 58 - 1 /\ Value(text, k, 58) \in Nat
        /\ Value(text, k + 1, 58) = Value(text, k, 58) * 58 + text[k + 1]
    BY <1>1, <1>3, DigitsValue
  <2>3. QED
    BY <2>1, <2>2
<1>4. ASSUME x.carry # 0 \/ text[k + 1] = NoDigit
      PROVE  ReadSoFar([carry |-> 1, outi |-> <<>>], text, k + 1)
  <2> SUFFICES ASSUME AreDigits(text, k + 1, 58)
               PROVE  Power(Limb, Outisz) <= Value(text, k + 1, 58)
    BY DEF ReadSoFar
  <2>1. x.carry # 0
    BY <1>3, <1>4 DEF NoDigit
  <2>2. Power(Limb, Outisz) <= Value(text, k, 58)
    BY <1>3, <2>1 DEF ReadSoFar
  <2>3. QED
    BY <1>2, <1>3, <2>2
<1>5. ASSUME ~(x.carry # 0 \/ text[k + 1] = NoDigit)
      PROVE  ReadSoFar(Multiply(x.outi, text[k + 1]), text, k + 1)
  <2> DEFINE y == Multiply(x.outi, text[k + 1])
             d == text[k + 1]
             v == Value(text, k, 58)
             w == Value(y.outi, Outisz, Limb)
             P == Power(Limb, Outisz)
  <2>1. /\ x.outi \in Seq(Nat) /\ Len(x.outi) = Outisz /\ AreDigits(x.outi, Outisz, Limb)
        /\ Value(x.outi, Outisz, Limb) = v /\ AreDigits(text, k, 58)
    BY <1>5 DEF ReadSoFar
  <2>2. d \in 0 .. 57 /\ d \in Nat /\ d \in 0 .. 58 - 1
    BY <1>5 DEF Digit, NoDigit
  <2>3. /\ y \in Limbs /\ Len(y.outi) = Outisz /\ AreDigits(y.outi, Outisz, Limb)
        /\ v * 58 + d = w + y.carry * P
    <3>1. text[k + 1] \in Nat
      BY <2>2
    <3>2. QED
      BY <2>1, <3>1, MultiplyFacts
  <2>4. AreDigits(text, k + 1, 58)
    BY <2>1, <2>2, DigitsPrefix
  <2>5. Value(text, k + 1, 58) = v * 58 + d
    BY <1>3, <2>4
  <2>6. y.carry \in Nat /\ y.outi \in Seq(Nat) /\ w \in Nat
    <3>1. y.carry \in Nat /\ y.outi \in Seq(Nat)
      BY <2>3 DEF Limbs
    <3>2. \A j \in 1 .. Outisz : y.outi[j] \in 0 .. Limb - 1
      BY <2>3 DEF AreDigits
    <3>3. Outisz \in 0 .. Outisz
      BY <1>1
    <3>4. w \in Nat
      BY <1>1, <3>2, <3>3, ValueBelow
    <3>5. QED
      BY <3>1, <3>4
  <2> HIDE DEF y, d, v, w, P
  <2>7. y.carry = 0 => w = Value(text, k + 1, 58)
    BY <2>3, <2>5, <2>6, <1>2 DEF P
  <2>8. y.carry # 0 => P <= Value(text, k + 1, 58)
    <3> SUFFICES ASSUME y.carry # 0
                 PROVE  P <= Value(text, k + 1, 58)
      OBVIOUS
    <3> DEFINE c == y.carry
    <3>1. 1 \in Int /\ c \in Int /\ P \in Nat /\ 1 <= c
      BY <1>2, <2>6 DEF P
    <3> HIDE DEF c
    <3>2. 1 * P <= c * P
      BY <3>1, ProductMonotone
    <3>3. c * P \in Int /\ 1 * P = P
      BY <3>1
    <3>4. QED
      BY <2>3, <2>5, <2>6, <3>1, <3>2, <3>3 DEF c
  <2>9. QED
    BY <2>3, <2>4, <2>6, <2>7, <2>8 DEF ReadSoFar, w, P, y
<1>6. QED
  BY <1>4, <1>5

\* b58tobin leaves the number that the text stands for.
LEMMA NumbersRight ==
  ASSUME NEW text \in Seq(Digit \cup {NoDigit})
  PROVE  ReadSoFar(Numbers(text), text, Len(text))
<1> DEFINE first == LeadingZeros(text)
           last == Len(text)
           zero == [carry |-> 0, outi |-> [j \in 1 .. Outisz |-> 0]]
           failed == [carry |-> 1, outi |-> <<>>]
           Step(x, k) == IF x.carry # 0 \/ text[k] = NoDigit THEN failed ELSE Multiply(x.outi, text[k])
           Eq(g) == g = [k \in first .. last |-> IF k = first THEN zero ELSE Step(g[k - 1], k)]
           f == CHOOSE g : Eq(g)
           V == {x \in Limbs : x.carry = 0 => Len(x.outi) = Outisz}
           h == [k \in first + 1 .. last |-> [x \in V |-> Step(x, k)]]
<1>1. Numbers(text) = f[last]
  BY DEF Numbers
<1>2. first \in Nat /\ last \in Nat /\ first <= last /\ first \in Int /\ last \in Int
  BY LeadingZerosTyped
<1>3. \A k \in 1 .. last : text[k] \in Digit \cup {NoDigit}
  OBVIOUS
<1>4. \A k \in 1 .. first : text[k] = 0
  BY LeadingZerosTyped
<1> HIDE DEF first, last
<1>5. zero \in V /\ failed \in V /\ zero.carry = 0 /\ zero.outi = [j \in 1 .. Outisz |-> 0]
  <2>1. Outisz \in Nat
    BY LimbFacts
  <2>2. QED
    BY <2>1 DEF Limbs
<1>6. ASSUME NEW x \in V, NEW k \in first + 1 .. last
      PROVE  Step(x, k) \in V
  <2>1. CASE x.carry # 0 \/ text[k] = NoDigit
    BY <1>5, <2>1
  <2>2. CASE ~(x.carry # 0 \/ text[k] = NoDigit)
    <3>1. x.outi \in Seq(Nat) /\ Len(x.outi) = Outisz
      BY <2>2 DEF Limbs
    <3>2. text[k] \in Nat
      <4>1. k \in 1 .. last
        BY <1>2
      <4>2. text[k] \in Digit
        BY <1>3, <2>2, <4>1
      <4>3. \A d \in Digit : d \in Nat
        BY DEF Digit
      <4>4. QED
        BY <4>2, <4>3
    <3>3. Multiply(x.outi, text[k]) \in V
      BY <3>1, <3>2, MultiplyFacts
    <3>4. QED
      BY <2>2, <3>3
  <2>3. QED
    BY <2>1, <2>2
<1>7. \A x, k : Step(x, k) = IF x.carry # 0 \/ text[k] = NoDigit THEN failed ELSE Multiply(x.outi, text[k])
  OBVIOUS
<1> HIDE DEF zero, Step, V
<1>8. \E g : Eq(g)
  <2>1. h \in [first + 1 .. last -> [V -> V]]
    BY <1>6
  <2>2. \A x \in V : \A k \in first + 1 .. last : h[k][x] = Step(x, k)
    OBVIOUS
  <2> HIDE DEF h
  <2>3. PICK g \in [first .. last -> V] : IteratesFrom(g, zero, first, last, h)
    BY <1>2, <1>5, <2>1, RangeRecursion, ZenonT(60)
  <2>4. g[first] = zero /\ \A k \in first + 1 .. last : g[k] = Step(g[k - 1], k)
    <3>1. \A k \in first + 1 .. last : g[k - 1] \in V
      BY <1>2
    <3>2. QED
      BY <2>2, <2>3, <3>1 DEF IteratesFrom
  <2>5. \A k \in first .. last : g[k] = IF k = first THEN zero ELSE Step(g[k - 1], k)
    <3>1. \A k \in first .. last : k # first => k \in first + 1 .. last
      BY <1>2
    <3>2. QED
      BY <2>4, <3>1
  <2>6. Eq(g)
    BY <2>5
  <2>7. QED
    BY <2>6
<1>9. Eq(f)
  <2> HIDE DEF Eq
  <2>1. QED
    BY <1>8
<1> HIDE DEF f
<1>10. f[first] = zero /\ \A k \in first + 1 .. last : f[k] = Step(f[k - 1], k)
  <2>1. \A k \in first .. last : f[k] = IF k = first THEN zero ELSE Step(f[k - 1], k)
    BY <1>9, Zenon
  <2>2. first \in first .. last /\ \A k \in first + 1 .. last : k # first /\ k \in first .. last
    BY <1>2
  <2>3. QED
    BY <2>1, <2>2
<1> HIDE DEF Eq
<1> DEFINE S == {k \in first .. last : ReadSoFar(f[k], text, k)}
<1>11. first \in S
  <2>1. AreDigits(text, first, 58)
    BY <1>4 DEF AreDigits
  <2>2. 58 \in Nat /\ Outisz \in Nat /\ Limb \in Nat \ {0} /\ Limb \in Nat
    BY LimbFacts
  <2> DEFINE o == [j \in 1 .. Outisz |-> 0]
  <2>3. o \in Seq(Nat) /\ Len(o) = Outisz /\ \A j \in 1 .. Outisz : o[j] = 0
    BY <2>2
  <2> HIDE DEF o
  <2>4. AreDigits(o, Outisz, Limb)
    BY <2>2, <2>3 DEF AreDigits
  <2>5. Value(text, first, 58) = 0
    <3>1. first \in 0 .. first
      BY <1>2
    <3>2. QED
      BY <1>2, <1>4, <2>2, <3>1, ZerosValue DEF Zeros
  <2>6. Value(o, Outisz, Limb) = 0
    <3>1. Outisz \in 0 .. Outisz
      BY <2>2
    <3>2. QED
      BY <2>2, <2>3, <3>1, ZerosValue DEF Zeros
  <2>7. f[first].carry = 0 /\ f[first].outi = o
    BY <1>5, <1>10 DEF o
  <2>8. ReadSoFar(f[first], text, first)
    BY <2>1, <2>3, <2>4, <2>5, <2>6, <2>7 DEF ReadSoFar
  <2>9. QED
    BY <1>2, <2>8
<1>12. ASSUME NEW k \in first .. last - 1, k \in S
       PROVE  k + 1 \in S
  <2>1. k + 1 \in first + 1 .. last /\ (k + 1) - 1 = k /\ k \in Nat /\ k + 1 \in 1 .. last /\ k + 1 \in first .. last
    BY <1>2
  <2>2. f[k + 1] = Step(f[k], k + 1)
    BY <1>10, <2>1
  <2> DEFINE x == f[k]
  <2>3. ReadSoFar(x, text, k)
    BY <1>12
  <2>4. text[k + 1] \in Digit \cup {NoDigit}
    BY <1>3, <2>1
  <2> HIDE DEF x
  <2>5. /\ x.carry # 0 \/ text[k + 1] = NoDigit => ReadSoFar([carry |-> 1, outi |-> <<>>], text, k + 1)
        /\ ~(x.carry # 0 \/ text[k + 1] = NoDigit) => ReadSoFar(Multiply(x.outi, text[k + 1]), text, k + 1)
    BY <2>1, <2>3, <2>4, ReadMore
  <2>6. ReadSoFar(Step(x, k + 1), text, k + 1)
    BY <1>7, <2>5
  <2>7. QED
    BY <2>1, <2>2, <2>6 DEF x
<1> HIDE DEF S
<1>13. \A k \in first .. last : k \in S
  BY <1>2, <1>11, <1>12, RangeInduction
<1>14. last \in S
  BY <1>2, <1>13
<1>15. QED
  BY <1>1, <1>14 DEF S, last

----------------------------------------------------------------------------
(* The limbs as bytes. *)

\* A limb has the values of its bytes.
LEMMA ValuesArePowers == (\A n \in 0 .. LimbBytes : Values[n] = Power(256, n)) /\ Limb = Power(256, LimbBytes)
<1> DEFINE S == {n \in 0 .. LimbBytes : Values[n] = Power(256, n)}
<1>1. LimbBytes \in Nat /\ 256 \in Nat \ {0}
  BY LimbFacts
<1>2. Power(256, 0) = 1 /\ \A k \in Nat : Power(256, k) \in Nat \ {0} /\ Power(256, k + 1) = Power(256, k) * 256
  BY BytePowers
<1>3. Values[0] = 1 /\ \A n \in 0 .. LimbBytes - 1 : Values[n + 1] = 256 * Values[n]
  BY ValuesTyped
<1>4. 0 \in S
  BY <1>1, <1>2, <1>3
<1>5. ASSUME NEW n \in 0 .. LimbBytes - 1, n \in S
      PROVE  n + 1 \in S
  <2>1. n \in Nat /\ n + 1 \in 0 .. LimbBytes
    BY <1>1
  <2>2. Values[n + 1] = 256 * Power(256, n) /\ Power(256, n + 1) = Power(256, n) * 256 /\ Power(256, n) \in Nat
    BY <1>2, <1>3, <1>5, <2>1
  <2>3. QED
    BY <2>1, <2>2
<1> HIDE DEF S
<1>6. \A n \in 0 .. LimbBytes : n \in S
  BY <1>1, <1>4, <1>5, FiniteInduction
<1>7. \A n \in 0 .. LimbBytes : Values[n] = Power(256, n)
  BY <1>6 DEF S
<1>8. LimbBytes \in 0 .. LimbBytes
  BY <1>1
<1>9. QED
  BY <1>7, <1>8 DEF Limb

\* The limbs have the values of their bytes.
LEMMA LimbsArePowers == Power(Limb, Outisz) = Power(256, KeySize)
<1> DEFINE L == LimbBytes
           S == {n \in Nat : Power(Limb, n) = Power(256, L * n)}
<1>1. L \in Nat /\ 256 \in Nat \ {0} /\ Limb \in Nat \ {0} /\ Outisz \in Nat /\ KeySize = L * Outisz
  BY LimbFacts
<1>2. Power(256, 0) = 1 /\ \A k \in Nat : Power(256, k) \in Nat \ {0}
  BY BytePowers
<1>3. Power(Limb, 0) = 1 /\ \A k \in Nat : Power(Limb, k + 1) = Power(Limb, k) * Limb
  BY <1>1, PowerFacts
<1>4. Limb = Power(256, L)
  BY ValuesArePowers
<1> HIDE DEF L
<1>5. 0 \in S
  <2>1. L * 0 = 0
    BY <1>1
  <2>2. QED
    BY <1>2, <1>3, <2>1
<1>6. ASSUME NEW n \in Nat, n \in S
      PROVE  n + 1 \in S
  <2>1. L * (n + 1) = L * n + L /\ L * n \in Nat
    BY <1>1
  <2>2. Power(256, L * n + L) = Power(256, L * n) * Power(256, L)
    BY <1>1, <2>1, PowerAdd
  <2>3. QED
    BY <1>3, <1>4, <1>6, <2>1, <2>2
<1> HIDE DEF S
<1>7. \A n \in Nat : n \in S
  BY <1>5, <1>6, SetInduction
<1>8. QED
  BY <1>1, <1>7 DEF S

\* The bytes of a limb.
LEMMA BytesOfLimb ==
  ASSUME NEW outi, NEW j \in 0 .. Outisz - 1, NEW i \in 0 .. LimbBytes - 1
  PROVE  /\ LimbBytes * j + i + 1 \in 1 .. KeySize
         /\ BytesOf(outi)[LimbBytes * j + i + 1] = (outi[j + 1] \div Values[LimbBytes - 1 - i]) % 256
<1> DEFINE L == LimbBytes
           N == Outisz
           a == L * j
           k == a + i + 1
<1>1. L \in Nat \ {0} /\ N \in Nat /\ KeySize = L * N /\ j \in Nat /\ i \in Nat /\ i < L /\ j + 1 <= N
  BY LimbFacts
<1>2. /\ BytesOf(outi) = [x \in 1 .. KeySize |->
                            (outi[((x - 1) \div L) + 1] \div Values[L - 1 - ((x - 1) % L)]) % 256]
  BY DEF BytesOf
<1> HIDE DEF L, N
<1>3. a \in Nat /\ a = j * L /\ k - 1 = a + i /\ a + i \in Int
  BY <1>1
<1>4. a + L <= KeySize
  <2>1. (j + 1) * L <= N * L
    <3>1. j + 1 \in Int /\ N \in Int /\ L \in Nat /\ j + 1 <= N
      BY <1>1
    <3>2. QED
      BY <3>1, ProductMonotone
  <2>2. (j + 1) * L = a + L /\ N * L = L * N
    BY <1>1
  <2>3. QED
    BY <1>1, <2>1, <2>2
<1> HIDE DEF a
<1>5. (k - 1) \div L = j /\ (k - 1) % L = i
  <2>1. a + i = j * L + i
    BY <1>3
  <2>2. (a + i) \div L = j /\ (a + i) % L = i
    BY <1>1, <1>3, <2>1, DivUnique
  <2>3. QED
    BY <1>3, <2>2
<1>6. KeySize \in Nat
  BY LimbFacts
<1>7. k \in 1 .. KeySize
  BY <1>1, <1>3, <1>4, <1>6
<1> HIDE DEF k
<1>8. BytesOf(outi)[k] = (outi[((k - 1) \div L) + 1] \div Values[L - 1 - ((k - 1) % L)]) % 256
  BY <1>2, <1>7
<1>9. QED
  BY <1>5, <1>7, <1>8 DEF k, a, L

\* The bytes are bytes, of the number that the limbs stand for.
LEMMA BytesRight ==
  ASSUME NEW outi, AreDigits(outi, Outisz, Limb)
  PROVE  /\ AreDigits(BytesOf(outi), KeySize, 256)
         /\ Value(BytesOf(outi), KeySize, 256) = Value(outi, Outisz, Limb)
<1> DEFINE L == LimbBytes
           N == Outisz
           bin == BytesOf(outi)
<1>1. /\ L \in Nat \ {0} /\ N \in Nat /\ KeySize \in Nat /\ KeySize = L * N /\ Limb \in Nat \ {0}
      /\ 256 \in Nat /\ 256 \in Nat \ {0}
  BY LimbFacts
<1>2. \A k \in 1 .. KeySize : bin[k] \in 0 .. 255
  <2> SUFFICES ASSUME NEW k \in 1 .. KeySize
               PROVE  bin[k] \in 0 .. 255
    OBVIOUS
  <2> DEFINE j == (k - 1) \div L
             i == (k - 1) % L
  <2>1. j \in Nat /\ i \in Nat /\ i < L /\ L * j <= k - 1 /\ k - 1 = j * L + i
    <3>1. k - 1 \in Nat /\ k - 1 \in Int
      OBVIOUS
    <3>2. j \in Nat /\ i \in Nat /\ i < L /\ L * j <= k - 1
      BY <1>1, <3>1, DivFacts
    <3>3. k - 1 = j * L + i
      BY <1>1, <3>1, DivMod
    <3>4. QED
      BY <3>2, <3>3
  <2> HIDE DEF j, i
  <2>2. j < N
    <3>1. k - 1 \in Nat /\ k - 1 < L * N
      BY <1>1
    <3> HIDE DEF L, N
    <3>2. QED
      BY <1>1, <2>1, <3>1, QuotientBelow
  <2>3. j \in 0 .. N - 1 /\ i \in 0 .. L - 1 /\ L * j + i + 1 = k
    <3>1. L * j = j * L
      BY <1>1, <2>1
    <3>2. j * L \in Int
      BY <1>1, <2>1
    <3> HIDE DEF L, N
    <3>3. QED
      BY <1>1, <2>1, <2>2, <3>1, <3>2
  <2>4. bin[k] = (outi[j + 1] \div Values[L - 1 - i]) % 256
    BY <2>3, BytesOfLimb
  <2>5. outi[j + 1] \in Nat
    <3>1. j + 1 \in 1 .. N
      BY <1>1, <2>3
    <3>2. QED
      BY <1>1, <3>1 DEF AreDigits
  <2>6. Values[L - 1 - i] \in Nat \ {0}
    <3>1. L - 1 - i \in 0 .. L
      BY <1>1, <2>3
    <3>2. QED
      BY <3>1, ValuesTyped
  <2> DEFINE x == outi[j + 1]
             w == Values[L - 1 - i]
  <2> HIDE DEF x, w
  <2>7. x \div w \in Nat
    BY <2>5, <2>6, DivFacts DEF x, w
  <2>8. (x \div w) % 256 \in 0 .. 255
    BY <2>7
  <2>9. QED
    BY <2>4, <2>8 DEF x, w
<1>3. /\ Value(bin, 0, 256) = 0
      /\ \A k \in 0 .. KeySize : Value(bin, k, 256) \in Nat
      /\ \A k \in 0 .. KeySize - 1 : Value(bin, k + 1, 256) = Value(bin, k, 256) * 256 + bin[k + 1]
  <2>1. \A k \in 1 .. KeySize : bin[k] \in Nat
    BY <1>2, SMTT(30)
  <2> HIDE DEF bin
  <2>2. QED
    BY <1>1, <2>1, ValueFacts
<1>4. /\ Value(outi, 0, Limb) = 0
      /\ \A k \in 0 .. N : Value(outi, k, Limb) \in Nat
      /\ \A k \in 0 .. N - 1 : Value(outi, k + 1, Limb) = Value(outi, k, Limb) * Limb + outi[k + 1]
  <2>1. \A k \in 1 .. N : outi[k] \in Nat
    BY <1>1 DEF AreDigits
  <2>2. Limb \in Nat
    BY <1>1
  <2>3. QED
    BY <1>1, <2>1, <2>2, ValueFacts
<1>5. Power(256, 0) = 1 /\ \A k \in Nat : Power(256, k) \in Nat \ {0} /\ Power(256, k + 1) = Power(256, k) * 256
  BY BytePowers
<1>6. Values[0] = 1 /\ \A n \in 0 .. L - 1 : Values[n + 1] = 256 * Values[n]
  BY ValuesTyped
<1>7. \A n \in 0 .. L : Values[n] \in Nat \ {0}
  BY ValuesTyped
<1>8. Limb = Power(256, L) /\ Limb = Values[L]
  BY ValuesArePowers DEF Limb
<1>9. \A j \in 0 .. N - 1, i \in 0 .. L - 1 :
         L * j + i + 1 \in 1 .. KeySize /\ bin[L * j + i + 1] = (outi[j + 1] \div Values[L - 1 - i]) % 256
  BY BytesOfLimb
<1> HIDE DEF L, N, bin
<1>10. ASSUME NEW j \in 0 .. N - 1
       PROVE  Value(bin, L * j + L, 256) = Value(bin, L * j, 256) * Limb + outi[j + 1]
  <2> DEFINE a == L * j
             x == outi[j + 1]
             B == Value(bin, a, 256)
             T == {i \in 0 .. L : Value(bin, a + i, 256) = B * Power(256, i) + (x \div Values[L - i])}
  <2>1. a \in Nat /\ x \in Nat /\ x < Limb
    <3>1. j + 1 \in 1 .. Outisz
      BY <1>1 DEF N
    <3>2. x \in 0 .. Limb - 1
      BY <3>1 DEF AreDigits
    <3>3. QED
      BY <1>1, <3>2
  <2>2. a + L <= KeySize /\ \A i \in 0 .. L - 1 : a + i + 1 \in 1 .. KeySize
    <3>1. L - 1 \in 0 .. L - 1
      BY <1>1
    <3>2. a + (L - 1) + 1 \in 1 .. KeySize
      BY <1>9, <3>1
    <3>3. \A i \in 0 .. L - 1 : a + i + 1 \in 1 .. KeySize
      BY <1>9
    <3> HIDE DEF a
    <3>4. QED
      BY <1>1, <2>1, <3>2, <3>3
  <2>3. \A i \in 0 .. L - 1 : bin[a + i + 1] = (x \div Values[L - 1 - i]) % 256
    BY <1>9
  <2> HIDE DEF a, x
  <2>4. B \in Nat
    BY <1>1, <1>3, <2>1, <2>2
  <2>5. 0 \in T
    <3>1. x \div Values[L - 0] = 0
      BY <1>1, <1>8, <2>1
    <3>2. B * Power(256, 0) = B /\ a + 0 = a /\ 0 \in 0 .. L
      BY <1>1, <1>5, <2>1, <2>4
    <3>3. QED
      BY <2>4, <3>1, <3>2
  <2>6. ASSUME NEW i \in 0 .. L - 1, i \in T
        PROVE  i + 1 \in T
    <3> DEFINE w == Values[L - 1 - i]
               y == x \div w
               p == Power(256, i)
               v == Value(bin, a + i, 256)
    <3>1. i \in Nat /\ i + 1 \in 0 .. L /\ L - 1 - i \in 0 .. L - 1 /\ L - 1 - i \in 0 .. L
          /\ L - 1 - i + 1 = L - i /\ L - (i + 1) = L - 1 - i
      BY <1>1
    <3>2. Values[L - i] = 256 * w /\ w \in Nat \ {0} /\ p \in Nat /\ Power(256, i + 1) = p * 256
      BY <1>5, <1>6, <1>7, <3>1
    <3>3. v = B * p + (x \div Values[L - i])
      BY <2>6
    <3>4. a + i \in 0 .. KeySize - 1 /\ a + (i + 1) = (a + i) + 1
      BY <1>1, <2>1, <2>2, <3>1
    <3>5. Value(bin, (a + i) + 1, 256) = v * 256 + bin[(a + i) + 1] /\ v \in Nat
      <4>1. PICK k \in 0 .. KeySize - 1 : k = a + i
        BY <3>4
      <4>2. Value(bin, k + 1, 256) = Value(bin, k, 256) * 256 + bin[k + 1]
        BY <1>3
      <4>3. k \in 0 .. KeySize
        BY <1>1
      <4>4. Value(bin, k, 256) \in Nat
        BY <1>3, <4>3
      <4>5. QED
        BY <4>1, <4>2, <4>4
    <3>6. bin[(a + i) + 1] = y % 256
      BY <2>3
    <3> HIDE DEF w
    <3>7. x \div (w * 256) = y \div 256 /\ y \in Nat
      <4>1. x \in Int /\ 256 \in Nat \ {0}
        BY <2>1
      <4>2. y \in Nat
        BY <2>1, <3>2, DivFacts
      <4>3. QED
        BY <3>2, <4>1, <4>2, DivDiv
    <3> HIDE DEF y, p, v
    <3>8. x \div Values[L - i] = y \div 256
      <4>1. 256 * w = w * 256
        BY <3>2
      <4>2. QED
        BY <3>2, <3>7, <4>1
    <3> DEFINE c == y \div 256
               e == y % 256
    <3>9. c \in Int /\ e \in Int /\ y = c * 256 + e
      BY <3>7
    <3> HIDE DEF c, e
    <3>10. Value(bin, a + (i + 1), 256) = (B * p + c) * 256 + e
      BY <3>3, <3>4, <3>5, <3>6, <3>8 DEF c, e
    <3>11. (B * p + c) * 256 + e = B * (p * 256) + y
      <4>1. B * (p * 256) = (B * p) * 256 /\ B * p \in Int
        BY <2>4, <3>2
      <4>2. PICK u \in Int : u = B * p
        BY <4>1
      <4>3. (u + c) * 256 + e = u * 256 + y
        BY <3>9, <4>2
      <4>4. QED
        BY <4>1, <4>2, <4>3
    <3>12. Value(bin, a + (i + 1), 256) = B * Power(256, i + 1) + (x \div Values[L - (i + 1)])
      <4>1. y = x \div Values[L - (i + 1)]
        BY <3>1 DEF y, w
      <4>2. QED
        BY <3>2, <3>10, <3>11, <4>1
    <3>13. QED
      BY <3>1, <3>12
  <2> HIDE DEF T
  <2>7. \A i \in 0 .. L : i \in T
    BY <1>1, <2>5, <2>6, FiniteInduction
  <2>8. Value(bin, a + L, 256) = B * Power(256, L) + (x \div Values[L - L])
    <3>1. L \in 0 .. L
      BY <1>1
    <3>2. QED
      BY <2>7, <3>1 DEF T
  <2>9. x \div Values[L - L] = x
    <3>1. L - L = 0 /\ x \div 1 = x
      BY <1>1, <2>1
    <3>2. QED
      BY <1>6, <3>1
  <2>10. QED
    BY <1>8, <2>8, <2>9 DEF a, x
<1> DEFINE S == {j \in 0 .. N : Value(bin, L * j, 256) = Value(outi, j, Limb)}
<1>11. 0 \in S
  <2>1. L * 0 = 0
    BY <1>1
  <2>2. QED
    BY <1>1, <1>3, <1>4, <2>1
<1>12. ASSUME NEW j \in 0 .. N - 1, j \in S
       PROVE  j + 1 \in S
  <2>1. L * (j + 1) = L * j + L /\ j + 1 \in 0 .. N
    BY <1>1
  <2>2. QED
    BY <1>4, <1>10, <1>12, <2>1
<1> HIDE DEF S
<1>13. \A j \in 0 .. N : j \in S
  BY <1>1, <1>11, <1>12, FiniteInduction
<1>14. Value(bin, KeySize, 256) = Value(outi, N, Limb)
  BY <1>1, <1>13 DEF S
<1>15. AreDigits(bin, KeySize, 256)
  BY <1>2 DEF AreDigits
<1>16. QED
  BY <1>14, <1>15 DEF bin, N

----------------------------------------------------------------------------
(* The number that a text stands for. *)

\* A byte is a digit to the base 256.
LEMMA ByteDigits == 0 .. 256 - 1 = Byte /\ \A x : x \in Byte <=> x \in Nat /\ x < 256
<1>1. 256 - 1 = 255
  OBVIOUS
<1>2. \A x : x \in 0 .. 255 <=> x \in Nat /\ x < 256
  OBVIOUS
<1>3. QED
  BY <1>1, <1>2 DEF Byte

\* what the loop of TimesBase leaves
Products == {x \in [carry : Nat, bytes : Seq(Nat)] : x.carry < 58}

\* A letter more makes a number without leading zeros of one that has none.
LEMMA TimesBaseRight ==
  ASSUME NEW b, Canonical(b, 256), NEW digit \in Nat, digit < 58
  PROVE  /\ Canonical(TimesBase(b, digit), 256)
         /\ Value(TimesBase(b, digit), Len(TimesBase(b, digit)), 256) = Value(b, Len(b), 256) * 58 + digit
<1> DEFINE N == Len(b)
           First == [carry |-> digit, bytes |-> <<>>]
           T(x, j) == b[j] * 58 + x.carry
           R(x, j) == T(x, j) % 256
           Step(x, j) == [carry |-> T(x, j) \div 256, bytes |-> <<R(x, j)>> \o x.bytes]
           Eq(g) == g = [j \in 1 .. N + 1 |-> IF j > N THEN First ELSE Step(g[j + 1], j)]
           f == CHOOSE g : Eq(g)
           h == [j \in 1 .. N |-> [x \in Products |-> Step(x, j)]]
<1>1. TimesBase(b, digit) = (IF f[1].carry = 0 THEN <<>> ELSE <<f[1].carry>>) \o f[1].bytes
  BY DEF TimesBase
<1>0. 0 .. 256 - 1 = Byte /\ (\A x : x \in Byte <=> x \in Nat /\ x < 256)
  BY ByteDigits
<1>2. N \in Nat /\ (N # 0 => b[1] # 0) /\ \A j \in 1 .. N : b[j] \in Nat /\ b[j] < 256
  <2>1. b \in Seq(Byte) /\ (b # <<>> => b[1] # 0)
    BY <1>0 DEF Canonical
  <2>2. \A j \in 1 .. N : b[j] \in Byte
    BY <2>1
  <2>3. N \in Nat /\ (N # 0 => b[1] # 0)
    BY <2>1
  <2>4. QED
    BY <1>0, <2>2, <2>3
<1> HIDE DEF N
<1>3. First \in Products /\ First.carry = digit /\ First.bytes = <<>>
  BY DEF Products
<1>4. ASSUME NEW x \in Products, NEW j \in 1 .. N
      PROVE  /\ Step(x, j) \in Products /\ Step(x, j).bytes = <<R(x, j)>> \o x.bytes
             /\ R(x, j) \in Byte /\ x.carry \in Nat
             /\ Step(x, j).carry * 256 + R(x, j) = b[j] * 58 + x.carry
  <2>1. x.carry \in Nat /\ x.carry < 58 /\ x.bytes \in Seq(Nat)
    BY DEF Products
  <2>2. b[j] \in Nat /\ b[j] < 256
    BY <1>2
  <2>3. T(x, j) \in Nat /\ T(x, j) < 14848 /\ T(x, j) = b[j] * 58 + x.carry
    BY <2>1, <2>2
  <2>4. Step(x, j) = [carry |-> T(x, j) \div 256, bytes |-> <<R(x, j)>> \o x.bytes]
    OBVIOUS
  <2> HIDE DEF T, R, Step
  <2>5. /\ T(x, j) \div 256 \in Nat /\ T(x, j) \div 256 < 58 /\ R(x, j) \in Nat /\ R(x, j) < 256
        /\ (T(x, j) \div 256) * 256 + R(x, j) = T(x, j)
    <3>1. PICK y \in Nat : y = T(x, j) /\ y < 14848
      BY <2>3
    <3>2. y \div 256 \in Nat /\ y \div 256 < 58 /\ y % 256 \in Nat /\ y % 256 < 256
      BY <3>1
    <3>3. (y \div 256) * 256 + (y % 256) = y
      BY <3>1
    <3>4. R(x, j) = y % 256
      BY <3>1 DEF R
    <3>5. QED
      BY <3>1, <3>2, <3>3, <3>4
  <2>6. Step(x, j) \in Products
    BY <2>1, <2>4, <2>5 DEF Products
  <2>7. Step(x, j).carry = T(x, j) \div 256 /\ Step(x, j).bytes = <<R(x, j)>> \o x.bytes
    BY <2>4
  <2>8. R(x, j) \in Byte
    BY <1>0, <2>5
  <2>9. QED
    BY <2>1, <2>3, <2>5, <2>6, <2>7, <2>8
<1>5. \E g : Eq(g)
  <2>1. h \in [1 .. N -> [Products -> Products]]
    BY <1>4
  <2>2. \A x \in Products : \A j \in 1 .. N : h[j][x] = Step(x, j)
    OBVIOUS
  <2> HIDE DEF h, First, Step
  <2>3. PICK g \in [1 .. N + 1 -> Products] : IteratesBack(g, First, N, h)
    BY <1>2, <1>3, <2>1, BackRecursion
  <2>4. \A j \in 1 .. N + 1 : g[j] = IF j > N THEN First ELSE Step(g[j + 1], j)
    <3>1. \A j \in 1 .. N : g[j + 1] \in Products
      BY <1>2, <2>3
    <3>2. \A j \in 1 .. N : g[j] = Step(g[j + 1], j)
      BY <2>2, <2>3, <3>1 DEF IteratesBack
    <3>3. \A j \in 1 .. N + 1 : (j > N => j = N + 1) /\ (~(j > N) => j \in 1 .. N)
      BY <1>2
    <3>4. QED
      BY <2>3, <3>2, <3>3 DEF IteratesBack
  <2>5. Eq(g)
    BY <2>3, <2>4
  <2>6. QED
    BY <2>5
<1>6. Eq(f)
  <2> HIDE DEF Eq
  <2>1. QED
    BY <1>5
<1> HIDE DEF f, First, Step
<1>7. f[N + 1] = First /\ \A j \in 1 .. N : f[j] = Step(f[j + 1], j)
  <2>1. \A j \in 1 .. N + 1 : f[j] = IF j > N THEN First ELSE Step(f[j + 1], j)
    BY <1>6, Zenon
  <2>2. N + 1 \in 1 .. N + 1 /\ N + 1 > N /\ \A j \in 1 .. N : j \in 1 .. N + 1 /\ ~(j > N)
    BY <1>2
  <2>3. QED
    BY <2>1, <2>2
<1> HIDE DEF Eq, T, R
<1>8. \A j \in 1 .. N + 1 : f[j] \in Products
  <2> DEFINE S == {j \in 1 .. N + 1 : f[j] \in Products}
  <2>1. N + 1 \in S
    BY <1>2, <1>3, <1>7
  <2>2. ASSUME NEW j \in 1 .. N, j + 1 \in S
        PROVE  j \in S
    <3>1. j \in 1 .. N + 1
      BY <1>2
    <3>2. f[j] = Step(f[j + 1], j) /\ f[j + 1] \in Products
      BY <1>7, <2>2
    <3>3. f[j] \in Products
      BY <1>4, <3>2, ZenonT(60)
    <3>4. QED
      BY <3>1, <3>3
  <2> HIDE DEF S
  <2>3. \A j \in 1 .. N + 1 : j \in S
    BY <1>2, <2>1, <2>2, BackInduction
  <2>4. QED
    BY <2>3 DEF S
<1> DEFINE d == [j \in 1 .. N |-> R(f[j + 1], j)]
           q == [j \in 1 .. N + 1 |-> f[j].bytes]
           c == [j \in 1 .. N + 1 |-> f[j].carry]
<1>9. \A j \in 1 .. N : j \in 1 .. N + 1 /\ j + 1 \in 1 .. N + 1
  BY <1>2
<1>10. /\ d \in [1 .. N -> Byte] /\ q[N + 1] = <<>> /\ c[N + 1] = digit
       /\ \A j \in 1 .. N + 1 : c[j] \in Nat
       /\ \A j \in 1 .. N : q[j] = <<d[j]>> \o q[j + 1]
       /\ \A j \in 1 .. N : c[j] * 256 + d[j] = b[j] * 58 + c[j + 1]
  <2>1. N + 1 \in 1 .. N + 1
    BY <1>2
  <2>2. d \in [1 .. N -> Byte]
    <3>1. ASSUME NEW j \in 1 .. N
          PROVE  R(f[j + 1], j) \in Byte
      <4>1. PICK x \in Products : x = f[j + 1]
        BY <1>8, <1>9
      <4>2. R(x, j) \in Byte
        BY <1>4
      <4>3. QED
        BY <4>1, <4>2
    <3>2. QED
      BY <3>1
  <2>3. q[N + 1] = <<>> /\ c[N + 1] = digit
    BY <1>3, <1>7, <2>1
  <2>4. \A j \in 1 .. N + 1 : c[j] \in Nat
    BY <1>8 DEF Products
  <2>5. ASSUME NEW j \in 1 .. N
        PROVE  q[j] = <<d[j]>> \o q[j + 1] /\ c[j] * 256 + d[j] = b[j] * 58 + c[j + 1]
    <3>1. f[j + 1] \in Products /\ f[j] = Step(f[j + 1], j)
      BY <1>7, <1>8, <1>9
    <3>2. /\ q[j] = f[j].bytes /\ q[j + 1] = f[j + 1].bytes /\ d[j] = R(f[j + 1], j)
          /\ c[j] = f[j].carry /\ c[j + 1] = f[j + 1].carry
      BY <1>9
    <3>3. /\ Step(f[j + 1], j).bytes = <<R(f[j + 1], j)>> \o f[j + 1].bytes
          /\ Step(f[j + 1], j).carry * 256 + R(f[j + 1], j) = b[j] * 58 + f[j + 1].carry
      <4>1. PICK x \in Products : x = f[j + 1]
        BY <3>1
      <4>2. Step(x, j).bytes = <<R(x, j)>> \o x.bytes
        BY <1>4
      <4>3. Step(x, j).carry * 256 + R(x, j) = b[j] * 58 + x.carry
        BY <1>4, ZenonT(60)
      <4>4. QED
        BY <4>1, <4>2, <4>3
    <3>4. q[j] = <<d[j]>> \o q[j + 1]
      BY <3>1, <3>2, <3>3
    <3>5. c[j] * 256 + d[j] = b[j] * 58 + c[j + 1]
      BY <3>1, <3>2, <3>3
    <3>6. QED
      BY <3>4, <3>5
  <2>6. QED
    BY <2>2, <2>3, <2>4, <2>5, ZenonT(60)
<1>11. f[1].bytes = q[1] /\ f[1].carry = c[1] /\ c[1] \in Nat /\ c[1] < 58
  <2>1. 1 \in 1 .. N + 1
    BY <1>2
  <2>2. f[1] \in Products
    BY <1>8, <2>1
  <2>3. QED
    BY <1>10, <2>1, <2>2 DEF Products
<1> HIDE DEF d, q, c
<1> DEFINE e == q[1]
<1>12. e \in Seq(Byte) /\ Len(e) = N /\ \A k \in 1 .. N : e[k] = d[k] /\ e[k] \in Nat
  <2>1. N \in Nat /\ d \in [1 .. N -> Byte]
    BY <1>2, <1>10
  <2>2. Prepends(q, d, N)
    BY <1>10 DEF Prepends
  <2>3. Consists(q[1], d, N, Byte)
    BY <2>1, <2>2, Prepended
  <2>4. \A k \in 1 .. N : d[k] \in Nat
    BY <1>0, <2>1
  <2>5. QED
    BY <2>3, <2>4 DEF Consists
<1>13. TimesBase(b, digit) = (IF c[1] = 0 THEN <<>> ELSE <<c[1]>>) \o e
  BY <1>1, <1>11
<1> HIDE DEF e
<1>14. Value(b, N, 256) * 58 + digit = Value(e, N, 256) + c[1] * Power(256, N)
  <2>1. \A k \in 1 .. N : b[k] \in Nat /\ e[k] \in Nat
    BY <1>2, <1>12
  <2>2. \A k \in 1 .. N : c[k] * 256 + e[k] = b[k] * 58 + c[k + 1]
    BY <1>10, <1>12
  <2>3. Carries(b, 58, e, c, N, 256)
    BY <1>10, <2>1, <2>2 DEF Carries
  <2>4. 58 \in Nat /\ 256 \in Nat \ {0}
    OBVIOUS
  <2>5. Value(b, N, 256) * 58 + c[N + 1] = Value(e, N, 256) + c[1] * Power(256, N)
    BY <1>2, <2>3, <2>4, CarryValue
  <2>6. QED
    BY <1>10, <2>5
<1>15. Value(e, N, 256) \in Nat
  <2>1. \A k \in 1 .. N : e[k] \in Nat
    BY <1>2, <1>12
  <2>2. 256 \in Nat /\ N \in 0 .. N
    BY <1>2
  <2>3. QED
    BY <1>2, <2>1, <2>2, ValueFacts
<1>16. CASE c[1] = 0
  <2>1. TimesBase(b, digit) = e
    BY <1>12, <1>13, <1>16
  <2>2. N # 0 => e[1] # 0
    <3> SUFFICES ASSUME N # 0
                 PROVE  e[1] # 0
      OBVIOUS
    <3>1. 1 \in 1 .. N /\ 2 \in 1 .. N + 1 /\ 1 + 1 = 2
      BY <1>2
    <3>2. c[1] * 256 + e[1] = b[1] * 58 + c[2] /\ b[1] \in Nat /\ e[1] \in Nat /\ b[1] # 0 /\ c[2] \in Nat
      BY <1>2, <1>10, <1>12, <3>1
    <3>3. QED
      BY <1>16, <3>2
  <2>3. Canonical(e, 256)
    BY <1>0, <1>12, <2>2 DEF Canonical
  <2>4. Value(b, N, 256) * 58 + digit = Value(e, N, 256)
    <3>1. 0 * Power(256, N) = 0
      <4>1. 256 \in Nat \ {0}
        OBVIOUS
      <4>2. Power(256, N) \in Nat
        BY <1>2, <4>1, PowerFacts, ZenonT(60)
      <4>3. QED
        BY <4>2
    <3>2. QED
      BY <1>14, <1>15, <1>16, <3>1
  <2>5. QED
    BY <1>12, <2>1, <2>3, <2>4 DEF N
<1>17. CASE c[1] # 0
  <2> DEFINE t == <<c[1]>> \o e
  <2>1. TimesBase(b, digit) = t
    BY <1>13, <1>17
  <2>2. /\ t \in Seq(Byte) /\ Len(t) = N + 1 /\ t[1] = c[1]
        /\ \A k \in 1 .. N : t[k + 1] = e[k]
    <3>1. c[1] \in Byte
      BY <1>0, <1>11
    <3>2. QED
      BY <1>2, <1>12, <3>1
  <2> HIDE DEF t
  <2>3. Canonical(t, 256)
    BY <1>0, <1>17, <2>2 DEF Canonical
  <2> DEFINE S == {k \in 0 .. N : Value(t, k + 1, 256) = Value(e, k, 256) + c[1] * Power(256, k)}
  <2>4. Power(256, 0) = 1 /\ \A k \in Nat : Power(256, k) \in Nat \ {0} /\ Power(256, k + 1) = Power(256, k) * 256
    BY BytePowers
  <2>5. /\ Value(e, 0, 256) = 0
        /\ \A k \in 0 .. N : Value(e, k, 256) \in Nat
        /\ \A k \in 0 .. N - 1 : Value(e, k + 1, 256) = Value(e, k, 256) * 256 + e[k + 1]
    <3>1. \A k \in 1 .. N : e[k] \in Nat
      BY <1>2, <1>12
    <3>2. 256 \in Nat /\ N \in Nat
      BY <1>2
    <3>3. QED
      BY <3>1, <3>2, ValueFacts
  <2>6. /\ Value(t, 0, 256) = 0
        /\ \A k \in 0 .. (N + 1) - 1 : Value(t, k + 1, 256) = Value(t, k, 256) * 256 + t[k + 1]
    <3>1. \A k \in 1 .. N + 1 : t[k] \in Nat
      <4>1. \A k \in 1 .. N + 1 : t[k] \in Byte
        BY <1>2, <2>2
      <4>2. QED
        BY <1>0, <4>1
    <3>2. 256 \in Nat /\ N + 1 \in Nat
      BY <1>2
    <3>3. QED
      BY <3>1, <3>2, ValueFacts
  <2>7. 0 \in S
    <3>1. 0 \in 0 .. (N + 1) - 1 /\ 0 \in 0 .. N /\ 0 + 1 = 1
      BY <1>2
    <3>2. Value(t, 1, 256) = 0 * 256 + c[1]
      BY <2>2, <2>6, <3>1
    <3>3. QED
      BY <1>11, <2>4, <2>5, <3>1, <3>2
  <2>8. ASSUME NEW k \in 0 .. N - 1, k \in S
        PROVE  k + 1 \in S
    <3> DEFINE v == Value(e, k, 256)
               p == Power(256, k)
               x == e[k + 1]
               g == c[1]
    <3>1. k + 1 \in 0 .. (N + 1) - 1 /\ k + 1 \in 1 .. N /\ k + 1 \in 0 .. N /\ k \in Nat /\ k \in 0 .. N
      BY <1>2
    <3>2. v \in Nat /\ p \in Nat /\ x \in Nat /\ g \in Nat
      <4>1. x \in Nat /\ g \in Nat
        BY <1>11, <1>12, <3>1
      <4>2. v \in Nat /\ p \in Nat
        BY <2>4, <2>5, <3>1
      <4>3. QED
        BY <4>1, <4>2
    <3>3. /\ Value(e, k + 1, 256) = v * 256 + x /\ Power(256, k + 1) = p * 256
          /\ Value(t, k + 1, 256) = v + g * p
      BY <2>4, <2>5, <2>8, <3>1
    <3>4. Value(t, (k + 1) + 1, 256) = Value(t, k + 1, 256) * 256 + t[(k + 1) + 1] /\ t[(k + 1) + 1] = x
      BY <2>2, <2>6, <3>1
    <3> HIDE DEF v, p, x, g
    <3>5. (v + g * p) * 256 + x = (v * 256 + x) + g * (p * 256)
      <4>1. g * (p * 256) = (g * p) * 256
        BY <3>2
      <4>2. PICK u \in Int : u = g * p
        BY <3>2
      <4>3. (v + u) * 256 + x = (v * 256 + x) + u * 256
        BY <3>2
      <4>4. QED
        BY <4>1, <4>2, <4>3
    <3>6. QED
      BY <3>1, <3>3, <3>4, <3>5 DEF g
  <2> HIDE DEF S
  <2>9. \A k \in 0 .. N : k \in S
    BY <1>2, <2>7, <2>8, FiniteInduction
  <2>10. N \in S
    BY <1>2, <2>9
  <2>11. Value(t, N + 1, 256) = Value(b, N, 256) * 58 + digit
    BY <1>14, <2>10 DEF S
  <2>12. QED
    BY <2>1, <2>2, <2>3, <2>11 DEF N
<1>18. QED
  BY <1>16, <1>17

\* The number without leading zeros that a text stands for.
LEMMA NumberRight ==
  ASSUME NEW text, Len(text) \in Nat, AreDigits(text, Len(text), 58)
  PROVE  /\ Canonical(Number(text), 256)
         /\ Value(Number(text), Len(Number(text)), 256) = Value(text, Len(text), 58)
<1> DEFINE n == Len(text)
           Eq(g) == g = [k \in 0 .. n |-> IF k = 0 THEN <<>> ELSE TimesBase(g[k - 1], text[k])]
           f == CHOOSE g : Eq(g)
           V == {x \in Seq(0 .. 256 - 1) : Canonical(x, 256)}
           h == [k \in 1 .. n |-> [x \in V |-> TimesBase(x, text[k])]]
<1>1. Number(text) = f[n]
  BY DEF Number
<1>2. n \in Nat /\ \A k \in 1 .. n : text[k] \in Nat /\ text[k] < 58
  <2>1. 58 \in Nat /\ n \in Nat
    OBVIOUS
  <2>2. QED
    BY <2>1, DigitsBelow
<1>3. AreDigits(text, n, 58)
  OBVIOUS
<1> HIDE DEF n
<1>4. \A x : x \in V <=> Canonical(x, 256)
  BY DEF Canonical
<1>5. <<>> \in V
  BY <1>4 DEF Canonical
<1> HIDE DEF V
<1>6. ASSUME NEW x \in V, NEW k \in 1 .. n
      PROVE  /\ TimesBase(x, text[k]) \in V
             /\ Value(TimesBase(x, text[k]), Len(TimesBase(x, text[k])), 256) = Value(x, Len(x), 256) * 58 + text[k]
  <2>1. PICK d \in Nat : d = text[k] /\ d < 58
    BY <1>2
  <2>2. Canonical(x, 256)
    BY <1>4
  <2>3. /\ Canonical(TimesBase(x, d), 256)
        /\ Value(TimesBase(x, d), Len(TimesBase(x, d)), 256) = Value(x, Len(x), 256) * 58 + d
    BY <2>1, <2>2, TimesBaseRight
  <2>4. QED
    BY <1>4, <2>1, <2>3
<1>7. \E g : Eq(g)
  <2>1. h \in [1 .. n -> [V -> V]]
    BY <1>6
  <2>2. \A x \in V : \A k \in 1 .. n : h[k][x] = TimesBase(x, text[k])
    OBVIOUS
  <2> HIDE DEF h
  <2>3. PICK g \in [0 .. n -> V] : Iterates(g, <<>>, n, h)
    BY <1>2, <1>5, <2>1, Recursion
  <2>4. g[0] = <<>> /\ \A k \in 1 .. n : g[k] = TimesBase(g[k - 1], text[k])
    <3>1. \A k \in 1 .. n : g[k - 1] \in V
      BY <1>2
    <3>2. QED
      BY <2>2, <2>3, <3>1 DEF Iterates
  <2>5. \A k \in 0 .. n : g[k] = IF k = 0 THEN <<>> ELSE TimesBase(g[k - 1], text[k])
    <3>1. \A k \in 0 .. n : k # 0 => k \in 1 .. n
      BY <1>2
    <3>2. QED
      BY <2>4, <3>1
  <2>6. Eq(g)
    BY <2>5
  <2>7. QED
    BY <2>6
<1>8. Eq(f)
  <2> HIDE DEF Eq
  <2>1. QED
    BY <1>7
<1> HIDE DEF f
<1>9. f[0] = <<>> /\ \A k \in 1 .. n : f[k] = TimesBase(f[k - 1], text[k])
  <2>1. \A k \in 0 .. n : f[k] = IF k = 0 THEN <<>> ELSE TimesBase(f[k - 1], text[k])
    BY <1>8, Zenon
  <2>2. 0 \in 0 .. n /\ \A k \in 1 .. n : k # 0 /\ k \in 0 .. n
    BY <1>2
  <2>3. QED
    BY <2>1, <2>2
<1> HIDE DEF Eq
<1>10. /\ Value(text, 0, 58) = 0
       /\ \A k \in 0 .. n - 1 : Value(text, k + 1, 58) = Value(text, k, 58) * 58 + text[k + 1]
  <2>1. 58 \in Nat
    OBVIOUS
  <2>2. QED
    BY <1>2, <1>3, <2>1, DigitsFacts
<1> DEFINE S == {k \in 0 .. n : f[k] \in V /\ Value(f[k], Len(f[k]), 256) = Value(text, k, 58)}
<1>11. 0 \in S
  <2>1. Value(<<>>, 0, 256) = 0
    <3>1. 256 \in Nat /\ 0 \in Nat /\ \A k \in 1 .. 0 : <<>>[k] \in Nat
      OBVIOUS
    <3>2. QED
      BY <3>1, ValueFacts, SMTT(30)
  <2>2. Len(<<>>) = 0
    OBVIOUS
  <2>3. QED
    BY <1>2, <1>5, <1>9, <1>10, <2>1, <2>2
<1>12. ASSUME NEW k \in 0 .. n - 1, k \in S
       PROVE  k + 1 \in S
  <2>1. k + 1 \in 1 .. n /\ k + 1 \in 0 .. n /\ (k + 1) - 1 = k
    BY <1>2
  <2>2. f[k + 1] = TimesBase(f[k], text[k + 1])
    BY <1>9, <2>1
  <2>3. f[k] \in V /\ Value(f[k], Len(f[k]), 256) = Value(text, k, 58)
    BY <1>12
  <2>4. /\ TimesBase(f[k], text[k + 1]) \in V
        /\ Value(TimesBase(f[k], text[k + 1]), Len(TimesBase(f[k], text[k + 1])), 256)
             = Value(f[k], Len(f[k]), 256) * 58 + text[k + 1]
    BY <1>6, <2>1, <2>3, SMTT(30)
  <2>5. Value(text, k + 1, 58) = Value(text, k, 58) * 58 + text[k + 1]
    BY <1>10
  <2>6. QED
    BY <2>1, <2>2, <2>3, <2>4, <2>5
<1> HIDE DEF S
<1>13. \A k \in 0 .. n : k \in S
  BY <1>2, <1>11, <1>12, FiniteInduction
<1>14. n \in S
  BY <1>2, <1>13
<1>15. QED
  BY <1>1, <1>4, <1>14 DEF S, n

\* What is left of a sequence without the first z items.
LEMMA RestOf ==
  ASSUME NEW A, NEW s \in Seq(A), NEW z \in 0 .. Len(s)
  PROVE  /\ SubSeq(s, z + 1, Len(s)) \in Seq(A) /\ Len(SubSeq(s, z + 1, Len(s))) = Len(s) - z
         /\ \A k \in 1 .. Len(s) - z : SubSeq(s, z + 1, Len(s))[k] = s[z + k]
<1> DEFINE m == z + 1
           n == Len(s)
<1>1. m \in Int /\ n \in Int /\ n \in Nat /\ z \in Nat /\ z <= n /\ \A i \in m .. n : s[i] \in A
  OBVIOUS
<1>2. m = z + 1
  OBVIOUS
<1> HIDE DEF m, n
<1>3. /\ SubSeq(s, m, n) \in Seq(A) /\ Len(SubSeq(s, m, n)) = (IF m <= n THEN n - m + 1 ELSE 0)
      /\ \A i \in 1 .. n - m + 1 : SubSeq(s, m, n)[i] = s[m + i - 1]
  BY <1>1, SubSeqProperties
<1>4. Len(SubSeq(s, m, n)) = n - z
  BY <1>1, <1>2, <1>3
<1>5. ASSUME NEW k \in 1 .. n - z
      PROVE  SubSeq(s, m, n)[k] = s[z + k]
  <2>1. k \in 1 .. n - m + 1 /\ m + k - 1 = z + k
    BY <1>1, <1>2
  <2>2. QED
    BY <1>3, <2>1
<1>6. QED
  BY <1>3, <1>4, <1>5 DEF m, n

\* s without the zeros in front
Shortened(s) == SubSeq(s, LeadingZeros(s) + 1, Len(s))

\* What is left without the leading zeros is the same number.
LEMMA TailRight ==
  ASSUME NEW A, NEW s \in Seq(A), NEW b \in Nat \ {0}, AreDigits(s, Len(s), b)
  PROVE  /\ Canonical(Shortened(s), b) /\ Len(Shortened(s)) = Len(s) - LeadingZeros(s)
         /\ Value(Shortened(s), Len(Shortened(s)), b) = Value(s, Len(s), b)
         /\ \A k \in 1 .. Len(s) - LeadingZeros(s) : Shortened(s)[k] = s[LeadingZeros(s) + k]
<1> DEFINE z == LeadingZeros(s)
           t == Shortened(s)
           n == Len(s)
<1>1. /\ z \in 0 .. n /\ n \in Nat
      /\ \A k \in 1 .. z : s[k] = 0
      /\ z < n => s[z + 1] # 0
  BY LeadingZerosTyped
<1>2. AreDigits(s, n, b)
  OBVIOUS
<1>3. /\ t \in Seq(A) /\ Len(t) = n - z /\ \A k \in 1 .. n - z : t[k] = s[z + k]
  <2> HIDE DEF z
  <2>1. z \in 0 .. n /\ t = SubSeq(s, z + 1, n)
    BY <1>1 DEF z, Shortened
  <2>2. QED
    BY <2>1, RestOf
<1> HIDE DEF z, n
<1> DEFINE m == n - z
<1>4. m \in Nat /\ z \in Nat /\ z + m = n /\ m \in 0 .. m
  BY <1>1
<1>5. \A k \in 1 .. m : t[k] \in 0 .. b - 1
  <2> SUFFICES ASSUME NEW k \in 1 .. m
               PROVE  t[k] \in 0 .. b - 1
    OBVIOUS
  <2>1. z + k \in 1 .. n
    BY <1>1
  <2>2. s[z + k] \in 0 .. b - 1
    BY <1>2, <2>1 DEF AreDigits
  <2>3. QED
    BY <1>3, <2>2
<1>6. Canonical(t, b)
  <2>1. t \in Seq(0 .. b - 1)
    <3> DEFINE D == 0 .. b - 1
    <3>1. \A k \in 1 .. Len(t) : t[k] \in D
      BY <1>3, <1>5
    <3> HIDE DEF D
    <3>2. t \in Seq(D)
      BY <1>3, <3>1
    <3>3. QED
      BY <3>2 DEF D
  <2>2. t # <<>> => t[1] # 0
    <3> SUFFICES ASSUME t # <<>>
                 PROVE  t[1] # 0
      OBVIOUS
    <3>1. 1 \in 1 .. m
      BY <1>3, <1>4
    <3>2. z < n
      BY <1>1, <3>1
    <3>3. QED
      BY <1>1, <1>3, <3>1, <3>2
  <2>3. QED
    BY <2>1, <2>2 DEF Canonical
<1>7. Value(t, m, b) = Value(s, n, b)
  <2>1. Value(s, z, b) = 0
    <3>1. z \in 0 .. z /\ b \in Nat
      BY <1>4
    <3>2. QED
      BY <1>1, <1>4, <3>1, ZerosValue DEF Zeros
  <2>2. \A k \in 1 .. z + m : s[k] \in Nat
    BY <1>2, <1>4 DEF AreDigits
  <2>3. Shifted(t, s, z, m)
    BY <1>3, <2>2 DEF Shifted
  <2>4. b \in Nat
    OBVIOUS
  <2> HIDE DEF m
  <2>5. \A k \in 0 .. m : Value(t, k, b) = Value(s, z + k, b)
    BY <1>4, <2>1, <2>3, <2>4, SameValue
  <2>6. QED
    BY <1>4, <2>5
<1> HIDE DEF t
<1>8. QED
  BY <1>3, <1>6, <1>7 DEF z, n, t

\* A letter is a digit to the base 58.
LEMMA LetterDigits == 0 .. 58 - 1 = Digit /\ \A x : x \in Digit <=> x \in Nat /\ x < 58
<1>1. 58 - 1 = 57
  OBVIOUS
<1>2. \A x : x \in 0 .. 57 <=> x \in Nat /\ x < 58
  OBVIOUS
<1>3. QED
  BY <1>1, <1>2 DEF Digit

\* So are the bytes of a sequence.
LEMMA BytesAreDigits ==
  ASSUME NEW bytes \in Seq(Byte)
  PROVE  AreDigits(bytes, Len(bytes), 256) /\ \A k \in 1 .. Len(bytes) : bytes[k] \in Nat /\ bytes[k] < 256
<1>1. ASSUME NEW k \in 1 .. Len(bytes)
      PROVE  bytes[k] \in 0 .. 256 - 1 /\ bytes[k] \in Nat /\ bytes[k] < 256
  <2>1. bytes[k] \in Byte
    OBVIOUS
  <2>2. QED
    BY <2>1, ByteDigits, ZenonT(60)
<1>2. AreDigits(bytes, Len(bytes), 256)
  BY <1>1, Zenon DEF AreDigits
<1>3. QED
  BY <1>1, <1>2

\* Bytes with the number of a text are, without the zeros in front, its number.
LEMMA NumberOfBytes ==
  ASSUME NEW text, Len(text) \in Nat, AreDigits(text, Len(text), 58),
         NEW bytes \in Seq(Byte), Value(bytes, Len(bytes), 256) = Value(text, Len(text), 58)
  PROVE  Number(text) = SubSeq(bytes, LeadingZeros(bytes) + 1, Len(bytes))
<1> DEFINE t == SubSeq(bytes, LeadingZeros(bytes) + 1, Len(bytes))
           u == Number(text)
<1>1. /\ Canonical(u, 256) /\ Value(u, Len(u), 256) = Value(text, Len(text), 58)
  BY NumberRight
<1>2. 256 \in Nat \ {0}
  OBVIOUS
<1>3. AreDigits(bytes, Len(bytes), 256)
  BY BytesAreDigits
<1>4. Canonical(t, 256) /\ Value(t, Len(t), 256) = Value(bytes, Len(bytes), 256)
  <2> DEFINE y == Shortened(bytes)
  <2>1. PICK b \in Nat \ {0} : b = 256
    BY <1>2
  <2>2. bytes \in Seq(Byte) /\ AreDigits(bytes, Len(bytes), b)
    BY <1>3, <2>1
  <2>3. Canonical(y, b) /\ Value(y, Len(y), b) = Value(bytes, Len(bytes), b)
    BY <2>2, TailRight
  <2>4. t = y
    BY DEF Shortened
  <2>5. QED
    BY <2>1, <2>3, <2>4, ZenonT(60)
<1> HIDE DEF t, u
<1>5. u = t
  BY <1>1, <1>2, <1>4, CanonicalUnique
<1>6. QED
  BY <1>5 DEF t, u

\* PublicKey::fromBase58 reads the key that a text stands for, and throws only
\* when it stands for none.
THEOREM FromBase58Right ==
  ASSUME NEW text \in Seq(Digit \cup {NoDigit})
  PROVE  /\ FromBase58(text).ok => /\ FromBase58(text).data \in Seq(Byte)
                                   /\ Len(FromBase58(text).data) = KeySize
                                   /\ Denotes(text, FromBase58(text).data)
         /\ ~FromBase58(text).ok => \/ \E k \in 1 .. Len(text) : text[k] = NoDigit
                                    \/ LeadingZeros(text) + Len(Number(text)) # KeySize
<1> DEFINE x == Numbers(text)
           bin == BytesOf(x.outi)
           n == Len(text)
<1>1. /\ FromBase58(text).ok <=> x.carry = 0 /\ DecodedSize(bin, text) = KeySize
      /\ FromBase58(text).ok => FromBase58(text).data = bin
  BY DEF FromBase58
<1>2. n \in Nat /\ KeySize \in Nat /\ \A k \in 1 .. n : text[k] \in Digit \cup {NoDigit}
  BY LimbFacts
<1>3. ReadSoFar(x, text, n)
  BY NumbersRight
<1> HIDE DEF x
<1>4. LeadingZeros(text) \in Nat
  BY LeadingZerosTyped
<1>5. ASSUME x.carry = 0
      PROVE  /\ AreDigits(text, n, 58) /\ bin \in Seq(Byte) /\ Len(bin) = KeySize
             /\ LeadingZeros(bin) \in 0 .. KeySize
             /\ Number(text) = SubSeq(bin, LeadingZeros(bin) + 1, Len(bin))
             /\ Len(Number(text)) = KeySize - LeadingZeros(bin)
  <2>1. /\ AreDigits(text, n, 58) /\ AreDigits(x.outi, Outisz, Limb)
        /\ Value(x.outi, Outisz, Limb) = Value(text, n, 58)
    BY <1>3, <1>5 DEF ReadSoFar
  <2>2. AreDigits(bin, KeySize, 256) /\ Value(bin, KeySize, 256) = Value(text, n, 58)
    <3> DEFINE outi == x.outi
    <3>1. AreDigits(outi, Outisz, Limb)
      BY <2>1
    <3> HIDE DEF outi
    <3>2. AreDigits(BytesOf(outi), KeySize, 256) /\ Value(BytesOf(outi), KeySize, 256) = Value(outi, Outisz, Limb)
      BY <3>1, BytesRight
    <3>3. QED
      BY <2>1, <3>2 DEF outi
  <2>3. bin \in Seq(Byte) /\ Len(bin) = KeySize
    <3>1. \A k \in 1 .. KeySize : bin[k] \in Byte
      <4>1. 256 - 1 = 255
        OBVIOUS
      <4>2. QED
        BY <2>2, <4>1 DEF AreDigits, Byte
    <3>2. PICK c : bin = [k \in 1 .. KeySize |-> c[k]]
      <4>1. bin = [k \in 1 .. KeySize |-> bin[k]]
        BY DEF BytesOf
      <4>2. QED
        BY <4>1
    <3> HIDE DEF bin
    <3>3. \A k \in 1 .. KeySize : c[k] \in Byte
      BY <3>1, <3>2
    <3>4. QED
      BY <1>2, <3>2, <3>3
  <2> HIDE DEF bin
  <2>4. LeadingZeros(bin) \in 0 .. KeySize
    BY <2>3, LeadingZerosTyped
  <2>5. Number(text) = SubSeq(bin, LeadingZeros(bin) + 1, Len(bin))
    <3>1. Value(bin, Len(bin), 256) = Value(text, Len(text), 58)
      BY <2>2, <2>3
    <3>2. QED
      BY <1>2, <2>1, <2>3, <3>1, NumberOfBytes, ZenonT(60)
  <2>6. Len(Number(text)) = KeySize - LeadingZeros(bin)
    BY <2>3, <2>4, <2>5, RestOf
  <2>7. QED
    BY <2>1, <2>3, <2>4, <2>5, <2>6
<1>6. ASSUME FromBase58(text).ok
      PROVE  /\ FromBase58(text).data \in Seq(Byte) /\ Len(FromBase58(text).data) = KeySize
             /\ Denotes(text, FromBase58(text).data)
  <2>1. x.carry = 0 /\ DecodedSize(bin, text) = KeySize /\ FromBase58(text).data = bin
    BY <1>1, <1>6
  <2>2. /\ AreDigits(text, n, 58) /\ bin \in Seq(Byte) /\ Len(bin) = KeySize
        /\ LeadingZeros(bin) \in 0 .. KeySize
        /\ Number(text) = SubSeq(bin, LeadingZeros(bin) + 1, Len(bin))
    BY <1>5, <2>1
  <2> HIDE DEF bin
  <2>3. LeadingZeros(text) = LeadingZeros(bin)
    BY <1>2, <1>4, <2>1, <2>2 DEF DecodedSize
  <2>4. \A k \in 1 .. n : text[k] \in Digit
    <3>1. 58 - 1 = 57
      OBVIOUS
    <3>2. QED
      BY <2>2, <3>1 DEF AreDigits, Digit
  <2>5. Denotes(text, bin)
    BY <2>2, <2>3, <2>4 DEF Denotes
  <2>6. QED
    BY <2>1, <2>2, <2>5
<1>7. ASSUME ~FromBase58(text).ok
      PROVE  \/ \E k \in 1 .. n : text[k] = NoDigit
             \/ LeadingZeros(text) + Len(Number(text)) # KeySize
  <2>1. CASE x.carry = 0
    <3>1. DecodedSize(bin, text) # KeySize
      BY <1>1, <1>7, <2>1
    <3>2. Len(Number(text)) = KeySize - LeadingZeros(bin) /\ LeadingZeros(bin) \in 0 .. KeySize
      BY <1>5, <2>1
    <3> HIDE DEF bin
    <3>3. QED
      BY <1>2, <1>4, <3>1, <3>2 DEF DecodedSize
  <2>2. CASE x.carry # 0
    <3> SUFFICES ASSUME \A k \in 1 .. n : text[k] # NoDigit, LeadingZeros(text) + Len(Number(text)) = KeySize
                 PROVE  FALSE
      OBVIOUS
    <3>1. AreDigits(text, n, 58)
      <4>1. 58 - 1 = 57 /\ \A k \in 1 .. n : text[k] \in Digit
        BY <1>2
      <4>2. QED
        BY <4>1 DEF AreDigits, Digit
    <3>2. Power(256, KeySize) <= Value(text, n, 58)
      <4>1. Power(Limb, Outisz) <= Value(text, n, 58)
        BY <1>3, <2>2, <3>1 DEF ReadSoFar
      <4>2. QED
        BY <4>1, LimbsArePowers
    <3> DEFINE u == Number(text)
               m == Len(u)
    <3>3. Canonical(u, 256) /\ Value(u, m, 256) = Value(text, n, 58)
      BY <1>2, <3>1, NumberRight
    <3>4. m \in Nat /\ m <= KeySize
      <4>1. m \in Nat
        BY <3>3 DEF Canonical
      <4>2. QED
        BY <1>2, <1>4, <4>1
    <3>5. \A k \in 1 .. m : u[k] \in 0 .. 256 - 1
      <4>1. u \in Seq(Byte)
        BY <3>3, ByteDigits DEF Canonical
      <4> HIDE DEF u
      <4>2. \A k \in 1 .. m : u[k] \in Byte
        BY <4>1
      <4>3. QED
        BY <4>2, ByteDigits
    <3> HIDE DEF u, m
    <3>6. 256 \in Nat \ {0} /\ m \in 0 .. m
      BY <3>4
    <3>7. Value(u, m, 256) \in Nat /\ Value(u, m, 256) < Power(256, m)
      BY <3>4, <3>5, <3>6, ValueBelow, ZenonT(60)
    <3>8. Power(256, m) <= Power(256, KeySize) /\ Power(256, m) \in Nat /\ Power(256, KeySize) \in Nat
      <4>1. Power(256, m) <= Power(256, KeySize)
        BY <1>2, <3>4, <3>6, PowerGrows
      <4>2. QED
        BY <1>2, <3>4, <3>6, <4>1, PowerFacts
    <3>9. QED
      BY <3>2, <3>3, <3>7, <3>8
  <2>3. QED
    BY <2>1, <2>2
<1>8. QED
  BY <1>6, <1>7

----------------------------------------------------------------------------
(* b58enc. *)

\* what the inner loop leaves
Rounds == [carry : Nat, ended : BOOLEAN, high : Nat, buf : Seq(Nat)]

\* what a round needs: n digits, zero as far as it does not look
Ready(buf, high, n) == Len(buf) = n /\ AreDigits(buf, n, 58) /\ Zeros(buf, high)

\* and room for the number
HasRoom(buf, byte, n) == Value(buf, n, 58) * 256 + byte < Power(58, n)

\* and what it leaves
Rounded(x, buf, byte, n) ==
  /\ x.buf \in Seq(Nat) /\ Len(x.buf) = n /\ AreDigits(x.buf, n, 58)
  /\ Value(x.buf, n, 58) = Value(buf, n, 58) * 256 + byte
  /\ x.high \in 1 .. n /\ (x.buf[1] = 0 => Zeros(x.buf, x.high))

\* A round multiplies by 256 and adds the byte, although it stops early, as
\* long as what it does not look at is zero and there is room for the product.
LEMMA RoundRight ==
  ASSUME NEW n \in Nat \ {0}, NEW buf \in Seq(Nat), NEW high \in 1 .. n, Ready(buf, high, n),
         NEW byte \in Nat, HasRoom(buf, byte, n)
  PROVE  Rounded(Round(buf, high, byte), buf, byte, n)
<1> USE DEF Ready, HasRoom, Rounded
<1> DEFINE First == [carry |-> byte, ended |-> FALSE, high |-> high, buf |-> <<>>]
           E(x, j) == x.ended \/ (j <= high /\ x.carry = 0)
           T(x, j) == x.carry + 256 * buf[j]
           C(x, j) == IF E(x, j) THEN 0 ELSE T(x, j) \div 58
           D(x, j) == IF E(x, j) THEN buf[j] ELSE T(x, j) % 58
           H(x, j) == IF x.ended THEN x.high ELSE j
           Step(x, j) == [carry |-> C(x, j), ended |-> E(x, j), high |-> H(x, j), buf |-> <<D(x, j)>> \o x.buf]
           Eq(g) == g = [j \in 1 .. n + 1 |-> IF j > n THEN First ELSE Step(g[j + 1], j)]
           f == CHOOSE g : Eq(g)
           h == [j \in 1 .. n |-> [x \in Rounds |-> Step(x, j)]]
<1>1. Round(buf, high, byte) = f[1]
  BY DEF Round
<1>2. /\ n \in Nat /\ high \in Nat /\ 1 <= high /\ high <= n /\ \A j \in 1 .. n : buf[j] \in Nat /\ buf[j] < 58
      /\ \A j \in 1 .. high : buf[j] = 0
  <2>1. 58 \in Nat
    OBVIOUS
  <2>2. \A j \in 1 .. n : buf[j] \in Nat /\ buf[j] < 58
    BY <2>1, DigitsBelow
  <2>3. QED
    BY <2>2 DEF Zeros
<1>3. First \in Rounds /\ First.carry = byte /\ First.buf = <<>> /\ First.ended = FALSE
  BY <1>2 DEF Rounds
<1>4. ASSUME NEW x \in Rounds, NEW j \in 1 .. n
      PROVE  /\ Step(x, j) \in Rounds /\ Step(x, j).buf = <<D(x, j)>> \o x.buf /\ Step(x, j).carry = C(x, j)
             /\ Step(x, j).ended = E(x, j) /\ Step(x, j).high = H(x, j)
             /\ D(x, j) \in Nat /\ D(x, j) < 58 /\ x.carry \in Nat
             /\ ~E(x, j) => C(x, j) * 58 + D(x, j) = x.carry + 256 * buf[j]
             /\ E(x, j) => C(x, j) = 0 /\ D(x, j) = buf[j]
  <2>1. x.carry \in Nat /\ x.ended \in BOOLEAN /\ x.high \in Nat /\ x.buf \in Seq(Nat)
    BY DEF Rounds
  <2>2. buf[j] \in Nat /\ buf[j] < 58 /\ j \in Nat
    BY <1>2
  <2>3. PICK y \in Nat : y = T(x, j)
    BY <2>1, <2>2
  <2>4. y \div 58 \in Nat /\ y % 58 \in Nat /\ y % 58 < 58 /\ (y \div 58) * 58 + (y % 58) = y
    OBVIOUS
  <2>5. /\ ~E(x, j) => C(x, j) = y \div 58 /\ D(x, j) = y % 58
        /\ E(x, j) => C(x, j) = 0 /\ D(x, j) = buf[j]
    BY <2>3
  <2>6. H(x, j) \in Nat /\ E(x, j) \in BOOLEAN
    BY <2>1, <2>2
  <2>7. y = x.carry + 256 * buf[j]
    BY <2>3
  <2>8. Step(x, j) = [carry |-> C(x, j), ended |-> E(x, j), high |-> H(x, j), buf |-> <<D(x, j)>> \o x.buf]
    OBVIOUS
  <2> HIDE DEF E, T, C, D, H, Step
  <2>9. C(x, j) \in Nat /\ D(x, j) \in Nat /\ D(x, j) < 58
    BY <2>2, <2>4, <2>5
  <2>10. ~E(x, j) => C(x, j) * 58 + D(x, j) = x.carry + 256 * buf[j]
    BY <2>4, <2>5, <2>7
  <2>11. Step(x, j) \in Rounds
    BY <2>1, <2>6, <2>8, <2>9 DEF Rounds
  <2>12. /\ Step(x, j).buf = <<D(x, j)>> \o x.buf /\ Step(x, j).carry = C(x, j)
         /\ Step(x, j).ended = E(x, j) /\ Step(x, j).high = H(x, j)
    BY <2>8, SMTT(30)
  <2>13. QED
    BY <2>1, <2>5, <2>9, <2>10, <2>11, <2>12
<1>7. \A x, j : /\ E(x, j) <=> x.ended \/ (j <= high /\ x.carry = 0)
                /\ H(x, j) = IF x.ended THEN x.high ELSE j
  OBVIOUS
<1> HIDE DEF E, T, C, D, H, Step
<1>5. \E g : Eq(g)
  <2>1. h \in [1 .. n -> [Rounds -> Rounds]]
    BY <1>4, ZenonT(60)
  <2>2. \A x \in Rounds : \A j \in 1 .. n : h[j][x] = Step(x, j)
    OBVIOUS
  <2> HIDE DEF h, First
  <2>3. PICK g \in [1 .. n + 1 -> Rounds] : IteratesBack(g, First, n, h)
    BY <1>2, <1>3, <2>1, BackRecursion
  <2>4. \A j \in 1 .. n + 1 : g[j] = IF j > n THEN First ELSE Step(g[j + 1], j)
    <3>1. \A j \in 1 .. n : g[j + 1] \in Rounds
      BY <1>2, <2>3
    <3>2. \A j \in 1 .. n : g[j] = Step(g[j + 1], j)
      BY <2>2, <2>3, <3>1 DEF IteratesBack
    <3>3. \A j \in 1 .. n + 1 : (j > n => j = n + 1) /\ (~(j > n) => j \in 1 .. n)
      BY <1>2
    <3>4. QED
      BY <2>3, <3>2, <3>3 DEF IteratesBack
  <2>5. Eq(g)
    BY <2>3, <2>4
  <2>6. QED
    BY <2>5
<1>6. Eq(f)
  <2> HIDE DEF Eq
  <2>1. QED
    BY <1>5
<1> HIDE DEF f, First
<1>8. f[n + 1] = First /\ \A j \in 1 .. n : f[j] = Step(f[j + 1], j)
  <2>1. \A j \in 1 .. n + 1 : f[j] = IF j > n THEN First ELSE Step(f[j + 1], j)
    BY <1>6, Zenon
  <2>2. n + 1 \in 1 .. n + 1 /\ n + 1 > n /\ \A j \in 1 .. n : j \in 1 .. n + 1 /\ ~(j > n)
    BY <1>2
  <2>3. QED
    BY <2>1, <2>2
<1> HIDE DEF Eq
<1> DEFINE d == [j \in 1 .. n |-> D(f[j + 1], j)]
           Inv(j) == /\ f[j] \in Rounds
                     /\ f[j].ended => /\ j <= high /\ f[j].carry = 0 /\ j <= f[j].high /\ f[j].high <= high
                                      /\ \A k \in j .. f[j].high : d[k] = 0
                     /\ ~f[j].ended /\ j # n + 1 => f[j].high = j
           S == {j \in 1 .. n + 1 : Inv(j)}
<1>9. n + 1 \in S
  BY <1>2, <1>3, <1>8
<1>10. ASSUME NEW j \in 1 .. n, j + 1 \in S
       PROVE  j \in S
  <2> DEFINE x == f[j + 1]
  <2>1. /\ x \in Rounds
        /\ x.ended => /\ j + 1 <= high /\ x.carry = 0 /\ j + 1 <= x.high /\ x.high <= high
                      /\ \A k \in j + 1 .. x.high : d[k] = 0
    BY <1>10
  <2>2. f[j] = Step(x, j) /\ d[j] = D(x, j)
    BY <1>8
  <2> HIDE DEF d, x
  <2>3. /\ f[j] \in Rounds /\ f[j].carry = C(x, j) /\ f[j].ended = E(x, j) /\ f[j].high = H(x, j)
        /\ E(x, j) => C(x, j) = 0 /\ D(x, j) = buf[j]
    <3>1. x \in Rounds
      BY <2>1
    <3>2. /\ Step(x, j) \in Rounds /\ Step(x, j).carry = C(x, j)
          /\ Step(x, j).ended = E(x, j) /\ Step(x, j).high = H(x, j)
      BY <1>4, <3>1, ZenonT(60)
    <3>3. E(x, j) => C(x, j) = 0 /\ D(x, j) = buf[j]
      BY <1>4, <3>1, ZenonT(60)
    <3>4. QED
      BY <2>2, <3>2, <3>3
  <2>4. j \in Nat /\ j # n + 1 /\ j \in 1 .. n + 1 /\ high \in Nat
    BY <1>2
  <2>5. x.high \in Nat
    BY <2>1 DEF Rounds
  <2>6. CASE x.ended
    <3>1. E(x, j) /\ H(x, j) = x.high
      BY <1>7, <2>6
    <3>2. j <= high /\ j <= x.high /\ j \in 1 .. high
      BY <2>1, <2>4, <2>5, <2>6
    <3>3. d[j] = 0
      BY <1>2, <2>2, <2>3, <3>1, <3>2
    <3>4. \A k \in j .. x.high : d[k] = 0
      <4>1. \A k \in j .. x.high : k = j \/ k \in j + 1 .. x.high
        BY <2>4, <2>5
      <4>2. QED
        BY <2>1, <2>6, <3>3, <4>1
    <3>5. QED
      BY <2>1, <2>3, <2>4, <2>6, <3>1, <3>2, <3>4, ZenonT(60)
  <2>7. CASE ~x.ended /\ j <= high /\ x.carry = 0
    <3>1. E(x, j) /\ H(x, j) = j
      BY <1>7, <2>7
    <3>2. j \in 1 .. high
      BY <2>4, <2>7
    <3>3. d[j] = 0
      BY <1>2, <2>2, <2>3, <3>1, <3>2
    <3>4. \A k \in j .. j : d[k] = 0
      BY <2>4, <3>3
    <3>5. QED
      BY <2>3, <2>4, <2>7, <3>1, <3>4
  <2>8. CASE ~x.ended /\ ~(j <= high /\ x.carry = 0)
    <3>1. ~E(x, j) /\ H(x, j) = j
      BY <1>7, <2>8
    <3>2. QED
      BY <2>3, <2>4, <3>1
  <2>9. QED
    BY <2>6, <2>7, <2>8
<1> HIDE DEF S
<1>11. \A j \in 1 .. n + 1 : j \in S
  BY <1>2, <1>9, <1>10, BackInduction
<1>12. \A j \in 1 .. n + 1 : Inv(j)
  BY <1>11 DEF S
<1> DEFINE q == [j \in 1 .. n + 1 |-> f[j].buf]
           c == [j \in 1 .. n + 1 |-> f[j].carry]
<1>13. \A j \in 1 .. n : j \in 1 .. n + 1 /\ j + 1 \in 1 .. n + 1
  BY <1>2
<1>14. \A j \in 1 .. n + 1 : f[j] \in Rounds
  BY <1>12
<1>15. /\ d \in [1 .. n -> Nat] /\ (\A j \in 1 .. n : d[j] < 58) /\ q[n + 1] = <<>> /\ c[n + 1] = byte
       /\ \A j \in 1 .. n + 1 : c[j] \in Nat
       /\ \A j \in 1 .. n : q[j] = <<d[j]>> \o q[j + 1]
       /\ \A j \in 1 .. n : c[j] * 58 + d[j] = buf[j] * 256 + c[j + 1]
  <2>1. n + 1 \in 1 .. n + 1
    BY <1>2
  <2>2. d \in [1 .. n -> Nat] /\ (\A j \in 1 .. n : d[j] < 58)
    <3>1. ASSUME NEW j \in 1 .. n
          PROVE  D(f[j + 1], j) \in Nat /\ D(f[j + 1], j) < 58
      <4>1. f[j + 1] \in Rounds
        BY <1>13, <1>14
      <4>2. QED
        BY <1>4, <4>1, ZenonT(60)
    <3>2. QED
      BY <3>1
  <2>3. q[n + 1] = <<>> /\ c[n + 1] = byte
    BY <1>3, <1>8, <2>1
  <2>4. \A j \in 1 .. n + 1 : c[j] \in Nat
    BY <1>14 DEF Rounds
  <2>5. ASSUME NEW j \in 1 .. n
        PROVE  q[j] = <<d[j]>> \o q[j + 1] /\ c[j] * 58 + d[j] = buf[j] * 256 + c[j + 1]
    <3> DEFINE x == f[j + 1]
    <3>1. x \in Rounds /\ f[j] = Step(x, j)
      BY <1>8, <1>13, <1>14
    <3>2. /\ q[j] = f[j].buf /\ q[j + 1] = x.buf /\ d[j] = D(x, j)
          /\ c[j] = f[j].carry /\ c[j + 1] = x.carry
      BY <1>13
    <3>3. x.ended => j + 1 <= high /\ x.carry = 0
      <4>1. Inv(j + 1)
        BY <1>12, <1>13
      <4>2. QED
        BY <4>1
    <3> HIDE DEF x, q, c, d
    <3>4. /\ Step(x, j).buf = <<D(x, j)>> \o x.buf /\ Step(x, j).carry = C(x, j) /\ x.carry \in Nat
          /\ ~E(x, j) => C(x, j) * 58 + D(x, j) = x.carry + 256 * buf[j]
          /\ E(x, j) => C(x, j) = 0 /\ D(x, j) = buf[j]
      BY <1>4, <3>1
    <3>5. q[j] = <<d[j]>> \o q[j + 1]
      BY <3>1, <3>2, <3>4
    <3>6. c[j] * 58 + d[j] = buf[j] * 256 + c[j + 1]
      <4>1. buf[j] \in Nat /\ 256 * buf[j] = buf[j] * 256 /\ j \in Nat /\ high \in Nat
        BY <1>2
      <4>2. CASE ~E(x, j)
        BY <3>1, <3>2, <3>4, <4>1, <4>2
      <4>3. CASE E(x, j)
        <5>1. x.carry = 0 /\ j <= high
          BY <1>7, <3>3, <4>1, <4>3
        <5>2. buf[j] = 0
          <6>1. j \in 1 .. high
            BY <4>1, <5>1
          <6>2. QED
            BY <1>2, <6>1
        <5>3. C(x, j) = 0 /\ D(x, j) = 0
          BY <3>4, <4>3, <5>2
        <5>4. c[j] = 0 /\ d[j] = 0 /\ c[j + 1] = 0
          BY <3>1, <3>2, <3>4, <5>1, <5>3
        <5>5. QED
          BY <5>2, <5>4
      <4>4. QED
        BY <4>2, <4>3
    <3>7. QED
      BY <3>5, <3>6
  <2>6. QED
    BY <2>2, <2>3, <2>4, <2>5, ZenonT(60)
<1>16. 1 \in 1 .. n + 1 /\ 1 \in 1 .. n
  BY <1>2
<1>17. f[1].buf = q[1] /\ f[1].carry = c[1]
  BY <1>16
<1>18. Inv(1)
  BY <1>12, <1>16
<1>19. f[1].high \in 1 .. n /\ (d[1] = 0 => \A k \in 1 .. f[1].high : d[k] = 0)
  <2> HIDE DEF d
  <2>1. f[1].high \in Nat
    BY <1>18 DEF Rounds
  <2>2. CASE f[1].ended
    BY <1>2, <1>18, <2>1, <2>2
  <2>3. CASE ~f[1].ended
    <3>1. f[1].high = 1
      BY <1>2, <1>18, <2>3
    <3>2. QED
      BY <1>2, <3>1
  <2>4. QED
    BY <2>2, <2>3
<1> HIDE DEF d, q, c, Inv
<1> DEFINE e == q[1]
<1>20. e \in Seq(Nat) /\ Len(e) = n /\ \A k \in 1 .. n : e[k] = d[k] /\ e[k] \in Nat /\ e[k] < 58
  <2>1. Prepends(q, d, n)
    BY <1>15 DEF Prepends
  <2>2. Consists(q[1], d, n, Nat)
    BY <1>2, <1>15, <2>1, Prepended
  <2>3. QED
    BY <1>15, <2>2, ZenonT(60) DEF Consists
<1> HIDE DEF e
<1>21. AreDigits(e, n, 58)
  <2>1. ASSUME NEW k \in 1 .. n
        PROVE  e[k] \in 0 .. 58 - 1
    <3>1. e[k] \in Nat /\ e[k] < 58
      BY <1>20
    <3>2. QED
      BY <3>1, LetterDigits, Zenon
  <2>2. QED
    BY <2>1, Zenon DEF AreDigits
<1>22. Value(e, n, 58) = Value(buf, n, 58) * 256 + byte
  <2>1. Carries(buf, 256, e, c, n, 58)
    BY <1>2, <1>15, <1>20, ZenonT(60) DEF Carries
  <2>2. 256 \in Nat /\ 58 \in Nat \ {0}
    OBVIOUS
  <2> DEFINE v == Value(buf, n, 58) * 256 + byte
             w == Value(e, n, 58)
             P == Power(58, n)
             g == c[1]
  <2>3. v = w + g * P
    <3>1. Value(buf, n, 58) * 256 + c[n + 1] = Value(e, n, 58) + c[1] * Power(58, n)
      BY <1>2, <2>1, <2>2, CarryValue
    <3>2. QED
      BY <1>15, <3>1
  <2>4. w \in Nat /\ P \in Nat /\ g \in Nat
    <3>1. 58 \in Nat /\ n \in 0 .. n
      BY <1>2
    <3>2. w \in Nat
      BY <1>2, <1>21, <3>1, DigitsFacts
    <3>3. P \in Nat
      BY <1>2, <2>2, PowerFacts
    <3>4. QED
      BY <1>15, <1>16, <3>2, <3>3
  <2>5. v < P
    OBVIOUS
  <2> HIDE DEF v, w, P, g
  <2>6. g = 0
    <3> SUFFICES ASSUME g # 0
                 PROVE  FALSE
      OBVIOUS
    <3>1. 1 * P <= g * P
      <4>1. 1 \in Int /\ g \in Int /\ 1 <= g
        BY <2>4
      <4>2. QED
        BY <2>4, <4>1, ProductMonotone
    <3>2. 1 * P = P /\ g * P \in Int
      BY <2>4
    <3>3. QED
      BY <2>3, <2>4, <2>5, <3>1, <3>2
  <2>7. 0 * P = 0
    BY <2>4
  <2>8. v = w
    BY <2>3, <2>4, <2>6, <2>7
  <2>9. QED
    BY <2>8 DEF v, w
<1>23. e[1] = 0 => Zeros(e, f[1].high)
  <2> SUFFICES ASSUME e[1] = 0, NEW k \in 1 .. f[1].high
               PROVE  e[k] = 0
    BY DEF Zeros
  <2>1. d[1] = 0
    BY <1>16, <1>20
  <2>2. k \in 1 .. n
    BY <1>2, <1>19
  <2>3. QED
    BY <1>19, <1>20, <2>1, <2>2
<1>24. QED
  BY <1>1, <1>17, <1>19, <1>20, <1>21, <1>22, <1>23 DEF e

\* Eleven letters are enough for eight bytes, and the buffer for less.
LEMMA EightBytes ==
  /\ Power(256, 8) <= Power(58, 11)
  /\ \A r \in 0 .. 7 : Power(256, r) <= Power(58, BufferSize(r)) /\ BufferSize(r) \in Nat
<1>1. 256 \in Nat \ {0} /\ 58 \in Nat \ {0}
  OBVIOUS
<1>2. Power(256, 0) = 1 /\ \A k \in Nat : Power(256, k + 1) = Power(256, k) * 256
  BY BytePowers
<1>3. Power(58, 0) = 1 /\ \A k \in Nat : Power(58, k + 1) = Power(58, k) * 58
  BY <1>1, PowerFacts
<1>4. /\ Power(256, 0 + 1) = Power(256, 0) * 256 /\ Power(256, 1 + 1) = Power(256, 1) * 256
      /\ Power(256, 2 + 1) = Power(256, 2) * 256 /\ Power(256, 3 + 1) = Power(256, 3) * 256
      /\ Power(256, 4 + 1) = Power(256, 4) * 256 /\ Power(256, 5 + 1) = Power(256, 5) * 256
      /\ Power(256, 6 + 1) = Power(256, 6) * 256 /\ Power(256, 7 + 1) = Power(256, 7) * 256
  BY <1>2
<1>5. /\ Power(58, 0 + 1) = Power(58, 0) * 58 /\ Power(58, 1 + 1) = Power(58, 1) * 58
      /\ Power(58, 2 + 1) = Power(58, 2) * 58 /\ Power(58, 3 + 1) = Power(58, 3) * 58
      /\ Power(58, 4 + 1) = Power(58, 4) * 58 /\ Power(58, 5 + 1) = Power(58, 5) * 58
      /\ Power(58, 6 + 1) = Power(58, 6) * 58 /\ Power(58, 7 + 1) = Power(58, 7) * 58
      /\ Power(58, 8 + 1) = Power(58, 8) * 58 /\ Power(58, 9 + 1) = Power(58, 9) * 58
      /\ Power(58, 10 + 1) = Power(58, 10) * 58
  BY <1>3
<1>6. /\ 0 + 1 = 1 /\ 1 + 1 = 2 /\ 2 + 1 = 3 /\ 3 + 1 = 4 /\ 4 + 1 = 5 /\ 5 + 1 = 6 /\ 6 + 1 = 7 /\ 7 + 1 = 8
      /\ 8 + 1 = 9 /\ 9 + 1 = 10 /\ 10 + 1 = 11
  OBVIOUS
<1>7. /\ Power(256, 1) = 256 /\ Power(256, 2) = 65536
      /\ Power(256, 3) = 16777216 /\ Power(256, 4) = 4294967296 /\ Power(256, 5) = 1099511627776
      /\ Power(256, 6) = 281474976710656 /\ Power(256, 7) = 72057594037927936
      /\ Power(256, 8) = 18446744073709551616
  BY <1>2, <1>4, <1>6
<1>8. /\ Power(58, 1) = 58 /\ Power(58, 2) = 3364 /\ Power(58, 3) = 195112 /\ Power(58, 4) = 11316496
      /\ Power(58, 5) = 656356768 /\ Power(58, 6) = 38068692544 /\ Power(58, 7) = 2207984167552
      /\ Power(58, 8) = 128063081718016 /\ Power(58, 9) = 7427658739644928
      /\ Power(58, 10) = 430804206899405824 /\ Power(58, 11) = 24986644000165537792
  BY <1>3, <1>5, <1>6
<1>9. Power(256, 8) <= Power(58, 11)
  BY <1>7, <1>8
<1>10. /\ BufferSize(0) = 1 /\ BufferSize(1) = 2 /\ BufferSize(2) = 3 /\ BufferSize(3) = 5
       /\ BufferSize(4) = 6 /\ BufferSize(5) = 7 /\ BufferSize(6) = 9 /\ BufferSize(7) = 10
  BY DEF BufferSize
<1>11. ASSUME NEW r \in 0 .. 7
       PROVE  Power(256, r) <= Power(58, BufferSize(r)) /\ BufferSize(r) \in Nat
  <2>1. r = 0 \/ r = 1 \/ r = 2 \/ r = 3 \/ r = 4 \/ r = 5 \/ r = 6 \/ r = 7
    OBVIOUS
  <2>2. QED
    BY <1>2, <1>7, <1>8, <1>10, <2>1
<1>12. QED
  BY <1>9, <1>11

\* Both for eights of bytes.
LEMMA EightsOfBytes ==
  ASSUME NEW q \in Nat
  PROVE  Power(256, 8 * q) <= Power(58, 11 * q)
<1> DEFINE S == {k \in Nat : Power(256, 8 * k) <= Power(58, 11 * k)}
<1>1. 256 \in Nat \ {0} /\ 58 \in Nat \ {0}
  OBVIOUS
<1>2. Power(256, 0) = 1 /\ \A k \in Nat : Power(256, k) \in Nat \ {0}
  BY BytePowers
<1>3. Power(58, 0) = 1 /\ \A k \in Nat : Power(58, k) \in Nat \ {0}
  BY <1>1, PowerFacts
<1>4. 0 \in S
  <2>1. 8 * 0 = 0 /\ 11 * 0 = 0
    OBVIOUS
  <2>2. QED
    BY <1>2, <1>3, <2>1
<1>5. ASSUME NEW k \in Nat, k \in S
      PROVE  k + 1 \in S
  <2> DEFINE a == 8 * k
             b == 11 * k
             p == Power(256, a)
             r == Power(58, b)
             x == Power(256, 8)
             y == Power(58, 11)
  <2>1. a \in Nat /\ b \in Nat /\ 8 * (k + 1) = a + 8 /\ 11 * (k + 1) = b + 11 /\ 8 \in Nat /\ 11 \in Nat
    OBVIOUS
  <2>2. p <= r /\ x <= y
    BY <1>5, EightBytes
  <2> HIDE DEF a, b
  <2>3. p \in Nat /\ r \in Nat /\ x \in Nat /\ y \in Nat
    BY <1>2, <1>3, <2>1
  <2>4. Power(256, a + 8) = p * x
    BY <1>1, <2>1, PowerAdd
  <2>5. Power(58, b + 11) = r * y
    BY <1>1, <2>1, PowerAdd
  <2> HIDE DEF p, r, x, y
  <2>6. p * x <= r * x
    BY <2>2, <2>3, ProductMonotone
  <2>7. x * r <= y * r
    BY <2>2, <2>3, ProductMonotone
  <2>8. x * r = r * x /\ y * r = r * y /\ p * x \in Int /\ r * x \in Int /\ r * y \in Int
    BY <2>3
  <2>9. p * x <= r * y
    BY <2>6, <2>7, <2>8
  <2>10. QED
    BY <2>1, <2>4, <2>5, <2>9
<1> HIDE DEF S
<1>6. \A k \in Nat : k \in S
  BY <1>4, <1>5, SetInduction
<1>7. QED
  BY <1>6 DEF S

\* The buffer has room for every number of its bytes.
LEMMA BufferHasRoom ==
  ASSUME NEW m \in Nat
  PROVE  Power(256, m) <= Power(58, BufferSize(m)) /\ BufferSize(m) \in Nat \ {0}
<1>1. 256 \in Nat \ {0} /\ 58 \in Nat \ {0}
  OBVIOUS
<1>2. PICK q \in Nat : q = m \div 8
  OBVIOUS
<1>3. PICK r \in 0 .. 7 : r = m % 8 /\ m = 8 * q + r
  BY <1>2
<1>4. BufferSize(m) \in Nat \ {0} /\ 11 * q + BufferSize(r) <= BufferSize(m)
  <2>1. m * 138 = 1104 * q + r * 138
    BY <1>2, <1>3
  <2>2. r * 138 \in Nat /\ (r * 138) \div 100 \in Nat /\ 100 * ((r * 138) \div 100) <= r * 138
    BY <1>3
  <2>3. PICK w \in Nat : w = (r * 138) \div 100
    BY <2>2
  <2>4. (m * 138) \div 100 \in Nat /\ 100 * (11 * q + w) <= m * 138
    BY <1>2, <2>1, <2>2, <2>3
  <2>5. 11 * q + w <= (m * 138) \div 100
    <3>1. PICK u \in Nat : u = m * 138
      OBVIOUS
    <3>2. PICK v \in Nat : v = 11 * q + w
      BY <1>2, <2>3
    <3>3. 100 * v <= u
      BY <2>4, <3>1, <3>2
    <3>4. v <= u \div 100
      BY <3>3
    <3>5. QED
      BY <3>1, <3>2, <3>4
  <2>6. QED
    BY <1>2, <2>3, <2>4, <2>5 DEF BufferSize
<1> DEFINE a == 8 * q
           b == 11 * q
           c == BufferSize(r)
           p == Power(256, a)
           x == Power(256, r)
           y == Power(58, b)
           z == Power(58, c)
<1>5. a \in Nat /\ b \in Nat /\ c \in Nat /\ r \in Nat /\ x <= z /\ p <= y
  <2>1. c \in Nat /\ x <= z
    BY <1>3, EightBytes
  <2>2. p <= y
    BY <1>2, EightsOfBytes
  <2>3. QED
    BY <1>2, <1>3, <2>1, <2>2
<1> HIDE DEF a, b, c
<1>6. Power(256, a + r) = p * x /\ p \in Nat /\ x \in Nat
  BY <1>1, <1>5, PowerAdd, PowerFacts
<1>7. Power(58, b + c) = y * z /\ y \in Nat /\ z \in Nat
  BY <1>1, <1>5, PowerAdd, PowerFacts
<1>8. p * x <= y * z
  <2> HIDE DEF p, x, y, z
  <2>1. p * x <= y * x
    BY <1>5, <1>6, <1>7, ProductMonotone
  <2>2. x * y <= z * y
    BY <1>5, <1>6, <1>7, ProductMonotone
  <2>3. x * y = y * x /\ z * y = y * z /\ p * x \in Int /\ y * x \in Int /\ y * z \in Int
    BY <1>6, <1>7
  <2>4. QED
    BY <2>1, <2>2, <2>3
<1>9. Power(58, b + c) <= Power(58, BufferSize(m))
  <2>1. b + c \in Nat /\ b + c <= BufferSize(m)
    BY <1>4, <1>5 DEF b, c
  <2>2. QED
    BY <1>1, <1>4, <2>1, PowerGrows
<1>10. Power(58, BufferSize(m)) \in Nat
  BY <1>1, <1>4, PowerFacts
<1>11. p * x \in Int /\ y * z \in Int
  BY <1>6, <1>7
<1>12. Power(256, m) = p * x
  BY <1>3, <1>6 DEF a
<1> HIDE DEF p, x, y, z
<1>13. QED
  BY <1>4, <1>7, <1>8, <1>9, <1>10, <1>11, <1>12

\* what the outer loop of b58enc has after i bytes
Written58(x, bytes, i, size) ==
  /\ x.buf \in Seq(Nat) /\ Len(x.buf) = size /\ AreDigits(x.buf, size, 58)
  /\ Value(x.buf, size, 58) = Value(bytes, i, 256)
  /\ x.high \in 1 .. size /\ (i < Len(bytes) => Zeros(x.buf, x.high))

\* A byte more: the digit that comes first is zero until the last one.
LEMMA DigitsMore ==
  ASSUME NEW bytes \in Seq(Byte), NEW size \in Nat \ {0},
         Power(256, Len(bytes) - LeadingZeros(bytes)) <= Power(58, size),
         NEW i \in LeadingZeros(bytes) .. Len(bytes) - 1, NEW x, Written58(x, bytes, i, size)
  PROVE  Written58(Round(x.buf, x.high, bytes[i + 1]), bytes, i + 1, size)
<1> DEFINE z == LeadingZeros(bytes)
           n == Len(bytes)
           m == n - z
           y == Round(x.buf, x.high, bytes[i + 1])
<1>1. z \in 0 .. n /\ n \in Nat /\ (\A k \in 1 .. z : bytes[k] = 0) /\ m \in Nat /\ z \in Nat
  BY LeadingZerosTyped
<1>2. 256 \in Nat \ {0} /\ 58 \in Nat \ {0} /\ 256 \in Nat /\ 58 \in Nat
  OBVIOUS
<1>3. AreDigits(bytes, n, 256) /\ \A k \in 1 .. n : bytes[k] \in Nat /\ bytes[k] < 256
  BY BytesAreDigits
<1>4. i \in Nat /\ z <= i /\ i + 1 <= n /\ i < n
  BY <1>1
<1>5. Power(256, m) <= Power(58, size)
  OBVIOUS
<1> HIDE DEF n
<1>6. /\ x.buf \in Seq(Nat) /\ Len(x.buf) = size /\ AreDigits(x.buf, size, 58)
      /\ Value(x.buf, size, 58) = Value(bytes, i, 256) /\ x.high \in 1 .. size /\ Zeros(x.buf, x.high)
  BY <1>4 DEF Written58, n
<1>7. /\ \A k \in 0 .. n : Value(bytes, k, 256) \in Nat
      /\ \A k \in 0 .. n - 1 : Value(bytes, k + 1, 256) = Value(bytes, k, 256) * 256 + bytes[k + 1]
  BY <1>1, <1>2, <1>3, DigitsFacts
<1> HIDE DEF z
<1>8. \A k \in z .. n : Value(bytes, k, 256) < Power(256, k - z)
  <2> SUFFICES ASSUME NEW e \in z .. n
               PROVE  Value(bytes, e, 256) < Power(256, e - z)
    OBVIOUS
  <2> DEFINE t == [k \in 1 .. m |-> bytes[z + k]]
  <2>1. \A k \in 1 .. m : z + k \in 1 .. n
    BY <1>1
  <2>2. \A k \in 1 .. m : t[k] = bytes[z + k] /\ t[k] \in Nat /\ t[k] < 256
    BY <1>3, <2>1
  <2> HIDE DEF t
  <2>3. Value(bytes, z, 256) = 0
    <3>1. z \in 0 .. z /\ z \in Nat /\ 256 \in Nat
      BY <1>1
    <3>2. Zeros(bytes, z)
      BY <1>1 DEF Zeros
    <3>3. QED
      BY <3>1, <3>2, ZerosValue
  <2>4. Shifted(t, bytes, z, m)
    <3>1. z + m = n
      BY <1>1
    <3>2. QED
      BY <1>3, <2>2, <3>1 DEF Shifted
  <2>5. \A k \in 1 .. m : t[k] \in 0 .. 256 - 1
    <3>1. ASSUME NEW k \in 1 .. m
          PROVE  t[k] \in 0 .. 256 - 1
      BY <2>2, ByteDigits
    <3>2. QED
      BY <3>1
  <2> HIDE DEF m
  <2>6. \A k \in 0 .. m : Value(t, k, 256) = Value(bytes, z + k, 256)
    BY <1>1, <1>2, <2>3, <2>4, SameValue
  <2>7. \A k \in 0 .. m : Value(t, k, 256) < Power(256, k)
    BY <1>1, <1>2, <2>5, ValueBelow, ZenonT(60)
  <2>8. e - z \in 0 .. m /\ z + (e - z) = e
    BY <1>1 DEF m
  <2>9. QED
    BY <2>6, <2>7, <2>8
<1>9. \A k \in Nat : Power(256, k) \in Nat \ {0} /\ Power(256, k + 1) = Power(256, k) * 256
  BY BytePowers
<1>10. \A k \in Nat : Power(58, k) \in Nat \ {0} /\ Power(58, k + 1) = Power(58, k) * 58
  BY <1>2, PowerFacts, ZenonT(60)
<1>11. Value(bytes, i + 1, 256) = Value(bytes, i, 256) * 256 + bytes[i + 1] /\ bytes[i + 1] \in Nat
       /\ Value(bytes, i + 1, 256) \in Nat
  <2>1. i \in 0 .. n - 1 /\ i + 1 \in 1 .. n /\ i + 1 \in 0 .. n
    BY <1>1, <1>4
  <2>2. QED
    BY <1>3, <1>7, <2>1
<1>12. Value(bytes, i + 1, 256) < Power(58, size)
  <2>1. i + 1 \in z .. n /\ (i + 1) - z \in Nat /\ (i + 1) - z <= m
    BY <1>1, <1>4
  <2>2. Value(bytes, i + 1, 256) < Power(256, (i + 1) - z)
    BY <1>8, <2>1
  <2>3. Power(256, (i + 1) - z) <= Power(256, m)
    BY <1>1, <1>2, <2>1, PowerGrows
  <2>4. Power(256, (i + 1) - z) \in Nat /\ Power(256, m) \in Nat /\ Power(58, size) \in Nat
    <3>1. Power(256, (i + 1) - z) \in Nat
      BY <1>9, <2>1, ZenonT(60)
    <3>2. Power(256, m) \in Nat
      BY <1>1, <1>9, ZenonT(60)
    <3>3. Power(58, size) \in Nat
      BY <1>10
    <3>4. QED
      BY <3>1, <3>2, <3>3
  <2>5. QED
    BY <1>5, <1>11, <2>2, <2>3, <2>4
<1>13. /\ y.buf \in Seq(Nat) /\ Len(y.buf) = size /\ AreDigits(y.buf, size, 58)
       /\ Value(y.buf, size, 58) = Value(bytes, i + 1, 256)
       /\ y.high \in 1 .. size /\ (y.buf[1] = 0 => Zeros(y.buf, y.high))
  <2> DEFINE buf == x.buf
             high == x.high
             byte == bytes[i + 1]
  <2>1. buf \in Seq(Nat) /\ high \in 1 .. size /\ byte \in Nat
    BY <1>6, <1>11
  <2>2. Ready(buf, high, size) /\ HasRoom(buf, byte, size)
    BY <1>6, <1>11, <1>12 DEF Ready, HasRoom
  <2> HIDE DEF buf, high, byte
  <2>3. Rounded(Round(buf, high, byte), buf, byte, size)
    BY <2>1, <2>2, RoundRight
  <2>4. QED
    BY <1>6, <1>11, <2>3 DEF Rounded, buf, high, byte
<1> HIDE DEF y
<1>14. i + 1 < n => y.buf[1] = 0
  <2> SUFFICES ASSUME i + 1 < n, y.buf[1] # 0
               PROVE  FALSE
    OBVIOUS
  <2> DEFINE v == Value(bytes, i + 1, 256)
             p == Power(256, m - 1)
             q == Power(58, size - 1)
             buf == y.buf
  <2>1. m - 1 \in Nat /\ size - 1 \in Nat /\ (m - 1) + 1 = m /\ (size - 1) + 1 = size
        /\ i + 1 \in z .. n /\ (i + 1) - z \in Nat /\ (i + 1) - z <= m - 1
    BY <1>1, <1>4
  <2>2. q <= v
    <3>1. \A k \in 1 .. size : buf[k] \in Nat
      BY <1>13
    <3>2. buf[1] # 0
      OBVIOUS
    <3> HIDE DEF buf
    <3>3. Power(58, size - 1) <= Value(buf, size, 58)
      BY <1>2, <3>1, <3>2, ValueAbove
    <3>4. QED
      BY <1>13, <3>3 DEF buf
  <2>3. v < p
    <3>1. Value(bytes, i + 1, 256) < Power(256, (i + 1) - z)
      BY <1>8, <2>1
    <3>2. Power(256, (i + 1) - z) <= Power(256, m - 1)
      BY <1>2, <2>1, PowerGrows
    <3>3. Power(256, (i + 1) - z) \in Nat
      BY <1>9, <2>1, ZenonT(60)
    <3>4. Power(256, m - 1) \in Nat
      BY <1>9, <2>1, ZenonT(60)
    <3>5. QED
      BY <1>11, <3>1, <3>2, <3>3, <3>4
  <2>4. p * 256 <= q * 58
    <3>1. Power(256, (m - 1) + 1) = Power(256, m - 1) * 256
      BY <1>9, <2>1
    <3>2. Power(58, (size - 1) + 1) = Power(58, size - 1) * 58
      BY <1>10, <2>1
    <3>3. QED
      BY <1>5, <2>1, <3>1, <3>2
  <2>5. p \in Nat /\ q \in Nat /\ v \in Nat
    <3>1. p \in Nat
      BY <1>9, <2>1, ZenonT(60)
    <3>2. q \in Nat
      BY <1>10, <2>1
    <3>3. QED
      BY <1>11, <3>1, <3>2
  <2> HIDE DEF p, q, v
  <2>6. QED
    BY <2>2, <2>3, <2>4, <2>5
<1>15. Written58(y, bytes, i + 1, size)
  BY <1>13, <1>14 DEF Written58, n
<1>16. QED
  BY <1>15 DEF y

\* b58enc writes the number that the bytes stand for.
LEMMA DigitsRight ==
  ASSUME NEW bytes \in Seq(Byte), NEW size, size = BufferSize(Len(bytes) - LeadingZeros(bytes))
  PROVE  /\ size \in Nat \ {0} /\ Digits(bytes) \in Seq(Nat) /\ Len(Digits(bytes)) = size
         /\ AreDigits(Digits(bytes), size, 58)
         /\ Value(Digits(bytes), size, 58) = Value(bytes, Len(bytes), 256)
<1> DEFINE z == LeadingZeros(bytes)
           last == Len(bytes)
           zero == [buf |-> [j \in 1 .. size |-> 0], high |-> size]
           Step(x, k) == Round(x.buf, x.high, bytes[k])
           Eq(g) == g = [k \in z .. last |-> IF k = z THEN zero ELSE Step(g[k - 1], k)]
           f == CHOOSE g : Eq(g)
           W(x, k) == Written58(x, bytes, k, size)
<1>1. Digits(bytes) = f[last].buf
  BY DEF Digits
<1>2. z \in Nat /\ last \in Nat /\ z <= last /\ z \in Int /\ last \in Int /\ last - z \in Nat
      /\ (\A k \in 1 .. z : bytes[k] = 0)
  BY LeadingZerosTyped
<1>3. size \in Nat \ {0} /\ Power(256, last - z) <= Power(58, size)
  BY <1>2, BufferHasRoom
<1>4. 256 \in Nat /\ 58 \in Nat
  OBVIOUS
<1>5. ASSUME NEW k \in z + 1 .. last, NEW x, W(x, k - 1)
      PROVE  W(Step(x, k), k)
  <2> DEFINE i == k - 1
  <2>1. i \in z .. last - 1 /\ i + 1 = k
    BY <1>2
  <2>2. Written58(x, bytes, i, size)
    BY <1>5
  <2> HIDE DEF i
  <2>3. Written58(Round(x.buf, x.high, bytes[i + 1]), bytes, i + 1, size)
    BY <1>3, <2>1, <2>2, DigitsMore
  <2>4. QED
    BY <2>1, <2>3
<1> HIDE DEF z, last
<1>6. W(zero, z)
  <2> DEFINE o == [j \in 1 .. size |-> 0]
  <2>1. o \in Seq(Nat) /\ Len(o) = size /\ \A j \in 1 .. size : o[j] = 0
    BY <1>3
  <2>2. zero.buf = o /\ zero.high = size
    OBVIOUS
  <2> HIDE DEF o, zero
  <2>3. AreDigits(o, size, 58) /\ Zeros(o, size)
    <3>1. ASSUME NEW k \in 1 .. size
          PROVE  o[k] \in 0 .. 58 - 1
      <4>1. o[k] = 0
        BY <2>1
      <4>2. QED
        BY <4>1
    <3>2. QED
      BY <2>1, <3>1 DEF AreDigits, Zeros
  <2>4. Value(o, size, 58) = 0
    <3>1. size \in 0 .. size
      BY <1>3
    <3>2. QED
      BY <1>3, <1>4, <2>1, <3>1, ZerosValue DEF Zeros
  <2>5. Value(bytes, z, 256) = 0
    <3>1. z \in 0 .. z /\ z \in Nat /\ 256 \in Nat
      BY <1>2
    <3>2. Zeros(bytes, z)
      BY <1>2 DEF Zeros
    <3>3. QED
      BY <3>1, <3>2, ZerosValue
  <2>6. size \in 1 .. size
    BY <1>3
  <2>7. QED
    BY <2>1, <2>2, <2>3, <2>4, <2>5, <2>6 DEF Written58
<1>7. \A k, x : W(x, k) => x.buf \in Seq(Nat) /\ x.high \in Nat
  BY <1>3 DEF Written58
<1>8. \A x, k : Step(x, k) = Round(x.buf, x.high, bytes[k])
  OBVIOUS
<1>9. \A k \in z + 1 .. last : bytes[k] \in Byte
  <2>1. \A k \in z + 1 .. last : k \in 1 .. last
    BY <1>2
  <2>2. \A k \in 1 .. last : bytes[k] \in Byte
    BY DEF last
  <2>3. QED
    BY <2>1, <2>2
<1> HIDE DEF Step, W
<1> DEFINE V == {zero} \cup {Round(b, g, c) : b \in Seq(Nat), g \in Nat, c \in Byte}
           h == [k \in z + 1 .. last |-> [x \in V |-> IF W(x, k - 1) THEN Step(x, k) ELSE zero]]
<1>10. \E g : Eq(g)
  <2>1. ASSUME NEW k \in z + 1 .. last, NEW x, W(x, k - 1)
        PROVE  Step(x, k) \in V
    BY <1>7, <1>8, <1>9, <2>1
  <2>2. zero \in V
    OBVIOUS
  <2> HIDE DEF V, zero
  <2>3. h \in [z + 1 .. last -> [V -> V]]
    <3>1. ASSUME NEW k \in z + 1 .. last, NEW x \in V
          PROVE  (IF W(x, k - 1) THEN Step(x, k) ELSE zero) \in V
      BY <2>1, <2>2
    <3>2. QED
      BY <3>1
  <2>4. \A k \in z + 1 .. last : \A x \in V : h[k][x] = IF W(x, k - 1) THEN Step(x, k) ELSE zero
    OBVIOUS
  <2> HIDE DEF h
  <2>5. PICK g \in [z .. last -> V] : IteratesFrom(g, zero, z, last, h)
    BY <1>2, <2>2, <2>3, RangeRecursion
  <2> DEFINE S == {k \in z .. last : W(g[k], k)}
  <2>6. z \in S
    BY <1>2, <1>6, <2>5 DEF IteratesFrom
  <2>7. \A k \in z + 1 .. last : W(g[k - 1], k - 1) => g[k] = Step(g[k - 1], k)
    <3>1. ASSUME NEW k \in z + 1 .. last, W(g[k - 1], k - 1)
          PROVE  g[k] = Step(g[k - 1], k)
      <4>1. k - 1 \in z .. last
        BY <1>2
      <4>2. g[k - 1] \in V /\ g[k] = h[k][g[k - 1]]
        BY <2>5, <4>1 DEF IteratesFrom
      <4>3. QED
        BY <2>4, <3>1, <4>2
    <3>2. QED
      BY <3>1
  <2>8. ASSUME NEW k \in z .. last - 1, k \in S
        PROVE  k + 1 \in S
    <3>1. k + 1 \in z + 1 .. last /\ (k + 1) - 1 = k /\ k + 1 \in z .. last /\ W(g[k], k)
      BY <1>2, <2>8
    <3> DEFINE j == k + 1
    <3>2. j \in z + 1 .. last /\ W(g[j - 1], j - 1) /\ j \in z .. last
      BY <3>1
    <3> HIDE DEF j
    <3>3. W(Step(g[j - 1], j), j) /\ g[j] = Step(g[j - 1], j)
      BY <1>5, <2>7, <3>2
    <3>4. j \in S
      BY <3>2, <3>3
    <3>5. QED
      BY <3>4 DEF j
  <2> HIDE DEF S
  <2>9. \A k \in z .. last : k \in S
    BY <1>2, <2>6, <2>8, RangeInduction
  <2>10. \A k \in z .. last : g[k] = IF k = z THEN zero ELSE Step(g[k - 1], k)
    <3>1. ASSUME NEW k \in z .. last, k # z
          PROVE  g[k] = Step(g[k - 1], k)
      <4>1. k \in z + 1 .. last /\ k - 1 \in z .. last
        BY <1>2, <3>1
      <4>2. W(g[k - 1], k - 1)
        BY <2>9, <4>1 DEF S
      <4>3. QED
        BY <2>7, <4>1, <4>2
    <3>2. g[z] = zero
      BY <2>5 DEF IteratesFrom
    <3>3. QED
      BY <3>1, <3>2
  <2>11. Eq(g)
    BY <2>5, <2>10
  <2>12. QED
    BY <2>11
<1>11. Eq(f)
  <2> HIDE DEF Eq
  <2>1. QED
    BY <1>10
<1> HIDE DEF f, zero
<1>12. f[z] = zero /\ \A k \in z + 1 .. last : f[k] = Step(f[k - 1], k)
  <2>1. \A k \in z .. last : f[k] = IF k = z THEN zero ELSE Step(f[k - 1], k)
    BY <1>11, Zenon
  <2>2. z \in z .. last /\ \A k \in z + 1 .. last : k # z /\ k \in z .. last
    BY <1>2
  <2>3. QED
    BY <2>1, <2>2
<1> HIDE DEF Eq
<1> DEFINE S == {k \in z .. last : W(f[k], k)}
<1>13. z \in S
  BY <1>2, <1>6, <1>12
<1>14. ASSUME NEW k \in z .. last - 1, k \in S
       PROVE  k + 1 \in S
  <2> DEFINE j == k + 1
  <2>1. j \in z + 1 .. last /\ W(f[j - 1], j - 1) /\ j \in z .. last
    <3>1. j \in z + 1 .. last /\ j - 1 = k /\ j \in z .. last
      BY <1>2
    <3>2. W(f[k], k)
      BY <1>14
    <3>3. QED
      BY <3>1, <3>2
  <2> HIDE DEF j
  <2>2. W(Step(f[j - 1], j), j) /\ f[j] = Step(f[j - 1], j)
    BY <1>5, <1>12, <2>1
  <2>3. j \in S
    BY <2>1, <2>2
  <2>4. QED
    BY <2>3 DEF j
<1> HIDE DEF S
<1>15. \A k \in z .. last : k \in S
  BY <1>2, <1>13, <1>14, RangeInduction
<1>16. W(f[last], last)
  <2>1. last \in z .. last
    BY <1>2
  <2>2. QED
    BY <1>15, <2>1 DEF S
<1>17. QED
  BY <1>1, <1>3, <1>16 DEF Written58, W, last

\* A larger base has larger powers.
LEMMA PowerOfLarger ==
  ASSUME NEW a \in Nat \ {0}, NEW b \in Nat \ {0}, a <= b, NEW n \in Nat
  PROVE  Power(a, n) <= Power(b, n)
<1> DEFINE S == {k \in Nat : Power(a, k) <= Power(b, k)}
<1>1. /\ Power(a, 0) = 1 /\ \A k \in Nat : Power(a, k) \in Nat \ {0}
      /\ \A k \in Nat : Power(a, k + 1) = Power(a, k) * a
  BY PowerFacts
<1>2. /\ Power(b, 0) = 1 /\ \A k \in Nat : Power(b, k) \in Nat \ {0}
      /\ \A k \in Nat : Power(b, k + 1) = Power(b, k) * b
  BY PowerFacts
<1>3. 0 \in S
  BY <1>1, <1>2
<1>4. ASSUME NEW k \in Nat, k \in S
      PROVE  k + 1 \in S
  <2> DEFINE p == Power(a, k)
             q == Power(b, k)
  <2>1. p \in Nat /\ q \in Nat /\ p <= q
    BY <1>1, <1>2, <1>4
  <2>2. Power(a, k + 1) = p * a /\ Power(b, k + 1) = q * b
    BY <1>1, <1>2
  <2> HIDE DEF p, q
  <2>3. p * a <= q * a
    BY <2>1, ProductMonotone
  <2>4. a * q <= b * q
    BY <2>1, ProductMonotone
  <2>5. a * q = q * a /\ b * q = q * b /\ p * a \in Int /\ q * a \in Int /\ q * b \in Int
    BY <2>1
  <2>6. p * a <= q * b
    BY <2>3, <2>4, <2>5
  <2>7. QED
    BY <2>2, <2>6
<1> HIDE DEF S
<1>5. \A k \in Nat : k \in S
  BY <1>3, <1>4, SetInduction
<1>6. QED
  BY <1>5 DEF S

\* The text of a key, zeros and all, takes fewer letters than there is room for.
LEMMA TextHasRoom ==
  ASSUME NEW z \in 0 .. KeySize, NEW l \in Nat, NEW v \in Nat,
         v < Power(256, KeySize - z), l # 0 => Power(58, l - 1) <= v
  PROVE  z + l < BufferSize(KeySize)
<1>1. PICK q \in Nat : KeySize = 8 * q
  <2>1. KeySize = 8 * (KeySize \div 8) /\ KeySize \div 8 \in Nat
    BY KeySizeAssumption, RoomAssumption
  <2>2. QED
    BY <2>1
<1>2. 11 * q < BufferSize(KeySize)
  BY <1>1 DEF BufferSize
<1>3. z \in Nat /\ KeySize - z \in Nat /\ z + (KeySize - z) = KeySize /\ BufferSize(KeySize) \in Int /\ z <= 8 * q
  BY <1>1, KeySizeAssumption DEF BufferSize
<1>4. CASE l = 0
  BY <1>2, <1>3, <1>4
<1>5. CASE l # 0
  <2>1. PICK a \in Nat \ {0}, b \in Nat \ {0} : a = 256 /\ b = 58
    OBVIOUS
  <2> DEFINE r == KeySize - z
             k == l - 1
             t == 11 * q
             p == Power(a, r)
             x == Power(a, z)
             y == Power(b, z)
             w == Power(b, k)
  <2>2. k \in Nat /\ r \in Nat /\ t \in Nat /\ z + r = 8 * q /\ z \in Nat /\ 8 * q \in Nat
    BY <1>1, <1>3, <1>5
  <2>3. w <= v /\ v < p
    BY <1>5, <2>1
  <2>4. Power(a, 8 * q) <= Power(b, t)
    BY <2>1, EightsOfBytes
  <2>5. y <= x
    BY <2>1, <2>2, PowerOfLarger
  <2> HIDE DEF r, k, t
  <2>6. Power(a, 8 * q) = x * p
    <3>1. Power(a, z + r) = x * p
      BY <2>2, PowerAdd
    <3>2. QED
      BY <2>2, <3>1, Zenon
  <2>7. Power(b, z + k) = y * w
    BY <2>2, PowerAdd
  <2>8. p \in Nat \ {0} /\ x \in Nat \ {0} /\ y \in Nat \ {0} /\ w \in Nat \ {0} /\ Power(b, t) \in Nat
    BY <2>2, PowerFacts
  <2> HIDE DEF p, x, y, w
  <2>9. y * w < x * p
    <3>1. w + 1 <= p
      BY <2>3, <2>8
    <3>2. (w + 1) * y <= p * y
      BY <2>8, <3>1, ProductMonotone
    <3>3. y * p <= x * p
      BY <2>5, <2>8, ProductMonotone
    <3>4. (w + 1) * y = y * w + y /\ p * y = y * p /\ y * w \in Int /\ y * p \in Int /\ x * p \in Int
      BY <2>8
    <3>5. QED
      BY <2>8, <3>2, <3>3, <3>4
  <2>10. z + k < t
    <3> SUFFICES ASSUME t <= z + k
                 PROVE  FALSE
      BY <2>2
    <3>1. Power(b, t) <= Power(b, z + k)
      BY <2>2, PowerGrows
    <3>2. y * w \in Int /\ x * p \in Int
      BY <2>8
    <3>3. QED
      BY <2>4, <2>6, <2>7, <2>8, <2>9, <3>1, <3>2
  <2>11. QED
    BY <1>2, <1>3, <2>2, <2>10 DEF k, t
<1>6. QED
  BY <1>4, <1>5

\* Zeros and a rest are the text that starts with so many zeros.
LEMMA ZerosAndRest ==
  ASSUME NEW A, NEW s \in Seq(A), 0 \in A
  PROVE  /\ [k \in 1 .. LeadingZeros(s) |-> 0] \o Shortened(s) = s
         /\ Len([k \in 1 .. LeadingZeros(s) |-> 0] \o Shortened(s)) = LeadingZeros(s) + Len(Shortened(s))
<1> DEFINE z == LeadingZeros(s)
           o == [k \in 1 .. z |-> 0]
           t == Shortened(s)
<1>1. z \in 0 .. Len(s) /\ z \in Nat /\ \A k \in 1 .. z : s[k] = 0
  BY LeadingZerosTyped
<1>2. t \in Seq(A) /\ Len(t) = Len(s) - z /\ \A k \in 1 .. Len(s) - z : t[k] = s[z + k]
  BY <1>1, RestOf DEF Shortened
<1> HIDE DEF z, t
<1>3. o \in Seq(A) /\ Len(o) = z /\ \A k \in 1 .. z : o[k] = 0
  BY <1>1
<1> HIDE DEF o
<1>4. /\ o \o t \in Seq(A) /\ Len(o \o t) = Len(o) + Len(t)
      /\ \A k \in 1 .. Len(o) + Len(t) : (o \o t)[k] = IF k <= Len(o) THEN o[k] ELSE t[k - Len(o)]
  BY <1>2, <1>3, ConcatProperties
<1>5. Len(o) + Len(t) = Len(s) /\ Len(s) \in Nat
  BY <1>1, <1>2, <1>3
<1>6. ASSUME NEW k \in 1 .. Len(s)
      PROVE  (o \o t)[k] = s[k]
  <2>1. CASE k <= z
    BY <1>1, <1>3, <1>4, <1>5, <2>1
  <2>2. CASE z < k
    <3>1. k - z \in 1 .. Len(s) - z /\ z + (k - z) = k
      BY <1>1, <2>2
    <3>2. t[k - z] = s[k]
      BY <1>2, <3>1
    <3>3. ~(k <= z)
      BY <1>1, <2>2
    <3>4. QED
      BY <1>3, <1>4, <1>5, <3>2, <3>3
  <2>3. k \in Nat /\ (k <= z \/ z < k)
    BY <1>1, <1>5
  <2>4. QED
    BY <2>1, <2>2, <2>3
<1>7. o \o t = s
  <2>1. Len(o \o t) = Len(s)
    BY <1>4, <1>5
  <2>2. \A k \in 1 .. Len(o \o t) : (o \o t)[k] = s[k]
    BY <1>6, <2>1
  <2>3. QED
    BY <1>4, <2>1, <2>2, SeqEqual
<1>8. QED
  BY <1>3, <1>4, <1>7 DEF z, o, t

\* PublicKey::toBase58 writes the text that fromBase58 read.
THEOREM ToBase58Right ==
  ASSUME NEW text \in Seq(Digit \cup {NoDigit}), NEW bytes \in Seq(Byte), Len(bytes) = KeySize,
         Denotes(text, bytes)
  PROVE  ToBase58(bytes) = text
<1> DEFINE n == Len(text)
           z == LeadingZeros(bytes)
           size == BufferSize(KeySize - z)
           buf == Digits(bytes)
           rest == Shortened(buf)
           tail == Shortened(text)
           v == Value(bytes, KeySize, 256)
           zeros == [k \in 1 .. z |-> 0]
<1>1. n \in Nat /\ KeySize \in Nat /\ 256 \in Nat \ {0} /\ 58 \in Nat \ {0} /\ 256 \in Nat /\ 58 \in Nat
  BY LimbFacts
<1>2. z \in 0 .. KeySize /\ z \in Nat /\ LeadingZeros(text) = z
  BY LeadingZerosTyped DEF Denotes
<1>3. AreDigits(text, n, 58)
  <2>1. ASSUME NEW k \in 1 .. n
        PROVE  text[k] \in 0 .. 58 - 1
    <3>1. text[k] \in Digit
      BY DEF Denotes
    <3>2. QED
      BY <3>1, LetterDigits, Zenon
  <2>2. QED
    BY <2>1, Zenon DEF AreDigits
<1>4. AreDigits(bytes, KeySize, 256)
  BY BytesAreDigits
<1>5. /\ Canonical(Shortened(bytes), 256) /\ Len(Shortened(bytes)) = KeySize - z
      /\ Value(Shortened(bytes), KeySize - z, 256) = v
  <2>1. PICK b \in Nat \ {0} : b = 256
    BY <1>1
  <2>2. AreDigits(bytes, Len(bytes), b)
    BY <1>4, <2>1
  <2>3. /\ Canonical(Shortened(bytes), b) /\ Len(Shortened(bytes)) = Len(bytes) - LeadingZeros(bytes)
        /\ Value(Shortened(bytes), Len(Shortened(bytes)), b) = Value(bytes, Len(bytes), b)
    BY <2>2, TailRight
  <2>4. QED
    BY <2>1, <2>3
<1>6. v = Value(text, n, 58)
  <2>1. Number(text) = Shortened(bytes)
    BY DEF Denotes, Shortened
  <2>2. Value(Number(text), Len(Number(text)), 256) = Value(text, n, 58)
    BY <1>1, <1>3, NumberRight
  <2>3. QED
    BY <1>5, <2>1, <2>2
<1>7. /\ Canonical(tail, 58) /\ Len(tail) = n - z
      /\ Value(tail, Len(tail), 58) = v
  <2>1. PICK b \in Nat \ {0} : b = 58
    BY <1>1
  <2>2. AreDigits(text, Len(text), b)
    BY <1>3, <2>1
  <2>3. /\ Canonical(tail, b) /\ Len(tail) = Len(text) - LeadingZeros(text)
        /\ Value(tail, Len(tail), b) = Value(text, Len(text), b)
    BY <2>2, TailRight
  <2>4. QED
    BY <1>2, <1>6, <2>1, <2>3
<1>8. /\ size \in Nat \ {0} /\ buf \in Seq(Nat) /\ Len(buf) = size /\ AreDigits(buf, size, 58)
      /\ Value(buf, size, 58) = v
  BY DigitsRight
<1>9. Canonical(rest, 58) /\ Value(rest, Len(rest), 58) = v
  <2>1. PICK b \in Nat \ {0} : b = 58
    BY <1>1
  <2>2. AreDigits(buf, Len(buf), b)
    BY <1>8, <2>1
  <2> HIDE DEF buf
  <2>3. Canonical(rest, b) /\ Value(rest, Len(rest), b) = Value(buf, Len(buf), b)
    BY <1>8, <2>2, TailRight
  <2>4. QED
    BY <1>8, <2>1, <2>3
<1>10. rest = tail
  <2> HIDE DEF rest, tail, v
  <2>1. Value(rest, Len(rest), 58) = Value(tail, Len(tail), 58)
    BY <1>7, <1>9
  <2>2. QED
    BY <1>1, <1>7, <1>9, <2>1, CanonicalUnique
<1>11. zeros \o tail = text /\ Len(zeros \o tail) = z + Len(tail)
  <2>1. 0 \in Digit \cup {NoDigit}
    BY DEF Digit
  <2>2. QED
    BY <1>2, <2>1, ZerosAndRest
<1>12. z + Len(tail) < BufferSize(KeySize)
  <2> DEFINE l == Len(tail)
             t == Shortened(bytes)
             r == KeySize - z
  <2>1. l \in Nat
    BY <1>1, <1>7 DEF Canonical
  <2>2. v \in Nat /\ v < Power(256, r)
    <3>1. \A k \in 1 .. r : t[k] \in 0 .. 256 - 1
      <4>1. t \in Seq(0 .. 256 - 1) /\ Len(t) = r
        BY <1>5, Zenon DEF Canonical
      <4>2. PICK A : A = 0 .. 256 - 1
        OBVIOUS
      <4> HIDE DEF t, r
      <4>3. t \in Seq(A)
        BY <4>1, <4>2, Zenon
      <4>4. \A k \in 1 .. r : t[k] \in A
        BY <4>1, <4>3
      <4>5. QED
        BY <4>2, <4>4, Zenon
    <3>2. r \in Nat /\ r \in 0 .. r
      BY <1>1, <1>2
    <3>3. Value(t, r, 256) = v
      BY <1>5
    <3> HIDE DEF t, r, v
    <3>4. \A k \in 0 .. r : Value(t, k, 256) \in Nat /\ Value(t, k, 256) < Power(256, k)
      BY <1>1, <3>1, <3>2, ValueBelow, ZenonT(60)
    <3>5. QED
      BY <3>2, <3>3, <3>4
  <2>3. l # 0 => Power(58, l - 1) <= v
    <3> SUFFICES ASSUME l # 0
                 PROVE  Power(58, l - 1) <= v
      OBVIOUS
    <3>1. tail \in Seq(0 .. 58 - 1) /\ (tail # <<>> => tail[1] # 0)
      BY <1>7, Zenon DEF Canonical
    <3>2. Value(tail, l, 58) = v
      BY <1>7
    <3> HIDE DEF tail, v
    <3>3. tail # <<>> /\ l \in Nat \ {0}
      BY <2>1
    <3>4. \A k \in 1 .. l : tail[k] \in Nat
      <4>1. PICK A : A = 0 .. 58 - 1
        OBVIOUS
      <4>2. tail \in Seq(A)
        BY <3>1, <4>1, Zenon
      <4>3. \A k \in 1 .. l : tail[k] \in A
        BY <4>2
      <4>4. \A x : x \in A => x \in Nat
        BY <4>1, LetterDigits, Zenon
      <4>5. QED
        BY <4>3, <4>4, Zenon
    <3> HIDE DEF l
    <3>5. Power(58, l - 1) <= Value(tail, l, 58)
      BY <1>1, <3>1, <3>3, <3>4, ValueAbove
    <3>6. QED
      BY <3>2, <3>5
  <2> HIDE DEF l, v
  <2>4. z + l < BufferSize(KeySize)
    BY <1>2, <2>1, <2>2, <2>3, TextHasRoom
  <2>5. QED
    BY <2>4 DEF l
<1>13. ToBase58(bytes) = IF BufferSize(Len(bytes)) <= Len(zeros \o rest) THEN <<>> ELSE zeros \o rest
  BY DEF ToBase58, Shortened
<1>14. BufferSize(KeySize) \in Int /\ Len(zeros \o tail) \in Int
  <2>1. BufferSize(KeySize) \in Int
    BY <1>1 DEF BufferSize
  <2> HIDE DEF zeros, tail, z, n
  <2>2. Len(zeros \o tail) \in Int
    BY <1>1, <1>2, <1>7, <1>11
  <2>3. QED
    BY <2>1, <2>2
<1> HIDE DEF zeros, rest, tail, z
<1>15. QED
  BY <1>10, <1>11, <1>12, <1>13, <1>14

(* A text that PublicKey::fromBase58 accepts stands for the bytes of a key  *)
(* (solana.cpp:30-46).                                                      *)
THEOREM KeysHaveTheirSize ==
  \A text \in Seq(Digit \cup {NoDigit}) :
    FromBase58(text).ok => FromBase58(text).data \in [1 .. KeySize -> Byte]
BY FromBase58Right, KeySizeAssumption
=============================================================================
