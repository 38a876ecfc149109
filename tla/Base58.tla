------------------------------- MODULE Base58 -------------------------------
(***************************************************************************)
(* include/base58.hpp and PublicKey::fromBase58, toBase58 (lib/solana.cpp):*)
(* public keys and blockhashes as text.  A text is a sequence of digits    *)
(* 0 .. 57, for the letters of b58digits_ordered ('1' is zero), and of     *)
(* NoDigit, for every other character.  The loops are functions of the     *)
(* position they have reached.                                             *)
(***************************************************************************)
EXTENDS Integers, Sequences

CONSTANTS
  KeySize,      \* PublicKey::SIZE
  LimbBytes     \* bytes of a b58_almostmaxint_t

ASSUME KeySizeAssumption == KeySize \in Nat \ {0}
\* bytesleft and zeromask are zero for a key
ASSUME LimbsAssumption == LimbBytes \in Nat \ {0} /\ KeySize % LimbBytes = 0
\* room for every key and the terminating zero: 11 letters for 8 bytes.  For
\* one byte b58encode has too little.
ASSUME RoomAssumption == KeySize % 8 = 0

Digit == 0 .. 57
NoDigit == -1

\* the number of zeros s starts with
LeadingZeros(s) ==
  CHOOSE n \in 0 .. Len(s) : (\A k \in 1 .. n : s[k] = 0) /\ (n < Len(s) => s[n + 1] # 0)

----------------------------------------------------------------------------
(* b58tobin into KeySize bytes. *)

Outisz == KeySize \div LimbBytes

\* how many numbers n bytes can stand for
Values[n \in 0 .. LimbBytes] == IF n = 0 THEN 1 ELSE 256 * Values[n - 1]
Limb == Values[LimbBytes]

\* the inner loop: outi * 58 + c from the last limb to the first, and the
\* carry that is left
Multiply(outi, digit) ==
  LET m[j \in 1 .. Outisz + 1] ==
        IF j > Outisz THEN [carry |-> digit, outi |-> <<>>]
        ELSE LET later == m[j + 1]
                 t == outi[j] * 58 + later.carry
             IN  [carry |-> t \div Limb, outi |-> <<t % Limb>> \o later.outi]
  IN  m[1]

\* The outer loop after the letter at k.  It starts after the leading '1's
\* and fails at a letter that is no digit or when the number is too big.
Numbers(text) ==
  LET first == LeadingZeros(text)
      zero == [carry |-> 0, outi |-> [j \in 1 .. Outisz |-> 0]]
      failed == [carry |-> 1, outi |-> <<>>]
      f[k \in first .. Len(text)] ==
        IF k = first THEN zero
        ELSE LET earlier == f[k - 1]
             IN  IF earlier.carry # 0 \/ text[k] = NoDigit THEN failed
                 ELSE Multiply(earlier.outi, text[k])
  IN  f[Len(text)]

\* the limbs as bytes, high byte first
BytesOf(outi) ==
  [k \in 1 .. KeySize |->
     (outi[((k - 1) \div LimbBytes) + 1] \div Values[LimbBytes - 1 - ((k - 1) % LimbBytes)]) % 256]

\* broken: the letters '1' in front are not counted
SizeOfNumber(bin, text) == KeySize - LeadingZeros(bin)

\* *binszp: the bytes of the number and one for each leading '1'
DecodedSize(bin, text) == KeySize - LeadingZeros(bin) + LeadingZeros(text)

\* PublicKey::fromBase58, which throws unless the text stands for KeySize bytes
FromBase58(text) ==
  LET number == Numbers(text)
      bin == BytesOf(number.outi)
  IN  IF number.carry = 0 /\ DecodedSize(bin, text) = KeySize THEN [ok |-> TRUE, data |-> bin]
      ELSE [ok |-> FALSE, data |-> <<>>]

----------------------------------------------------------------------------
(* b58enc. *)

\* digits the buffer has room for
BufferSize(bytes) == (bytes * 138) \div 100 + 1

\* One round of the outer loop: buf * 256 + byte, from the last digit on.  The
\* inner loop goes on past high while there is a carry; it ends at the digit
\* it no longer changes, or with the first one.
Round(buf, high, byte) ==
  LET r[j \in 1 .. Len(buf) + 1] ==
        IF j > Len(buf) THEN [carry |-> byte, ended |-> FALSE, high |-> high, buf |-> <<>>]
        ELSE LET later == r[j + 1]
                 ended == later.ended \/ (j <= high /\ later.carry = 0)
                 t == later.carry + 256 * buf[j]
             IN  [carry |-> IF ended THEN 0 ELSE t \div 58,
                  ended |-> ended,
                  high |-> IF later.ended THEN later.high ELSE j,
                  buf |-> <<IF ended THEN buf[j] ELSE t % 58>> \o later.buf]
  IN  r[1]

\* buf after the last byte
Digits(bytes) ==
  LET zcount == LeadingZeros(bytes)
      size == BufferSize(Len(bytes) - zcount)
      f[i \in zcount .. Len(bytes)] ==
        IF i = zcount THEN [buf |-> [j \in 1 .. size |-> 0], high |-> size]
        ELSE LET earlier == f[i - 1] IN Round(earlier.buf, earlier.high, bytes[i])
  IN  f[Len(bytes)].buf

\* b58encode: a '1' for each leading zero byte, then the digits without their
\* leading zeros; nothing if there is no room for the terminating zero
ToBase58(bytes) ==
  LET zcount == LeadingZeros(bytes)
      buf == Digits(bytes)
      text == [k \in 1 .. zcount |-> 0] \o SubSeq(buf, LeadingZeros(buf) + 1, Len(buf))
  IN  IF BufferSize(Len(bytes)) <= Len(text) THEN <<>> ELSE text

----------------------------------------------------------------------------
(* What the format says. *)

\* b * 58 + d, with one byte more if it takes one
TimesBase(b, d) ==
  LET m[j \in 1 .. Len(b) + 1] ==
        IF j > Len(b) THEN [carry |-> d, bytes |-> <<>>]
        ELSE LET later == m[j + 1]
                 t == b[j] * 58 + later.carry
             IN  [carry |-> t \div 256, bytes |-> <<t % 256>> \o later.bytes]
  IN  (IF m[1].carry = 0 THEN <<>> ELSE <<m[1].carry>>) \o m[1].bytes

\* the bytes of the number with digits s, without leading zeros
Number(s) ==
  LET f[k \in 0 .. Len(s)] == IF k = 0 THEN <<>> ELSE TimesBase(f[k - 1], s[k])
  IN  f[Len(s)]

\* text is the canonical text of the bytes
Denotes(text, bytes) ==
  /\ \A k \in 1 .. Len(text) : text[k] \in Digit
  /\ LeadingZeros(text) = LeadingZeros(bytes)
  /\ Number(text) = SubSeq(bytes, LeadingZeros(bytes) + 1, Len(bytes))
=============================================================================
