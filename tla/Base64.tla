------------------------------- MODULE Base64 -------------------------------
(***************************************************************************)
(* include/base64.hpp: the text that carries transactions to the cluster   *)
(* and account data back.  A text is a sequence of digits 0 .. 63, for the *)
(* letters of B64chars, and of Pad, for '='.                               *)
(***************************************************************************)
EXTENDS Integers, Sequences

Byte == 0 .. 255
Sextet == 0 .. 63
Pad == 64

----------------------------------------------------------------------------
(* b64encode. *)

\* the four letters of a complete group, and those of one or two bytes
Four(b1, b2, b3) ==
  LET n == b1 * 65536 + b2 * 256 + b3
  IN  <<n \div 262144, (n \div 4096) % 64, (n \div 64) % 64, n % 64>>
PadTwo(b1, b2) ==
  LET n == b1 * 256 + b2
  IN  <<(n \div 1024) % 64, (n \div 16) % 64, (n * 4) % 64, Pad>>
PadOne(b1) == <<b1 \div 4, (b1 * 16) % 64, Pad, Pad>>

\* the letters of the g-th group, counted from zero
Letters(bytes, g) ==
  LET rest == Len(bytes) - 3 * g
      b(k) == bytes[3 * g + k]
  IN  IF rest >= 3 THEN Four(b(1), b(2), b(3))
      ELSE IF rest = 2 THEN PadTwo(b(1), b(2)) ELSE PadOne(b(1))

\* b64encode; the result has (len + 2) / 3 * 4 letters
Encode64(bytes) ==
  [k \in 1 .. 4 * ((Len(bytes) + 2) \div 3) |->
     Letters(bytes, (k - 1) \div 4)[((k - 1) % 4) + 1]]

----------------------------------------------------------------------------
(* b64decode. *)

\* B64index, which is zero for '='
Index64(letter) == IF letter = Pad THEN 0 ELSE letter

\* pad1: the last group is not complete; pad2: it carries a second byte.
\* A text without '=' whose last group has two letters is taken to carry two.
FirstByte(text) ==
  IF Len(text) % 4 # 0 \/ text[Len(text)] = Pad THEN 1 ELSE 0
SecondByte(text) ==
  IF FirstByte(text) = 1 /\ (Len(text) % 4 > 2 \/ text[Len(text) - 1] # Pad) THEN 1 ELSE 0

\* the groups the loop decodes
Complete(text) == (Len(text) - FirstByte(text)) \div 4

\* n >> 16, n >> 8 & 0xFF, n & 0xFF for the 24 bits of four digits
Three(n1, n2, n3, n4) ==
  LET n == n1 * 262144 + n2 * 4096 + n3 * 64 + n4
  IN  <<n \div 65536, (n \div 256) % 256, n % 256>>

\* the three bytes of the g-th group; an incomplete one is read as far as
\* pad2 says
Octets(text, g) ==
  LET d(k) == Index64(text[4 * g + k])
  IN  IF g < Complete(text) THEN Three(d(1), d(2), d(3), d(4))
      ELSE Three(d(1), d(2), IF SecondByte(text) = 1 THEN d(3) ELSE 0, 0)

\* b64decode of a text
Decode64(text) ==
  IF text = <<>> THEN <<>>
  ELSE [k \in 1 .. 3 * Complete(text) + FirstByte(text) + SecondByte(text) |->
          Octets(text, (k - 1) \div 3)[((k - 1) % 3) + 1]]

----------------------------------------------------------------------------
(* What the format says: a letter carries six bits, '=' none. *)

Padding(text) ==
  IF text = <<>> \/ text[Len(text)] # Pad THEN 0 ELSE IF text[Len(text) - 1] # Pad THEN 1 ELSE 2

\* the bytes a text of complete groups carries: the k-th byte lies in two
\* neighbouring letters, at an offset of zero, two or four bits
Carried(text) ==
  [k \in 1 .. 3 * (Len(text) \div 4) - Padding(text) |->
     LET bit == 8 * (k - 1)
         pair == Index64(text[(bit \div 6) + 1]) * 64 + Index64(text[(bit \div 6) + 2])
     IN  CASE bit % 6 = 0 -> pair \div 16
           [] bit % 6 = 2 -> (pair \div 4) % 256
           [] OTHER -> pair % 256]
=============================================================================
