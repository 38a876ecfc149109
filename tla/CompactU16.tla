----------------------------- MODULE CompactU16 -----------------------------
(***************************************************************************)
(* The length prefix of every vector on the wire: CompactU16::encode       *)
(* (lib/solana.cpp), which appends a 16-bit number to a buffer in one to   *)
(* three bytes, seven bits at a time, low bits first; a set high bit tells *)
(* that another byte follows.                                              *)
(***************************************************************************)
EXTENDS Integers, Sequences

UInt16 == 0 .. 65535

\* the groups of seven bits, by shifting and masking; the last keeps two bits
Low(n) == n % 128
Mid(n) == (n \div 128) % 128
High(n) == ((n \div 128) \div 128) % 4

\* if (num == 0) return, after the first shift
OneByte(n) == n \div 128 = 0

\* if (num == 0) return, after the second shift
TwoBytes(n) == (n \div 128) \div 128 = 0

\* buffer.back() |= 0x80
More(b) == b + 128

\* the bytes appended for a uint16_t
Encode(n) ==
  IF OneByte(n) THEN <<Low(n)>>
  ELSE IF TwoBytes(n) THEN <<More(Low(n)), Mid(n)>>
  ELSE <<More(Low(n)), More(Mid(n)), High(n)>>

\* encode(vec.size(), buffer): a size_t converted to uint16_t
EncodeLength(n) == Encode(n % 65536)

----------------------------------------------------------------------------
(* What a reader of the format does, written from the format.              *)

\* number of bytes the prefix at the head of s takes
Width(s) == IF s[1] < 128 THEN 1 ELSE IF s[2] < 128 THEN 2 ELSE 3

\* the number it stands for
Decode(s) ==
  IF Width(s) = 1 THEN s[1]
  ELSE IF Width(s) = 2 THEN (s[1] - 128) + 128 * s[2]
  ELSE (s[1] - 128) + 128 * (s[2] - 128) + 128 * 128 * s[3]
=============================================================================
