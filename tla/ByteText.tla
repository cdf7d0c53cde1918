------------------------------ MODULE ByteText ------------------------------
(***************************************************************************)
(* Bytes and their lowercase hexadecimal text.  A byte has HexBase^2       *)
(* values and a text is the sequence of its digits, each in 0..HexBase-1.  *)
(***************************************************************************)
EXTENDS Integers, FiniteSetsExt, SequencesExt

CONSTANTS HexBase   \* values of a hex digit: 16 in the code

\* A digit is a whole number of bits.
ASSUME HexAssumption == HexBase \in Nat \ {0} /\ HexBase % 2 = 0

ByteBase == HexBase * HexBase
Byte     == 0..(ByteBase - 1)

\* The two digits of a byte, the high one first.
HexByte(b) == <<b \div HexBase, b % HexBase>>

\* to_hex_lower: the digits of one byte after those of the other.
ToHexLower(bytes) ==
    [i \in 1..(2 * Len(bytes)) |-> HexByte(bytes[(i + 1) \div 2])[2 - (i % 2)]]

\* The bytes a text stands for: SQL's unhex.
Unhex(text) ==
    [i \in 1..(Len(text) \div 2) |-> text[2 * i - 1] * HexBase + text[2 * i]]
=============================================================================
