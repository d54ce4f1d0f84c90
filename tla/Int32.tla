-------------------------------- MODULE Int32 ---------------------------------
(***************************************************************************)
(* What the operators &, << and >> of JavaScript do to a Number: they see  *)
(* four bytes of it as a signed integer.                                   *)
(***************************************************************************)
EXTENDS Integers

CONSTANT Byte           \* 256

ASSUME ByteAssumption == Byte \in Nat \ {0, 1}

Power[n \in Nat] == IF n = 0 THEN 1 ELSE Byte * Power[n - 1]    \* of n bytes: 256^n

Limb == Power[4]        \* 2^32

toInt32(v) == LET u == v % Limb IN IF 2 * u < Limb THEN u ELSE u - Limb

shiftRight(t, bytes) == toInt32(t) \div Power[bytes]     \* >>, which keeps the sign
shiftLeft(t)         == toInt32(t * Byte)               \* << of one byte
lowByte(t)           == t % Byte                        \* & 0xff
=============================================================================
