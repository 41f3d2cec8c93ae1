--------------------------------- MODULE Cbor ---------------------------------
(***************************************************************************)
(* The bytes the CBOR writer and reader agree on.  An item starts with a   *)
(* head: a major type (0..7) and a minor value.  A small minor is the      *)
(* value itself; the four after them say that the value follows in 1, 2, 4 *)
(* or 8 bytes, the rest are invalid.  The code has 32 minors and bytes of  *)
(* 256 values; Minors scales both down together, so that a value of every  *)
(* width fits the integers of a model checker.                             *)
(***************************************************************************)
EXTENDS Integers, Sequences

CONSTANT Minors

ASSUME MinorsAssumption == Minors \in Nat /\ Minors > 8

Base == 8 * Minors

Byte == 0..(Base - 1)

\* Minors below Direct (24 in the code) are values.
Direct == Minors - 8

Widths == {1, 2, 4, 8}

\* The minor that announces a value of n bytes: 24, 25, 26 and 27.
WidthCode(n) == Direct + CASE n = 1 -> 0 [] n = 2 -> 1 [] n = 4 -> 2 [] n = 8 -> 3

UIntMax == Base * Base * Base * Base - 1

\* The largest int.
IntMax == UIntMax \div 2

\* A 32-bit unsigned value handed over as an int.
AsInt(v) == IF 2 * v > UIntMax THEN v - UIntMax - 1 ELSE v

\* Mutant: the sign stays.
AsUInt_Signed(v) == v

\* An int cast to unsigned int.
AsUInt(v) == v % (UIntMax + 1)

\* The two low bytes of v, the highest first.
Pair(v) == <<(v \div Base) % Base, v % Base>>

\* Mutant: the shifted values are not cut to a byte.
Quad_Uncut(v) == <<v \div (Base * Base * Base), v \div (Base * Base)>> \o Pair(v)

\* The four low bytes.
Quad(v) == Pair(v \div (Base * Base)) \o Pair(v)

\* The n low bytes of v, the highest first.
BigEndian(v, n) ==
  CASE n = 1 -> <<v % Base>>
    [] n = 2 -> Pair(v)
    [] n = 4 -> Quad(v)
    [] n = 8 -> Quad(v \div (UIntMax + 1)) \o Quad(v)

\* What one, two or four bytes say: getByte, getShort, getInt.
Number(bytes) ==
  CASE Len(bytes) = 1 -> bytes[1]
    [] Len(bytes) = 2 -> bytes[1] * Base + bytes[2]
    [] Len(bytes) = 4 -> (bytes[1] * Base + bytes[2]) * (Base * Base)
                           + (bytes[3] * Base + bytes[4])
===============================================================================
