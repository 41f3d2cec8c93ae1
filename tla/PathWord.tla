------------------------------ MODULE PathWord ------------------------------
(***************************************************************************)
(* The 64-bit path words that order the rows of an encrypted column.  A    *)
(* position in a tree is the sequence of its turns (0 left, 1 right); the  *)
(* server keeps the turns in the low bits of an unsigned long long while   *)
(* it walks and shifts them to the top, with a marker bit behind them,     *)
(* when the row is stored (lib/BTree.cpp 47-84).  PathBits is the width of *)
(* the word, 64 in the code; bit 1 is the most significant.                *)
(***************************************************************************)
EXTENDS Integers, Sequences

CONSTANT PathBits

ASSUME PathBitsAssumption == PathBits \in Nat \ {0}

Bit == {0, 1}

Word == [1..PathBits -> Bit]

ZeroWord == [i \in 1..PathBits |-> 0]

\* w << n for 0 <= n < PathBits; bits pushed out at the top are lost.
Shl(w, n) == [i \in 1..PathBits |-> IF i + n <= PathBits THEN w[i + n] ELSE 0]

\* (w << 1) | b, one turn of the walk.
PushBit(w, b) == [Shl(w, 1) EXCEPT ![PathBits] = b]

\* Mutant: the shift is one too far.
FinishPath_OffByOne(w, len) == Shl(PushBit(w, 1), (PathBits - len) % PathBits)

\* ((w << 1) | 1) << (63 - len).  The count is an int and turns negative at
\* len = 64: the build (g++ -O0, x86-64) shifts by the count modulo 64.
FinishPath(w, len) == Shl(PushBit(w, 1), (PathBits - 1 - len) % PathBits)

\* The literal 9223372036854775808ull, 1 << 63, of the root's row.
RootPath == [i \in 1..PathBits |-> IF i = 1 THEN 1 ELSE 0]

\* Unsigned comparison of two words.
WordLess(v, w) ==
  \E d \in 1..PathBits : /\ v[d] < w[d]
                         /\ \A i \in 1..PathBits : i < d => v[i] = w[i]

(***************************************************************************)
(* What the words mean: the low bits that hold the turns of p, and the     *)
(* word a row at position p is stored under (its turns, a 1, then zeroes). *)
(***************************************************************************)
TurnBits(p) ==
  [i \in 1..PathBits |-> IF Len(p) - PathBits + i \in 1..Len(p)
                         THEN p[Len(p) - PathBits + i] ELSE 0]

Label(p) ==
  [i \in 1..PathBits |-> IF i <= Len(p) THEN p[i]
                         ELSE IF i = Len(p) + 1 THEN 1 ELSE 0]
=============================================================================
