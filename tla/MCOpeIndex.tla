----------------------------- MODULE MCOpeIndex -----------------------------
(* Finite instances of OpeIndex for TLC. *)
EXTENDS OpeIndex, TLC

CONSTANTS o1, o2, o3, o4, o5, o6, o7, k1, k2

\* Five inserts into a table with intact buffers, two of them of one value: a
\* tree of up to four nodes, deep enough to pass a word of three bits.  Two
\* into a table whose first buffer reads as anything when shown.
TwoTableOps == {o1, o2, o3, o4, o5, o6, o7}
TwoTableKey == [o \in TwoTableOps |-> IF o \in {o6, o7} THEN k2 ELSE k1]
TwoTableVal == (o1 :> 1) @@ (o2 :> 2) @@ (o3 :> 2) @@ (o4 :> 3) @@ (o5 :> 4)
                 @@ (o6 :> 2) @@ (o7 :> 3)
TwoTableReads == [o \in TwoTableOps |-> IF o = o6 THEN 1..4
                                        ELSE {TwoTableVal[o]}]

\* o2 and o3 insert one value into one table: nothing tells them apart.
Twins == Permutations({o2, o3})
=============================================================================
