---------------------------- MODULE MCZqlInsert ----------------------------
(* Finite instances of ZqlInsert for TLC. *)
EXTENDS ZqlInsert, TLC

CONSTANTS o1, o2, o3, o4, k1, k2

ThreeOps == {o1, o2, o3}
FourOps == {o1, o2, o3, o4}

\* Three different values in one table.
ThreeKey == [o \in ThreeOps |-> k1]
ThreeVal == (o1 :> 1) @@ (o2 :> 2) @@ (o3 :> 3)
ThreeReads == [o \in ThreeOps |-> {ThreeVal[o]}]

\* And a row of that table without an encrypted column.
PlainKey == [o \in FourOps |-> k1]
PlainVal == (o4 :> 0) @@ ThreeVal
PlainReads == [o \in FourOps |-> {PlainVal[o]}]

\* Or an insert into another table, where the freed buffer of o2 may read as
\* what it was, as a smaller value, or as the value of o3.
TwoTables == (o4 :> k2) @@ ThreeKey
TwoVal == (o4 :> 2) @@ ThreeVal
TwoReads == [o \in FourOps |-> IF o = o2 THEN {0, 2, 3} ELSE {TwoVal[o]}]

\* Four inserts into one table: three values and a repeated one.
DupVal == (o1 :> 1) @@ (o2 :> 2) @@ (o3 :> 2) @@ (o4 :> 3)
DupReads == [o \in FourOps |-> {DupVal[o]}]
=============================================================================
