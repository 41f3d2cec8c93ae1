----------------------------- MODULE MCRequestIds -----------------------------
EXTENDS RequestIds, TLC

CONSTANTS c1, c2, o1, o2, o3

\* Two inserts of one client and one of another.
MCClientOf == [o \in {o1, o2, o3} |-> IF o = o3 THEN c2 ELSE c1]

\* Ids are only compared, and the two inserts of c1 are alike.
Alike == Permutations(Ids) \cup Permutations({o1, o2})
===============================================================================
