----------------------------- MODULE MCZqlDaemon -----------------------------
EXTENDS ZqlDaemon

CONSTANTS c1, c2, q1, q2, q3, q4

\* One client sends q1 and the message no handler is called for, the other
\* the rest.
MCAsker == [r \in {q1, q2, q3, q4} |-> IF r \in {q1, q2} THEN c1 ELSE c2]
===============================================================================
