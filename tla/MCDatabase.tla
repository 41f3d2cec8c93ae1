------------------------------ MODULE MCDatabase ------------------------------
EXTENDS Database, TLC

CONSTANTS t1, t2, a, b

\* t1 may add to a twice and t2 once; both may get from both.  Every call may
\* fail to open its table.
Adds == t1 :> (a :> 2 @@ b :> 0) @@ t2 :> (a :> 1 @@ b :> 0)
===============================================================================
