--------------------------- MODULE MCExecutorQueue ---------------------------
EXTENDS ExecutorQueue
===============================================================================
