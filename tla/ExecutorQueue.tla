---------------------------- MODULE ExecutorQueue ----------------------------
(***************************************************************************)
(* The queue of plugin/test.cpp between client_thread, which makes one     *)
(* executor per value, and main, which runs them.  A mutex protects the    *)
(* array and its offset, except where client_thread looks whether there is *)
(* room.  What is done under the mutex is one action; an executor is the   *)
(* value it inserts.                                                       *)
(***************************************************************************)
EXTENDS Naturals, Sequences

CONSTANTS Capacity,   \* 1000: slots of executorQueue
          High,       \* 900: client_thread pauses from here on
          Last        \* 99999: the last value it inserts

ASSUME QueueAssumption ==
  /\ Capacity \in Nat /\ High \in Nat /\ Last \in Nat
  /\ High > 0 /\ High =< Capacity

VARIABLES i,              \* the value client_thread is at
          clientThread,   \* "testing", "adding" or "sleeping"
          left,           \* the offset client_thread last wrote or saw
          executorQueue,  \* its first executorQueueOffset slots
          executors,      \* main's copy, from the next one to run on
          ran             \* history: the executors main has run

vars == <<i, clientThread, left, executorQueue, executors, ran>>

Init ==
  /\ i = 1
  /\ clientThread = "testing"
  /\ left = 0
  /\ executorQueue = <<>>
  /\ executors = <<>>
  /\ ran = <<>>

-------------------------------------------------------------------------------
\* Mutants: one value more than there are; one slot more than the limit.
TestRoom_PastLast ==
  /\ clientThread = "testing"
  /\ \E offset \in {left, Len(executorQueue)} :
       clientThread' = IF offset < High THEN "adding" ELSE "sleeping"
  /\ UNCHANGED <<i, left, executorQueue, executors, ran>>

TestRoom_AtLimit ==
  /\ clientThread = "testing"
  /\ i =< Last
  /\ \E offset \in {left, Len(executorQueue)} :
       clientThread' = IF offset =< High THEN "adding" ELSE "sleeping"
  /\ UNCHANGED <<i, left, executorQueue, executors, ran>>

\* executorQueueOffset < 900 without the mutex: while main resets the offset
\* the read may give it as it was or as it is.
TestRoom ==
  /\ clientThread = "testing"
  /\ i =< Last
  /\ \E offset \in {left, Len(executorQueue)} :
       clientThread' = IF offset < High THEN "adding" ELSE "sleeping"
  /\ UNCHANGED <<i, left, executorQueue, executors, ran>>

\* add_executor.
AddExecutor ==
  /\ clientThread = "adding"
  /\ executorQueue' = Append(executorQueue, i)
  /\ left' = Len(executorQueue')
  /\ i' = i + 1
  /\ clientThread' = "testing"
  /\ UNCHANGED <<executors, ran>>

\* nanosleep(&t2): nobody has set t2, so it returns at once or at any time,
\* and by then an offset that was reset has become visible.
Wake ==
  /\ clientThread = "sleeping"
  /\ clientThread' = "testing"
  /\ left' = Len(executorQueue)
  /\ UNCHANGED <<i, executorQueue, executors, ran>>

\* Mutant: main copies before it has run its last copy.
CopyToLocal_Early ==
  /\ executorQueue # <<>>
  /\ executors' = executorQueue
  /\ executorQueue' = <<>>
  /\ UNCHANGED <<i, clientThread, left, ran>>

\* Mutant: main waits until client_thread is awake.
CopyToLocal_WhenAwake ==
  /\ executors = <<>>
  /\ executorQueue # <<>>
  /\ clientThread # "sleeping"
  /\ executors' = executorQueue
  /\ executorQueue' = <<>>
  /\ UNCHANGED <<i, clientThread, left, ran>>

\* main copies the queue and resets its offset, once it has run its last copy.
CopyToLocal ==
  /\ executors = <<>>
  /\ executorQueue # <<>>
  /\ executors' = executorQueue
  /\ executorQueue' = <<>>
  /\ UNCHANGED <<i, clientThread, left, ran>>

RunExecutor ==
  /\ executors # <<>>
  /\ ran' = Append(ran, Head(executors))
  /\ executors' = Tail(executors)
  /\ UNCHANGED <<i, clientThread, left, executorQueue>>

\* client_thread has queued everything and main has run it.
Finished ==
  /\ i > Last /\ executorQueue = <<>> /\ executors = <<>>
  /\ UNCHANGED vars

MainStep == CopyToLocal \/ RunExecutor

Next == TestRoom \/ AddExecutor \/ Wake \/ MainStep \/ Finished

\* Both threads are scheduled.  Nothing says that the sleep ends.
Spec == /\ Init /\ [][Next]_vars
        /\ WF_vars(TestRoom \/ AddExecutor)
        /\ WF_vars(MainStep)

-------------------------------------------------------------------------------
TypeOK ==
  /\ i \in 1..(Last + 1)
  /\ clientThread \in {"testing", "adding", "sleeping"}
  /\ left \in 0..High
  /\ executorQueue \in Seq(1..Last)
  /\ executors \in Seq(1..Last)
  /\ ran \in Seq(1..Last)

\* No slot behind the array is written, though the test is neither under the
\* mutex nor repeated there (test.cpp:353, 392): the only one to add is the
\* one who tested, and main only makes room in between.
InBounds == clientThread = "adding" => Len(executorQueue) < High

\* What InBounds rests on: the offset only grows by client_thread, so it is at
\* most the one it saw last.
RoomSeen ==
  /\ InBounds
  /\ clientThread = "adding" => i =< Last
  /\ Len(executorQueue) =< left

\* Every value that was queued is run once and in its order, or still waits:
\* what is added while main copies is in this copy or in the next one.
RunInOrder == ran \o executors \o executorQueue = [k \in 1..(i - 1) |-> k]

\* A queued executor is run, also while client_thread sleeps.
QueuedIsRun ==
  \A k \in 1..Last : i > k ~> \E j \in DOMAIN ran : ran[j] = k
===============================================================================
