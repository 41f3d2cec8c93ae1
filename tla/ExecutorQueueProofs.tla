-------------------------- MODULE ExecutorQueueProofs --------------------------
(***************************************************************************)
(* The queue between client_thread and main never leaves its array, and    *)
(* every executor is run once and in order, whatever the limits and        *)
(* however many values there are.                                          *)
(***************************************************************************)
EXTENDS ExecutorQueue, SequenceTheorems, TLAPS

LEMMA InitTyped == Init => TypeOK /\ RoomSeen
  BY QueueAssumption DEF Init, TypeOK, RoomSeen, InBounds

LEMMA TestRoomTyped ==
  ASSUME TypeOK, RoomSeen, TestRoom
  PROVE  TypeOK' /\ RoomSeen'
<1>1. PICK offset \in {left, Len(executorQueue)} :
        clientThread' = IF offset < High THEN "adding" ELSE "sleeping"
  BY DEF TestRoom
<1>2. Len(executorQueue) \in Nat /\ left \in Nat
  BY QueueAssumption DEF TypeOK
<1>3. clientThread' = "adding" => Len(executorQueue) < High
  BY <1>1, <1>2, QueueAssumption DEF RoomSeen
<1>4. TypeOK'
  BY <1>1 DEF TestRoom, TypeOK
<1> QED
  BY <1>3, <1>4 DEF TestRoom, RoomSeen, InBounds

LEMMA AddExecutorTyped ==
  ASSUME TypeOK, RoomSeen, AddExecutor
  PROVE  TypeOK' /\ RoomSeen'
<1>1. i \in 1..Last /\ Len(executorQueue) < High
  BY DEF TypeOK, RoomSeen, InBounds, AddExecutor
<1>2. /\ executorQueue' \in Seq(1..Last)
      /\ Len(executorQueue') = Len(executorQueue) + 1
  BY <1>1 DEF AddExecutor, TypeOK
<1>3. i' \in 1..(Last + 1) /\ left' \in 0..High
  BY <1>1, <1>2, QueueAssumption DEF AddExecutor, TypeOK
<1> QED
  BY <1>2, <1>3 DEF AddExecutor, TypeOK, RoomSeen, InBounds

LEMMA WakeTyped ==
  ASSUME TypeOK, RoomSeen, Wake
  PROVE  TypeOK' /\ RoomSeen'
<1>1. Len(executorQueue) \in Nat /\ Len(executorQueue) =< High
  BY QueueAssumption DEF TypeOK, RoomSeen
<1> QED
  BY <1>1, QueueAssumption DEF Wake, TypeOK, RoomSeen, InBounds

LEMMA CopyTyped ==
  ASSUME TypeOK, RoomSeen, CopyToLocal
  PROVE  TypeOK' /\ RoomSeen'
<1>1. executorQueue' = <<>> /\ Len(executorQueue') = 0 /\ executorQueue' \in Seq(1..Last)
  BY DEF CopyToLocal
<1> QED
  BY <1>1, QueueAssumption DEF CopyToLocal, TypeOK, RoomSeen, InBounds

LEMMA RunTyped ==
  ASSUME TypeOK, RoomSeen, RunExecutor
  PROVE  TypeOK' /\ RoomSeen'
<1> DEFINE V == 1..Last
<1>1. executors' \in Seq(V) /\ ran' \in Seq(V)
  <2>1. executors \in Seq(V) /\ executors # <<>> /\ ran \in Seq(V)
    BY DEF RunExecutor, TypeOK
  <2> HIDE DEF V
  <2>2. Head(executors) \in V /\ Tail(executors) \in Seq(V)
    BY <2>1
  <2>3. Append(ran, Head(executors)) \in Seq(V)
    BY <2>1, <2>2
  <2> QED
    BY <2>2, <2>3 DEF RunExecutor
<1> QED
  BY <1>1 DEF RunExecutor, TypeOK, RoomSeen, InBounds

-------------------------------------------------------------------------------
\* A new value goes to the end of what was queued before.
LEMMA AddExecutorOrdered ==
  ASSUME TypeOK, RunInOrder, AddExecutor
  PROVE  RunInOrder'
<1> DEFINE S == Seq(Nat)
<1>1. ran \in S /\ executors \in S /\ executorQueue \in S /\ i \in Nat /\ i > 0
  BY QueueAssumption DEF TypeOK
<1>2. executorQueue' = executorQueue \o <<i>>
  BY <1>1 DEF AddExecutor
<1>3. ran \o executors \o (executorQueue \o <<i>>)
        = (ran \o executors \o executorQueue) \o <<i>>
  BY <1>1
<1>4. [k \in 1..(i - 1) |-> k] \o <<i>> = [k \in 1..i |-> k]
  BY <1>1
<1>5. i' - 1 = i /\ ran' = ran /\ executors' = executors
  BY <1>1 DEF AddExecutor
<1>6. ran \o executors \o executorQueue' = [k \in 1..i |-> k]
  BY <1>2, <1>3, <1>4 DEF RunInOrder
<1> QED
  BY <1>5, <1>6 DEF RunInOrder

\* The queue becomes main's copy; its head becomes the last that was run.
LEMMA MainOrdered ==
  ASSUME TypeOK, RunInOrder, MainStep
  PROVE  RunInOrder'
<1> DEFINE S == Seq(Nat)
<1>1. ran \in S /\ executors \in S /\ executorQueue \in S
  BY QueueAssumption DEF TypeOK
<1>2. CASE CopyToLocal
  <2>1. ran \o <<>> \o executorQueue = ran \o executorQueue \o <<>>
    BY <1>1
  <2> QED
    BY <1>2, <2>1 DEF CopyToLocal, RunInOrder
<1>3. CASE RunExecutor
  <2>1. executors = <<Head(executors)>> \o Tail(executors)
    BY <1>1, <1>3 DEF RunExecutor
  <2>2. Append(ran, Head(executors)) = ran \o <<Head(executors)>>
    BY <1>1, <1>3 DEF RunExecutor
  <2>3. Head(executors) \in Nat /\ Tail(executors) \in S
    BY <1>1, <1>3 DEF RunExecutor
  <2>4. (ran \o <<Head(executors)>>) \o Tail(executors)
          = ran \o (<<Head(executors)>> \o Tail(executors))
    BY <1>1, <2>3
  <2> QED
    BY <1>3, <2>1, <2>2, <2>4 DEF RunExecutor, RunInOrder
<1> QED
  BY <1>2, <1>3 DEF MainStep

LEMMA Step ==
  ASSUME TypeOK, RoomSeen, RunInOrder, [Next]_vars
  PROVE  TypeOK' /\ RoomSeen' /\ RunInOrder'
<1>1. CASE TestRoom
  BY <1>1, TestRoomTyped DEF TestRoom, RunInOrder
<1>2. CASE AddExecutor
  BY <1>2, AddExecutorTyped, AddExecutorOrdered
<1>3. CASE Wake
  BY <1>3, WakeTyped DEF Wake, RunInOrder
<1>4. CASE MainStep
  BY <1>4, CopyTyped, RunTyped, MainOrdered DEF MainStep
<1>5. CASE UNCHANGED vars
  BY <1>5 DEF vars, TypeOK, RoomSeen, InBounds, RunInOrder
<1> QED
  BY <1>1, <1>2, <1>3, <1>4, <1>5 DEF Next, Finished

LEMMA InitOrdered == Init => RunInOrder
<1> SUFFICES ASSUME Init PROVE RunInOrder
  OBVIOUS
<1>1. <<>> \o <<>> \o <<>> = <<>>
  OBVIOUS
<1>2. [k \in 1..0 |-> k] = <<>>
  OBVIOUS
<1> QED
  BY <1>1, <1>2 DEF Init, RunInOrder

LEMMA Invariant == Spec => [](TypeOK /\ RoomSeen /\ RunInOrder)
<1>1. Init => TypeOK /\ RoomSeen /\ RunInOrder
  BY InitTyped, InitOrdered
<1>2. TypeOK /\ RoomSeen /\ RunInOrder /\ [Next]_vars
        => TypeOK' /\ RoomSeen' /\ RunInOrder'
  BY Step
<1> QED
  BY <1>1, <1>2, PTL DEF Spec

\* The counters stay in range and every queue holds values of the loop, each
\* limit at its edge included (test.cpp:345-357, 389-395).
THEOREM Typed == Spec => []TypeOK
  BY Invariant, PTL

\* add_executor never writes behind its array, although the test for room is
\* made without the mutex and on a value that may be old (test.cpp:353, 392).
THEOREM Bounded == Spec => []InBounds
<1>1. RoomSeen => InBounds
  BY DEF RoomSeen
<1> QED
  BY <1>1, Invariant, PTL

\* Nothing that was queued is lost, run twice or run out of order.
THEOREM Ordered == Spec => []RunInOrder
  BY Invariant, PTL
===============================================================================
