------------------------------ MODULE OpeIndex ------------------------------
(***************************************************************************)
(* What the daemon and its client promise together: every encrypted value  *)
(* of a table finds a place of its own in the table's binary search tree,  *)
(* and its row is stored under the label of that place, so that comparing  *)
(* labels compares the values nobody but the client can read.              *)
(*                                                                         *)
(* This is the serial reading of the protocol of plugin/Worker.cpp and     *)
(* plugin/test.cpp: one question to the client and the turn it answers are *)
(* one step, and no worker is ever in the middle of a handler.  ZqlInsert  *)
(* is the same system with its workers, messages and pointers.             *)
(***************************************************************************)
EXTENDS PathWord

CONSTANTS Ops,        \* the insert operations on an encrypted column
          Key,          \* Key[o]: database + "." + table, the tree of o
          Val,          \* Val[o]: the plaintext, known to the client only
          ReadsOf       \* ReadsOf[o]: what reading the buffer of o can give

ASSUME OpsAssumption ==
  /\ Val \in [Ops -> Int]
  /\ ReadsOf \in [Ops -> SUBSET Int]
  /\ \A o \in Ops : Val[o] \in ReadsOf[o]

\* Nothing ever overwrites a buffer that a node of table k points to.
Intact(k) == \A o \in Ops : Key[o] = k => ReadsOf[o] = {Val[o]}

VARIABLES status,   \* status[o]: how far operation o is
          pos,        \* pos[o]: the place of o, or how far its search is
          label       \* label[o]: the path its row is stored under

vars == <<status, pos, label>>

Status == {"new", "search", "placed", "dropped"}

NoLabel == <<>>

Init == /\ status = [o \in Ops |-> "new"]
        /\ pos = [o \in Ops |-> <<>>]
        /\ label = [o \in Ops |-> NoLabel]

Placed(k) == {o \in Ops : Key[o] = k /\ status[o] = "placed"}

Occupied(k, p) == \E o \in Placed(k) : pos[o] = p

\* Mutant: an equal value goes left.
Compare_LeftOnEqual(a, b) == IF a <= b THEN -1 ELSE 1

\* The client's compare(node, mine).
Compare(a, b) == IF a < b THEN -1 ELSE IF a > b THEN 1 ELSE 0

\* The client, shown the buffer of the node where o's search is, answers c.
Answers(o, c) ==
  \E h \in Placed(Key[o]) : /\ pos[h] = pos[o]
                            /\ \E u \in ReadsOf[h] : Compare(u, Val[o]) = c

\* Mutant: every answer sends the search left.
Turn_AlwaysLeft(c) == 0

\* -1 sends the search left (bit 0), 1 sends it right (bit 1).
Turn(c) == IF c = -1 THEN 0 ELSE 1

\* Mutant: the root is made without looking for a tree.
PlaceRoot_NoTest(o) ==
  /\ status[o] = "new"
  /\ status' = [status EXCEPT ![o] = "placed"]
  /\ UNCHANGED <<pos, label>>

PlaceRoot(o) ==
  /\ status[o] = "new"
  /\ Placed(Key[o]) = {}
  /\ status' = [status EXCEPT ![o] = "placed"]
  /\ UNCHANGED <<pos, label>>

StartSearch(o) ==
  /\ status[o] = "new"
  /\ Placed(Key[o]) # {}
  /\ status' = [status EXCEPT ![o] = "search"]
  /\ UNCHANGED <<pos, label>>

Descend(o, c) ==
  /\ status[o] = "search"
  /\ Answers(o, c)
  /\ Occupied(Key[o], Append(pos[o], Turn(c)))
  /\ pos' = [pos EXCEPT ![o] = Append(pos[o], Turn(c))]
  /\ UNCHANGED <<status, label>>

\* Mutant: the child is not tested for NULL.
Attach_NoTest(o, c) ==
  /\ status[o] = "search"
  /\ Answers(o, c)
  /\ pos' = [pos EXCEPT ![o] = Append(pos[o], Turn(c))]
  /\ status' = [status EXCEPT ![o] = "placed"]
  /\ UNCHANGED label

Attach(o, c) ==
  /\ status[o] = "search"
  /\ Answers(o, c)
  /\ ~Occupied(Key[o], Append(pos[o], Turn(c)))
  /\ pos' = [pos EXCEPT ![o] = Append(pos[o], Turn(c))]
  /\ status' = [status EXCEPT ![o] = "placed"]
  /\ UNCHANGED label

\* An equal value: the operation is answered and nothing is stored.
Drop(o) ==
  /\ status[o] = "search"
  /\ Answers(o, 0)
  /\ status' = [status EXCEPT ![o] = "dropped"]
  /\ UNCHANGED <<pos, label>>

\* The row is inserted.  A place deeper than the word has no label of its own.
Store(o) ==
  /\ status[o] = "placed"
  /\ label[o] = NoLabel
  /\ \E w \in Word : /\ Len(pos[o]) < PathBits => w = Label(pos[o])
                     /\ label' = [label EXCEPT ![o] = w]
  /\ UNCHANGED <<status, pos>>

Next == \E o \in Ops : \/ PlaceRoot(o)
                       \/ StartSearch(o)
                       \/ \E c \in {-1, 1} : Descend(o, c) \/ Attach(o, c)
                       \/ Drop(o)
                       \/ Store(o)

Spec == Init /\ [][Next]_vars
-----------------------------------------------------------------------------
TypeOK == /\ status \in [Ops -> Status]
          /\ pos \in [Ops -> Seq(Bit)]
          /\ label \in [Ops -> Word \cup {NoLabel}]

\* A row whose place fits the word, the case the word was made for.
Indexed(o) == label[o] # NoLabel /\ Len(pos[o]) < PathBits

(***************************************************************************)
(* Two rows of one table never share a label (Worker.cpp 172 and 262 store *)
(* it as the column's only content), whatever the node buffers hold.       *)
(***************************************************************************)
DistinctLabels ==
  \A o1, o2 \in Ops :
    (o1 # o2 /\ Key[o1] = Key[o2] /\ Indexed(o1) /\ Indexed(o2))
      => label[o1] # label[o2]

(***************************************************************************)
(* The labels of a table order its rows as the hidden values do, from the  *)
(* largest down: a node smaller than the new value sends it left           *)
(* (test.cpp 182, Worker.cpp 232-237).  The table's buffers must be intact. *)
(***************************************************************************)
LabelsOrdered ==
  \A o1, o2 \in Ops :
    (/\ Key[o1] = Key[o2] /\ Intact(Key[o1])
     /\ Indexed(o1) /\ Indexed(o2) /\ Val[o1] < Val[o2])
      => WordLess(label[o2], label[o1])

(***************************************************************************)
(* A value is in a tree once: the client's "equal" answer (Worker.cpp      *)
(* 238-242) catches every second insert of it, whichever way its search    *)
(* went, while the table's buffers are intact.                             *)
(***************************************************************************)
UniqueValues ==
  \A o1, o2 \in Ops :
    (/\ o1 # o2 /\ Key[o1] = Key[o2] /\ Intact(Key[o1])
     /\ status[o1] = "placed" /\ status[o2] = "placed") => Val[o1] # Val[o2]
-----------------------------------------------------------------------------
(***************************************************************************)
(* The inductive invariant behind the three.                               *)
(***************************************************************************)
\* Place p is a proper ancestor of place q.
Above(p, q) == Len(p) < Len(q) /\ \A i \in 1..Len(p) : p[i] = q[i]

UniquePlaces ==
  \A o1, o2 \in Ops :
    (o1 # o2 /\ Key[o1] = Key[o2] /\ status[o1] = "placed"
             /\ status[o2] = "placed") => pos[o1] # pos[o2]

\* Every ancestor of a placed operation is taken by a placed operation.
AncestorsPlaced ==
  \A o \in Ops : status[o] = "placed" =>
    \A d \in 0..(Len(pos[o]) - 1) :
      \E h \in Placed(Key[o]) : Len(pos[h]) = d /\ Above(pos[h], pos[o])

SearchesOccupied ==
  \A o \in Ops : status[o] = "search" => Occupied(Key[o], pos[o])

\* An operation is on the side of its ancestors its value asks for.
SidesRespected ==
  \A o, h \in Ops :
    (/\ Intact(Key[o])
     /\ status[o] \in {"search", "placed"} /\ status[h] = "placed"
     /\ Key[h] = Key[o] /\ Above(pos[h], pos[o]))
      => IF pos[o][Len(pos[h]) + 1] = 0 THEN Val[h] < Val[o]
                                         ELSE Val[h] > Val[o]

LabelsFollowPlaces ==
  \A o \in Ops : label[o] # NoLabel =>
    /\ status[o] = "placed"
    /\ Len(pos[o]) < PathBits => label[o] = Label(pos[o])

NewAtRoot == \A o \in Ops : status[o] = "new" => pos[o] = <<>>

IndInv == /\ TypeOK
          /\ NewAtRoot
          /\ UniquePlaces
          /\ AncestorsPlaced
          /\ SearchesOccupied
          /\ SidesRespected
          /\ LabelsFollowPlaces
=============================================================================
