------------------------------- MODULE BTree -------------------------------
(***************************************************************************)
(* lib/BTree.cpp: the trees of ciphertexts, one per table, and the walks   *)
(* through them that wait for the client's answers.  Everything is in the  *)
(* daemon's memory, in two static maps; nothing is locked.  An operation   *)
(* allocates at most one node and one traverse in a life of the daemon, so *)
(* a pointer to either is the operation that made it, or NULL; the node's  *)
(* ciphertext is that operation's too.                                     *)
(***************************************************************************)
EXTENDS PathWord, Inserts

VARIABLES nodes,   \* the BTreeNodes by operation: the two children, and
                   \* (history) the place, the turns that lead to it
          forest,  \* BTreeForest::_forest, NULL where it has no entry
          travs,   \* the BTreeTraverses by operation: node, path, length
          holder   \* BTreeTraverseHolder::_traverses, by request id

treeVars == <<nodes, forest, travs, holder>>

EmptyMap == <<>>

BTreeInit == /\ nodes = EmptyMap
             /\ forest = [k \in Keys |-> NULL]
             /\ travs = EmptyMap
             /\ holder = EmptyMap

NewNode(p) == [kid |-> [b \in Bit |-> NULL], pos |-> p]

NewTraverse(root) == [cur |-> root, path |-> ZeroWord, len |-> 0]

\* BTreeForest::createTree.  The entry may exist: it is overwritten.
CreateTree(o) ==
  /\ nodes' = Put(nodes, o, NewNode(<<>>))
  /\ forest' = [forest EXCEPT ![Key[o]] = o]
  /\ UNCHANGED <<travs, holder>>

\* BTreeTraverseHolder::createTraverse, and the caller's requestAdd() = request.
CreateTraverse(id, root, o) ==
  /\ travs' = Put(travs, o, NewTraverse(root))
  /\ holder' = Put(holder, id, o)
  /\ UNCHANGED <<nodes, forest>>

\* BTreeTraverseHolder::getTraverse: operator[] inserts a NULL for a new id.
HeldAt(id) == IF id \in DOMAIN holder THEN holder[id] ELSE NULL

LookUp(id) == /\ holder' = Put(holder, id, HeldAt(id))
              /\ UNCHANGED <<nodes, forest, travs>>

Child(t, b) == nodes[travs[t].cur].kid[b]

\* Mutant: the walk forgets the turn it takes.
StepDown_NoTurn(t, b) ==
  /\ travs' = [travs EXCEPT ![t] =
       [cur |-> Child(t, b), path |-> @.path, len |-> @.len + 1]]
  /\ UNCHANGED <<nodes, forest, holder>>

\* goToLeft (b = 0) and goToRight (b = 1) where the child exists.
StepDown(t, b) ==
  /\ travs' = [travs EXCEPT ![t] =
       [cur |-> Child(t, b), path |-> PushBit(@.path, b), len |-> @.len + 1]]
  /\ UNCHANGED <<nodes, forest, holder>>

\* Mutant: the path of the new node is not shifted to the top.
AttachLeaf_NoShift(t, b) ==
  LET cur == travs[t].cur
  IN  /\ nodes' = Put([nodes EXCEPT ![cur].kid[b] = t], t,
                      NewNode(Append(nodes[cur].pos, b)))
      /\ travs' = [travs EXCEPT ![t] =
           [cur |-> t, path |-> PushBit(@.path, b), len |-> @.len + 1]]
      /\ UNCHANGED <<forest, holder>>

\* The same where the child was NULL: a node with the walk's own ciphertext
\* is hung there, whatever hangs there by now.
AttachLeaf(t, b) ==
  LET cur == travs[t].cur
  IN  /\ nodes' = Put([nodes EXCEPT ![cur].kid[b] = t], t,
                      NewNode(Append(nodes[cur].pos, b)))
      /\ travs' = [travs EXCEPT ![t] =
           [cur |-> t, path |-> FinishPath(PushBit(@.path, b), @.len + 1),
            len |-> @.len + 1]]
      /\ UNCHANGED <<forest, holder>>

\* BTreeTraverseHolder::removeTraverse.
RemoveTraverse(id) == /\ holder' = Erase(holder, id)
                      /\ UNCHANGED <<nodes, forest, travs>>

(***************************************************************************)
(* Every pointer is NULL or leads to an object that exists, and a walk     *)
(* stands on a real node.                                                  *)
(***************************************************************************)
BTreeTypeOK ==
  /\ DOMAIN nodes \subseteq OpeOps
  /\ \A o \in DOMAIN nodes :
       nodes[o] \in [kid : [Bit -> DOMAIN nodes \cup {NULL}], pos : Seq(Bit)]
  /\ forest \in [Keys -> DOMAIN nodes \cup {NULL}]
  /\ DOMAIN travs \subseteq OpeOps
  /\ \A o \in DOMAIN travs :
       travs[o] \in [cur : DOMAIN nodes, path : Word, len : Nat]
  /\ DOMAIN holder \subseteq Id
  /\ \A id \in DOMAIN holder : holder[id] \in DOMAIN travs \cup {NULL}

(***************************************************************************)
(* A walk's word spells the turns to the node it stands on; once its own   *)
(* node hangs there it is that node's label, as far as the word holds it   *)
(* (the shifts of BTree.cpp 48, 62, 68 and 81).                            *)
(***************************************************************************)
WalksSpellPlaces ==
  \A t \in DOMAIN travs :
    LET p == nodes[travs[t].cur].pos
    IN  /\ travs[t].len = Len(p)
        /\ t \notin DOMAIN nodes => travs[t].path = TurnBits(p)
        /\ t \in DOMAIN nodes /\ Len(p) < PathBits => travs[t].path = Label(p)
=============================================================================
