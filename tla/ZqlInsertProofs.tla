--------------------------- MODULE ZqlInsertProofs ---------------------------
(***************************************************************************)
(* Type correctness of the whole insert path, and with it the safety of    *)
(* every pointer its handlers use without a test: for any number of        *)
(* workers, inserts, tables and restarts, with the data races of the maps. *)
(***************************************************************************)
EXTENDS ZqlInsert, TLAPS

\* The other workers' pointers survive a step that frees nothing.
Grows == DOMAIN nodes \subseteq DOMAIN nodes' /\ DOMAIN travs \subseteq DOMAIN travs'

LEMMA EmptyMapIs == DOMAIN EmptyMap = {}
  BY DEF EmptyMap

(***************************************************************************)
(* The words of the walks are words.                                       *)
(***************************************************************************)
LEMMA WordsAreWords ==
  ASSUME NEW w \in Word, NEW b \in Bit, NEW n \in Nat
  PROVE  /\ PushBit(w, b) \in Word
         /\ FinishPath(w, n) \in Word
<1>1. ASSUME NEW v \in Word, NEW k \in Nat
      PROVE  Shl(v, k) \in Word
  BY <1>1, PathBitsAssumption DEF Shl, Word, Bit
<1>2. ASSUME NEW c \in Bit
      PROVE  PushBit(w, c) \in Word
  <2>1. Shl(w, 1) \in Word
    BY <1>1
  <2> QED
    BY <2>1 DEF PushBit, Word
<1>3. FinishPath(w, n) \in Word
  <2>1. PushBit(w, 1) \in Word
    BY <1>2 DEF Bit
  <2>2. (PathBits - 1 - n) % PathBits \in Nat
    BY PathBitsAssumption
  <2> QED
    BY <1>1, <2>1, <2>2 DEF FinishPath
<1> QED
  BY <1>2, <1>3

LEMMA ZeroWordIsWord == ZeroWord \in Word
  BY DEF ZeroWord, Word, Bit

LEMMA RootPathIsWord == RootPath \in Word
  BY DEF RootPath, Word, Bit
-----------------------------------------------------------------------------
(***************************************************************************)
(* Every operation on the trees and on the holder keeps BTreeTypeOK.       *)
(***************************************************************************)
LEMMA NodesWiden ==
  ASSUME NEW S, NEW T, S \subseteq T
  PROVE  [kid : [Bit -> S \cup {NULL}], pos : Seq(Bit)]
           \subseteq [kid : [Bit -> T \cup {NULL}], pos : Seq(Bit)]
  OBVIOUS

LEMMA NodeIsRecord ==
  ASSUME NEW K, NEW P, NEW k \in K, NEW p \in P
  PROVE  [kid |-> k, pos |-> p] \in [kid : K, pos : P]
  OBVIOUS

LEMMA NewNodeKeeps ==
  ASSUME BTreeTypeOK, NEW o \in OpeOps, nodes' = Put(nodes, o, NewNode(<<>>)),
         \/ UNCHANGED forest
         \/ forest' = [forest EXCEPT ![Key[o]] = o],
         UNCHANGED <<travs, holder>>
  PROVE  BTreeTypeOK' /\ Grows
<1>1. /\ DOMAIN nodes' = DOMAIN nodes \cup {o}
      /\ nodes'[o] = NewNode(<<>>)
      /\ \A x \in DOMAIN nodes \ {o} : nodes'[x] = nodes[x]
  BY DEF Put
<1>2. \A x \in DOMAIN nodes' :
        nodes'[x] \in [kid : [Bit -> DOMAIN nodes' \cup {NULL}], pos : Seq(Bit)]
  <2>1. nodes'[o] \in [kid : [Bit -> DOMAIN nodes' \cup {NULL}], pos : Seq(Bit)]
    <3>1. <<>> \in Seq(Bit)
      OBVIOUS
    <3>2. [b \in Bit |-> NULL] \in [Bit -> DOMAIN nodes' \cup {NULL}]
      OBVIOUS
    <3>3. nodes'[o] = [kid |-> [b \in Bit |-> NULL], pos |-> <<>>]
      BY <1>1 DEF NewNode
    <3> QED
      BY <3>1, <3>2, <3>3, NodeIsRecord
  <2>2. ASSUME NEW x \in DOMAIN nodes \ {o}
        PROVE  nodes'[x] \in [kid : [Bit -> DOMAIN nodes' \cup {NULL}],
                              pos : Seq(Bit)]
    BY <1>1, NodesWiden DEF BTreeTypeOK
  <2> QED
    BY <1>1, <2>1, <2>2
<1>3. forest' \in [Keys -> DOMAIN nodes' \cup {NULL}]
  BY <1>1 DEF BTreeTypeOK
<1>4. \A t \in DOMAIN travs' :
        travs'[t] \in [cur : DOMAIN nodes', path : Word, len : Nat]
  BY <1>1 DEF BTreeTypeOK
<1> QED
  BY <1>1, <1>2, <1>3, <1>4 DEF BTreeTypeOK, Grows

LEMMA NewTraverseKeeps ==
  ASSUME BTreeTypeOK, NEW o \in OpeOps, NEW r \in DOMAIN nodes,
         travs' = Put(travs, o, NewTraverse(r)), UNCHANGED <<nodes, forest>>,
         \/ UNCHANGED holder
         \/ \E id \in Id : holder' = Put(holder, id, o)
  PROVE  BTreeTypeOK' /\ Grows
<1>1. /\ DOMAIN travs' = DOMAIN travs \cup {o}
      /\ travs'[o] = NewTraverse(r)
      /\ \A x \in DOMAIN travs \ {o} : travs'[x] = travs[x]
  BY DEF Put
<1>2. \A t \in DOMAIN travs' :
        travs'[t] \in [cur : DOMAIN nodes', path : Word, len : Nat]
  <2>1. travs'[o] \in [cur : DOMAIN nodes', path : Word, len : Nat]
    BY <1>1, ZeroWordIsWord DEF NewTraverse
  <2> QED
    BY <1>1, <2>1 DEF BTreeTypeOK
<1>3. /\ DOMAIN holder' \subseteq Id
      /\ \A id \in DOMAIN holder' : holder'[id] \in DOMAIN travs' \cup {NULL}
  BY <1>1 DEF BTreeTypeOK, Put
<1> QED
  BY <1>1, <1>2, <1>3 DEF BTreeTypeOK, Grows

LEMMA LookUpKeeps ==
  ASSUME BTreeTypeOK, NEW id \in Id, LookUp(id)
  PROVE  BTreeTypeOK' /\ Grows
  BY DEF BTreeTypeOK, LookUp, HeldAt, Grows, Put

LEMMA RemoveTraverseKeeps ==
  ASSUME BTreeTypeOK, NEW id \in Id, RemoveTraverse(id)
  PROVE  BTreeTypeOK' /\ Grows
  BY DEF BTreeTypeOK, RemoveTraverse, Grows, Erase

LEMMA StepDownKeeps ==
  ASSUME BTreeTypeOK, NEW t \in DOMAIN travs, NEW b \in Bit,
         Child(t, b) # NULL, StepDown(t, b)
  PROVE  BTreeTypeOK' /\ Grows
  BY WordsAreWords DEF BTreeTypeOK, StepDown, Child, Grows

LEMMA AttachLeafKeeps ==
  ASSUME BTreeTypeOK, NEW t \in DOMAIN travs, NEW b \in Bit, AttachLeaf(t, b)
  PROVE  BTreeTypeOK' /\ Grows
<1> DEFINE cur == travs[t].cur
           Node == [kid : [Bit -> DOMAIN nodes' \cup {NULL}], pos : Seq(Bit)]
<1>1. /\ cur \in DOMAIN nodes
      /\ nodes[cur] \in [kid : [Bit -> DOMAIN nodes \cup {NULL}], pos : Seq(Bit)]
  BY DEF BTreeTypeOK
<1>2. /\ DOMAIN nodes' = DOMAIN nodes \cup {t}
      /\ nodes'[t] = NewNode(Append(nodes[cur].pos, b))
      /\ \A x \in DOMAIN nodes \ {t, cur} : nodes'[x] = nodes[x]
      /\ cur # t => nodes'[cur] = [nodes[cur] EXCEPT !.kid[b] = t]
  BY <1>1 DEF AttachLeaf, Put
<1>3. \A x \in DOMAIN nodes' : nodes'[x] \in Node
  <2>1. nodes'[t] \in Node
    BY <1>1, <1>2 DEF NewNode
  <2>2. cur # t => nodes'[cur] \in Node
    BY <1>1, <1>2
  <2>3. \A x \in DOMAIN nodes \ {t, cur} : nodes'[x] \in Node
    BY <1>2, NodesWiden DEF BTreeTypeOK
  <2> QED
    BY <1>2, <2>1, <2>2, <2>3
<1>4. \A x \in DOMAIN travs' :
        travs'[x] \in [cur : DOMAIN nodes', path : Word, len : Nat]
  <2>1. FinishPath(PushBit(travs[t].path, b), travs[t].len + 1) \in Word
    <3>1. travs[t].path \in Word /\ travs[t].len + 1 \in Nat
      BY DEF BTreeTypeOK
    <3>2. PushBit(travs[t].path, b) \in Word
      BY <3>1, WordsAreWords
    <3> QED
      BY <3>1, <3>2, WordsAreWords
  <2>2. travs' = [travs EXCEPT ![t] =
             [cur |-> t, len |-> @.len + 1,
              path |-> FinishPath(PushBit(@.path, b), @.len + 1)]]
    BY DEF AttachLeaf
  <2>3. travs'[t] \in [cur : DOMAIN nodes', path : Word, len : Nat]
    BY <1>2, <2>1, <2>2 DEF BTreeTypeOK
  <2>4. \A x \in DOMAIN travs \ {t} :
          travs'[x] \in [cur : DOMAIN nodes', path : Word, len : Nat]
    BY <1>2, <2>2 DEF BTreeTypeOK
  <2> QED
    BY <2>2, <2>3, <2>4
<1>5. DOMAIN travs' = DOMAIN travs /\ UNCHANGED <<forest, holder>>
  BY DEF AttachLeaf
<1> QED
  BY <1>2, <1>3, <1>4, <1>5 DEF BTreeTypeOK, Grows
-----------------------------------------------------------------------------
(***************************************************************************)
(* Messages.                                                               *)
(***************************************************************************)
LEMMA RequestIs ==
  ASSUME NEW m \in Requests
  PROVE  /\ m.id \in Id
         /\ m.type \in {"add", "continue"}
         /\ m.type = "add" => m.op \in Ops
         /\ m.type = "continue" => m.init \in Id /\ m.cmp \in {-1, 0, 1}
         /\ m # NoMsg
  BY DEF Requests, NoMsg

LEMMA ResponseIs ==
  ASSUME NEW m \in Responses
  PROVE  /\ m.id \in Id
         /\ m.type = "traverse" => m.init \in Id /\ m.ct \in Int
  BY DEF Responses

LEMMA MessagesAreMessages ==
  ASSUME NEW id \in Id, NEW init \in Id, NEW o \in Ops, NEW c \in {-1, 0, 1},
         NEW v \in Int
  PROVE  /\ AddRequest(id, o) \in Requests
         /\ ContinueRequest(id, init, c) \in Requests
         /\ OkResponse(id) \in Responses
         /\ TraverseResponse(id, init, v) \in Responses
  BY DEF AddRequest, ContinueRequest, OkResponse, TraverseResponse, Requests,
         Responses

LEMMA SideIsBit == ASSUME NEW m PROVE Side(m) \in Bit
  BY DEF Side, Bit
-----------------------------------------------------------------------------
(***************************************************************************)
(* A handler that does not step keeps what it relies on, and a step of one *)
(* handler keeps WorkerTypeOK when it keeps its own.                       *)
(***************************************************************************)
Becomes(w, pc, p, a) ==
  /\ wk' \in [Workers -> Handler]
  /\ \A x \in Workers \ {w} : wk'[x] = wk[x]
  /\ wk'[w].pc = pc
  /\ wk'[w].msg = wk[w].msg
  /\ wk'[w].ptr = p
  /\ wk'[w].ask = a

RowsOK == rows \in [Ops -> Seq([path : Word \cup {<<>>}, depth : Nat, epoch : Nat])]

LEMMA HandlerSteps ==
  ASSUME WorkerTypeOK, Grows, NEW w \in Workers,
         wk' \in [Workers -> Handler], \A x \in Workers \ {w} : wk'[x] = wk[x],
         HandlerOK(wk[w])',
         RowsOK', epoch' = epoch, crashed' \in BOOLEAN, raced' \in BOOLEAN
  PROVE  WorkerTypeOK'
<1>1. ASSUME NEW x \in Workers \ {w}
      PROVE  HandlerOK(wk[x])'
  <2>1. wk'[x] = wk[x] /\ HandlerOK(wk[x])
    BY DEF WorkerTypeOK
  <2> QED
    BY <2>1 DEF HandlerOK, Grows
<1> QED
  BY <1>1 DEF WorkerTypeOK, RowsOK

LEMMA AddRowKeeps ==
  ASSUME RowsOK, epoch \in Nat, NEW o \in Ops, NEW p \in Word \cup {<<>>},
         NEW d \in Nat, AddRow(o, p, d)
  PROVE  RowsOK'
<1>1. Row(p, d) \in [path : Word \cup {<<>>}, depth : Nat, epoch : Nat]
  BY DEF Row
<1>2. CASE rows' = rows
  BY <1>2 DEF RowsOK
<1>3. CASE rows' = [rows EXCEPT ![o] = Append(@, Row(p, d))]
  <2>1. Append(rows[o], Row(p, d))
          \in Seq([path : Word \cup {<<>>}, depth : Nat, epoch : Nat])
    <3>1. rows[o] \in Seq([path : Word \cup {<<>>}, depth : Nat, epoch : Nat])
      BY DEF RowsOK
    <3> QED
      BY <1>1, <3>1
  <2> QED
    BY <1>3, <2>1 DEF RowsOK
<1> QED
  BY <1>2, <1>3 DEF AddRow
-----------------------------------------------------------------------------
(***************************************************************************)
(* The steps of a worker.                                                  *)
(***************************************************************************)
LEMMA WorkerKeeps ==
  ASSUME TypeOK, NEW w \in Workers, WorkerNext(w)
  PROVE  /\ BTreeTypeOK'
         /\ WorkerTypeOK'
         /\ inbox' \subseteq Requests
         /\ outbox' \subseteq Responses
<1> DEFINE h == wk[w]
           m == wk[w].msg
<1>t. /\ inbox \subseteq Requests
      /\ outbox \subseteq Responses
      /\ BTreeTypeOK
      /\ WorkerTypeOK
      /\ RowsOK
      /\ epoch \in Nat /\ crashed \in BOOLEAN /\ raced \in BOOLEAN
      /\ wk \in [Workers -> Handler]
  BY DEF TypeOK, WorkerTypeOK, RowsOK
<1>h. h \in Handler /\ HandlerOK(h)
  BY <1>t DEF WorkerTypeOK
<1>f. /\ h.pc \in PCs
      /\ h.msg \in Requests \cup {NoMsg}
      /\ h.ptr \in OpeOps \cup {NULL}
      /\ h.ask \in OpeOps \cup {NULL}
  BY <1>h DEF Handler
<1>m. h.pc # "idle" => m \in Requests
  BY <1>h, <1>f DEF HandlerOK
<1>u. UNCHANGED treeVars => BTreeTypeOK' /\ Grows
  BY <1>t DEF treeVars, BTreeTypeOK, Grows
<1>g. ASSUME Grows, wk' \in [Workers -> Handler],
             \A x \in Workers \ {w} : wk'[x] = wk[x], HandlerOK(wk[w])',
             rows' = rows, epoch' = epoch, crashed' \in BOOLEAN, raced' \in BOOLEAN
      PROVE  WorkerTypeOK'
  BY <1>t, <1>g, HandlerSteps DEF RowsOK
<1>1. CASE Recv(w)
  <2>1. PICK r \in inbox :
          /\ inbox' = inbox \ {r}
          /\ wk' = [wk EXCEPT ![w] =
               [Idle EXCEPT !.msg = r,
                            !.pc = IF r.type = "continue" THEN "getTraverse"
                                   ELSE IF r.op \in OpeOps THEN "getTree"
                                   ELSE "plainRow"]]
    BY <1>1 DEF Recv
  <2>2. r \in Requests
    BY <1>t
  <2>3. /\ wk' \in [Workers -> Handler]
        /\ \A x \in Workers \ {w} : wk'[x] = wk[x]
        /\ wk'[w].msg = r /\ wk'[w].ptr = NULL /\ wk'[w].ask = NULL
        /\ wk'[w].pc = IF r.type = "continue" THEN "getTraverse"
                       ELSE IF r.op \in OpeOps THEN "getTree"
                       ELSE "plainRow"
    BY <1>t, <2>1, <2>2 DEF Handler, Idle, PCs
  <2>4. BTreeTypeOK' /\ Grows
    BY <1>1, <1>u DEF Recv
  <2>5. HandlerOK(wk[w])'
    BY <2>2, <2>3, RequestIs DEF HandlerOK
  <2> QED
    BY <1>1, <1>t, <1>g, <2>1, <2>3, <2>4, <2>5 DEF Recv
<1>2. CASE InsertPlain(w)
  <2>1. Becomes(w, "send", h.ptr, h.ask)
    BY <1>h, <1>f, <1>2, <1>t DEF Handler, PCs, Becomes, InsertPlain, Goto
  <2>2. BTreeTypeOK' /\ Grows
    BY <1>2, <1>u DEF InsertPlain
  <2>3. HandlerOK(wk[w])'
    BY <1>2, <1>h, <2>2, <2>1 DEF InsertPlain, At, HandlerOK, Grows, Becomes
  <2>4. RowsOK'
    BY <1>2, <1>t, <1>h, <1>m, RequestIs, AddRowKeeps DEF InsertPlain, At, HandlerOK
  <2> QED
    BY <1>2, <1>t, HandlerSteps, <2>1, <2>2, <2>3, <2>4 DEF InsertPlain, Becomes
<1>3. CASE GetTree(w)
  <2>1. PICK p \in Found(w, forest[Key[m.op]]) :
          wk' = [wk EXCEPT ![w].ptr = p,
                           ![w].pc = IF p = NULL THEN "createTree"
                                     ELSE "createTraverse"]
    BY <1>3 DEF GetTree
  <2>2. p \in DOMAIN nodes \cup {NULL}
    <3>1. m.op \in Ops
      BY <1>3, <1>h, InsertsAssumption DEF GetTree, At, HandlerOK
    <3>2. forest[Key[m.op]] \in DOMAIN nodes \cup {NULL}
      BY <1>t, <3>1 DEF BTreeTypeOK, Keys
    <3> QED
      BY <3>2 DEF Found
  <2>3. Becomes(w, IF p = NULL THEN "createTree" ELSE "createTraverse", p, h.ask)
    BY <1>h, <1>f, <1>t, <2>2, <2>1 DEF Handler, PCs, BTreeTypeOK, Becomes
  <2>4. BTreeTypeOK' /\ Grows
    BY <1>3, <1>u DEF GetTree
  <2>5. HandlerOK(wk[w])'
    BY <1>3, <1>h, <2>2, <2>4, <2>3 DEF GetTree, At, HandlerOK, Grows, Becomes
  <2>6. raced' \in BOOLEAN
    BY <1>3 DEF GetTree, NoteMapRace
  <2> QED
    BY <1>3, <1>t, <1>g, <2>3, <2>4, <2>5, <2>6 DEF GetTree, Becomes
<1>4. CASE MakeTree(w)
  <2>1. m.op \in OpeOps
    BY <1>4, <1>h DEF MakeTree, At, HandlerOK
  <2>2. BTreeTypeOK' /\ Grows
    BY <1>4, <1>t, <2>1, NewNodeKeeps DEF MakeTree, CreateTree
  <2>3. Becomes(w, "rootRow", h.ptr, h.ask)
    BY <1>h, <1>f, <1>4, <1>t DEF Handler, PCs, Becomes, MakeTree, Goto
  <2>4. HandlerOK(wk[w])'
    BY <1>4, <1>h, <2>2, <2>3 DEF MakeTree, At, HandlerOK, Grows, Becomes
  <2>5. raced' \in BOOLEAN
    BY <1>4 DEF MakeTree
  <2> QED
    BY <1>4, <1>t, <1>g, <2>2, <2>3, <2>4, <2>5 DEF MakeTree, Becomes
<1>5. CASE InsertRoot(w)
  <2>1. Becomes(w, "send", h.ptr, h.ask)
    BY <1>h, <1>f, <1>5, <1>t DEF Handler, PCs, Becomes, InsertRoot, Goto
  <2>2. BTreeTypeOK' /\ Grows
    BY <1>5, <1>u DEF InsertRoot
  <2>3. HandlerOK(wk[w])'
    BY <1>5, <1>h, <2>2, <2>1 DEF InsertRoot, At, HandlerOK, Grows, Becomes
  <2>4. RowsOK'
    BY <1>5, <1>t, <1>h, InsertsAssumption, RootPathIsWord, AddRowKeeps
       DEF InsertRoot, At, HandlerOK
  <2> QED
    BY <1>5, <1>t, HandlerSteps, <2>1, <2>2, <2>3, <2>4 DEF InsertRoot, Becomes
<1>6. CASE BeginTraverse(w)
  <2>1. m.op \in OpeOps /\ m.type = "add" /\ h.ptr \in DOMAIN nodes
    BY <1>6, <1>h DEF BeginTraverse, At, HandlerOK
  <2>2. m.id \in Id
    BY <1>6, <1>m, RequestIs DEF BeginTraverse, At
  <2>3. BTreeTypeOK' /\ Grows
    BY <1>6, <1>t, <2>1, <2>2, NewTraverseKeeps DEF BeginTraverse, CreateTraverse
  <2>4. Becomes(w, "send", h.ptr, h.ptr)
    BY <1>h, <1>f, <1>6, <1>t DEF Handler, PCs, Becomes, BeginTraverse
  <2>5. HandlerOK(wk[w])'
    BY <1>6, <1>h, <2>1, <2>3, <2>4 DEF BeginTraverse, At, HandlerOK, Grows, Becomes
  <2>6. raced' \in BOOLEAN
    BY <1>6 DEF BeginTraverse, NoteMapRace
  <2> QED
    BY <1>6, <1>t, <1>g, <2>3, <2>4, <2>5, <2>6 DEF BeginTraverse, Becomes
<1>7. CASE GetTraverse(w)
  <2>1. PICK p \in Found(w, HeldAt(m.init)) :
          wk' = [wk EXCEPT ![w].ptr = p,
                           ![w].pc = IF m.cmp = 0 THEN "send" ELSE "goTo"]
    BY <1>7 DEF GetTraverse
  <2>2. p \in DOMAIN travs \cup {NULL}
    BY <1>t DEF Found, HeldAt, BTreeTypeOK
  <2>3. m.init \in Id
    BY <1>7, <1>h, <1>m, RequestIs DEF GetTraverse, At, HandlerOK
  <2>4. BTreeTypeOK' /\ Grows
    BY <1>7, <1>t, <2>3, LookUpKeeps DEF GetTraverse
  <2>5. Becomes(w, IF m.cmp = 0 THEN "send" ELSE "goTo", p, h.ask)
    BY <1>h, <1>f, <1>t, <2>2, <2>1 DEF Handler, PCs, BTreeTypeOK, Becomes
  <2>6. HandlerOK(wk[w])'
    BY <1>7, <1>h, <2>2, <2>4, <2>5 DEF GetTraverse, At, HandlerOK, Grows, Becomes
  <2>7. raced' \in BOOLEAN
    BY <1>7 DEF GetTraverse, NoteMapRace
  <2> QED
    BY <1>7, <1>t, <1>g, <2>4, <2>5, <2>6, <2>7 DEF GetTraverse, Becomes
<1>8. CASE NullTraverse(w) \/ MapCrash(w)
  <2>1. BTreeTypeOK' /\ Grows /\ wk' = wk
    BY <1>8, <1>u DEF NullTraverse, MapCrash
  <2>2. \A x \in Workers : HandlerOK(wk[x])'
    BY <1>t, <2>1 DEF WorkerTypeOK, HandlerOK, Grows
  <2> QED
    BY <1>8, <1>t, <2>1, <2>2 DEF NullTraverse, MapCrash, WorkerTypeOK
<1>9. CASE Descend(w)
  <2> DEFINE b == Side(m)
  <2>1. h.ptr \in DOMAIN travs /\ m.type = "continue"
    BY <1>9, <1>h DEF Descend, At, HandlerOK
  <2>2. b \in Bit
    BY SideIsBit
  <2>3. Child(h.ptr, b) \in DOMAIN nodes
    BY <1>9, <1>t, <2>1, <2>2 DEF Descend, Child, BTreeTypeOK
  <2>4. BTreeTypeOK' /\ Grows
    BY <1>9, <1>t, <2>1, <2>2, StepDownKeeps DEF Descend
  <2>5. Becomes(w, "send", h.ptr, Child(h.ptr, b))
    BY <1>h, <1>f, <1>t, <2>3, <1>9 DEF Handler, PCs, BTreeTypeOK, Becomes, Descend
  <2>6. HandlerOK(wk[w])'
    BY <1>9, <1>h, <2>3, <2>4, <2>5 DEF Descend, At, HandlerOK, Grows, Becomes
  <2> QED
    BY <1>9, <1>t, <1>g, <2>4, <2>5, <2>6 DEF Descend, Becomes
<1>10. CASE FindFree(w)
  <2>1. Becomes(w, "attach", h.ptr, h.ask)
    BY <1>h, <1>f, <1>10, <1>t DEF Handler, PCs, Becomes, FindFree, Goto
  <2>2. BTreeTypeOK' /\ Grows
    BY <1>10, <1>u DEF FindFree
  <2>3. HandlerOK(wk[w])'
    BY <1>10, <1>h, <2>2, <2>1 DEF FindFree, At, HandlerOK, Grows, Becomes
  <2> QED
    BY <1>10, <1>t, <1>g, <2>1, <2>2, <2>3 DEF FindFree, Becomes
<1>11. CASE Attach(w)
  <2>1. h.ptr \in DOMAIN travs
    BY <1>11, <1>h DEF Attach, At, HandlerOK
  <2>2. BTreeTypeOK' /\ Grows
    BY <1>11, <1>t, <2>1, SideIsBit, AttachLeafKeeps DEF Attach
  <2>3. Becomes(w, "leafRow", h.ptr, h.ask)
    BY <1>h, <1>f, <1>11, <1>t DEF Handler, PCs, Becomes, Attach, Goto
  <2>4. HandlerOK(wk[w])'
    BY <1>11, <1>h, <2>2, <2>3 DEF Attach, At, HandlerOK, Grows, Becomes
  <2>5. raced' \in BOOLEAN
    BY <1>11 DEF Attach
  <2> QED
    BY <1>11, <1>t, <1>g, <2>2, <2>3, <2>4, <2>5 DEF Attach, Becomes
<1>12. CASE InsertLeaf(w)
  <2>1. Becomes(w, "removeTraverse", h.ptr, h.ask)
    BY <1>h, <1>f, <1>12, <1>t DEF Handler, PCs, Becomes, InsertLeaf, Goto
  <2>2. BTreeTypeOK' /\ Grows
    BY <1>12, <1>u DEF InsertLeaf
  <2>3. HandlerOK(wk[w])'
    BY <1>12, <1>h, <2>2, <2>1 DEF InsertLeaf, At, HandlerOK, Grows, Becomes
  <2>4. h.ptr \in DOMAIN travs
    BY <1>12, <1>h DEF InsertLeaf, At, HandlerOK
  <2>5. /\ travs[h.ptr].path \in Word
        /\ travs[h.ptr].len \in Nat
        /\ h.ptr \in Ops
    BY <1>t, <2>4, InsertsAssumption DEF BTreeTypeOK
  <2>6. RowsOK'
    BY <1>12, <1>t, <2>5, AddRowKeeps DEF InsertLeaf
  <2> QED
    BY <1>12, <1>t, HandlerSteps, <2>1, <2>2, <2>3, <2>6 DEF InsertLeaf, Becomes
<1>13. CASE FinishTraverse(w)
  <2>1. m.id \in Id
    BY <1>13, <1>m, RequestIs DEF FinishTraverse, At
  <2>2. BTreeTypeOK' /\ Grows
    BY <1>13, <1>t, <2>1, RemoveTraverseKeeps DEF FinishTraverse
  <2>3. Becomes(w, "send", h.ptr, h.ask)
    BY <1>h, <1>f, <1>13, <1>t DEF Handler, PCs, Becomes, FinishTraverse, Goto
  <2>4. HandlerOK(wk[w])'
    BY <1>13, <1>h, <2>2, <2>3 DEF FinishTraverse, At, HandlerOK, Grows, Becomes
  <2>5. raced' \in BOOLEAN
    BY <1>13 DEF FinishTraverse, NoteMapRace
  <2> QED
    BY <1>13, <1>t, <1>g, <2>2, <2>3, <2>4, <2>5 DEF FinishTraverse, Becomes
<1>14. CASE Send(w)
  <2> DEFINE init == IF m.type = "add" THEN m.id ELSE m.init
  <2>1. m \in Requests
    BY <1>14, <1>m DEF Send, At
  <2>2. m.id \in Id /\ init \in Id
    BY <2>1, RequestIs
  <2>3. h.ask # NULL => h.ask \in Ops
    BY <1>f, InsertsAssumption
  <2>4. h.ask # NULL => Reads(h.ask) \subseteq Int
    BY <2>3, InsertsAssumption DEF Reads
  <2>5. outbox' \subseteq Responses
    <3>1. CASE h.ask = NULL
      <4>1. OkResponse(m.id) \in Responses
        BY <2>2 DEF OkResponse, Responses
      <4> QED
        BY <1>14, <1>t, <3>1, <4>1 DEF Send
    <3>2. CASE h.ask # NULL
      <4>1. PICK v \in Reads(h.ask) :
              outbox' = outbox \cup {TraverseResponse(m.id, init, v)}
        BY <1>14, <3>2 DEF Send
      <4>2. TraverseResponse(m.id, init, v) \in Responses
        BY <2>2, <2>4, <3>2 DEF TraverseResponse, Responses
      <4> QED
        BY <1>t, <4>1, <4>2
    <3> QED
      BY <3>1, <3>2
  <2>6. BTreeTypeOK' /\ Grows
    BY <1>14, <1>u DEF Send
  <2>7. /\ wk' \in [Workers -> Handler]
        /\ \A x \in Workers \ {w} : wk'[x] = wk[x]
        /\ wk'[w] = Idle
    BY <1>14, <1>t DEF Send, Idle, Handler, PCs
  <2>8. HandlerOK(wk[w])'
    BY <2>7 DEF Idle, HandlerOK
  <2> QED
    BY <1>14, <1>t, <1>g, <2>5, <2>6, <2>7, <2>8 DEF Send
<1> QED
  BY <1>1, <1>2, <1>3, <1>4, <1>5, <1>6, <1>7, <1>8, <1>9, <1>10, <1>11, <1>12,
     <1>13, <1>14 DEF WorkerNext
-----------------------------------------------------------------------------
(***************************************************************************)
(* The steps of the client, and a restart.                                 *)
(***************************************************************************)
LEMMA ClientKeeps ==
  ASSUME TypeOK, ClientNext
  PROVE  /\ ClientTypeOK'
         /\ inbox' \subseteq Requests
         /\ outbox' \subseteq Responses
<1>t. /\ inbox \subseteq Requests
      /\ outbox \subseteq Responses
      /\ ClientTypeOK
  BY DEF TypeOK
<1>n. ASSUME NEW o \in Ops
      PROVE  NewId(o) \in Id
  BY <1>t DEF NewId, Id, ClientTypeOK
<1>1. ASSUME NEW o \in Ops, Run(o)
      PROVE  ClientTypeOK' /\ inbox' \subseteq Requests /\ outbox' \subseteq Responses
  <2>1. AddRequest(NewId(o), o) \in Requests
    BY <1>n DEF AddRequest, Requests
  <2>2. ClientTypeOK'
    BY <1>1, <1>t, <1>n DEF Run, ClientTypeOK, Put
  <2> QED
    BY <1>1, <1>t, <2>1, <2>2 DEF Run
<1>2. ASSUME NEW m \in outbox, OnResponseAddOk(m)
      PROVE  ClientTypeOK' /\ inbox' \subseteq Requests /\ outbox' \subseteq Responses
  <2>1. ClientTypeOK'
    BY <1>2, <1>t DEF OnResponseAddOk, ClientTypeOK, Erase
  <2> QED
    BY <1>2, <1>t, <2>1 DEF OnResponseAddOk
<1>3. ASSUME NEW m \in outbox, OnResponseAddTraverse(m)
      PROVE  ClientTypeOK' /\ inbox' \subseteq Requests /\ outbox' \subseteq Responses
  <2> DEFINE o == listeners[m.id]
             cmp == Compare(m.ct, Val[o])
  <2>1. o \in Ops /\ NewId(o) \in Id
    BY <1>3, <1>t, <1>n DEF OnResponseAddTraverse, ClientTypeOK
  <2>2. m.init \in Id
    BY <1>3, <1>t, ResponseIs DEF OnResponseAddTraverse
  <2>3. cmp \in {-1, 0, 1}
    BY DEF Compare
  <2>4. ContinueRequest(NewId(o), m.init, cmp) \in Requests
    BY <2>1, <2>2, <2>3 DEF ContinueRequest, Requests
  <2>5. /\ listeners' = Put(Erase(listeners, m.id), NewId(o), o)
        /\ inbox' = inbox \cup {ContinueRequest(NewId(o), m.init, cmp)}
        /\ answer' = [answer EXCEPT ![o] = cmp]
        /\ sent' = [sent EXCEPT ![o] = @ + 1]
        /\ outbox' = outbox \ {m}
        /\ UNCHANGED cstate
    BY <1>3 DEF OnResponseAddTraverse
  <2> HIDE DEF o, cmp
  <2>6. ClientTypeOK'
    BY <1>t, <2>1, <2>3, <2>5 DEF ClientTypeOK, Put, Erase
  <2> QED
    BY <1>t, <2>4, <2>5, <2>6
<1> QED
  BY <1>1, <1>2, <1>3 DEF ClientNext

LEMMA EmptyTreesAreTyped ==
  ASSUME nodes' = EmptyMap, forest' = [k \in Keys |-> NULL],
         travs' = EmptyMap, holder' = EmptyMap
  PROVE  BTreeTypeOK'
  BY EmptyMapIs DEF BTreeTypeOK

LEMMA RestartKeeps ==
  ASSUME TypeOK, Restart
  PROVE  TypeOK'
<1>1. BTreeTypeOK'
  BY EmptyTreesAreTyped DEF Restart
<1>2. WorkerTypeOK'
  <2>1. wk' \in [Workers -> Handler] /\ \A w \in Workers : wk'[w] = Idle
    BY DEF Restart, Idle, Handler, PCs
  <2>2. \A w \in Workers : HandlerOK(wk[w])'
    BY <2>1 DEF Idle, HandlerOK
  <2>3. rows' = rows /\ epoch' = epoch + 1 /\ crashed' = FALSE /\ raced' = raced
    BY DEF Restart
  <2>4. RowsOK /\ epoch \in Nat /\ raced \in BOOLEAN
    BY DEF TypeOK, WorkerTypeOK, RowsOK
  <2>5. epoch' \in Nat
    BY <2>3, <2>4
  <2>6. crashed' \in BOOLEAN /\ raced' \in BOOLEAN
    BY <2>3, <2>4, Zenon
  <2> QED
    BY <2>1, <2>2, <2>3, <2>4, <2>5, <2>6 DEF WorkerTypeOK, RowsOK
<1>3. ClientTypeOK'
  BY DEF TypeOK, Restart, clientVars, ClientTypeOK
<1>4. inbox' \subseteq Requests /\ outbox' \subseteq Responses
  BY DEF TypeOK, Restart
<1> QED
  BY <1>1, <1>2, <1>3, <1>4 DEF TypeOK

LEMMA InitTyped == Init => TypeOK
<1> SUFFICES ASSUME Init
             PROVE  TypeOK
  OBVIOUS
<1>1. BTreeTypeOK
  BY EmptyMapIs DEF Init, BTreeInit, BTreeTypeOK
<1>2. WorkerTypeOK
  <2>1. wk \in [Workers -> Handler] /\ \A w \in Workers : wk[w] = Idle
    BY DEF Init, WorkerInit, Idle, Handler, PCs
  <2>2. \A w \in Workers : HandlerOK(wk[w])
    BY <2>1 DEF Idle, HandlerOK
  <2>3. rows \in [Ops -> Seq([path : Word \cup {<<>>}, depth : Nat, epoch : Nat])]
    BY DEF Init, WorkerInit
  <2> QED
    BY <2>1, <2>2, <2>3 DEF Init, WorkerInit, WorkerTypeOK
<1>3. ClientTypeOK
  BY EmptyMapIs DEF Init, ClientInit, ClientTypeOK, NoAnswer, EmptyMap
<1> QED
  BY <1>1, <1>2, <1>3 DEF TypeOK, Init
-----------------------------------------------------------------------------
(***************************************************************************)
(* Whatever the interleaving of the workers, the races on the maps and the *)
(* restarts, no handler uses a pointer to a node or walk that does not     *)
(* exist, except the NULL that getTraverse may give it (Worker.cpp         *)
(* 225-237); walks stand on real nodes, and every message is well formed.  *)
(***************************************************************************)
THEOREM Typed == Spec => []TypeOK
<1>1. TypeOK /\ [Next]_vars => TypeOK'
  <2> SUFFICES ASSUME TypeOK, [Next]_vars
               PROVE  TypeOK'
    OBVIOUS
  <2>1. ASSUME NEW w \in Workers, WorkerStep(w)
        PROVE  TypeOK'
    <3>1. ClientTypeOK'
      BY <2>1 DEF TypeOK, WorkerStep, clientVars, ClientTypeOK
    <3> QED
      BY <2>1, <3>1, WorkerKeeps DEF WorkerStep, TypeOK
  <2>2. CASE ClientStep
    <3>1. BTreeTypeOK'
      BY <2>2 DEF TypeOK, ClientStep, treeVars, BTreeTypeOK
    <3>2. WorkerTypeOK'
      BY <2>2 DEF TypeOK, ClientStep, treeVars, workerVars, WorkerTypeOK, HandlerOK
    <3> QED
      BY <2>2, <3>1, <3>2, ClientKeeps DEF ClientStep, TypeOK
  <2>3. CASE Restart
    BY <2>3, RestartKeeps
  <2>4. CASE UNCHANGED vars
    BY <2>4 DEF vars, treeVars, workerVars, clientVars, TypeOK, BTreeTypeOK,
                WorkerTypeOK, HandlerOK, ClientTypeOK
  <2> QED
    BY <2>1, <2>2, <2>3, <2>4 DEF Next, Terminated
<1> QED
  BY InitTyped, <1>1, PTL DEF Spec

-----------------------------------------------------------------------------
(***************************************************************************)
(* Every insert of ZqlInsert is one conversation: it is in one place at a  *)
(* time, stores at most one row, and without races and restarts always     *)
(* finds its walk.                                                         *)
(***************************************************************************)

\* The part of a conversation that its messages alone decide.
Talk == AllNamed /\ OneCarrier /\ Listening

\* What OwnWalks says of the holder.
HolderOwn == \A id \in DOMAIN holder : id[2] = 1 /\ holder[id] \in {id[1], NULL}

LEMMA BusyIs ==
  ASSUME TypeOK, NEW w \in Workers
  PROVE  /\ w \in Busy <=> wk[w].pc # "idle"
         /\ w \in Busy => wk[w].msg \in Requests /\ Owner(wk[w].msg) \in Ops
<1>1. wk[w] \in Handler /\ HandlerOK(wk[w])
  BY DEF TypeOK, WorkerTypeOK
<1>2. w \in Busy <=> wk[w].pc # "idle"
  BY <1>1 DEF HandlerOK, Busy
<1>3. w \in Busy => wk[w].msg \in Requests
  BY <1>1 DEF Handler, Busy
<1>4. w \in Busy => wk[w].msg.id \in Id
  BY <1>3, RequestIs
<1> QED
  BY <1>2, <1>3, <1>4 DEF Owner, Id

(***************************************************************************)
(* A step inside a handler leaves the messages and the client alone.       *)
(***************************************************************************)
LEMMA TalkStays ==
  ASSUME Talk, UNCHANGED <<inbox, outbox, clientVars>>,
         \A x \in Workers : wk'[x].msg = wk[x].msg
  PROVE  Talk' /\ Busy' = Busy
<1>1. Busy' = Busy
  BY DEF Busy
<1>2. AllNamed'
  BY <1>1 DEF Talk, AllNamed, Named, Owner, clientVars, Busy
<1>3. OneCarrier'
  BY <1>1 DEF Talk, OneCarrier, Owner, Busy
<1>4. Listening'
  BY DEF Talk, Listening, clientVars
<1> QED
  BY <1>1, <1>2, <1>3, <1>4 DEF Talk

LEMMA OwnWalksStay ==
  ASSUME OwnWalks, HolderOwn', NEW w \in Workers, NEW pc, NEW p, NEW a,
         Becomes(w, pc, p, a),
         pc \in {"goTo", "attach", "leafRow"} => p \in {Owner(wk[w].msg), NULL},
         pc # "send" => a = NULL
  PROVE  OwnWalks'
  BY DEF OwnWalks, HolderOwn, Becomes, Owner

LEMMA RowsCloseStays ==
  ASSUME RowsClose, NEW w \in Busy, NEW pc, NEW p, NEW a, Becomes(w, pc, p, a),
         rows' = rows, Busy' = Busy, UNCHANGED <<inbox, outbox, clientVars>>,
         \/ wk[w].pc \notin {"removeTraverse", "send"}
         \/ pc = "send" /\ a = NULL
  PROVE  RowsClose'
<1>1. ASSUME NEW o \in Ops, Closing(o)
      PROVE  Closing(o)'
  BY <1>1 DEF Closing, Becomes, Owner, clientVars, Busy
<1> QED
  BY <1>1 DEF RowsClose

LEMMA OwnerIsOp ==
  ASSUME TypeOK, NEW m \in inbox \cup outbox
  PROVE  Owner(m) \in Ops
<1>1. m \in Requests \/ m \in Responses
  BY DEF TypeOK
<1>2. m.id \in Id
  BY <1>1, RequestIs, ResponseIs
<1> QED
  BY <1>2 DEF Owner, Id

LEMMA WalksHeldStay ==
  ASSUME TypeOK, WalksHeld, NEW w \in Busy, NEW pc, NEW p, NEW a,
         Becomes(w, pc, p, a), Busy' = Busy, UNCHANGED <<inbox, outbox, epoch>>,
         raced => raced',
         ~raced' => \A o \in Ops : Held(o) => Held(o)',
         ~raced' /\ epoch = 0 => ~crashed',
         \A o \in Ops : (/\ ~raced' /\ epoch = 0
                         /\ o = Owner(wk[w].msg)
                         /\ wk[w].msg.type = "continue" \/ a # NULL)
                          => Held(o)',
         pc = "goTo" /\ ~raced' /\ epoch = 0 => p # NULL
  PROVE  WalksHeld'
<1> SUFFICES ASSUME ~raced', epoch = 0
             PROVE  WalksHeld'
  BY DEF WalksHeld
<1>1. ~raced /\ ~crashed'
  OBVIOUS
<1>2. ASSUME NEW m \in inbox \cup outbox, m.type \in {"continue", "traverse"}
      PROVE  Held(Owner(m))'
  <2>1. Held(Owner(m)) /\ Owner(m) \in Ops
    BY <1>1, <1>2, OwnerIsOp DEF WalksHeld
  <2>2. PICK o \in Ops : o = Owner(m)
    BY <2>1
  <2>3. Held(o)'
    BY <2>1, <2>2
  <2> QED
    BY <2>2, <2>3 DEF Held, Owner
<1>3. ASSUME NEW x \in Busy, wk'[x].msg.type = "continue" \/ wk'[x].ask # NULL
      PROVE  Held(Owner(wk[x].msg))'
  <2>1. PICK o \in Ops : o = Owner(wk[x].msg)
    BY BusyIs DEF Busy
  <2>2. wk'[x].msg = wk[x].msg
    BY DEF Becomes, Busy
  <2>3. Held(o)'
    <3>1. CASE x = w
      BY <1>3, <2>1, <2>2, <3>1 DEF Becomes
    <3>2. CASE x # w
      <4>1. Held(o)
        BY <1>1, <1>3, <2>1, <3>2 DEF WalksHeld, Becomes, Busy
      <4> QED
        BY <4>1
    <3> QED
      BY <3>1, <3>2
  <2> QED
    BY <2>1, <2>2, <2>3 DEF Held, Owner
<1>4. ASSUME NEW x \in Busy, wk'[x].pc = "goTo"
      PROVE  wk'[x].ptr # NULL
  BY <1>1, <1>4 DEF WalksHeld, Becomes, Busy
<1> QED
  BY <1>1, <1>2, <1>3, <1>4 DEF WalksHeld

LEMMA RowAdded ==
  ASSUME TypeOK, Talk, RowsClose, NEW w \in Busy, NEW pc, NEW p,
         Becomes(w, pc, p, NULL), wk[w].pc \notin {"removeTraverse", "send"},
         pc \in {"removeTraverse", "send"}, Busy' = Busy,
         UNCHANGED <<inbox, outbox, clientVars>>,
         NEW path, NEW d, AddRow(Owner(wk[w].msg), path, d)
  PROVE  RowsClose'
<1> DEFINE o == Owner(wk[w].msg)
<1>1. o \in Ops
  BY BusyIs DEF Busy
<1>2. rows[o] = <<>>
  BY <1>1 DEF RowsClose, Closing
<1>3. /\ \A x \in Ops \ {o} : rows'[x] = rows[x]
      /\ Len(rows'[o]) <= 1
  <2>1. rows \in [Ops -> Seq([path : Word \cup {<<>>}, depth : Nat, epoch : Nat])]
    BY DEF TypeOK, WorkerTypeOK
  <2>2. CASE rows' = rows
    BY <1>1, <1>2, <2>2
  <2>3. CASE rows' = [rows EXCEPT ![o] = Append(@, Row(path, d))]
    <3>1. rows'[o] = Append(<<>>, Row(path, d))
      BY <1>1, <1>2, <2>1, <2>3
    <3>2. Len(rows'[o]) = 1
      BY <3>1
    <3>3. \A x \in Ops \ {o} : rows'[x] = rows[x]
      BY <2>1, <2>3
    <3> QED
      BY <3>2, <3>3
  <2> QED
    BY <2>2, <2>3 DEF AddRow
<1>4. ASSUME NEW x \in Ops, x = o
      PROVE  Closing(x)'
  <2>1. cstate[x] = "waiting"
    BY <1>4 DEF Talk, AllNamed, Named, Busy
  <2>2. \A m \in inbox \cup outbox : Owner(m) # x
    BY <1>4 DEF Talk, OneCarrier
  <2>3. \A v \in Busy : v # w => Owner(wk[v].msg) # x
    BY <1>4 DEF Talk, OneCarrier
  <2> QED
    BY <2>1, <2>2, <2>3 DEF Closing, Becomes, Owner, clientVars, Busy
<1>5. ASSUME NEW x \in Ops \ {o}, Closing(x)
      PROVE  Closing(x)'
  BY <1>5 DEF Closing, Becomes, Owner, clientVars, Busy
<1> QED
  BY <1>3, <1>4, <1>5 DEF RowsClose
-----------------------------------------------------------------------------
(***************************************************************************)
(* The steps inside a handler.                                             *)
(***************************************************************************)
LEMMA InternalKeeps ==
  ASSUME TypeOK, Conversation, NEW w \in Workers, WorkerStep(w),
         ~Recv(w), ~Send(w)
  PROVE  Conversation'
<1> DEFINE h == wk[w]
           m == wk[w].msg
<1>t. /\ BTreeTypeOK
      /\ wk \in [Workers -> Handler]
      /\ epoch \in Nat
      /\ h \in Handler
      /\ HandlerOK(h)
  BY DEF TypeOK, WorkerTypeOK
<1>f. /\ h.pc \in PCs
      /\ h.ptr \in OpeOps \cup {NULL}
      /\ h.ask \in OpeOps \cup {NULL}
  BY <1>t DEF Handler
<1>b. h.pc # "idle" => /\ w \in Busy
                       /\ m \in Requests
                       /\ Owner(m) \in Ops
                       /\ Named(m)
  BY BusyIs DEF Conversation, AllNamed
<1>c. Talk /\ OwnWalks /\ HolderOwn /\ RowsClose /\ WalksHeld
  BY DEF Conversation, Talk, OwnWalks, HolderOwn
<1>a. h.pc # "send" => h.ask = NULL
  BY <1>c DEF OwnWalks
<1>w. ~raced /\ epoch = 0 /\ w \in Busy =>
        /\ m.type = "continue" \/ h.ask # NULL => Held(Owner(m))
        /\ h.pc = "goTo" => h.ptr # NULL
  BY <1>c DEF WalksHeld
<1>i. ASSUME h.pc # "idle", NEW pc, NEW p, NEW a, Becomes(w, pc, p, a),
             UNCHANGED <<inbox, outbox, epoch, clientVars>>, HolderOwn',
             pc \in {"goTo", "attach", "leafRow"} => p \in {Owner(m), NULL},
             pc # "send" => a = NULL,
             Busy' = Busy => RowsClose',
             raced => raced',
             ~raced' => \A o \in Ops : Held(o) => Held(o)',
             crashed' => crashed,
             a # NULL /\ m.type = "add" /\ ~raced' =>
               \A o \in Ops : o = Owner(m) => Held(o)',
             pc = "goTo" /\ ~raced' /\ epoch = 0 => p # NULL
      PROVE  Conversation'
  <2>1. Talk' /\ Busy' = Busy
    BY <1>c, <1>i, TalkStays DEF Becomes
  <2>2. OwnWalks'
    BY <1>c, <1>i, OwnWalksStay
  <2>3. ~raced' /\ epoch = 0 => ~crashed'
    BY <1>c, <1>i DEF WalksHeld
  <2>4. m.type \in {"add", "continue"}
    BY <1>b, <1>i, RequestIs
  <2>5. ASSUME NEW o \in Ops, ~raced' /\ epoch = 0 /\ o = Owner(m),
               m.type = "continue" \/ a # NULL
        PROVE  Held(o)'
    <3>1. CASE m.type = "continue"
      <4>1. Held(o)
        BY <1>b, <1>i, <1>w, <2>5, <3>1
      <4> QED
        BY <1>i, <2>5, <4>1
    <3>2. CASE m.type # "continue"
      BY <1>i, <2>4, <2>5, <3>2
    <3> QED
      BY <3>1, <3>2
  <2>6. WalksHeld'
    <3>1. \A o \in Ops : (/\ ~raced' /\ epoch = 0
                          /\ o = Owner(m)
                          /\ m.type = "continue" \/ a # NULL)
                           => Held(o)'
      BY <2>5
    <3> QED
      BY <1>b, <1>c, <1>i, <2>1, <2>3, <3>1, WalksHeldStay
  <2> QED
    BY <1>i, <2>1, <2>2, <2>6 DEF Conversation, Talk
<1>s. ASSUME holder' = holder
      PROVE  HolderOwn' /\ \A o \in Ops : Held(o) => Held(o)'
  BY <1>c, <1>s DEF HolderOwn, Held
<1>r. ASSUME NEW pc, NEW p, NEW a, Becomes(w, pc, p, a), rows' = rows,
             Busy' = Busy, UNCHANGED <<inbox, outbox, clientVars>>, w \in Busy,
             \/ h.pc \notin {"removeTraverse", "send"}
             \/ pc = "send" /\ a = NULL
      PROVE  RowsClose'
  BY <1>c, <1>r, RowsCloseStays
<1>1. CASE InsertPlain(w)
  <2>1. h.pc = "plainRow" /\ m.type = "add"
    BY <1>1, <1>t DEF InsertPlain, At, HandlerOK
  <2>2. Becomes(w, "send", h.ptr, NULL)
    BY <1>t, <1>f, <1>a, <1>1, <2>1 DEF Handler, PCs, Becomes, InsertPlain, Goto
  <2>3. m.op = Owner(m)
    BY <1>b, <2>1 DEF Named
  <2>4. Busy' = Busy => RowsClose'
    BY <1>1, <1>b, <1>c, <2>1, <2>2, <2>3, RowAdded DEF InsertPlain, WorkerStep
  <2>5. HolderOwn' /\ \A o \in Ops : Held(o) => Held(o)'
    BY <1>1, <1>s DEF InsertPlain, treeVars
  <2>6. UNCHANGED <<inbox, outbox, epoch, clientVars>>
    BY <1>1 DEF InsertPlain, WorkerStep
  <2>7. (raced => raced') /\ (crashed' => crashed)
    BY <1>1 DEF InsertPlain
  <2> QED
    BY <1>i, <2>1, <2>2, <2>4, <2>5, <2>6, <2>7
<1>2. CASE GetTree(w)
  <2>1. h.pc = "getTree"
    BY <1>2 DEF GetTree, At
  <2>2. PICK p \in OpeOps \cup {NULL} :
          Becomes(w, IF p = NULL THEN "createTree" ELSE "createTraverse", p, NULL)
    <3>1. PICK p \in Found(w, forest[Key[m.op]]) :
            wk' = [wk EXCEPT ![w].ptr = p,
                             ![w].pc = IF p = NULL THEN "createTree"
                                       ELSE "createTraverse"]
      BY <1>2 DEF GetTree
    <3>2. m.op \in Ops
      BY <1>t, <2>1, InsertsAssumption DEF HandlerOK
    <3>3. forest[Key[m.op]] \in OpeOps \cup {NULL}
      BY <1>t, <3>2 DEF BTreeTypeOK, Keys
    <3>4. p \in OpeOps \cup {NULL}
      BY <3>3 DEF Found
    <3> QED
      BY <1>t, <1>f, <1>a, <2>1, <3>1, <3>4 DEF Handler, PCs, Becomes
  <2>3. /\ UNCHANGED <<inbox, outbox, epoch, clientVars>>
        /\ rows' = rows /\ holder' = holder
        /\ (raced => raced') /\ (crashed' => crashed)
    BY <1>2 DEF GetTree, WorkerStep, treeVars, NoteMapRace
  <2>4. Busy' = Busy => RowsClose'
    BY <1>b, <1>r, <2>1, <2>2, <2>3
  <2> QED
    BY <1>i, <1>s, <2>1, <2>2, <2>3, <2>4
<1>3. CASE MakeTree(w)
  <2>1. h.pc = "createTree"
    BY <1>3 DEF MakeTree, At
  <2>2. Becomes(w, "rootRow", h.ptr, NULL)
    BY <1>3, <1>t, <1>f, <1>a, <2>1 DEF Handler, PCs, Becomes, MakeTree, Goto
  <2>3. /\ UNCHANGED <<inbox, outbox, epoch, clientVars>>
        /\ rows' = rows /\ holder' = holder
        /\ (raced => raced') /\ (crashed' => crashed)
    BY <1>3 DEF MakeTree, CreateTree, WorkerStep
  <2>4. Busy' = Busy => RowsClose'
    BY <1>b, <1>r, <2>1, <2>2, <2>3
  <2> QED
    BY <1>i, <1>s, <2>1, <2>2, <2>3, <2>4
<1>4. CASE InsertRoot(w)
  <2>1. h.pc = "rootRow" /\ m.type = "add"
    BY <1>4, <1>t DEF InsertRoot, At, HandlerOK
  <2>2. Becomes(w, "send", h.ptr, NULL)
    BY <1>4, <1>t, <1>f, <1>a, <2>1 DEF Handler, PCs, Becomes, InsertRoot, Goto
  <2>3. m.op = Owner(m)
    BY <1>b, <2>1 DEF Named
  <2>4. /\ UNCHANGED <<inbox, outbox, epoch, clientVars>>
        /\ holder' = holder
        /\ (raced => raced') /\ (crashed' => crashed)
    BY <1>4 DEF InsertRoot, treeVars, WorkerStep
  <2>5. Busy' = Busy => RowsClose'
    BY <1>4, <1>b, <1>c, <2>1, <2>2, <2>3, <2>4, RowAdded DEF InsertRoot
  <2> QED
    BY <1>i, <1>s, <2>1, <2>2, <2>4, <2>5
<1>5. CASE BeginTraverse(w)
  <2>1. h.pc = "createTraverse" /\ m.type = "add"
    BY <1>5, <1>t DEF BeginTraverse, At, HandlerOK
  <2>2. Becomes(w, "send", h.ptr, h.ptr)
    BY <1>5, <1>t, <1>f, <2>1 DEF Handler, PCs, Becomes, BeginTraverse
  <2>3. m.id = <<Owner(m), 1>> /\ m.op = Owner(m) /\ Owner(m) \in Ops
    BY <1>b, <2>1 DEF Named
  <2>4. /\ UNCHANGED <<inbox, outbox, epoch, clientVars>>
        /\ rows' = rows
        /\ (raced => raced') /\ (crashed' => crashed)
    BY <1>5 DEF BeginTraverse, WorkerStep, NoteMapRace
  <2>5. \/ holder' = Put(holder, <<Owner(m), 1>>, Owner(m))
        \/ holder' = holder /\ raced'
    BY <1>5, <2>3 DEF BeginTraverse, CreateTraverse, NoteMapRace
  <2>6. HolderOwn'
    BY <1>c, <1>s, <2>5 DEF HolderOwn, Put
  <2>7. ~raced' => \A o \in Ops : o = Owner(m) \/ Held(o) => Held(o)'
    BY <2>5 DEF Held, Put
  <2>8. Busy' = Busy => RowsClose'
    BY <1>b, <1>r, <2>1, <2>2, <2>4
  <2> QED
    BY <1>i, <2>1, <2>2, <2>4, <2>6, <2>7, <2>8
<1>6. CASE GetTraverse(w)
  <2>1. h.pc = "getTraverse" /\ m.type = "continue"
    BY <1>6, <1>t DEF GetTraverse, At, HandlerOK
  <2>2. m.init = <<Owner(m), 1>> /\ Owner(m) \in Ops
    BY <1>b, <2>1 DEF Named
  <2>3. HeldAt(m.init) \in {Owner(m), NULL}
    BY <1>c, <2>2 DEF HeldAt, HolderOwn
  <2>4. PICK p \in Found(w, HeldAt(m.init)) :
          wk' = [wk EXCEPT ![w].ptr = p,
                           ![w].pc = IF m.cmp = 0 THEN "send" ELSE "goTo"]
    BY <1>6 DEF GetTraverse
  <2>5. p \in {Owner(m), NULL}
    BY <2>3, <2>4 DEF Found
  <2>6. Becomes(w, IF m.cmp = 0 THEN "send" ELSE "goTo", p, NULL)
    <3>1. p \in OpeOps \cup {NULL}
      BY <1>t, <2>4 DEF Found, HeldAt, BTreeTypeOK
    <3> QED
      BY <1>t, <1>f, <1>a, <2>1, <2>4, <3>1 DEF Handler, PCs, Becomes
  <2>7. /\ UNCHANGED <<inbox, outbox, epoch, clientVars>>
        /\ rows' = rows
        /\ (raced => raced') /\ (crashed' => crashed)
    BY <1>6 DEF GetTraverse, WorkerStep, NoteMapRace
  <2>8. holder' = Put(holder, m.init, HeldAt(m.init))
    BY <1>6 DEF GetTraverse, LookUp
  <2>9. HolderOwn'
    BY <1>c, <2>2, <2>3, <2>8 DEF HolderOwn, Put
  <2>10. \A o \in Ops : Held(o) => Held(o)'
    BY <2>8 DEF Held, Put, HeldAt
  <2>11. ~raced' /\ epoch = 0 => p # NULL
    <3>1. ~raced' => p = HeldAt(m.init)
      BY <1>6, <2>4 DEF GetTraverse, NoteMapRace, Found
    <3>2. ~raced' /\ epoch = 0 => Held(Owner(m))
      BY <1>b, <1>w, <2>1, <2>7
    <3>3. Held(Owner(m)) => HeldAt(m.init) = Owner(m)
      BY <2>2 DEF Held, HeldAt
    <3> QED
      BY <2>2, <3>1, <3>2, <3>3, InsertsAssumption
  <2>12. Busy' = Busy => RowsClose'
    BY <1>b, <1>r, <2>1, <2>6, <2>7
  <2> QED
    BY <1>i, <2>1, <2>5, <2>6, <2>7, <2>9, <2>10, <2>11, <2>12
<1>7. CASE NullTraverse(w) \/ MapCrash(w)
  <2>1. /\ UNCHANGED <<inbox, outbox, epoch, clientVars, wk, rows, holder>>
        /\ NullTraverse(w) => h.pc = "goTo" /\ h.ptr = NULL /\ raced' = raced
        /\ MapCrash(w) => raced'
    BY <1>7 DEF NullTraverse, MapCrash, At, WorkerStep, treeVars
  <2>2. Talk' /\ Busy' = Busy
    BY <1>c, <2>1, TalkStays
  <2>3. OwnWalks'
    BY <1>c, <2>1 DEF OwnWalks, Owner
  <2>4. RowsClose'
    BY <1>c, <2>1, <2>2 DEF RowsClose, Closing, Owner, clientVars
  <2>5. NullTraverse(w) => raced \/ epoch # 0
    BY <1>b, <1>w, <2>1
  <2>6. WalksHeld'
    BY <1>7, <2>1, <2>5 DEF WalksHeld
  <2> QED
    BY <2>2, <2>3, <2>4, <2>6 DEF Conversation, Talk
<1>8. CASE Descend(w)
  <2>1. h.pc = "goTo" /\ m.type = "continue" /\ h.ptr # NULL
    BY <1>8, <1>t DEF Descend, At, HandlerOK
  <2>2. Becomes(w, "send", h.ptr, Child(h.ptr, Side(m)))
    <3>1. Child(h.ptr, Side(m)) \in OpeOps \cup {NULL}
      BY <1>t, <2>1, SideIsBit DEF HandlerOK, BTreeTypeOK, Child
    <3> QED
      BY <1>8, <1>t, <1>f, <2>1, <3>1 DEF Handler, PCs, Becomes, Descend
  <2>3. /\ UNCHANGED <<inbox, outbox, epoch, clientVars>>
        /\ rows' = rows /\ holder' = holder
        /\ (raced => raced') /\ (crashed' => crashed)
    BY <1>8 DEF Descend, StepDown, WorkerStep
  <2>4. Busy' = Busy => RowsClose'
    BY <1>b, <1>r, <2>1, <2>2, <2>3
  <2> QED
    BY <1>i, <1>s, <2>1, <2>2, <2>3, <2>4
<1>9. CASE FindFree(w)
  <2>1. h.pc = "goTo" /\ h.ptr \in {Owner(m), NULL}
    BY <1>9, <1>c DEF FindFree, At, OwnWalks
  <2>2. Becomes(w, "attach", h.ptr, NULL)
    BY <1>9, <1>t, <1>f, <1>a, <2>1 DEF Handler, PCs, Becomes, FindFree, Goto
  <2>3. /\ UNCHANGED <<inbox, outbox, epoch, clientVars>>
        /\ rows' = rows /\ holder' = holder
        /\ (raced => raced') /\ (crashed' => crashed)
    BY <1>9 DEF FindFree, treeVars, WorkerStep
  <2>4. Busy' = Busy => RowsClose'
    BY <1>b, <1>r, <2>1, <2>2, <2>3
  <2> QED
    BY <1>i, <1>s, <2>1, <2>2, <2>3, <2>4
<1>10. CASE Attach(w)
  <2>1. h.pc = "attach" /\ h.ptr \in {Owner(m), NULL}
    BY <1>10, <1>c DEF Attach, At, OwnWalks
  <2>2. Becomes(w, "leafRow", h.ptr, NULL)
    BY <1>10, <1>t, <1>f, <1>a, <2>1 DEF Handler, PCs, Becomes, Attach, Goto
  <2>3. /\ UNCHANGED <<inbox, outbox, epoch, clientVars>>
        /\ rows' = rows /\ holder' = holder
        /\ (raced => raced') /\ (crashed' => crashed)
    BY <1>10 DEF Attach, AttachLeaf, WorkerStep
  <2>4. Busy' = Busy => RowsClose'
    BY <1>b, <1>r, <2>1, <2>2, <2>3
  <2> QED
    BY <1>i, <1>s, <2>1, <2>2, <2>3, <2>4
<1>11. CASE InsertLeaf(w)
  <2>1. h.pc = "leafRow" /\ h.ptr \in {Owner(m), NULL}
    BY <1>11, <1>c DEF InsertLeaf, At, OwnWalks
  <2>2. h.ptr = Owner(m)
    BY <1>t, <2>1, InsertsAssumption DEF HandlerOK, BTreeTypeOK
  <2>3. Becomes(w, "removeTraverse", h.ptr, NULL)
    BY <1>11, <1>t, <1>f, <1>a, <2>1 DEF Handler, PCs, Becomes, InsertLeaf, Goto
  <2>4. /\ UNCHANGED <<inbox, outbox, epoch, clientVars>>
        /\ holder' = holder
        /\ (raced => raced') /\ (crashed' => crashed)
    BY <1>11 DEF InsertLeaf, treeVars, WorkerStep
  <2>5. Busy' = Busy => RowsClose'
    BY <1>11, <1>b, <1>c, <2>1, <2>2, <2>3, <2>4, RowAdded DEF InsertLeaf
  <2> QED
    BY <1>i, <1>s, <2>1, <2>3, <2>4, <2>5
<1>12. CASE FinishTraverse(w)
  <2>1. h.pc = "removeTraverse" /\ m.type = "continue"
    BY <1>12, <1>t DEF FinishTraverse, At, HandlerOK
  <2>2. m.id[2] > 1
    BY <1>b, <2>1 DEF Named
  <2>3. Becomes(w, "send", h.ptr, NULL)
    BY <1>12, <1>t, <1>f, <1>a, <2>1 DEF Handler, PCs, Becomes, FinishTraverse, Goto
  <2>4. /\ UNCHANGED <<inbox, outbox, epoch, clientVars>>
        /\ rows' = rows
        /\ (raced => raced') /\ (crashed' => crashed)
    BY <1>12 DEF FinishTraverse, WorkerStep, NoteMapRace
  <2>5. holder' = Erase(holder, m.id)
    BY <1>12 DEF FinishTraverse, RemoveTraverse
  <2>6. HolderOwn'
    BY <1>c, <2>5 DEF HolderOwn, Erase
  <2>7. \A o \in Ops : Held(o) => Held(o)'
    <3>1. \A o \in Ops : m.id # <<o, 1>>
      BY <2>2
    <3> QED
      BY <2>5, <3>1 DEF Held, Erase
  <2>8. Busy' = Busy => RowsClose'
    BY <1>b, <1>r, <2>1, <2>3, <2>4
  <2> QED
    BY <1>i, <2>1, <2>3, <2>4, <2>6, <2>7, <2>8
<1> QED
  BY <1>1, <1>2, <1>3, <1>4, <1>5, <1>6, <1>7, <1>8, <1>9, <1>10, <1>11, <1>12
     DEF WorkerStep, WorkerNext
-----------------------------------------------------------------------------
(***************************************************************************)
(* A request is taken up, and a response is sent: the conversation moves   *)
(* from a message to a handler and back.                                   *)
(***************************************************************************)
LEMMA RequestIsNoResponse ==
  ASSUME NEW r \in Requests
  PROVE  r \notin Responses
<1>1. ASSUME NEW q \in Responses
      PROVE  q.type \in {"ok", "traverse"}
  BY DEF Responses
<1> QED
  BY <1>1, RequestIs

LEMMA RecvKeeps ==
  ASSUME TypeOK, Conversation, NEW w \in Workers, WorkerStep(w), Recv(w)
  PROVE  Conversation'
<1>1. PICK r \in inbox :
        /\ inbox' = inbox \ {r}
        /\ wk' = [wk EXCEPT ![w] =
             [Idle EXCEPT !.msg = r,
                          !.pc = IF r.type = "continue" THEN "getTraverse"
                                 ELSE IF r.op \in OpeOps THEN "getTree"
                                 ELSE "plainRow"]]
  BY DEF Recv
<1>2. /\ wk \in [Workers -> Handler]
      /\ r \in Requests
      /\ r # NoMsg
  BY RequestIs DEF TypeOK, WorkerTypeOK
<1>3. /\ \A x \in Workers \ {w} : wk'[x] = wk[x]
      /\ wk'[w].msg = r
      /\ wk'[w].ask = NULL
      /\ wk'[w].pc \in {"getTraverse", "getTree", "plainRow"}
  BY <1>1, <1>2 DEF Idle
<1>4. UNCHANGED <<outbox, rows, epoch, crashed, raced, holder, clientVars>>
  BY DEF Recv, treeVars, WorkerStep
<1>5. w \notin Busy /\ Busy' = Busy \cup {w}
  BY <1>2, <1>3, BusyIs DEF Recv, At, Busy
<1>6. AllNamed'
  BY <1>1, <1>3, <1>4, <1>5 DEF Conversation, AllNamed, Named, Owner, clientVars, Busy
<1>7. OneCarrier'
  <2>1. \A m1, m2 \in (inbox \cup outbox)' : Owner(m1) = Owner(m2) => m1 = m2
    BY <1>1, <1>4 DEF Conversation, OneCarrier, Owner
  <2>2. \A x \in Busy : Owner(wk'[x].msg) # Owner(r) /\ wk'[x] = wk[x]
    BY <1>3, <1>5 DEF Conversation, OneCarrier, Owner, Busy
  <2>3. \A m \in (inbox \cup outbox)' : Owner(m) # Owner(r)
    <3>1. r \notin outbox
      BY <1>2, RequestIsNoResponse DEF TypeOK
    <3>2. \A m \in (inbox \cup outbox)' : m \in inbox \cup outbox /\ m # r
      BY <1>1, <1>4, <3>1
    <3> QED
      BY <3>2 DEF Conversation, OneCarrier
  <2>4. \A x \in Busy : \A m \in (inbox \cup outbox)' : Owner(wk'[x].msg) # Owner(m)
    BY <1>1, <1>4, <2>2 DEF Conversation, OneCarrier
  <2>5. \A x1, x2 \in Busy : Owner(wk'[x1].msg) = Owner(wk'[x2].msg) => x1 = x2
    BY <2>2 DEF Conversation, OneCarrier
  <2> QED
    BY <1>3, <1>5, <2>1, <2>2, <2>3, <2>4, <2>5 DEF OneCarrier, Owner
<1>8. Listening'
  BY <1>4 DEF Conversation, Listening, clientVars
<1>9. OwnWalks'
  BY <1>3, <1>4 DEF Conversation, OwnWalks, Owner
<1>10. RowsClose'
  <2>1. ASSUME NEW o \in Ops, Closing(o)
        PROVE  Closing(o)'
    BY <1>1, <1>3, <1>4, <1>5, <2>1 DEF Closing, Owner, clientVars, Busy
  <2> QED
    BY <1>4, <2>1 DEF Conversation, RowsClose
<1>11. WalksHeld'
  BY <1>1, <1>3, <1>4, <1>5 DEF Conversation, WalksHeld, Held, Owner, Busy
<1> QED
  BY <1>6, <1>7, <1>8, <1>9, <1>10, <1>11 DEF Conversation

LEMMA SendKeeps ==
  ASSUME TypeOK, Conversation, NEW w \in Workers, WorkerStep(w), Send(w)
  PROVE  Conversation'
<1> DEFINE m == wk[w].msg
           init == IF m.type = "add" THEN m.id ELSE m.init
<1>1. /\ wk[w].pc = "send"
      /\ w \in Busy
      /\ m \in Requests
      /\ wk \in [Workers -> Handler]
  BY BusyIs DEF Send, At, TypeOK, WorkerTypeOK
<1>2. Named(m)
  BY <1>1 DEF Conversation, AllNamed
<1>3. init = <<Owner(m), 1>>
  BY <1>1, <1>2, RequestIs DEF Named
<1>4. PICK r : /\ outbox' = outbox \cup {r}
               /\ r.id = m.id
               /\ r.type \in {"ok", "traverse"}
               /\ r.type = "traverse" => r.init = init /\ wk[w].ask # NULL
  <2> DEFINE Fits(q) == /\ outbox' = outbox \cup {q}
                        /\ q.id = m.id
                        /\ q.type \in {"ok", "traverse"}
                        /\ q.type = "traverse" => q.init = init /\ wk[w].ask # NULL
  <2>1. CASE wk[w].ask = NULL
    <3>1. outbox' = outbox \cup {OkResponse(m.id)}
      BY <2>1 DEF Send
    <3>2. OkResponse(m.id).id = m.id /\ OkResponse(m.id).type = "ok"
      BY DEF OkResponse
    <3>3. Fits(OkResponse(m.id))
      BY <3>1, <3>2
    <3> QED
      BY <3>3
  <2>2. CASE wk[w].ask # NULL
    <3>1. PICK v \in Reads(wk[w].ask) :
            outbox' = outbox \cup {TraverseResponse(m.id, init, v)}
      BY <2>2 DEF Send
    <3> DEFINE q == TraverseResponse(m.id, init, v)
    <3>2. q.id = m.id /\ q.type = "traverse" /\ q.init = init
      BY DEF TraverseResponse
    <3>3. Fits(q)
      BY <2>2, <3>1, <3>2
    <3> QED
      BY <3>3
  <2> QED
    BY <2>1, <2>2
<1>5. /\ \A x \in Workers \ {w} : wk'[x] = wk[x]
      /\ wk'[w] = Idle
  BY <1>1 DEF Send
<1>6. UNCHANGED <<inbox, rows, epoch, crashed, raced, holder, clientVars>>
  BY DEF Send, treeVars, WorkerStep
<1>7. Busy' = Busy \ {w}
  BY <1>5 DEF Busy, Idle
<1>8. Owner(r) = Owner(m)
  BY <1>4 DEF Owner
<1>9. Named(r)
  BY <1>2, <1>3, <1>4, <1>8 DEF Named
<1>10. AllNamed'
  BY <1>4, <1>5, <1>6, <1>7, <1>9
     DEF Conversation, AllNamed, Named, Owner, clientVars, Busy
<1>11. OneCarrier'
  <2>1. \A x \in Busy \ {w} : Owner(wk[x].msg) # Owner(r) /\ wk'[x] = wk[x]
    BY <1>1, <1>5, <1>8 DEF Conversation, OneCarrier, Busy
  <2>2. \A n \in inbox \cup outbox : Owner(n) # Owner(r)
    BY <1>1, <1>8 DEF Conversation, OneCarrier
  <2> QED
    BY <1>4, <1>6, <1>7, <2>1, <2>2 DEF Conversation, OneCarrier, Owner
<1>12. Listening'
  BY <1>6 DEF Conversation, Listening, clientVars
<1>13. OwnWalks'
  BY <1>5, <1>6 DEF Conversation, OwnWalks, Owner, Idle
<1>14. RowsClose'
  <2>1. ASSUME NEW o \in Ops, Closing(o)
        PROVE  Closing(o)'
    <3>1. Owner(r) = o => r.type = "ok"
      BY <1>1, <1>4, <1>8, <2>1 DEF Closing
    <3> QED
      BY <1>4, <1>5, <1>6, <1>7, <2>1, <3>1 DEF Closing, Owner, clientVars, Busy
  <2> QED
    BY <1>6, <2>1 DEF Conversation, RowsClose
<1>15. WalksHeld'
  BY <1>1, <1>4, <1>5, <1>6, <1>7, <1>8
     DEF Conversation, WalksHeld, Held, Owner, Busy
<1> QED
  BY <1>10, <1>11, <1>12, <1>13, <1>14, <1>15 DEF Conversation
-----------------------------------------------------------------------------
(***************************************************************************)
(* The steps of the client, and a restart.                                 *)
(***************************************************************************)
LEMMA RunKeeps ==
  ASSUME TypeOK, Conversation, NEW o \in Ops, Run(o),
         UNCHANGED <<treeVars, workerVars>>
  PROVE  Conversation'
<1> DEFINE r == AddRequest(<<o, 1>>, o)
<1>1. /\ cstate[o] = "queued"
      /\ sent[o] = 0
      /\ sent \in [Ops -> Nat]
      /\ cstate \in [Ops -> {"queued", "waiting", "done"}]
  BY DEF Run, Conversation, Listening, TypeOK, ClientTypeOK
<1>2. /\ inbox' = inbox \cup {r}
      /\ outbox' = outbox
      /\ listeners' = Put(listeners, <<o, 1>>, o)
      /\ cstate' = [cstate EXCEPT ![o] = "waiting"]
      /\ sent' = [sent EXCEPT ![o] = 1]
  BY <1>1 DEF Run, NewId
<1>3. UNCHANGED <<wk, rows, epoch, crashed, raced, holder>> /\ Busy' = Busy
  BY DEF treeVars, workerVars, Busy
<1>4. r.id = <<o, 1>> /\ r.type = "add" /\ r.op = o
  BY DEF AddRequest
<1>5. /\ \A m \in inbox \cup outbox : Owner(m) # o
      /\ \A w \in Busy : Owner(wk[w].msg) # o
  BY <1>1 DEF Conversation, AllNamed, Named
<1>6. ASSUME NEW m, Named(m), Owner(m) \in Ops, Owner(m) # o
      PROVE  Named(m)'
  BY <1>1, <1>2, <1>6 DEF Named, Owner
<1>7. Named(r)'
  BY <1>1, <1>2, <1>4 DEF Named, Owner
<1> HIDE DEF r
<1>8. AllNamed'
  <2>1. ASSUME NEW m \in inbox \cup outbox
        PROVE  Named(m)'
    BY <1>5, <1>6, OwnerIsOp DEF Conversation, AllNamed
  <2>2. ASSUME NEW w \in Busy
        PROVE  Named(wk[w].msg)'
    <3>1. Named(wk[w].msg) /\ Owner(wk[w].msg) \in Ops /\ Owner(wk[w].msg) # o
      BY <1>5, BusyIs DEF Conversation, AllNamed, Busy
    <3> QED
      BY <1>1, <1>2, <1>3, <3>1 DEF Named, Owner
  <2> QED
    BY <1>2, <1>3, <1>7, <2>1, <2>2 DEF AllNamed
<1>9. OneCarrier'
  BY <1>2, <1>3, <1>4, <1>5 DEF Conversation, OneCarrier, Owner
<1>10. Listening'
  BY <1>1, <1>2 DEF Conversation, Listening, Put
<1>11. OwnWalks'
  BY <1>3 DEF Conversation, OwnWalks, Owner
<1>12. RowsClose'
  <2>1. ASSUME NEW x \in Ops, Closing(x)
        PROVE  Closing(x)'
    BY <1>1, <1>2, <1>3, <1>4, <2>1 DEF Closing, Owner
  <2> QED
    BY <1>3, <2>1 DEF Conversation, RowsClose
<1>13. WalksHeld'
  BY <1>2, <1>3, <1>4 DEF Conversation, WalksHeld, Held, Owner
<1> QED
  BY <1>8, <1>9, <1>10, <1>11, <1>12, <1>13 DEF Conversation

\* A response reaches the executor of its insert, which is waiting for it.
LEMMA Heard ==
  ASSUME TypeOK, Conversation, NEW m \in outbox, m.id \in DOMAIN listeners
  PROVE  /\ listeners[m.id] = Owner(m)
         /\ Owner(m) \in Ops
         /\ m.id = <<Owner(m), sent[Owner(m)]>>
         /\ cstate[Owner(m)] = "waiting"
         /\ sent[Owner(m)] \in Nat \ {0}
         /\ \A n \in inbox \cup outbox : n # m => Owner(n) # Owner(m)
         /\ \A w \in Busy : Owner(wk[w].msg) # Owner(m)
<1>1. listeners[m.id] = Owner(m) /\ Owner(m) \in Ops /\ Named(m)
  BY OwnerIsOp DEF Conversation, Listening, Owner, AllNamed
<1>2. sent[Owner(m)] \in Nat \ {0}
  BY <1>1 DEF Named, Conversation, Listening, TypeOK, ClientTypeOK
<1>3. /\ \A n \in inbox \cup outbox : n # m => Owner(n) # Owner(m)
      /\ \A w \in Busy : Owner(wk[w].msg) # Owner(m)
  BY DEF Conversation, OneCarrier
<1> QED
  BY <1>1, <1>2, <1>3 DEF Named

LEMMA OkKeeps ==
  ASSUME TypeOK, Conversation, NEW m \in outbox, OnResponseAddOk(m),
         UNCHANGED <<treeVars, workerVars>>
  PROVE  Conversation'
<1>1. PICK o \in Ops :
        /\ o = Owner(m)
        /\ listeners[m.id] = o
        /\ m.id = <<o, sent[o]>>
        /\ cstate[o] = "waiting"
        /\ sent[o] \in Nat \ {0}
        /\ \A n \in inbox \cup outbox : n # m => Owner(n) # o
        /\ \A w \in Busy : Owner(wk[w].msg) # o
  BY Heard DEF OnResponseAddOk
<1>2. /\ outbox' = outbox \ {m}
      /\ inbox' = inbox
      /\ listeners' = Erase(listeners, m.id)
      /\ cstate' = [cstate EXCEPT ![o] = "done"]
      /\ sent' = sent
      /\ cstate \in [Ops -> {"queued", "waiting", "done"}]
  BY <1>1 DEF OnResponseAddOk, TypeOK, ClientTypeOK
<1>3. UNCHANGED <<wk, rows, epoch, crashed, raced, holder>> /\ Busy' = Busy
  BY DEF treeVars, workerVars, Busy
<1>4. m \notin inbox
  BY RequestIsNoResponse DEF TypeOK
<1>5. AllNamed'
  <2>1. ASSUME NEW n \in inbox \cup outbox, n # m
        PROVE  Named(n)'
    <3>1. Named(n) /\ Owner(n) \in Ops /\ Owner(n) # o
      BY <1>1, <2>1, OwnerIsOp DEF Conversation, AllNamed
    <3> QED
      BY <1>2, <3>1 DEF Named, Owner
  <2>2. ASSUME NEW w \in Busy
        PROVE  Named(wk[w].msg)'
    <3>1. Named(wk[w].msg) /\ Owner(wk[w].msg) \in Ops /\ Owner(wk[w].msg) # o
      BY <1>1, BusyIs DEF Conversation, AllNamed, Busy
    <3> QED
      BY <1>2, <1>3, <3>1 DEF Named, Owner
  <2> QED
    BY <1>2, <1>3, <1>4, <2>1, <2>2 DEF AllNamed
<1>6. OneCarrier'
  BY <1>2, <1>3 DEF Conversation, OneCarrier, Owner
<1>7. Listening'
  BY <1>1, <1>2 DEF Conversation, Listening, Erase
<1>8. OwnWalks'
  BY <1>3 DEF Conversation, OwnWalks, Owner
<1>9. RowsClose'
  <2>1. ASSUME NEW x \in Ops, Closing(x)
        PROVE  Closing(x)'
    BY <1>1, <1>2, <1>3, <2>1 DEF Closing, Owner
  <2> QED
    BY <1>3, <2>1 DEF Conversation, RowsClose
<1>10. WalksHeld'
  BY <1>2, <1>3 DEF Conversation, WalksHeld, Held, Owner
<1> QED
  BY <1>5, <1>6, <1>7, <1>8, <1>9, <1>10 DEF Conversation

LEMMA TraverseKeeps ==
  ASSUME TypeOK, Conversation, NEW m \in outbox, OnResponseAddTraverse(m),
         UNCHANGED <<treeVars, workerVars>>
  PROVE  Conversation'
<1>1. PICK o \in Ops :
        /\ o = Owner(m)
        /\ listeners[m.id] = o
        /\ m.id = <<o, sent[o]>>
        /\ cstate[o] = "waiting"
        /\ sent[o] \in Nat \ {0}
        /\ \A n \in inbox \cup outbox : n # m => Owner(n) # o
        /\ \A w \in Busy : Owner(wk[w].msg) # o
  BY Heard DEF OnResponseAddTraverse
<1>0. PICK id, r : /\ id = <<o, sent[o] + 1>>
                   /\ r = ContinueRequest(id, m.init, Compare(m.ct, Val[o]))
  OBVIOUS
<1>2. /\ outbox' = outbox \ {m}
      /\ inbox' = inbox \cup {r}
      /\ listeners' = Put(Erase(listeners, m.id), id, o)
      /\ cstate' = cstate
      /\ sent' = [sent EXCEPT ![o] = @ + 1]
      /\ sent \in [Ops -> Nat]
  BY <1>0, <1>1 DEF OnResponseAddTraverse, NewId, TypeOK, ClientTypeOK
<1>3. UNCHANGED <<wk, rows, epoch, crashed, raced, holder>> /\ Busy' = Busy
  BY DEF treeVars, workerVars, Busy
<1>4. m \notin inbox /\ m.type = "traverse"
  BY RequestIsNoResponse DEF TypeOK, OnResponseAddTraverse
<1>5. r.id = id /\ r.type = "continue" /\ r.init = m.init
  BY <1>0 DEF ContinueRequest
<1>6. m.init = <<o, 1>>
  BY <1>1, <1>4 DEF Conversation, AllNamed, Named
<1>7. AllNamed'
  <2>1. ASSUME NEW n \in inbox \cup outbox, n # m
        PROVE  Named(n)'
    <3>1. Named(n) /\ Owner(n) \in Ops /\ Owner(n) # o
      BY <1>1, <2>1, OwnerIsOp DEF Conversation, AllNamed
    <3> QED
      BY <1>2, <3>1 DEF Named, Owner
  <2>2. ASSUME NEW w \in Busy
        PROVE  Named(wk[w].msg)'
    <3>1. Named(wk[w].msg) /\ Owner(wk[w].msg) \in Ops /\ Owner(wk[w].msg) # o
      BY <1>1, BusyIs DEF Conversation, AllNamed, Busy
    <3> QED
      BY <1>2, <1>3, <3>1 DEF Named, Owner
  <2>3. Named(r)'
    <3>1. r.id = <<o, sent'[o]>> /\ r.id[1] = o
      BY <1>0, <1>2, <1>5
    <3>2. cstate'[o] = "waiting"
      BY <1>1, <1>2
    <3>3. r.id[2] > 1
      BY <1>0, <1>1, <1>5
    <3> QED
      BY <1>5, <1>6, <3>1, <3>2, <3>3 DEF Named, Owner
  <2> QED
    BY <1>2, <1>3, <1>4, <2>1, <2>2, <2>3 DEF AllNamed
<1>8. OneCarrier'
  <2>1. Owner(r) = o
    BY <1>0, <1>5 DEF Owner
  <2>2. \A n \in (inbox \cup outbox)' : n = r \/ n \in (inbox \cup outbox) \ {m}
    BY <1>2, <1>4
  <2> QED
    BY <1>1, <1>3, <2>1, <2>2 DEF Conversation, OneCarrier, Owner
<1>9. Listening'
  BY <1>0, <1>1, <1>2 DEF Conversation, Listening, Put, Erase
<1>10. OwnWalks'
  BY <1>3 DEF Conversation, OwnWalks, Owner
<1>11. RowsClose'
  <2>1. ASSUME NEW x \in Ops, Closing(x)
        PROVE  Closing(x)'
    <3>1. x # o
      BY <1>1, <1>4, <2>1 DEF Closing
    <3> QED
      BY <1>0, <1>2, <1>3, <1>5, <2>1, <3>1 DEF Closing, Owner
  <2> QED
    BY <1>3, <2>1 DEF Conversation, RowsClose
<1>12. WalksHeld'
  <2>1. ~raced /\ epoch = 0 => Held(o)
    BY <1>1, <1>4 DEF Conversation, WalksHeld
  <2> QED
    BY <1>0, <1>2, <1>3, <1>5, <2>1 DEF Conversation, WalksHeld, Held, Owner
<1> QED
  BY <1>7, <1>8, <1>9, <1>10, <1>11, <1>12 DEF Conversation

LEMMA RestartGoesOn ==
  ASSUME TypeOK, Conversation, Restart
  PROVE  Conversation'
<1>1. /\ inbox' \subseteq inbox
      /\ outbox' \subseteq outbox
      /\ \A w \in Workers : wk'[w] = Idle
      /\ DOMAIN holder' = {}
      /\ rows' = rows
      /\ epoch' # 0
      /\ UNCHANGED clientVars
  BY EmptyMapIs DEF Restart, TypeOK, WorkerTypeOK
<1>2. Busy' = {}
  BY <1>1 DEF Busy, Idle
<1>3. AllNamed'
  BY <1>1, <1>2 DEF Conversation, AllNamed, Named, Owner, clientVars
<1>4. OneCarrier'
  BY <1>1, <1>2 DEF Conversation, OneCarrier, Owner
<1>5. Listening'
  BY <1>1 DEF Conversation, Listening, clientVars
<1>6. OwnWalks'
  BY <1>1 DEF OwnWalks, Idle
<1>7. RowsClose'
  BY <1>1, <1>2 DEF Conversation, RowsClose, Closing, Owner, clientVars
<1>8. WalksHeld'
  BY <1>1 DEF WalksHeld
<1> QED
  BY <1>3, <1>4, <1>5, <1>6, <1>7, <1>8 DEF Conversation

LEMMA InitConverses == Init => Conversation
<1> SUFFICES ASSUME Init
             PROVE  Conversation
  OBVIOUS
<1>1. /\ inbox = {} /\ outbox = {}
      /\ \A w \in Workers : wk[w] = Idle
      /\ DOMAIN holder = {} /\ DOMAIN listeners = {}
      /\ \A o \in Ops : rows[o] = <<>> /\ cstate[o] = "queued" /\ sent[o] = 0
      /\ crashed = FALSE
  BY EmptyMapIs DEF Init, BTreeInit, WorkerInit, ClientInit
<1>2. Busy = {}
  BY <1>1 DEF Busy, Idle
<1> QED
  BY <1>1, <1>2 DEF Conversation, AllNamed, OneCarrier, Listening, OwnWalks,
                    RowsClose, WalksHeld, Idle
-----------------------------------------------------------------------------
(***************************************************************************)
(* An insert is always in one place: one request, one handler or one       *)
(* response, which bears the last id its executor listens on (test.cpp     *)
(* 154-169; Worker.cpp sends one response per request).                    *)
(***************************************************************************)
THEOREM Conversing == Spec => []Conversation
<1>1. TypeOK /\ Conversation /\ [Next]_vars => Conversation'
  <2> SUFFICES ASSUME TypeOK, Conversation, [Next]_vars
               PROVE  Conversation'
    OBVIOUS
  <2>1. ASSUME NEW w \in Workers, WorkerStep(w)
        PROVE  Conversation'
    BY <2>1, RecvKeeps, SendKeeps, InternalKeeps
  <2>2. CASE ClientStep
    BY <2>2, RunKeeps, OkKeeps, TraverseKeeps DEF ClientStep, ClientNext
  <2>3. CASE Restart
    BY <2>3, RestartGoesOn
  <2>4. CASE UNCHANGED vars
    BY <2>4 DEF vars, treeVars, workerVars, clientVars, Conversation, AllNamed,
                Named, OneCarrier, Listening, OwnWalks, RowsClose, Closing,
                WalksHeld, Held, Owner, Busy
  <2> QED
    BY <2>1, <2>2, <2>3, <2>4 DEF Next, Terminated
<1> QED
  BY InitConverses, Typed, <1>1, PTL DEF Spec

(***************************************************************************)
(* However the workers interleave, race, crash and restart, no insert      *)
(* leaves two rows (every handler calls Database::add once: Worker.cpp     *)
(* 159, 176, 265).                                                         *)
(***************************************************************************)
THEOREM OneRow == Spec => []AtMostOneRow
<1>1. Conversation => AtMostOneRow
  BY DEF Conversation, RowsClose, AtMostOneRow
<1> QED
  BY <1>1, Conversing, PTL

(***************************************************************************)
(* Without a data race and a restart, a continue always finds its walk     *)
(* (Worker.cpp 225-237 uses what getTraverse returns without a test).      *)
(***************************************************************************)
THEOREM NoCrash == Spec => []CrashNeedsRace
<1>1. Conversation /\ TypeOK => CrashNeedsRace
  <2> SUFFICES ASSUME Conversation, TypeOK, crashed
               PROVE  raced \/ epoch > 0
    BY DEF CrashNeedsRace
  <2>1. raced \/ epoch # 0
    BY DEF Conversation, WalksHeld
  <2> QED
    BY <2>1 DEF TypeOK, WorkerTypeOK
<1> QED
  BY <1>1, Conversing, Typed, PTL
=============================================================================
