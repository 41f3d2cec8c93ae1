------------------------------- MODULE Worker -------------------------------
(***************************************************************************)
(* The daemon's worker threads (plugin/Worker.cpp).  Every worker runs its *)
(* own handler, cut here at each call that touches what the workers share: *)
(* the two maps and the nodes of BTree, the MySQL table, the sockets.      *)
(*                                                                         *)
(* No lock protects the maps.  Where a worker is about to use a map that   *)
(* another one is about to change, the C++ is a data race, and the model   *)
(* lets the lookup miss, the insertion get lost, or the process die, as    *)
(* well as the race go unnoticed.                                          *)
(***************************************************************************)
EXTENDS BTree

CONSTANTS Workers,      \* worker threads, WORKER_COUNT in the code
          AddResults    \* what Database::add may return: {TRUE} or BOOLEAN

ASSUME WorkerAssumption == AddResults \subseteq BOOLEAN /\ AddResults # {}

VARIABLES wk,       \* wk[w]: the handler of worker w, its locals
          rows,     \* rows[o]: the rows of o in MySQL, in insertion order
          epoch,    \* how often the daemon has been restarted
          crashed,  \* the process has died
          raced     \* history: a data race has happened

workerVars == <<wk, rows, epoch, crashed, raced>>

NoMsg == [type |-> "none"]

\* pc; the request; the tree or traverse pointer; the node whose ciphertext
\* the response will carry, NULL for ResponseAddOk.
Idle == [pc |-> "idle", msg |-> NoMsg, ptr |-> NULL, ask |-> NULL]

WorkerInit == /\ wk = [w \in Workers |-> Idle]
              /\ rows = [o \in Ops |-> <<>>]
              /\ epoch = 0
              /\ crashed = FALSE
              /\ raced = FALSE

At(w, pc) == ~crashed /\ wk[w].pc = pc

Goto(w, pc) == wk' = [wk EXCEPT ![w].pc = pc]

Row(path, depth) == [path |-> path, depth |-> depth, epoch |-> epoch]

\* Database::add.  Its callers ignore what it returns.
AddRow(o, path, depth) ==
  \E ok \in AddResults :
    rows' = IF ok THEN [rows EXCEPT ![o] = Append(@, Row(path, depth))] ELSE rows

-----------------------------------------------------------------------------
\* Data races on the two maps.
MapOf(w) ==
  CASE wk[w].pc \in {"getTree", "createTree"} -> "forest"
    [] wk[w].pc \in {"createTraverse", "getTraverse", "removeTraverse"} -> "holder"
    [] OTHER -> "none"

Writes(w) ==
  \/ wk[w].pc \in {"createTree", "createTraverse"}
  \/ wk[w].pc = "getTraverse" /\ wk[w].msg.init \notin DOMAIN holder
  \/ wk[w].pc = "removeTraverse" /\ wk[w].msg.id \in DOMAIN holder

MapRace(w) == \E x \in Workers \ {w} : /\ MapOf(x) = MapOf(w)
                                       /\ MapOf(w) # "none"
                                       /\ Writes(x) \/ Writes(w)

MapCrash(w) == /\ ~crashed
               /\ MapRace(w)
               /\ crashed' = TRUE
               /\ raced' = TRUE
               /\ UNCHANGED <<wk, rows, epoch, inbox, outbox, treeVars>>

\* What a lookup that finds p may return under a race.
Found(w, p) == IF MapRace(w) THEN {p, NULL} ELSE {p}

NoteMapRace(w) == raced' = (raced \/ MapRace(w))
-----------------------------------------------------------------------------
\* Mutant: the request stays to be received again.
Recv_Again(w) ==
  /\ At(w, "idle")
  /\ \E m \in inbox :
       wk' = [wk EXCEPT ![w] =
            [Idle EXCEPT !.msg = m,
                         !.pc = IF m.type = "continue" THEN "getTraverse"
                                ELSE IF m.op \in OpeOps THEN "getTree"
                                ELSE "plainRow"]]
  /\ UNCHANGED <<inbox, outbox, rows, epoch, crashed, raced, treeVars>>

\* zmq_msg_recv and the parser's call of the handler.
Recv(w) ==
  /\ At(w, "idle")
  /\ \E m \in inbox :
       /\ inbox' = inbox \ {m}
       /\ wk' = [wk EXCEPT ![w] =
            [Idle EXCEPT !.msg = m,
                         !.pc = IF m.type = "continue" THEN "getTraverse"
                                ELSE IF m.op \in OpeOps THEN "getTree"
                                ELSE "plainRow"]]
  /\ UNCHANGED <<outbox, rows, epoch, crashed, raced, treeVars>>

\* OnRequestAdd of a row without an _ope column.
InsertPlain(w) ==
  /\ At(w, "plainRow")
  /\ AddRow(wk[w].msg.op, <<>>, 0)
  /\ Goto(w, "send")
  /\ UNCHANGED <<inbox, outbox, epoch, crashed, raced, treeVars>>

\* Mutant: the tree is not tested for NULL.
GetTree_NoTest(w) ==
  /\ At(w, "getTree")
  /\ wk' = [wk EXCEPT ![w].ptr = forest[Key[wk[w].msg.op]],
                      ![w].pc = "createTraverse"]
  /\ NoteMapRace(w)
  /\ UNCHANGED <<inbox, outbox, rows, epoch, crashed, treeVars>>

\* BTreeForest::getTree.
GetTree(w) ==
  /\ At(w, "getTree")
  /\ \E p \in Found(w, forest[Key[wk[w].msg.op]]) :
       wk' = [wk EXCEPT ![w].ptr = p,
                        ![w].pc = IF p = NULL THEN "createTree"
                                  ELSE "createTraverse"]
  /\ NoteMapRace(w)
  /\ UNCHANGED <<inbox, outbox, rows, epoch, crashed, treeVars>>

\* createTree; a tree that another worker made since getTree is replaced.
MakeTree(w) ==
  LET o == wk[w].msg.op
  IN  /\ At(w, "createTree")
      /\ \/ CreateTree(o)
         \/ /\ MapRace(w)
            /\ nodes' = Put(nodes, o, NewNode(<<>>))
            /\ UNCHANGED <<forest, travs, holder>>
      /\ raced' = (raced \/ MapRace(w) \/ forest[Key[o]] # NULL)
      /\ Goto(w, "rootRow")
      /\ UNCHANGED <<inbox, outbox, rows, epoch, crashed>>

InsertRoot(w) ==
  /\ At(w, "rootRow")
  /\ AddRow(wk[w].msg.op, RootPath, 0)
  /\ Goto(w, "send")
  /\ UNCHANGED <<inbox, outbox, epoch, crashed, raced, treeVars>>

\* createTraverse; the response will show the root.
BeginTraverse(w) ==
  LET m == wk[w].msg
  IN  /\ At(w, "createTraverse")
      /\ \/ CreateTraverse(m.id, wk[w].ptr, m.op)
         \/ /\ MapRace(w)
            /\ travs' = Put(travs, m.op, NewTraverse(wk[w].ptr))
            /\ UNCHANGED <<nodes, forest, holder>>
      /\ NoteMapRace(w)
      /\ wk' = [wk EXCEPT ![w].ask = wk[w].ptr, ![w].pc = "send"]
      /\ UNCHANGED <<inbox, outbox, rows, epoch, crashed>>
\* OnRequestAddContinue, up to its test of compareResult: an equal value goes
\* straight to the response.
GetTraverse(w) ==
  LET m == wk[w].msg
  IN  /\ At(w, "getTraverse")
      /\ LookUp(m.init)
      /\ \E p \in Found(w, HeldAt(m.init)) :
           wk' = [wk EXCEPT ![w].ptr = p,
                            ![w].pc = IF m.cmp = 0 THEN "send" ELSE "goTo"]
      /\ NoteMapRace(w)
      /\ UNCHANGED <<inbox, outbox, rows, epoch, crashed>>

\* The missing traverse is logged, then used all the same.
NullTraverse(w) ==
  /\ At(w, "goTo")
  /\ wk[w].ptr = NULL
  /\ crashed' = TRUE
  /\ UNCHANGED <<wk, rows, epoch, raced, inbox, outbox, treeVars>>

\* Mutant: the two sides are exchanged.
Side_Swapped(m) == IF m.cmp = -1 THEN 1 ELSE 0

Side(m) == IF m.cmp = -1 THEN 0 ELSE 1

\* goToLeft or goToRight finds a child: one step deeper, ask about that node.
Descend(w) ==
  LET t == wk[w].ptr
      b == Side(wk[w].msg)
  IN  /\ At(w, "goTo")
      /\ t # NULL
      /\ Child(t, b) # NULL
      /\ StepDown(t, b)
      /\ wk' = [wk EXCEPT ![w].ask = Child(t, b), ![w].pc = "send"]
      /\ UNCHANGED <<inbox, outbox, rows, epoch, crashed, raced>>

\* Mutant: the handler goes round instead of on.
FindFree_Stays(w) ==
  /\ At(w, "goTo")
  /\ wk[w].ptr # NULL
  /\ Child(wk[w].ptr, Side(wk[w].msg)) = NULL
  /\ Goto(w, "goTo")
  /\ UNCHANGED <<inbox, outbox, rows, epoch, crashed, raced, treeVars>>

\* It finds none, and will hang a new node there.
FindFree(w) ==
  /\ At(w, "goTo")
  /\ wk[w].ptr # NULL
  /\ Child(wk[w].ptr, Side(wk[w].msg)) = NULL
  /\ Goto(w, "attach")
  /\ UNCHANGED <<inbox, outbox, rows, epoch, crashed, raced, treeVars>>

Attach(w) ==
  LET t == wk[w].ptr
      b == Side(wk[w].msg)
  IN  /\ At(w, "attach")
      /\ AttachLeaf(t, b)
      /\ raced' = (raced \/ Child(t, b) # NULL)
      /\ Goto(w, "leafRow")
      /\ UNCHANGED <<inbox, outbox, rows, epoch, crashed>>

InsertLeaf(w) ==
  LET t == travs[wk[w].ptr]
  IN  /\ At(w, "leafRow")
      /\ AddRow(wk[w].ptr, t.path, t.len)
      /\ Goto(w, "removeTraverse")
      /\ UNCHANGED <<inbox, outbox, epoch, crashed, raced, treeVars>>

\* removeTraverse is given the id of this request, not of the first one.
FinishTraverse(w) ==
  /\ At(w, "removeTraverse")
  /\ RemoveTraverse(wk[w].msg.id)
  /\ NoteMapRace(w)
  /\ Goto(w, "send")
  /\ UNCHANGED <<inbox, outbox, rows, epoch, crashed>>

\* A ciphertext points into opeValue, a local of its OnRequestAdd: its bytes
\* are sure while that handler runs and whatever is there afterwards.
Reads(o) == IF \E w \in Workers : /\ wk[w].msg.type = "add"
                                  /\ wk[w].msg.op = o
            THEN {Val[o]} ELSE ReadsOf[o]

\* Mutant: a continue names itself as the request to continue.
Send_OwnId(w) ==
  LET m == wk[w].msg
  IN  /\ At(w, "send")
      /\ \/ /\ wk[w].ask = NULL
            /\ outbox' = outbox \cup {OkResponse(m.id)}
         \/ /\ wk[w].ask # NULL
            /\ \E v \in Reads(wk[w].ask) :
                 outbox' = outbox \cup {TraverseResponse(m.id, m.id, v)}
      /\ wk' = [wk EXCEPT ![w] = Idle]
      /\ UNCHANGED <<inbox, rows, epoch, crashed, raced, treeVars>>

\* The response is serialized and sent, and the handler returns.
Send(w) ==
  LET m == wk[w].msg
      init == IF m.type = "add" THEN m.id ELSE m.init
  IN  /\ At(w, "send")
      /\ \/ /\ wk[w].ask = NULL
            /\ outbox' = outbox \cup {OkResponse(m.id)}
         \/ /\ wk[w].ask # NULL
            /\ \E v \in Reads(wk[w].ask) :
                 outbox' = outbox \cup {TraverseResponse(m.id, init, v)}
      /\ wk' = [wk EXCEPT ![w] = Idle]
      /\ UNCHANGED <<inbox, rows, epoch, crashed, raced, treeVars>>

WorkerNext(w) == \/ Recv(w)       \/ InsertPlain(w) \/ GetTree(w)
                 \/ MakeTree(w)   \/ InsertRoot(w)  \/ BeginTraverse(w)
                 \/ GetTraverse(w) \/ NullTraverse(w) \/ Descend(w)
                 \/ FindFree(w)   \/ Attach(w)      \/ InsertLeaf(w)
                 \/ FinishTraverse(w) \/ Send(w)    \/ MapCrash(w)

PCs == {"idle", "plainRow", "getTree", "createTree", "rootRow",
        "createTraverse", "getTraverse", "goTo", "attach", "leafRow",
        "removeTraverse", "send"}

Handler == [pc : PCs, msg : Requests \cup {NoMsg},
            ptr : OpeOps \cup {NULL}, ask : OpeOps \cup {NULL}]

(***************************************************************************)
(* What each point of a handler may rely on, besides its type: the kind of *)
(* its request, and a pointer to a live tree or traverse where it is used  *)
(* without a test.                                                         *)
(***************************************************************************)
HandlerOK(h) ==
  /\ h.pc = "idle" <=> h.msg = NoMsg
  /\ h.pc \in {"getTree", "createTree", "rootRow", "createTraverse"}
       => h.msg.type = "add" /\ h.msg.op \in OpeOps
  /\ h.pc = "plainRow" => h.msg.type = "add"
  /\ h.pc \in {"getTraverse", "goTo", "attach", "leafRow", "removeTraverse"}
       => h.msg.type = "continue"
  /\ h.pc = "createTraverse" => h.ptr \in DOMAIN nodes
  /\ h.pc = "goTo" => h.ptr \in DOMAIN travs \cup {NULL}
  /\ h.pc \in {"attach", "leafRow"} => h.ptr \in DOMAIN travs
  /\ h.ask \in DOMAIN nodes \cup {NULL}

WorkerTypeOK ==
  /\ wk \in [Workers -> Handler]
  /\ \A w \in Workers : HandlerOK(wk[w])
  /\ rows \in [Ops -> Seq([path : Word \cup {<<>>}, depth : Nat, epoch : Nat])]
  /\ epoch \in Nat
  /\ crashed \in BOOLEAN
  /\ raced \in BOOLEAN
=============================================================================
