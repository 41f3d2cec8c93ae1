------------------------------ MODULE ZqlInsert ------------------------------
(***************************************************************************)
(* The insert path of ZQL as a whole: the client of plugin/test.cpp, the   *)
(* worker threads of plugin/Worker.cpp with the trees of lib/BTree.cpp     *)
(* they share, MySQL's table, and restarts of the daemon.                  *)
(***************************************************************************)
EXTENDS Worker, InsertClient, FiniteSets

CONSTANT MaxRestarts   \* bound: restarts of the daemon in one behaviour

ASSUME MaxRestartsAssumption == MaxRestarts \in Nat

vars == <<inbox, outbox, treeVars, workerVars, clientVars>>

Init == /\ inbox = {}
        /\ outbox = {}
        /\ BTreeInit
        /\ WorkerInit
        /\ ClientInit

WorkerStep(w) == WorkerNext(w) /\ UNCHANGED clientVars

ClientStep == ClientNext /\ UNCHANGED <<treeVars, workerVars>>

(***************************************************************************)
(* mysqld dies, of a crash or on request, and is started again             *)
(* (mysqld_safe in test/wolong/start.sh).  The trees and the handlers are  *)
(* gone, the rows stay, and of the messages on their way any may be lost.  *)
(***************************************************************************)
Restart ==
  /\ epoch < MaxRestarts
  /\ epoch' = epoch + 1
  /\ nodes' = EmptyMap
  /\ forest' = [k \in Keys |-> NULL]
  /\ travs' = EmptyMap
  /\ holder' = EmptyMap
  /\ wk' = [w \in Workers |-> Idle]
  /\ crashed' = FALSE
  /\ inbox' \in SUBSET inbox
  /\ outbox' \in SUBSET outbox
  /\ UNCHANGED <<rows, raced, clientVars>>

\* Every insert is answered, or no answer will come any more.
Terminated == /\ crashed \/ epoch > 0 \/ \A o \in Ops : cstate[o] = "done"
              /\ UNCHANGED vars

Next == \/ \E w \in Workers : WorkerStep(w)
        \/ ClientStep
        \/ Restart
        \/ Terminated

Spec == Init /\ [][Next]_vars

\* Threads are scheduled, and the sockets deliver what they hold.
FairSpec == /\ Spec
            /\ \A w \in Workers : WF_vars(WorkerStep(w))
            /\ WF_vars(ClientStep)
-----------------------------------------------------------------------------
(***************************************************************************)
(* The index the inserts build (OpeIndex).  An operation is placed once a  *)
(* node holds its ciphertext; before, it is where its traverse stands.     *)
(* The trees begin anew with every life of the daemon, and so does the     *)
(* index: only a row stored in this life is labelled in it.                *)
(***************************************************************************)
IndexStatus(o) == IF o \in DOMAIN nodes THEN "placed"
                  ELSE IF o \notin DOMAIN travs THEN "new"
                  ELSE IF answer[o] = 0 THEN "dropped"
                  ELSE "search"

IndexPlace(o) == IF o \in DOMAIN nodes THEN nodes[o].pos
                 ELSE IF o \in DOMAIN travs THEN nodes[travs[o].cur].pos
                 ELSE <<>>

IndexLabel(o) == IF rows[o] # <<>> /\ rows[o][1].epoch = epoch
                 THEN rows[o][1].path ELSE <<>>

Index == INSTANCE OpeIndex
           WITH Ops <- OpeOps,
                Key <- [o \in OpeOps |-> Key[o]],
                Val <- [o \in OpeOps |-> Val[o]],
                ReadsOf <- [o \in OpeOps |-> ReadsOf[o]],
                status <- [o \in OpeOps |-> IndexStatus(o)],
                pos <- [o \in OpeOps |-> IndexPlace(o)],
                label <- [o \in OpeOps |-> IndexLabel(o)]

(***************************************************************************)
(* Every life of the daemon implements the index until the first data race *)
(* of two workers: each step of a handler or of the client is a step of    *)
(* OpeIndex or leaves it unchanged (Worker.cpp 128-287, test.cpp 135-202), *)
(* and a restart begins it anew (BTree.cpp 6).                             *)
(***************************************************************************)
ImplementsIndexUnlessRaced ==
  Index!Init /\ [][\/ raced'
                   \/ Index!Next \/ UNCHANGED Index!vars
                   \/ epoch' # epoch /\ Index!Init']_vars

-----------------------------------------------------------------------------
(***************************************************************************)
(* Types, and the safety of every pointer the handlers use.                *)
(***************************************************************************)
TypeOK == /\ inbox \subseteq Requests
          /\ outbox \subseteq Responses
          /\ BTreeTypeOK
          /\ WorkerTypeOK
          /\ ClientTypeOK

Carriers(id) == Cardinality({m \in inbox \cup outbox : m.id = id})
                  + Cardinality({w \in Workers : /\ wk[w].msg # NoMsg
                                                 /\ wk[w].msg.id = id})

(***************************************************************************)
(* An insert that waits has one listener, and exactly one request, handler *)
(* or response carries that listener's id: no answer is lost, none comes   *)
(* twice, none finds nobody listening (test.cpp 27-81, 154, 169, 177, 194, *)
(* with one send per handler in Worker.cpp).  A restart may lose it.       *)
(***************************************************************************)
OneAnswerOnTheWay ==
  /\ \A o \in Ops : Cardinality({id \in DOMAIN listeners : listeners[id] = o})
                      = IF cstate[o] = "waiting" THEN 1 ELSE 0
  /\ \A id \in UNION {{<<o, n>> : n \in 1..sent[o]} : o \in Ops} :
       IF id \in DOMAIN listeners
       THEN Carriers(id) = 1 \/ (epoch > 0 /\ Carriers(id) = 0)
       ELSE Carriers(id) = 0

(***************************************************************************)
(* No insert leaves two rows behind, races, crashes and restarts included  *)
(* (every handler calls Database::add once: Worker.cpp 159, 176, 265).     *)
(***************************************************************************)
AtMostOneRow == \A o \in Ops : Len(rows[o]) <= 1

(***************************************************************************)
(* While no data race has happened and the daemon has not been restarted,  *)
(* no request makes it die: a continue always finds its traverse           *)
(* (Worker.cpp 225-237 uses it without a test).                            *)
(***************************************************************************)
CrashNeedsRace == crashed => raced \/ epoch > 0

(***************************************************************************)
(* The value of an acknowledged insert is in the index: a node of its      *)
(* table's tree holds it, its own or that of an equal value (Worker.cpp    *)
(* 238-242), also when MySQL refused the row, whose failure nobody looks   *)
(* at (Worker.cpp 176, 265).  This is for intact buffers and no race.      *)
(***************************************************************************)
DoneIsIndexed ==
  (~raced /\ epoch = 0) =>
    \A o \in OpeOps : cstate[o] = "done" /\ Index!Intact(Key[o]) =>
      \E n \in DOMAIN nodes : Key[n] = Key[o] /\ Val[n] = Val[o]

(***************************************************************************)
(* Rows stored by one life of the daemon in one table have distinct paths  *)
(* that order them as their values (largest first), up to the depth the    *)
(* word can hold; for intact buffers and without a race.  Restarts start a *)
(* new tree (BTree.cpp 6) while the old rows keep their paths.             *)
(***************************************************************************)
OrderedPerLife ==
  ~raced => \A o1, o2 \in OpeOps :
    \A r1 \in {rows[o1][i] : i \in DOMAIN rows[o1]},
       r2 \in {rows[o2][i] : i \in DOMAIN rows[o2]} :
      (/\ o1 # o2 /\ Key[o1] = Key[o2] /\ Index!Intact(Key[o1])
       /\ r1.epoch = r2.epoch
       /\ r1.depth < PathBits /\ r2.depth < PathBits)
        => /\ Val[o1] < Val[o2] => WordLess(r2.path, r1.path)
           /\ Val[o1] # Val[o2]

(***************************************************************************)
(* Two rows stored by one life of the daemon in one table never share a    *)
(* path, whatever the freed buffers behind the nodes read as (Worker.cpp   *)
(* 167): a wrong answer misleads a walk, but the walk ends in a free place *)
(* (BTree.cpp 48-83).  Up to the depth the word can hold, without a race.  *)
(***************************************************************************)
DistinctPerLife ==
  ~raced => \A o1, o2 \in OpeOps :
    \A r1 \in {rows[o1][i] : i \in DOMAIN rows[o1]},
       r2 \in {rows[o2][i] : i \in DOMAIN rows[o2]} :
      (/\ o1 # o2 /\ Key[o1] = Key[o2] /\ r1.epoch = r2.epoch
       /\ r1.depth < PathBits /\ r2.depth < PathBits)
        => r1.path # r2.path

(***************************************************************************)
(* The inductive invariant behind AtMostOneRow and CrashNeedsRace: each    *)
(* insert is one conversation, which is in one place at a time.            *)
(***************************************************************************)
\* The insert a message belongs to.  Only invariants look into an id.
Owner(m) == m.id[1]

Busy == {w \in Workers : wk[w].msg # NoMsg}

\* A message bears its insert's last id; continuations name the first.
Named(m) == /\ m.id = <<Owner(m), sent[Owner(m)]>>
            /\ cstate[Owner(m)] = "waiting"
            /\ m.type = "add" => m.op = Owner(m) /\ m.id[2] = 1
            /\ m.type = "continue" => m.id[2] > 1
            /\ m.type \in {"continue", "traverse"} => m.init = <<Owner(m), 1>>

AllNamed == /\ \A m \in inbox \cup outbox : Named(m)
            /\ \A w \in Busy : Named(wk[w].msg)

OneCarrier ==
  /\ \A m1, m2 \in inbox \cup outbox : Owner(m1) = Owner(m2) => m1 = m2
  /\ \A w1, w2 \in Busy : Owner(wk[w1].msg) = Owner(wk[w2].msg) => w1 = w2
  /\ \A w \in Busy : \A m \in inbox \cup outbox : Owner(wk[w].msg) # Owner(m)

Listening ==
  /\ \A id \in DOMAIN listeners : listeners[id] = id[1]
  /\ \A o \in Ops : /\ cstate[o] = "waiting" => <<o, sent[o]>> \in DOMAIN listeners
                    /\ cstate[o] = "queued" <=> sent[o] = 0

\* Walks are held under first ids, and a handler has its own insert's walk.
OwnWalks ==
  /\ \A id \in DOMAIN holder : id[2] = 1 /\ holder[id] \in {id[1], NULL}
  /\ \A w \in Workers :
       /\ wk[w].pc \in {"goTo", "attach", "leafRow"} =>
            wk[w].ptr \in {Owner(wk[w].msg), NULL}
       /\ wk[w].pc # "send" => wk[w].ask = NULL

\* Nothing that could store a row of o is left.
Closing(o) ==
  /\ cstate[o] # "queued"
  /\ \A m \in inbox : Owner(m) # o
  /\ \A m \in outbox : Owner(m) = o => m.type = "ok"
  /\ \A w \in Busy : Owner(wk[w].msg) = o =>
       wk[w].pc \in {"removeTraverse", "send"} /\ wk[w].ask = NULL

RowsClose == \A o \in Ops : /\ Len(rows[o]) <= 1
                            /\ rows[o] # <<>> => Closing(o)

Held(o) == <<o, 1>> \in DOMAIN holder /\ holder[<<o, 1>>] = o

\* Without races and restarts, a conversation under way has its walk.
WalksHeld ==
  (~raced /\ epoch = 0) =>
    /\ ~crashed
    /\ \A m \in inbox \cup outbox :
         m.type \in {"continue", "traverse"} => Held(Owner(m))
    /\ \A w \in Busy :
         /\ wk[w].msg.type = "continue" \/ wk[w].ask # NULL =>
              Held(Owner(wk[w].msg))
         /\ wk[w].pc = "goTo" => wk[w].ptr # NULL

Conversation == /\ AllNamed
                /\ OneCarrier
                /\ Listening
                /\ OwnWalks
                /\ RowsClose
                /\ WalksHeld

(***************************************************************************)
(* The inductive invariant behind the index: the messages and the handler  *)
(* of an insert agree with its place in the trees, races and restarts      *)
(* included; and until the first race the nodes of a table are one tree.   *)
(***************************************************************************)
Begun(o) == o \in DOMAIN nodes \cup DOMAIN travs

\* What o's client may answer about the node its walk stands on.
Answerable(o, c) == \E u \in ReadsOf[travs[o].cur] : Compare(u, Val[o]) = c

MessageFits(m) ==
  LET o == Owner(m)
  IN  /\ m.type = "add" => ~Begun(o) /\ answer[o] = NoAnswer
      /\ m.type \in {"continue", "traverse"} => o \notin DOMAIN nodes
      /\ m.type = "continue" =>
           /\ m.cmp = answer[o]
           /\ o \in DOMAIN travs => Answerable(o, m.cmp)
      /\ m.type = "traverse" =>
           /\ answer[o] # 0
           /\ o \in DOMAIN travs => m.ct \in ReadsOf[travs[o].cur]

HandlerFits(h) ==
  LET o == Owner(h.msg)
  IN  /\ h.msg.type = "add" => answer[o] = NoAnswer
      /\ h.msg.type = "continue" => h.msg.cmp = answer[o]
      /\ h.pc = "plainRow" => o \notin OpeOps
      /\ h.pc \in {"getTree", "createTree", "createTraverse"} => ~Begun(o)
      /\ h.pc = "createTraverse" => Key[h.ptr] = Key[o] /\ nodes[h.ptr].pos = <<>>
      /\ h.pc = "rootRow" => o \in DOMAIN nodes /\ nodes[o].pos = <<>>
      /\ h.pc \in {"getTraverse", "goTo", "attach"} =>
           /\ o \notin DOMAIN nodes
           /\ o \in DOMAIN travs => Answerable(o, h.msg.cmp)
      /\ h.pc \in {"goTo", "attach"} => h.msg.cmp # 0
      /\ h.pc \in {"leafRow", "removeTraverse"} => o \in DOMAIN nodes
      /\ h.ask # NULL => /\ o \in DOMAIN travs \ DOMAIN nodes
                         /\ h.ask = travs[o].cur
                         /\ answer[o] # 0

\* Node c hangs where the turn b leads from node n of its table.
Below(n, b, c) == Key[c] = Key[n] /\ nodes[c].pos = Append(nodes[n].pos, b)

\* Pointers stay in one table and lead one turn down, or to a root.
KidsBelow == \A n \in DOMAIN nodes : \A b \in Bit :
               nodes[n].kid[b] # NULL => Below(n, b, nodes[n].kid[b])

RootsOnTop == \A k \in Keys : forest[k] # NULL =>
                Key[forest[k]] = k /\ nodes[forest[k]].pos = <<>>

WalksInTable == \A t \in DOMAIN travs :
                  /\ Key[travs[t].cur] = Key[t]
                  /\ t \in DOMAIN nodes => travs[t].cur = t

TreesShaped == KidsBelow /\ RootsOnTop /\ WalksInTable /\ WalksSpellPlaces

\* No two nodes of a table are in one place, and none is out of reach.
OnePlaceEach ==
  \A n, c \in DOMAIN nodes :
    /\ Key[n] = Key[c] /\ nodes[n].pos = nodes[c].pos => n = c
    /\ \A b \in Bit : Below(n, b, c) => nodes[n].kid[b] = c

AllReached ==
  \A c \in DOMAIN nodes :
    /\ forest[Key[c]] # NULL
    /\ nodes[c].pos # <<>> => \E n \in DOMAIN nodes : \E b \in Bit : Below(n, b, c)

OneTree == ~raced => OnePlaceEach /\ AllReached

\* A row stored in this life is that of a node, at its depth.
RowsFollow ==
  \A o \in OpeOps : rows[o] # <<>> =>
    /\ rows[o][1].epoch <= epoch
    /\ rows[o][1].path \in Word
    /\ rows[o][1].epoch = epoch => /\ o \in DOMAIN nodes
                                   /\ rows[o][1].depth = Len(nodes[o].pos)

Growth == /\ \A o \in Ops : cstate[o] = "queued" =>
               ~Begun(o) /\ answer[o] = NoAnswer
          /\ \A m \in inbox \cup outbox : MessageFits(m)
          /\ \A w \in Workers : HandlerFits(wk[w])
          /\ TreesShaped
          /\ RowsFollow
          /\ OneTree

\* An equal value of o's table is in a node.
ValueIn(o) == \E n \in DOMAIN nodes : Key[n] = Key[o] /\ Val[n] = Val[o]

\* Behind DoneIsIndexed: whoever is, or will be, answered "ok" has a value in.
ValuesIn ==
  (~raced /\ epoch = 0) =>
    \A o \in OpeOps : Index!Intact(Key[o]) =>
      /\ cstate[o] = "done" \/ answer[o] = 0 => ValueIn(o)
      /\ \A m \in outbox : Owner(m) = o /\ m.type = "ok" => ValueIn(o)
      /\ \A w \in Busy :
           Owner(wk[w].msg) = o /\ wk[w].pc = "send" /\ wk[w].ask = NULL
             => ValueIn(o)

\* Behind OneAnswerOnTheWay: the listeners are those of the waiting inserts'
\* last requests, and each of these is still somewhere in the first life.
Awaited ==
  /\ \A id \in DOMAIN listeners :
       id[2] = sent[id[1]] /\ cstate[id[1]] = "waiting"
  /\ epoch = 0 => \A o \in Ops : cstate[o] = "waiting" =>
       \E m \in inbox \cup outbox \cup {wk[w].msg : w \in Busy} : Owner(m) = o

(***************************************************************************)
(* Under fair scheduling every insert that was sent is answered, unless    *)
(* the daemon dies (test.cpp 167, 175; nothing retries).                   *)
(***************************************************************************)
EveryInsertAnswered ==
  \A o \in Ops : cstate[o] = "waiting" ~> (cstate[o] = "done" \/ crashed)
-----------------------------------------------------------------------------
(***************************************************************************)
(* What the code's own words promise and the code does not keep.           *)
(***************************************************************************)
\* Every insert that is reported a success is in the table: the client prints
\* "insert success" (test.cpp 362), and of an equal element Worker.cpp 239
\* says "equals, add to database, increase counter".
DoneHasRow == \A o \in Ops : cstate[o] = "done" => rows[o] # <<>>

\* "traverse not found... need send error to client" (Worker.cpp 227): a
\* request for an unknown traverse is answered, it does not end the process.
LostTraverseSurvived == crashed => raced

\* "removing traverse..." (Worker.cpp 269): once its insert is reported done,
\* the holder does not keep a traverse.
FinishedTraverseRemoved ==
  \A o \in Ops : cstate[o] = "done" => \A id \in DOMAIN holder : holder[id] # o

\* "tree not found, creating new..." (Worker.cpp 169): a tree is made only for
\* a table that has none, so the tree of a table is never replaced.
TreeKept == [][\A k \in Keys : forest[k] # NULL => forest'[k] = forest[k]]_vars
=============================================================================
