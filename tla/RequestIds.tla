------------------------------ MODULE RequestIds ------------------------------
(***************************************************************************)
(* The ids of requests, and what they name.  A client of plugin/test.cpp   *)
(* draws them from rand(), which may return a number it has returned       *)
(* before, and in two clients the same ones.  Its own map names executors  *)
(* by them, and the one BTreeTraverseHolder of the daemon (lib/BTree.cpp)  *)
(* names the walks of all clients by the ids of their adds.                *)
(*                                                                         *)
(* Handlers are whole steps here and the trees are left out: the tables    *)
(* have one, the inserts have values that are not in it, and the daemon    *)
(* finds a child or a free place as it likes.  Worker and ZqlInsert have   *)
(* handlers and trees in full, for one client whose ids are new.  The      *)
(* messages are sets: Talking says that no two are alike until ids meet.   *)
(***************************************************************************)
EXTENDS Naturals, Functions

CONSTANTS Clients,
          Ops,        \* the inserts
          ClientOf,   \* ClientOf[o]: the client that asks for o
          Ids,        \* the numbers of rand()
          MaxDepth    \* bound: levels of the tree

ASSUME IdsAssumption ==
  /\ ClientOf \in [Ops -> Clients]
  /\ MaxDepth \in Nat

VARIABLES listeners,   \* listeners[c]: requestListeners of c
          first,       \* first[o]: the id of o's add, once it is sent
          done,        \* inserts reported a success
          inbox,       \* requests, each with the client it came from
          outbox,      \* responses on their way back to that client
          holder,      \* _traverses: id to the insert it walks for, and depth
          rows,        \* rows[o]: how often o's row was added
          erasedRead,  \* removeTraverse has read an erased iterator
          crashed,     \* a continue has found no walk
          met          \* history: an id was drawn that names something

client == <<listeners, first, done, met>>
daemon == <<holder, rows, erasedRead, crashed>>
vars == <<client, daemon, inbox, outbox>>

Init ==
  /\ listeners = [c \in Clients |-> <<>>]
  /\ first = <<>>
  /\ done = {}
  /\ inbox = {}
  /\ outbox = {}
  /\ holder = <<>>
  /\ rows = [o \in Ops |-> 0]
  /\ erasedRead = FALSE
  /\ crashed = FALSE
  /\ met = FALSE

-------------------------------------------------------------------------------
With(f, x, y) == [z \in DOMAIN f \cup {x} |-> IF z = x THEN y ELSE f[z]]

Without(f, x) == Restrict(f, DOMAIN f \ {x})

FirstIds(ops) == {first[o] : o \in ops}

Listened == UNION {DOMAIN listeners[c] : c \in Clients}

\* InsertExecutor::Run, when rand() returns id.  An entry of requestListeners
\* under that id is overwritten.
Run(o, id) ==
  LET c == ClientOf[o]
  IN  /\ o \notin DOMAIN first
      /\ first' = With(first, o, id)
      /\ listeners' = [listeners EXCEPT ![c] = With(@, id, o)]
      /\ inbox' = inbox \cup {[type |-> "add", client |-> c, id |-> id, op |-> o]}
      /\ met' = (met \/ id \in FirstIds(DOMAIN first \ done) \cup Listened)
      /\ UNCHANGED <<done, outbox, daemon>>

\* GlobalResponseListener finds an executor for the id.
Heard(m) ==
  /\ outbox' = outbox \ {m}
  /\ m.id \in DOMAIN listeners[m.client]

OnResponseAddOk(m) ==
  /\ m.type = "ok"
  /\ Heard(m)
  /\ done' = done \cup {listeners[m.client][m.id]}
  /\ listeners' = [listeners EXCEPT ![m.client] = Without(@, m.id)]
  /\ UNCHANGED <<first, met, inbox, daemon>>

\* The entry of this question goes before rand() returns the next id.
OnResponseAddTraverse(m, id) ==
  LET c == m.client
      others == Without(listeners[c], m.id)
  IN  /\ m.type = "traverse"
      /\ Heard(m)
      /\ listeners' = [listeners EXCEPT ![c] = With(others, id, listeners[c][m.id])]
      /\ inbox' = inbox \cup
           {[type |-> "continue", client |-> c, id |-> id, init |-> m.init]}
      /\ met' = (met \/ id \in FirstIds(DOMAIN first) \cup DOMAIN others)
      /\ UNCHANGED <<first, done, daemon>>

\* It finds none: the entry was overwritten, its executor is called no more.
Unheard(m) ==
  /\ m.id \notin DOMAIN listeners[m.client]
  /\ outbox' = outbox \ {m}
  /\ UNCHANGED <<client, inbox, daemon>>

-------------------------------------------------------------------------------
Handles(m, type) == ~crashed /\ m.type = type

\* The response goes to the client the request came from, under its id.
Answer(m, response) == /\ inbox' = inbox \ {m}
                       /\ outbox' = outbox \cup {response}

Ok(m) == [type |-> "ok", client |-> m.client, id |-> m.id]

Question(m, init) ==
  [type |-> "traverse", client |-> m.client, id |-> m.id, init |-> init]

\* OnRequestAdd where the table has a tree: createTraverse.
OnRequestAdd(m) ==
  /\ Handles(m, "add")
  /\ holder' = With(holder, m.id, [op |-> m.op, depth |-> 0])
  /\ Answer(m, Question(m, m.id))
  /\ UNCHANGED <<rows, erasedRead, crashed, client>>

\* Mutant: the row is added on the way too.
GoOn_AddsRow(m) ==
  /\ Handles(m, "continue")
  /\ m.init \in DOMAIN holder
  /\ holder[m.init].depth < MaxDepth
  /\ holder' = [holder EXCEPT ![m.init].depth = @ + 1]
  /\ rows' = [rows EXCEPT ![holder[m.init].op] = @ + 1]
  /\ Answer(m, Question(m, m.init))
  /\ UNCHANGED <<erasedRead, crashed, client>>

\* OnRequestAddContinue, where the walk finds a child ...
GoOn(m) ==
  /\ Handles(m, "continue")
  /\ m.init \in DOMAIN holder
  /\ holder[m.init].depth < MaxDepth
  /\ holder' = [holder EXCEPT ![m.init].depth = @ + 1]
  /\ Answer(m, Question(m, m.init))
  /\ UNCHANGED <<rows, erasedRead, crashed, client>>

\* Mutant: removeTraverse gets the id the walk is held under.
Arrive_InitId(m) ==
  /\ Handles(m, "continue")
  /\ m.init \in DOMAIN holder
  /\ rows' = [rows EXCEPT ![holder[m.init].op] = @ + 1]
  /\ holder' = Without(holder, m.init)
  /\ erasedRead' = (erasedRead \/ m.init \in DOMAIN holder)
  /\ Answer(m, Ok(m))
  /\ UNCHANGED <<crashed, client>>

\* ... and where it finds a free place: the row of the insert the walk was
\* begun for is added, and removeTraverse gets the id of this request.  It
\* erases its iterator before it reads it.
Arrive(m) ==
  /\ Handles(m, "continue")
  /\ m.init \in DOMAIN holder
  /\ rows' = [rows EXCEPT ![holder[m.init].op] = @ + 1]
  /\ holder' = Without(holder, m.id)
  /\ erasedRead' = (erasedRead \/ m.id \in DOMAIN holder)
  /\ Answer(m, Ok(m))
  /\ UNCHANGED <<crashed, client>>

\* The walk is gone: NULL is used as one.
NoWalk(m) ==
  /\ Handles(m, "continue")
  /\ m.init \notin DOMAIN holder
  /\ crashed' = TRUE
  /\ UNCHANGED <<inbox, outbox, holder, rows, erasedRead, client>>

Next == \/ \E o \in Ops, id \in Ids : Run(o, id)
        \/ \E m \in outbox, id \in Ids : OnResponseAddTraverse(m, id)
        \/ \E m \in outbox : OnResponseAddOk(m) \/ Unheard(m)
        \/ \E m \in inbox : OnRequestAdd(m) \/ GoOn(m) \/ Arrive(m) \/ NoWalk(m)

Spec == Init /\ [][Next]_vars

-------------------------------------------------------------------------------
\* While no id is drawn that names an insert under way, for an add a question
\* under way, for a question a walk in the holder or another question of that
\* client, every success has its row and no insert has two.  What the ids of
\* questions of different clients have in common does not matter, nor a new
\* id that an answered question or a finished insert's add has had
\* (Worker.cpp 184, 225, 271; test.cpp 146-154, 184-194).
OwnRows ==
  ~met => \A o \in Ops : rows[o] =< 1 /\ (o \in done => rows[o] = 1)

\* Until then no continue misses its walk, and the line that reads an erased
\* iterator (BTree.cpp:105-106) is not reached: it takes an id of a question
\* that is also the id of an add.
WalksStay == ~met => ~erasedRead /\ ~crashed

-------------------------------------------------------------------------------
\* What keeps them apart.  A client listens for its own inserts, under one id
\* for each.
Listening ==
  /\ DOMAIN listeners = Clients
  /\ \A c \in Clients : \A id \in DOMAIN listeners[c] :
       /\ listeners[c][id] \in DOMAIN first \ done
       /\ ClientOf[listeners[c][id]] = c
       /\ \A other \in DOMAIN listeners[c] :
            listeners[c][other] = listeners[c][id] => other = id

\* Inserts under way have adds of different ids, and the walks have those ids.
Walking ==
  /\ done \subseteq DOMAIN first /\ DOMAIN first \subseteq Ops
  /\ \A o, p \in DOMAIN first \ done : first[o] = first[p] => o = p
  /\ \A id \in DOMAIN holder : /\ id \in FirstIds(DOMAIN first)
                               /\ holder[id] \in [op : Ops, depth : Nat]

Holds(id, o) == id \in DOMAIN holder /\ holder[id].op = o

\* A message belongs to the insert its client listens for; a question and its
\* answer name that insert's walk, and no walk has the id of the answer.
Fits(m) ==
  /\ m.client \in Clients
  /\ m.id \in DOMAIN listeners[m.client]
  /\ LET o == listeners[m.client][m.id]
     IN  /\ m.type = "add" => m.op = o /\ m.id = first[o]
         /\ m.type \in {"continue", "traverse"} =>
              m.init = first[o] /\ Holds(m.init, o)
         /\ m.type = "continue" => m.id \notin FirstIds(DOMAIN first)
         /\ rows[o] = IF m.type = "ok" THEN 1 ELSE 0

Talking ==
  /\ \A m \in inbox : m.type \in {"add", "continue"}
  /\ \A m \in outbox : m.type \in {"traverse", "ok"}
  /\ \A m \in inbox \cup outbox : Fits(m)
  /\ \A m, n \in inbox \cup outbox :
       m.client = n.client /\ m.id = n.id => m = n

Rows ==
  /\ rows \in [Ops -> {0, 1}]
  /\ \A o \in Ops : o \notin DOMAIN first => rows[o] = 0
  /\ \A o \in done : rows[o] = 1

\* Until an id meets another's, every message under way leads to the walk and
\* to the row of the one insert it was sent for, and to no other's.
Apart == ~met => /\ Listening /\ Walking /\ Talking /\ Rows
                 /\ ~erasedRead /\ ~crashed
===============================================================================
