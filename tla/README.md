# A verification development for ZQL

ZQL is a MariaDB plugin that gives a client direct access to tables over
ZeroMQ, and keeps *encrypted* columns sorted. A column whose name ends in
`_ope` holds values the server cannot read. To place a new value, the server
walks a binary search tree of ciphertexts and, at every node, asks the client
to compare that node's ciphertext with the new one. The path that results is
stored in the row, so that comparing paths compares the hidden values.

This directory holds TLA+ models of that program, the TLC configurations that
check them, and proofs checked by TLAPS. Paths below are relative to the
repository's root.

## 1. The system

| component | where | state | operations |
|---|---|---|---|
| ciphertext trees | `src/lib/BTree.{h,cpp}` | `BTreeForest::_forest` (one tree per `database.table`), the nodes, `BTreeTraverseHolder::_traverses` (request id to walk), the walks: current node, path word, length | `getTree`, `createTree`, `createTraverse`, `getTraverse`, `removeTraverse`, `goToLeft`, `goToRight` |
| workers | `src/plugin/Worker.{h,cpp}` | 30 threads, each with a REP socket and the locals of its handler | `OnRequestAdd`, `OnRequestAddContinue`, `OnRequestGet`, the receive loop |
| database access | `src/plugin/Database.{h,cpp}` | per thread: `THD`, open tables, table lock, metadata locks; MySQL's table | `add`, `get`, `execute` (unused), `initThread`, `deinitThread` |
| daemon | `src/plugin/ZqlDaemon.{h,cpp}`, `src/plugin/zql.cpp` | context, ROUTER and DEALER sockets, proxy thread, workers | plugin init and deinit, `run` |
| insert client | `src/plugin/test.cpp` | `requestListeners`, the executors, the queue between `client_thread` and `main` | `InsertExecutor::Run`, `OnResponseAddOk`, `OnResponseAddTraverse`, `add_executor`, the main loop |
| messages | `src/lib/objects/{Request,Response}.{h,cpp}`, `Tags.h` | none | `Serialize` |
| object parser | `src/lib/objects/ObjectParser.{h,cpp}` | a state per item of the message and the request under construction | one callback per CBOR item |
| CBOR | `src/lib/Cbor.{h,cpp}` | the reader's state and offset; the writer's buffer and offset | `Run`, `writeInt`, `writeString`, ... |
| others | `src/libzql`, `src/jzql`, `src/plugin/RequestObject.*` | none | stubs and a one-shot client |

How they meet. A client sends a request to the ROUTER; the proxy hands it to
one of the workers, whose handler runs to its single `zmq_send`. All workers
share the two static maps of `BTree.cpp` and everything they point to, with no
lock anywhere. An insert into an encrypted column is a conversation: `Add`,
then for every level of the tree a response `AddTraverse` with a ciphertext
and a request `AddContinue` with the client's answer, and at the end `AddOk`.
Each question has a new request id, the walk stays in the holder under the
first. The parts of one conversation may be handled by different workers, and
conversations of different inserts interleave.

What is hard here:

* thirty threads change two `std::map`s and the tree without a lock, and
  handlers test a pointer (no tree yet, no child yet) long before they act;
* a node keeps a pointer into a string that dies with the handler that made it;
* conversations span processes, and a restart loses the trees but neither the
  rows nor the clients' conversations;
* nothing times out, nothing is retried, and the client is told "ok" whatever
  happened to the row;
* the path word has 64 bits and a tree may be deeper.

What makes each component correct:

* trees: every pointer is live or tested; a walk's word spells its way; a node
  once reachable stays reachable;
* workers: one response per request; an acknowledged insert has its row;
  at most one row per insert; no request ends the process;
* client: exactly one listener per waiting insert, and exactly one message or
  handler that will call it;
* the whole: the paths stored for a table order the rows as the hidden values,
  and no value is in a tree twice;
* database: an open table is under a metadata lock, what a call locks it
  unlocks, and a row is there for others when its add returns;
* daemon: a request goes to one worker and its answer to its client; the queue
  between the client's threads loses, doubles and overruns nothing;
* wire: what a writer writes the reader reads back, in all widths, and every
  message that fits makes exactly one callback.

`PROJECT.json` lists the hazards line by line, with the property that would
show each of them going wrong.

## 2. Modules

```
The insert path
  PathWord            the 64-bit path words                        (constant level)
    OpeIndex          what the inserts promise: a serial index     (abstract)
      OpeIndexProofs  its theorems, and what words say of places
    BTree             the forest, the walks, the holder            (+ Inserts: operations, messages)
      Worker          the handlers, thread by thread
        ZqlInsert     Worker + InsertClient + restarts; implements OpeIndex
          ZqlInsertProofs   its types and conversations: one place, one row, no crash
            ZqlIndexProofs  its trees and answers, and that it implements OpeIndex
The wire
  Cbor                bytes, widths and casts                      (constant level)
    CborWriter        the writer and its buffer                    (constant level)
    CborReader        the reader, turn by turn
      CborStream      a writer, a buffer, a reader and what it tells
    ObjectParser      the reader's listener
      Wire            a message: Serialize, CborStream, ObjectParser
        WireProofs      its theorems, from bytes to messages
The process
  Service             what the daemon is to its clients            (abstract)
    ZqlDaemon         sockets, proxy, workers' loops, unload; implements Service
      ZqlDaemonProofs   its theorems, the refinement among them
  Database            get and add, table and metadata locks
    DatabaseProofs    its theorems
  ExecutorQueue       the client's queue between its two threads
    ExecutorQueueProofs  its theorems
  RequestIds          the ids of several clients and what they name
    RequestIdsProofs  its theorems
MCOpeIndex, MCZqlInsert, MCWire, MCZqlDaemon, MCDatabase,
MCExecutorQueue, MCRequestIds   the instances TLC checks
```

### PathWord
A word is a function from bit positions (1 is the most significant) to bits.
`PushBit` is one turn of a walk (`(w << 1) | b`), `FinishPath` the final shift
that moves the turns to the top behind which a marker bit follows, `RootPath`
the literal the root's row gets. `TurnBits(p)` and `Label(p)` say what the
words mean for a place `p`, the sequence of turns that leads there.

### OpeIndex, the abstract specification
Each insert is `new`, in `search`, `placed` or `dropped` (an equal value was
there), has a place and, once its row is stored, a label. A question to the
client together with the turn it answers is one step; `ReadsOf` says what the
buffer of a node may read as, so that `Intact(k)` (every buffer of table `k` still
holds its value) is an assumption of the order properties and not of the model.

| action | code |
|---|---|
| `PlaceRoot` | `OnRequestAdd`, no tree |
| `StartSearch` | `OnRequestAdd`, tree found |
| `Descend`, `Attach` | `goToLeft`, `goToRight`: a child, or none |
| `Drop` | `OnRequestAddContinue`, compare result 0 |
| `Store` | the row's insertion under its path |

### Inserts, BTree
`Inserts` declares the operations and the messages. An operation makes at most
one node and one walk in a life of the daemon, so a pointer is the operation
that made the object, or `NULL`. `BTree` has one operator per method that
changes something; `LookUp` is `getTraverse`, whose `operator[]` inserts a
`NULL` for an id it does not know.

### Worker
`wk[w]` is the handler of worker `w`: where it is, its request, its pointer
and the node its response will show. The handlers are cut at every access to
something shared, each piece an action: `Recv`, `InsertPlain`, `GetTree`,
`MakeTree`, `InsertRoot`, `BeginTraverse`, `GetTraverse`, `NullTraverse`,
`Descend`, `FindFree`, `Attach`, `InsertLeaf`, `FinishTraverse`, `Send`.

The maps' data races are undefined behaviour. `MapRace(w)` holds when another
worker is at an access to the same map and one of the two changes it; then the
lookup may also miss, the insertion may also be lost, and `MapCrash` may end
the process. `raced` remembers that this, or an overwritten tree or child,
happened.

### InsertClient, ZqlInsert
The client's main loop is one thread, so each send and each response is a
step. `ZqlInsert` composes the client, the workers and `Restart`: the process
dies at any point (of a crash or on request), trees, walks and handlers are
gone, rows stay, and any of the messages on their way may be lost. As an index
(`IndexStatus`, `IndexPlace`, `IndexLabel`) the state is that of the present
life: a restart begins `OpeIndex` anew (`ImplementsIndexUnlessRaced`), and rows
of earlier lives are compared with each other only (`OrderedPerLife`).
`Terminated` lets the system stop when all inserts are done, or when what is
missing was lost.

### Cbor, CborWriter, CborReader, CborStream
An item is one call of the writer. `TypeAndValue` and `TypeAndLong` give the
bytes of its head, the second with the code's loss of a byte (`Cbor.cpp:508`);
`PutHead` and `PutBytes` drop what the buffer does not hold, a byte or a whole
chunk; `Buffers` is the buffer after each call and `Ends` where each item ends in
one that is large enough. `Base` and `Minors` scale bytes and minor values down together, so that
a value of four bytes, and one that needs eight, fits TLC's integers; what the
code says of 24..27, 256 and 2^32 it says of `Direct + 0..3`, `Base` and
`UIntMax`.

The reader's eleven states are a phase and a major type. One action is one turn
of `Run`'s loop, with the listener call it makes: `ReadType`, `ReadValue`,
`ReadLong`, `ReadData`. `ReadLong` has what each major type does with eight
bytes: skip them, forget them unread, take them for a chunk of 123, or stay.
Numbers are handed over as `int`s that wrap; a chunk whose size turns negative
throws at `new` (`Throws`), and no turn follows.
`CborStream` writes a sequence of items into a buffer and runs a reader over
it; `heard` is what its listener was told.

### ObjectParser, Wire
`Moves` is the switch of all callbacks as a table: state, callback, argument,
next state. The callbacks add what they put into the object under construction
and when they call the handler; whatever the table does not have is an error
and leaves the state. `Wire` serializes a message (a record) as the `Serialize`
methods do, or takes any other sequence of items, and runs reader and parser
over what the buffer holds. `handled` is the sequence of handler calls.
`WriterCalls` and `IsMessage` say what the writer's methods and the classes of
messages accept (`InputsAssumption`, `MessagesAssumption`).

### Database
`pc[t]` is where thread `t` is in `get` or `add`: `Begin`, `Open` or
`OpenFails`, `LockTables`, `Read` or `WriteRow`, `UnlockTables`, and for `get`
`CloseTables` and `ReleaseLocks`, which `add` does not have. Of MySQL there is
what the calls rely on: metadata locks with a schema change that comes before
sharers asking after it, table locks, and rows that are there for others once
the statement is committed. A metadata lock is a table and the method it is for:
`get` asks for `MDL_SHARED_READ`, `add` for `MDL_SHARED_WRITE`, which does for
reading too (`Covered`).

`open_table` can fail before it has the metadata lock or with it (the table is
missing or cannot be read), and `OpenFails` has both. We take it that MySQL keeps
the lock of a failed open until `release_transactional_locks`, since the request
is `MDL_TRANSACTION` and nothing rolls a statement back; only a later `get` of the
thread that opens its table comes to that call. `stranded[t]` remembers these
tables as `retained[t]` does the adds' tables; `LeftBehind(t)` is both. A thread
whose `add` waits behind a schema change that waits for a lock to read of that
same thread is `Deadlocked`, and the server's deadlock detector fails its call.

### Service, ZqlDaemon
`Service` is the promise: a request is asked once, answered to its asker once
or never, and never if no handler understands it. `ZqlDaemon` has the
sockets' queues, the proxy with a message in each hand, the DEALER's round over
the connected workers, and the workers' loop: `Connect`, `Receive`, `Reply`,
`Stick`. A request without a handler leaves the REP socket in the wrong state,
and the worker `stuck` with whatever is dealt to it from then on. `Unload` is
`daemon_zql_deinit`, which cancels the proxy thread and nothing else.

### ExecutorQueue
`TestRoom` reads the offset without the mutex, `AddExecutor`, `CopyToLocal`
and `RunExecutor` are the rest of the two loops. `nanosleep(&t2)` with its
uninitialized `t2` is `Wake`, which may happen at once or never.

### RequestIds
Every draw of a client is any of the numbers `Ids`: `rand()` has 31 bits and
returns numbers again, within a client (`client_thread` asks for 100000 inserts)
and in several. The client's `requestListeners` names executors by them, and the
daemon has one holder for the walks of all clients, named by ids alone. Handlers
are whole steps here, and the trees only say whether a walk goes on or arrives.
`Unheard` is a response for which `GlobalResponseListener` finds no executor.

`met` remembers that an id was drawn that names something it may not name:

* for an add, the add of an insert under way, or a question of any client that is
  under way;
* for a question, an add (of an insert that is done as well: its walk is still in
  the holder), or another id its own client listens on, whose entry it
  overwrites.

All other ids may come again: those of answered questions, for adds those of
finished inserts' adds, and for questions those of other clients' questions. Each
part of `met` is needed: without any one of them the run finds `OwnRows` or
`WalksStay` violated. Messages are sets, in which two alike would be one;
`Talking` says that there are none alike until ids meet, and nothing is claimed
behind that.

### Abstractions
* In `ZqlInsert` the ROUTER, proxy and DEALER queues are two sets of messages,
  from which any may be taken next. A client's pipe is ordered and the proxy
  deals in turn, but with thirty workers the order of *handling* is arbitrary.
  `ZqlDaemon` has the queues and treats a handler as one step that comes back.
* In `ZqlInsert` request ids are new; `RequestIds` is about ids that are not.
* In `ZqlInsert` the transport loses nothing while the daemon lives (a restart
  may lose any message); `ZqlDaemon` has the replies a full pipe drops.
* A row has at most one `_ope` column, and of its other columns nothing is
  kept. In `Wire` a row is any function from keys to values.
* In `ZqlInsert`, `Database::add` is one step that stores a row or, where
  `AddResults` allows, does not; `Database` has its steps.
* The shift `63 - len` for `len = 64` is taken modulo the width, as the x86-64
  build of `src/plugin/Makefile` (no optimisation) executes it.
* What `Database::get` and `add` do under one lock with no other thread able to
  see it is one action, and so is what `test.cpp` does under its mutex.
* `Wire` runs one message through one reader and one parser, as the program
  makes both anew for every message.

## 3. Runs

| run | instance | what it shows |
|---|---|---|
| `index` | 5 inserts of 4 values into an intact table, 2 into one with a buffer that reads as anything; word of 3 bits | labels are distinct, those of the intact table order its rows, a value is in its tree once; `IndInv`, the invariant of the proofs with the type invariant in it, holds |
| `insert_workers` | 2 workers, 4 inserts into 2 tables, a stale buffer, word of 3 bits, fair threads | pointers are valid, walks spell their places, no two rows of a table share a path, only a data race can end the process, until the first race the system implements `OpeIndex`, and every insert is answered unless the process dies, over a transport that loses nothing: the replies the ROUTER drops are in `daemon` |
| `insert_restart` | 2 workers, 3 ordered inserts and a plain one, refused rows, one restart, word of 2 bits | one answer on its way for every waiting insert, at most one row each, an acknowledged value is in the tree, rows of one life in order; `Conversation` and `Growth`, invariants of the proofs, hold |
| `wire` | 263 messages of every kind and every sequence of one or two of 61 writer calls; 16 capacities from 3 to 40 bytes | the reader tells of the items in order and unchanged, of all that fit; a message is handled exactly if the wire carries it, unchanged or not at all; the reader returns |
| `database` | 2 threads, 2 tables, adds to one of them (twice by one thread, once by the other), a schema change of it, opens that fail with or without the metadata lock, fair threads | open tables are protected; between calls a thread has open what its adds opened and has the metadata locks of these tables and of those it could not open, no others; reported rows are found; `Bookkeeping`, the invariant of the proofs, holds; schema changes and calls come to an end unless a metadata lock that an add or a failed open left behind is in the way |
| `daemon` | 2 clients, 4 requests, 2 workers, one message without a handler, pipes of one reply, unload at any time | a request is in exactly one place, the daemon implements `Service`, and a request is answered but for three named reasons |
| `executor_queue` | 12 values, 6 slots, limit 5 | no slot behind the array is written, executors are run once and in order, none is left |
| `request_ids` | 2 clients, one with 2 inserts and one with 1, trees of 2 levels, each id any of 5 numbers | until an id is drawn that names an insert under way, of the same client or of another, inserts have their rows, walks stay, and the line that reads an erased iterator is not reached; `Apart`, the invariant of the proofs, holds |

Why these bounds are enough.

* Index and inserts: three different values reach every shape of a tree with a
  root and a walk of two levels; the repeated value reaches `Drop`; words of 2
  and 3 bits are filled by the deepest place of these trees, so that the case
  `len = PathBits`, the code's depth 64, is reached. The races need two
  workers: each is between two handlers. One restart leaves messages, rows and
  executors of a first life to a second. A second table separates what is per
  table from what is per process.
* Wire: values on both sides of every change of width, negative ones, payloads
  that look like heads of every kind when the reader is a byte behind, and
  capacities that cut the messages at their heads, inside and behind. What an
  item does to the next one shows in a pair. The theorems have no bounds, and
  `Minors = 32` of the program is one of the values they hold for.
* Database: the conflicts are between one call and another, or one call and a
  schema change; a second `add` of a thread is what opens a table twice, and
  the second table is the one a `get` of which gives back the first.
* Daemon: two workers are a round; a stuck one, a busy one and an idle one
  each meet the next request. Requests are more than workers.
* Queue: the values fill it twice, with slots between the limit and the end.
* Ids: each kind of meeting occurs within a client and between two: of two adds,
  of two questions, of an add and a question. Five numbers are enough for three
  adds and two questions of one client to be under way without any meeting, and
  few enough for every one of them to come again.

Deadlock is checked in the runs of `ZqlInsert`, `Database` and
`ExecutorQueue`. `OpeIndex` stops when every insert is placed, stored or
dropped, a run of the reader ends, a daemon has nothing to do when every
request is answered or lost, and `RequestIds` ends with its inserts or with the
crash; their runs do not check it.

Fairness:

* `ZqlInsert`: weak fairness of each worker's next step and of the client's.
  The operating system schedules every thread, no handler waits for another
  worker, and ZeroMQ delivers what a connected socket holds. A restart is never
  required, and a response is a step of the client however many others wait:
  `main` reads one per turn of its loop.
* `Wire`: weak fairness of the reader's loop, a loop without a wait.
* `Database`: strong fairness of a call's next step: threads are scheduled, and
  MySQL queues who waits for a metadata or table lock; a schema change that can
  have its lock gets it, and ends; of a thread and a schema change that wait for
  each other the thread's call fails (`Deadlocked`), as the deadlock detector of
  the metadata locks prefers it. No fairness of `Begin`: nobody needs to send a
  request, and the two liveness properties name the locks left behind for this
  reason.
* `ZqlDaemon`: weak fairness of the threads; strong fairness of taking from
  each client and of fetching from each worker, since the sockets serve their
  pipes in turn. Handlers are taken to come back.
* `ExecutorQueue`: weak fairness of both threads but not of the sleep's end.

Every property of a passing run has a mutant in `PROJECT.json`: a definition
changed the way a plausible bug would change it, which the run then refutes.

### What the code does not keep

Four runs check a sentence of the code's own and find it violated:

* `equal_not_stored`: `Worker.cpp:239` says "equals, add to database, increase
  counter"; an equal value is acknowledged and its row is not stored.
* `lost_traverse_kills`: "traverse not found... need send error to client" is
  followed by a call through the null pointer; a continue that outlives a
  restart is enough.
* `traverse_kept`: "removing traverse..." passes the id of the last question,
  while the walk is held under the first: no walk is ever removed.
* `tree_replaced`: "tree not found, creating new..." can replace a tree made
  since it was looked for, and with it a root and its label.

The passing properties name more, as the exceptions without which they fail:

* a `RequestGet` whose key is written in two bytes is never handled, nor one
  whose key needs eight: `writeTypeAndValue` puts one byte of the two
  (`Cbor.cpp:508`), the reader skips the eight (`Carried`, `Lossy`);
* a row without columns is never handled (`Carried`, `ObjectParser.cpp:127`);
* a key above `INT_MAX` is looked up as a negative one (`Arrived`);
* a negative number of eight bytes keeps the reader for ever
  (`AtLongNegative`, `Cbor.cpp:273`);
* a message nobody handles stops a worker, and with it every request dealt to
  that worker from then on (`GoodRequestsAnswered`, `Worker.cpp:63-79`);
* a thread that adds and never gets keeps its tables open and their metadata
  locks, and a schema change waits for ever, with all who ask for the table
  after it (`ChangeMadeOrRetained`, `CallReturns`, `Database.cpp:437`);
* so does the metadata lock of a call whose table could not be opened, of a `get`
  too (`LeftBehind`, `Database.cpp:259-262`, `397-400`);
* an add's id that comes again while its first insert is under way replaces that
  insert's walk (`met`, `test.cpp:146`);
* a question's id that its client listens on already overwrites another
  executor (`met`, `test.cpp:184-194`): the answer of one insert is taken for
  another's, and a success is printed without its row;
* a row MySQL refuses is acknowledged and stays in the tree (`DoneIsIndexed`
  speaks of the tree and not of the row, `Worker.cpp:265`).

## 4. Proofs

Every safety property the passing runs check is also a theorem, proved for every
value of the constants under the assumptions the modules name: of the index, the
insert path, the wire, the tables, the client's queue, the daemon and the ids.
The last section says what is only model-checked.

### The index (OpeIndexProofs)

For every set of inserts, every assignment of tables and values, every content
of stale buffers and every word width (`OpsAssumption`, `PathBitsAssumption`):

* `Inductive`: `Spec => []IndInv`, and from it `Typed` (`TypeOK`);
* `LabelsDistinct`: no two rows of a table share a label, whatever the buffers
  read as;
* `Ordered`: while the buffers of a table are intact, its labels order its rows as
  their values, from the largest down;
* `ValuesUnique`: while its buffers are intact, a value is in a tree once.

The argument. `DistinctLabels` and `LabelsOrdered` speak of stored labels and
are not inductive. `IndInv` adds where the labels come from
(`LabelsFollowPlaces`), that places are unique (`UniquePlaces`), that a placed
or searching operation is on the right side of every placed ancestor
(`SidesRespected`), and that all ancestors of a place are taken
(`AncestorsPlaced`, `SearchesOccupied`), which makes `SidesRespected` speak of
every level of the way. Two different places then either part at some level,
where their common ancestor's value lies between the two, or one is above the
other. Its first lemmas do the same for words: `LabelInjective` (different
places that fit have different labels) and `LabelsLess` (the place that first
turns left has the smaller word). The least level at which two places differ
comes from `LeastNat`, the well-ordering of the naturals.

### The insert path: conversations (ZqlInsertProofs)

For any number of workers, inserts, tables and restarts, with refused rows,
stale buffers and the races of the maps (`InsertsAssumption`,
`WorkerAssumption`, `PathBitsAssumption`, `MaxRestartsAssumption`):

* `Typed`: `Spec => []TypeOK`. `HandlerOK` is the part with content: at each
  point of a handler, which kind of request it has and that the pointer used
  next without a test is live, or the `NULL` of `getTraverse`. It is inductive
  because nothing of the trees is freed while the daemon runs (the lemmas'
  `Grows`) and a restart ends every handler;
* `Conversing`: `Spec => []Conversation`;
* `OneRow` (`AtMostOneRow`) and `NoCrash` (`CrashNeedsRace`), from it.

The argument. That an insert has at most one row, and that a continue finds
its walk, are not inductive: a second message of the same insert in a state no
execution reaches would break both. `Conversation` says that there is none.
Every message, waiting or in a handler, bears the last id its insert's executor
listens on (`AllNamed`, `Listening`), one message or handler carries an insert
at a time (`OneCarrier`), and a handler has the walk of its own insert
(`OwnWalks`). Then a stored row means that only acknowledgements are left
(`RowsClose`), and, while nothing raced and nothing restarted, the walk a
continue names is in the holder (`WalksHeld`): `createTraverse` put it there
under the first id, and `removeTraverse` always takes a later one. The last
point is the leak of `traverse_kept`: the code never removes a walk too early
because it never removes one. The proof has a lemma for a step inside a handler
(`InternalKeeps`), one for each way a conversation moves (`RecvKeeps`,
`SendKeeps`, `RunKeeps`, `OkKeeps`, `TraverseKeeps`), and `RestartGoesOn`.

### The insert path: trees, answers and the index (ZqlIndexProofs)

Under the same assumptions:

* `Growing`: `Spec => []Growth`, and from it `WalksSpell` (`WalksSpellPlaces`);
* `Waiting` (`Awaited`), and from it `OneAnswer` (`OneAnswerOnTheWay`);
* `Implements`: `Spec => ImplementsIndexUnlessRaced`;
* `Living` (`OneLife`: the `IndInv` of `OpeIndex` in every life), and from it
  `Ordering` (`OrderedPerLife`) and `Distinct` (`DistinctPerLife`);
* `ValuesKept` (`ValuesIn`), and from it `Acknowledged` (`DoneIsIndexed`).

`Growth` relates the conversations to the trees. An insert whose `add` is still
on its way has neither walk nor node, one with a question on its way has no
node, and what a `continue` answers is an answer to the node its walk stands on
(`MessageFits`, `HandlerFits`); children are below their parents, roots at the
top, walks in their own table and spelled by their words (`TreesShaped`); a
row of this life is that of a node, at its depth (`RowsFollow`). These hold
through races and restarts. `OneTree` is what a race destroys: until then no two
nodes of a table share a place and none is out of reach.

The refinement takes each step of the insert path to the step of `OpeIndex`
that the code has committed to by then:

| step of ZqlInsert | step of OpeIndex |
|---|---|
| `MakeTree` | `PlaceRoot` |
| `BeginTraverse` | `StartSearch` |
| `Descend` | `Descend` |
| `Attach` | `Attach` |
| the client's `OnResponseAddTraverse`, the values equal | `Drop` |
| `InsertRoot`, `InsertLeaf`, the row stored | `Store` |
| `Restart` | the initial state of the next life |
| every other | stutters |

`GetTree` and `FindFree` read what `MakeTree` and `Attach` act on later; until
the first race what they have read is still so (`raced` is set by an overwritten
tree or child). `Descend` and `Attach` of the index compare with what the buffer
of a node may read as, and so they do here: the client answered at an earlier
step, and `MessageFits` says that its answer is one the node's buffer allows.

`OrderedPerLife` and `DoneIsIndexed` are stated for tables whose buffers are
intact (`Index!Intact(Key[o])`): the node's pointer into a freed string is
outside their control, and with a stale buffer both are false. The runs that
check them have intact buffers; the theorems need the hypothesis, since their
constants are any. A table in which no buffer is reused has it.
`DistinctPerLife` holds without it: a wrong answer misleads a walk, but it ends in
a free place all the same.

Rows of an earlier life are not in `OneLife`, which speaks of the present
index. `RowsStayOrdered` carries them along: at the restart their order is known, and
no later step of any life changes a row. `OneLife` needs a life's first state to
be an index's initial one, hence labels of this life only in the mapping.

`OneAnswerOnTheWay` has two halves. That at most one message or handler carries
an insert is `OneCarrier`. That there is one is `Awaited`: each handler ends in
its one `Send`, and the client's listener is that of the last request; a restart
may lose the message, which is why it speaks of the first life.

### The wire (WireProofs)

For every set of messages and of writer calls, every set of capacities and every
size of the byte from 72 values on, the code's 256 among them
(`MessagesAssumption`, `InputsAssumption`, `CapacitiesAssumption`,
`MinorsAssumption`):

* `WireInvariant`: `Spec => []WireInv`, the inductive invariant;
* `WireTypeOK`, `WireHeardInOrder`, `WireAllHeard`, `WireNothingElseHandled` and
  `WireHandledIfCarried`, the five safety properties of the run, from it.

None of the five is inductive: what is heard next depends on the bytes behind the
offset and on the state, and what the parser does with it on where it is.
`WireInv` says both. It has two halves.

*The reader* (`StreamInv`). It is `Synced`: every item before the one it is at was
heard as it should be (`HeardTo`), and it stands where that item begins, has its
head byte (`InSize`) or has its head and awaits its chunk (`InData`). Or it is
`Lost`, in a last item that lost bytes: the key of a get, whose second byte or
whose eight bytes are not what the head announces. Or, in an input that is not a
message, it is `Astray` behind such an item, and only what was heard before it is
known. `Layout` says that the bytes the reader finds are those of the item: the
buffer is the heads and chunks one behind the other up to the capacity. A chunk
that does not fit leaves no byte, and a later, smaller item may then be written
in its place; the reader cannot take it for the chunk unless it has all the
bytes the chunk's head asks for, and there are never so many, since a buffer
that has dropped a chunk is closer to its capacity than the chunk is long.
`Encoded` and `ToldByReader` say that number and type survive their bytes and
casts, and `SoundTurn` puts these together: three lemmas, one for each place
inside an item (`FromType`, `FromSize`, `FromData`).

*The parser* (`ParserInv`). `Parsed(m, k)` says where it is after `k` items of `m`:
which state, which fields of the object are there with which values, which
columns of the row (`FirstColumns`) and how many are to come. There is a lemma for
the next item of each kind of message (`GetStep`, `RowStep`, ...), from a lemma per
callback (`TagMove`, `FieldMove`, ...) and one per kind that lists its items
(`GetItems`, ...). `OneMove` says that a state and a callback have one move, so
that the move a lemma names is the one `Expected` finds.

`HandledIfCarried` then compares the last item with the buffer: a reader that has
returned in a buffer large enough has heard everything (`NotReturned`), and one that
has heard everything was given every byte. Of a row without columns nothing is
handled though all of it is heard (`BodyEnds`): the parser waits for a key.

The recursive functions `Buffers` and `Ends`, the buffer and the position after
each item, need an induction over the items. The library's induction theorems take an
operator as a parameter, which the installed provers cannot instantiate;
`NatInductionSet` is induction for a *set* of naturals, from the
well-ordering, and each use names the set of the indices for which a fact
holds (`EndsDef`, `BuffersDef`, `BufferTypes`, `BufferPrefix`).

### The tables (DatabaseProofs)

For any number of threads, tables and keys (`DatabaseAssumption`):

* `Booked`: `Spec => [](TypeOK /\ Bookkeeping)`, and `Typed` its first half;
* `Protected`, `IdleBooks` and `ReportedFound` (`OpenTablesProtected`,
  `IdleKeepsItsAdds`, `GetFindsReported`), from it.

None of the three is inductive. `Bookkeeping` adds, for every point of a call,
what its thread has locked and written (`Stages`), that its metadata locks are
those of its open tables and of those it could not open, that its open tables
are what its adds opened since its last get that read (`Holdings`), that a get
which began after a row was reported has found it once it has read (`Answers`,
`ReportedStored`), and that a granted schema change has its table alone
(`ExclusiveAlone`). The proof has a lemma per action
and one, `OwnStep`, for what a step leaves alone.

### The client's queue (ExecutorQueueProofs)

For every capacity, limit and number of values (`QueueAssumption`): `Typed`
(`TypeOK`); `Bounded` (`InBounds`), which rests on `RoomSeen`: the offset is at
most the one `client_thread` saw last, since main only makes room; `Ordered`
(`RunInOrder`), inductive as it stands.

### The daemon (ZqlDaemonProofs)

For every number of workers, clients and requests and every limit of a client's
pipe (`DaemonAssumption`):

* `Implements` (`ImplementsService`): a step of proxy, worker or client is a step
  of `Service` or a stutter. `Hear` is the step that matters: it is an answer only
  if what waits for a client was asked by that client and has a handler, which is
  the part of the inductive invariant `Routed` about `replies`; its other parts
  follow a request back through the sockets to its sender, and `Staffed` says
  that a worker that handles has one. `FollowingConnected` shows that the DEALER's
  round is defined whenever a worker is connected. `Typed` (`TypeOK`) follows from
  the same invariant.
* `Placed` (`OnePlace`): a request or its reply is in exactly one place. `OnePlace`
  is one of three parts that are inductive together: the proxy has something in
  one hand at most (`OneHand`), a worker that starts or receives has no request
  (`Rested`), and the set `Places(r)` has one element for every request
  (`AllPlaced`). Each place is the request's position in one socket's queue, so
  that a queue which held it twice would be two places; the lemmas `Held...` say
  what appending to and taking from a queue do to them, and a lemma per action
  moves one request from a place to the next.

### The ids (RequestIdsProofs)

For any number of clients and inserts and any set of ids, repeated at will
(`IdsAssumption`): `KeptApart` (`Apart`), and from it `RowsOwn` (`OwnRows`) and `WalksKept` (`WalksStay`).
Neither is inductive: a message whose `init` names another insert's walk would
break both. `Apart` says that until `met` every message leads to the walk and the
row of the one insert its client listens for (`Fits`), that the walks have the
ids of adds (`Walking`) and no answer to a question has such an id: this is why
`removeTraverse`, which is given the answer's id, finds nothing and never reads
the iterator it has erased.

### Only model-checked

Liveness, which is out of the prover's reach: `EveryInsertAnswered`,
`RunReturns`, `ChangeMadeOrRetained`, `CallReturns`, `GoodRequestsAnswered`,
`QueuedIsRun`.

Since the refinement, `OrderedPerLife`, `DistinctPerLife` and `DoneIsIndexed` hold
only until the first race, the theorems of `OpeIndexProofs` speak of the deployed
daemon only for executions in which no race happens; what is lost with a race is
what `tree_replaced` shows. `CrashNeedsRace` (which names the race),
`AtMostOneRow`, `WalksSpellPlaces`, `OneAnswerOnTheWay` and `Conversation` do not
depend on it.

## 5. Not modelled

* `Database::execute` has no caller. `deinitThread` is reached by no worker:
  none leaves its loop. A failure of `mysql_lock_tables` is not in `Database`:
  the code does not look at its result (`Database.cpp:145-147`, "TODO: check
  relock and errors") and goes on with the `NULL`.
* A reload of the plugin in a living server: the new daemon's `bind` fails
  unnoticed, so that it never receives a request (`Unload` says so).
* A row with two `_ope` columns, which is indexed by the first and labelled in
  the last (`Worker.cpp:145`), and the content of plain columns.
* `CborDebugListener` prints what it is told; its calls are those of `heard`.
* `libzql` sends one request and reads one reply; `jzql` and `RequestObject`
  are stubs; build scripts hold no logic.

## 6. Plan

1. (done) The insert path: PathWord, OpeIndex, Inserts, BTree, Worker,
   InsertClient, ZqlInsert, with the invariants of the index and of the
   conversations proved and the refinement checked.
2. (done) The wire: Cbor, CborWriter, CborReader, CborStream, ObjectParser,
   Wire.
3. (done) The process: Database, ZqlDaemon with Service, ExecutorQueue,
   RequestIds.
4. (done) Theorems about every component, the wire from its bytes to its messages,
   the refinement of `OpeIndex` by the insert path and that of `Service` by the
   daemon among them.
5. Left: rows with two `_ope` columns (`Worker.cpp:145`), a reload of the plugin.
