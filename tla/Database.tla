------------------------------- MODULE Database -------------------------------
(***************************************************************************)
(* plugin/Database.cpp: every worker thread has a Database with a THD of   *)
(* its own and calls get and add on it.  Both open the table, which takes  *)
(* a metadata lock, lock it, use it and unlock it; get then closes every   *)
(* open table of the thread and releases its metadata locks, add does not. *)
(*                                                                         *)
(* MySQL is modelled as these two methods use it: metadata locks (to read  *)
(* for get, to write for add, both shared; exclusive for a schema change   *)
(* of another session, which comes before sharers that ask after it),      *)
(* table locks (read and write), and rows that others see once the         *)
(* statement is committed.  A metadata lock is held until it is released   *)
(* by name, also that of a table which then could not be opened.           *)
(***************************************************************************)
EXTENDS Integers, FiniteSets

CONSTANTS Threads,   \* the worker threads
          Tables,
          Altered,   \* tables whose definition another session may change
          Keys,      \* values of the first key part
          None,      \* no table
          MaxOpen    \* bound: how often a thread opens each table for adds

ASSUME DatabaseAssumption ==
  /\ None \notin Tables
  /\ Altered \subseteq Tables
  /\ MaxOpen \in [Threads -> [Tables -> Nat]]

VARIABLES pc,        \* pc[t]: where thread t is in get or add
          call,      \* call[t]: the method, its table and its key
          opened,    \* opened[t][tb]: how often t has tb open
          mdl,       \* mdl[t]: t's metadata locks, each a table and the method
                     \* it is for
          locked,    \* locked[t]: the table of thd->lock, or None
          result,    \* result[t]: what the call under way will return
          rows,      \* rows[tb]: keys of the committed rows
          written,   \* written[t]: t's uncommitted row is in its table
          ddl,       \* the schema change: asking, holding or none, its table
          retained,  \* history: retained[t][tb], the adds of t into tb that
                     \* opened it, since t's last get that read
          stranded,  \* history: stranded[t], the tables t could not open though
                     \* it was granted their metadata lock, since then
          reported,  \* history: the rows of adds that wrote and returned true
          seen       \* history: seen[t], whether the row a get asks for was
                     \* reported when the get began

calls == <<pc, call, opened, mdl, locked, result, written>>
history == <<retained, stranded, reported, seen>>
vars == <<calls, rows, ddl, history>>

Ops == {"get", "add"}

NoCall == [op |-> "none", table |-> None, key |-> None]
NoDdl == [state |-> "none", table |-> None]

\* initThread gives the thread its THD, which holds nothing.
Init ==
  /\ pc = [t \in Threads |-> "idle"]
  /\ call = [t \in Threads |-> NoCall]
  /\ opened = [t \in Threads |-> [tb \in Tables |-> 0]]
  /\ mdl = [t \in Threads |-> {}]
  /\ locked = [t \in Threads |-> None]
  /\ result = [t \in Threads |-> FALSE]
  /\ rows = [tb \in Tables |-> {}]
  /\ written = [t \in Threads |-> FALSE]
  /\ ddl = NoDdl
  /\ retained = [t \in Threads |-> [tb \in Tables |-> 0]]
  /\ stranded = [t \in Threads |-> {}]
  /\ reported = {}
  /\ seen = [t \in Threads |-> FALSE]

Table(t) == call[t].table
At(t, where) == pc[t] = where
Goto(t, where) == pc' = [pc EXCEPT ![t] = where]

\* get or add is over, and with it its arguments and its result.
Return(t) ==
  /\ Goto(t, "idle")
  /\ result' = [result EXCEPT ![t] = FALSE]
  /\ call' = [call EXCEPT ![t] = NoCall]

-------------------------------------------------------------------------------
\* A request reaches the thread.
Begin(t) ==
  /\ At(t, "idle")
  /\ \E op \in Ops, tb \in Tables, k \in Keys :
       /\ op = "add" => opened[t][tb] < MaxOpen[t][tb]
       /\ call' = [call EXCEPT ![t] = [op |-> op, table |-> tb, key |-> k]]
       /\ seen' = [seen EXCEPT ![t] = op = "get" /\ <<tb, k>> \in reported]
  /\ Goto(t, "open")
  /\ UNCHANGED <<opened, mdl, result, locked, rows, written, ddl, retained, stranded, reported>>

Held(t, tb) == \E op \in Ops : <<tb, op>> \in mdl[t]

\* A lock to write does for reading too.
Covered(t) == \E op \in {call[t].op, "add"} : <<Table(t), op>> \in mdl[t]

\* A thread is granted what it already has; anyone else waits behind a
\* schema change of the table, be it under way or only asked for.
MayShare(t) == Covered(t) \/ ddl.table # Table(t)

TakeLock(t) == mdl' = [mdl EXCEPT ![t] = @ \cup {<<Table(t), call[t].op>>}]

\* open_table gives a table of its own to every call.
Open(t) ==
  /\ At(t, "open")
  /\ MayShare(t)
  /\ TakeLock(t)
  /\ opened' = [opened EXCEPT ![t][Table(t)] = @ + 1]
  /\ retained' = IF call[t].op = "add"
                 THEN [retained EXCEPT ![t][Table(t)] = @ + 1] ELSE retained
  /\ Goto(t, "lock")
  /\ UNCHANGED <<call, locked, result, rows, written, ddl, stranded, reported, seen>>

\* Mutant: a failed add releases the locks of its thread, without closing the
\* tables that earlier adds left open.
OpenFails_Releases(t) ==
  /\ At(t, "open")
  /\ mdl' = [mdl EXCEPT ![t] = IF call[t].op = "add" THEN {} ELSE @]
  /\ Return(t)
  /\ seen' = [seen EXCEPT ![t] = FALSE]
  /\ UNCHANGED <<opened, locked, rows, written, ddl, retained, stranded, reported>>

\* open_table fails, while it waits for the metadata lock or when it has it: get
\* returns false and add -1, which is true for a bool; no caller of add looks
\* at it.  Neither gives the lock back.
OpenFails(t) ==
  /\ At(t, "open")
  /\ \/ UNCHANGED <<mdl, stranded>>
     \/ /\ MayShare(t)
        /\ TakeLock(t)
        /\ stranded' = [stranded EXCEPT ![t] = @ \cup {Table(t)}]
  /\ Return(t)
  /\ seen' = [seen EXCEPT ![t] = FALSE]
  /\ UNCHANGED <<opened, locked, rows, written, ddl, retained, reported>>

\* t waits for a schema change that waits for t, which has the table's lock
\* to read and asks for the one to write.
Deadlocked(t) ==
  /\ At(t, "open")
  /\ ddl = [state |-> "asking", table |-> Table(t)]
  /\ Held(t, Table(t)) /\ ~Covered(t)

\* Readers share a table's lock, a writer has it alone.
MayLock(t) ==
  \A u \in Threads \ {t} :
    locked[u] = Table(t) => call[t].op = "get" /\ call[u].op = "get"

\* lockTables.
LockTables(t) ==
  /\ At(t, "lock")
  /\ MayLock(t)
  /\ locked' = [locked EXCEPT ![t] = Table(t)]
  /\ Goto(t, call[t].op)
  /\ UNCHANGED <<call, opened, mdl, result, rows, written, ddl, history>>

\* Mutant: what the last ha_index_next_same says is returned.
Read_LastCall(t) ==
  /\ At(t, "get")
  /\ result' = [result EXCEPT ![t] = FALSE]
  /\ Goto(t, "unlock")
  /\ UNCHANGED <<call, opened, mdl, locked, rows, written, ddl, history>>

\* ha_index_read_map and the loop over the rows of that key.
Read(t) ==
  /\ At(t, "get")
  /\ result' = [result EXCEPT ![t] = call[t].key \in rows[Table(t)]]
  /\ Goto(t, "unlock")
  /\ UNCHANGED <<call, opened, mdl, locked, rows, written, ddl, history>>

\* ha_write_row: it refuses a key that is there, and may fail anyway.
WriteRow(t) ==
  /\ At(t, "add")
  /\ \E ok \in {FALSE, call[t].key \notin rows[Table(t)]} :
       /\ written' = [written EXCEPT ![t] = ok]
       /\ result' = [result EXCEPT ![t] = ok]
  /\ Goto(t, "unlock")
  /\ UNCHANGED <<call, opened, mdl, locked, rows, ddl, history>>

\* Mutants of UnlockTables: an add gives its metadata locks back as well, but
\* closes nothing; the statement of an add is not committed.
UnlockTables_ReleasesLocks(t) ==
  /\ At(t, "unlock")
  /\ rows' = IF written[t] THEN [rows EXCEPT ![Table(t)] = @ \cup {call[t].key}]
                           ELSE rows
  /\ written' = [written EXCEPT ![t] = FALSE]
  /\ locked' = [locked EXCEPT ![t] = None]
  /\ mdl' = [mdl EXCEPT ![t] = IF call[t].op = "add" THEN {} ELSE @]
  /\ reported' = IF written[t] /\ result[t]
                 THEN reported \cup {<<Table(t), call[t].key>>} ELSE reported
  /\ IF call[t].op = "get" THEN Goto(t, "close") /\ UNCHANGED <<call, result>>
                           ELSE Return(t)
  /\ UNCHANGED <<opened, ddl, retained, stranded, seen>>

UnlockTables_NoCommit(t) ==
  /\ At(t, "unlock")
  /\ written' = [written EXCEPT ![t] = FALSE]
  /\ locked' = [locked EXCEPT ![t] = None]
  /\ reported' = IF written[t] /\ result[t]
                 THEN reported \cup {<<Table(t), call[t].key>>} ELSE reported
  /\ IF call[t].op = "get" THEN Goto(t, "close") /\ UNCHANGED <<call, result>>
                           ELSE Return(t)
  /\ UNCHANGED <<opened, mdl, rows, ddl, retained, stranded, seen>>

\* unlockTables: the statement is committed, the table's lock is given up.
\* An add returns here.
UnlockTables(t) ==
  /\ At(t, "unlock")
  /\ rows' = IF written[t] THEN [rows EXCEPT ![Table(t)] = @ \cup {call[t].key}]
                           ELSE rows
  /\ written' = [written EXCEPT ![t] = FALSE]
  /\ locked' = [locked EXCEPT ![t] = None]
  /\ reported' = IF written[t] /\ result[t]
                 THEN reported \cup {<<Table(t), call[t].key>>} ELSE reported
  /\ IF call[t].op = "get" THEN Goto(t, "close") /\ UNCHANGED <<call, result>>
                           ELSE Return(t)
  /\ UNCHANGED <<opened, mdl, ddl, retained, stranded, seen>>

\* Mutant: every table is closed once.
CloseTables_Once(t) ==
  /\ At(t, "close")
  /\ opened' = [opened EXCEPT ![t] = [tb \in Tables |-> @[tb] - 1]]
  /\ Goto(t, "release")
  /\ UNCHANGED <<call, mdl, locked, result, rows, written, ddl, history>>

\* close_thread_tables, then mdl_context.release_transactional_locks: of all
\* the thread's tables, those its adds left open too, and of all its locks.
CloseTables(t) ==
  /\ At(t, "close")
  /\ opened' = [opened EXCEPT ![t] = [tb \in Tables |-> 0]]
  /\ Goto(t, "release")
  /\ UNCHANGED <<call, mdl, locked, result, rows, written, ddl, history>>

\* Mutant: the metadata locks are kept.
ReleaseLocks_Keeps(t) ==
  /\ At(t, "release")
  /\ retained' = [retained EXCEPT ![t] = [tb \in Tables |-> 0]]
  /\ stranded' = [stranded EXCEPT ![t] = {}]
  /\ seen' = [seen EXCEPT ![t] = FALSE]
  /\ Return(t)
  /\ UNCHANGED <<opened, mdl, locked, rows, written, ddl, reported>>

ReleaseLocks(t) ==
  /\ At(t, "release")
  /\ mdl' = [mdl EXCEPT ![t] = {}]
  /\ retained' = [retained EXCEPT ![t] = [tb \in Tables |-> 0]]
  /\ stranded' = [stranded EXCEPT ![t] = {}]
  /\ seen' = [seen EXCEPT ![t] = FALSE]
  /\ Return(t)
  /\ UNCHANGED <<opened, locked, rows, written, ddl, reported>>

\* The schema change of another session.
AskExclusive ==
  /\ ddl = NoDdl
  /\ \E tb \in Altered : ddl' = [state |-> "asking", table |-> tb]
  /\ UNCHANGED <<calls, rows, history>>

GrantExclusive ==
  /\ ddl.state = "asking"
  /\ \A t \in Threads : ~Held(t, ddl.table)
  /\ ddl' = [ddl EXCEPT !.state = "holding"]
  /\ UNCHANGED <<calls, rows, history>>

ReleaseExclusive ==
  /\ ddl.state = "holding"
  /\ ddl' = NoDdl
  /\ UNCHANGED <<calls, rows, history>>

-------------------------------------------------------------------------------
\* What a thread does within a call.
CallStep(t) == \/ Open(t) \/ LockTables(t) \/ Read(t) \/ WriteRow(t)
               \/ UnlockTables(t) \/ CloseTables(t) \/ ReleaseLocks(t)

Next == \/ \E t \in Threads : Begin(t) \/ OpenFails(t) \/ CallStep(t)
        \/ AskExclusive \/ GrantExclusive \/ ReleaseExclusive

\* Threads are scheduled and a lock that is free time and again is granted, so
\* that a call goes on if it can time and again; of two that wait for each other
\* the server fails the call, and a schema change ends.  Nothing makes a request
\* come to a thread.
Fairness == /\ \A t \in Threads : /\ SF_vars(CallStep(t))
                                  /\ WF_vars(Deadlocked(t) /\ OpenFails(t))
            /\ WF_vars(GrantExclusive)
            /\ WF_vars(ReleaseExclusive)

Spec == Init /\ [][Next]_vars

FairSpec == Spec /\ Fairness

-------------------------------------------------------------------------------
TypeOK ==
  /\ pc \in [Threads -> {"idle", "open", "lock", "get", "add", "unlock",
                         "close", "release"}]
  /\ call \in [Threads -> [op : Ops, table : Tables, key : Keys] \cup {NoCall}]
  /\ opened \in [Threads -> [Tables -> Nat]]
  /\ mdl \in [Threads -> SUBSET (Tables \X Ops)]
  /\ locked \in [Threads -> Tables \cup {None}]
  /\ result \in [Threads -> BOOLEAN]
  /\ rows \in [Tables -> SUBSET Keys]
  /\ written \in [Threads -> BOOLEAN]
  /\ ddl \in [state : {"asking", "holding"}, table : Tables] \cup {NoDdl}
  /\ retained \in [Threads -> [Tables -> Nat]]
  /\ stranded \in [Threads -> SUBSET Tables]
  /\ reported \subseteq Tables \X Keys
  /\ seen \in [Threads -> BOOLEAN]

\* No thread uses a table, and none keeps one open, while its definition is
\* changed: an add's table stays under the metadata lock it leaves behind
\* until a get of that thread has closed it (Database.cpp:365-369, 437).
OpenTablesProtected ==
  \A t \in Threads, tb \in Tables :
    opened[t][tb] > 0 => Held(t, tb) /\ ddl # [state |-> "holding", table |-> tb]

HeldTables(t) == {tb \in Tables : Held(t, tb)}

\* What the adds of t left behind since its last get that read, and the calls
\* of t whose open failed.
LeftBehind(t) == {tb \in Tables : retained[t][tb] > 0} \cup stranded[t]

\* Between two calls a thread has no table locked and no row uncommitted.  It
\* has open what its adds opened since its last get that read, every one of
\* them again, and metadata locks of these tables and of those it could not
\* open: get gives back all of them, add and a failed open nothing.
IdleKeepsItsAdds ==
  \A t \in Threads : At(t, "idle") =>
    /\ locked[t] = None /\ ~written[t]
    /\ opened[t] = retained[t]
    /\ HeldTables(t) = LeftBehind(t)

\* A row whose add had returned before a get began is found, if the table
\* can be opened: an add commits before it returns, though it keeps its table
\* open and its metadata lock (Database.cpp:155-162, 437).
GetFindsReported ==
  \A t \in Threads : At(t, "close") /\ seen[t] => result[t]

\* The inductive invariant of the three: where a call is says what it has
\* locked and written and what its thread has open; what was reported is
\* there; a granted schema change has its table alone.
Stages(t) ==
  /\ ~At(t, "idle") => call[t].op \in Ops
  /\ At(t, "get") \/ At(t, "close") \/ At(t, "release") => call[t].op = "get"
  /\ At(t, "add") => call[t].op = "add"
  /\ pc[t] \notin {"get", "add", "unlock"} => locked[t] = None
  /\ written[t] => At(t, "unlock") /\ call[t].op = "add"

Holdings(t) ==
  /\ At(t, "idle") \/ At(t, "open") \/ call[t].op = "add"
       => opened[t] = retained[t]
  /\ ~At(t, "release") =>
       HeldTables(t) = {tb \in Tables : opened[t][tb] > 0} \cup stranded[t]
  /\ At(t, "release") => opened[t] = [tb \in Tables |-> 0]

Answers(t) ==
  /\ seen[t] => /\ ~At(t, "idle")
                /\ call[t].op = "get"
                /\ <<Table(t), call[t].key>> \in reported
  /\ seen[t] /\ (At(t, "unlock") \/ At(t, "close")) => result[t]

ReportedStored == \A tb \in Tables, k \in Keys : <<tb, k>> \in reported => k \in rows[tb]

ExclusiveAlone ==
  ddl.state = "holding" => \A t \in Threads : ~Held(t, ddl.table)

Bookkeeping ==
  /\ \A t \in Threads : Stages(t) /\ Holdings(t) /\ Answers(t)
  /\ ReportedStored
  /\ ExclusiveAlone

\* A schema change is made in the end, or an idle thread keeps the metadata lock
\* of an add or of a failed open: only a get on that very thread could help
\* then.
ChangeMadeOrRetained ==
  ddl.state = "asking"
    ~> \/ ddl.state = "holding"
       \/ \E t \in Threads : At(t, "idle") /\ ddl.table \in LeftBehind(t)

\* A call comes back, or waits to open a table whose schema change waits for a
\* lock that an add or a failed open of another thread left behind.
CallReturns ==
  \A t \in Threads :
    pc[t] # "idle"
      ~> \/ At(t, "idle")
         \/ /\ At(t, "open") /\ ddl.state = "asking" /\ ddl.table = Table(t)
            /\ \E u \in Threads \ {t} : Table(t) \in LeftBehind(u)
===============================================================================
