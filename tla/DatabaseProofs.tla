---------------------------- MODULE DatabaseProofs ----------------------------
(***************************************************************************)
(* What the threads' calls of get and add keep true of tables, locks and   *)
(* rows, for any number of threads, tables and keys.                       *)
(***************************************************************************)
EXTENDS Database, TLAPS

\* A step of thread t leaves the other threads' books as they are.
Others(t) == \A u \in Threads \ {t} :
  /\ pc'[u] = pc[u]
  /\ call'[u] = call[u]
  /\ opened'[u] = opened[u]
  /\ mdl'[u] = mdl[u]
  /\ locked'[u] = locked[u]
  /\ retained'[u] = retained[u]
  /\ stranded'[u] = stranded[u]
  /\ written'[u] => written[u]
  /\ seen'[u] => seen[u]
  /\ result[u] => result'[u]

LEMMA InitTyped == Init => TypeOK
  BY DatabaseAssumption DEF Init, TypeOK, NoCall, NoDdl, Ops

LEMMA BeginTyped ==
  ASSUME TypeOK, NEW t \in Threads, Begin(t)
  PROVE  TypeOK'
<1>1. PICK op \in Ops, tb \in Tables, k \in Keys :
        /\ call' = [call EXCEPT ![t] = [op |-> op, table |-> tb, key |-> k]]
        /\ seen' = [seen EXCEPT ![t] = op = "get" /\ <<tb, k>> \in reported]
  BY DEF Begin
<1>2. [op |-> op, table |-> tb, key |-> k] \in [op : Ops, table : Tables, key : Keys]
  OBVIOUS
<1>3. call' \in [Threads -> [op : Ops, table : Tables, key : Keys] \cup {NoCall}]
  BY <1>1, <1>2 DEF TypeOK
<1>4. seen' \in [Threads -> BOOLEAN]
  BY <1>1 DEF TypeOK
<1> QED
  BY <1>3, <1>4 DEF Begin, Goto, TypeOK

\* A call under way has a table and a key.
LEMMA CallHasTable ==
  ASSUME TypeOK, NEW t \in Threads, Stages(t), ~At(t, "idle")
  PROVE  /\ call[t].op \in Ops
         /\ Table(t) \in Tables
         /\ call[t].key \in Keys
  BY DEF TypeOK, Stages, NoCall, Ops, Table

LEMMA LockTyped ==
  ASSUME TypeOK, NEW t \in Threads, Stages(t), ~At(t, "idle"), TakeLock(t)
  PROVE  mdl' \in [Threads -> SUBSET (Tables \X Ops)]
  BY CallHasTable DEF TakeLock, TypeOK

LEMMA OpenTyped ==
  ASSUME TypeOK, NEW t \in Threads, Stages(t), Open(t)
  PROVE  TypeOK'
<1>1. Table(t) \in Tables
  BY CallHasTable DEF Open, At
<1>2. opened' \in [Threads -> [Tables -> Nat]]
  BY <1>1 DEF Open, TypeOK
<1>3. retained' \in [Threads -> [Tables -> Nat]]
  BY <1>1 DEF Open, TypeOK
<1>4. mdl' \in [Threads -> SUBSET (Tables \X Ops)]
  BY LockTyped DEF Open, At
<1> QED
  BY <1>2, <1>3, <1>4 DEF Open, Goto, TypeOK

LEMMA ReturnTyped ==
  ASSUME TypeOK, NEW t \in Threads, Return(t)
  PROVE  /\ pc' \in [Threads -> {"idle", "open", "lock", "get", "add", "unlock",
                                 "close", "release"}]
         /\ call' \in [Threads -> [op : Ops, table : Tables, key : Keys] \cup {NoCall}]
         /\ result' \in [Threads -> BOOLEAN]
<1>1. call' \in [Threads -> [op : Ops, table : Tables, key : Keys] \cup {NoCall}]
  BY DEF Return, TypeOK
<1> QED
  BY <1>1 DEF Return, Goto, TypeOK

LEMMA OpenFailsTyped ==
  ASSUME TypeOK, NEW t \in Threads, Stages(t), OpenFails(t)
  PROVE  TypeOK'
<1>1. Return(t) /\ ~At(t, "idle") /\ Table(t) \in Tables
  BY CallHasTable DEF OpenFails, At
<1>2. /\ mdl' \in [Threads -> SUBSET (Tables \X Ops)]
      /\ stranded' \in [Threads -> SUBSET Tables]
  <2>1. CASE UNCHANGED <<mdl, stranded>>
    BY <2>1 DEF TypeOK
  <2>2. CASE /\ TakeLock(t)
             /\ stranded' = [stranded EXCEPT ![t] = @ \cup {Table(t)}]
    BY <1>1, <2>2, LockTyped DEF TypeOK
  <2> QED
    BY <2>1, <2>2 DEF OpenFails
<1> QED
  BY <1>1, <1>2, ReturnTyped DEF OpenFails, TypeOK

LEMMA LockTablesTyped ==
  ASSUME TypeOK, NEW t \in Threads, Stages(t), LockTables(t)
  PROVE  TypeOK'
<1>1. Table(t) \in Tables /\ call[t].op \in Ops
  BY CallHasTable DEF LockTables, At
<1> QED
  BY <1>1 DEF LockTables, Goto, TypeOK, Ops, history

LEMMA ReadTyped ==
  ASSUME TypeOK, NEW t \in Threads, Read(t)
  PROVE  TypeOK'
  BY DEF Read, Goto, TypeOK, history

LEMMA WriteRowTyped ==
  ASSUME TypeOK, NEW t \in Threads, WriteRow(t)
  PROVE  TypeOK'
<1>1. PICK ok \in BOOLEAN : /\ written' = [written EXCEPT ![t] = ok]
                            /\ result' = [result EXCEPT ![t] = ok]
  BY DEF WriteRow
<1> QED
  BY <1>1 DEF WriteRow, Goto, TypeOK, history

LEMMA UnlockTablesTyped ==
  ASSUME TypeOK, NEW t \in Threads, Stages(t), UnlockTables(t)
  PROVE  TypeOK'
<1>1. Table(t) \in Tables /\ call[t].key \in Keys
  BY CallHasTable DEF UnlockTables, At
<1>2. rows' \in [Tables -> SUBSET Keys]
  BY <1>1 DEF UnlockTables, TypeOK
<1>3. reported' \subseteq Tables \X Keys
  BY <1>1 DEF UnlockTables, TypeOK
<1>4. CASE call[t].op = "get"
  BY <1>2, <1>3, <1>4 DEF UnlockTables, Goto, TypeOK
<1>5. CASE call[t].op # "get"
  <2>1. Return(t)
    BY <1>5 DEF UnlockTables
  <2> QED
    BY <1>2, <1>3, <2>1, ReturnTyped DEF UnlockTables, TypeOK
<1> QED
  BY <1>4, <1>5

LEMMA CloseTablesTyped ==
  ASSUME TypeOK, NEW t \in Threads, CloseTables(t)
  PROVE  TypeOK'
  BY DEF CloseTables, Goto, TypeOK, history

LEMMA ReleaseLocksTyped ==
  ASSUME TypeOK, NEW t \in Threads, ReleaseLocks(t)
  PROVE  TypeOK'
<1>1. Return(t)
  BY DEF ReleaseLocks
<1> QED
  BY <1>1, ReturnTyped DEF ReleaseLocks, TypeOK

LEMMA DdlTyped ==
  ASSUME TypeOK, AskExclusive \/ GrantExclusive \/ ReleaseExclusive
  PROVE  TypeOK'
<1>1. ddl' \in [state : {"asking", "holding"}, table : Tables] \cup {NoDdl}
  <2>1. CASE AskExclusive
    BY <2>1, DatabaseAssumption DEF AskExclusive
  <2>2. CASE GrantExclusive
    <3>1. ddl \in [state : {"asking", "holding"}, table : Tables]
      BY <2>2 DEF GrantExclusive, TypeOK, NoDdl
    <3>2. ddl' = [ddl EXCEPT !.state = "holding"]
      BY <2>2 DEF GrantExclusive
    <3> QED
      BY <3>1, <3>2
  <2>3. CASE ReleaseExclusive
    BY <2>3 DEF ReleaseExclusive
  <2> QED
    BY <2>1, <2>2, <2>3
<1>2. UNCHANGED <<calls, rows, history>>
  BY DEF AskExclusive, GrantExclusive, ReleaseExclusive
<1> QED
  BY <1>1, <1>2 DEF TypeOK, calls, history
-------------------------------------------------------------------------------
Kept(t) == Stages(t) /\ Holdings(t) /\ Answers(t)

\* What a thread's step leaves to show: its own books, the rows reported, and
\* that it does not share with a granted schema change.
LEMMA OwnStep ==
  ASSUME Bookkeeping, NEW t \in Threads, Others(t),
         reported \subseteq reported', UNCHANGED ddl,
         Kept(t)', ReportedStored',
         ddl.state = "holding" => ~Held(t, ddl.table)'
  PROVE  Bookkeeping'
<1>1. ASSUME NEW u \in Threads \ {t}
      PROVE  Kept(u)'
  <2>1. Stages(u)'
    BY DEF Others, Bookkeeping, Stages, At
  <2>2. Holdings(u)'
    BY DEF Others, Bookkeeping, Holdings, HeldTables, Held, At
  <2>3. Answers(u)'
    BY DEF Others, Bookkeeping, Answers, At, Table
  <2> QED
    BY <2>1, <2>2, <2>3 DEF Kept
<1>2. ExclusiveAlone'
  BY DEF Others, Bookkeeping, ExclusiveAlone, Held
<1> QED
  BY <1>1, <1>2 DEF Bookkeeping, Kept

LEMMA InitKept == Init => Bookkeeping
<1> SUFFICES ASSUME Init PROVE Bookkeeping
  OBVIOUS
<1>1. ASSUME NEW t \in Threads PROVE Kept(t)
  <2>1. Stages(t)
    BY DEF Init, Stages, At
  <2>2. Holdings(t)
    BY DEF Init, Holdings, At, HeldTables, Held
  <2>3. Answers(t)
    BY DEF Init, Answers, At
  <2> QED
    BY <2>1, <2>2, <2>3 DEF Kept
<1>2. ReportedStored /\ ExclusiveAlone
  BY DEF Init, ReportedStored, ExclusiveAlone, NoDdl
<1> QED
  BY <1>1, <1>2 DEF Bookkeeping, Kept

LEMMA BeginKept ==
  ASSUME TypeOK, Bookkeeping, NEW t \in Threads, Begin(t)
  PROVE  Bookkeeping'
<1>1. PICK op \in Ops, tb \in Tables, k \in Keys :
        /\ call' = [call EXCEPT ![t] = [op |-> op, table |-> tb, key |-> k]]
        /\ seen' = [seen EXCEPT ![t] = op = "get" /\ <<tb, k>> \in reported]
  BY DEF Begin
<1>2. Others(t)
  BY <1>1 DEF Begin, Goto, Others, TypeOK
<1>3. /\ pc'[t] = "open" /\ pc[t] = "idle"
      /\ call'[t].op = op /\ call'[t].table = tb /\ call'[t].key = k
      /\ seen'[t] => op = "get" /\ <<tb, k>> \in reported
  BY <1>1 DEF Begin, Goto, At, TypeOK
<1>4. Stages(t)'
  BY <1>3 DEF Begin, Bookkeeping, Stages, At
<1>5. Holdings(t)'
  BY <1>3 DEF Begin, Bookkeeping, Holdings, HeldTables, Held, At
<1>6. Answers(t)'
  BY <1>3 DEF Begin, Answers, At, Table
<1>7. ReportedStored' /\ (ddl.state = "holding" => ~Held(t, ddl.table)')
  BY DEF Begin, Bookkeeping, ReportedStored, ExclusiveAlone, Held
<1> QED
  BY <1>2, <1>4, <1>5, <1>6, <1>7, OwnStep DEF Begin, Kept

\* The lock of an open is a lock of its table more.
LEMMA TakesTable ==
  ASSUME TypeOK, NEW t \in Threads, Table(t) \in Tables, call[t].op \in Ops,
         TakeLock(t)
  PROVE  HeldTables(t)' = HeldTables(t) \cup {Table(t)}
<1>1. mdl'[t] = mdl[t] \cup {<<Table(t), call[t].op>>}
  BY DEF TakeLock, TypeOK
<1>2. \A tb \in Tables : Held(t, tb)' <=> Held(t, tb) \/ tb = Table(t)
  BY <1>1 DEF Held
<1> QED
  BY <1>2 DEF HeldTables

\* It is not granted while a schema change has the table.
LEMMA TakesAllowed ==
  ASSUME TypeOK, ExclusiveAlone, NEW t \in Threads, call[t].op \in Ops,
         MayShare(t), TakeLock(t), UNCHANGED ddl, ddl.state = "holding"
  PROVE  ~Held(t, ddl.table)'
<1>1. mdl'[t] = mdl[t] \cup {<<Table(t), call[t].op>>}
  BY DEF TakeLock, TypeOK
<1>2. ~Held(t, ddl.table)
  BY DEF ExclusiveAlone
<1>3. ddl.table # Table(t)
  <2>1. Covered(t) => Held(t, Table(t))
    BY DEF Covered, Held, Ops
  <2> QED
    BY <1>2, <2>1 DEF MayShare
<1>4. Held(t, ddl.table)' => Held(t, ddl.table)
  <2>1. \A op \in Ops : <<ddl.table, op>> \in mdl'[t] => <<ddl.table, op>> \in mdl[t]
    BY <1>1, <1>3
  <2> QED
    BY <2>1 DEF Held
<1> QED
  BY <1>2, <1>4

LEMMA OpenKept ==
  ASSUME TypeOK, Bookkeeping, NEW t \in Threads, Open(t)
  PROVE  Bookkeeping'
<1>1. Table(t) \in Tables /\ call[t].op \in Ops /\ At(t, "open")
  BY CallHasTable DEF Open, At, Bookkeeping
<1>2. Others(t)
  BY <1>1 DEF Open, TakeLock, Goto, Others, TypeOK
<1>3. /\ pc'[t] = "lock"
      /\ opened'[t] = [opened[t] EXCEPT ![Table(t)] = @ + 1]
      /\ call[t].op = "add" =>
           retained'[t] = [retained[t] EXCEPT ![Table(t)] = @ + 1]
  BY <1>1 DEF Open, Goto, TypeOK
<1>4. Stages(t)'
  BY <1>1, <1>3 DEF Open, Bookkeeping, Stages, At
<1>5. Holdings(t)'
  <2>1. HeldTables(t)' = {tb \in Tables : opened'[t][tb] > 0} \cup stranded'[t]
    <3>1. HeldTables(t) = {tb \in Tables : opened[t][tb] > 0} \cup stranded[t]
      BY <1>1 DEF Bookkeeping, Holdings, At
    <3>2. opened[t] \in [Tables -> Nat]
      BY DEF TypeOK
    <3>3. \A tb \in Tables :
            opened'[t][tb] = IF tb = Table(t) THEN opened[t][tb] + 1 ELSE opened[t][tb]
      BY <1>1, <1>3, <3>2
    <3>4. \A tb \in Tables : opened'[t][tb] > 0 <=> opened[t][tb] > 0 \/ tb = Table(t)
      BY <3>2, <3>3
    <3>5. stranded' = stranded
      BY DEF Open
    <3> QED
      BY <1>1, <3>1, <3>4, <3>5, TakesTable DEF Open
  <2>2. call[t].op = "add" => opened'[t] = retained'[t]
    BY <1>1, <1>3 DEF Bookkeeping, Holdings
  <2> QED
    BY <1>3, <2>1, <2>2 DEF Open, Holdings, At
<1>6. Answers(t)'
  BY <1>1, <1>3 DEF Open, Bookkeeping, Answers, At, Table
<1>7. ddl.state = "holding" => ~Held(t, ddl.table)'
  BY <1>1, TakesAllowed DEF Open, Bookkeeping
<1>8. ReportedStored'
  BY DEF Open, Bookkeeping, ReportedStored
<1> QED
  BY <1>2, <1>4, <1>5, <1>6, <1>7, <1>8, OwnStep DEF Open, Kept

LEMMA OpenFailsKept ==
  ASSUME TypeOK, Bookkeeping, NEW t \in Threads, OpenFails(t)
  PROVE  Bookkeeping'
<1>1. /\ pc'[t] = "idle" /\ At(t, "open") /\ ~seen'[t]
      /\ UNCHANGED <<opened, retained, locked, rows, written, ddl, reported>>
  BY DEF OpenFails, Return, Goto, At, TypeOK
<1>2. Table(t) \in Tables /\ call[t].op \in Ops
  BY <1>1, CallHasTable DEF At, Bookkeeping
<1>3. Others(t)
  BY DEF OpenFails, TakeLock, Return, Goto, Others, TypeOK
<1>4. Stages(t)'
  BY <1>1 DEF Bookkeeping, Stages, At
<1>5. Holdings(t)' /\ (ddl.state = "holding" => ~Held(t, ddl.table)')
  <2>1. /\ HeldTables(t) = {tb \in Tables : opened[t][tb] > 0} \cup stranded[t]
        /\ opened[t] = retained[t]
    BY <1>1 DEF Bookkeeping, Holdings, At
  <2>2. CASE UNCHANGED <<mdl, stranded>>
    <3>1. HeldTables(t)' = HeldTables(t) /\ \A tb : Held(t, tb)' = Held(t, tb)
      BY <2>2 DEF HeldTables, Held
    <3> QED
      BY <1>1, <2>1, <2>2, <3>1 DEF Holdings, At, Bookkeeping, ExclusiveAlone
  <2>3. CASE /\ MayShare(t) /\ TakeLock(t)
             /\ stranded' = [stranded EXCEPT ![t] = @ \cup {Table(t)}]
    <3>1. HeldTables(t)' = HeldTables(t) \cup {Table(t)}
      BY <1>2, <2>3, TakesTable
    <3>2. stranded'[t] = stranded[t] \cup {Table(t)}
      BY <2>3 DEF TypeOK
    <3>3. ddl.state = "holding" => ~Held(t, ddl.table)'
      BY <1>1, <1>2, <2>3, TakesAllowed DEF Bookkeeping
    <3> QED
      BY <1>1, <2>1, <3>1, <3>2, <3>3 DEF Holdings, At
  <2> QED
    BY <2>2, <2>3 DEF OpenFails
<1>6. Answers(t)'
  BY <1>1 DEF Answers
<1>7. ReportedStored'
  BY <1>1 DEF Bookkeeping, ReportedStored
<1> QED
  BY <1>1, <1>3, <1>4, <1>5, <1>6, <1>7, OwnStep DEF Kept

LEMMA LockTablesKept ==
  ASSUME TypeOK, Bookkeeping, NEW t \in Threads, LockTables(t)
  PROVE  Bookkeeping'
<1>1. Others(t)
  BY DEF LockTables, Goto, Others, TypeOK, history
<1>2. At(t, "lock") /\ call[t].op \in Ops /\ pc'[t] = call[t].op
  BY CallHasTable DEF LockTables, Goto, At, TypeOK, Bookkeeping
<1>3. Stages(t)'
  BY <1>2 DEF LockTables, Bookkeeping, Stages, At, Ops
<1>4. Holdings(t)'
  BY <1>2 DEF LockTables, Bookkeeping, Holdings, HeldTables, Held, At, Ops, history
<1>5. Answers(t)'
  BY <1>2 DEF LockTables, Bookkeeping, Answers, At, Ops, Table, history
<1>6. ReportedStored' /\ (ddl.state = "holding" => ~Held(t, ddl.table)')
  BY DEF LockTables, Bookkeeping, ReportedStored, ExclusiveAlone, Held, history
<1> QED
  BY <1>1, <1>3, <1>4, <1>5, <1>6, OwnStep DEF LockTables, Kept, history

LEMMA ReadKept ==
  ASSUME TypeOK, Bookkeeping, NEW t \in Threads, Read(t)
  PROVE  Bookkeeping'
<1>1. Others(t)
  BY DEF Read, Goto, Others, TypeOK, history
<1>2. At(t, "get") /\ call[t].op = "get" /\ pc'[t] = "unlock"
  BY DEF Read, Goto, At, TypeOK, Bookkeeping, Stages
<1>3. Stages(t)'
  BY <1>2 DEF Read, Bookkeeping, Stages, At, Ops
<1>4. Holdings(t)'
  BY <1>2 DEF Read, Bookkeeping, Holdings, HeldTables, Held, At, history
<1>5. Answers(t)'
  <2>1. seen[t] => Table(t) \in Tables /\ call[t].key \in Keys
    BY <1>2, CallHasTable DEF At, Bookkeeping
  <2>2. seen[t] => result'[t]
    <3>1. SUFFICES ASSUME seen[t] PROVE call[t].key \in rows[Table(t)]
      BY DEF Read, TypeOK
    <3>2. <<Table(t), call[t].key>> \in reported
      BY <3>1 DEF Bookkeeping, Answers
    <3> QED
      BY <2>1, <3>1, <3>2 DEF Bookkeeping, ReportedStored
  <2> QED
    BY <1>2, <2>2 DEF Read, Bookkeeping, Answers, At, Table, history
<1>6. ReportedStored' /\ (ddl.state = "holding" => ~Held(t, ddl.table)')
  BY DEF Read, Bookkeeping, ReportedStored, ExclusiveAlone, Held, history
<1> QED
  BY <1>1, <1>3, <1>4, <1>5, <1>6, OwnStep DEF Read, Kept, history

LEMMA WriteRowKept ==
  ASSUME TypeOK, Bookkeeping, NEW t \in Threads, WriteRow(t)
  PROVE  Bookkeeping'
<1>0. PICK ok \in BOOLEAN : /\ written' = [written EXCEPT ![t] = ok]
                            /\ result' = [result EXCEPT ![t] = ok]
  BY DEF WriteRow
<1>1. Others(t)
  BY <1>0 DEF WriteRow, Goto, Others, TypeOK, history
<1>2. At(t, "add") /\ call[t].op = "add" /\ pc'[t] = "unlock"
  BY DEF WriteRow, Goto, At, TypeOK, Bookkeeping, Stages
<1>3. Stages(t)'
  BY <1>2 DEF WriteRow, Bookkeeping, Stages, At, Ops
<1>4. Holdings(t)'
  BY <1>2 DEF WriteRow, Bookkeeping, Holdings, HeldTables, Held, At, history
<1>5. Answers(t)'
  BY <1>2 DEF WriteRow, Bookkeeping, Answers, At, Table, history
<1>6. ReportedStored' /\ (ddl.state = "holding" => ~Held(t, ddl.table)')
  BY DEF WriteRow, Bookkeeping, ReportedStored, ExclusiveAlone, Held, history
<1> QED
  BY <1>1, <1>3, <1>4, <1>5, <1>6, OwnStep DEF WriteRow, Kept, history

LEMMA UnlockTablesKept ==
  ASSUME TypeOK, Bookkeeping, NEW t \in Threads, UnlockTables(t)
  PROVE  Bookkeeping'
<1>1. Others(t)
  BY DEF UnlockTables, Return, Goto, Others, TypeOK
<1>2. /\ At(t, "unlock")
      /\ call[t].op \in Ops /\ Table(t) \in Tables /\ call[t].key \in Keys
      /\ pc'[t] = IF call[t].op = "get" THEN "close" ELSE "idle"
      /\ locked'[t] = None /\ ~written'[t]
      /\ call[t].op = "get" => UNCHANGED <<call, result>>
  BY CallHasTable DEF UnlockTables, Return, Goto, At, TypeOK, Bookkeeping
<1>3. Stages(t)'
  BY <1>2 DEF UnlockTables, Bookkeeping, Stages, At, Ops
<1>4. Holdings(t)'
  BY <1>2 DEF UnlockTables, Bookkeeping, Holdings, HeldTables, Held, At, Ops
<1>5. reported \subseteq reported'
  BY DEF UnlockTables
<1>6. Answers(t)'
  BY <1>2, <1>5 DEF UnlockTables, Bookkeeping, Answers, At, Table
<1>7. ReportedStored'
  <2>1. CASE written[t]
    <3>1. rows' = [rows EXCEPT ![Table(t)] = @ \cup {call[t].key}]
      BY <2>1 DEF UnlockTables
    <3>2. reported' \subseteq reported \cup {<<Table(t), call[t].key>>}
      BY DEF UnlockTables
    <3> QED
      BY <1>2, <3>1, <3>2 DEF Bookkeeping, ReportedStored, TypeOK
  <2>2. CASE ~written[t]
    BY <2>2 DEF UnlockTables, Bookkeeping, ReportedStored
  <2> QED
    BY <2>1, <2>2
<1>8. ddl.state = "holding" => ~Held(t, ddl.table)'
  BY DEF UnlockTables, Bookkeeping, ExclusiveAlone, Held
<1> QED
  BY <1>1, <1>3, <1>4, <1>5, <1>6, <1>7, <1>8, OwnStep DEF UnlockTables, Kept

LEMMA CloseTablesKept ==
  ASSUME TypeOK, Bookkeeping, NEW t \in Threads, CloseTables(t)
  PROVE  Bookkeeping'
<1>1. Others(t)
  BY DEF CloseTables, Goto, Others, TypeOK, history
<1>2. At(t, "close") /\ call[t].op = "get" /\ pc'[t] = "release"
  BY DEF CloseTables, Goto, At, TypeOK, Bookkeeping, Stages
<1>3. Stages(t)'
  BY <1>2 DEF CloseTables, Bookkeeping, Stages, At, Ops
<1>4. Holdings(t)'
  BY <1>2 DEF CloseTables, Bookkeeping, Holdings, HeldTables, Held, At, history, TypeOK
<1>5. Answers(t)'
  BY <1>2 DEF CloseTables, Bookkeeping, Answers, At, Table, history
<1>6. ReportedStored' /\ (ddl.state = "holding" => ~Held(t, ddl.table)')
  BY DEF CloseTables, Bookkeeping, ReportedStored, ExclusiveAlone, Held, history
<1> QED
  BY <1>1, <1>3, <1>4, <1>5, <1>6, OwnStep DEF CloseTables, Kept, history

LEMMA ReleaseLocksKept ==
  ASSUME TypeOK, Bookkeeping, NEW t \in Threads, ReleaseLocks(t)
  PROVE  Bookkeeping'
<1>1. Others(t)
  BY DEF ReleaseLocks, Return, Goto, Others, TypeOK
<1>2. /\ At(t, "release") /\ call[t].op = "get" /\ pc'[t] = "idle"
      /\ mdl'[t] = {} /\ stranded'[t] = {}
      /\ retained'[t] = [tb \in Tables |-> 0] /\ ~seen'[t]
  BY DEF ReleaseLocks, Return, Goto, At, TypeOK, Bookkeeping, Stages
<1>3. Stages(t)'
  BY <1>2 DEF ReleaseLocks, Bookkeeping, Stages, At, Ops
<1>4. Holdings(t)'
  <2>1. opened'[t] = [tb \in Tables |-> 0]
    BY <1>2 DEF ReleaseLocks, Bookkeeping, Holdings
  <2>2. {tb \in Tables : opened'[t][tb] > 0} = {}
    BY <2>1
  <2>3. HeldTables(t)' = {}
    BY <1>2 DEF HeldTables, Held
  <2> QED
    BY <1>2, <2>1, <2>2, <2>3 DEF Holdings, At
<1>5. Answers(t)'
  BY <1>2 DEF Answers
<1>6. ReportedStored' /\ (ddl.state = "holding" => ~Held(t, ddl.table)')
  BY <1>2 DEF ReleaseLocks, Bookkeeping, ReportedStored, Held
<1> QED
  BY <1>1, <1>3, <1>4, <1>5, <1>6, OwnStep DEF ReleaseLocks, Kept

LEMMA DdlKept ==
  ASSUME Bookkeeping, AskExclusive \/ GrantExclusive \/ ReleaseExclusive
  PROVE  Bookkeeping'
<1>1. UNCHANGED <<calls, rows, history>>
  BY DEF AskExclusive, GrantExclusive, ReleaseExclusive
<1>2. ExclusiveAlone'
  <2>1. CASE AskExclusive
    BY <2>1 DEF AskExclusive, ExclusiveAlone
  <2>2. CASE GrantExclusive
    BY <1>1, <2>2 DEF GrantExclusive, ExclusiveAlone, Held, calls
  <2>3. CASE ReleaseExclusive
    BY <2>3 DEF ReleaseExclusive, ExclusiveAlone, NoDdl
  <2> QED
    BY <2>1, <2>2, <2>3
<1>3. ASSUME NEW t \in Threads PROVE Kept(t)'
  <2>1. Stages(t)'
    BY <1>1 DEF Bookkeeping, Stages, At, calls
  <2>2. Holdings(t)'
    BY <1>1 DEF Bookkeeping, Holdings, HeldTables, Held, At, calls, history
  <2>3. Answers(t)'
    BY <1>1 DEF Bookkeeping, Answers, At, Table, calls, history
  <2> QED
    BY <2>1, <2>2, <2>3 DEF Kept
<1>4. ReportedStored'
  BY <1>1 DEF Bookkeeping, ReportedStored, history
<1> QED
  BY <1>2, <1>3, <1>4 DEF Bookkeeping, Kept

-------------------------------------------------------------------------------
LEMMA Step ==
  ASSUME TypeOK, Bookkeeping, [Next]_vars
  PROVE  TypeOK' /\ Bookkeeping'
<1>1. CASE UNCHANGED vars
  <2>1. TypeOK'
    BY <1>1 DEF TypeOK, vars, calls, history
  <2>2. ASSUME NEW t \in Threads PROVE Kept(t)'
    <3>1. Stages(t)'
      BY <1>1 DEF Bookkeeping, Stages, At, vars, calls
    <3>2. Holdings(t)'
      BY <1>1 DEF Bookkeeping, Holdings, HeldTables, Held, At, vars, calls, history
    <3>3. Answers(t)'
      BY <1>1 DEF Bookkeeping, Answers, At, Table, vars, calls, history
    <3> QED
      BY <3>1, <3>2, <3>3 DEF Kept
  <2>3. ReportedStored' /\ ExclusiveAlone'
    BY <1>1 DEF Bookkeeping, ReportedStored, ExclusiveAlone, Held, vars, calls, history
  <2> QED
    BY <2>1, <2>2, <2>3 DEF Bookkeeping, Kept
<1>2. CASE AskExclusive \/ GrantExclusive \/ ReleaseExclusive
  BY <1>2, DdlTyped, DdlKept
<1>3. ASSUME NEW t \in Threads, Begin(t) \/ OpenFails(t) \/ CallStep(t)
      PROVE  TypeOK' /\ Bookkeeping'
  <2>0. Stages(t)
    BY DEF Bookkeeping
  <2>1. CASE Begin(t)
    BY <2>1, BeginTyped, BeginKept
  <2>2. CASE OpenFails(t)
    BY <2>0, <2>2, OpenFailsTyped, OpenFailsKept
  <2>3. CASE Open(t)
    BY <2>0, <2>3, OpenTyped, OpenKept
  <2>4. CASE LockTables(t)
    BY <2>0, <2>4, LockTablesTyped, LockTablesKept
  <2>5. CASE Read(t)
    BY <2>5, ReadTyped, ReadKept
  <2>6. CASE WriteRow(t)
    BY <2>6, WriteRowTyped, WriteRowKept
  <2>7. CASE UnlockTables(t)
    BY <2>0, <2>7, UnlockTablesTyped, UnlockTablesKept
  <2>8. CASE CloseTables(t)
    BY <2>8, CloseTablesTyped, CloseTablesKept
  <2>9. CASE ReleaseLocks(t)
    BY <2>9, ReleaseLocksTyped, ReleaseLocksKept
  <2> QED
    BY <1>3, <2>1, <2>2, <2>3, <2>4, <2>5, <2>6, <2>7, <2>8, <2>9 DEF CallStep
<1> QED
  BY <1>1, <1>2, <1>3 DEF Next

\* Types, and the books of every thread, are kept by every behaviour of get,
\* add and the schema changes of others (Database.cpp 237-440).
THEOREM Booked == Spec => [](TypeOK /\ Bookkeeping)
<1>1. Init => TypeOK /\ Bookkeeping
  BY InitTyped, InitKept
<1>2. TypeOK /\ Bookkeeping /\ [Next]_vars => TypeOK' /\ Bookkeeping'
  BY Step
<1> QED
  BY <1>1, <1>2, PTL DEF Spec

(***************************************************************************)
(* A call holds what it has opened, locked and been granted, of the kinds  *)
(* the server gives (Database.cpp 183-433).                                *)
(***************************************************************************)
THEOREM Typed == Spec => []TypeOK
  BY Booked, PTL

\* No thread uses or keeps open a table while its definition is changed, for
\* any number of threads and tables, though an add closes nothing.
THEOREM Protected == Spec => []OpenTablesProtected
<1>1. TypeOK /\ Bookkeeping => OpenTablesProtected
  <2> SUFFICES ASSUME TypeOK, Bookkeeping, NEW t \in Threads, NEW tb \in Tables,
                      opened[t][tb] > 0
               PROVE  Held(t, tb) /\ ddl # [state |-> "holding", table |-> tb]
    BY DEF OpenTablesProtected
  <2>1. ~At(t, "release")
    BY DEF Bookkeeping, Holdings
  <2>2. Held(t, tb)
    BY <2>1 DEF Bookkeeping, Holdings, HeldTables
  <2> QED
    BY <2>2 DEF Bookkeeping, ExclusiveAlone
<1> QED
  BY <1>1, Booked, PTL

\* Between its calls a thread has open what its adds opened since its last get
\* that read, metadata locks of these tables and of those it could not open,
\* and nothing locked or uncommitted (Database.cpp 259-262, 365-369, 397-400,
\* 437).
THEOREM IdleBooks == Spec => []IdleKeepsItsAdds
<1>1. TypeOK /\ Bookkeeping => IdleKeepsItsAdds
  <2> SUFFICES ASSUME Bookkeeping, NEW t \in Threads, At(t, "idle")
               PROVE  /\ locked[t] = None /\ ~written[t]
                      /\ opened[t] = retained[t]
                      /\ HeldTables(t) = LeftBehind(t)
    BY DEF IdleKeepsItsAdds
  <2>1. locked[t] = None /\ ~written[t]
    BY DEF Bookkeeping, Stages, At
  <2>2. opened[t] = retained[t]
    BY DEF Bookkeeping, Holdings
  <2>3. HeldTables(t) = {tb \in Tables : opened[t][tb] > 0} \cup stranded[t]
    BY DEF Bookkeeping, Holdings, At
  <2> QED
    BY <2>1, <2>2, <2>3 DEF LeftBehind
<1> QED
  BY <1>1, Booked, PTL

\* A get finds the row of an add that had returned true when the get began.
THEOREM ReportedFound == Spec => []GetFindsReported
<1>1. TypeOK /\ Bookkeeping => GetFindsReported
  BY DEF Bookkeeping, Answers, GetFindsReported
<1> QED
  BY <1>1, Booked, PTL
===============================================================================
