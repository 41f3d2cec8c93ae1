---------------------------- MODULE ZqlIndexProofs ----------------------------
(***************************************************************************)
(* What the insert path builds: the trees of ZqlInsert keep their shape    *)
(* through every race and restart, and until the first race each life of   *)
(* the daemon implements OpeIndex, whatever the number of workers, inserts *)
(* and tables, the values and the width of the word.                       *)
(***************************************************************************)
EXTENDS ZqlInsertProofs, FiniteSetTheorems

(***************************************************************************)
(* The shifts of the walk spell its turns, and its last one the label.     *)
(***************************************************************************)
LEMMA EmptyWords == TurnBits(<<>>) = ZeroWord /\ Label(<<>>) = RootPath
  BY PathBitsAssumption DEF TurnBits, ZeroWord, Label, RootPath

LEMMA PushedTurn ==
  ASSUME NEW p \in Seq(Bit), NEW b \in Bit
  PROVE  PushBit(TurnBits(p), b) = TurnBits(Append(p, b))
<1> DEFINE q == Append(p, b)
           v == TurnBits(p)
<1>1. Len(p) \in Nat /\ Len(q) = Len(p) + 1 /\ PathBits \in Nat \ {0}
  BY PathBitsAssumption
<1>2. \A i \in 1..Len(p) : q[i] = p[i]
  OBVIOUS
<1>3. q[Len(p) + 1] = b
  OBVIOUS
<1>4. PushBit(v, b) = [i \in 1..PathBits |->
                        IF i = PathBits THEN b
                        ELSE IF i + 1 <= PathBits THEN v[i + 1] ELSE 0]
  BY DEF PushBit, Shl
<1>5. ASSUME NEW i \in 1..PathBits
      PROVE  PushBit(v, b)[i] = TurnBits(q)[i]
  <2>1. TurnBits(q)[i] = IF Len(q) - PathBits + i \in 1..Len(q)
                         THEN q[Len(q) - PathBits + i] ELSE 0
    BY DEF TurnBits
  <2>2. CASE i = PathBits
    BY <1>1, <1>3, <1>4, <2>1, <2>2
  <2>3. CASE i # PathBits
    <3>1. i + 1 \in 1..PathBits
      BY <1>1, <2>3
    <3>2. PushBit(v, b)[i] = v[i + 1]
      BY <1>1, <1>4, <2>3, <3>1
    <3>3. v[i + 1] = IF Len(p) - PathBits + (i + 1) \in 1..Len(p)
                     THEN p[Len(p) - PathBits + (i + 1)] ELSE 0
      BY <3>1 DEF TurnBits
    <3>4. Len(q) - PathBits + i = Len(p) - PathBits + (i + 1)
      BY <1>1
    <3>5. Len(p) - PathBits + (i + 1) <= Len(p)
      BY <1>1, <2>3
    <3> HIDE DEF q, v
    <3> QED
      BY <1>1, <1>2, <2>1, <3>2, <3>3, <3>4, <3>5
  <2> QED
    BY <2>2, <2>3
<1>6. /\ PushBit(v, b) = [i \in 1..PathBits |-> PushBit(v, b)[i]]
      /\ TurnBits(q) = [i \in 1..PathBits |-> TurnBits(q)[i]]
  BY <1>4 DEF TurnBits
<1> HIDE DEF q, v
<1>7. PushBit(v, b) = TurnBits(q)
  BY <1>5, <1>6
<1> QED
  BY <1>7 DEF q, v

LEMMA FinishedLabel ==
  ASSUME NEW p \in Seq(Bit), Len(p) < PathBits
  PROVE  FinishPath(TurnBits(p), Len(p)) = Label(p)
<1> DEFINE q == Append(p, 1)
           n == PathBits - 1 - Len(p)
<1>1. /\ Len(p) \in Nat /\ Len(q) = Len(p) + 1 /\ PathBits \in Nat \ {0}
      /\ q[Len(p) + 1] = 1 /\ \A i \in 1..Len(p) : q[i] = p[i]
  BY PathBitsAssumption
<1>2. n \in Nat /\ n < PathBits /\ n % PathBits = n
  BY <1>1
<1>3. PushBit(TurnBits(p), 1) = TurnBits(q)
  BY PushedTurn DEF Bit
<1>4. FinishPath(TurnBits(p), Len(p)) = Shl(TurnBits(q), n)
  BY <1>2, <1>3 DEF FinishPath
<1>5. ASSUME NEW i \in 1..PathBits
      PROVE  Shl(TurnBits(q), n)[i] = Label(p)[i]
  <2>1. Shl(TurnBits(q), n)[i] = IF i + n <= PathBits
                                 THEN TurnBits(q)[i + n] ELSE 0
    BY DEF Shl
  <2>2. Label(p)[i] = IF i <= Len(p) THEN p[i]
                      ELSE IF i = Len(p) + 1 THEN 1 ELSE 0
    BY DEF Label
  <2>3. CASE i <= Len(p) + 1
    <3>1. i + n \in 1..PathBits /\ Len(q) - PathBits + (i + n) = i
      BY <1>1, <1>2, <2>3
    <3>2. i \in 1..Len(q)
      BY <1>1, <2>3
    <3>3. TurnBits(q)[i + n] = q[i]
      BY <3>1, <3>2 DEF TurnBits
    <3> HIDE DEF q, n
    <3> QED
      BY <1>1, <2>1, <2>2, <2>3, <3>1, <3>3
  <2>4. CASE ~(i <= Len(p) + 1)
    BY <1>1, <2>1, <2>2, <2>4
  <2> QED
    BY <2>3, <2>4
<1>6. /\ Shl(TurnBits(q), n) = [i \in 1..PathBits |-> Shl(TurnBits(q), n)[i]]
      /\ Label(p) = [i \in 1..PathBits |-> Label(p)[i]]
  BY DEF Shl, Label
<1> HIDE DEF q, n
<1> QED
  BY <1>4, <1>5, <1>6

-----------------------------------------------------------------------------
(***************************************************************************)
(* What a step on one insert leaves of the others'.                        *)
(***************************************************************************)
Same(x) == /\ x \in DOMAIN nodes' <=> x \in DOMAIN nodes
           /\ x \in DOMAIN travs' <=> x \in DOMAIN travs
           /\ x \in DOMAIN travs => travs'[x].cur = travs[x].cur
           /\ answer'[x] = answer[x]

PlacesKept == \A n \in DOMAIN nodes :
                n \in DOMAIN nodes' /\ nodes'[n].pos = nodes[n].pos

LEMMA MessageStaysFit ==
  ASSUME NEW m, MessageFits(m), Same(Owner(m))
  PROVE  MessageFits(m)'
  BY DEF MessageFits, Same, Begun, Answerable, Owner

LEMMA HandlerStaysFit ==
  ASSUME NEW w \in Workers, HandlerFits(wk[w]), HandlerOK(wk[w]),
         Same(Owner(wk[w].msg)), PlacesKept, wk'[w] = wk[w]
  PROVE  HandlerFits(wk[w])'
  BY DEF HandlerFits, HandlerOK, Same, PlacesKept, Begun, Answerable, Owner

LEMMA IdleFits ==
  ASSUME NEW w \in Workers, wk'[w].pc = "idle", wk'[w].msg = NoMsg,
         wk'[w].ask = NULL
  PROVE  HandlerFits(wk[w])'
  BY DEF HandlerFits, NoMsg

\* A step on insert o alone keeps what the messages and handlers of the
\* others rely on.
LEMMA OthersStayFit ==
  ASSUME TypeOK, Conversation, Growth, NEW o, PlacesKept,
         \A x \in Ops \ {o} : Same(x)
  PROVE  /\ \A m \in inbox \cup outbox : Owner(m) # o => MessageFits(m)'
         /\ \A w \in Workers :
              /\ w \in Busy => Owner(wk[w].msg) # o
              /\ wk'[w] = wk[w]
              => HandlerFits(wk[w])'
<1>1. ASSUME NEW m \in inbox \cup outbox, Owner(m) # o
      PROVE  MessageFits(m)'
  <2>1. Owner(m) \in Ops \ {o}
    BY <1>1, OwnerIsOp
  <2> QED
    BY <2>1, MessageStaysFit DEF Growth
<1>2. ASSUME NEW w \in Workers, w \in Busy => Owner(wk[w].msg) # o,
             wk'[w] = wk[w]
      PROVE  HandlerFits(wk[w])'
  <2>1. CASE w \in Busy
    <3>1. Owner(wk[w].msg) \in Ops \ {o}
      BY <1>2, <2>1, BusyIs
    <3> QED
      BY <1>2, <3>1, HandlerStaysFit DEF Growth, TypeOK, WorkerTypeOK
  <2>2. CASE w \notin Busy
    <3>1. wk[w].pc = "idle" /\ wk[w].msg = NoMsg
      BY <2>2, BusyIs DEF Busy
    <3>2. wk[w].ask = NULL
      BY <3>1 DEF Conversation, OwnWalks
    <3> QED
      BY <1>2, <3>1, <3>2, IdleFits
  <2> QED
    BY <2>1, <2>2
<1> QED
  BY <1>1, <1>2

LEMMA RowsStillFollow ==
  ASSUME TypeOK, RowsFollow, PlacesKept, UNCHANGED <<rows, epoch>>
  PROVE  RowsFollow'
  BY DEF RowsFollow, PlacesKept

LEMMA TreesStand ==
  ASSUME TreesShaped, OneTree,
         UNCHANGED <<nodes, forest, travs>>, raced => raced'
  PROVE  TreesShaped' /\ OneTree'
  BY DEF TreesShaped, KidsBelow, RootsOnTop, WalksInTable, WalksSpellPlaces, Below,
         OneTree, OnePlaceEach, AllReached

(***************************************************************************)
(* A step inside the handler of w keeps Growth if it keeps the trees, the  *)
(* rows and what w's own handler relies on.                                *)
(***************************************************************************)
LEMMA HandlerGrows ==
  ASSUME TypeOK, Conversation, Growth, NEW w \in Busy,
         \A x \in Workers \ {w} : wk'[x] = wk[x],
         UNCHANGED <<inbox, outbox, clientVars>>,
         \A x \in Ops \ {Owner(wk[w].msg)} : Same(x), PlacesKept,
         HandlerFits(wk[w])',
         TreesShaped', OneTree', RowsFollow'
  PROVE  Growth'
<1> DEFINE o == Owner(wk[w].msg)
<1>1. /\ o \in Ops /\ w \in Workers
      /\ cstate[o] = "waiting"
      /\ \A m \in inbox \cup outbox : Owner(m) # o
      /\ \A x \in Busy : x # w => Owner(wk[x].msg) # o
  BY BusyIs DEF Conversation, AllNamed, Named, OneCarrier, Busy
<1>2. \A m \in inbox \cup outbox : MessageFits(m)'
  BY <1>1, OthersStayFit
<1>3. \A x \in Workers : HandlerFits(wk[x])'
  BY <1>1, OthersStayFit
<1>4. \A x \in Ops : cstate'[x] = "queued" => ~Begun(x)' /\ answer'[x] = NoAnswer
  BY <1>1 DEF Growth, Begun, Same, clientVars
<1> QED
  BY <1>2, <1>3, <1>4 DEF Growth
-----------------------------------------------------------------------------
(***************************************************************************)
(* The four operations on the trees keep their shape.                      *)
(***************************************************************************)
LEMMA RootShapes ==
  ASSUME TypeOK, TreesShaped, OneTree,
         NEW o \in OpeOps, ~Begun(o),
         nodes' = Put(nodes, o, NewNode(<<>>)), travs' = travs,
         forest' \in {forest, [forest EXCEPT ![Key[o]] = o]},
         raced => raced',
         ~raced' => /\ forest[Key[o]] = NULL
                    /\ forest' = [forest EXCEPT ![Key[o]] = o]
  PROVE  TreesShaped' /\ OneTree'
<1>1. /\ DOMAIN nodes' = DOMAIN nodes \cup {o}
      /\ o \notin DOMAIN nodes /\ o \notin DOMAIN travs
      /\ nodes'[o].pos = <<>> /\ \A b \in Bit : nodes'[o].kid[b] = NULL
      /\ \A n \in DOMAIN nodes : nodes'[n] = nodes[n]
  BY DEF Put, NewNode, Begun
<1>2. /\ BTreeTypeOK
      /\ Key[o] \in Keys /\ o \in Ops
      /\ DOMAIN nodes \subseteq OpeOps
      /\ \A n \in DOMAIN nodes : \A b \in Bit :
           nodes[n].kid[b] \in DOMAIN nodes \cup {NULL}
      /\ \A n \in DOMAIN nodes : nodes[n].pos \in Seq(Bit) /\ Key[n] \in Keys
      /\ forest \in [Keys -> DOMAIN nodes \cup {NULL}]
      /\ \A t \in DOMAIN travs : travs[t].cur \in DOMAIN nodes
      /\ NULL \notin OpeOps
  BY InsertsAssumption DEF TypeOK, BTreeTypeOK, Keys
<1>3. KidsBelow'
  BY <1>1, <1>2 DEF TreesShaped, KidsBelow, Below
<1>4. RootsOnTop'
  BY <1>1, <1>2 DEF TreesShaped, RootsOnTop
<1>5. WalksInTable' /\ WalksSpellPlaces'
  BY <1>1, <1>2 DEF TreesShaped, WalksInTable, WalksSpellPlaces
<1>6. ASSUME ~raced'
      PROVE  OnePlaceEach' /\ AllReached'
  <2>1. /\ forest[Key[o]] = NULL
        /\ forest' = [forest EXCEPT ![Key[o]] = o]
        /\ OnePlaceEach /\ AllReached
    BY <1>6 DEF OneTree
  <2>2. \A n \in DOMAIN nodes : Key[n] # Key[o]
    BY <2>1 DEF AllReached
  <2>3. \A b \in Bit : Append(<<>>, b) # <<>>
    OBVIOUS
  <2>4. OnePlaceEach'
    BY <1>1, <2>1, <2>2, <2>3 DEF OnePlaceEach, Below
  <2>5. AllReached'
    <3>1. \A c \in DOMAIN nodes' : forest'[Key[c]] # NULL
      BY <1>1, <1>2, <2>1, <2>2 DEF AllReached
    <3>2. ASSUME NEW c \in DOMAIN nodes', nodes'[c].pos # <<>>
          PROVE  \E n \in DOMAIN nodes' : \E b \in Bit : Below(n, b, c)'
      <4>1. c \in DOMAIN nodes
        BY <1>1, <3>2
      <4>2. PICK n \in DOMAIN nodes, b \in Bit : Below(n, b, c)
        BY <1>1, <2>1, <3>2, <4>1 DEF AllReached
      <4>3. Below(n, b, c)' /\ n \in DOMAIN nodes'
        BY <1>1, <4>1, <4>2 DEF Below
      <4> QED
        BY <4>3
    <3> QED
      BY <3>1, <3>2 DEF AllReached
  <2> QED
    BY <2>4, <2>5
<1> QED
  BY <1>3, <1>4, <1>5, <1>6 DEF TreesShaped, OneTree

LEMMA NewWalkShapes ==
  ASSUME TypeOK, TreesShaped, OneTree,
         NEW o \in OpeOps, ~Begun(o), NEW r \in DOMAIN nodes,
         Key[r] = Key[o], nodes[r].pos = <<>>,
         travs' = Put(travs, o, NewTraverse(r)), UNCHANGED <<nodes, forest>>,
         raced => raced'
  PROVE  TreesShaped' /\ OneTree'
<1>1. /\ DOMAIN travs' = DOMAIN travs \cup {o}
      /\ o \notin DOMAIN nodes /\ o \notin DOMAIN travs
      /\ travs'[o] = [cur |-> r, path |-> ZeroWord, len |-> 0]
      /\ \A t \in DOMAIN travs : travs'[t] = travs[t]
  BY DEF Put, NewTraverse, Begun
<1>2. KidsBelow' /\ RootsOnTop'
  BY DEF TreesShaped, KidsBelow, RootsOnTop, Below
<1>3. WalksInTable'
  BY <1>1 DEF TreesShaped, WalksInTable
<1>4. WalksSpellPlaces'
  BY <1>1, EmptyWords DEF TreesShaped, WalksSpellPlaces
<1>5. OneTree'
  BY DEF OneTree, OnePlaceEach, AllReached, Below
<1> QED
  BY <1>2, <1>3, <1>4, <1>5 DEF TreesShaped

LEMMA StepDownShapes ==
  ASSUME TypeOK, TreesShaped, OneTree,
         NEW t \in DOMAIN travs, t \notin DOMAIN nodes, NEW b \in Bit,
         Child(t, b) # NULL, StepDown(t, b), raced => raced'
  PROVE  TreesShaped' /\ OneTree'
<1> DEFINE c == Child(t, b)
           n == travs[t].cur
<1>1. /\ n \in DOMAIN nodes
      /\ nodes[n].pos \in Seq(Bit)
      /\ c \in DOMAIN nodes
      /\ travs[t].len \in Nat
  BY DEF TypeOK, BTreeTypeOK, Child
<1>2. /\ Key[c] = Key[n]
      /\ nodes[c].pos = Append(nodes[n].pos, b)
      /\ Key[n] = Key[t]
  BY <1>1 DEF TreesShaped, KidsBelow, WalksInTable, Below, Child
<1>3. /\ travs' = [travs EXCEPT ![t] =
           [cur |-> c, path |-> PushBit(travs[t].path, b), len |-> travs[t].len + 1]]
      /\ UNCHANGED <<nodes, forest>>
  BY DEF StepDown
<1>4. /\ DOMAIN travs' = DOMAIN travs
      /\ travs'[t] =
           [cur |-> c, path |-> PushBit(travs[t].path, b), len |-> travs[t].len + 1]
      /\ \A x \in DOMAIN travs \ {t} : travs'[x] = travs[x]
  BY <1>3
<1> HIDE DEF c, n
<1>5. KidsBelow' /\ RootsOnTop'
  BY <1>3 DEF TreesShaped, KidsBelow, RootsOnTop, Below
<1>6. WalksInTable'
  BY <1>1, <1>2, <1>3, <1>4 DEF TreesShaped, WalksInTable
<1>7. WalksSpellPlaces'
  <2>1. /\ travs[t].len = Len(nodes[n].pos)
        /\ travs[t].path = TurnBits(nodes[n].pos)
    BY DEF TreesShaped, WalksSpellPlaces, n
  <2>2. /\ Len(nodes[c].pos) = travs'[t].len
        /\ travs'[t].path = TurnBits(nodes[c].pos)
    BY <1>1, <1>2, <1>4, <2>1, PushedTurn
  <2>3. travs'[t].cur = c
    BY <1>4
  <2> QED
    BY <1>3, <1>4, <2>2, <2>3 DEF TreesShaped, WalksSpellPlaces
<1>8. OneTree'
  BY <1>3 DEF OneTree, OnePlaceEach, AllReached, Below
<1> QED
  BY <1>5, <1>6, <1>7, <1>8 DEF TreesShaped
LEMMA AppendedIs ==
  ASSUME NEW p \in Seq(Bit), NEW q \in Seq(Bit), NEW b \in Bit, NEW c \in Bit,
         Append(p, b) = Append(q, c)
  PROVE  p = q /\ b = c
<1>1. Len(p) = Len(q) /\ Len(p) \in Nat
  <2>1. Len(Append(p, b)) = Len(p) + 1 /\ Len(Append(q, c)) = Len(q) + 1
    OBVIOUS
  <2> QED
    BY <2>1
<1>2. b = c
  <2>1. Append(p, b)[Len(p) + 1] = b /\ Append(q, c)[Len(q) + 1] = c
    OBVIOUS
  <2> QED
    BY <1>1, <2>1
<1>3. ASSUME NEW i \in 1..Len(p)
      PROVE  p[i] = q[i]
  <2>1. Append(p, b)[i] = p[i] /\ Append(q, c)[i] = q[i]
    BY <1>1
  <2> QED
    BY <2>1
<1> HIDE DEF Bit
<1> QED
  BY <1>1, <1>2, <1>3

LEMMA AttachLeafShapes ==
  ASSUME TypeOK, TreesShaped, OneTree,
         NEW t \in DOMAIN travs, t \notin DOMAIN nodes, NEW b \in Bit,
         AttachLeaf(t, b), raced => raced', ~raced' => Child(t, b) = NULL
  PROVE  TreesShaped' /\ OneTree' /\ PlacesKept
<1>0. PICK n, P : n = travs[t].cur /\ P = Append(nodes[n].pos, b)
  OBVIOUS
<1>1. /\ n \in DOMAIN nodes /\ n # t
      /\ nodes[n].pos \in Seq(Bit)
      /\ nodes[n].kid \in [Bit -> DOMAIN nodes \cup {NULL}]
      /\ travs[t].len \in Nat
      /\ Key[n] = Key[t]
      /\ DOMAIN nodes \subseteq OpeOps /\ t \in OpeOps /\ NULL \notin OpeOps
      /\ \A x \in DOMAIN nodes :
           nodes[x] \in [kid : [Bit -> DOMAIN nodes \cup {NULL}], pos : Seq(Bit)]
      /\ \A x \in DOMAIN travs : travs[x].cur \in DOMAIN nodes
      /\ forest \in [Keys -> DOMAIN nodes \cup {NULL}]
  BY <1>0, InsertsAssumption DEF TypeOK, BTreeTypeOK, TreesShaped, WalksInTable
<1>2. /\ DOMAIN nodes' = DOMAIN nodes \cup {t}
      /\ nodes'[t] = NewNode(P)
      /\ nodes'[n] = [nodes[n] EXCEPT !.kid[b] = t]
      /\ \A x \in DOMAIN nodes \ {n} : nodes'[x] = nodes[x]
      /\ forest' = forest
  BY <1>0, <1>1 DEF AttachLeaf, Put
<1>3. /\ nodes'[t].pos = P /\ \A c \in Bit : nodes'[t].kid[c] = NULL
      /\ nodes'[n].pos = nodes[n].pos
      /\ nodes'[n].kid[b] = t
      /\ \A c \in Bit \ {b} : nodes'[n].kid[c] = nodes[n].kid[c]
  BY <1>1, <1>2 DEF NewNode
<1>4. PlacesKept
  BY <1>2, <1>3 DEF PlacesKept
<1>5. /\ DOMAIN travs' = DOMAIN travs
      /\ travs'[t] = [cur |-> t, len |-> travs[t].len + 1,
                      path |-> FinishPath(PushBit(travs[t].path, b),
                                          travs[t].len + 1)]
      /\ \A x \in DOMAIN travs \ {t} : travs'[x] = travs[x]
  BY DEF AttachLeaf
<1>p. P \in Seq(Bit) /\ Len(P) = Len(nodes[n].pos) + 1 /\ P # <<>>
  BY <1>0, <1>1
<1>6. KidsBelow'
  <2> SUFFICES ASSUME NEW x \in DOMAIN nodes', NEW c \in Bit,
                      nodes'[x].kid[c] # NULL
               PROVE  Below(x, c, nodes[x].kid[c])'
    BY DEF KidsBelow
  <2>1. CASE x = n /\ c = b
    BY <1>1, <1>3, <1>0, <2>1 DEF Below
  <2>2. CASE x \in DOMAIN nodes /\ ~(x = n /\ c = b)
    <3>1. nodes'[x].kid[c] = nodes[x].kid[c]
      BY <1>2, <1>3, <2>2
    <3>2. nodes[x].kid[c] \in DOMAIN nodes
      BY <1>1, <2>2, <3>1
    <3>3. Below(x, c, nodes[x].kid[c])
      BY <2>2, <3>1 DEF TreesShaped, KidsBelow
    <3> QED
      BY <1>4, <2>2, <3>1, <3>2, <3>3 DEF Below, PlacesKept
  <2>3. CASE x = t
    BY <1>3, <2>3
  <2> QED
    BY <1>2, <2>1, <2>2, <2>3
<1>7. RootsOnTop'
  BY <1>1, <1>2, <1>4 DEF TreesShaped, RootsOnTop, PlacesKept
<1>8. WalksInTable'
  BY <1>1, <1>2, <1>5 DEF TreesShaped, WalksInTable
<1>9. WalksSpellPlaces'
  <2>1. /\ travs[t].len = Len(nodes[n].pos)
        /\ travs[t].path = TurnBits(nodes[n].pos)
    BY <1>0 DEF TreesShaped, WalksSpellPlaces
  <2>2. PushBit(travs[t].path, b) = TurnBits(P)
    BY <1>1, <1>0, <2>1, PushedTurn
  <2>3. /\ travs'[t].len = Len(P)
        /\ Len(P) < PathBits => travs'[t].path = Label(P)
    BY <1>1, <1>5, <1>p, <2>1, <2>2, FinishedLabel
  <2>4. travs'[t].cur = t
    BY <1>5
  <2> QED
    BY <1>1, <1>2, <1>3, <1>4, <1>5, <2>3, <2>4
       DEF TreesShaped, WalksSpellPlaces, PlacesKept
<1>10. ASSUME ~raced'
       PROVE  OnePlaceEach' /\ AllReached'
  <2>1. OnePlaceEach /\ AllReached /\ nodes[n].kid[b] = NULL
    BY <1>0, <1>10 DEF OneTree, Child
  <2>0. \A x, c \in DOMAIN nodes :
          Key[x] = Key[c] /\ nodes[x].pos = nodes[c].pos => x = c
    BY <2>1 DEF OnePlaceEach
  \* The place is free: whoever were there would be the child.
  <2>2. \A c \in DOMAIN nodes : ~(Key[c] = Key[n] /\ nodes[c].pos = P)
    BY <1>1, <1>0, <2>1 DEF OnePlaceEach, Below
  <2>3. \A c \in DOMAIN nodes, d \in Bit :
          ~(Key[c] = Key[n] /\ nodes[c].pos = Append(P, d))
    <3> SUFFICES ASSUME NEW c \in DOMAIN nodes, NEW d \in Bit,
                        Key[c] = Key[n], nodes[c].pos = Append(P, d)
                 PROVE  FALSE
      OBVIOUS
    <3>1. Append(P, d) # <<>>
      BY <1>p
    <3>2. PICK x \in DOMAIN nodes, e \in Bit : Below(x, e, c)
      BY <2>1, <3>1 DEF AllReached
    <3>3. Append(nodes[x].pos, e) = Append(P, d) /\ nodes[x].pos \in Seq(Bit)
      BY <1>1, <3>2 DEF Below
    <3>4. nodes[x].pos = P
      BY <1>p, <3>3, AppendedIs
    <3> QED
      BY <2>2, <3>2, <3>4 DEF Below
  <2>4. OnePlaceEach'
    <3> SUFFICES ASSUME NEW x \in DOMAIN nodes', NEW c \in DOMAIN nodes'
                 PROVE  /\ Key[x] = Key[c] /\ nodes'[x].pos = nodes'[c].pos => x = c
                        /\ \A d \in Bit : Below(x, d, c)' => nodes'[x].kid[d] = c
      BY DEF OnePlaceEach
    <3>1. CASE x \in DOMAIN nodes /\ c \in DOMAIN nodes
      <4>1. nodes'[x].pos = nodes[x].pos /\ nodes'[c].pos = nodes[c].pos
        BY <1>4, <3>1 DEF PlacesKept
      <4>2. ASSUME NEW d \in Bit, Below(x, d, c)'
            PROVE  nodes'[x].kid[d] = c
        <5>1. Below(x, d, c)
          BY <4>1, <4>2 DEF Below
        <5>2. nodes[x].kid[d] = c
          BY <2>1, <3>1, <5>1 DEF OnePlaceEach
        <5>3. c # NULL
          BY <1>1, <3>1
        <5> QED
          BY <1>2, <1>3, <2>1, <3>1, <5>2, <5>3
      <4> QED
        BY <2>1, <3>1, <4>1, <4>2 DEF OnePlaceEach
    <3>2. CASE x = t /\ c \in DOMAIN nodes
      <4>1. nodes'[x].pos = P /\ nodes'[c].pos = nodes[c].pos /\ Key[x] = Key[n]
        BY <1>1, <1>3, <1>4, <3>2 DEF PlacesKept
      <4> QED
        BY <2>2, <2>3, <3>2, <4>1 DEF Below
    <3>3. CASE x \in DOMAIN nodes /\ c = t
      <4>1. nodes'[c].pos = P /\ nodes'[x].pos = nodes[x].pos /\ Key[c] = Key[n]
        BY <1>1, <1>3, <1>4, <3>3 DEF PlacesKept
      <4>2. ASSUME NEW d \in Bit, Below(x, d, c)'
            PROVE  nodes'[x].kid[d] = c
        <5>1. Append(nodes[x].pos, d) = Append(nodes[n].pos, b) /\ Key[x] = Key[n]
          BY <1>0, <4>1, <4>2 DEF Below
        <5>2. nodes[x].pos \in Seq(Bit) /\ nodes[n].pos \in Seq(Bit)
          BY <1>1, <3>3
        <5>3. nodes[x].pos = nodes[n].pos /\ d = b
          <6>1. PICK p, q : p = nodes[x].pos /\ q = nodes[n].pos
            OBVIOUS
          <6>2. p \in Seq(Bit) /\ q \in Seq(Bit) /\ Append(p, d) = Append(q, b)
            BY <5>1, <5>2, <6>1
          <6>3. p = q /\ d = b
            BY <6>2, AppendedIs
          <6> QED
            BY <6>1, <6>3
        <5>4. x = n
          BY <1>1, <2>0, <3>3, <5>1, <5>3
        <5> QED
          BY <1>3, <3>3, <5>3, <5>4
      <4> QED
        BY <2>2, <3>3, <4>1, <4>2
    <3>4. CASE x = t /\ c = t
      <4>1. \A d \in Bit : Append(P, d) # P
        BY <1>p
      <4> QED
        BY <1>3, <3>4, <4>1 DEF Below
    <3> QED
      BY <1>2, <3>1, <3>2, <3>3, <3>4
  <2>5. AllReached'
    <3>1. ASSUME NEW c \in DOMAIN nodes'
          PROVE  forest'[Key[c]] # NULL
      BY <1>1, <1>2, <2>1, <3>1 DEF AllReached
    <3>2. ASSUME NEW c \in DOMAIN nodes', nodes'[c].pos # <<>>
          PROVE  \E x \in DOMAIN nodes' : \E d \in Bit : Below(x, d, c)'
      <4>1. CASE c = t
        <5>1. Below(n, b, c)'
          BY <1>1, <1>3, <1>0, <4>1 DEF Below
        <5> QED
          BY <1>1, <1>2, <5>1
      <4>2. CASE c \in DOMAIN nodes
        <5>1. nodes'[c].pos = nodes[c].pos
          BY <1>4, <4>2 DEF PlacesKept
        <5>2. PICK x \in DOMAIN nodes, d \in Bit : Below(x, d, c)
          BY <2>1, <3>2, <4>2, <5>1 DEF AllReached
        <5>3. Below(x, d, c)' /\ x \in DOMAIN nodes'
          BY <1>4, <5>1, <5>2 DEF Below, PlacesKept
        <5> QED
          BY <5>3
      <4> QED
        BY <1>2, <4>1, <4>2
    <3> QED
      BY <3>1, <3>2 DEF AllReached
  <2> QED
    BY <2>4, <2>5
<1> QED
  BY <1>4, <1>6, <1>7, <1>8, <1>9, <1>10 DEF TreesShaped, OneTree
-----------------------------------------------------------------------------
(***************************************************************************)
(* The steps inside a handler.                                             *)
(***************************************************************************)
\* A step that leaves the trees alone.
LEMMA StillGrows ==
  ASSUME TypeOK, Conversation, Growth, NEW w \in Busy,
         \A x \in Workers \ {w} : wk'[x] = wk[x],
         UNCHANGED <<inbox, outbox, clientVars, nodes, forest, travs>>,
         raced => raced', HandlerFits(wk[w])',
         RowsFollow' \/ UNCHANGED <<rows, epoch>>
  PROVE  Growth'
<1>1. TreesShaped' /\ OneTree'
  BY TreesStand DEF Growth
<1>2. PlacesKept /\ \A x : Same(x)
  BY DEF PlacesKept, Same, clientVars
<1>3. RowsFollow'
  BY <1>2, RowsStillFollow DEF Growth
<1> QED
  BY <1>1, <1>2, <1>3, HandlerGrows

\* The row of insert o is stored; it was the first.
LEMMA NewRowFollows ==
  ASSUME TypeOK, Conversation, RowsFollow, NEW o \in Ops, ~Closing(o),
         NEW path, NEW d, AddRow(o, path, d), UNCHANGED <<epoch, nodes>>,
         o \in OpeOps => /\ path \in Word /\ o \in DOMAIN nodes
                         /\ d = Len(nodes[o].pos)
  PROVE  RowsFollow'
<1>1. /\ rows[o] = <<>> /\ epoch \in Nat
      /\ rows \in [Ops -> Seq([path : Word \cup {<<>>}, depth : Nat, epoch : Nat])]
  BY DEF Conversation, RowsClose, TypeOK, WorkerTypeOK
<1>2. \/ rows' = rows
      \/ rows' = [rows EXCEPT ![o] = Append(rows[o], Row(path, d))]
  BY DEF AddRow
<1>3. CASE rows' = rows
  BY <1>3 DEF RowsFollow
<1>4. CASE rows' = [rows EXCEPT ![o] = Append(rows[o], Row(path, d))]
  <2>1. /\ \A x \in Ops \ {o} : rows'[x] = rows[x]
        /\ rows'[o] = <<Row(path, d)>>
    BY <1>1, <1>4
  <2>2. /\ rows'[o][1].path = path
        /\ rows'[o][1].depth = d
        /\ rows'[o][1].epoch = epoch
    BY <2>1 DEF Row
  <2> SUFFICES ASSUME NEW x \in OpeOps, rows'[x] # <<>>
               PROVE  /\ rows'[x][1].epoch <= epoch
                      /\ rows'[x][1].path \in Word
                      /\ rows'[x][1].epoch = epoch =>
                           /\ x \in DOMAIN nodes
                           /\ rows'[x][1].depth = Len(nodes[x].pos)
    BY DEF RowsFollow
  <2>3. CASE x = o
    BY <1>1, <2>2, <2>3
  <2>4. CASE x # o
    BY <2>1, <2>4, InsertsAssumption DEF RowsFollow
  <2> QED
    BY <2>3, <2>4
<1> QED
  BY <1>2, <1>3, <1>4

LEMMA InternalGrows ==
  ASSUME TypeOK, Conversation, Growth, NEW w \in Workers, WorkerStep(w),
         ~Recv(w), ~Send(w)
  PROVE  Growth'
<1> DEFINE h == wk[w]
           m == wk[w].msg
           o == Owner(wk[w].msg)
<1>t. /\ BTreeTypeOK
      /\ wk \in [Workers -> Handler]
      /\ h \in Handler
      /\ HandlerOK(h)
      /\ HandlerFits(h)
  BY DEF TypeOK, WorkerTypeOK, Growth
<1>f. /\ h.pc \in PCs
      /\ h.ptr \in OpeOps \cup {NULL}
      /\ h.ask \in OpeOps \cup {NULL}
      /\ NULL \notin Ops /\ OpeOps \subseteq Ops
  BY <1>t, InsertsAssumption DEF Handler
<1>b. h.pc # "idle" => /\ w \in Busy
                       /\ m \in Requests
                       /\ o \in Ops
                       /\ Named(m)
                       /\ m.type = "add" => m.op = o
  BY BusyIs DEF Conversation, AllNamed, Named
<1>a. /\ h.pc # "send" => h.ask = NULL
      /\ h.pc \in {"goTo", "attach", "leafRow"} => h.ptr \in {o, NULL}
  BY DEF Conversation, OwnWalks
<1>c. h.pc \in {"plainRow", "rootRow", "leafRow"} => ~Closing(o)
  <2>1. h.pc # "idle" => w \in Busy
    BY <1>b
  <2> QED
    BY <2>1 DEF Closing
<1>r. raced => raced'
  BY DEF WorkerStep, WorkerNext, Recv, InsertPlain, GetTree, MakeTree, InsertRoot,
         BeginTraverse, GetTraverse, NullTraverse, Descend, FindFree, Attach,
         InsertLeaf, FinishTraverse, Send, MapCrash, NoteMapRace
<1>u. UNCHANGED clientVars
  BY DEF WorkerStep
<1>i. ASSUME h.pc # "idle", NEW pc, NEW p, NEW a, Becomes(w, pc, p, a),
             UNCHANGED <<inbox, outbox, nodes, forest, travs>>,
             HandlerFits(wk[w])', RowsFollow' \/ UNCHANGED <<rows, epoch>>
      PROVE  Growth'
  BY <1>b, <1>i, <1>r, <1>u, StillGrows DEF Becomes
<1>1. CASE InsertPlain(w)
  <2>1. h.pc = "plainRow" /\ m.type = "add" /\ o \notin OpeOps
    BY <1>1, <1>t DEF InsertPlain, At, HandlerOK, HandlerFits
  <2>2. Becomes(w, "send", h.ptr, NULL)
    BY <1>t, <1>f, <1>a, <1>1, <2>1 DEF Handler, PCs, Becomes, InsertPlain, Goto
  <2>3. UNCHANGED <<inbox, outbox, nodes, forest, travs, answer, epoch>>
    BY <1>1, <1>u DEF InsertPlain, treeVars, clientVars
  <2>4. HandlerFits(wk[w])'
    BY <1>t, <2>1, <2>2, <2>3 DEF HandlerFits, Becomes, Owner
  <2>5. RowsFollow'
    BY <1>1, <1>b, <1>c, <2>1, <2>3, NewRowFollows DEF InsertPlain, Growth
  <2> QED
    BY <1>i, <2>1, <2>2, <2>3, <2>4, <2>5
<1>2. CASE GetTree(w)
  <2>1. h.pc = "getTree" /\ m.type = "add" /\ o \in OpeOps /\ m.op = o /\ ~Begun(o)
    BY <1>2, <1>b, <1>t DEF GetTree, At, HandlerOK, HandlerFits
  <2>2. PICK p \in Found(w, forest[Key[o]]) :
          wk' = [wk EXCEPT ![w].ptr = p,
                           ![w].pc = IF p = NULL THEN "createTree"
                                     ELSE "createTraverse"]
    BY <1>2, <2>1 DEF GetTree
  <2>3. p \in OpeOps \cup {NULL} /\ p \in {forest[Key[o]], NULL} /\ Key[o] \in Keys
    BY <1>t, <1>f, <2>1 DEF Found, BTreeTypeOK, Keys
  <2>4. Becomes(w, IF p = NULL THEN "createTree" ELSE "createTraverse", p, NULL)
    BY <1>t, <1>f, <1>a, <2>1, <2>2, <2>3 DEF Handler, PCs, Becomes
  <2>5. UNCHANGED <<inbox, outbox, nodes, forest, travs, answer, rows, epoch>>
    BY <1>2, <1>u DEF GetTree, treeVars, clientVars
  <2>6. p # NULL => Key[p] = Key[o] /\ nodes[p].pos = <<>>
    BY <2>3 DEF Growth, TreesShaped, RootsOnTop
  <2>7. HandlerFits(wk[w])'
    BY <1>t, <2>1, <2>4, <2>5, <2>6 DEF HandlerFits, Becomes, Owner, Begun
  <2> QED
    BY <1>i, <2>1, <2>4, <2>5, <2>7
<1>3. CASE MakeTree(w)
  <2>1. h.pc = "createTree" /\ m.type = "add" /\ o \in OpeOps /\ m.op = o /\ ~Begun(o)
    BY <1>3, <1>b, <1>t DEF MakeTree, At, HandlerOK, HandlerFits
  <2>2. Becomes(w, "rootRow", h.ptr, NULL)
    BY <1>3, <1>t, <1>f, <1>a, <2>1 DEF Handler, PCs, Becomes, MakeTree, Goto
  <2>3. /\ UNCHANGED <<inbox, outbox, travs, answer, rows, epoch>>
        /\ nodes' = Put(nodes, o, NewNode(<<>>))
        /\ forest' \in {forest, [forest EXCEPT ![Key[o]] = o]}
        /\ ~raced' => /\ forest[Key[o]] = NULL
                      /\ forest' = [forest EXCEPT ![Key[o]] = o]
    BY <1>3, <1>u, <2>1 DEF MakeTree, CreateTree, clientVars
  <2>4. TreesShaped' /\ OneTree'
    BY <1>r, <2>1, <2>3, RootShapes DEF Growth
  <2>5. /\ DOMAIN nodes' = DOMAIN nodes \cup {o}
        /\ \A n \in DOMAIN nodes : n # o => nodes'[n] = nodes[n]
        /\ nodes'[o].pos = <<>>
    BY <2>3 DEF Put, NewNode
  <2>6. PlacesKept /\ \A x \in Ops \ {o} : Same(x)
    BY <2>1, <2>3, <2>5 DEF PlacesKept, Same, Begun
  <2>7. HandlerFits(wk[w])'
    BY <1>t, <2>1, <2>2, <2>3, <2>5 DEF HandlerFits, Becomes, Owner
  <2>8. RowsFollow'
    BY <2>3, <2>6, RowsStillFollow DEF Growth
  <2> QED
    BY <1>b, <1>u, <2>1, <2>2, <2>3, <2>4, <2>6, <2>7, <2>8, HandlerGrows DEF Becomes
<1>4. CASE InsertRoot(w)
  <2>1. /\ h.pc = "rootRow" /\ m.type = "add" /\ o \in OpeOps /\ m.op = o
        /\ o \in DOMAIN nodes /\ nodes[o].pos = <<>>
    BY <1>4, <1>b, <1>t DEF InsertRoot, At, HandlerOK, HandlerFits
  <2>2. Becomes(w, "send", h.ptr, NULL)
    BY <1>4, <1>t, <1>f, <1>a, <2>1 DEF Handler, PCs, Becomes, InsertRoot, Goto
  <2>3. UNCHANGED <<inbox, outbox, nodes, forest, travs, answer, epoch>>
    BY <1>4, <1>u DEF InsertRoot, treeVars, clientVars
  <2>4. HandlerFits(wk[w])'
    BY <1>t, <2>1, <2>2, <2>3 DEF HandlerFits, Becomes, Owner
  <2>5. AddRow(o, RootPath, 0) /\ Len(<<>>) = 0
    BY <1>4, <2>1 DEF InsertRoot
  <2>6. RowsFollow'
    BY <1>b, <1>c, <2>1, <2>3, <2>5, RootPathIsWord, NewRowFollows DEF Growth
  <2> QED
    BY <1>i, <2>1, <2>2, <2>3, <2>4, <2>6
<1>5. CASE BeginTraverse(w)
  <2>1. /\ h.pc = "createTraverse" /\ m.type = "add" /\ o \in OpeOps /\ m.op = o
        /\ ~Begun(o) /\ h.ptr \in DOMAIN nodes
        /\ Key[h.ptr] = Key[o] /\ nodes[h.ptr].pos = <<>>
        /\ answer[o] = NoAnswer
    BY <1>5, <1>b, <1>t DEF BeginTraverse, At, HandlerOK, HandlerFits
  <2>2. Becomes(w, "send", h.ptr, h.ptr)
    BY <1>5, <1>t, <1>f, <2>1 DEF Handler, PCs, Becomes, BeginTraverse
  <2>3. /\ UNCHANGED <<inbox, outbox, nodes, forest, answer, rows, epoch>>
        /\ travs' = Put(travs, o, NewTraverse(h.ptr))
    BY <1>5, <1>u, <2>1 DEF BeginTraverse, CreateTraverse, clientVars
  <2>4. TreesShaped' /\ OneTree'
    BY <1>r, <2>1, <2>3, NewWalkShapes DEF Growth
  <2>5. /\ DOMAIN travs' = DOMAIN travs \cup {o}
        /\ \A t \in DOMAIN travs : t # o => travs'[t] = travs[t]
        /\ travs'[o].cur = h.ptr
    BY <2>3 DEF Put, NewTraverse
  <2>6. PlacesKept /\ \A x \in Ops \ {o} : Same(x)
    BY <2>3, <2>5 DEF PlacesKept, Same
  <2>7. HandlerFits(wk[w])'
    BY <1>t, <2>1, <2>2, <2>3, <2>5 DEF HandlerFits, Becomes, Owner, Begun, NoAnswer
  <2>8. RowsFollow'
    BY <2>3, <2>6, RowsStillFollow DEF Growth
  <2> QED
    BY <1>b, <1>u, <2>1, <2>2, <2>3, <2>4, <2>6, <2>7, <2>8, HandlerGrows DEF Becomes
<1>6. CASE GetTraverse(w)
  <2>1. h.pc = "getTraverse" /\ m.type = "continue"
    BY <1>6, <1>t DEF GetTraverse, At, HandlerOK
  <2>2. PICK p \in Found(w, HeldAt(m.init)) :
          wk' = [wk EXCEPT ![w].ptr = p,
                           ![w].pc = IF m.cmp = 0 THEN "send" ELSE "goTo"]
    BY <1>6 DEF GetTraverse
  <2>3. Becomes(w, IF m.cmp = 0 THEN "send" ELSE "goTo", p, NULL)
    <3>1. p \in OpeOps \cup {NULL}
      BY <1>t, <2>2 DEF Found, HeldAt, BTreeTypeOK
    <3> QED
      BY <1>t, <1>f, <1>a, <2>1, <2>2, <3>1 DEF Handler, PCs, Becomes
  <2>4. UNCHANGED <<inbox, outbox, nodes, forest, travs, answer, rows, epoch>>
    BY <1>6, <1>u DEF GetTraverse, LookUp, clientVars
  <2>5. HandlerFits(wk[w])'
    BY <1>t, <2>1, <2>3, <2>4 DEF HandlerFits, Becomes, Owner, Answerable
  <2> QED
    BY <1>i, <2>1, <2>3, <2>4, <2>5
<1>7. CASE NullTraverse(w) \/ MapCrash(w)
  <2>1. UNCHANGED <<wk, inbox, outbox, nodes, forest, travs, answer, rows, epoch>>
    BY <1>7, <1>u DEF NullTraverse, MapCrash, treeVars, clientVars
  <2>2. TreesShaped' /\ OneTree'
    BY <1>r, <2>1, TreesStand DEF Growth
  <2>3. PlacesKept /\ \A x : Same(x)
    BY <2>1 DEF PlacesKept, Same
  <2>4. RowsFollow'
    BY <2>1, <2>3, RowsStillFollow DEF Growth
  <2>5. \A n \in inbox \cup outbox : MessageFits(n)'
    BY <2>3, MessageStaysFit DEF Growth
  <2>6. \A x \in Workers : HandlerFits(wk[x])'
    BY <2>1, <2>3, HandlerStaysFit DEF Growth, TypeOK, WorkerTypeOK
  <2>7. \A x \in Ops : cstate'[x] = "queued" => ~Begun(x)' /\ answer'[x] = NoAnswer
    BY <1>u, <2>1 DEF Growth, Begun, clientVars
  <2> QED
    BY <2>1, <2>2, <2>4, <2>5, <2>6, <2>7 DEF Growth
<1>8. CASE Descend(w)
  <2>1. /\ h.pc = "goTo" /\ m.type = "continue" /\ h.ptr # NULL
        /\ o \notin DOMAIN nodes /\ m.cmp = answer[o] /\ m.cmp # 0
        /\ Side(m) \in Bit
    BY <1>8, <1>t, SideIsBit DEF Descend, At, HandlerOK, HandlerFits
  <2>2. h.ptr = o /\ o \in DOMAIN travs /\ Child(o, Side(m)) # NULL
    BY <1>8, <1>a, <1>t, <2>1 DEF Descend, HandlerOK
  <2>3. Child(o, Side(m)) \in OpeOps
    BY <1>t, <2>1, <2>2 DEF BTreeTypeOK, Child
  <2>4. Becomes(w, "send", h.ptr, Child(o, Side(m)))
    BY <1>8, <1>t, <1>f, <2>1, <2>2, <2>3 DEF Handler, PCs, Becomes, Descend
  <2>5. /\ UNCHANGED <<inbox, outbox, nodes, forest, answer, rows, epoch>>
        /\ StepDown(o, Side(m))
    BY <1>8, <1>u, <2>2 DEF Descend, StepDown, clientVars
  <2>6. TreesShaped' /\ OneTree'
    BY <1>r, <2>1, <2>2, <2>5, StepDownShapes DEF Growth
  <2>7. /\ DOMAIN travs' = DOMAIN travs
        /\ \A t \in DOMAIN travs : t # o => travs'[t] = travs[t]
        /\ travs'[o].cur = Child(o, Side(m))
    BY <2>2, <2>5 DEF StepDown
  <2>8. PlacesKept /\ \A x \in Ops \ {o} : Same(x)
    BY <2>5, <2>7 DEF PlacesKept, Same
  <2>9. HandlerFits(wk[w])'
    BY <1>t, <2>1, <2>2, <2>4, <2>5, <2>7 DEF HandlerFits, Becomes, Owner
  <2>10. RowsFollow'
    BY <2>5, <2>8, RowsStillFollow DEF Growth
  <2> QED
    BY <1>b, <1>u, <2>1, <2>4, <2>5, <2>6, <2>8, <2>9, <2>10, HandlerGrows DEF Becomes
<1>9. CASE FindFree(w)
  <2>1. h.pc = "goTo"
    BY <1>9 DEF FindFree, At
  <2>2. Becomes(w, "attach", h.ptr, NULL)
    BY <1>9, <1>t, <1>f, <1>a, <2>1 DEF Handler, PCs, Becomes, FindFree, Goto
  <2>3. UNCHANGED <<inbox, outbox, nodes, forest, travs, answer, rows, epoch>>
    BY <1>9, <1>u DEF FindFree, treeVars, clientVars
  <2>4. HandlerFits(wk[w])'
    BY <1>t, <2>1, <2>2, <2>3 DEF HandlerFits, Becomes, Owner, Answerable
  <2> QED
    BY <1>i, <2>1, <2>2, <2>3, <2>4
<1>10. CASE Attach(w)
  <2>1. /\ h.pc = "attach" /\ m.type = "continue" /\ h.ptr \in DOMAIN travs
        /\ o \notin DOMAIN nodes /\ m.cmp = answer[o]
        /\ Side(m) \in Bit
    BY <1>10, <1>t, SideIsBit DEF Attach, At, HandlerOK, HandlerFits
  <2>2. h.ptr = o /\ o \in DOMAIN travs
    BY <1>a, <1>f, <1>t, <2>1 DEF BTreeTypeOK
  <2>3. Becomes(w, "leafRow", h.ptr, NULL)
    BY <1>10, <1>t, <1>f, <1>a, <2>1 DEF Handler, PCs, Becomes, Attach, Goto
  <2>4. /\ UNCHANGED <<inbox, outbox, forest, answer, rows, epoch>>
        /\ AttachLeaf(o, Side(m))
        /\ ~raced' => Child(o, Side(m)) = NULL
    BY <1>10, <1>u, <2>2 DEF Attach, AttachLeaf, clientVars
  <2>5. TreesShaped' /\ OneTree' /\ PlacesKept
    BY <1>r, <2>1, <2>2, <2>4, AttachLeafShapes DEF Growth
  <2>6. /\ DOMAIN nodes' = DOMAIN nodes \cup {o}
        /\ DOMAIN travs' = DOMAIN travs
        /\ \A t \in DOMAIN travs : t # o => travs'[t] = travs[t]
    BY <2>2, <2>4 DEF AttachLeaf, Put
  <2>7. \A x \in Ops \ {o} : Same(x)
    BY <2>4, <2>6 DEF Same
  <2>8. HandlerFits(wk[w])'
    BY <1>t, <2>1, <2>3, <2>4, <2>6 DEF HandlerFits, Becomes, Owner
  <2>9. RowsFollow'
    BY <2>4, <2>5, RowsStillFollow DEF Growth
  <2> QED
    BY <1>b, <1>u, <2>1, <2>3, <2>4, <2>5, <2>7, <2>8, <2>9, HandlerGrows DEF Becomes
<1>11. CASE InsertLeaf(w)
  <2>1. /\ h.pc = "leafRow" /\ m.type = "continue" /\ h.ptr \in DOMAIN travs
        /\ o \in DOMAIN nodes
    BY <1>11, <1>t DEF InsertLeaf, At, HandlerOK, HandlerFits
  <2>2. h.ptr = o /\ o \in DOMAIN travs
    BY <1>a, <1>f, <1>t, <2>1 DEF BTreeTypeOK
  <2>3. Becomes(w, "removeTraverse", h.ptr, NULL)
    BY <1>11, <1>t, <1>f, <1>a, <2>1 DEF Handler, PCs, Becomes, InsertLeaf, Goto
  <2>4. UNCHANGED <<inbox, outbox, nodes, forest, travs, answer, epoch>>
    BY <1>11, <1>u DEF InsertLeaf, treeVars, clientVars
  <2>5. HandlerFits(wk[w])'
    BY <1>t, <2>1, <2>3, <2>4 DEF HandlerFits, Becomes, Owner
  <2>6. AddRow(o, travs[o].path, travs[o].len)
    BY <1>11, <2>2 DEF InsertLeaf
  <2>7. travs[o].path \in Word /\ travs[o].len = Len(nodes[o].pos)
    BY <1>t, <2>1, <2>2
       DEF BTreeTypeOK, Growth, TreesShaped, WalksInTable, WalksSpellPlaces
  <2>8. RowsFollow'
    BY <1>b, <1>c, <2>1, <2>4, <2>6, <2>7, NewRowFollows DEF Growth
  <2> QED
    BY <1>i, <2>1, <2>3, <2>4, <2>5, <2>8
<1>12. CASE FinishTraverse(w)
  <2>1. h.pc = "removeTraverse" /\ m.type = "continue"
    BY <1>12, <1>t DEF FinishTraverse, At, HandlerOK
  <2>2. Becomes(w, "send", h.ptr, NULL)
    BY <1>12, <1>t, <1>f, <1>a, <2>1 DEF Handler, PCs, Becomes, FinishTraverse, Goto
  <2>3. UNCHANGED <<inbox, outbox, nodes, forest, travs, answer, rows, epoch>>
    BY <1>12, <1>u DEF FinishTraverse, RemoveTraverse, clientVars
  <2>4. HandlerFits(wk[w])'
    BY <1>t, <2>1, <2>2, <2>3 DEF HandlerFits, Becomes, Owner
  <2> QED
    BY <1>i, <2>1, <2>2, <2>3, <2>4
<1> QED
  BY <1>1, <1>2, <1>3, <1>4, <1>5, <1>6, <1>7, <1>8, <1>9, <1>10, <1>11, <1>12
     DEF WorkerStep, WorkerNext
-----------------------------------------------------------------------------
(***************************************************************************)
(* A request is taken up, a response is sent, the client asks and answers. *)
(***************************************************************************)
\* What a step that leaves trees, rows and answers alone keeps.
Still == UNCHANGED <<nodes, forest, travs, rows, epoch, raced, answer>>

LEMMA StillKeeps ==
  ASSUME TypeOK, Growth, Still
  PROVE  /\ TreesShaped' /\ OneTree' /\ RowsFollow'
         /\ \A m \in inbox \cup outbox : MessageFits(m)'
         /\ \A x \in Workers : wk'[x] = wk[x] => HandlerFits(wk[x])'
<1>1. PlacesKept /\ \A x : Same(x)
  BY DEF PlacesKept, Same, Still
<1>2. TreesShaped' /\ OneTree' /\ RowsFollow'
  BY <1>1, TreesStand, RowsStillFollow DEF Growth, Still
<1>3. \A m \in inbox \cup outbox : MessageFits(m)'
  BY <1>1, MessageStaysFit DEF Growth
<1>4. \A x \in Workers : wk'[x] = wk[x] => HandlerFits(wk[x])'
  BY <1>1, HandlerStaysFit DEF Growth, TypeOK, WorkerTypeOK
<1> QED
  BY <1>2, <1>3, <1>4

LEMMA RecvGrows ==
  ASSUME TypeOK, Conversation, Growth, NEW w \in Workers, WorkerStep(w), Recv(w)
  PROVE  Growth'
<1>1. PICK r \in inbox :
        /\ inbox' = inbox \ {r}
        /\ wk' = [wk EXCEPT ![w] =
             [Idle EXCEPT !.msg = r,
                          !.pc = IF r.type = "continue" THEN "getTraverse"
                                 ELSE IF r.op \in OpeOps THEN "getTree"
                                 ELSE "plainRow"]]
  BY DEF Recv
<1>2. /\ \A x \in Workers \ {w} : wk'[x] = wk[x]
      /\ wk'[w].msg = r
      /\ wk'[w].ask = NULL
      /\ wk'[w].pc = IF r.type = "continue" THEN "getTraverse"
                     ELSE IF r.op \in OpeOps THEN "getTree" ELSE "plainRow"
  BY <1>1 DEF Idle, TypeOK, WorkerTypeOK
<1>3. Still /\ UNCHANGED <<outbox, clientVars>>
  BY DEF Recv, treeVars, WorkerStep, clientVars, Still
<1>4. r.type \in {"add", "continue"} /\ Named(r) /\ MessageFits(r)
  BY RequestIs DEF TypeOK, Conversation, AllNamed, Growth
<1>5. HandlerFits(wk[w])'
  BY <1>2, <1>3, <1>4
     DEF HandlerFits, MessageFits, Named, Owner, Begun, Answerable, Still
<1>6. \A x \in Workers : HandlerFits(wk[x])'
  BY <1>2, <1>3, <1>5, StillKeeps
<1>7. \A o \in Ops : cstate'[o] = "queued" => ~Begun(o)' /\ answer'[o] = NoAnswer
  BY <1>3 DEF Growth, Begun, Still, clientVars
<1>8. \A m \in (inbox \cup outbox)' : MessageFits(m)'
  BY <1>1, <1>3, StillKeeps
<1> QED
  BY <1>3, <1>6, <1>7, <1>8, StillKeeps DEF Growth

LEMMA SendGrows ==
  ASSUME TypeOK, Conversation, Growth, NEW w \in Workers, WorkerStep(w), Send(w)
  PROVE  Growth'
<1> DEFINE m == wk[w].msg
           o == Owner(wk[w].msg)
           init == IF m.type = "add" THEN m.id ELSE m.init
<1>1. /\ wk[w].pc = "send"
      /\ w \in Busy
      /\ wk \in [Workers -> Handler]
      /\ HandlerFits(wk[w])
  BY BusyIs DEF Send, At, TypeOK, WorkerTypeOK, Growth
<1>2. /\ \A x \in Workers \ {w} : wk'[x] = wk[x]
      /\ wk'[w] = Idle
  BY <1>1 DEF Send
<1>3. Still /\ UNCHANGED <<inbox, clientVars>>
  BY DEF Send, treeVars, WorkerStep, clientVars, Still
<1>4. PICK r : outbox' = outbox \cup {r} /\ MessageFits(r)
  <2>1. CASE wk[w].ask = NULL
    <3>1. outbox' = outbox \cup {OkResponse(m.id)}
      BY <2>1 DEF Send
    <3>2. MessageFits(OkResponse(m.id))
      BY DEF MessageFits, OkResponse
    <3> QED
      BY <3>1, <3>2
  <2>2. CASE wk[w].ask # NULL
    <3>1. PICK v \in Reads(wk[w].ask) :
            outbox' = outbox \cup {TraverseResponse(m.id, init, v)}
      BY <2>2 DEF Send
    <3>2. /\ o \in DOMAIN travs \ DOMAIN nodes
          /\ wk[w].ask = travs[o].cur
          /\ answer[o] # 0
      BY <1>1, <2>2 DEF HandlerFits
    <3>3. v \in ReadsOf[travs[o].cur]
      <4>1. travs[o].cur \in Ops
        BY <3>2, InsertsAssumption DEF TypeOK, BTreeTypeOK
      <4> QED
        BY <3>1, <3>2, <4>1, InsertsAssumption DEF Reads
    <3>4. /\ TraverseResponse(m.id, init, v).type = "traverse"
          /\ TraverseResponse(m.id, init, v).ct = v
          /\ Owner(TraverseResponse(m.id, init, v)) = o
      BY DEF TraverseResponse, Owner
    <3>5. MessageFits(TraverseResponse(m.id, init, v))
      BY <3>2, <3>3, <3>4 DEF MessageFits
    <3> QED
      BY <3>1, <3>5
  <2> QED
    BY <2>1, <2>2
<1>5. MessageFits(r)'
  <2>1. Same(Owner(r))
    BY <1>3 DEF Same, Still
  <2> QED
    BY <1>4, <2>1, MessageStaysFit
<1>6. \A x \in Workers : HandlerFits(wk[x])'
  <2>1. HandlerFits(wk[w])'
    BY <1>2, IdleFits DEF Idle
  <2> QED
    BY <1>2, <1>3, <2>1, StillKeeps
<1>7. \A x \in Ops : cstate'[x] = "queued" => ~Begun(x)' /\ answer'[x] = NoAnswer
  BY <1>3 DEF Growth, Begun, Still, clientVars
<1>8. \A n \in (inbox \cup outbox)' : MessageFits(n)'
  BY <1>3, <1>4, <1>5, StillKeeps
<1> QED
  BY <1>3, <1>6, <1>7, <1>8, StillKeeps DEF Growth

LEMMA RunGrows ==
  ASSUME TypeOK, Conversation, Growth, NEW o \in Ops, Run(o),
         UNCHANGED <<treeVars, workerVars>>
  PROVE  Growth'
<1>1. PICK r : /\ inbox' = inbox \cup {r}
               /\ r.type = "add"
               /\ Owner(r) = o
  <2>1. /\ AddRequest(NewId(o), o).type = "add"
        /\ Owner(AddRequest(NewId(o), o)) = o
    BY DEF AddRequest, NewId, Owner
  <2> QED
    BY <2>1 DEF Run
<1>2. Still /\ UNCHANGED <<outbox, wk>>
  BY DEF Run, treeVars, workerVars, Still
<1>3. ~Begun(o) /\ cstate[o] = "queued" /\ answer[o] = NoAnswer
  BY DEF Growth, Run
<1>4. MessageFits(r)'
  BY <1>1, <1>2, <1>3 DEF MessageFits, Begun, Owner, Still
<1>5. \A n \in (inbox \cup outbox)' : MessageFits(n)'
  BY <1>1, <1>2, <1>4, StillKeeps
<1>6. \A x \in Ops : cstate'[x] = "queued" => ~Begun(x)' /\ answer'[x] = NoAnswer
  BY <1>2, <1>3 DEF Growth, Begun, Still, Run, TypeOK, ClientTypeOK
<1> QED
  BY <1>2, <1>5, <1>6, StillKeeps DEF Growth

LEMMA OkGrows ==
  ASSUME TypeOK, Conversation, Growth, NEW m \in outbox, OnResponseAddOk(m),
         UNCHANGED <<treeVars, workerVars>>
  PROVE  Growth'
<1>1. Still /\ UNCHANGED <<inbox, wk>> /\ outbox' \subseteq outbox
  BY DEF OnResponseAddOk, treeVars, workerVars, Still
<1>2. \A x \in Ops : cstate'[x] = "queued" => ~Begun(x)' /\ answer'[x] = NoAnswer
  BY <1>1 DEF Growth, Begun, Still, OnResponseAddOk, TypeOK, ClientTypeOK
<1> QED
  BY <1>1, <1>2, StillKeeps DEF Growth

LEMMA TraverseGrows ==
  ASSUME TypeOK, Conversation, Growth, NEW m \in outbox, OnResponseAddTraverse(m),
         UNCHANGED <<treeVars, workerVars>>
  PROVE  Growth'
<1>1. PICK o \in Ops :
        /\ o = Owner(m)
        /\ listeners[m.id] = o
        /\ cstate[o] = "waiting"
        /\ \A n \in inbox \cup outbox : n # m => Owner(n) # o
        /\ \A w \in Busy : Owner(wk[w].msg) # o
  BY Heard DEF OnResponseAddTraverse
<1>2. PICK r, cmp :
        /\ cmp = Compare(m.ct, Val[o])
        /\ inbox' = inbox \cup {r}
        /\ outbox' = outbox \ {m}
        /\ answer' = [answer EXCEPT ![o] = cmp]
        /\ r.type = "continue" /\ r.cmp = cmp /\ Owner(r) = o
        /\ cstate' = cstate
  <2> DEFINE q == ContinueRequest(NewId(o), m.init, Compare(m.ct, Val[o]))
  <2>1. q.type = "continue" /\ q.cmp = Compare(m.ct, Val[o]) /\ Owner(q) = o
    BY DEF ContinueRequest, NewId, Owner
  <2>2. /\ inbox' = inbox \cup {q}
        /\ outbox' = outbox \ {m}
        /\ answer' = [answer EXCEPT ![o] = Compare(m.ct, Val[o])]
        /\ cstate' = cstate
    BY <1>1 DEF OnResponseAddTraverse
  <2> QED
    BY <2>1, <2>2
<1>3. UNCHANGED <<nodes, forest, travs, rows, epoch, raced, wk>>
  BY DEF treeVars, workerVars
<1>4. /\ m \notin inbox /\ m.type = "traverse"
      /\ answer'[o] = cmp
      /\ \A x \in Ops \ {o} : answer'[x] = answer[x]
  BY <1>2, RequestIsNoResponse DEF TypeOK, OnResponseAddTraverse, ClientTypeOK
<1>5. PlacesKept /\ \A x \in Ops \ {o} : Same(x)
  BY <1>3, <1>4 DEF PlacesKept, Same
<1>6. MessageFits(r)'
  <2>1. MessageFits(m)
    BY DEF Growth
  <2>2. o \notin DOMAIN nodes /\ (o \in DOMAIN travs => m.ct \in ReadsOf[travs[o].cur])
    BY <1>1, <1>4, <2>1 DEF MessageFits
  <2>3. o \in DOMAIN travs => Answerable(o, cmp)'
    BY <1>2, <1>3, <2>2 DEF Answerable
  <2> QED
    BY <1>2, <1>3, <1>4, <2>2, <2>3 DEF MessageFits, Owner
<1>7. \A n \in (inbox \cup outbox)' : MessageFits(n)'
  <2>1. \A n \in (inbox \cup outbox)' : n = r \/ n \in (inbox \cup outbox) \ {m}
    BY <1>2, <1>4
  <2>2. \A n \in (inbox \cup outbox) \ {m} : MessageFits(n)'
    BY <1>1, <1>5, OthersStayFit
  <2> QED
    BY <1>6, <2>1, <2>2
<1>8. \A x \in Workers : HandlerFits(wk[x])'
  BY <1>1, <1>3, <1>5, OthersStayFit
<1>9. TreesShaped' /\ OneTree' /\ RowsFollow'
  BY <1>3, <1>5, TreesStand, RowsStillFollow DEF Growth
<1>10. \A x \in Ops : cstate'[x] = "queued" => ~Begun(x)' /\ answer'[x] = NoAnswer
  BY <1>1, <1>2, <1>3, <1>4 DEF Growth, Begun
<1> QED
  BY <1>7, <1>8, <1>9, <1>10 DEF Growth

LEMMA FirstRowIs ==
  ASSUME TypeOK, NEW o \in Ops, rows[o] # <<>>
  PROVE  rows[o][1].depth \in Nat /\ rows[o][1].epoch \in Nat
<1>1. PICK R : R = [path : Word \cup {<<>>}, depth : Nat, epoch : Nat]
  OBVIOUS
<1>2. rows[o] \in Seq(R)
  BY <1>1 DEF TypeOK, WorkerTypeOK
<1>3. Len(rows[o]) \in Nat /\ Len(rows[o]) # 0
  BY <1>2
<1>4. rows[o][1] \in R
  BY <1>2, <1>3
<1> QED
  BY <1>1, <1>4

LEMMA RestartGrows ==
  ASSUME TypeOK, Growth, Restart
  PROVE  Growth'
<1>1. /\ inbox' \subseteq inbox
      /\ outbox' \subseteq outbox
      /\ \A w \in Workers : wk'[w] = Idle
      /\ DOMAIN nodes' = {} /\ DOMAIN travs' = {}
      /\ \A k \in Keys : forest'[k] = NULL
      /\ rows' = rows
      /\ epoch' = epoch + 1 /\ epoch \in Nat
      /\ UNCHANGED clientVars
  BY EmptyMapIs DEF Restart, TypeOK, WorkerTypeOK
<1>2. /\ \A x : ~Begun(x)'
      /\ \A x \in Ops : cstate'[x] = "queued" => answer'[x] = NoAnswer
  BY <1>1 DEF Begun, Growth, clientVars
<1>3. \A m \in (inbox \cup outbox)' : MessageFits(m)'
  <2> SUFFICES ASSUME NEW m \in (inbox \cup outbox)'
               PROVE  MessageFits(m)'
    OBVIOUS
  <2>1. MessageFits(m) /\ UNCHANGED answer
    BY <1>1 DEF Growth, clientVars
  <2> QED
    BY <1>1, <1>2, <2>1 DEF MessageFits, Owner
<1>4. \A w \in Workers : HandlerFits(wk[w])'
  BY <1>1, IdleFits DEF Idle
<1>5. TreesShaped' /\ OneTree'
  BY <1>1 DEF TreesShaped, KidsBelow, RootsOnTop, WalksInTable, WalksSpellPlaces,
              OneTree, OnePlaceEach, AllReached
<1>6. RowsFollow'
  <2> SUFFICES ASSUME NEW o \in OpeOps, rows'[o] # <<>>
               PROVE  /\ rows'[o][1].epoch <= epoch'
                      /\ rows'[o][1].path \in Word
                      /\ rows'[o][1].epoch # epoch'
    BY DEF RowsFollow
  <2>1. rows[o][1].epoch <= epoch /\ rows[o][1].path \in Word
    BY <1>1 DEF Growth, RowsFollow
  <2>2. rows[o][1].epoch \in Nat
    BY <1>1, FirstRowIs, InsertsAssumption
  <2> QED
    BY <1>1, <2>1, <2>2
<1> QED
  BY <1>2, <1>3, <1>4, <1>5, <1>6 DEF Growth

LEMMA InitGrows == Init => Growth
<1> SUFFICES ASSUME Init
             PROVE  Growth
  OBVIOUS
<1>1. /\ inbox = {} /\ outbox = {}
      /\ \A w \in Workers : wk[w] = Idle
      /\ DOMAIN nodes = {} /\ DOMAIN travs = {}
      /\ \A k \in Keys : forest[k] = NULL
      /\ \A o \in Ops : rows[o] = <<>> /\ answer[o] = NoAnswer
  BY EmptyMapIs DEF Init, BTreeInit, WorkerInit, ClientInit
<1>2. \A w \in Workers : HandlerFits(wk[w])
  BY <1>1 DEF HandlerFits, Idle, NoMsg
<1>3. TreesShaped /\ OneTree
  BY <1>1 DEF TreesShaped, KidsBelow, RootsOnTop, WalksInTable, WalksSpellPlaces,
              OneTree, OnePlaceEach, AllReached
<1>4. RowsFollow
  BY <1>1, InsertsAssumption DEF RowsFollow
<1> QED
  BY <1>1, <1>2, <1>3, <1>4 DEF Growth, Begun
-----------------------------------------------------------------------------
(***************************************************************************)
(* Through races and restarts the messages and the handler of an insert    *)
(* agree with its place in the trees: a walk or node is begun by one add   *)
(* and known to no later one, and the client answers about the node the    *)
(* walk stands on.  Until the first race, a table's nodes are one tree     *)
(* (Worker.cpp 128-287, BTree.cpp 25-103).                                 *)
(***************************************************************************)
THEOREM Growing == Spec => []Growth
<1>1. TypeOK /\ Conversation /\ Growth /\ [Next]_vars => Growth'
  <2> SUFFICES ASSUME TypeOK, Conversation, Growth, [Next]_vars
               PROVE  Growth'
    OBVIOUS
  <2>1. ASSUME NEW w \in Workers, WorkerStep(w)
        PROVE  Growth'
    BY <2>1, RecvGrows, SendGrows, InternalGrows
  <2>2. CASE ClientStep
    BY <2>2, RunGrows, OkGrows, TraverseGrows DEF ClientStep, ClientNext
  <2>3. CASE Restart
    BY <2>3, RestartGrows
  <2>4. CASE UNCHANGED vars
    <3>1. Still /\ UNCHANGED <<inbox, outbox, wk, cstate>>
      BY <2>4 DEF vars, treeVars, workerVars, clientVars, Still
    <3>2. \A x \in Ops : cstate'[x] = "queued" => ~Begun(x)' /\ answer'[x] = NoAnswer
      BY <3>1 DEF Growth, Begun, Still
    <3> QED
      BY <3>1, <3>2, StillKeeps DEF Growth
  <2> QED
    BY <2>1, <2>2, <2>3, <2>4 DEF Next, Terminated
<1> QED
  BY InitGrows, Typed, Conversing, <1>1, PTL DEF Spec

(***************************************************************************)
(* A walk's word always spells the turns to the node it stands on, and     *)
(* becomes that node's label (BTree.cpp 48, 62, 68, 81).                   *)
(***************************************************************************)
THEOREM WalksSpell == Spec => []WalksSpellPlaces
<1>1. Growth => WalksSpellPlaces
  BY DEF Growth, TreesShaped
<1> QED
  BY <1>1, Growing, PTL
-----------------------------------------------------------------------------
(***************************************************************************)
(* Who waits is answered: the listeners, and what carries their requests.  *)
(***************************************************************************)
Carried == inbox \cup outbox \cup {wk[w].msg : w \in Busy}

LEMMA InternalTalk ==
  ASSUME TypeOK, NEW w \in Workers, WorkerStep(w), ~Recv(w), ~Send(w)
  PROVE  /\ UNCHANGED <<inbox, outbox, epoch, clientVars>>
         /\ \A x \in Workers : wk'[x].msg = wk[x].msg
<1>1. wk \in [Workers -> Handler]
  BY DEF TypeOK, WorkerTypeOK
<1>2. UNCHANGED <<inbox, outbox, epoch, clientVars>>
  BY DEF WorkerStep, WorkerNext, InsertPlain, GetTree, MakeTree, InsertRoot,
         BeginTraverse, GetTraverse, NullTraverse, Descend, FindFree, Attach,
         InsertLeaf, FinishTraverse, MapCrash
<1>3. \A x \in Workers : wk'[x].msg = wk[x].msg
  <2>1. CASE InsertPlain(w)
    BY <1>1, <2>1 DEF InsertPlain, Goto, Handler
  <2>2. CASE GetTree(w)
    BY <1>1, <2>2 DEF GetTree, Handler
  <2>3. CASE MakeTree(w)
    BY <1>1, <2>3 DEF MakeTree, Goto, Handler
  <2>4. CASE InsertRoot(w)
    BY <1>1, <2>4 DEF InsertRoot, Goto, Handler
  <2>5. CASE BeginTraverse(w)
    BY <1>1, <2>5 DEF BeginTraverse, Handler
  <2>6. CASE GetTraverse(w)
    BY <1>1, <2>6 DEF GetTraverse, Handler
  <2>7. CASE NullTraverse(w)
    BY <1>1, <2>7 DEF NullTraverse, Handler
  <2>8. CASE Descend(w)
    BY <1>1, <2>8 DEF Descend, Handler
  <2>9. CASE FindFree(w)
    BY <1>1, <2>9 DEF FindFree, Goto, Handler
  <2>10. CASE Attach(w)
    BY <1>1, <2>10 DEF Attach, Goto, Handler
  <2>11. CASE InsertLeaf(w)
    BY <1>1, <2>11 DEF InsertLeaf, Goto, Handler
  <2>12. CASE FinishTraverse(w)
    BY <1>1, <2>12 DEF FinishTraverse, Goto, Handler
  <2>13. CASE MapCrash(w)
    BY <1>1, <2>13 DEF MapCrash, Handler
  <2> QED
    BY <2>1, <2>2, <2>3, <2>4, <2>5, <2>6, <2>7, <2>8, <2>9, <2>10, <2>11, <2>12, <2>13
       DEF WorkerStep, WorkerNext
<1> QED
  BY <1>2, <1>3

LEMMA WorkerAwaits ==
  ASSUME TypeOK, Awaited, NEW w \in Workers, WorkerStep(w)
  PROVE  Awaited'
<1>1. UNCHANGED <<epoch, clientVars>>
  BY InternalTalk DEF WorkerStep, Recv, Send
<1>2. ASSUME NEW c \in Carried
      PROVE  \E d \in Carried' : Owner(d) = Owner(c)
  <2>1. CASE ~Recv(w) /\ ~Send(w)
    <3>1. Busy' = Busy /\ Carried' = Carried
      BY <2>1, InternalTalk DEF Busy, Carried
    <3> QED
      BY <3>1
  <2>2. CASE Recv(w)
    <3>1. PICK r \in inbox : /\ inbox' = inbox \ {r} /\ outbox' = outbox
                             /\ wk'[w].msg = r
                             /\ \A x \in Workers \ {w} : wk'[x] = wk[x]
      BY <2>2 DEF Recv, TypeOK, WorkerTypeOK, Idle
    <3>2. r # NoMsg /\ w \notin Busy
      BY <2>2, RequestIs, BusyIs DEF TypeOK, Recv, At
    <3>3. c \in Carried'
      <4>1. w \in Busy' /\ r \in Carried'
        BY <3>1, <3>2 DEF Busy, Carried
      <4>2. \A x \in Busy : x \in Busy' /\ wk'[x] = wk[x]
        BY <3>1, <3>2 DEF Busy
      <4> QED
        BY <3>1, <4>1, <4>2 DEF Carried
    <3> QED
      BY <3>3
  <2>3. CASE Send(w)
    <3>1. /\ inbox' = inbox /\ outbox \subseteq outbox'
          /\ \A x \in Workers \ {w} : wk'[x] = wk[x]
          /\ \E r \in outbox' : r.id = wk[w].msg.id
      <4>1. CASE wk[w].ask = NULL
        <5>1. OkResponse(wk[w].msg.id).id = wk[w].msg.id
          BY DEF OkResponse
        <5> QED
          BY <2>3, <4>1, <5>1 DEF Send, TypeOK, WorkerTypeOK
      <4>2. CASE wk[w].ask # NULL
        <5>1. \A i, v : TraverseResponse(wk[w].msg.id, i, v).id = wk[w].msg.id
          BY DEF TraverseResponse
        <5> QED
          BY <2>3, <4>2, <5>1 DEF Send, TypeOK, WorkerTypeOK
      <4> QED
        BY <4>1, <4>2
    <3>2. CASE c \in inbox \cup outbox
      BY <3>1, <3>2 DEF Carried
    <3>3. CASE c \in {wk[x].msg : x \in Busy}
      <4>1. PICK x \in Busy : c = wk[x].msg
        BY <3>3
      <4>2. CASE x = w
        BY <3>1, <4>1, <4>2 DEF Carried, Owner
      <4>3. CASE x # w
        <5>1. x \in Busy' /\ wk'[x].msg = c
          BY <3>1, <4>1, <4>3 DEF Busy
        <5> QED
          BY <5>1 DEF Carried
      <4> QED
        BY <4>2, <4>3
    <3> QED
      BY <3>2, <3>3 DEF Carried
  <2> QED
    BY <2>1, <2>2, <2>3
<1>3. ASSUME epoch' = 0, NEW o \in Ops, cstate'[o] = "waiting"
      PROVE  \E d \in Carried' : Owner(d) = o
  <2>1. PICK c \in Carried : Owner(c) = o
    BY <1>1, <1>3 DEF Awaited, Carried, clientVars
  <2> QED
    BY <1>2, <2>1
<1> QED
  BY <1>1, <1>3 DEF Awaited, Carried, clientVars, Owner

LEMMA ClientAwaits ==
  ASSUME TypeOK, Conversation, Awaited, ClientStep
  PROVE  Awaited'
<1>1. UNCHANGED <<epoch, wk>> /\ Busy' = Busy
  BY DEF ClientStep, workerVars, Busy
<1>2. /\ cstate \in [Ops -> {"queued", "waiting", "done"}]
      /\ sent \in [Ops -> Nat]
      /\ DOMAIN listeners \subseteq Id
  BY DEF TypeOK, ClientTypeOK
<1>3. ASSUME NEW o \in Ops, Run(o)
      PROVE  Awaited'
  <2>1. /\ sent[o] = 0 /\ cstate[o] = "queued"
        /\ DOMAIN listeners' = DOMAIN listeners \cup {<<o, 1>>}
        /\ cstate' = [cstate EXCEPT ![o] = "waiting"]
        /\ sent' = [sent EXCEPT ![o] = 1]
        /\ inbox \subseteq inbox' /\ outbox' = outbox
    <3>1. sent[o] = 0 /\ cstate[o] = "queued"
      BY <1>3 DEF Run, Conversation, Listening
    <3>2. NewId(o) = <<o, 1>>
      BY <3>1 DEF NewId
    <3>3. DOMAIN listeners' = DOMAIN listeners \cup {<<o, 1>>}
      BY <1>3, <3>2 DEF Run, Put
    <3> QED
      BY <1>3, <3>1, <3>3 DEF Run
  <2>2. \A id \in DOMAIN listeners' : id[2] = sent'[id[1]] /\ cstate'[id[1]] = "waiting"
    <3>1. ASSUME NEW id \in DOMAIN listeners
          PROVE  id[2] = sent'[id[1]] /\ cstate'[id[1]] = "waiting"
      <4>1. id[2] = sent[id[1]] /\ cstate[id[1]] = "waiting" /\ id[1] \in Ops
        BY <1>2 DEF Awaited, Id
      <4> QED
        BY <1>2, <2>1, <4>1
    <3>2. sent'[o] = 1 /\ cstate'[o] = "waiting"
      BY <1>2, <2>1
    <3> QED
      BY <2>1, <3>1, <3>2
  <2>3. \E m \in inbox' : Owner(m) = o
    <3>1. Owner(AddRequest(NewId(o), o)) = o
      BY DEF AddRequest, NewId, Owner
    <3> QED
      BY <1>3, <3>1 DEF Run
  <2>4. ASSUME epoch' = 0, NEW x \in Ops, cstate'[x] = "waiting"
        PROVE  \E d \in Carried' : Owner(d) = x
    <3>1. CASE x = o
      BY <2>3, <3>1 DEF Carried
    <3>2. CASE x # o
      <4>1. PICK c \in Carried : Owner(c) = x
        BY <1>1, <1>2, <2>1, <2>4, <3>2 DEF Awaited, Carried
      <4>2. c \in Carried'
        BY <1>1, <2>1, <4>1 DEF Carried
      <4> QED
        BY <4>1, <4>2
    <3> QED
      BY <3>1, <3>2
  <2> QED
    BY <2>2, <2>4 DEF Awaited, Carried, Owner
<1>4. ASSUME NEW m \in outbox, OnResponseAddOk(m)
      PROVE  Awaited'
  <2>1. PICK o \in Ops : /\ o = Owner(m) /\ listeners[m.id] = o
                         /\ m.id = <<o, sent[o]>>
    BY <1>4, Heard DEF OnResponseAddOk
  <2>2. /\ DOMAIN listeners' = DOMAIN listeners \ {m.id}
        /\ cstate' = [cstate EXCEPT ![o] = "done"]
        /\ sent' = sent
        /\ inbox' = inbox /\ outbox' = outbox \ {m}
    BY <1>4, <2>1 DEF OnResponseAddOk, Erase
  <2>3. \A id \in DOMAIN listeners' : id[2] = sent'[id[1]] /\ cstate'[id[1]] = "waiting"
    BY <1>2, <2>1, <2>2 DEF Awaited, Id
  <2>4. ASSUME epoch' = 0, NEW x \in Ops, cstate'[x] = "waiting"
        PROVE  \E d \in Carried' : Owner(d) = x
    <3>1. x # o /\ cstate[x] = "waiting"
      BY <1>2, <2>2, <2>4
    <3>2. PICK c \in Carried : Owner(c) = x
      BY <1>1, <2>4, <3>1 DEF Awaited, Carried
    <3>3. c # m
      BY <2>1, <3>1, <3>2
    <3>4. c \in Carried'
      BY <1>1, <2>2, <3>2, <3>3 DEF Carried
    <3> QED
      BY <3>2, <3>4
  <2> QED
    BY <2>3, <2>4 DEF Awaited, Carried, Owner
<1>5. ASSUME NEW m \in outbox, OnResponseAddTraverse(m)
      PROVE  Awaited'
  <2>1. PICK o \in Ops : /\ o = Owner(m) /\ listeners[m.id] = o
                         /\ m.id = <<o, sent[o]>> /\ cstate[o] = "waiting"
    BY <1>5, Heard DEF OnResponseAddTraverse
  <2>2. /\ DOMAIN listeners' = (DOMAIN listeners \ {m.id}) \cup {<<o, sent[o] + 1>>}
        /\ cstate' = cstate
        /\ sent' = [sent EXCEPT ![o] = sent[o] + 1]
        /\ inbox \subseteq inbox' /\ outbox' = outbox \ {m}
    BY <1>5, <2>1 DEF OnResponseAddTraverse, Put, Erase, NewId
  <2>3. \A id \in DOMAIN listeners' : id[2] = sent'[id[1]] /\ cstate'[id[1]] = "waiting"
    BY <1>2, <2>1, <2>2 DEF Awaited, Id
  <2>4. \E n \in inbox' : Owner(n) = o
    <3>1. \A i, k : Owner(ContinueRequest(NewId(o), i, k)) = o
      BY DEF ContinueRequest, NewId, Owner
    <3> QED
      BY <1>5, <2>1, <3>1 DEF OnResponseAddTraverse
  <2>5. ASSUME epoch' = 0, NEW x \in Ops, cstate'[x] = "waiting"
        PROVE  \E d \in Carried' : Owner(d) = x
    <3>1. CASE x = o
      BY <2>4, <3>1 DEF Carried
    <3>2. CASE x # o
      <4>1. PICK c \in Carried : Owner(c) = x
        BY <1>1, <2>2, <2>5 DEF Awaited, Carried
      <4>2. c \in Carried'
        BY <1>1, <2>1, <2>2, <3>2, <4>1 DEF Carried
      <4> QED
        BY <4>1, <4>2
    <3> QED
      BY <3>1, <3>2
  <2> QED
    BY <2>3, <2>5 DEF Awaited, Carried, Owner
<1> QED
  BY <1>3, <1>4, <1>5 DEF ClientStep, ClientNext

(***************************************************************************)
(* A listener of the client is that of the last request of an insert it    *)
(* waits for, and while the daemon was never restarted every insert it     *)
(* waits for has a request, a handler or a response of its own (test.cpp   *)
(* 27-81, 154, 169, 177, 194).                                             *)
(***************************************************************************)
THEOREM Waiting == Spec => []Awaited
<1>1. Init => Awaited
  BY EmptyMapIs DEF Init, ClientInit, EmptyMap, Awaited
<1>2. TypeOK /\ Conversation /\ Awaited /\ [Next]_vars => Awaited'
  <2> SUFFICES ASSUME TypeOK, Conversation, Awaited, [Next]_vars
               PROVE  Awaited'
    OBVIOUS
  <2>1. CASE Restart
    <3>1. epoch' # 0 /\ UNCHANGED clientVars
      BY <2>1 DEF Restart, TypeOK, WorkerTypeOK
    <3> QED
      BY <3>1 DEF Awaited, clientVars
  <2>2. CASE UNCHANGED vars
    BY <2>2 DEF vars, treeVars, workerVars, clientVars, Awaited, Owner, Busy
  <2> QED
    BY <2>1, <2>2, WorkerAwaits, ClientAwaits DEF Next, Terminated
<1> QED
  BY <1>1, <1>2, Typed, Conversing, PTL DEF Spec

LEMMA CarriersAre ==
  ASSUME Conversation, TypeOK, NEW id \in Id
  PROVE  /\ Carriers(id) \in {0, 1}
         /\ Carriers(id) = 0 <=> \A c \in Carried : c.id # id
<1> DEFINE A == {m \in inbox \cup outbox : m.id = id}
           B == {w \in Workers : wk[w].msg # NoMsg /\ wk[w].msg.id = id}
<1>1. \A m1, m2 \in A : m1 = m2
  BY DEF Conversation, OneCarrier, Owner
<1>2. \A w1, w2 \in B : w1 = w2
  BY DEF Conversation, OneCarrier, Owner, Busy
<1>3. A = {} \/ B = {}
  BY DEF Conversation, OneCarrier, Owner, Busy
<1>4. A = {} \/ \E m : A = {m}
  BY <1>1
<1>5. B = {} \/ \E w : B = {w}
  BY <1>2
<1>6. (A = {} /\ B = {}) <=> \A c \in Carried : c.id # id
  BY DEF Carried, Busy
<1> HIDE DEF A, B
<1>7. Cardinality(A) \in {0, 1} /\ (Cardinality(A) = 0 <=> A = {})
  BY <1>4, FS_EmptySet, FS_Singleton
<1>8. Cardinality(B) \in {0, 1} /\ (Cardinality(B) = 0 <=> B = {})
  BY <1>5, FS_EmptySet, FS_Singleton
<1>9. Carriers(id) = Cardinality(A) + Cardinality(B)
  BY DEF Carriers, A, B
<1> QED
  BY <1>3, <1>6, <1>7, <1>8, <1>9

(***************************************************************************)
(* Every insert that waits has one listener, and in the first life of the  *)
(* daemon exactly one request, handler or response carries that listener's *)
(* id; a restart may lose it, nothing doubles it (test.cpp 27-81, 154,     *)
(* 169, 177, 194; one send per handler in Worker.cpp).                     *)
(***************************************************************************)
THEOREM OneAnswer == Spec => []OneAnswerOnTheWay
<1>1. TypeOK /\ Conversation /\ Awaited => OneAnswerOnTheWay
  <2> SUFFICES ASSUME TypeOK, Conversation, Awaited
               PROVE  OneAnswerOnTheWay
    OBVIOUS
  <2>1. /\ DOMAIN listeners \subseteq Id /\ sent \in [Ops -> Nat] /\ epoch \in Nat
        /\ \A id \in DOMAIN listeners :
             /\ listeners[id] = id[1] /\ id = <<id[1], sent[id[1]]>>
             /\ cstate[id[1]] = "waiting"
        /\ \A o \in Ops : cstate[o] = "waiting" => <<o, sent[o]>> \in DOMAIN listeners
    BY DEF TypeOK, ClientTypeOK, WorkerTypeOK, Id, Awaited, Conversation, Listening
  <2>2. ASSUME NEW o \in Ops
        PROVE  Cardinality({id \in DOMAIN listeners : listeners[id] = o})
                 = IF cstate[o] = "waiting" THEN 1 ELSE 0
    <3> DEFINE L == {id \in DOMAIN listeners : listeners[id] = o}
    <3>1. CASE cstate[o] = "waiting"
      <4>1. L = {<<o, sent[o]>>}
        BY <2>1, <3>1
      <4> QED
        BY <3>1, <4>1, FS_Singleton
    <3>2. CASE cstate[o] # "waiting"
      <4>1. L = {}
        BY <2>1, <3>2
      <4> QED
        BY <3>2, <4>1, FS_EmptySet
    <3> QED
      BY <3>1, <3>2
  <2>3. ASSUME NEW o \in Ops, NEW n \in 1..sent[o]
        PROVE  IF <<o, n>> \in DOMAIN listeners
               THEN Carriers(<<o, n>>) = 1 \/ (epoch > 0 /\ Carriers(<<o, n>>) = 0)
               ELSE Carriers(<<o, n>>) = 0
    <3>n. n \in Nat
      BY <2>1
    <3>0. PICK id \in Id : id = <<o, n>>
      BY <3>n DEF Id
    <3>1. /\ Carriers(id) \in {0, 1}
          /\ Carriers(id) = 0 <=> \A c \in Carried : c.id # id
      BY CarriersAre
    <3>2. \A c \in Carried : Named(c)
      BY DEF Conversation, AllNamed, Carried
    <3>3. CASE id \in DOMAIN listeners
      <4>1. n = sent[o] /\ cstate[o] = "waiting"
        BY <2>1, <3>0, <3>3
      <4>2. epoch = 0 => \E c \in Carried : c.id = id
        BY <3>0, <3>2, <4>1 DEF Awaited, Carried, Named
      <4> QED
        BY <2>1, <3>0, <3>1, <3>3, <4>2
    <3>4. CASE id \notin DOMAIN listeners
      <4>1. \A c \in Carried : c.id # id
        <5> SUFFICES ASSUME NEW c \in Carried, c.id = id
                     PROVE  FALSE
          OBVIOUS
        <5>1. Owner(c) = o /\ cstate[o] = "waiting" /\ id = <<o, sent[o]>>
          BY <3>0, <3>2 DEF Named, Owner
        <5> QED
          BY <2>1, <3>4, <5>1
      <4> QED
        BY <3>0, <3>1, <3>4, <4>1
    <3> QED
      BY <3>0, <3>3, <3>4
  <2> QED
    BY <2>2, <2>3 DEF OneAnswerOnTheWay
<1> QED
  BY <1>1, Typed, Conversing, Waiting, PTL
-----------------------------------------------------------------------------
(***************************************************************************)
(* How a state of the insert path reads as a state of the index.           *)
(***************************************************************************)
Stands(x) == /\ IndexStatus(x)' = IndexStatus(x)
             /\ IndexPlace(x)' = IndexPlace(x)
             /\ IndexLabel(x)' = IndexLabel(x)

LEMMA SameStands ==
  ASSUME TypeOK, PlacesKept, epoch' = epoch,
         NEW x \in OpeOps, Same(x), rows'[x] = rows[x]
  PROVE  Stands(x)
<1>1. x \in DOMAIN travs => travs[x].cur \in DOMAIN nodes
  BY DEF TypeOK, BTreeTypeOK
<1> QED
  BY <1>1 DEF Stands, Same, PlacesKept, IndexStatus, IndexPlace, IndexLabel

LEMMA IndexStays ==
  ASSUME \A x \in OpeOps : Stands(x)
  PROVE  UNCHANGED Index!vars
  BY DEF Stands, Index!vars

LEMMA Shown ==
  ASSUME NEW o \in OpeOps, \A x \in OpeOps \ {o} : Stands(x)
  PROVE  /\ [x \in OpeOps |-> IndexStatus(x)]' =
              [[x \in OpeOps |-> IndexStatus(x)] EXCEPT ![o] = IndexStatus(o)']
         /\ [x \in OpeOps |-> IndexPlace(x)]' =
              [[x \in OpeOps |-> IndexPlace(x)] EXCEPT ![o] = IndexPlace(o)']
         /\ [x \in OpeOps |-> IndexLabel(x)]' =
              [[x \in OpeOps |-> IndexLabel(x)] EXCEPT ![o] = IndexLabel(o)']
  BY DEF Stands

LEMMA ShownSame ==
  ASSUME NEW o \in OpeOps, \A x \in OpeOps \ {o} : Stands(x)
  PROVE  /\ IndexStatus(o)' = IndexStatus(o) =>
              [x \in OpeOps |-> IndexStatus(x)]' = [x \in OpeOps |-> IndexStatus(x)]
         /\ IndexPlace(o)' = IndexPlace(o) =>
              [x \in OpeOps |-> IndexPlace(x)]' = [x \in OpeOps |-> IndexPlace(x)]
         /\ IndexLabel(o)' = IndexLabel(o) =>
              [x \in OpeOps |-> IndexLabel(x)]' = [x \in OpeOps |-> IndexLabel(x)]
  BY DEF Stands

\* The nodes of o's table are the placed operations of the index.
LEMMA NodesPlaced ==
  ASSUME TypeOK, NEW o \in OpeOps
  PROVE  /\ \A n \in DOMAIN nodes : Key[n] = Key[o] => n \in Index!Placed(Key[o])
         /\ \A n \in Index!Placed(Key[o]) : n \in DOMAIN nodes /\ Key[n] = Key[o]
         /\ \A p : Index!Occupied(Key[o], p) <=>
              \E n \in DOMAIN nodes : Key[n] = Key[o] /\ nodes[n].pos = p
<1>1. DOMAIN nodes \subseteq OpeOps
  BY DEF TypeOK, BTreeTypeOK
<1>2. \A n \in DOMAIN nodes : Key[n] = Key[o] => n \in Index!Placed(Key[o])
  BY <1>1 DEF Index!Placed, IndexStatus
<1>3. \A n \in Index!Placed(Key[o]) : n \in DOMAIN nodes /\ Key[n] = Key[o]
  BY DEF Index!Placed, IndexStatus
<1>4. ASSUME NEW p
      PROVE  Index!Occupied(Key[o], p) <=>
               \E n \in DOMAIN nodes : Key[n] = Key[o] /\ nodes[n].pos = p
  BY <1>1, <1>2, <1>3 DEF Index!Occupied, IndexPlace
<1> QED
  BY <1>2, <1>3, <1>4

\* What o's client may answer about its walk's node, it may answer of the index.
LEMMA WalkAnswers ==
  ASSUME TypeOK, Growth, NEW o \in DOMAIN travs, o \notin DOMAIN nodes,
         NEW c, Answerable(o, c)
  PROVE  Index!Answers(o, c)
<1>1. PICK n : n = travs[o].cur
  OBVIOUS
<1>2. n \in DOMAIN nodes /\ Key[n] = Key[o] /\ n \in OpeOps /\ o \in OpeOps
  BY <1>1 DEF TypeOK, BTreeTypeOK, Growth, TreesShaped, WalksInTable
<1>3. n \in Index!Placed(Key[o])
  BY <1>2, NodesPlaced
<1>4. IndexPlace(n) = IndexPlace(o)
  BY <1>1, <1>2 DEF IndexPlace
<1>5. \E u \in ReadsOf[n] : Index!Compare(u, Val[o]) = c
  BY <1>1 DEF Answerable, Compare, Index!Compare
<1> QED
  BY <1>2, <1>3, <1>4, <1>5 DEF Index!Answers
-----------------------------------------------------------------------------
(***************************************************************************)
(* The steps that the index takes.                                         *)
(***************************************************************************)
LEMMA MakeTreePlaces ==
  ASSUME TypeOK, Growth, NEW o \in OpeOps, ~Begun(o), ~raced, forest[Key[o]] = NULL,
         nodes' = Put(nodes, o, NewNode(<<>>)), UNCHANGED <<travs, answer, rows, epoch>>
  PROVE  Index!PlaceRoot(o)
<1>1. /\ DOMAIN nodes' = DOMAIN nodes \cup {o}
      /\ o \notin DOMAIN nodes /\ o \notin DOMAIN travs
      /\ nodes'[o].pos = <<>>
      /\ \A n \in DOMAIN nodes : nodes'[n] = nodes[n]
  BY DEF Put, NewNode, Begun
<1>2. \A x \in OpeOps \ {o} : Stands(x)
  BY <1>1, SameStands DEF PlacesKept, Same
<1>3. /\ IndexStatus(o) = "new" /\ IndexStatus(o)' = "placed"
      /\ IndexPlace(o)' = IndexPlace(o)
      /\ IndexLabel(o)' = IndexLabel(o)
  BY <1>1 DEF IndexStatus, IndexPlace, IndexLabel
<1>4. Index!Placed(Key[o]) = {}
  BY NodesPlaced DEF Growth, OneTree, AllReached
<1> QED
  BY <1>2, <1>3, <1>4, Shown, ShownSame DEF Index!PlaceRoot

LEMMA BeginTraverseStarts ==
  ASSUME TypeOK, Growth, NEW o \in OpeOps, ~Begun(o), answer[o] = NoAnswer,
         NEW r \in DOMAIN nodes, Key[r] = Key[o], nodes[r].pos = <<>>,
         travs' = Put(travs, o, NewTraverse(r)), UNCHANGED <<nodes, answer, rows, epoch>>
  PROVE  Index!StartSearch(o)
<1>1. /\ DOMAIN travs' = DOMAIN travs \cup {o}
      /\ o \notin DOMAIN nodes /\ o \notin DOMAIN travs
      /\ travs'[o].cur = r
      /\ \A t \in DOMAIN travs : travs'[t] = travs[t]
  BY DEF Put, NewTraverse, Begun
<1>2. \A x \in OpeOps \ {o} : Stands(x)
  BY <1>1, SameStands DEF PlacesKept, Same
<1>3. /\ IndexStatus(o) = "new" /\ IndexStatus(o)' = "search"
      /\ IndexPlace(o)' = IndexPlace(o)
      /\ IndexLabel(o)' = IndexLabel(o)
  BY <1>1 DEF IndexStatus, IndexPlace, IndexLabel, NoAnswer
<1>4. Index!Placed(Key[o]) # {}
  BY NodesPlaced
<1> QED
  BY <1>2, <1>3, <1>4, Shown, ShownSame DEF Index!StartSearch

\* The side the handler takes is the turn of the index.
LEMMA SideIsTurn ==
  ASSUME NEW m
  PROVE  Side(m) = Index!Turn(m.cmp)
  BY DEF Side, Index!Turn

LEMMA DescendDescends ==
  ASSUME TypeOK, Growth, NEW o \in DOMAIN travs, o \notin DOMAIN nodes,
         NEW c \in {-1, 1}, answer[o] = c, Answerable(o, c),
         NEW b \in Bit, b = Index!Turn(c), Child(o, b) # NULL, StepDown(o, b),
         UNCHANGED <<answer, rows, epoch>>
  PROVE  Index!Descend(o, c)
<1>1. PICK n, k : n = travs[o].cur /\ k = Child(o, b)
  OBVIOUS
<1>2. n \in DOMAIN nodes /\ k \in DOMAIN nodes /\ o \in OpeOps /\ Key[n] = Key[o]
  BY <1>1 DEF TypeOK, BTreeTypeOK, Child, Growth, TreesShaped, WalksInTable
<1>3. Key[k] = Key[o] /\ nodes[k].pos = Append(nodes[n].pos, b)
  BY <1>1, <1>2 DEF Growth, TreesShaped, KidsBelow, Below, Child
<1>4. /\ nodes' = nodes /\ DOMAIN travs' = DOMAIN travs
      /\ travs'[o].cur = k
      /\ \A t \in DOMAIN travs : t # o => travs'[t] = travs[t]
  BY <1>1 DEF StepDown
<1>5. \A x \in OpeOps \ {o} : Stands(x)
  BY <1>4, SameStands DEF PlacesKept, Same
<1>6. /\ IndexStatus(o) = "search" /\ IndexStatus(o)' = IndexStatus(o)
      /\ IndexPlace(o) = nodes[n].pos /\ IndexPlace(o)' = Append(IndexPlace(o), b)
      /\ IndexLabel(o)' = IndexLabel(o)
  BY <1>1, <1>3, <1>4 DEF IndexStatus, IndexPlace, IndexLabel
<1>7. Index!Answers(o, c)
  BY WalkAnswers
<1>8. Index!Occupied(Key[o], Append(IndexPlace(o), b))
  <2>1. Append(IndexPlace(o), b) = nodes[k].pos
    BY <1>3, <1>6
  <2>2. Index!Occupied(Key[o], nodes[k].pos)
    BY <1>2, <1>3, NodesPlaced
  <2> QED
    BY <2>1, <2>2
<1>9. /\ [x \in OpeOps |-> IndexPlace(x)]' =
             [[x \in OpeOps |-> IndexPlace(x)] EXCEPT ![o] = Append(IndexPlace(o), b)]
      /\ [x \in OpeOps |-> IndexStatus(x)]' = [x \in OpeOps |-> IndexStatus(x)]
      /\ [x \in OpeOps |-> IndexLabel(x)]' = [x \in OpeOps |-> IndexLabel(x)]
  BY <1>2, <1>5, <1>6, Shown, ShownSame
<1> QED
  BY <1>2, <1>6, <1>7, <1>8, <1>9 DEF Index!Descend

LEMMA AttachAttaches ==
  ASSUME TypeOK, Growth, ~raced, NEW o \in DOMAIN travs, o \notin DOMAIN nodes,
         NEW c \in {-1, 1}, answer[o] = c, Answerable(o, c),
         NEW b \in Bit, b = Index!Turn(c), Child(o, b) = NULL, AttachLeaf(o, b),
         UNCHANGED <<answer, rows, epoch>>, PlacesKept
  PROVE  Index!Attach(o, c)
<1>1. PICK n, p : n = travs[o].cur /\ p = Append(nodes[n].pos, b)
  OBVIOUS
<1>2. n \in DOMAIN nodes /\ o \in OpeOps /\ Key[n] = Key[o] /\ NULL \notin OpeOps
      /\ DOMAIN nodes \subseteq OpeOps
  BY <1>1, InsertsAssumption
     DEF TypeOK, BTreeTypeOK, Growth, TreesShaped, WalksInTable
<1>3. /\ DOMAIN nodes' = DOMAIN nodes \cup {o} /\ nodes'[o].pos = p
      /\ DOMAIN travs' = DOMAIN travs
      /\ \A t \in DOMAIN travs : t # o => travs'[t] = travs[t]
  BY <1>1 DEF AttachLeaf, Put, NewNode
<1>4. \A x \in OpeOps \ {o} : Stands(x)
  BY <1>3, SameStands DEF Same
<1>5. /\ IndexStatus(o) = "search" /\ IndexStatus(o)' = "placed"
      /\ IndexPlace(o) = nodes[n].pos /\ IndexPlace(o)' = Append(IndexPlace(o), b)
      /\ IndexLabel(o)' = IndexLabel(o)
  BY <1>1, <1>3 DEF IndexStatus, IndexPlace, IndexLabel
<1>6. Index!Answers(o, c)
  BY WalkAnswers
<1>7. ~Index!Occupied(Key[o], Append(IndexPlace(o), b))
  <2> SUFFICES ASSUME NEW k \in DOMAIN nodes, Key[k] = Key[o], nodes[k].pos = p
               PROVE  FALSE
    <3>1. Append(IndexPlace(o), b) = p
      BY <1>1, <1>5
    <3>2. Index!Occupied(Key[o], p) <=>
            \E k \in DOMAIN nodes : Key[k] = Key[o] /\ nodes[k].pos = p
      BY <1>2, NodesPlaced
    <3> QED
      BY <3>1, <3>2
  <2>1. Below(n, b, k)
    BY <1>1, <1>2 DEF Below
  <2>2. nodes[n].kid[b] = k
    BY <1>2, <2>1 DEF Growth, OneTree, OnePlaceEach
  <2> QED
    BY <1>1, <1>2, <2>2 DEF Child
<1> QED
  BY <1>2, <1>4, <1>5, <1>6, <1>7, Shown, ShownSame DEF Index!Attach

LEMMA RowStored ==
  ASSUME TypeOK, Conversation, NEW o \in DOMAIN nodes, ~Closing(o),
         NEW path \in Word, NEW d, AddRow(o, path, d),
         Len(nodes[o].pos) < PathBits => path = Label(nodes[o].pos),
         UNCHANGED <<nodes, travs, answer, epoch>>
  PROVE  Index!Store(o) \/ UNCHANGED Index!vars
<1>1. /\ o \in OpeOps /\ o \in Ops
      /\ rows[o] = <<>>
      /\ rows \in [Ops -> Seq([path : Word \cup {<<>>}, depth : Nat, epoch : Nat])]
  BY InsertsAssumption DEF Conversation, RowsClose, TypeOK, WorkerTypeOK, BTreeTypeOK
<1>2. PlacesKept /\ \A x : Same(x)
  BY DEF PlacesKept, Same
<1>3. CASE rows' = rows
  BY <1>2, <1>3, SameStands, IndexStays
<1>4. CASE rows' = [rows EXCEPT ![o] = Append(rows[o], Row(path, d))]
  <2>1. rows'[o] = <<Row(path, d)>> /\ \A x \in Ops \ {o} : rows'[x] = rows[x]
    BY <1>1, <1>4
  <2>2. rows'[o] # <<>> /\ rows'[o][1].path = path /\ rows'[o][1].epoch = epoch
    BY <2>1 DEF Row
  <2>3. \A x \in OpeOps \ {o} : Stands(x)
    BY <1>2, <2>1, InsertsAssumption, SameStands
  <2>4. /\ IndexLabel(o) = <<>> /\ IndexLabel(o)' = path
        /\ IndexStatus(o) = "placed" /\ IndexStatus(o)' = IndexStatus(o)
        /\ IndexPlace(o) = nodes[o].pos /\ IndexPlace(o)' = IndexPlace(o)
    BY <1>1, <2>2 DEF IndexLabel, IndexStatus, IndexPlace
  <2>5. path = Label(IndexPlace(o)) \/ ~(Len(IndexPlace(o)) < PathBits)
    BY <2>4
  <2>6. /\ [x \in OpeOps |-> IndexLabel(x)]' =
             [[x \in OpeOps |-> IndexLabel(x)] EXCEPT ![o] = path]
        /\ [x \in OpeOps |-> IndexStatus(x)]' = [x \in OpeOps |-> IndexStatus(x)]
        /\ [x \in OpeOps |-> IndexPlace(x)]' = [x \in OpeOps |-> IndexPlace(x)]
    BY <1>1, <2>3, <2>4, Shown, ShownSame
  <2>7. Index!Store(o)
    BY <1>1, <2>4, <2>5, <2>6
       DEF Index!Store, Index!NoLabel, Index!Label, Label, Index!Word, Word, Index!Bit, Bit
  <2> QED
    BY <2>7
<1> QED
  BY <1>3, <1>4 DEF AddRow

LEMMA EqualDrops ==
  ASSUME TypeOK, Growth, NEW o \in DOMAIN travs, o \notin DOMAIN nodes,
         answer[o] # 0, answer' = [answer EXCEPT ![o] = 0], Answerable(o, 0),
         UNCHANGED <<nodes, travs, rows, epoch>>
  PROVE  Index!Drop(o)
<1>1. o \in OpeOps /\ OpeOps \subseteq Ops /\ answer \in [Ops -> {-1, 0, 1, NoAnswer}]
  BY InsertsAssumption DEF TypeOK, BTreeTypeOK, ClientTypeOK
<1>2. \A x \in OpeOps \ {o} : Stands(x)
  BY <1>1, SameStands DEF Same, PlacesKept
<1>3. /\ IndexStatus(o) = "search" /\ IndexStatus(o)' = "dropped"
      /\ IndexPlace(o)' = IndexPlace(o)
      /\ IndexLabel(o)' = IndexLabel(o)
  BY <1>1 DEF IndexStatus, IndexPlace, IndexLabel
<1>4. Index!Answers(o, 0)
  BY WalkAnswers
<1> QED
  BY <1>1, <1>2, <1>3, <1>4, Shown, ShownSame DEF Index!Drop
-----------------------------------------------------------------------------
(***************************************************************************)
(* Every step of the system is a step of the index, or none of its.        *)
(***************************************************************************)
LEMMA QuietStep ==
  ASSUME TypeOK, UNCHANGED <<nodes, travs, answer, epoch>>,
         \A x \in OpeOps : rows'[x] = rows[x]
  PROVE  UNCHANGED Index!vars
<1>1. PlacesKept /\ \A x : Same(x)
  BY DEF PlacesKept, Same
<1> QED
  BY <1>1, SameStands, IndexStays

LEMMA HandlerIs ==
  ASSUME TypeOK, Conversation, Growth, NEW w \in Workers, wk[w].pc # "idle"
  PROVE  /\ HandlerOK(wk[w])
         /\ HandlerFits(wk[w])
         /\ Named(wk[w].msg)
         /\ wk[w].msg \in Requests
         /\ Owner(wk[w].msg) \in Ops
         /\ wk[w].pc \in {"goTo", "attach", "leafRow"} =>
              wk[w].ptr \in {Owner(wk[w].msg), NULL}
         /\ wk[w].pc \notin {"removeTraverse", "send"} => ~Closing(Owner(wk[w].msg))
<1>1. w \in Busy /\ wk[w].msg \in Requests /\ Owner(wk[w].msg) \in Ops
  BY BusyIs
<1>2. HandlerOK(wk[w]) /\ HandlerFits(wk[w]) /\ Named(wk[w].msg)
  BY <1>1 DEF TypeOK, WorkerTypeOK, Growth, Conversation, AllNamed
<1>3. wk[w].pc \in {"goTo", "attach", "leafRow"} =>
        wk[w].ptr \in {Owner(wk[w].msg), NULL}
  BY DEF Conversation, OwnWalks
<1>4. wk[w].pc \notin {"removeTraverse", "send"} => ~Closing(Owner(wk[w].msg))
  BY <1>1 DEF Closing
<1> QED
  BY <1>1, <1>2, <1>3, <1>4

LEMMA WorkerMaps ==
  ASSUME TypeOK, Conversation, Growth, NEW w \in Workers, WorkerStep(w), ~raced'
  PROVE  Index!Next \/ UNCHANGED Index!vars
<1> DEFINE h == wk[w]
           m == wk[w].msg
           o == Owner(wk[w].msg)
<1>0. NULL \notin Ops /\ OpeOps \subseteq Ops /\ BTreeTypeOK
  BY InsertsAssumption DEF TypeOK
<1>u. UNCHANGED answer
  BY DEF WorkerStep, clientVars
<1>1. CASE Recv(w) \/ Send(w) \/ GetTree(w) \/ GetTraverse(w) \/ NullTraverse(w)
           \/ FindFree(w) \/ FinishTraverse(w) \/ MapCrash(w)
  <2>1. UNCHANGED <<nodes, travs, answer, epoch, rows>>
    BY <1>1, <1>u DEF Recv, Send, GetTree, GetTraverse, NullTraverse, FindFree,
       FinishTraverse, MapCrash, treeVars, LookUp, RemoveTraverse
  <2> QED
    BY <2>1, QuietStep
<1>2. CASE InsertPlain(w)
  <2>1. h.pc = "plainRow"
    BY <1>2 DEF InsertPlain, At
  <2>2. o \notin OpeOps /\ m.op = o
    BY <2>1, HandlerIs DEF HandlerOK, HandlerFits, Named
  <2>3. \A x \in OpeOps : rows'[x] = rows[x]
    BY <1>2, <1>0, <2>2 DEF InsertPlain, AddRow, TypeOK, WorkerTypeOK
  <2>4. UNCHANGED <<nodes, travs, answer, epoch>>
    BY <1>2, <1>u DEF InsertPlain, treeVars
  <2> QED
    BY <2>3, <2>4, QuietStep
<1>3. CASE MakeTree(w)
  <2>1. h.pc = "createTree"
    BY <1>3 DEF MakeTree, At
  <2>2. m.op = o /\ o \in OpeOps /\ ~Begun(o)
    BY <2>1, HandlerIs DEF HandlerOK, HandlerFits, Named
  <2>3. /\ nodes' = Put(nodes, o, NewNode(<<>>))
        /\ UNCHANGED <<travs, answer, rows, epoch>>
        /\ ~raced /\ forest[Key[o]] = NULL
    BY <1>3, <1>u, <2>2 DEF MakeTree, CreateTree
  <2>4. Index!PlaceRoot(o)
    BY <2>2, <2>3, MakeTreePlaces
  <2> QED
    BY <2>2, <2>4 DEF Index!Next
<1>4. CASE InsertRoot(w)
  <2>1. h.pc = "rootRow"
    BY <1>4 DEF InsertRoot, At
  <2>2. m.op = o /\ o \in DOMAIN nodes /\ nodes[o].pos = <<>> /\ o \in OpeOps
        /\ ~Closing(o)
    BY <2>1, HandlerIs DEF HandlerOK, HandlerFits, Named
  <2>3. UNCHANGED <<nodes, travs, answer, epoch>> /\ AddRow(o, RootPath, 0)
    BY <1>4, <1>u, <2>2 DEF InsertRoot, treeVars
  <2>4. Index!Store(o) \/ UNCHANGED Index!vars
    BY <2>2, <2>3, RootPathIsWord, EmptyWords, RowStored
  <2> QED
    BY <2>2, <2>4 DEF Index!Next
<1>5. CASE BeginTraverse(w)
  <2>1. h.pc = "createTraverse"
    BY <1>5 DEF BeginTraverse, At
  <2>2. /\ m.op = o /\ o \in OpeOps /\ ~Begun(o) /\ answer[o] = NoAnswer
        /\ h.ptr \in DOMAIN nodes /\ Key[h.ptr] = Key[o] /\ nodes[h.ptr].pos = <<>>
    BY <2>1, HandlerIs DEF HandlerOK, HandlerFits, Named
  <2>3. /\ travs' = Put(travs, o, NewTraverse(h.ptr))
        /\ UNCHANGED <<nodes, answer, rows, epoch>>
    BY <1>5, <1>u, <2>2 DEF BeginTraverse, CreateTraverse
  <2>4. Index!StartSearch(o)
    BY <2>2, <2>3, BeginTraverseStarts
  <2> QED
    BY <2>2, <2>4 DEF Index!Next
<1>6. CASE Descend(w)
  <2>1. h.pc = "goTo" /\ h.ptr # NULL
    BY <1>6 DEF Descend, At
  <2>2. /\ h.ptr = o /\ o \in DOMAIN travs /\ o \notin DOMAIN nodes
        /\ m.cmp \in {-1, 1} /\ answer[o] = m.cmp /\ Answerable(o, m.cmp)
    BY <2>1, HandlerIs, RequestIs DEF HandlerOK, HandlerFits
  <2>3. /\ Child(o, Side(m)) # NULL /\ StepDown(o, Side(m))
        /\ UNCHANGED <<answer, rows, epoch>>
    BY <1>6, <1>u, <2>2 DEF Descend
  <2>4. Index!Descend(o, m.cmp)
    BY <2>2, <2>3, SideIsBit, SideIsTurn, DescendDescends
  <2>5. o \in OpeOps
    BY <1>0, <2>2 DEF BTreeTypeOK
  <2> QED
    BY <2>2, <2>4, <2>5 DEF Index!Next
<1>7. CASE Attach(w)
  <2>1. h.pc = "attach"
    BY <1>7 DEF Attach, At
  <2>2. /\ h.ptr = o /\ o \in DOMAIN travs /\ o \notin DOMAIN nodes
        /\ m.cmp \in {-1, 1} /\ answer[o] = m.cmp /\ Answerable(o, m.cmp)
    <3>1. h.ptr # NULL
      BY <1>0, <2>1, HandlerIs DEF HandlerOK, BTreeTypeOK
    <3> QED
      BY <2>1, <3>1, HandlerIs, RequestIs DEF HandlerOK, HandlerFits
  <2>3. /\ Child(o, Side(m)) = NULL /\ AttachLeaf(o, Side(m)) /\ ~raced
        /\ UNCHANGED <<answer, rows, epoch>>
    BY <1>7, <1>u, <2>2 DEF Attach
  <2>4. PlacesKept
    BY <2>2, <2>3, SideIsBit, AttachLeafShapes DEF Growth
  <2>5. Index!Attach(o, m.cmp)
    BY <2>2, <2>3, <2>4, SideIsBit, SideIsTurn, AttachAttaches
  <2>6. o \in OpeOps
    BY <1>0, <2>2 DEF BTreeTypeOK
  <2> QED
    BY <2>2, <2>5, <2>6 DEF Index!Next
<1>8. CASE InsertLeaf(w)
  <2>1. h.pc = "leafRow"
    BY <1>8 DEF InsertLeaf, At
  <2>2. /\ h.ptr = o /\ o \in DOMAIN travs /\ o \in DOMAIN nodes /\ ~Closing(o)
    <3>1. h.ptr # NULL
      BY <1>0, <2>1, HandlerIs DEF HandlerOK, BTreeTypeOK
    <3> QED
      BY <2>1, <3>1, HandlerIs DEF HandlerOK, HandlerFits
  <2>3. /\ UNCHANGED <<nodes, travs, answer, epoch>>
        /\ AddRow(o, travs[o].path, travs[o].len)
    BY <1>8, <1>u, <2>2 DEF InsertLeaf, treeVars
  <2>4. /\ travs[o].path \in Word
        /\ Len(nodes[o].pos) < PathBits => travs[o].path = Label(nodes[o].pos)
    BY <1>0, <2>2 DEF BTreeTypeOK, Growth, TreesShaped, WalksInTable, WalksSpellPlaces
  <2>5. Index!Store(o) \/ UNCHANGED Index!vars
    BY <2>2, <2>3, <2>4, RowStored
  <2>6. o \in OpeOps
    BY <1>0, <2>2 DEF BTreeTypeOK
  <2> QED
    BY <2>5, <2>6 DEF Index!Next
<1> QED
  BY <1>1, <1>2, <1>3, <1>4, <1>5, <1>6, <1>7, <1>8 DEF WorkerStep, WorkerNext

LEMMA ClientMaps ==
  ASSUME TypeOK, Conversation, Growth, ClientStep
  PROVE  Index!Next \/ UNCHANGED Index!vars
<1>1. UNCHANGED <<nodes, travs, rows, epoch>>
  BY DEF ClientStep, treeVars, workerVars
<1>2. CASE UNCHANGED answer
  BY <1>1, <1>2, QuietStep
<1>3. ASSUME NEW m \in outbox, OnResponseAddTraverse(m)
      PROVE  Index!Next \/ UNCHANGED Index!vars
  <2>1. PICK o \in Ops : o = Owner(m) /\ listeners[m.id] = o
    BY <1>3, Heard DEF OnResponseAddTraverse
  <2>2. PICK c : /\ c = Compare(m.ct, Val[o])
                 /\ answer' = [answer EXCEPT ![o] = c]
    BY <1>3, <2>1 DEF OnResponseAddTraverse
  <2>3. MessageFits(m) /\ m.type = "traverse"
    BY <1>3 DEF Growth, OnResponseAddTraverse
  <2>4. /\ o \notin DOMAIN nodes /\ answer[o] # 0
        /\ o \in DOMAIN travs => Answerable(o, c)
    BY <2>1, <2>2, <2>3 DEF MessageFits, Answerable
  <2>5. answer \in [Ops -> {-1, 0, 1, NoAnswer}] /\ OpeOps \subseteq Ops
    BY InsertsAssumption DEF TypeOK, ClientTypeOK
  <2>6. CASE o \in DOMAIN travs /\ c = 0
    <3>1. Index!Drop(o) /\ o \in OpeOps
      BY <1>1, <2>2, <2>4, <2>6, EqualDrops DEF TypeOK, BTreeTypeOK
    <3> QED
      BY <3>1 DEF Index!Next
  <2>7. CASE ~(o \in DOMAIN travs /\ c = 0)
    <3>1. \A x \in OpeOps \ {o} : Stands(x)
      BY <1>1, <2>2, <2>5, SameStands DEF Same, PlacesKept
    <3>2. answer'[o] = c
      BY <2>2, <2>5
    <3>3. o \in OpeOps => Stands(o)
      BY <1>1, <2>4, <2>7, <3>2 DEF Stands, IndexStatus, IndexPlace, IndexLabel
    <3> QED
      BY <3>1, <3>3, IndexStays
  <2> QED
    BY <2>6, <2>7
<1> QED
  BY <1>2, <1>3 DEF ClientStep, ClientNext, Run, OnResponseAddOk

LEMMA RestartMaps ==
  ASSUME TypeOK, Growth, Restart
  PROVE  epoch' # epoch /\ Index!Init'
<1>1. /\ DOMAIN nodes' = {} /\ DOMAIN travs' = {}
      /\ rows' = rows
      /\ epoch' = epoch + 1 /\ epoch \in Nat
  BY EmptyMapIs DEF Restart, TypeOK, WorkerTypeOK
<1>2. ASSUME NEW o \in OpeOps
      PROVE  /\ IndexStatus(o)' = "new" /\ IndexPlace(o)' = <<>>
             /\ IndexLabel(o)' = <<>>
  <2>1. rows[o] # <<>> => rows[o][1].epoch <= epoch /\ rows[o][1].epoch \in Nat
    BY FirstRowIs, InsertsAssumption DEF Growth, RowsFollow
  <2> QED
    BY <1>1, <2>1 DEF IndexStatus, IndexPlace, IndexLabel
<1>3. /\ [o \in OpeOps |-> IndexStatus(o)]' = [o \in OpeOps |-> "new"]
      /\ [o \in OpeOps |-> IndexPlace(o)]' = [o \in OpeOps |-> <<>>]
      /\ [o \in OpeOps |-> IndexLabel(o)]' = [o \in OpeOps |-> <<>>]
  BY <1>2
<1> QED
  BY <1>1, <1>3 DEF Index!Init, Index!NoLabel

LEMMA InitMaps ==
  ASSUME Init
  PROVE  Index!Init
<1>1. /\ DOMAIN nodes = {} /\ DOMAIN travs = {}
      /\ \A o \in Ops : rows[o] = <<>>
  BY EmptyMapIs DEF Init, BTreeInit, WorkerInit
<1>2. \A o \in OpeOps : /\ IndexStatus(o) = "new" /\ IndexPlace(o) = <<>>
                        /\ IndexLabel(o) = <<>>
  BY <1>1, InsertsAssumption DEF IndexStatus, IndexPlace, IndexLabel
<1> QED
  BY <1>2 DEF Index!Init, Index!NoLabel

LEMMA StepMaps ==
  ASSUME TypeOK, Conversation, Growth, [Next]_vars, ~raced'
  PROVE  Index!Next \/ UNCHANGED Index!vars \/ (epoch' # epoch /\ Index!Init')
<1>1. CASE UNCHANGED vars
  BY <1>1, QuietStep DEF vars, treeVars, workerVars, clientVars
<1> QED
  BY <1>1, WorkerMaps, ClientMaps, RestartMaps DEF Next, Terminated

(***************************************************************************)
(* Until the first data race every life of the daemon is a behaviour of    *)
(* OpeIndex: whatever the workers' interleaving, the messages' order and   *)
(* the contents of the freed buffers, each step is one of the index or     *)
(* leaves it alone (Worker.cpp 128-287, test.cpp 135-202), and a restart   *)
(* begins it anew (BTree.cpp 6).                                           *)
(***************************************************************************)
THEOREM Implements == Spec => ImplementsIndexUnlessRaced
<1>1. Init => Index!Init
  BY InitMaps
<1>2. TypeOK /\ Conversation /\ Growth /\ [Next]_vars =>
        [\/ raced'
         \/ Index!Next \/ UNCHANGED Index!vars
         \/ epoch' # epoch /\ Index!Init']_vars
  BY StepMaps
<1> QED
  BY <1>1, <1>2, Typed, Conversing, Growing, PTL
     DEF Spec, ImplementsIndexUnlessRaced
-----------------------------------------------------------------------------
(***************************************************************************)
(* What OpeIndex keeps, each life keeps: Life is the index with its        *)
(* theorems.                                                               *)
(***************************************************************************)
Life == INSTANCE OpeIndexProofs
          WITH Ops <- OpeOps,
               Key <- [o \in OpeOps |-> Key[o]],
               Val <- [o \in OpeOps |-> Val[o]],
               ReadsOf <- [o \in OpeOps |-> ReadsOf[o]],
               status <- [o \in OpeOps |-> IndexStatus(o)],
               pos <- [o \in OpeOps |-> IndexPlace(o)],
               label <- [o \in OpeOps |-> IndexLabel(o)]

\* The assumption of OpeIndex.
LEMMA OpsOK ==
  /\ [o \in OpeOps |-> Val[o]] \in [OpeOps -> Int]
  /\ [o \in OpeOps |-> ReadsOf[o]] \in [OpeOps -> SUBSET Int]
  /\ \A o \in OpeOps :
       [x \in OpeOps |-> Val[x]][o] \in [x \in OpeOps |-> ReadsOf[x]][o]
  BY InsertsAssumption

LEMMA LifeIsIndex ==
  /\ Index!Init => Life!Init
  /\ Index!Next => Life!Next
  /\ Index!vars = Life!vars
<1>1. Index!Init => Life!Init
  BY DEF Index!Init, Life!Init, Index!NoLabel, Life!NoLabel
<1>2. Index!Next => Life!Next
  BY DEF Index!Next, Life!Next, Index!PlaceRoot, Life!PlaceRoot,
         Index!StartSearch, Life!StartSearch, Index!Descend, Life!Descend,
         Index!Attach, Life!Attach, Index!Drop, Life!Drop, Index!Store, Life!Store,
         Index!Answers, Life!Answers, Index!Turn, Life!Turn,
         Index!Placed, Life!Placed, Index!Occupied, Life!Occupied,
         Index!NoLabel, Life!NoLabel, Index!Compare, Life!Compare,
         Index!Label, Life!Label, Index!Word, Life!Word, Index!Bit, Life!Bit
<1>3. Index!vars = Life!vars
  BY DEF Index!vars, Life!vars
<1> QED
  BY <1>1, <1>2, <1>3

LEMMA LifeInit == Life!Init => Life!IndInv
  BY Life!InitIndInv, OpsOK, PathBitsAssumption

LEMMA LifeNext == Life!IndInv /\ [Life!Next]_(Life!vars) => Life!IndInv'
  BY Life!NextIndInv, OpsOK, PathBitsAssumption

\* The index of this life is as OpeIndex promises.
OneLife == ~raced => Life!IndInv

LEMMA RacesStay ==
  ASSUME [Next]_vars, raced
  PROVE  raced'
<1>1. ASSUME NEW w \in Workers, WorkerStep(w)
      PROVE  raced'
  BY <1>1 DEF WorkerStep, WorkerNext, Recv, InsertPlain, GetTree, MakeTree, InsertRoot,
         BeginTraverse, GetTraverse, NullTraverse, Descend, FindFree, Attach,
         InsertLeaf, FinishTraverse, Send, MapCrash, NoteMapRace
<1> QED
  BY <1>1 DEF Next, Terminated, vars, ClientStep, Restart, workerVars

(***************************************************************************)
(* What OpeIndex proves of one index holds of every life of the daemon     *)
(* until its first race: the state of the insert path, read as an index,   *)
(* meets the inductive invariant of OpeIndex, and a restart begins it anew *)
(* (Worker.cpp 128-287, BTree.cpp 6).                                      *)
(***************************************************************************)
THEOREM Living == Spec => []OneLife
<1>1. Init => OneLife
  BY InitMaps, LifeIsIndex, LifeInit DEF OneLife
<1>2. /\ TypeOK /\ Conversation /\ Growth /\ OneLife /\ [Next]_vars
      /\ (Life!Init => Life!IndInv)' /\ (Index!Init => Life!Init)'
      => OneLife'
  <2> SUFFICES ASSUME TypeOK, Conversation, Growth, OneLife, [Next]_vars,
                      (Life!Init => Life!IndInv)', (Index!Init => Life!Init)', ~raced'
               PROVE  Life!IndInv'
    BY DEF OneLife
  <2>1. Life!IndInv
    BY RacesStay DEF OneLife
  <2>2. Index!Next \/ UNCHANGED Index!vars \/ Index!Init'
    BY StepMaps
  <2>3. CASE Index!Next
    BY <2>1, <2>3, LifeIsIndex, LifeNext
  <2>4. CASE UNCHANGED Index!vars
    <3>1. Life!vars' = Life!vars
      BY <2>4 DEF Index!vars, Life!vars
    <3> QED
      BY <2>1, <3>1, LifeNext
  <2> QED
    BY <2>2, <2>3, <2>4
<1>3. Index!Init => Life!Init
  BY LifeIsIndex
<1> QED
  BY <1>1, <1>2, <1>3, LifeInit, Typed, Conversing, Growing, PTL DEF Spec
-----------------------------------------------------------------------------
(***************************************************************************)
(* The rows of a life are in its index, and stay as they were stored.      *)
(***************************************************************************)
\* What DistinctPerLife and OrderedPerLife say of the first rows of two inserts.
RowsInOrder(o1, o2) ==
  (/\ o1 # o2 /\ Key[o1] = Key[o2]
   /\ rows[o1][1].epoch = rows[o2][1].epoch
   /\ rows[o1][1].depth < PathBits /\ rows[o2][1].depth < PathBits)
    => /\ rows[o1][1].path # rows[o2][1].path
       /\ Index!Intact(Key[o1]) =>
            /\ Val[o1] < Val[o2] => WordLess(rows[o2][1].path, rows[o1][1].path)
            /\ Val[o1] # Val[o2]

ThisLife == ~raced =>
  \A o1, o2 \in OpeOps :
    (/\ rows[o1] # <<>> /\ rows[o2] # <<>>
     /\ rows[o1][1].epoch = epoch) => RowsInOrder(o1, o2)

AllLives == ~raced =>
  \A o1, o2 \in OpeOps :
    rows[o1] # <<>> /\ rows[o2] # <<>> => RowsInOrder(o1, o2)

LEMMA RowIsIndexed ==
  ASSUME RowsFollow, NEW o \in OpeOps, rows[o] # <<>>, rows[o][1].epoch = epoch,
         rows[o][1].depth < PathBits
  PROVE  /\ Life!Indexed(o)
         /\ IndexStatus(o) = "placed"
         /\ IndexLabel(o) = rows[o][1].path
<1>1. o \in DOMAIN nodes /\ rows[o][1].depth = Len(nodes[o].pos)
      /\ rows[o][1].path \in Word
  BY DEF RowsFollow
<1>2. /\ IndexStatus(o) = "placed" /\ IndexLabel(o) = rows[o][1].path
      /\ IndexPlace(o) = nodes[o].pos
  BY <1>1 DEF IndexStatus, IndexLabel, IndexPlace
<1>3. ASSUME NEW v \in Word
      PROVE  v # <<>>
  <2>1. DOMAIN v = 1..PathBits /\ 1 \in 1..PathBits
    BY PathBitsAssumption DEF Word
  <2>2. DOMAIN <<>> = {}
    OBVIOUS
  <2> QED
    BY <2>1, <2>2
<1> QED
  BY <1>1, <1>2, <1>3 DEF Life!Indexed, Life!NoLabel

LEMMA ThisLifeOrdered ==
  ASSUME Growth, OneLife
  PROVE  ThisLife
<1> SUFFICES ASSUME ~raced, NEW o1 \in OpeOps, NEW o2 \in OpeOps, o1 # o2,
                    rows[o1] # <<>>, rows[o2] # <<>>, Key[o1] = Key[o2],
                    rows[o1][1].epoch = epoch, rows[o2][1].epoch = epoch,
                    rows[o1][1].depth < PathBits, rows[o2][1].depth < PathBits
             PROVE  /\ rows[o1][1].path # rows[o2][1].path
                    /\ Index!Intact(Key[o1]) =>
                         /\ Val[o1] < Val[o2] =>
                              WordLess(rows[o2][1].path, rows[o1][1].path)
                         /\ Val[o1] # Val[o2]
  BY DEF ThisLife, RowsInOrder
<1>1. Life!DistinctLabels /\ Life!LabelsOrdered /\ Life!UniqueValues
  BY Life!InvDistinctLabels, Life!InvLabelsOrdered, Life!InvUniqueValues, OpsOK,
     PathBitsAssumption DEF OneLife
<1>2. /\ Life!Indexed(o1) /\ IndexStatus(o1) = "placed"
      /\ IndexLabel(o1) = rows[o1][1].path
      /\ Life!Indexed(o2) /\ IndexStatus(o2) = "placed"
      /\ IndexLabel(o2) = rows[o2][1].path
  BY RowIsIndexed DEF Growth
<1>3. rows[o1][1].path # rows[o2][1].path
  BY <1>1, <1>2 DEF Life!DistinctLabels
<1>4. ASSUME Index!Intact(Key[o1])
      PROVE  /\ Val[o1] # Val[o2]
             /\ Val[o1] < Val[o2] => WordLess(IndexLabel(o2), IndexLabel(o1))
  <2>1. Life!Intact(Key[o1])
    BY <1>4 DEF Index!Intact, Life!Intact
  <2>2. Val[o1] # Val[o2]
    BY <1>1, <1>2, <2>1 DEF Life!UniqueValues
  <2>3. Val[o1] < Val[o2] => Life!WordLess(IndexLabel(o2), IndexLabel(o1))
    BY <1>1, <1>2, <2>1 DEF Life!LabelsOrdered
  <2> QED
    BY <2>2, <2>3 DEF Life!WordLess, WordLess
<1> QED
  BY <1>2, <1>3, <1>4

LEMMA RowsOnceStored ==
  ASSUME TypeOK, Conversation', [Next]_vars, NEW o \in Ops
  PROVE  rows'[o] = rows[o] \/ rows'[o][1].epoch = epoch'
<1>1. rows \in [Ops -> Seq([path : Word \cup {<<>>}, depth : Nat, epoch : Nat])]
  BY DEF TypeOK, WorkerTypeOK
<1>2. ASSUME NEW x, NEW p, NEW d, AddRow(x, p, d), epoch' = epoch
      PROVE  rows'[o] = rows[o] \/ rows'[o][1].epoch = epoch'
  <2>1. CASE rows' = rows
    BY <2>1
  <2>2. CASE rows' = [rows EXCEPT ![x] = Append(rows[x], Row(p, d))]
    <3>1. CASE x # o
      BY <2>2, <3>1
    <3>2. CASE x = o
      <4>1. rows'[o] = Append(rows[o], Row(p, d))
        BY <1>1, <2>2, <3>2
      <4>2. Len(rows'[o]) <= 1
        BY DEF Conversation, RowsClose
      <4>3. rows[o] = <<>>
        <5>1. PICK s, e, R : s = rows[o] /\ e = Row(p, d)
                             /\ R = [path : Word \cup {<<>>}, depth : Nat, epoch : Nat]
          OBVIOUS
        <5>2. s \in Seq(R) /\ Len(Append(s, e)) <= 1
          BY <1>1, <4>1, <4>2, <5>1
        <5>3. Len(Append(s, e)) = Len(s) + 1
          BY <5>2
        <5>4. s = <<>>
          BY <5>2, <5>3
        <5> QED
          BY <5>1, <5>4
      <4>4. rows'[o] = <<Row(p, d)>>
        BY <4>1, <4>3
      <4>5. rows'[o][1] = Row(p, d)
        BY <4>4
      <4> QED
        BY <1>2, <4>5 DEF Row
    <3> QED
      BY <3>1, <3>2
  <2> QED
    BY <1>2, <2>1, <2>2 DEF AddRow
<1>3. ASSUME NEW w \in Workers, WorkerStep(w)
      PROVE  rows'[o] = rows[o] \/ rows'[o][1].epoch = epoch'
  <2>1. CASE InsertPlain(w) \/ InsertRoot(w) \/ InsertLeaf(w)
    BY <1>2, <2>1 DEF InsertPlain, InsertRoot, InsertLeaf
  <2>2. CASE ~(InsertPlain(w) \/ InsertRoot(w) \/ InsertLeaf(w))
    BY <1>3, <2>2 DEF WorkerStep, WorkerNext, Recv, GetTree, MakeTree, BeginTraverse,
       GetTraverse, NullTraverse, Descend, FindFree, Attach, FinishTraverse, Send,
       MapCrash
  <2> QED
    BY <2>1, <2>2
<1> QED
  BY <1>3 DEF Next, Terminated, vars, ClientStep, Restart, workerVars

LEMMA RowsStayOrdered == Spec => []AllLives
<1>1. Init => AllLives
  BY InsertsAssumption DEF Init, WorkerInit, AllLives
<1>2. Growth /\ OneLife => ThisLife
  BY ThisLifeOrdered
<1>3. /\ TypeOK /\ AllLives /\ [Next]_vars
      /\ ThisLife' /\ Conversation'
      => AllLives'
  <2> SUFFICES ASSUME TypeOK, AllLives, [Next]_vars, ThisLife', Conversation', ~raced',
                      NEW o1 \in OpeOps, NEW o2 \in OpeOps,
                      rows'[o1] # <<>>, rows'[o2] # <<>>
               PROVE  RowsInOrder(o1, o2)'
    BY DEF AllLives
  <2>1. CASE rows'[o1][1].epoch = epoch'
    BY <2>1 DEF ThisLife
  <2>2. CASE rows'[o1][1].epoch # epoch' /\ rows'[o2][1].epoch # epoch'
    <3>1. rows'[o1] = rows[o1] /\ rows'[o2] = rows[o2]
      BY <2>2, RowsOnceStored, InsertsAssumption
    <3>2. RowsInOrder(o1, o2)
      BY <3>1, RacesStay DEF AllLives
    <3> QED
      BY <3>1, <3>2 DEF RowsInOrder
  <2>3. CASE rows'[o1][1].epoch # epoch' /\ rows'[o2][1].epoch = epoch'
    BY <2>3 DEF RowsInOrder
  <2> QED
    BY <2>1, <2>2, <2>3
<1> QED
  BY <1>1, <1>2, <1>3, Typed, Conversing, Growing, Living, PTL DEF Spec

\* An insert has one row at most, and it is the first.
LEMMA RowIsFirst ==
  ASSUME TypeOK, Conversation, NEW o \in OpeOps, NEW i \in DOMAIN rows[o]
  PROVE  i = 1 /\ rows[o] # <<>>
<1>1. Len(rows[o]) <= 1 /\ DOMAIN rows[o] = 1..Len(rows[o]) /\ Len(rows[o]) \in Nat
  BY InsertsAssumption DEF Conversation, RowsClose, TypeOK, WorkerTypeOK
<1> QED
  BY <1>1

(***************************************************************************)
(* The rows of one table and one life are ordered by their paths as the    *)
(* hidden values are, largest first, and no two hold equal values, as far  *)
(* as the word reaches; for intact buffers, until the first race, and for  *)
(* the rows of earlier lives too (Worker.cpp 172, 176, 262, 265).          *)
(***************************************************************************)
THEOREM Ordering == Spec => []OrderedPerLife
<1>1. TypeOK /\ Conversation /\ AllLives => OrderedPerLife
  <2> SUFFICES ASSUME TypeOK, Conversation, AllLives, ~raced,
                      NEW o1 \in OpeOps, NEW o2 \in OpeOps,
                      NEW i1 \in DOMAIN rows[o1], NEW i2 \in DOMAIN rows[o2]
               PROVE  (/\ o1 # o2 /\ Key[o1] = Key[o2] /\ Index!Intact(Key[o1])
                       /\ rows[o1][i1].epoch = rows[o2][i2].epoch
                       /\ rows[o1][i1].depth < PathBits /\ rows[o2][i2].depth < PathBits)
                        => /\ Val[o1] < Val[o2] =>
                                WordLess(rows[o2][i2].path, rows[o1][i1].path)
                           /\ Val[o1] # Val[o2]
    BY DEF OrderedPerLife
  <2>1. i1 = 1 /\ i2 = 1 /\ RowsInOrder(o1, o2)
    BY RowIsFirst DEF AllLives
  <2> QED
    BY <2>1 DEF RowsInOrder
<1> QED
  BY <1>1, Typed, Conversing, RowsStayOrdered, PTL

(***************************************************************************)
(* No two rows of one table and one life share a path, whatever the freed  *)
(* buffers read as, until the first race (Worker.cpp 167, BTree.cpp 48).  *)
(***************************************************************************)
THEOREM Distinct == Spec => []DistinctPerLife
<1>1. TypeOK /\ Conversation /\ AllLives => DistinctPerLife
  <2> SUFFICES ASSUME TypeOK, Conversation, AllLives, ~raced,
                      NEW o1 \in OpeOps, NEW o2 \in OpeOps,
                      NEW i1 \in DOMAIN rows[o1], NEW i2 \in DOMAIN rows[o2]
               PROVE  (/\ o1 # o2 /\ Key[o1] = Key[o2]
                       /\ rows[o1][i1].epoch = rows[o2][i2].epoch
                       /\ rows[o1][i1].depth < PathBits /\ rows[o2][i2].depth < PathBits)
                        => rows[o1][i1].path # rows[o2][i2].path
    BY DEF DistinctPerLife
  <2>1. i1 = 1 /\ i2 = 1 /\ RowsInOrder(o1, o2)
    BY RowIsFirst DEF AllLives
  <2> QED
    BY <2>1 DEF RowsInOrder
<1> QED
  BY <1>1, Typed, Conversing, RowsStayOrdered, PTL
-----------------------------------------------------------------------------
(***************************************************************************)
(* Whoever is told "ok" has its value in the index.                        *)
(***************************************************************************)
\* No step but a restart takes a node away.
LEMMA NodesGrow ==
  ASSUME TypeOK, NEW w \in Workers, WorkerStep(w)
  PROVE  DOMAIN nodes \subseteq DOMAIN nodes'
<1>1. CASE MakeTree(w)
  BY <1>1 DEF MakeTree, CreateTree, Put
<1>2. CASE Attach(w)
  BY <1>2 DEF Attach, AttachLeaf, Put
<1>3. CASE ~MakeTree(w) /\ ~Attach(w)
  BY <1>3 DEF WorkerStep, WorkerNext, Recv, InsertPlain, GetTree, InsertRoot,
     BeginTraverse, GetTraverse, NullTraverse, Descend, FindFree, InsertLeaf,
     FinishTraverse, Send, MapCrash, treeVars, CreateTraverse, LookUp, StepDown,
     RemoveTraverse
<1> QED
  BY <1>1, <1>2, <1>3

\* What a handler of o that will answer "ok" knows, and a response that says so.
LEMMA ValuesByWorker ==
  ASSUME TypeOK, Conversation, Growth, ValuesIn, NEW w \in Workers, WorkerStep(w),
         ~raced, epoch = 0, NEW o \in OpeOps, Index!Intact(Key[o])
  PROVE  /\ cstate'[o] = "done" \/ answer'[o] = 0 => ValueIn(o)'
         /\ \A m \in outbox' : Owner(m) = o /\ m.type = "ok" => ValueIn(o)'
         /\ \A x \in Busy' :
              Owner(wk'[x].msg) = o /\ wk'[x].pc = "send" /\ wk'[x].ask = NULL
                => ValueIn(o)'
<1>0. ValueIn(o) => ValueIn(o)'
  BY NodesGrow DEF ValueIn
<1>1. /\ cstate[o] = "done" \/ answer[o] = 0 => ValueIn(o)
      /\ \A m \in outbox : Owner(m) = o /\ m.type = "ok" => ValueIn(o)
      /\ \A x \in Busy :
           Owner(wk[x].msg) = o /\ wk[x].pc = "send" /\ wk[x].ask = NULL => ValueIn(o)
  BY DEF ValuesIn
<1>2. UNCHANGED clientVars /\ wk \in [Workers -> Handler]
  BY DEF WorkerStep, TypeOK, WorkerTypeOK
<1>3. cstate'[o] = "done" \/ answer'[o] = 0 => ValueIn(o)'
  BY <1>0, <1>1, <1>2 DEF clientVars
<1>4. ASSUME NEW m \in outbox', Owner(m) = o, m.type = "ok"
      PROVE  ValueIn(o)'
  <2>1. CASE m \in outbox
    BY <1>0, <1>1, <1>4, <2>1
  <2>2. CASE m \notin outbox
    <3>1. Send(w)
      BY <1>4, <2>2, InternalTalk DEF Recv
    <3>2. wk[w].pc = "send" /\ w \in Busy
      BY <3>1, BusyIs DEF Send, At
    <3>3. CASE wk[w].ask = NULL
      <4>1. m = OkResponse(wk[w].msg.id)
        BY <1>4, <2>2, <3>1, <3>3 DEF Send
      <4>2. Owner(wk[w].msg) = o
        BY <1>4, <4>1 DEF OkResponse, Owner
      <4> QED
        BY <1>0, <1>1, <3>2, <3>3, <4>2
    <3>4. CASE wk[w].ask # NULL
      <4>1. \A i, j, v : TraverseResponse(i, j, v).type = "traverse"
        BY DEF TraverseResponse
      <4> QED
        BY <1>4, <2>2, <3>1, <3>4, <4>1 DEF Send
    <3> QED
      BY <3>3, <3>4
  <2> QED
    BY <2>1, <2>2
<1>5. ASSUME NEW x \in Busy', Owner(wk'[x].msg) = o, wk'[x].pc = "send",
             wk'[x].ask = NULL
      PROVE  ValueIn(o)'
  <2>1. CASE wk'[x] = wk[x]
    <3>1. x \in Busy
      BY <1>5, <2>1 DEF Busy
    <3> QED
      BY <1>0, <1>1, <1>5, <2>1, <3>1
  <2>2. CASE wk'[x] # wk[x]
    <3>1. x = w /\ x \in Workers
      BY <1>2, <1>5, <2>2 DEF WorkerStep, WorkerNext, Recv, InsertPlain, GetTree,
         MakeTree, InsertRoot, BeginTraverse, GetTraverse, NullTraverse, Descend,
         FindFree, Attach, InsertLeaf, FinishTraverse, Send, MapCrash, Goto, Busy
    <3>2. ~Recv(w) /\ ~Send(w)
      <4>1. CASE Recv(w)
        <5>1. wk'[w].pc \in {"getTraverse", "getTree", "plainRow"}
          BY <1>2, <4>1 DEF Recv, Idle
        <5> QED
          BY <1>5, <3>1, <5>1
      <4>2. CASE Send(w)
        <5>1. wk'[w].pc = "idle"
          BY <1>2, <4>2 DEF Send, Idle
        <5> QED
          BY <1>5, <3>1, <5>1
      <4> QED
        BY <4>1, <4>2
    <3>3. Owner(wk[w].msg) = o
      BY <1>5, <3>1, <3>2, InternalTalk DEF Owner
    <3>4. CASE wk[w].pc \in {"rootRow", "removeTraverse"}
      <4>1. o \in DOMAIN nodes
        BY <3>3, <3>4, HandlerIs DEF HandlerFits
      <4> QED
        BY <1>0, <4>1 DEF ValueIn
    <3>5. CASE wk[w].pc = "plainRow"
      BY <3>3, <3>5, HandlerIs DEF HandlerFits
    <3>6. CASE wk[w].pc = "getTraverse"
      <4>1. GetTraverse(w) \/ MapCrash(w)
        BY <3>2, <3>6 DEF WorkerStep, WorkerNext, InsertPlain, GetTree,
           MakeTree, InsertRoot, BeginTraverse, GetTraverse, NullTraverse, Descend,
           FindFree, Attach, InsertLeaf, FinishTraverse, At
      <4>2. wk[w].msg.cmp = 0
        <5>1. GetTraverse(w)
          BY <2>2, <4>1 DEF MapCrash
        <5>2. wk'[w].pc = IF wk[w].msg.cmp = 0 THEN "send" ELSE "goTo"
          BY <1>2, <3>1, <5>1 DEF GetTraverse, Handler
        <5> QED
          BY <1>5, <3>1, <5>2
      <4>3. answer[o] = 0
        BY <3>3, <3>6, <4>2, HandlerIs DEF HandlerOK, HandlerFits
      <4> QED
        BY <1>0, <1>1, <4>3
    <3>7. wk[w].pc \in {"rootRow", "removeTraverse", "plainRow", "getTraverse"}
      <4>1. wk'[w].ask = NULL /\ wk'[w].pc = "send" /\ wk'[w] # wk[w]
            /\ NULL \notin OpeOps
        BY <1>5, <2>2, <3>1, InsertsAssumption
      <4>2. CASE BeginTraverse(w)
        <5>1. wk'[w].ask = wk[w].ptr /\ wk[w].pc = "createTraverse"
          BY <1>2, <4>2 DEF BeginTraverse, At, Handler
        <5>2. wk[w].ptr \in DOMAIN nodes /\ DOMAIN nodes \subseteq OpeOps
          BY <5>1, HandlerIs DEF HandlerOK, TypeOK, BTreeTypeOK
        <5> QED
          BY <4>1, <5>1, <5>2
      <4>3. CASE Descend(w)
        <5>1. wk'[w].ask = Child(wk[w].ptr, Side(wk[w].msg))
              /\ Child(wk[w].ptr, Side(wk[w].msg)) # NULL
          BY <1>2, <4>3 DEF Descend, Handler
        <5> QED
          BY <4>1, <5>1
      <4>4. CASE InsertPlain(w) \/ InsertRoot(w) \/ FinishTraverse(w) \/ GetTraverse(w)
        BY <4>4 DEF InsertPlain, InsertRoot, FinishTraverse, GetTraverse, At
      <4>5. CASE GetTree(w) \/ MakeTree(w) \/ NullTraverse(w) \/ FindFree(w)
                 \/ Attach(w) \/ InsertLeaf(w) \/ MapCrash(w)
        <5>1. CASE GetTree(w)
          BY <1>2, <3>1, <4>1, <5>1 DEF GetTree, Handler
        <5>2. CASE MakeTree(w) \/ FindFree(w) \/ Attach(w) \/ InsertLeaf(w)
          BY <1>2, <3>1, <4>1, <5>2 DEF MakeTree, FindFree, Attach, InsertLeaf, Goto,
             Handler
        <5>3. CASE NullTraverse(w) \/ MapCrash(w)
          BY <4>1, <5>3 DEF NullTraverse, MapCrash
        <5> QED
          BY <4>5, <5>1, <5>2, <5>3
      <4> QED
        BY <3>2, <4>2, <4>3, <4>4, <4>5 DEF WorkerStep, WorkerNext
    <3> QED
      BY <3>4, <3>5, <3>6, <3>7
  <2> QED
    BY <2>1, <2>2
<1> QED
  BY <1>3, <1>4, <1>5

LEMMA ValuesByClient ==
  ASSUME TypeOK, Conversation, Growth, ValuesIn, ClientStep,
         ~raced, epoch = 0, NEW o \in OpeOps, Index!Intact(Key[o])
  PROVE  /\ cstate'[o] = "done" \/ answer'[o] = 0 => ValueIn(o)'
         /\ \A m \in outbox' : Owner(m) = o /\ m.type = "ok" => ValueIn(o)'
         /\ \A x \in Busy' :
              Owner(wk'[x].msg) = o /\ wk'[x].pc = "send" /\ wk'[x].ask = NULL
                => ValueIn(o)'
<1>0. UNCHANGED <<nodes, travs, wk>> /\ (ValueIn(o) => ValueIn(o)') /\ Busy' = Busy
  BY DEF ClientStep, treeVars, workerVars, ValueIn, Busy
<1>1. /\ cstate[o] = "done" \/ answer[o] = 0 => ValueIn(o)
      /\ \A m \in outbox : Owner(m) = o /\ m.type = "ok" => ValueIn(o)
      /\ \A x \in Busy :
           Owner(wk[x].msg) = o /\ wk[x].pc = "send" /\ wk[x].ask = NULL => ValueIn(o)
  BY DEF ValuesIn
<1>2. /\ outbox' \subseteq outbox /\ OpeOps \subseteq Ops
      /\ cstate \in [Ops -> {"queued", "waiting", "done"}]
      /\ answer \in [Ops -> {-1, 0, 1, NoAnswer}]
  BY InsertsAssumption DEF ClientStep, ClientNext, Run, OnResponseAddOk,
     OnResponseAddTraverse, TypeOK, ClientTypeOK
<1>3. ASSUME NEW x \in Ops, Run(x), cstate'[o] = "done" \/ answer'[o] = 0
      PROVE  ValueIn(o)'
  BY <1>0, <1>1, <1>2, <1>3 DEF Run
<1>4. ASSUME NEW m \in outbox, OnResponseAddOk(m), cstate'[o] = "done" \/ answer'[o] = 0
      PROVE  ValueIn(o)'
  <2>1. PICK x \in Ops : x = Owner(m) /\ listeners[m.id] = x
    BY <1>4, Heard DEF OnResponseAddOk
  <2>2. cstate' = [cstate EXCEPT ![x] = "done"] /\ answer' = answer /\ m.type = "ok"
    BY <1>4, <2>1 DEF OnResponseAddOk
  <2> QED
    BY <1>0, <1>1, <1>2, <1>4, <2>1, <2>2
<1>5. ASSUME NEW m \in outbox, OnResponseAddTraverse(m),
             cstate'[o] = "done" \/ answer'[o] = 0
      PROVE  ValueIn(o)'
  <2>1. PICK x \in Ops : x = Owner(m) /\ listeners[m.id] = x
    BY <1>5, Heard DEF OnResponseAddTraverse
  <2>2. /\ cstate' = cstate
        /\ answer' = [answer EXCEPT ![x] = Compare(m.ct, Val[x])]
        /\ m.type = "traverse"
    BY <1>5, <2>1 DEF OnResponseAddTraverse
  <2>3. CASE x # o
    BY <1>0, <1>1, <1>2, <1>5, <2>2, <2>3
  <2>4. CASE x = o /\ cstate[o] = "done"
    BY <1>0, <1>1, <2>4
  <2>5. CASE x = o /\ Compare(m.ct, Val[o]) = 0
    <3>1. Held(o)
      BY <2>1, <2>2, <2>5 DEF Conversation, WalksHeld
    <3>2. o \in DOMAIN travs
      BY <1>2, <3>1, InsertsAssumption DEF Held, TypeOK, BTreeTypeOK
    <3>3. PICK n : n = travs[o].cur
      OBVIOUS
    <3>4. n \in DOMAIN nodes /\ Key[n] = Key[o] /\ n \in OpeOps
      BY <3>2, <3>3 DEF TypeOK, BTreeTypeOK, Growth, TreesShaped, WalksInTable
    <3>5. m.ct \in ReadsOf[n]
      BY <2>1, <2>2, <2>5, <3>2, <3>3 DEF Growth, MessageFits
    <3>6. ReadsOf[n] = {Val[n]}
      BY <3>4 DEF Index!Intact
    <3>7. Val[n] \in Int /\ Val[o] \in Int
      BY <1>2, <3>4, InsertsAssumption
    <3>8. Val[n] = Val[o]
      BY <2>5, <3>5, <3>6, <3>7 DEF Compare
    <3> QED
      BY <1>0, <3>4, <3>8 DEF ValueIn
  <2> QED
    BY <1>2, <1>5, <2>2, <2>3, <2>4, <2>5
<1>6. cstate'[o] = "done" \/ answer'[o] = 0 => ValueIn(o)'
  BY <1>3, <1>4, <1>5 DEF ClientStep, ClientNext
<1> QED
  BY <1>0, <1>1, <1>2, <1>6

(***************************************************************************)
(* In the first life of the daemon, before any race and with an intact     *)
(* buffer, an insert that was answered or is about to be answered an ok    *)
(* without a question has an equal value in a node of its table            *)
(* (Worker.cpp 238-242, 265).                                              *)
(***************************************************************************)
THEOREM ValuesKept == Spec => []ValuesIn
<1>1. Init => ValuesIn
  <2> SUFFICES ASSUME Init
               PROVE  ValuesIn
    OBVIOUS
  <2>1. /\ \A w \in Workers : wk[w] = Idle
        /\ outbox = {}
        /\ \A o \in OpeOps : cstate[o] = "queued" /\ answer[o] = NoAnswer
    BY InsertsAssumption DEF Init, WorkerInit, ClientInit
  <2> QED
    BY <2>1 DEF ValuesIn, Busy, Idle, NoAnswer
<1>2. TypeOK /\ Conversation /\ Growth /\ ValuesIn /\ [Next]_vars => ValuesIn'
  <2> SUFFICES ASSUME TypeOK, Conversation, Growth, ValuesIn, [Next]_vars,
                      ~raced', epoch' = 0
               PROVE  ValuesIn'
    BY DEF ValuesIn
  <2>1. ~raced
    BY RacesStay
  <2>2. ASSUME NEW w \in Workers, WorkerStep(w)
        PROVE  ValuesIn'
    <3>1. epoch = 0
      BY <2>2, InternalTalk DEF WorkerStep, Recv, Send
    <3> QED
      BY <2>1, <2>2, <3>1, ValuesByWorker DEF ValuesIn, Owner, Index!Intact
  <2>3. CASE ClientStep
    <3>1. epoch = 0
      BY <2>3 DEF ClientStep, workerVars
    <3> QED
      BY <2>1, <2>3, <3>1, ValuesByClient DEF ValuesIn, Owner, Index!Intact
  <2>4. CASE Restart
    BY <2>4 DEF Restart, TypeOK, WorkerTypeOK
  <2>5. CASE UNCHANGED vars
    BY <2>5 DEF vars, treeVars, workerVars, clientVars, ValuesIn, ValueIn, Busy, Owner,
                Index!Intact
  <2> QED
    BY <2>2, <2>3, <2>4, <2>5 DEF Next, Terminated
<1> QED
  BY <1>1, <1>2, Typed, Conversing, Growing, PTL DEF Spec

(***************************************************************************)
(* Without a race or a restart and with intact buffers, the value of every *)
(* acknowledged insert is in its table's tree, in a node of its own or in  *)
(* that of an equal value (Worker.cpp 238-242).                            *)
(***************************************************************************)
THEOREM Acknowledged == Spec => []DoneIsIndexed
<1>1. ValuesIn => DoneIsIndexed
  BY DEF ValuesIn, ValueIn, DoneIsIndexed
<1> QED
  BY <1>1, ValuesKept, PTL
=============================================================================
