--------------------------- MODULE ZqlDaemonProofs ---------------------------
(***************************************************************************)
(* The daemon is the service its clients are promised, and has each        *)
(* request in one place, for every number of workers, clients and          *)
(* requests.                                                               *)
(***************************************************************************)
EXTENDS ZqlDaemon, FiniteSetTheorems, SequenceTheorems, TLAPS

Sent == Requests \ unsent

Answerable == Sent \ Mute

AnswerableTo(c) == {r \in Answerable : Asker[r] = c}

\* What is in a queue, by which way it goes: before the workers it has been
\* sent, behind them it has an answer, and before a client it is the client's.
Routed ==
  /\ unsent \subseteq Requests
  /\ router \in [Clients -> Seq(Sent)]
  /\ taken \in Sent \cup {Nothing}
  /\ fetched \in Answerable \cup {Nothing}
  /\ pipe \in [Workers -> Seq(Sent)]
  /\ current \in [Workers -> Sent \cup {Nothing}]
  /\ back \in [Workers -> Seq(Answerable)]
  /\ replies \in [Clients -> Seq(Answerable)]
  /\ \A c \in Clients : replies[c] \in Seq(AnswerableTo(c))
  /\ heard \in [Clients -> SUBSET Answerable]
  /\ dropped \subseteq Answerable

\* A worker that handles has a request, and the round is at a worker.
Staffed ==
  /\ proxy \in {"running", "cancelled"}
  /\ dealt \in Workers
  /\ worker \in [Workers -> {"starting", "receiving", "handling", "stuck"}]
  /\ \A w \in Workers : worker[w] = "handling" => current[w] # Nothing

IndInv == Routed /\ Staffed

-------------------------------------------------------------------------------
\* A non-empty set of naturals has a least element.
LEMMA LeastNat ==
  ASSUME NEW T \in SUBSET Nat, T # {}
  PROVE  \E m \in T : \A n \in T : m <= n
<1> DEFINE R == {p \in Nat \X Nat : p[1] < p[2]}
<1>1. IsWellFoundedOn(R, Nat)
  BY NatLessThanWellFounded DEF OpToRel
<1>2. \A n, m \in Nat : n < m => <<n, m>> \in R
  OBVIOUS
<1> HIDE DEF R
<1>3. PICK m \in T : \A n \in T : ~(<<n, m>> \in R)
  BY <1>1, WFMin, Zenon
<1>4. ASSUME NEW n \in T
      PROVE  m <= n
  <2>1. ~(n < m)
    BY <1>2, <1>3, Zenon
  <2> QED
    BY <2>1
<1> QED
  BY <1>4

\* What a sequence may hold, it may hold among more.
LEMMA SeqGrows ==
  ASSUME NEW S, NEW T, S \subseteq T
  PROVE  Seq(S) \subseteq Seq(T)
  OBVIOUS

\* The DEALER's round always comes to a connected worker.
LEMMA FollowingConnected ==
  ASSUME Connected # {}, NEW w \in Workers
  PROVE  Following(w) \in Connected
<1> DEFINE distance(x) == IF x > w THEN x - w ELSE x + WorkerCount - w
           T == {distance(x) : x \in Connected}
<1>1. Connected \subseteq Workers /\ Workers \subseteq Nat /\ WorkerCount \in Nat
  BY DaemonAssumption DEF Connected, Workers
<1>2. \A x \in Connected : distance(x) \in Nat
  <2> SUFFICES ASSUME NEW x \in Connected
               PROVE  distance(x) \in Nat
    OBVIOUS
  <2>1. x \in 1..WorkerCount /\ w \in 1..WorkerCount
    BY <1>1 DEF Workers
  <2> QED
    BY <1>1, <2>1
<1> HIDE DEF distance
<1>3. T \in SUBSET Nat /\ T # {}
  BY <1>2
<1>4. PICK m \in T : \A n \in T : m <= n
  <2> HIDE DEF T
  <2> QED
    BY <1>3, LeastNat
<1>5. PICK x \in Connected : m = distance(x)
  OBVIOUS
<1>6. \A y \in Connected : distance(x) =< distance(y)
  BY <1>4, <1>5
<1>7. \E z \in Connected : \A y \in Connected : distance(z) =< distance(y)
  BY <1>6
<1>8. Following(w) = CHOOSE z \in Connected :
                       \A y \in Connected : distance(z) =< distance(y)
  BY DEF Following, distance
<1> QED
  BY <1>7, <1>8

\* Who has sent what does not change but by Ask.
LEMMA SameSent ==
  ASSUME UNCHANGED unsent
  PROVE  /\ Sent' = Sent
         /\ Answerable' = Answerable
         /\ \A c \in Clients : AnswerableTo(c)' = AnswerableTo(c)
  BY DEF Sent, Answerable, AnswerableTo

\* The requests that are not the mark for none.
LEMMA Marked == Nothing \notin Sent /\ Nothing \notin Answerable /\ Answerable \subseteq Sent
  BY DaemonAssumption DEF Sent, Answerable

LEMMA InitRouted == Init => IndInv
<1> SUFFICES ASSUME Init
             PROVE  IndInv
  OBVIOUS
<1>1. WorkerCount \in Workers
  BY DaemonAssumption DEF Workers
<1>2. Staffed
  BY <1>1, DaemonAssumption DEF Init, Staffed
<1>3. Routed
  BY DEF Init, Routed
<1> QED
  BY <1>2, <1>3 DEF IndInv

LEMMA AskRouted ==
  ASSUME Routed, NEW r \in Requests, Ask(r)
  PROVE  Routed'
<1>1. r \in Sent' /\ Sent \subseteq Sent' /\ Answerable \subseteq Answerable'
  BY DEF Ask, Sent, Answerable
<1>2. \A c \in Clients : AnswerableTo(c) \subseteq AnswerableTo(c)'
  BY <1>1 DEF AnswerableTo
<1>3. /\ Seq(Sent) \subseteq Seq(Sent')
      /\ Seq(Answerable) \subseteq Seq(Answerable')
      /\ \A c \in Clients : Seq(AnswerableTo(c)) \subseteq Seq(AnswerableTo(c)')
  BY <1>1, <1>2, SeqGrows
<1>4. router' \in [Clients -> Seq(Sent')]
  <2>1. Append(router[Asker[r]], r) \in Seq(Sent')
    BY <1>1, <1>3, DaemonAssumption DEF Routed
  <2> QED
    BY <2>1, <1>3 DEF Ask, Routed
<1>5. /\ unsent' \subseteq Requests
      /\ taken' \in Sent' \cup {Nothing}
      /\ fetched' \in Answerable' \cup {Nothing}
      /\ pipe' \in [Workers -> Seq(Sent')]
      /\ current' \in [Workers -> Sent' \cup {Nothing}]
  BY <1>1, <1>3 DEF Ask, Routed
<1>6. /\ back' \in [Workers -> Seq(Answerable')]
      /\ replies' \in [Clients -> Seq(Answerable')]
      /\ \A c \in Clients : replies'[c] \in Seq(AnswerableTo(c)')
  BY <1>1, <1>3 DEF Ask, Routed
<1>7. heard' \in [Clients -> SUBSET Answerable'] /\ dropped' \subseteq Answerable'
  BY <1>1 DEF Ask, Routed
<1> QED
  BY <1>4, <1>5, <1>6, <1>7 DEF Routed

LEMMA TakeRouted ==
  ASSUME Routed, NEW c \in Clients, Take(c)
  PROVE  Routed'
<1>1. UNCHANGED unsent
  BY DEF Take
<1>2. Head(router[c]) \in Sent /\ Tail(router[c]) \in Seq(Sent)
  BY HeadTailProperties DEF Take, Routed
<1>3. router' \in [Clients -> Seq(Sent)] /\ taken' \in Sent
  BY <1>2 DEF Take, Routed
<1> QED
  BY <1>1, <1>3, SameSent DEF Take, Routed

LEMMA DealRouted ==
  ASSUME Routed, Staffed, Deal
  PROVE  Routed' /\ dealt' \in Workers
<1>1. UNCHANGED unsent /\ Following(dealt) \in Workers
  BY FollowingConnected DEF Deal, Staffed, Connected
<1>2. Append(pipe[Following(dealt)], taken) \in Seq(Sent)
  BY <1>1 DEF Deal, Routed
<1>3. pipe' \in [Workers -> Seq(Sent)] /\ taken' = Nothing /\ dealt' \in Workers
  BY <1>1, <1>2 DEF Deal, Routed
<1> QED
  BY <1>1, <1>3, SameSent DEF Deal, Routed

LEMMA ReceiveRouted ==
  ASSUME Routed, NEW w \in Workers, Receive(w)
  PROVE  Routed' /\ current'[w] # Nothing
<1>1. UNCHANGED unsent
  BY DEF Receive
<1>2. Head(pipe[w]) \in Sent /\ Tail(pipe[w]) \in Seq(Sent)
  BY HeadTailProperties DEF Receive, Routed
<1>3. pipe' \in [Workers -> Seq(Sent)] /\ current' \in [Workers -> Sent \cup {Nothing}]
  BY <1>2 DEF Receive, Routed
<1>4. current'[w] # Nothing
  BY <1>2, Marked DEF Receive, Routed
<1> QED
  BY <1>1, <1>3, <1>4, SameSent DEF Receive, Routed

LEMMA ReplyRouted ==
  ASSUME Routed, Staffed, NEW w \in Workers, Reply(w)
  PROVE  Routed'
<1>1. UNCHANGED unsent
  BY DEF Reply
<1>2. current[w] \in Answerable
  BY DEF Reply, Routed, Staffed, Answerable
<1>3. Append(back[w], current[w]) \in Seq(Answerable)
  BY <1>2 DEF Routed
<1>4. /\ back' \in [Workers -> Seq(Answerable)]
      /\ current' \in [Workers -> Sent \cup {Nothing}]
  BY <1>3 DEF Reply, Routed
<1> QED
  BY <1>1, <1>4, SameSent DEF Reply, Routed

LEMMA FetchRouted ==
  ASSUME Routed, NEW w \in Workers, Fetch(w)
  PROVE  Routed'
<1>1. UNCHANGED unsent
  BY DEF Fetch
<1>2. Head(back[w]) \in Answerable /\ Tail(back[w]) \in Seq(Answerable)
  BY HeadTailProperties DEF Fetch, Routed
<1>3. back' \in [Workers -> Seq(Answerable)] /\ fetched' \in Answerable
  BY <1>2 DEF Fetch, Routed
<1> QED
  BY <1>1, <1>3, SameSent DEF Fetch, Routed

\* The reply is put where the client that asked will read it.
LEMMA PassOnRouted ==
  ASSUME Routed, PassOn
  PROVE  Routed'
<1> DEFINE c == Asker[fetched]
<1>1. UNCHANGED unsent /\ fetched' = Nothing
  BY DEF PassOn
<1>2. fetched \in Answerable /\ c \in Clients /\ fetched \in AnswerableTo(c)
  <2>1. fetched \in Answerable
    BY DEF PassOn, Routed
  <2>2. fetched \in Requests
    BY <2>1 DEF Answerable, Sent
  <2> QED
    BY <2>1, <2>2, DaemonAssumption DEF AnswerableTo
<1> HIDE DEF c
<1>3. \/ /\ replies' = [replies EXCEPT ![c] = Append(@, fetched)]
         /\ UNCHANGED dropped
      \/ /\ dropped' = dropped \cup {fetched}
         /\ UNCHANGED replies
  BY DEF PassOn, c
<1>4. /\ replies' \in [Clients -> Seq(Answerable)]
      /\ \A x \in Clients : replies'[x] \in Seq(AnswerableTo(x))
  <2>1. /\ Append(replies[c], fetched) \in Seq(Answerable)
        /\ Append(replies[c], fetched) \in Seq(AnswerableTo(c))
    BY <1>2 DEF Routed
  <2>2. replies' \in [Clients -> Seq(Answerable)]
    BY <1>3, <2>1 DEF Routed
  <2>3. ASSUME NEW x \in Clients
        PROVE  replies'[x] \in Seq(AnswerableTo(x))
    BY <1>2, <1>3, <2>1 DEF Routed
  <2> QED
    BY <2>2, <2>3
<1>5. dropped' \subseteq Answerable
  BY <1>2, <1>3 DEF Routed
<1> QED
  BY <1>1, <1>4, <1>5, SameSent DEF PassOn, Routed

LEMMA HearRouted ==
  ASSUME Routed, NEW c \in Clients, Hear(c)
  PROVE  Routed' /\ Head(replies[c]) \in AnswerableTo(c)
<1>1. UNCHANGED unsent
  BY DEF Hear
<1>2. /\ Head(replies[c]) \in AnswerableTo(c)
      /\ Tail(replies[c]) \in Seq(AnswerableTo(c))
  BY HeadTailProperties DEF Hear, Routed
<1>3. Head(replies[c]) \in Answerable /\ Tail(replies[c]) \in Seq(Answerable)
  BY HeadTailProperties DEF Hear, Routed
<1>4. replies' \in [Clients -> Seq(Answerable)]
  BY <1>3 DEF Hear, Routed
<1>5. \A x \in Clients : replies'[x] \in Seq(AnswerableTo(x))
  BY <1>2 DEF Hear, Routed
<1>6. heard' \in [Clients -> SUBSET Answerable]
  BY <1>3 DEF Hear, Routed
<1> QED
  BY <1>1, <1>2, <1>4, <1>5, <1>6, SameSent DEF Hear, Routed

\* The rest moves no request.
LEMMA QuietRouted ==
  ASSUME Routed,
         UNCHANGED <<unsent, router, taken, fetched, pipe, current, back,
                     replies, heard, dropped>>
  PROVE  Routed'
  BY SameSent DEF Routed

-------------------------------------------------------------------------------
LEMMA StepRouted ==
  ASSUME IndInv, [Next]_vars
  PROVE  Routed' /\ dealt' \in Workers
<1> USE DEF IndInv
<1>1. ASSUME NEW r \in Requests, Ask(r)
      PROVE  Routed' /\ dealt' \in Workers
  BY <1>1, AskRouted DEF Ask, Staffed
<1>2. ASSUME NEW c \in Clients, Take(c)
      PROVE  Routed' /\ dealt' \in Workers
  BY <1>2, TakeRouted DEF Take, Staffed
<1>3. ASSUME NEW c \in Clients, Hear(c)
      PROVE  Routed' /\ dealt' \in Workers
  BY <1>3, HearRouted DEF Hear, Staffed
<1>4. ASSUME NEW w \in Workers, WorkerStep(w)
      PROVE  Routed' /\ dealt' \in Workers
  <2>1. CASE Connect(w)
    BY <2>1, QuietRouted DEF Connect, Staffed
  <2>2. CASE Receive(w)
    BY <2>2, ReceiveRouted DEF Receive, Staffed
  <2>3. CASE Reply(w)
    BY <2>3, ReplyRouted DEF Reply, Staffed
  <2>4. CASE Stick(w)
    BY <2>4, QuietRouted DEF Stick, Staffed
  <2> QED
    BY <1>4, <2>1, <2>2, <2>3, <2>4 DEF WorkerStep
<1>5. ASSUME NEW w \in Workers, Fetch(w)
      PROVE  Routed' /\ dealt' \in Workers
  BY <1>5, FetchRouted DEF Fetch, Staffed
<1>6. CASE Deal
  BY <1>6, DealRouted
<1>7. CASE PassOn
  BY <1>7, PassOnRouted DEF PassOn, Staffed
<1>8. CASE Unload
  BY <1>8, QuietRouted DEF Unload, Staffed
<1>9. CASE UNCHANGED vars
  BY <1>9, QuietRouted DEF vars, Staffed
<1> QED
  BY <1>1, <1>2, <1>3, <1>4, <1>5, <1>6, <1>7, <1>8, <1>9 DEF Next, ProxyStep

LEMMA StepStaffed ==
  ASSUME IndInv, [Next]_vars
  PROVE  Staffed'
<1> DEFINE Idle ==
      /\ proxy' \in {"running", "cancelled"}
      /\ worker' \in [Workers -> {"starting", "receiving", "handling", "stuck"}]
      /\ \A w \in Workers : worker'[w] = "handling" => current'[w] # Nothing
<1> SUFFICES Idle
  BY StepRouted DEF Staffed
<1>1. ASSUME UNCHANGED <<proxy, worker, current>>
      PROVE  Idle
  BY <1>1 DEF IndInv, Staffed
<1>2. ASSUME NEW r \in Requests, Ask(r)
      PROVE  Idle
  BY <1>1, <1>2 DEF Ask
<1>3. ASSUME NEW c \in Clients, Take(c) \/ Hear(c)
      PROVE  Idle
  BY <1>1, <1>3 DEF Take, Hear
<1>4. ASSUME NEW w \in Workers, WorkerStep(w)
      PROVE  Idle
  <2>1. CASE Connect(w)
    BY <2>1 DEF Connect, IndInv, Staffed
  <2>2. CASE Receive(w)
    <3>1. current'[w] # Nothing
      BY <2>2, ReceiveRouted DEF IndInv
    <3> QED
      BY <2>2, <3>1 DEF Receive, IndInv, Staffed
  <2>3. CASE Reply(w)
    BY <2>3 DEF Reply, IndInv, Staffed
  <2>4. CASE Stick(w)
    BY <2>4 DEF Stick, IndInv, Staffed
  <2> QED
    BY <1>4, <2>1, <2>2, <2>3, <2>4 DEF WorkerStep
<1>5. ASSUME NEW w \in Workers, Fetch(w)
      PROVE  Idle
  BY <1>1, <1>5 DEF Fetch
<1>6. CASE Deal
  BY <1>1, <1>6 DEF Deal
<1>7. CASE PassOn
  BY <1>1, <1>7 DEF PassOn
<1>8. CASE Unload
  BY <1>8 DEF Unload, IndInv, Staffed
<1>9. CASE UNCHANGED vars
  BY <1>1, <1>9 DEF vars
<1> QED
  BY <1>2, <1>3, <1>4, <1>5, <1>6, <1>7, <1>8, <1>9 DEF Next, ProxyStep

(***************************************************************************)
(* Nothing is in a queue it has no business in, at every moment: what the  *)
(* workers get was sent, what they send back has an answer, and what waits *)
(* for a client is the client's own.                                       *)
(***************************************************************************)
THEOREM Invariance == Spec => []IndInv
<1>1. IndInv /\ [Next]_vars => IndInv'
  BY StepRouted, StepStaffed DEF IndInv
<1> QED
  BY <1>1, InitRouted, PTL DEF Spec

LEMMA IndInvTyped == IndInv => TypeOK
<1> SUFFICES ASSUME IndInv
             PROVE  TypeOK
  OBVIOUS
<1>1. Sent \subseteq Requests /\ Answerable \subseteq Requests \ Mute
  BY DEF Sent, Answerable
<1>2. Seq(Sent) \subseteq Seq(Requests) /\ Seq(Answerable) \subseteq Seq(Requests \ Mute)
  BY <1>1, SeqGrows
<1>3. /\ router \in [Clients -> Seq(Requests)]
      /\ pipe \in [Workers -> Seq(Requests)]
      /\ back \in [Workers -> Seq(Requests \ Mute)]
      /\ replies \in [Clients -> Seq(Requests \ Mute)]
  BY <1>2 DEF IndInv, Routed
<1>4. /\ unsent \subseteq Requests
      /\ taken \in Requests \cup {Nothing}
      /\ fetched \in Requests \cup {Nothing}
      /\ current \in [Workers -> Requests \cup {Nothing}]
      /\ heard \in [Clients -> SUBSET (Requests \ Mute)]
      /\ dropped \subseteq Requests \ Mute
  BY <1>1 DEF IndInv, Routed
<1> QED
  BY <1>3, <1>4 DEF IndInv, Staffed, TypeOK

(***************************************************************************)
(* Nothing a handler cannot answer is among the replies.                   *)
(***************************************************************************)
THEOREM Typed == Spec => []TypeOK
  BY Invariance, IndInvTyped, PTL

-------------------------------------------------------------------------------
\* The initial daemon is the initial service: nothing is asked.
LEMMA InitPromised == Init => Promise!Init
  BY DEF Init, Promise!Init

LEMMA AskPromised ==
  ASSUME IndInv, NEW r \in Requests, Ask(r)
  PROVE  Promise!Ask(r)
<1>1. r \notin Requests \ unsent
  BY DEF Ask
<1>2. Requests \ unsent' = (Requests \ unsent) \cup {r}
  BY DEF Ask, IndInv, Routed
<1> QED
  BY <1>1, <1>2 DEF Ask, Promise!Ask

\* A client hears what it asked: the first time it is the service's answer,
\* and a second time would change nothing.
LEMMA HearPromised ==
  ASSUME IndInv, NEW c \in Clients, Hear(c)
  PROVE  [Promise!Next]_Promise!vars
<1> DEFINE r == Head(replies[c])
<1>1. r \in Answerable /\ Asker[r] = c
  BY HearRouted DEF IndInv, AnswerableTo
<1>2. r \in Requests /\ r \in (Requests \ unsent) \ Mute
  BY <1>1 DEF Answerable, Sent
<1>3. heard' = [heard EXCEPT ![c] = @ \cup {r}] /\ UNCHANGED unsent
  BY DEF Hear
<1> HIDE DEF r
<1>4. CASE r \in heard[c]
  <2>1. heard' = heard
    BY <1>3, <1>4 DEF IndInv, Routed
  <2> QED
    BY <1>3, <2>1 DEF Promise!vars
<1>5. CASE r \notin heard[c]
  <2>1. Promise!Answer(r)
    BY <1>1, <1>2, <1>3, <1>5 DEF Promise!Answer
  <2> QED
    BY <1>2, <2>1 DEF Promise!Next
<1> QED
  BY <1>4, <1>5

\* What the proxy and the workers do between them is no step of the service.
LEMMA StepPromised ==
  ASSUME IndInv, [Next]_vars
  PROVE  [Promise!Next]_Promise!vars
<1>1. ASSUME UNCHANGED <<unsent, heard>>
      PROVE  [Promise!Next]_Promise!vars
  BY <1>1 DEF Promise!vars
<1>2. ASSUME NEW r \in Requests, Ask(r)
      PROVE  [Promise!Next]_Promise!vars
  BY <1>2, AskPromised DEF Promise!Next
<1>3. ASSUME NEW c \in Clients, Take(c)
      PROVE  [Promise!Next]_Promise!vars
  BY <1>1, <1>3 DEF Take
<1>4. ASSUME NEW c \in Clients, Hear(c)
      PROVE  [Promise!Next]_Promise!vars
  BY <1>4, HearPromised
<1>5. ASSUME NEW w \in Workers, WorkerStep(w) \/ Fetch(w)
      PROVE  [Promise!Next]_Promise!vars
  BY <1>1, <1>5 DEF WorkerStep, Connect, Receive, Reply, Stick, Fetch
<1>6. CASE ProxyStep
  BY <1>1, <1>6 DEF ProxyStep, Deal, PassOn
<1>7. CASE Unload
  BY <1>1, <1>7 DEF Unload
<1>8. CASE UNCHANGED vars
  BY <1>1, <1>8 DEF vars
<1> QED
  BY <1>2, <1>3, <1>4, <1>5, <1>6, <1>7, <1>8 DEF Next

(***************************************************************************)
(* The daemon implements the service: whatever the interleaving of proxy   *)
(* and workers, and wherever a worker stops or the proxy is cancelled, a   *)
(* client hears answers to requests it sent itself and a handler answers,  *)
(* and hears nothing else.                                                 *)
(***************************************************************************)
THEOREM Implements == Spec => ImplementsService
<1>1. IndInv /\ [Next]_vars => [Promise!Next]_Promise!vars
  BY StepPromised
<1> QED
  BY <1>1, Invariance, InitPromised, PTL DEF Spec, ImplementsService, Promise!Spec

-------------------------------------------------------------------------------
(***************************************************************************)
(* One place for each request.  The places of a request are a union of     *)
(* disjoint parts; a step takes the request out of one part that held it   *)
(* and puts it into another that did not, or shifts a queue it stays in.   *)
(***************************************************************************)
One(S) == \E x : S = {x}

\* What moves from A to B leaves A and is then in one place of B; what does
\* not move stays in A, in another place perhaps, or where it was.
LEMMA Carries ==
  ASSUME NEW A, NEW B, NEW R, NEW A2, NEW B2, One(A \cup B \cup R),
         A \cap B = {}, A \cap R = {},
         \/ A # {} /\ (One(A) => A2 = {}) /\ (B = {} => One(B2))
         \/ (A = {} => A2 = {}) /\ (One(A) => One(A2)) /\ B2 = B
  PROVE  One(A2 \cup B2 \cup R)
<1>1. CASE A = {}
  BY <1>1
<1>2. CASE A # {}
  <2>1. One(A) /\ B = {} /\ R = {}
    BY <1>2 DEF One
  <2>2. One(A2 \cup B2)
    <3>1. CASE A2 = {} /\ One(B2)
      BY <3>1
    <3>2. CASE One(A2) /\ B2 = {}
      BY <3>2
    <3> QED
      BY <1>2, <2>1, <3>1, <3>2
  <2> QED
    BY <2>1, <2>2
<1> QED
  BY <1>1, <1>2

LEMMA HeldNone ==
  ASSUME NEW name, NEW q, NEW r
  PROVE  Held(name, q, r) = {} <=>
           \A x \in DOMAIN q : \A i \in DOMAIN q[x] : q[x][i] # r
<1>1. ASSUME NEW x \in DOMAIN q, NEW i \in DOMAIN q[x], q[x][i] = r
      PROVE  Held(name, q, r) # {}
  <2>1. <<name, x, i>> \in Held(name, q, r)
    BY <1>1 DEF Held
  <2> QED
    BY <2>1
<1>2. ASSUME NEW y \in Held(name, q, r)
      PROVE  \E x \in DOMAIN q : \E i \in DOMAIN q[x] : q[x][i] = r
  BY <1>2 DEF Held
<1> QED
  BY <1>1, <1>2

LEMMA HeldOnce ==
  ASSUME NEW name, NEW q, NEW r, NEW x \in DOMAIN q, NEW i \in DOMAIN q[x],
         q[x][i] = r,
         \A z \in DOMAIN q : \A j \in DOMAIN q[z] : q[z][j] = r => z = x /\ j = i
  PROVE  Held(name, q, r) = {<<name, x, i>>}
  BY DEF Held

LEMMA HeldOne ==
  ASSUME NEW name, NEW q, NEW r, One(Held(name, q, r))
  PROVE  \E x \in DOMAIN q : \E i \in DOMAIN q[x] :
           /\ q[x][i] = r
           /\ \A z \in DOMAIN q : \A j \in DOMAIN q[z] :
                q[z][j] = r => z = x /\ j = i
<1>1. PICK y : Held(name, q, r) = {y}
  BY DEF One
<1>2. PICK x \in DOMAIN q : \E i \in DOMAIN q[x] : q[x][i] = r /\ y = <<name, x, i>>
  BY <1>1 DEF Held
<1>3. PICK i \in DOMAIN q[x] : q[x][i] = r /\ y = <<name, x, i>>
  BY <1>2
<1>4. ASSUME NEW z \in DOMAIN q, NEW j \in DOMAIN q[z], q[z][j] = r
      PROVE  z = x /\ j = i
  <2>1. <<name, z, j>> \in Held(name, q, r)
    BY <1>4 DEF Held
  <2>2. <<name, z, j>> = <<name, x, i>>
    BY <1>1, <1>3, <2>1
  <2> QED
    BY <2>2
<1> QED
  BY <1>3, <1>4

LEMMA HeldSame ==
  ASSUME NEW name, NEW q, NEW p, NEW r, DOMAIN p = DOMAIN q,
         \A x \in DOMAIN q : \A i :
           i \in DOMAIN p[x] /\ p[x][i] = r <=> i \in DOMAIN q[x] /\ q[x][i] = r
  PROVE  Held(name, p, r) = Held(name, q, r)
<1>1. \A x \in DOMAIN q : {j \in DOMAIN p[x] : p[x][j] = r}
                            = {j \in DOMAIN q[x] : q[x][j] = r}
  OBVIOUS
<1> QED
  BY <1>1 DEF Held

\* Another's arrival at the end of a queue does not touch r; r's own puts it
\* into the one place there.
LEMMA HeldAppended ==
  ASSUME NEW name, NEW S, NEW v \in S, NEW r, NEW q, NEW x \in DOMAIN q,
         NEW p, q[x] \in Seq(S), DOMAIN p = DOMAIN q, p[x] = Append(q[x], v),
         \A y \in DOMAIN q : y # x => p[y] = q[y]
  PROVE  /\ v # r => Held(name, p, r) = Held(name, q, r)
         /\ v = r /\ Held(name, q, r) = {} => One(Held(name, p, r))
<1>1. /\ DOMAIN q[x] = 1..Len(q[x]) /\ Len(q[x]) \in Nat
      /\ DOMAIN p[x] = 1..(Len(q[x]) + 1)
      /\ p[x][Len(q[x]) + 1] = v
      /\ \A i \in DOMAIN q[x] : p[x][i] = q[x][i]
  OBVIOUS
<1>2. ASSUME v # r
      PROVE  Held(name, p, r) = Held(name, q, r)
  <2>1. ASSUME NEW z \in DOMAIN q, NEW i
        PROVE  i \in DOMAIN p[z] /\ p[z][i] = r
                 <=> i \in DOMAIN q[z] /\ q[z][i] = r
    <3>1. CASE z = x
      BY <1>1, <1>2, <3>1
    <3>2. CASE z # x
      BY <1>1, <3>2
    <3> QED
      BY <3>1, <3>2
  <2> QED
    BY <1>1, <2>1, HeldSame
<1>3. ASSUME v = r, Held(name, q, r) = {}
      PROVE  Held(name, p, r) = {<<name, x, Len(q[x]) + 1>>}
  <2>1. ASSUME NEW z \in DOMAIN q, NEW i \in DOMAIN q[z]
        PROVE  q[z][i] # r
    BY <1>1, <1>3, HeldNone
  <2>2. ASSUME NEW z \in DOMAIN q, NEW i
        PROVE  i \in DOMAIN p[z] /\ p[z][i] = r <=> z = x /\ i = Len(q[x]) + 1
    <3>1. CASE z = x
      BY <1>1, <1>3, <2>1, <3>1
    <3>2. CASE z # x
      BY <1>1, <2>1, <3>2
    <3> QED
      BY <3>1, <3>2
  <2>3. x \in DOMAIN p /\ Len(q[x]) + 1 \in DOMAIN p[x]
    BY <1>1
  <2> QED
    BY <1>1, <2>2, <2>3, HeldOnce
<1> QED
  BY <1>2, <1>3 DEF One

\* What leaves the front of a queue has left it; what stays is in one place
\* as it was.
LEMMA HeldFronted ==
  ASSUME NEW name, NEW S, NEW r, NEW q, NEW x \in DOMAIN q, NEW p,
         q[x] \in Seq(S), q[x] # <<>>, DOMAIN p = DOMAIN q, p[x] = Tail(q[x]),
         \A y \in DOMAIN q : y # x => p[y] = q[y]
  PROVE  /\ Head(q[x]) = r => /\ Held(name, q, r) # {}
                              /\ One(Held(name, q, r)) => Held(name, p, r) = {}
         /\ Head(q[x]) # r =>
              /\ Held(name, q, r) = {} => Held(name, p, r) = {}
              /\ One(Held(name, q, r)) => One(Held(name, p, r))
<1>1. /\ DOMAIN q[x] = 1..Len(q[x]) /\ Len(q[x]) \in Nat \ {0}
      /\ DOMAIN p[x] = 1..(Len(q[x]) - 1)
      /\ \A i \in 1..(Len(q[x]) - 1) : p[x][i] = q[x][i + 1]
      /\ Head(q[x]) = q[x][1]
  OBVIOUS
<1>2. ASSUME NEW z \in DOMAIN q, NEW i \in DOMAIN p[z], p[z][i] = r
      PROVE  \E j \in DOMAIN q[z] : /\ q[z][j] = r
                                    /\ j = IF z = x THEN i + 1 ELSE i
  <2>1. CASE z = x
    <3>1. i + 1 \in DOMAIN q[z] /\ q[z][i + 1] = r
      BY <1>1, <1>2, <2>1
    <3> QED
      BY <2>1, <3>1
  <2>2. CASE z # x
    BY <1>1, <1>2, <2>2
  <2> QED
    BY <2>1, <2>2
<1>3. Held(name, q, r) = {} => Held(name, p, r) = {}
  <2> SUFFICES ASSUME \A z \in DOMAIN q : \A i \in DOMAIN q[z] : q[z][i] # r
               PROVE  \A z \in DOMAIN p : \A i \in DOMAIN p[z] : p[z][i] # r
    BY HeldNone
  <2> QED
    BY <1>2
<1>4. ASSUME Head(q[x]) = r
      PROVE  /\ Held(name, q, r) # {}
             /\ One(Held(name, q, r)) => Held(name, p, r) = {}
  <2>1. 1 \in DOMAIN q[x] /\ q[x][1] = r
    BY <1>1, <1>4
  <2>2. Held(name, q, r) # {}
    BY <1>1, <2>1, HeldNone
  <2>3. ASSUME One(Held(name, q, r)), NEW z \in DOMAIN q, NEW i \in DOMAIN p[z], p[z][i] = r
        PROVE  FALSE
    <3>1. PICK j \in DOMAIN q[z] : /\ q[z][j] = r
                                   /\ j = IF z = x THEN i + 1 ELSE i
      BY <1>2, <2>3
    <3>2. z = x /\ j = 1
      BY <1>1, <2>1, <2>3, <3>1, HeldOne
    <3>3. i \in 1..(Len(q[x]) - 1) /\ i + 1 = 1
      BY <1>1, <2>3, <3>1, <3>2
    <3> QED
      BY <1>1, <3>3
  <2> QED
    BY <1>1, <2>2, <2>3, HeldNone
<1>5. ASSUME Head(q[x]) # r, One(Held(name, q, r))
      PROVE  One(Held(name, p, r))
  <2>1. PICK z \in DOMAIN q : \E i \in DOMAIN q[z] :
          /\ q[z][i] = r
          /\ \A t \in DOMAIN q : \A j \in DOMAIN q[t] : q[t][j] = r => t = z /\ j = i
    BY <1>1, <1>5, HeldOne
  <2>2. PICK i \in DOMAIN q[z] :
          /\ q[z][i] = r
          /\ \A t \in DOMAIN q : \A j \in DOMAIN q[t] : q[t][j] = r => t = z /\ j = i
    BY <2>1
  <2>3. \E k \in DOMAIN p[z] : p[z][k] = r /\ i = IF z = x THEN k + 1 ELSE k
    <3>1. CASE z = x
      <4>1. i \in 1..Len(q[x]) /\ i # 1
        BY <1>1, <1>5, <2>2, <3>1
      <4>2. i - 1 \in 1..(Len(q[x]) - 1) /\ (i - 1) + 1 = i
        BY <1>1, <4>1
      <4>3. i - 1 \in DOMAIN p[z] /\ p[z][i - 1] = r
        BY <1>1, <2>2, <3>1, <4>2
      <4> QED
        BY <3>1, <4>2, <4>3
    <3>2. CASE z # x
      BY <1>1, <2>2, <3>2
    <3> QED
      BY <3>1, <3>2
  <2>4. PICK k \in DOMAIN p[z] : p[z][k] = r /\ i = IF z = x THEN k + 1 ELSE k
    BY <2>3
  <2>5. ASSUME NEW t \in DOMAIN q, NEW l \in DOMAIN p[t], p[t][l] = r
        PROVE  t = z /\ l = k
    <3>1. PICK j \in DOMAIN q[t] : /\ q[t][j] = r
                                   /\ j = IF t = x THEN l + 1 ELSE l
      BY <1>2, <2>5
    <3>2. t = z /\ j = i
      BY <2>2, <3>1
    <3>3. CASE t = x
      <4>1. l \in 1..(Len(q[x]) - 1) /\ k \in 1..(Len(q[x]) - 1)
        BY <1>1, <2>5, <3>2, <3>3
      <4> QED
        BY <2>4, <3>1, <3>2, <3>3, <4>1
    <3>4. CASE t # x
      BY <2>4, <3>1, <3>2, <3>4
    <3> QED
      BY <3>3, <3>4
  <2>6. Held(name, p, r) = {<<name, z, k>>}
    BY <1>1, <2>4, <2>5, HeldOnce
  <2> QED
    BY <2>6 DEF One
<1> QED
  BY <1>3, <1>4, <1>5

-------------------------------------------------------------------------------
\* The parts of Places.
InProxy(t, f, r) == Held("proxy", [x \in {0} |-> <<t, f>>], r)
InWorker(cur, r) == Held("worker", [w \in Workers |-> <<cur[w]>>], r)
HeardBy(r) == {<<"heard", c, 0>> : c \in {x \in Clients : r \in heard[x]}}
Dropped(r) == {<<"dropped", 0, 0>> : x \in {r} \cap dropped}
Unsent(r) == {<<"unsent", 0, 0>> : x \in {r} \cap unsent}

LEMMA PlacesAre ==
  ASSUME NEW r
  PROVE  Places(r) = Held("router", router, r) \cup Held("pipe", pipe, r)
                       \cup Held("back", back, r) \cup Held("replies", replies, r)
                       \cup InWorker(current, r) \cup InProxy(taken, fetched, r) \cup HeardBy(r)
                       \cup Dropped(r) \cup Unsent(r)
  BY DEF Places, InWorker, InProxy, HeardBy, Dropped, Unsent

\* Parts of different names have nothing in common.
LEMMA HeldNamed ==
  ASSUME NEW name, NEW q, NEW r
  PROVE  \A y \in Held(name, q, r) : y[1] = name
  BY DEF Held

LEMMA WorkerNone ==
  ASSUME NEW cur, NEW r
  PROVE  InWorker(cur, r) = {} <=> \A w \in Workers : cur[w] # r
<1>1. PICK q : q = [w \in Workers |-> <<cur[w]>>]
  OBVIOUS
<1>2. /\ InWorker(cur, r) = Held("worker", q, r) /\ DOMAIN q = Workers
      /\ \A w \in Workers : DOMAIN q[w] = {1} /\ q[w][1] = cur[w]
  BY <1>1 DEF InWorker
<1>3. Held("worker", q, r) = {} <=>
        \A x \in DOMAIN q : \A i \in DOMAIN q[x] : q[x][i] # r
  BY HeldNone
<1> QED
  BY <1>2, <1>3

LEMMA WorkerOnce ==
  ASSUME NEW cur, NEW r, NEW w \in Workers, cur[w] = r,
         \A x \in Workers : cur[x] = r => x = w
  PROVE  One(InWorker(cur, r))
<1>1. PICK q : q = [x \in Workers |-> <<cur[x]>>]
  OBVIOUS
<1>2. /\ InWorker(cur, r) = Held("worker", q, r) /\ DOMAIN q = Workers
      /\ \A x \in Workers : DOMAIN q[x] = {1} /\ q[x][1] = cur[x]
  BY <1>1 DEF InWorker
<1>3. Held("worker", q, r) = {<<"worker", w, 1>>}
  BY <1>2, HeldOnce
<1> QED
  BY <1>2, <1>3 DEF One

LEMMA WorkerOne ==
  ASSUME NEW cur, NEW r, One(InWorker(cur, r)), NEW w \in Workers, cur[w] = r,
         NEW x \in Workers, cur[x] = r
  PROVE  x = w
<1>1. PICK q : q = [y \in Workers |-> <<cur[y]>>]
  OBVIOUS
<1>2. /\ InWorker(cur, r) = Held("worker", q, r) /\ DOMAIN q = Workers
      /\ \A y \in Workers : DOMAIN q[y] = {1} /\ q[y][1] = cur[y]
  BY <1>1 DEF InWorker
<1>3. PICK z \in DOMAIN q : \E i \in DOMAIN q[z] :
           /\ q[z][i] = r
           /\ \A y \in DOMAIN q : \A j \in DOMAIN q[y] :
                q[y][j] = r => y = z /\ j = i
  BY <1>2, HeldOne
<1> QED
  BY <1>2, <1>3

LEMMA WorkerSame ==
  ASSUME NEW cur, NEW new, NEW r, \A w \in Workers : new[w] = r <=> cur[w] = r
  PROVE  InWorker(new, r) = InWorker(cur, r)
<1>1. PICK q : q = [w \in Workers |-> <<cur[w]>>]
  OBVIOUS
<1>2. PICK p : p = [w \in Workers |-> <<new[w]>>]
  OBVIOUS
<1>3. /\ InWorker(cur, r) = Held("worker", q, r)
      /\ InWorker(new, r) = Held("worker", p, r)
      /\ DOMAIN q = Workers /\ DOMAIN p = Workers
      /\ \A w \in Workers : /\ DOMAIN q[w] = {1} /\ q[w][1] = cur[w]
                            /\ DOMAIN p[w] = {1} /\ p[w][1] = new[w]
  BY <1>1, <1>2 DEF InWorker
<1> QED
  BY <1>3, HeldSame

LEMMA ProxyNone ==
  ASSUME NEW t, NEW f, NEW r
  PROVE  InProxy(t, f, r) = {} <=> t # r /\ f # r
<1>1. PICK q : q = [x \in {0} |-> <<t, f>>]
  OBVIOUS
<1>2. /\ InProxy(t, f, r) = Held("proxy", q, r) /\ DOMAIN q = {0}
      /\ DOMAIN q[0] = {1, 2} /\ q[0][1] = t /\ q[0][2] = f
  BY <1>1 DEF InProxy
<1>3. Held("proxy", q, r) = {} <=>
        \A x \in DOMAIN q : \A i \in DOMAIN q[x] : q[x][i] # r
  BY HeldNone
<1> QED
  BY <1>2, <1>3

LEMMA ProxyOnce ==
  ASSUME NEW t, NEW f, NEW r, t # f, r \in {t, f}
  PROVE  One(InProxy(t, f, r))
<1>1. PICK q : q = [x \in {0} |-> <<t, f>>]
  OBVIOUS
<1>2. /\ InProxy(t, f, r) = Held("proxy", q, r) /\ DOMAIN q = {0}
      /\ DOMAIN q[0] = {1, 2} /\ q[0][1] = t /\ q[0][2] = f
  BY <1>1 DEF InProxy
<1>3. PICK i \in DOMAIN q[0] : q[0][i] = r /\ \A j \in DOMAIN q[0] : q[0][j] = r => j = i
  BY <1>2
<1>4. Held("proxy", q, r) = {<<"proxy", 0, i>>}
  BY <1>2, <1>3, HeldOnce
<1> QED
  BY <1>2, <1>4 DEF One

LEMMA PartsNamed ==
  ASSUME NEW r
  PROVE  /\ \A y \in InProxy(taken, fetched, r) : y[1] = "proxy"
         /\ \A y \in InWorker(current, r) : y[1] = "worker"
         /\ \A y \in HeardBy(r) : y[1] = "heard"
         /\ \A y \in Dropped(r) : y[1] = "dropped"
         /\ \A y \in Unsent(r) : y[1] = "unsent"
         /\ \A y \in Held("router", router, r) : y[1] = "router"
         /\ \A y \in Held("pipe", pipe, r) : y[1] = "pipe"
         /\ \A y \in Held("back", back, r) : y[1] = "back"
         /\ \A y \in Held("replies", replies, r) : y[1] = "replies"
  BY HeldNamed DEF InProxy, InWorker, HeardBy, Dropped, Unsent

\* Nobody has a request but the worker that handles it or is stuck on it.
Rested == \A w \in Workers :
            worker[w] \in {"starting", "receiving"} => current[w] = Nothing

\* The proxy carries one thing at a time.
OneHand == taken = Nothing \/ fetched = Nothing

AllPlaced == \A r \in Requests : One(Places(r))

LEMMA InitPlaced == Init => Rested /\ OneHand /\ AllPlaced
<1> SUFFICES ASSUME Init
             PROVE  Rested /\ OneHand /\ AllPlaced
  OBVIOUS
<1>1. Rested /\ OneHand
  BY DEF Init, Rested, OneHand
<1>2. ASSUME NEW r \in Requests
      PROVE  Places(r) = {<<"unsent", 0, 0>>}
  <2>1. r # Nothing
    BY DaemonAssumption
  <2>2. /\ Held("router", router, r) = {} /\ Held("pipe", pipe, r) = {}
        /\ Held("back", back, r) = {} /\ Held("replies", replies, r) = {}
    BY HeldNone DEF Init
  <2>3. InWorker(current, r) = {} /\ InProxy(taken, fetched, r) = {}
    BY <2>1, WorkerNone, ProxyNone DEF Init
  <2>4. HeardBy(r) = {} /\ Dropped(r) = {} /\ Unsent(r) = {<<"unsent", 0, 0>>}
    BY DEF Init, HeardBy, Dropped, Unsent
  <2> QED
    BY <2>2, <2>3, <2>4, PlacesAre
<1> QED
  BY <1>1, <1>2 DEF AllPlaced, One

(***************************************************************************)
(* The steps of the proxy, the workers and the clients, one request r at a *)
(* time: r is what moves, or it is not.                                    *)
(***************************************************************************)
LEMMA AskPlaced ==
  ASSUME IndInv, NEW s \in Requests, Ask(s), NEW r \in Requests, One(Places(r))
  PROVE  One(Places(r)')
<1> DEFINE A == Unsent(r)
           B == Held("router", router, r)
           A2 == Unsent(r)'
           B2 == Held("router", router', r)
           R == Held("pipe", pipe, r) \cup Held("back", back, r)
                  \cup Held("replies", replies, r) \cup InWorker(current, r)
                  \cup InProxy(taken, fetched, r) \cup HeardBy(r) \cup Dropped(r)
<1>1. PICK c : c = Asker[s]
  OBVIOUS
<1>2. /\ c \in DOMAIN router /\ router[c] \in Seq(Requests)
      /\ DOMAIN router' = DOMAIN router /\ router'[c] = Append(router[c], s)
      /\ \A y \in DOMAIN router : y # c => router'[y] = router[y]
      /\ s \in unsent /\ unsent' = unsent \ {s}
  <2>1. router \in [Clients -> Seq(Sent)] /\ Seq(Sent) \subseteq Seq(Requests)
    BY SeqGrows DEF IndInv, Routed, Sent
  <2> QED
    BY <1>1, <2>1, DaemonAssumption DEF Ask
<1>3. Places(r) = A \cup B \cup R /\ A \cap B = {} /\ A \cap R = {}
  <2>1. \A y \in A : y[1] = "unsent"
    BY PartsNamed
  <2>2. \A y \in B \cup R : y[1] # "unsent"
    BY PartsNamed
  <2> QED
    BY <2>1, <2>2, PlacesAre
<1>4. Places(r)' = A2 \cup B2 \cup R
  <2>1. R' = R
    BY <1>2 DEF Ask, InWorker, InProxy, HeardBy, Dropped, Unsent
  <2>2. Places(r)' = A2 \cup B2 \cup R'
    BY DEF Places, InProxy, InWorker, HeardBy, Dropped, Unsent
  <2> QED
    BY <2>1, <2>2
<1>5. ASSUME s = r
      PROVE  A # {} /\ (One(A) => A2 = {}) /\ (B = {} => One(B2))
  <2>1. A # {} /\ A2 = {}
    BY <1>2, <1>5 DEF Unsent
  <2>2. B = {} => One(B2)
    BY <1>2, <1>5, HeldAppended
  <2> QED
    BY <2>1, <2>2
<1>6. ASSUME s # r
      PROVE  (A = {} => A2 = {}) /\ (One(A) => One(A2)) /\ B2 = B
  <2>1. A2 = A
    BY <1>2, <1>6 DEF Unsent
  <2>2. B2 = B
    BY <1>2, <1>6, HeldAppended
  <2> QED
    BY <2>1, <2>2
<1>7. One(A \cup B \cup R)
  BY <1>3
<1> HIDE DEF A, B, A2, B2, R
<1>8. One(A2 \cup B2 \cup R)
  BY <1>3, <1>5, <1>6, <1>7, Carries
<1> QED
  BY <1>4, <1>8

LEMMA TakePlaced ==
  ASSUME IndInv, NEW c \in Clients, Take(c), NEW r \in Requests, One(Places(r))
  PROVE  One(Places(r)')
<1> DEFINE A == Held("router", router, r)
           B == InProxy(taken, fetched, r)
           A2 == Held("router", router', r)
           B2 == InProxy(taken', fetched', r)
           R == Held("pipe", pipe, r) \cup Held("back", back, r)
                  \cup Held("replies", replies, r) \cup InWorker(current, r)
                  \cup HeardBy(r) \cup Dropped(r) \cup Unsent(r)
<1>1. /\ router[c] \in Seq(Sent) /\ router[c] # <<>> /\ c \in DOMAIN router
      /\ DOMAIN router' = DOMAIN router /\ router'[c] = Tail(router[c])
      /\ \A y \in DOMAIN router : y # c => router'[y] = router[y]
  BY DEF Take, IndInv, Routed
<1>2. /\ taken = Nothing /\ fetched = Nothing /\ r # Nothing
      /\ taken' = Head(router[c]) /\ fetched' = fetched
  BY DaemonAssumption DEF Take, Free
<1>3. Places(r) = A \cup B \cup R /\ A \cap B = {} /\ A \cap R = {}
  <2>1. \A y \in A : y[1] = "router"
    BY PartsNamed
  <2>2. \A y \in B \cup R : y[1] # "router"
    BY PartsNamed
  <2> QED
    BY <2>1, <2>2, PlacesAre
<1>4. Places(r)' = A2 \cup B2 \cup R
  <2>1. R' = R
    BY <1>2 DEF Take, InWorker, InProxy, HeardBy, Dropped, Unsent
  <2>2. Places(r)' = A2 \cup B2 \cup R'
    BY DEF Places, InProxy, InWorker, HeardBy, Dropped, Unsent
  <2> QED
    BY <2>1, <2>2
<1>5. ASSUME Head(router[c]) = r
      PROVE  A # {} /\ (One(A) => A2 = {}) /\ (B = {} => One(B2))
  <2>1. A # {} /\ (One(A) => A2 = {})
    BY <1>1, <1>5, HeldFronted, SMTT(60)
  <2>2. B = {} => One(B2)
    <3>1. taken' # fetched' /\ r \in {taken', fetched'}
      BY <1>2, <1>5
    <3>2. One(B2)
      BY <3>1, ProxyOnce
    <3> QED
      BY <3>2
  <2> QED
    BY <2>1, <2>2
<1>6. ASSUME Head(router[c]) # r
      PROVE  (A = {} => A2 = {}) /\ (One(A) => One(A2)) /\ B2 = B
  <2>1. (A = {} => A2 = {}) /\ (One(A) => One(A2))
    BY <1>1, <1>6, HeldFronted
  <2>2. B2 = B
    <3>1. B = {}
      BY <1>2, ProxyNone
    <3>2. B2 = {}
      BY <1>2, <1>6, ProxyNone
    <3> QED
      BY <3>1, <3>2
  <2> QED
    BY <2>1, <2>2
<1>7. One(A \cup B \cup R)
  BY <1>3
<1> HIDE DEF A, B, A2, B2, R
<1>8. One(A2 \cup B2 \cup R)
  BY <1>3, <1>5, <1>6, <1>7, Carries
<1> QED
  BY <1>4, <1>8

LEMMA DealPlaced ==
  ASSUME IndInv, OneHand, Deal, NEW r \in Requests, One(Places(r))
  PROVE  One(Places(r)')
<1> DEFINE A == InProxy(taken, fetched, r)
           B == Held("pipe", pipe, r)
           A2 == InProxy(taken', fetched', r)
           B2 == Held("pipe", pipe', r)
           R == Held("router", router, r) \cup Held("back", back, r)
                  \cup Held("replies", replies, r) \cup InWorker(current, r)
                  \cup HeardBy(r) \cup Dropped(r) \cup Unsent(r)
<1>1. PICK w : w = Following(dealt)
  OBVIOUS
<1>2. /\ w \in DOMAIN pipe /\ pipe[w] \in Seq(Sent) /\ taken \in Sent
      /\ DOMAIN pipe' = DOMAIN pipe /\ pipe'[w] = Append(pipe[w], taken)
      /\ \A y \in DOMAIN pipe : y # w => pipe'[y] = pipe[y]
      /\ taken # Nothing /\ fetched = Nothing /\ taken' = Nothing
      /\ fetched' = Nothing /\ r # Nothing
  <2>1. w \in Workers
    BY <1>1, FollowingConnected DEF Deal, Connected, IndInv, Staffed
  <2> QED
    BY <1>1, <2>1, DaemonAssumption DEF Deal, IndInv, Routed, OneHand
<1>3. Places(r) = A \cup B \cup R /\ A \cap B = {} /\ A \cap R = {}
  <2>1. \A y \in A : y[1] = "proxy"
    BY PartsNamed
  <2>2. \A y \in B \cup R : y[1] # "proxy"
    BY PartsNamed
  <2> QED
    BY <2>1, <2>2, PlacesAre
<1>4. Places(r)' = A2 \cup B2 \cup R
  <2>1. R' = R
    BY <1>2 DEF Deal, InWorker, InProxy, HeardBy, Dropped, Unsent
  <2>2. Places(r)' = A2 \cup B2 \cup R'
    BY DEF Places, InProxy, InWorker, HeardBy, Dropped, Unsent
  <2> QED
    BY <2>1, <2>2
<1>5. ASSUME taken = r
      PROVE  A # {} /\ (One(A) => A2 = {}) /\ (B = {} => One(B2))
  <2>1. A # {} /\ A2 = {}
    BY <1>2, <1>5, ProxyNone
  <2>2. B = {} => One(B2)
    BY <1>2, <1>5, HeldAppended
  <2> QED
    BY <2>1, <2>2
<1>6. ASSUME taken # r
      PROVE  (A = {} => A2 = {}) /\ (One(A) => One(A2)) /\ B2 = B
  <2>1. A = {} /\ A2 = {}
    BY <1>2, <1>6, ProxyNone
  <2>2. B2 = B
    BY <1>2, <1>6, HeldAppended
  <2> QED
    BY <2>1, <2>2 DEF One
<1>7. One(A \cup B \cup R)
  BY <1>3
<1> HIDE DEF A, B, A2, B2, R
<1>8. One(A2 \cup B2 \cup R)
  BY <1>3, <1>5, <1>6, <1>7, Carries
<1> QED
  BY <1>4, <1>8

LEMMA ReceivePlaced ==
  ASSUME IndInv, Rested, NEW w \in Workers, Receive(w), NEW r \in Requests, One(Places(r))
  PROVE  One(Places(r)')
<1> DEFINE A == Held("pipe", pipe, r)
           B == InWorker(current, r)
           A2 == Held("pipe", pipe', r)
           B2 == InWorker(current', r)
           R == Held("router", router, r) \cup Held("back", back, r)
                  \cup Held("replies", replies, r)
                  \cup InProxy(taken, fetched, r) \cup HeardBy(r) \cup Dropped(r)
                  \cup Unsent(r)
<1>1. /\ pipe[w] \in Seq(Sent) /\ pipe[w] # <<>> /\ w \in DOMAIN pipe
      /\ DOMAIN pipe' = DOMAIN pipe /\ pipe'[w] = Tail(pipe[w])
      /\ \A y \in DOMAIN pipe : y # w => pipe'[y] = pipe[y]
  BY DEF Receive, IndInv, Routed
<1>2. /\ current[w] = Nothing /\ r # Nothing
      /\ current'[w] = Head(pipe[w])
      /\ \A x \in Workers : x # w => current'[x] = current[x]
  BY DaemonAssumption DEF Receive, Rested, IndInv, Routed
<1>3. Places(r) = A \cup B \cup R /\ A \cap B = {} /\ A \cap R = {}
  <2>1. \A y \in A : y[1] = "pipe"
    BY PartsNamed
  <2>2. \A y \in B \cup R : y[1] # "pipe"
    BY PartsNamed
  <2> QED
    BY <2>1, <2>2, PlacesAre
<1>4. Places(r)' = A2 \cup B2 \cup R
  <2>1. R' = R
    BY <1>2 DEF Receive, InWorker, InProxy, HeardBy, Dropped, Unsent
  <2>2. Places(r)' = A2 \cup B2 \cup R'
    BY DEF Places, InProxy, InWorker, HeardBy, Dropped, Unsent
  <2> QED
    BY <2>1, <2>2
<1>5. ASSUME Head(pipe[w]) = r
      PROVE  A # {} /\ (One(A) => A2 = {}) /\ (B = {} => One(B2))
  <2>1. A # {} /\ (One(A) => A2 = {})
    BY <1>1, <1>5, HeldFronted, SMTT(60)
  <2>2. B = {} => One(B2)
    BY <1>2, <1>5, WorkerNone, WorkerOnce
  <2> QED
    BY <2>1, <2>2
<1>6. ASSUME Head(pipe[w]) # r
      PROVE  (A = {} => A2 = {}) /\ (One(A) => One(A2)) /\ B2 = B
  <2>1. (A = {} => A2 = {}) /\ (One(A) => One(A2))
    BY <1>1, <1>6, HeldFronted
  <2>2. B2 = B
    BY <1>2, <1>6, WorkerSame
  <2> QED
    BY <2>1, <2>2
<1>7. One(A \cup B \cup R)
  BY <1>3
<1> HIDE DEF A, B, A2, B2, R
<1>8. One(A2 \cup B2 \cup R)
  BY <1>3, <1>5, <1>6, <1>7, Carries
<1> QED
  BY <1>4, <1>8

LEMMA ReplyPlaced ==
  ASSUME IndInv, NEW w \in Workers, Reply(w), NEW r \in Requests, One(Places(r))
  PROVE  One(Places(r)')
<1> DEFINE A == InWorker(current, r)
           B == Held("back", back, r)
           A2 == InWorker(current', r)
           B2 == Held("back", back', r)
           R == Held("router", router, r) \cup Held("pipe", pipe, r)
                  \cup Held("replies", replies, r)
                  \cup InProxy(taken, fetched, r) \cup HeardBy(r) \cup Dropped(r)
                  \cup Unsent(r)
<1>1. /\ back[w] \in Seq(Answerable) /\ w \in DOMAIN back
      /\ DOMAIN back' = DOMAIN back /\ back'[w] = Append(back[w], current[w])
      /\ \A y \in DOMAIN back : y # w => back'[y] = back[y]
      /\ current[w] \in Answerable
  BY DEF Reply, IndInv, Routed, Staffed, Answerable
<1>2. /\ current'[w] = Nothing /\ r # Nothing
      /\ \A x \in Workers : x # w => current'[x] = current[x]
  BY DaemonAssumption DEF Reply, IndInv, Routed
<1>3. Places(r) = A \cup B \cup R /\ A \cap B = {} /\ A \cap R = {}
  <2>1. \A y \in A : y[1] = "worker"
    BY PartsNamed
  <2>2. \A y \in B \cup R : y[1] # "worker"
    BY PartsNamed
  <2> QED
    BY <2>1, <2>2, PlacesAre
<1>4. Places(r)' = A2 \cup B2 \cup R
  <2>1. R' = R
    BY <1>2 DEF Reply, InWorker, InProxy, HeardBy, Dropped, Unsent
  <2>2. Places(r)' = A2 \cup B2 \cup R'
    BY DEF Places, InProxy, InWorker, HeardBy, Dropped, Unsent
  <2> QED
    BY <2>1, <2>2
<1>5. ASSUME current[w] = r
      PROVE  A # {} /\ (One(A) => A2 = {}) /\ (B = {} => One(B2))
  <2>1. A # {}
    BY <1>5, WorkerNone
  <2>2. One(A) => A2 = {}
    <3> SUFFICES ASSUME One(A)
                 PROVE  \A x \in Workers : current'[x] # r
      BY WorkerNone
    <3>1. \A x \in Workers : current[x] = r => x = w
      BY <1>5, WorkerOne
    <3> QED
      BY <1>2, <3>1
  <2>3. B = {} => One(B2)
    BY <1>1, <1>5, HeldAppended
  <2> QED
    BY <2>1, <2>2, <2>3
<1>6. ASSUME current[w] # r
      PROVE  (A = {} => A2 = {}) /\ (One(A) => One(A2)) /\ B2 = B
  <2>1. A2 = A
    BY <1>2, <1>6, WorkerSame
  <2>2. B2 = B
    BY <1>1, <1>6, HeldAppended
  <2> QED
    BY <2>1, <2>2
<1>7. One(A \cup B \cup R)
  BY <1>3
<1> HIDE DEF A, B, A2, B2, R
<1>8. One(A2 \cup B2 \cup R)
  BY <1>3, <1>5, <1>6, <1>7, Carries
<1> QED
  BY <1>4, <1>8

LEMMA FetchPlaced ==
  ASSUME IndInv, NEW w \in Workers, Fetch(w), NEW r \in Requests, One(Places(r))
  PROVE  One(Places(r)')
<1> DEFINE A == Held("back", back, r)
           B == InProxy(taken, fetched, r)
           A2 == Held("back", back', r)
           B2 == InProxy(taken', fetched', r)
           R == Held("router", router, r) \cup Held("pipe", pipe, r)
                  \cup Held("replies", replies, r) \cup InWorker(current, r)
                  \cup HeardBy(r) \cup Dropped(r) \cup Unsent(r)
<1>1. /\ back[w] \in Seq(Answerable) /\ back[w] # <<>> /\ w \in DOMAIN back
      /\ DOMAIN back' = DOMAIN back /\ back'[w] = Tail(back[w])
      /\ \A y \in DOMAIN back : y # w => back'[y] = back[y]
  BY DEF Fetch, IndInv, Routed
<1>2. /\ taken = Nothing /\ fetched = Nothing /\ r # Nothing
      /\ fetched' = Head(back[w]) /\ taken' = taken
  BY DaemonAssumption DEF Fetch, Free
<1>3. Places(r) = A \cup B \cup R /\ A \cap B = {} /\ A \cap R = {}
  <2>1. \A y \in A : y[1] = "back"
    BY PartsNamed
  <2>2. \A y \in B \cup R : y[1] # "back"
    BY PartsNamed
  <2> QED
    BY <2>1, <2>2, PlacesAre
<1>4. Places(r)' = A2 \cup B2 \cup R
  <2>1. R' = R
    BY <1>2 DEF Fetch, InWorker, InProxy, HeardBy, Dropped, Unsent
  <2>2. Places(r)' = A2 \cup B2 \cup R'
    BY DEF Places, InProxy, InWorker, HeardBy, Dropped, Unsent
  <2> QED
    BY <2>1, <2>2
<1>5. ASSUME Head(back[w]) = r
      PROVE  A # {} /\ (One(A) => A2 = {}) /\ (B = {} => One(B2))
  <2>1. A # {} /\ (One(A) => A2 = {})
    BY <1>1, <1>5, HeldFronted, SMTT(60)
  <2>2. B = {} => One(B2)
    <3>1. taken' # fetched' /\ r \in {taken', fetched'}
      BY <1>2, <1>5
    <3>2. One(B2)
      BY <3>1, ProxyOnce
    <3> QED
      BY <3>2
  <2> QED
    BY <2>1, <2>2
<1>6. ASSUME Head(back[w]) # r
      PROVE  (A = {} => A2 = {}) /\ (One(A) => One(A2)) /\ B2 = B
  <2>1. (A = {} => A2 = {}) /\ (One(A) => One(A2))
    BY <1>1, <1>6, HeldFronted
  <2>2. B2 = B
    <3>1. B = {}
      BY <1>2, ProxyNone
    <3>2. B2 = {}
      BY <1>2, <1>6, ProxyNone
    <3> QED
      BY <3>1, <3>2
  <2> QED
    BY <2>1, <2>2
<1>7. One(A \cup B \cup R)
  BY <1>3
<1> HIDE DEF A, B, A2, B2, R
<1>8. One(A2 \cup B2 \cup R)
  BY <1>3, <1>5, <1>6, <1>7, Carries
<1> QED
  BY <1>4, <1>8

LEMMA PassedPlaced ==
  ASSUME IndInv, OneHand, PassOn, replies' # replies, NEW r \in Requests, One(Places(r))
  PROVE  One(Places(r)')
<1> DEFINE A == InProxy(taken, fetched, r)
           B == Held("replies", replies, r)
           A2 == InProxy(taken', fetched', r)
           B2 == Held("replies", replies', r)
           R == Held("router", router, r) \cup Held("pipe", pipe, r)
                  \cup Held("back", back, r) \cup InWorker(current, r)
                  \cup HeardBy(r) \cup Dropped(r) \cup Unsent(r)
<1>1. PICK c : c = Asker[fetched]
  OBVIOUS
<1>2. /\ c \in DOMAIN replies /\ replies[c] \in Seq(Answerable)
      /\ fetched \in Answerable
      /\ DOMAIN replies' = DOMAIN replies /\ replies'[c] = Append(replies[c], fetched)
      /\ \A y \in DOMAIN replies : y # c => replies'[y] = replies[y]
      /\ taken = Nothing /\ taken' = Nothing /\ fetched' = Nothing /\ r # Nothing
      /\ dropped' = dropped
  <2>1. fetched \in Answerable
    BY DEF PassOn, IndInv, Routed
  <2>2. c \in Clients
    BY <1>1, <2>1, DaemonAssumption DEF Answerable, Sent
  <2> QED
    BY <1>1, <2>1, <2>2, DaemonAssumption DEF PassOn, IndInv, Routed, OneHand
<1>3. Places(r) = A \cup B \cup R /\ A \cap B = {} /\ A \cap R = {}
  <2>1. \A y \in A : y[1] = "proxy"
    BY PartsNamed
  <2>2. \A y \in B \cup R : y[1] # "proxy"
    BY PartsNamed
  <2> QED
    BY <2>1, <2>2, PlacesAre
<1>4. Places(r)' = A2 \cup B2 \cup R
  <2>1. R' = R
    BY <1>2 DEF PassOn, InWorker, InProxy, HeardBy, Dropped, Unsent
  <2>2. Places(r)' = A2 \cup B2 \cup R'
    BY DEF Places, InProxy, InWorker, HeardBy, Dropped, Unsent
  <2> QED
    BY <2>1, <2>2
<1>5. ASSUME fetched = r
      PROVE  A # {} /\ (One(A) => A2 = {}) /\ (B = {} => One(B2))
  <2>1. A # {} /\ A2 = {}
    BY <1>2, <1>5, ProxyNone
  <2>2. B = {} => One(B2)
    BY <1>2, <1>5, HeldAppended
  <2> QED
    BY <2>1, <2>2
<1>6. ASSUME fetched # r
      PROVE  (A = {} => A2 = {}) /\ (One(A) => One(A2)) /\ B2 = B
  <2>1. A = {} /\ A2 = {}
    BY <1>2, <1>6, ProxyNone
  <2>2. B2 = B
    BY <1>2, <1>6, HeldAppended
  <2> QED
    BY <2>1, <2>2 DEF One
<1>7. One(A \cup B \cup R)
  BY <1>3
<1> HIDE DEF A, B, A2, B2, R
<1>8. One(A2 \cup B2 \cup R)
  BY <1>3, <1>5, <1>6, <1>7, Carries
<1> QED
  BY <1>4, <1>8

LEMMA DropPlaced ==
  ASSUME IndInv, OneHand, PassOn, UNCHANGED replies, NEW r \in Requests, One(Places(r))
  PROVE  One(Places(r)')
<1> DEFINE A == InProxy(taken, fetched, r)
           B == Dropped(r)
           A2 == InProxy(taken', fetched', r)
           B2 == Dropped(r)'
           R == Held("router", router, r) \cup Held("pipe", pipe, r)
                  \cup Held("back", back, r) \cup Held("replies", replies, r)
                  \cup InWorker(current, r) \cup HeardBy(r) \cup Unsent(r)
<1>2. /\ dropped' = dropped \cup {fetched} /\ replies' = replies
      /\ taken = Nothing /\ taken' = Nothing /\ fetched' = Nothing /\ r # Nothing
  <2>1. fetched \in Answerable
    BY DEF PassOn, IndInv, Routed
  <2>2. Asker[fetched] \in Clients
    BY <2>1, DaemonAssumption DEF Answerable, Sent
  <2>3. Append(replies[Asker[fetched]], fetched) # replies[Asker[fetched]]
    BY <2>1, <2>2 DEF IndInv, Routed
  <2> QED
    BY <2>1, <2>2, <2>3, DaemonAssumption DEF PassOn, IndInv, Routed, OneHand
<1>3. Places(r) = A \cup B \cup R /\ A \cap B = {} /\ A \cap R = {}
  <2>1. \A y \in A : y[1] = "proxy"
    BY PartsNamed
  <2>2. \A y \in B \cup R : y[1] # "proxy"
    BY PartsNamed
  <2> QED
    BY <2>1, <2>2, PlacesAre
<1>4. Places(r)' = A2 \cup B2 \cup R
  <2>1. R' = R
    BY <1>2 DEF PassOn, InWorker, InProxy, HeardBy, Dropped, Unsent
  <2>2. Places(r)' = A2 \cup B2 \cup R'
    BY DEF Places, InProxy, InWorker, HeardBy, Dropped, Unsent
  <2> QED
    BY <2>1, <2>2
<1>5. ASSUME fetched = r
      PROVE  A # {} /\ (One(A) => A2 = {}) /\ (B = {} => One(B2))
  <2>1. A # {} /\ A2 = {}
    BY <1>2, <1>5, ProxyNone
  <2>2. B = {} => One(B2)
    <3>1. B2 = {<<"dropped", 0, 0>>}
      BY <1>2, <1>5 DEF Dropped
    <3> QED
      BY <3>1 DEF One
  <2> QED
    BY <2>1, <2>2
<1>6. ASSUME fetched # r
      PROVE  (A = {} => A2 = {}) /\ (One(A) => One(A2)) /\ B2 = B
  <2>1. A = {} /\ A2 = {}
    BY <1>2, <1>6, ProxyNone
  <2>2. B2 = B
    BY <1>2, <1>6 DEF Dropped
  <2> QED
    BY <2>1, <2>2 DEF One
<1>7. One(A \cup B \cup R)
  BY <1>3
<1> HIDE DEF A, B, A2, B2, R
<1>8. One(A2 \cup B2 \cup R)
  BY <1>3, <1>5, <1>6, <1>7, Carries
<1> QED
  BY <1>4, <1>8

LEMMA HearPlaced ==
  ASSUME IndInv, NEW c \in Clients, Hear(c), NEW r \in Requests, One(Places(r))
  PROVE  One(Places(r)')
<1> DEFINE A == Held("replies", replies, r)
           B == HeardBy(r)
           A2 == Held("replies", replies', r)
           B2 == HeardBy(r)'
           R == Held("router", router, r) \cup Held("pipe", pipe, r)
                  \cup Held("back", back, r) \cup InWorker(current, r)
                  \cup InProxy(taken, fetched, r) \cup Dropped(r) \cup Unsent(r)
<1>1. /\ replies[c] \in Seq(Answerable) /\ replies[c] # <<>> /\ c \in DOMAIN replies
      /\ DOMAIN replies' = DOMAIN replies /\ replies'[c] = Tail(replies[c])
      /\ \A y \in DOMAIN replies : y # c => replies'[y] = replies[y]
  BY DEF Hear, IndInv, Routed
<1>2. /\ heard' = [heard EXCEPT ![c] = @ \cup {Head(replies[c])}]
      /\ heard \in [Clients -> SUBSET Answerable]
  BY DEF Hear, IndInv, Routed
<1>3. Places(r) = A \cup B \cup R /\ A \cap B = {} /\ A \cap R = {}
  <2>1. \A y \in A : y[1] = "replies"
    BY PartsNamed
  <2>2. \A y \in B \cup R : y[1] # "replies"
    BY PartsNamed
  <2> QED
    BY <2>1, <2>2, PlacesAre
<1>4. Places(r)' = A2 \cup B2 \cup R
  <2>1. R' = R
    BY <1>2 DEF Hear, InWorker, InProxy, HeardBy, Dropped, Unsent
  <2>2. Places(r)' = A2 \cup B2 \cup R'
    BY DEF Places, InProxy, InWorker, HeardBy, Dropped, Unsent
  <2> QED
    BY <2>1, <2>2
<1>5. ASSUME Head(replies[c]) = r
      PROVE  A # {} /\ (One(A) => A2 = {}) /\ (B = {} => One(B2))
  <2>1. A # {} /\ (One(A) => A2 = {})
    BY <1>1, <1>5, HeldFronted, SMTT(60)
  <2>2. B = {} => One(B2)
    <3> SUFFICES ASSUME B = {}
                 PROVE  B2 = {<<"heard", c, 0>>}
      BY DEF One
    <3>1. \A x \in Clients : r \notin heard[x]
      BY DEF HeardBy
    <3>2. \A x \in Clients : r \in heard'[x] <=> x = c
      BY <1>2, <1>5, <3>1
    <3>3. {x \in Clients : r \in heard'[x]} = {c}
      BY <3>2
    <3> QED
      BY <3>3 DEF HeardBy
  <2> QED
    BY <2>1, <2>2
<1>6. ASSUME Head(replies[c]) # r
      PROVE  (A = {} => A2 = {}) /\ (One(A) => One(A2)) /\ B2 = B
  <2>1. (A = {} => A2 = {}) /\ (One(A) => One(A2))
    BY <1>1, <1>6, HeldFronted
  <2>2. B2 = B
    <3>1. {x \in Clients : r \in heard'[x]} = {x \in Clients : r \in heard[x]}
      BY <1>2, <1>6
    <3> QED
      BY <3>1 DEF HeardBy
  <2> QED
    BY <2>1, <2>2
<1>7. One(A \cup B \cup R)
  BY <1>3
<1> HIDE DEF A, B, A2, B2, R
<1>8. One(A2 \cup B2 \cup R)
  BY <1>3, <1>5, <1>6, <1>7, Carries
<1> QED
  BY <1>4, <1>8

-------------------------------------------------------------------------------
LEMMA RestedStays ==
  ASSUME IndInv, Rested, [Next]_vars
  PROVE  Rested'
<1>1. ASSUME UNCHANGED <<worker, current>>
      PROVE  Rested'
  BY <1>1 DEF Rested
<1>2. ASSUME NEW w \in Workers, WorkerStep(w)
      PROVE  Rested'
  <2>1. CASE Connect(w)
    BY <2>1 DEF Connect, Rested, IndInv, Staffed
  <2>2. CASE Receive(w)
    BY <2>2 DEF Receive, Rested, IndInv, Routed, Staffed
  <2>3. CASE Reply(w)
    BY <2>3 DEF Reply, Rested, IndInv, Routed, Staffed
  <2>4. CASE Stick(w)
    BY <2>4 DEF Stick, Rested, IndInv, Staffed
  <2> QED
    BY <1>2, <2>1, <2>2, <2>3, <2>4 DEF WorkerStep
<1>3. ASSUME NEW c \in Clients, Take(c) \/ Hear(c)
      PROVE  Rested'
  BY <1>1, <1>3 DEF Take, Hear
<1>4. ASSUME NEW r \in Requests, Ask(r)
      PROVE  Rested'
  BY <1>1, <1>4 DEF Ask
<1>5. ASSUME NEW w \in Workers, Fetch(w)
      PROVE  Rested'
  BY <1>1, <1>5 DEF Fetch
<1>6. CASE ProxyStep \/ Unload \/ UNCHANGED vars
  BY <1>1, <1>6 DEF ProxyStep, Deal, PassOn, Unload, vars
<1> QED
  BY <1>2, <1>3, <1>4, <1>5, <1>6 DEF Next

LEMMA OneHandStays ==
  ASSUME OneHand, [Next]_vars
  PROVE  OneHand'
  BY DEF OneHand, Next, WorkerStep, ProxyStep, Connect, Receive, Reply, Stick,
         Take, Hear, Ask, Fetch, Free, Deal, PassOn, Unload, vars

LEMMA StaysPlaced ==
  ASSUME NEW r, One(Places(r)),
         UNCHANGED <<unsent, router, taken, fetched, pipe, current, back, replies,
                     heard, dropped>>
  PROVE  One(Places(r)')
<1>1. Places(r)' = Places(r)
  BY DEF Places
<1> QED
  BY <1>1

LEMMA StepPlaced ==
  ASSUME IndInv, Rested, OneHand, AllPlaced, [Next]_vars
  PROVE  AllPlaced'
<1> SUFFICES ASSUME NEW r \in Requests
             PROVE  One(Places(r)')
  BY DEF AllPlaced
<1>1. One(Places(r))
  BY DEF AllPlaced
<1>2. ASSUME NEW s \in Requests, Ask(s)
      PROVE  One(Places(r)')
  BY <1>1, <1>2, AskPlaced
<1>3. ASSUME NEW c \in Clients, Take(c) \/ Hear(c)
      PROVE  One(Places(r)')
  BY <1>1, <1>3, TakePlaced, HearPlaced
<1>4. ASSUME NEW w \in Workers, Receive(w) \/ Reply(w) \/ Fetch(w)
      PROVE  One(Places(r)')
  BY <1>1, <1>4, ReceivePlaced, ReplyPlaced, FetchPlaced
<1>5. ASSUME NEW w \in Workers, Connect(w) \/ Stick(w)
      PROVE  One(Places(r)')
  BY <1>1, <1>5, StaysPlaced DEF Connect, Stick
<1>6. CASE Deal
  BY <1>1, <1>6, DealPlaced
<1>7. CASE PassOn
  <2>1. CASE UNCHANGED replies
    BY <1>1, <1>7, <2>1, DropPlaced
  <2>2. CASE replies' # replies
    BY <1>1, <1>7, <2>2, PassedPlaced
  <2> QED
    BY <2>1, <2>2
<1>8. CASE Unload \/ UNCHANGED vars
  BY <1>1, <1>8, StaysPlaced DEF Unload, vars
<1> QED
  BY <1>2, <1>3, <1>4, <1>5, <1>6, <1>7, <1>8 DEF Next, WorkerStep, ProxyStep

(***************************************************************************)
(* Whatever becomes of the workers and of the proxy, a request or its      *)
(* reply is in exactly one place: it is answered at most once, and what is *)
(* not answered can be pointed at (ZqlDaemon.cpp 27-96, Worker.cpp 53-126). *)
(***************************************************************************)
THEOREM Placed == Spec => []OnePlace
<1>1. IndInv /\ Rested /\ OneHand /\ AllPlaced /\ [Next]_vars
        => Rested' /\ OneHand' /\ AllPlaced'
  BY RestedStays, OneHandStays, StepPlaced
<1>2. AllPlaced => OnePlace
  BY FS_Singleton DEF AllPlaced, One, OnePlace
<1> QED
  BY <1>1, <1>2, InitPlaced, Invariance, PTL DEF Spec
===============================================================================
