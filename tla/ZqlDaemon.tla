------------------------------ MODULE ZqlDaemon ------------------------------
(***************************************************************************)
(* plugin/ZqlDaemon.cpp, the loop of plugin/Worker.cpp and the entry       *)
(* points of plugin/zql.cpp: a ROUTER that clients connect to, a proxy     *)
(* thread, and a DEALER behind it that deals the requests to the workers'  *)
(* REP sockets in turn.  A request is what the proxy carries: an envelope  *)
(* with the client it came from, and a body a handler answers, or one for  *)
(* which the parser calls no handler.                                      *)
(*                                                                         *)
(* The sockets are ZeroMQ's: pipes keep their order, a ROUTER drops the    *)
(* reply to a client whose pipe is full, and a REP that has received must  *)
(* send before it can receive again.                                       *)
(***************************************************************************)
EXTENDS Naturals, Sequences, FiniteSets

CONSTANTS WorkerCount,
          Clients, Requests, Asker, Mute,   \* see Service
          Nothing,                          \* no request
          ReplyLimit   \* bound: replies a client's pipe holds

ASSUME DaemonAssumption ==
  /\ WorkerCount \in Nat \ {0} /\ ReplyLimit \in Nat \ {0}
  /\ Asker \in [Requests -> Clients] /\ Mute \subseteq Requests
  /\ Nothing \notin Requests

VARIABLES unsent,   \* requests the clients have not sent
          router,   \* router[c]: requests of client c in the ROUTER
          proxy,    \* the proxy's thread: "running" or "cancelled"
          taken,    \* the request it has received and not yet dealt
          fetched,  \* the reply it has received and not yet passed on
          dealt,    \* the worker the DEALER dealt to last
          pipe,     \* pipe[w]: requests dealt to worker w
          worker,   \* worker[w]: "starting", "receiving", "handling", "stuck"
          current,  \* current[w]: the request w has received
          back,     \* back[w]: replies on their way from w to the proxy
          replies,  \* replies[c]: replies in the pipe to client c
          heard,    \* heard[c]: the requests c has got the answer to
          dropped   \* history: replies the ROUTER has dropped

vars == <<unsent, router, proxy, taken, fetched, dealt, pipe, worker, current,
          back, replies, heard, dropped>>

Workers == 1..WorkerCount

\* run: both sockets are bound, and the workers' threads are created.
Init ==
  /\ unsent = Requests
  /\ router = [c \in Clients |-> <<>>]
  /\ proxy = "running"
  /\ taken = Nothing
  /\ fetched = Nothing
  /\ dealt = WorkerCount
  /\ pipe = [w \in Workers |-> <<>>]
  /\ worker = [w \in Workers |-> "starting"]
  /\ current = [w \in Workers |-> Nothing]
  /\ back = [w \in Workers |-> <<>>]
  /\ replies = [c \in Clients |-> <<>>]
  /\ heard = [c \in Clients |-> {}]
  /\ dropped = {}

-------------------------------------------------------------------------------
Ask(r) ==
  /\ r \in unsent
  /\ unsent' = unsent \ {r}
  /\ router' = [router EXCEPT ![Asker[r]] = Append(@, r)]
  /\ UNCHANGED <<proxy, taken, fetched, dealt, pipe, worker, current, back,
                 replies, heard, dropped>>

\* Worker::run up to its loop: only now the DEALER knows the worker.
Connect(w) ==
  /\ worker[w] = "starting"
  /\ worker' = [worker EXCEPT ![w] = "receiving"]
  /\ UNCHANGED <<unsent, router, proxy, taken, fetched, dealt, pipe, current,
                 back, replies, heard, dropped>>

Free == proxy = "running" /\ taken = Nothing /\ fetched = Nothing

\* zmq_proxy receives from the ROUTER, from any client that has sent.
Take(c) ==
  /\ Free
  /\ router[c] # <<>>
  /\ taken' = Head(router[c])
  /\ router' = [router EXCEPT ![c] = Tail(@)]
  /\ UNCHANGED <<unsent, proxy, fetched, dealt, pipe, worker, current, back,
                 replies, heard, dropped>>

Connected == {w \in Workers : worker[w] # "starting"}

\* The worker after w, in the DEALER's round.
Following(w) ==
  LET distance(x) == IF x > w THEN x - w ELSE x + WorkerCount - w
  IN  CHOOSE x \in Connected : \A y \in Connected : distance(x) =< distance(y)

\* zmq_proxy sends to the DEALER, which deals in turn, whatever the worker does.
Deal ==
  /\ proxy = "running"
  /\ taken # Nothing
  /\ Connected # {}
  /\ dealt' = Following(dealt)
  /\ pipe' = [pipe EXCEPT ![Following(dealt)] = Append(@, taken)]
  /\ taken' = Nothing
  /\ UNCHANGED <<unsent, router, proxy, fetched, worker, current, back,
                 replies, heard, dropped>>

\* Mutant: the message stays in the pipe.
Receive_Peeks(w) ==
  /\ worker[w] = "receiving"
  /\ pipe[w] # <<>>
  /\ current' = [current EXCEPT ![w] = Head(pipe[w])]
  /\ worker' = [worker EXCEPT ![w] = "handling"]
  /\ UNCHANGED <<unsent, router, proxy, taken, fetched, dealt, pipe, back, replies,
                 heard, dropped>>

\* zmq_msg_recv on the worker's REP.
Receive(w) ==
  /\ worker[w] = "receiving"
  /\ pipe[w] # <<>>
  /\ current' = [current EXCEPT ![w] = Head(pipe[w])]
  /\ pipe' = [pipe EXCEPT ![w] = Tail(@)]
  /\ worker' = [worker EXCEPT ![w] = "handling"]
  /\ UNCHANGED <<unsent, router, proxy, taken, fetched, dealt, back, replies,
                 heard, dropped>>

\* Mutant: a message without a handler is answered as well.
Reply_ToAll(w) ==
  /\ worker[w] = "handling"
  /\ back' = [back EXCEPT ![w] = Append(@, current[w])]
  /\ current' = [current EXCEPT ![w] = Nothing]
  /\ worker' = [worker EXCEPT ![w] = "receiving"]
  /\ UNCHANGED <<unsent, router, proxy, taken, fetched, dealt, pipe, replies,
                 heard, dropped>>

\* The parser calls a handler, which ends with its zmq_send.
Reply(w) ==
  /\ worker[w] = "handling"
  /\ current[w] \notin Mute
  /\ back' = [back EXCEPT ![w] = Append(@, current[w])]
  /\ current' = [current EXCEPT ![w] = Nothing]
  /\ worker' = [worker EXCEPT ![w] = "receiving"]
  /\ UNCHANGED <<unsent, router, proxy, taken, fetched, dealt, pipe, replies,
                 heard, dropped>>

\* Mutant: a handler may fail to send, too.
Stick_Any(w) ==
  /\ worker[w] = "handling"
  /\ worker' = [worker EXCEPT ![w] = "stuck"]
  /\ UNCHANGED <<unsent, router, proxy, taken, fetched, dealt, pipe, current,
                 back, replies, heard, dropped>>

\* The parser returns without a call.  Every zmq_msg_recv from now on fails,
\* its message is empty, and the loop goes round.
Stick(w) ==
  /\ worker[w] = "handling"
  /\ current[w] \in Mute
  /\ worker' = [worker EXCEPT ![w] = "stuck"]
  /\ UNCHANGED <<unsent, router, proxy, taken, fetched, dealt, pipe, current,
                 back, replies, heard, dropped>>

\* zmq_proxy receives a reply from the DEALER ...
Fetch(w) ==
  /\ Free
  /\ back[w] # <<>>
  /\ fetched' = Head(back[w])
  /\ back' = [back EXCEPT ![w] = Tail(@)]
  /\ UNCHANGED <<unsent, router, proxy, taken, dealt, pipe, worker, current,
                 replies, heard, dropped>>

\* Mutant: the reply goes to any client.
PassOn_Anywhere ==
  /\ proxy = "running"
  /\ fetched # Nothing
  /\ \E c \in Clients :
        \/ /\ Len(replies[c]) < ReplyLimit
           /\ replies' = [replies EXCEPT ![c] = Append(@, fetched)]
           /\ UNCHANGED dropped
        \/ /\ Len(replies[c]) = ReplyLimit
           /\ dropped' = dropped \cup {fetched}
           /\ UNCHANGED replies
  /\ fetched' = Nothing
  /\ UNCHANGED <<unsent, router, proxy, taken, dealt, pipe, worker, current,
                 back, heard>>

\* ... and sends it to the ROUTER, which drops it where the pipe is full.
PassOn ==
  /\ proxy = "running"
  /\ fetched # Nothing
  /\ LET c == Asker[fetched]
     IN  \/ /\ Len(replies[c]) < ReplyLimit
            /\ replies' = [replies EXCEPT ![c] = Append(@, fetched)]
            /\ UNCHANGED dropped
         \/ /\ Len(replies[c]) = ReplyLimit
            /\ dropped' = dropped \cup {fetched}
            /\ UNCHANGED replies
  /\ fetched' = Nothing
  /\ UNCHANGED <<unsent, router, proxy, taken, dealt, pipe, worker, current,
                 back, heard>>

\* A client reads one reply per turn of its loop.
Hear(c) ==
  /\ replies[c] # <<>>
  /\ heard' = [heard EXCEPT ![c] = @ \cup {Head(replies[c])}]
  /\ replies' = [replies EXCEPT ![c] = Tail(@)]
  /\ UNCHANGED <<unsent, router, proxy, taken, fetched, dealt, pipe, worker,
                 current, back, dropped>>

\* daemon_zql_deinit: ~ZqlDaemon cancels the proxy's thread, at any of its
\* calls into ZeroMQ.  Sockets, context and workers stay, so that the port is
\* still bound when the plugin is initialized again and the new daemon's bind
\* fails unnoticed: it never receives, and nothing here changes any more.
Unload ==
  /\ proxy = "running"
  /\ proxy' = "cancelled"
  /\ UNCHANGED <<unsent, router, taken, fetched, dealt, pipe, worker, current,
                 back, replies, heard, dropped>>

-------------------------------------------------------------------------------
ProxyStep == Deal \/ PassOn

WorkerStep(w) == Connect(w) \/ Receive(w) \/ Reply(w) \/ Stick(w)

Next == \/ \E r \in Requests : Ask(r)
        \/ \E c \in Clients : Take(c) \/ Hear(c)
        \/ \E w \in Workers : WorkerStep(w) \/ Fetch(w)
        \/ ProxyStep
        \/ Unload

\* Threads are scheduled, the sockets the proxy polls are served in turn, and
\* a handler comes back.
Fairness ==
  /\ WF_vars(ProxyStep)
  /\ \A c \in Clients : SF_vars(Take(c)) /\ WF_vars(Hear(c))
  /\ \A w \in Workers : WF_vars(WorkerStep(w)) /\ SF_vars(Fetch(w))

Spec == Init /\ [][Next]_vars /\ Fairness

-------------------------------------------------------------------------------
TypeOK ==
  /\ unsent \subseteq Requests
  /\ router \in [Clients -> Seq(Requests)]
  /\ proxy \in {"running", "cancelled"}
  /\ taken \in Requests \cup {Nothing}
  /\ fetched \in Requests \cup {Nothing}
  /\ dealt \in Workers
  /\ pipe \in [Workers -> Seq(Requests)]
  /\ worker \in [Workers -> {"starting", "receiving", "handling", "stuck"}]
  /\ current \in [Workers -> Requests \cup {Nothing}]
  /\ back \in [Workers -> Seq(Requests \ Mute)]
  /\ replies \in [Clients -> Seq(Requests \ Mute)]
  /\ heard \in [Clients -> SUBSET (Requests \ Mute)]
  /\ dropped \subseteq Requests \ Mute

Held(name, queues, r) ==
  UNION {{<<name, x, i>> : i \in {j \in DOMAIN queues[x] : queues[x][j] = r}}
           : x \in DOMAIN queues}

\* Where r is between its client's send and its client's receive.
Places(r) ==
       Held("router", router, r) \cup Held("pipe", pipe, r)
  \cup Held("back", back, r) \cup Held("replies", replies, r)
  \cup Held("worker", [w \in Workers |-> <<current[w]>>], r)
  \cup Held("proxy", [x \in {0} |-> <<taken, fetched>>], r)
  \cup {<<"heard", c, 0>> : c \in {x \in Clients : r \in heard[x]}}
  \cup {<<"dropped", 0, 0>> : x \in {r} \cap dropped}
  \cup {<<"unsent", 0, 0>> : x \in {r} \cap unsent}

\* A request or its reply is in exactly one place, whatever becomes of the
\* workers and of the proxy: it is not answered twice, and what is not
\* answered can be pointed at.
OnePlace == \A r \in Requests : Cardinality(Places(r)) = 1

\* A request a handler understands is answered, except where it was dealt to
\* a worker that a message without a handler had stopped (Worker.cpp:63-79),
\* its reply found its client's pipe full, or the plugin was unloaded
\* (ZqlDaemon.cpp:27-31).
GoodRequestsAnswered ==
  \A r \in Requests \ Mute :
    r \notin unsent
      ~> \/ r \in heard[Asker[r]] \cup dropped
         \/ proxy = "cancelled"
         \/ \E w \in Workers : /\ worker[w] = "stuck"
                              /\ \E i \in DOMAIN pipe[w] : pipe[w][i] = r

\* The abstract service: each request to its handler once, each answer to
\* the client that asked, none for a request without a handler.
Promise == INSTANCE Service WITH asked <- Requests \ unsent

ImplementsService == Promise!Spec
===============================================================================
