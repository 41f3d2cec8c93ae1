---------------------------- MODULE InsertClient ----------------------------
(***************************************************************************)
(* The client of plugin/test.cpp: one InsertExecutor per insert, and the   *)
(* map from request ids to the executor that waits for the response.  Its  *)
(* main loop is one thread, so sending a request and handling a response   *)
(* are steps of their own.                                                 *)
(***************************************************************************)
EXTENDS Inserts

VARIABLES cstate,     \* cstate[o]: the executor of o
          listeners,  \* requestListeners: request id to operation
          sent,       \* history: how many requests o's executor has sent
          answer      \* history: the last compare result o's executor sent

clientVars == <<cstate, listeners, sent, answer>>

NoAnswer == 2

ClientInit == /\ cstate = [o \in Ops |-> "queued"]
              /\ listeners = <<>>
              /\ sent = [o \in Ops |-> 0]
              /\ answer = [o \in Ops |-> NoAnswer]

\* Mutant: a smaller node is taken for an equal one.
Compare_EqualOnLess(a, b) == IF a > b THEN 1 ELSE 0

\* compare(node, mine): how the node's value relates to the executor's own.
Compare(a, b) == IF a < b THEN -1 ELSE IF a > b THEN 1 ELSE 0

\* rand(), on the assumption that it does not repeat an id.
NewId(o) == <<o, sent[o] + 1>>

\* InsertExecutor::Run.
Run(o) ==
  /\ cstate[o] = "queued"
  /\ cstate' = [cstate EXCEPT ![o] = "waiting"]
  /\ listeners' = Put(listeners, NewId(o), o)
  /\ inbox' = inbox \cup {AddRequest(NewId(o), o)}
  /\ sent' = [sent EXCEPT ![o] = @ + 1]
  /\ UNCHANGED <<outbox, answer>>

\* InsertExecutor::OnResponseAddOk; the executor deletes itself.
OnResponseAddOk(m) ==
  /\ m.type = "ok"
  /\ m.id \in DOMAIN listeners
  /\ cstate' = [cstate EXCEPT ![listeners[m.id]] = "done"]
  /\ listeners' = Erase(listeners, m.id)
  /\ outbox' = outbox \ {m}
  /\ UNCHANGED <<inbox, sent, answer>>

\* Mutant: the listener of the answered request stays.
OnResponseAddTraverse_KeepsListener(m) ==
  /\ m.type = "traverse"
  /\ m.id \in DOMAIN listeners
  /\ LET o == listeners[m.id]
         cmp == Compare(m.ct, Val[o])
     IN  /\ listeners' = Put(listeners, NewId(o), o)
         /\ inbox' = inbox \cup {ContinueRequest(NewId(o), m.init, cmp)}
         /\ answer' = [answer EXCEPT ![o] = cmp]
         /\ sent' = [sent EXCEPT ![o] = @ + 1]
  /\ outbox' = outbox \ {m}
  /\ UNCHANGED cstate

\* InsertExecutor::OnResponseAddTraverse: compare and ask to continue.
OnResponseAddTraverse(m) ==
  /\ m.type = "traverse"
  /\ m.id \in DOMAIN listeners
  /\ LET o == listeners[m.id]
         cmp == Compare(m.ct, Val[o])
     IN  /\ listeners' = Put(Erase(listeners, m.id), NewId(o), o)
         /\ inbox' = inbox \cup {ContinueRequest(NewId(o), m.init, cmp)}
         /\ answer' = [answer EXCEPT ![o] = cmp]
         /\ sent' = [sent EXCEPT ![o] = @ + 1]
  /\ outbox' = outbox \ {m}
  /\ UNCHANGED cstate

ClientNext == \/ \E o \in Ops : Run(o)
              \/ \E m \in outbox : OnResponseAddOk(m) \/ OnResponseAddTraverse(m)

ClientTypeOK ==
  /\ cstate \in [Ops -> {"queued", "waiting", "done"}]
  /\ DOMAIN listeners \subseteq Id
  /\ \A id \in DOMAIN listeners : listeners[id] \in Ops
  /\ sent \in [Ops -> Nat]
  /\ answer \in [Ops -> {-1, 0, 1, NoAnswer}]
=============================================================================
