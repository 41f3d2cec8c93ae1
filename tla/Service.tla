------------------------------- MODULE Service -------------------------------
(***************************************************************************)
(* What the daemon is to its clients: each request is asked once, by one   *)
(* client, and answered to that client, once or never.  A request no       *)
(* handler understands is never answered.                                  *)
(***************************************************************************)
CONSTANTS Clients, Requests,
          Asker,   \* Asker[r]: the client that asks r
          Mute     \* the requests no handler is called for

VARIABLES asked,   \* the requests sent
          heard    \* heard[c]: those client c has got the answer to

vars == <<asked, heard>>

Init == asked = {} /\ heard = [c \in Clients |-> {}]

Ask(r) ==
  /\ r \notin asked
  /\ asked' = asked \cup {r}
  /\ UNCHANGED heard

Answer(r) ==
  /\ r \in asked \ Mute
  /\ r \notin heard[Asker[r]]
  /\ heard' = [heard EXCEPT ![Asker[r]] = @ \cup {r}]
  /\ UNCHANGED asked

Next == \E r \in Requests : Ask(r) \/ Answer(r)

Spec == Init /\ [][Next]_vars
===============================================================================
