------------------------------- MODULE Inserts -------------------------------
(***************************************************************************)
(* The insert operations, and the messages the client and the daemon       *)
(* exchange about them (lib/objects/Request.h, Response.h).  Requests and  *)
(* responses travel through ROUTER, proxy and DEALER sockets; the model    *)
(* keeps them in two sets, so a worker may take up any waiting request and *)
(* the client may see any waiting response.  A request id comes from       *)
(* rand(); the model assumes it new and writes it as the operation and how *)
(* many requests it has sent, a pair no handler looks into.                *)
(***************************************************************************)
EXTENDS Integers, Sequences

CONSTANTS Ops,       \* the inserts a client asks for
          OpeOps,    \* those whose row has a column named *_ope
          NULL,      \* the null pointer
          Key,       \* Key[o]: database + "." + table of the row
          Val,       \* Val[o]: the value of that column, as compare orders it
          ReadsOf    \* ReadsOf[o]: what the freed buffer of o may read as

ASSUME InsertsAssumption ==
  /\ OpeOps \subseteq Ops
  /\ NULL \notin Ops
  /\ Val \in [Ops -> Int]
  /\ ReadsOf \in [Ops -> SUBSET Int]
  /\ \A o \in Ops : Val[o] \in ReadsOf[o]

VARIABLES inbox,    \* requests on their way to a worker
          outbox    \* responses on their way to the client

Id == Ops \X Nat

Keys == {Key[o] : o \in Ops}

AddRequest(id, o) == [type |-> "add", id |-> id, op |-> o]

ContinueRequest(id, init, cmp) ==
  [type |-> "continue", id |-> id, init |-> init, cmp |-> cmp]

OkResponse(id) == [type |-> "ok", id |-> id]

TraverseResponse(id, init, ct) ==
  [type |-> "traverse", id |-> id, init |-> init, ct |-> ct]

Requests == [type : {"add"}, id : Id, op : Ops]
              \cup [type : {"continue"}, id : Id, init : Id, cmp : {-1, 0, 1}]

Responses == [type : {"ok"}, id : Id]
               \cup [type : {"traverse"}, id : Id, init : Id, ct : Int]

\* std::map: m[k] = v, and erase(k) (of an absent key too).
Put(m, k, v) == [x \in DOMAIN m \cup {k} |-> IF x = k THEN v ELSE m[x]]
Erase(m, k) == [x \in DOMAIN m \ {k} |-> m[x]]
=============================================================================
