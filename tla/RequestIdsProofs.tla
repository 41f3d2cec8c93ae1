--------------------------- MODULE RequestIdsProofs ---------------------------
(***************************************************************************)
(* Until an id is drawn that names something, ids keep the inserts apart:  *)
(* for every number of clients and inserts, whatever rand() returns, and   *)
(* for trees of every depth.                                               *)
(***************************************************************************)
EXTENDS RequestIds, TLAPS

-------------------------------------------------------------------------------
(***************************************************************************)
(* The maps with an entry more and an entry less.                          *)
(***************************************************************************)
LEMMA Entered ==
  ASSUME NEW f, NEW x, NEW y
  PROVE  /\ DOMAIN With(f, x, y) = DOMAIN f \cup {x}
         /\ With(f, x, y)[x] = y
         /\ \A z \in DOMAIN f : z # x => With(f, x, y)[z] = f[z]
  BY DEF With

LEMMA Removed ==
  ASSUME NEW f, NEW x
  PROVE  /\ DOMAIN Without(f, x) = DOMAIN f \ {x}
         /\ \A z \in DOMAIN f : z # x => Without(f, x)[z] = f[z]
  BY DEF Without, Restrict

UnderWay == DOMAIN first \ done

Messages == inbox \cup outbox

\* The insert a message is about.
Owner(m) == listeners[m.client][m.id]

\* What holds without the meeting of ids.
Good == /\ Listening /\ Walking /\ Talking /\ Rows
        /\ ~erasedRead /\ ~crashed

(***************************************************************************)
(* What a message tells of its insert.                                     *)
(***************************************************************************)
LEMMA Told ==
  ASSUME Good, NEW m \in Messages
  PROVE  /\ m.client \in Clients /\ m.id \in DOMAIN listeners[m.client]
         /\ Owner(m) \in UnderWay /\ Owner(m) \in Ops
         /\ ClientOf[Owner(m)] = m.client
         /\ rows[Owner(m)] = IF m.type = "ok" THEN 1 ELSE 0
         /\ m.type = "add" => m.op = Owner(m) /\ m.id = first[Owner(m)]
         /\ m.type \in {"continue", "traverse"} =>
              m.init = first[Owner(m)] /\ Holds(m.init, Owner(m))
         /\ m.type = "continue" => m.id \notin FirstIds(DOMAIN first)
<1>1. Fits(m)
  BY DEF Good, Talking, Messages
<1>2. m.client \in Clients /\ m.id \in DOMAIN listeners[m.client]
  BY <1>1 DEF Fits
<1>3. Owner(m) \in UnderWay /\ ClientOf[Owner(m)] = m.client
  BY <1>2 DEF Good, Listening, Owner, UnderWay
<1>4. Owner(m) \in Ops
  BY <1>3 DEF Good, Walking, UnderWay
<1> QED
  BY <1>1, <1>2, <1>3, <1>4 DEF Fits, Owner

\* Different messages are about different inserts.
LEMMA OneEach ==
  ASSUME Good, NEW m \in Messages, NEW n \in Messages, Owner(m) = Owner(n)
  PROVE  m = n
<1>1. m.client = n.client
  BY Told
<1>2. m.id = n.id
  BY <1>1, Told DEF Good, Listening, Owner
<1> QED
  BY <1>1, <1>2 DEF Good, Talking, Messages

(***************************************************************************)
(* A handler's answer takes the place of its request.                      *)
(***************************************************************************)
LEMMA AnswersTalk ==
  ASSUME Good, NEW m \in inbox, NEW r, Answer(m, r),
         r.client = m.client, r.id = m.id, r.type \in {"traverse", "ok"},
         UNCHANGED client,
         Fits(r)',
         \A n \in Messages : Owner(n) # Owner(m) => Fits(n)'
  PROVE  Talking' /\ Listening'
<1>1. m \in Messages /\ Messages' \subseteq (Messages \ {m}) \cup {r}
  BY DEF Answer, Messages, Good, Talking
<1>2. \A n \in Messages \ {m} : Owner(n) # Owner(m)
  BY <1>1, OneEach
<1>3. \A n \in Messages' : Fits(n)'
  BY <1>1, <1>2
<1>4. ASSUME NEW p \in Messages', NEW n \in Messages',
             p.client = n.client, p.id = n.id
      PROVE  p = n
  BY <1>1, <1>4 DEF Good, Talking, Messages
<1>5. Listening'
  BY DEF Good, Listening, client
<1>6. /\ \A n \in inbox' : n.type \in {"add", "continue"}
      /\ \A n \in outbox' : n.type \in {"traverse", "ok"}
  BY DEF Answer, Good, Talking
<1> QED
  BY <1>3, <1>4, <1>5, <1>6 DEF Talking, Messages

(***************************************************************************)
(* A handler of one insert leaves the messages of the others as they were. *)
(***************************************************************************)
LEMMA OthersFit ==
  ASSUME Good, NEW m \in Messages, NEW n \in Messages, Owner(n) # Owner(m),
         UNCHANGED client,
         \A o \in Ops \ {Owner(m)} : rows'[o] = rows[o],
         \A id \in DOMAIN holder : id # first[Owner(m)] =>
           id \in DOMAIN holder' /\ holder'[id].op = holder[id].op
  PROVE  Fits(n)'
<1>1. first[Owner(n)] # first[Owner(m)]
  BY Told DEF Good, Walking, UnderWay
<1>2. Fits(n)
  BY DEF Good, Talking, Messages
<1>3. rows'[Owner(n)] = rows[Owner(n)]
  BY Told
<1>4. n.type \in {"continue", "traverse"} => Holds(n.init, Owner(n))'
  BY <1>1, Told DEF Holds, Owner, client
<1>5. DOMAIN first' = DOMAIN first /\ first' = first /\ listeners' = listeners
  BY DEF client
<1>6. FirstIds(DOMAIN first)' = FirstIds(DOMAIN first)
  BY <1>5 DEF FirstIds
<1> QED
  BY <1>2, <1>3, <1>4, <1>5, <1>6 DEF Fits, Owner, Holds

LEMMA SameIds ==
  ASSUME UNCHANGED client
  PROVE  \A s : FirstIds(s)' = FirstIds(s)
  BY DEF FirstIds, client

-------------------------------------------------------------------------------
LEMMA InitGood == Init => Good
<1> SUFFICES ASSUME Init
             PROVE  Good
  OBVIOUS
<1>1. DOMAIN first = {} /\ DOMAIN holder = {} /\ \A c \in Clients : DOMAIN listeners[c] = {}
  BY DEF Init
<1>2. Listening
  BY <1>1 DEF Init, Listening
<1>3. Walking
  BY <1>1 DEF Init, Walking
<1>4. Talking /\ Rows /\ ~erasedRead /\ ~crashed
  BY <1>1 DEF Init, Talking, Rows
<1> QED
  BY <1>2, <1>3, <1>4 DEF Good

(***************************************************************************)
(* The handlers.                                                           *)
(***************************************************************************)
LEMMA OnRequestAddApart ==
  ASSUME Good, NEW m \in inbox, OnRequestAdd(m)
  PROVE  Good'
<1> DEFINE r == Question(m, m.id)
<1>a. PICK o : o = Owner(m)
  OBVIOUS
<1>0. m \in Messages
  BY DEF Messages
<1>1. /\ o \in UnderWay /\ o \in Ops /\ m.op = o /\ m.id = first[o]
      /\ m.client \in Clients /\ m.id \in DOMAIN listeners[m.client]
      /\ rows[o] = 0
  BY <1>a, <1>0, Told DEF OnRequestAdd, Handles
<1>2. /\ DOMAIN holder' = DOMAIN holder \cup {m.id}
      /\ holder'[m.id] = [op |-> o, depth |-> 0]
      /\ \A id \in DOMAIN holder : id # m.id => holder'[id] = holder[id]
  BY <1>1 DEF OnRequestAdd, With
<1>3. UNCHANGED client /\ rows' = rows
  BY DEF OnRequestAdd
<1>4. Fits(r)'
  <2>1. /\ r.client = m.client /\ r.id = m.id /\ r.type = "traverse"
        /\ r.init = m.id
    BY DEF Question
  <2>2. Holds(r.init, o)'
    BY <1>1, <1>2, <2>1 DEF Holds
  <2>3. /\ listeners' = listeners /\ first' = first /\ Owner(r)' = o
    BY <1>a, <1>3, <2>1 DEF client, Owner
  <2> HIDE DEF r
  <2> QED
    BY <1>1, <1>3, <2>1, <2>2, <2>3 DEF Fits, Owner, Holds
<1>5. \A n \in Messages : Owner(n) # Owner(m) => Fits(n)'
  BY <1>0, <1>1, <1>2, <1>3, <1>a, OthersFit
<1>6. Answer(m, r) /\ r.client = m.client /\ r.id = m.id
      /\ r.type \in {"traverse", "ok"}
  BY DEF OnRequestAdd, Question
<1>7. Talking' /\ Listening'
  <2> HIDE DEF r
  <2> QED
    BY <1>3, <1>4, <1>5, <1>6, <1>a, AnswersTalk
<1>8. Walking'
  <2>1. m.id \in FirstIds(DOMAIN first)
    BY <1>1 DEF FirstIds, UnderWay
  <2>2. holder'[m.id] \in [op : Ops, depth : Nat]
    BY <1>1, <1>2
  <2>3. \A id \in DOMAIN holder' : /\ id \in FirstIds(DOMAIN first)
                                   /\ holder'[id] \in [op : Ops, depth : Nat]
    BY <1>2, <2>1, <2>2 DEF Good, Walking
  <2>4. first' = first /\ done' = done
    BY <1>3 DEF client
  <2> HIDE DEF r
  <2> QED
    BY <1>3, <2>3, <2>4, SameIds DEF Good, Walking
<1>9. Rows' /\ ~erasedRead' /\ ~crashed'
  BY <1>3 DEF Good, Rows, client, OnRequestAdd
<1> QED
  BY <1>7, <1>8, <1>9 DEF Good

LEMMA GoOnApart ==
  ASSUME Good, NEW m \in inbox, GoOn(m)
  PROVE  Good'
<1> DEFINE r == Question(m, m.init)
<1>a. PICK o : o = Owner(m)
  OBVIOUS
<1>0. m \in Messages
  BY DEF Messages
<1>1. /\ o \in UnderWay /\ o \in Ops /\ m.init = first[o]
      /\ m.init \in DOMAIN holder /\ holder[m.init].op = o
      /\ m.client \in Clients /\ m.id \in DOMAIN listeners[m.client]
      /\ rows[o] = 0
  BY <1>a, <1>0, Told DEF GoOn, Handles, Holds
<1>2. \A id \in DOMAIN holder : holder[id] \in [op : Ops, depth : Nat]
  BY DEF Good, Walking
<1>3. holder' = [holder EXCEPT ![m.init].depth = @ + 1]
  BY DEF GoOn
<1>4. /\ DOMAIN holder' = DOMAIN holder
      /\ \A id \in DOMAIN holder : /\ holder'[id].op = holder[id].op
                                   /\ holder'[id] \in [op : Ops, depth : Nat]
  BY <1>1, <1>2, <1>3
<1>5. UNCHANGED client /\ rows' = rows
  BY DEF GoOn
<1>6. Fits(r)'
  <2>1. /\ r.client = m.client /\ r.id = m.id /\ r.type = "traverse"
        /\ r.init = m.init
    BY DEF Question
  <2>2. Holds(r.init, o)'
    BY <1>1, <1>4, <2>1 DEF Holds
  <2>3. /\ listeners' = listeners /\ first' = first /\ Owner(r)' = o
    BY <1>a, <1>5, <2>1 DEF client, Owner
  <2> HIDE DEF r
  <2> QED
    BY <1>1, <1>5, <2>1, <2>2, <2>3 DEF Fits, Owner, Holds
<1>7. \A n \in Messages : Owner(n) # Owner(m) => Fits(n)'
  BY <1>0, <1>4, <1>5, <1>a, OthersFit
<1>8. Answer(m, r) /\ r.client = m.client /\ r.id = m.id
      /\ r.type \in {"traverse", "ok"}
  BY DEF GoOn, Question
<1>9. Talking' /\ Listening'
  <2> HIDE DEF r
  <2> QED
    BY <1>5, <1>6, <1>7, <1>8, <1>a, AnswersTalk
<1>10. Walking'
  <2>1. first' = first /\ done' = done
    BY <1>5 DEF client
  <2> HIDE DEF r
  <2> QED
    BY <1>4, <1>5, <2>1, SameIds DEF Good, Walking
<1>11. Rows' /\ ~erasedRead' /\ ~crashed'
  BY <1>5 DEF Good, Rows, client, GoOn
<1> QED
  BY <1>9, <1>10, <1>11 DEF Good

LEMMA ArriveApart ==
  ASSUME Good, NEW m \in inbox, Arrive(m)
  PROVE  Good'
<1> DEFINE r == Ok(m)
<1>a. PICK o : o = Owner(m)
  OBVIOUS
<1>0. m \in Messages
  BY DEF Messages
<1>1. /\ o \in UnderWay /\ o \in Ops
      /\ m.init \in DOMAIN holder /\ holder[m.init].op = o
      /\ m.client \in Clients /\ m.id \in DOMAIN listeners[m.client]
      /\ rows[o] = 0 /\ m.id \notin FirstIds(DOMAIN first)
  BY <1>a, <1>0, Told DEF Arrive, Handles, Holds
<1>2. m.id \notin DOMAIN holder
  BY <1>1 DEF Good, Walking
<1>3. /\ DOMAIN holder' = DOMAIN holder
      /\ \A id \in DOMAIN holder : holder'[id] = holder[id]
  BY <1>2 DEF Arrive, Without, Restrict
<1>4. rows' = [rows EXCEPT ![o] = 1] /\ UNCHANGED client
  <2>1. rows' = [rows EXCEPT ![o] = @ + 1]
    BY <1>1 DEF Arrive
  <2> QED
    BY <1>1, <2>1 DEF Arrive
<1>5. rows' \in [Ops -> {0, 1}] /\ rows'[o] = 1 /\ \A p \in Ops \ {o} : rows'[p] = rows[p]
  BY <1>1, <1>4 DEF Good, Rows
<1>6. Fits(r)'
  <2>1. r.client = m.client /\ r.id = m.id /\ r.type = "ok"
    BY DEF Ok
  <2>2. /\ listeners' = listeners /\ first' = first /\ Owner(r)' = o
    BY <1>a, <1>4, <2>1 DEF client, Owner
  <2> HIDE DEF r
  <2> QED
    BY <1>1, <1>5, <2>1, <2>2 DEF Fits, Owner
<1>7. \A n \in Messages : Owner(n) # Owner(m) => Fits(n)'
  BY <1>0, <1>3, <1>4, <1>5, <1>a, OthersFit
<1>8. Answer(m, r) /\ r.client = m.client /\ r.id = m.id
      /\ r.type \in {"traverse", "ok"}
  BY DEF Arrive, Ok
<1>9. Talking' /\ Listening'
  <2> HIDE DEF r
  <2> QED
    BY <1>4, <1>6, <1>7, <1>8, <1>a, AnswersTalk
<1>10. first' = first /\ done' = done
  BY <1>4 DEF client
<1>11. Walking'
  <2> HIDE DEF r
  <2> QED
    BY <1>3, <1>4, <1>10, SameIds DEF Good, Walking
<1>12. Rows'
  BY <1>1, <1>5, <1>10 DEF Good, Rows, Walking, UnderWay
<1>13. ~erasedRead' /\ ~crashed'
  BY <1>2 DEF Arrive, Good
<1> QED
  BY <1>9, <1>11, <1>12, <1>13 DEF Good

\* No continue misses its walk.
LEMMA NoWalkApart ==
  ASSUME Good, NEW m \in inbox, NoWalk(m)
  PROVE  Good'
<1>1. m \in Messages /\ m.type = "continue" /\ m.init \notin DOMAIN holder
  BY DEF NoWalk, Handles, Messages
<1> QED
  BY <1>1, Told DEF Holds

(***************************************************************************)
(* The client.                                                             *)
(***************************************************************************)
LEMMA RunApart ==
  ASSUME Good, NEW o \in Ops, NEW id \in Ids, Run(o, id), ~met'
  PROVE  Good'
<1>1. PICK c : c = ClientOf[o]
  OBVIOUS
<1>2. c \in Clients
  BY <1>1, IdsAssumption
<1>3. /\ o \notin DOMAIN first /\ o \notin done
      /\ id \notin FirstIds(UnderWay) /\ id \notin Listened
  BY DEF Run, UnderWay, Good, Walking
<1>4. id \notin DOMAIN listeners[c]
  BY <1>2, <1>3 DEF Listened
<1>5. /\ first' = With(first, o, id)
      /\ listeners' = [listeners EXCEPT ![c] = With(@, id, o)]
      /\ inbox' = inbox \cup {[type |-> "add", client |-> c, id |-> id, op |-> o]}
      /\ done' = done /\ outbox' = outbox /\ UNCHANGED daemon
  BY <1>1 DEF Run
<1>6. /\ DOMAIN first' = DOMAIN first \cup {o}
      /\ first'[o] = id
      /\ \A p \in DOMAIN first : first'[p] = first[p]
  BY <1>3, <1>5 DEF With
<1>7. /\ DOMAIN listeners' = Clients
      /\ DOMAIN listeners'[c] = DOMAIN listeners[c] \cup {id}
      /\ listeners'[c][id] = o
      /\ \A x \in DOMAIN listeners[c] : listeners'[c][x] = listeners[c][x]
      /\ \A d \in Clients \ {c} : listeners'[d] = listeners[d]
  BY <1>2, <1>4, <1>5 DEF With, Good, Listening
<1>8. Listening'
  <2>1. ASSUME NEW d \in Clients, NEW x \in DOMAIN listeners'[d]
        PROVE  /\ listeners'[d][x] \in DOMAIN first' \ done'
               /\ ClientOf[listeners'[d][x]] = d
    <3>1. CASE d = c /\ x = id
      BY <1>1, <1>3, <1>5, <1>6, <1>7, <3>1
    <3>2. CASE x \in DOMAIN listeners[d] /\ listeners'[d][x] = listeners[d][x]
      BY <1>5, <1>6, <3>2 DEF Good, Listening
    <3> QED
      BY <1>7, <2>1, <3>1, <3>2
  <2>2. ASSUME NEW d \in Clients, NEW x \in DOMAIN listeners'[d],
               NEW y \in DOMAIN listeners'[d], listeners'[d][y] = listeners'[d][x]
        PROVE  y = x
    <3>1. \A z \in DOMAIN listeners[d] : listeners[d][z] # o
      BY <1>3 DEF Good, Listening
    <3> QED
      BY <1>7, <2>2, <3>1 DEF Good, Listening
  <2> QED
    BY <1>7, <2>1, <2>2 DEF Listening
<1>9. /\ FirstIds(DOMAIN first)' = FirstIds(DOMAIN first) \cup {id}
  BY <1>6 DEF FirstIds
<1>10. Walking'
  <2>1. done' \subseteq DOMAIN first' /\ DOMAIN first' \subseteq Ops
    BY <1>5, <1>6 DEF Good, Walking
  <2>2. ASSUME NEW p \in DOMAIN first' \ done', NEW q \in DOMAIN first' \ done',
               first'[p] = first'[q]
        PROVE  p = q
    <3>1. \A x \in UnderWay : first[x] # id
      BY <1>3 DEF FirstIds
    <3> QED
      BY <1>5, <1>6, <2>2, <3>1 DEF Good, Walking, UnderWay
  <2>3. holder' = holder
    BY <1>5 DEF daemon
  <2> QED
    BY <1>9, <2>1, <2>2, <2>3 DEF Good, Walking
<1>11. rows' = rows /\ holder' = holder
  BY <1>5 DEF daemon
<1>12. ASSUME NEW n \in Messages
       PROVE  Fits(n)' /\ (n.client # c \/ n.id # id)
  <2>1. n.client # c \/ n.id # id
    BY <1>4, Told
  <2>2. n.id # id
    BY <1>3, Told DEF Listened
  <2>3. n.id \in DOMAIN listeners'[n.client] /\ Owner(n)' = Owner(n)
    BY <1>7, <2>1, Told DEF Owner
  <2>4. first'[Owner(n)] = first[Owner(n)]
    BY <1>6, Told DEF UnderWay
  <2> QED
    BY <1>9, <1>11, <2>1, <2>2, <2>3, <2>4, Told DEF Fits, Owner, Holds
<1>13. Talking'
  <2>1. PICK m : m = [type |-> "add", client |-> c, id |-> id, op |-> o]
    OBVIOUS
  <2>2. m.type = "add" /\ m.client = c /\ m.id = id /\ m.op = o
    BY <2>1
  <2>3. Fits(m)'
    <3>1. rows[o] = 0
      BY <1>3 DEF Good, Rows
    <3> QED
      BY <1>2, <1>6, <1>7, <1>11, <2>2, <3>1 DEF Fits
  <2>4. inbox' = inbox \cup {m} /\ outbox' = outbox
    BY <1>5, <2>1
  <2> QED
    BY <1>12, <2>2, <2>3, <2>4 DEF Good, Talking, Messages
<1>14. Rows' /\ ~erasedRead' /\ ~crashed'
  BY <1>5, <1>6 DEF Good, Rows, daemon
<1> QED
  BY <1>8, <1>10, <1>13, <1>14 DEF Good

LEMMA OnResponseAddOkApart ==
  ASSUME Good, NEW m \in outbox, OnResponseAddOk(m)
  PROVE  Good'
<1>1. PICK o : o = Owner(m)
  OBVIOUS
<1>2. PICK c : c = m.client
  OBVIOUS
<1>3. m \in Messages
  BY DEF Messages
<1>4. /\ c \in Clients /\ m.id \in DOMAIN listeners[c] /\ listeners[c][m.id] = o
      /\ o \in UnderWay /\ o \in Ops /\ rows[o] = 1 /\ ClientOf[o] = c
  BY <1>1, <1>2, <1>3, Told DEF OnResponseAddOk, Owner
<1>5. /\ done' = done \cup {o}
      /\ listeners' = [listeners EXCEPT ![c] = Without(@, m.id)]
      /\ first' = first /\ inbox' = inbox /\ UNCHANGED daemon
      /\ outbox' = outbox \ {m}
  BY <1>1, <1>2 DEF OnResponseAddOk, Owner, Heard
<1>6. /\ DOMAIN listeners' = Clients
      /\ DOMAIN listeners'[c] = DOMAIN listeners[c] \ {m.id}
      /\ \A x \in DOMAIN listeners'[c] : listeners'[c][x] = listeners[c][x]
      /\ \A d \in Clients \ {c} : listeners'[d] = listeners[d]
  BY <1>4, <1>5 DEF Without, Restrict, Good, Listening
<1>7. \A d \in Clients : \A x \in DOMAIN listeners'[d] :
        /\ x \in DOMAIN listeners[d] /\ listeners'[d][x] = listeners[d][x]
        /\ listeners[d][x] # o
  <2> SUFFICES ASSUME NEW d \in Clients, NEW x \in DOMAIN listeners'[d]
               PROVE  /\ x \in DOMAIN listeners[d]
                      /\ listeners'[d][x] = listeners[d][x]
                      /\ listeners[d][x] # o
    OBVIOUS
  <2>1. CASE d = c
    BY <1>4, <1>6, <2>1 DEF Good, Listening
  <2>2. CASE d # c
    BY <1>4, <1>6, <2>2 DEF Good, Listening
  <2> QED
    BY <2>1, <2>2
<1>8. Listening'
  BY <1>5, <1>6, <1>7 DEF Good, Listening
<1>9. rows' = rows /\ holder' = holder
  BY <1>5 DEF daemon
<1>10. FirstIds(DOMAIN first)' = FirstIds(DOMAIN first)
  BY <1>5 DEF FirstIds
<1>11. Walking'
  BY <1>4, <1>5, <1>9, <1>10 DEF Good, Walking, UnderWay
<1>12. ASSUME NEW n \in Messages'
       PROVE  n \in Messages /\ Fits(n)'
  <2>1. n \in Messages /\ n # m
    BY <1>5 DEF Good, Talking, Messages
  <2>2. Owner(n) # o
    BY <1>1, <1>3, <2>1, OneEach
  <2>3. n.id \in DOMAIN listeners'[n.client] /\ Owner(n)' = Owner(n)
    BY <1>4, <1>6, <2>1, <2>2, Told DEF Owner
  <2> QED
    BY <1>5, <1>9, <1>10, <2>1, <2>3, Told DEF Fits, Owner, Holds
<1>13. Talking'
  BY <1>5, <1>12 DEF Good, Talking, Messages
<1>14. Rows' /\ ~erasedRead' /\ ~crashed'
  BY <1>4, <1>5 DEF Good, Rows, daemon
<1> QED
  BY <1>8, <1>11, <1>13, <1>14 DEF Good

LEMMA OnResponseAddTraverseApart ==
  ASSUME Good, NEW m \in outbox, NEW id \in Ids, OnResponseAddTraverse(m, id), ~met'
  PROVE  Good'
<1>1. PICK o : o = Owner(m)
  OBVIOUS
<1>2. PICK c : c = m.client
  OBVIOUS
<1>3. m \in Messages
  BY DEF Messages
<1>4. /\ c \in Clients /\ m.id \in DOMAIN listeners[c] /\ listeners[c][m.id] = o
      /\ o \in UnderWay /\ o \in Ops /\ rows[o] = 0 /\ ClientOf[o] = c
      /\ m.init = first[o] /\ Holds(m.init, o)
  BY <1>1, <1>2, <1>3, Told DEF OnResponseAddTraverse, Owner
<1>5. id \notin FirstIds(DOMAIN first) /\ id \notin DOMAIN Without(listeners[c], m.id)
  BY <1>2 DEF OnResponseAddTraverse
<1>6. id \notin DOMAIN listeners[c] \ {m.id}
  BY <1>5, Removed
<1>7. /\ listeners' = [listeners EXCEPT ![c] = With(Without(@, m.id), id, o)]
      /\ inbox' = inbox \cup
           {[type |-> "continue", client |-> c, id |-> id, init |-> m.init]}
      /\ outbox' = outbox \ {m}
      /\ first' = first /\ done' = done /\ UNCHANGED daemon
  BY <1>1, <1>2, <1>4 DEF OnResponseAddTraverse, Owner, Heard
<1>8. /\ DOMAIN listeners' = Clients
      /\ DOMAIN listeners'[c] = (DOMAIN listeners[c] \ {m.id}) \cup {id}
      /\ listeners'[c][id] = o
      /\ \A x \in DOMAIN listeners[c] \ {m.id} : listeners'[c][x] = listeners[c][x]
      /\ \A d \in Clients \ {c} : listeners'[d] = listeners[d]
  BY <1>4, <1>6, <1>7 DEF With, Without, Restrict, Good, Listening
<1>9. Listening'
  <2>1. ASSUME NEW d \in Clients, NEW x \in DOMAIN listeners'[d]
        PROVE  /\ listeners'[d][x] \in DOMAIN first' \ done'
               /\ ClientOf[listeners'[d][x]] = d
    <3>1. CASE d = c /\ x = id
      BY <1>4, <1>7, <1>8, <3>1 DEF UnderWay
    <3>2. CASE x \in DOMAIN listeners[d] /\ listeners'[d][x] = listeners[d][x]
      BY <1>7, <3>2 DEF Good, Listening
    <3> QED
      BY <1>8, <2>1, <3>1, <3>2
  <2>2. ASSUME NEW d \in Clients, NEW x \in DOMAIN listeners'[d],
               NEW y \in DOMAIN listeners'[d], listeners'[d][y] = listeners'[d][x]
        PROVE  y = x
    <3>1. \A z \in DOMAIN listeners[c] \ {m.id} : listeners[c][z] # o
      BY <1>4 DEF Good, Listening
    <3>2. CASE d = c
      BY <1>4, <1>8, <2>2, <3>1, <3>2 DEF Good, Listening
    <3>3. CASE d # c
      BY <1>8, <2>2, <3>3 DEF Good, Listening
    <3> QED
      BY <3>2, <3>3
  <2> QED
    BY <1>8, <2>1, <2>2 DEF Listening
<1>10. rows' = rows /\ holder' = holder
  BY <1>7 DEF daemon
<1>11. FirstIds(DOMAIN first)' = FirstIds(DOMAIN first)
  BY <1>7 DEF FirstIds
<1>12. Walking'
  BY <1>7, <1>10, <1>11 DEF Good, Walking
<1>13. ASSUME NEW n \in Messages, n # m
       PROVE  Fits(n)' /\ (n.client # c \/ n.id # id)
  <2>1. Owner(n) # o
    BY <1>1, <1>3, <1>13, OneEach
  <2>2. n.client # c \/ n.id # m.id
    BY <1>2, <1>3, <1>13 DEF Good, Talking, Messages
  <2>3. n.client # c \/ n.id # id
    BY <1>6, <2>2, Told
  <2>4. n.id \in DOMAIN listeners'[n.client] /\ Owner(n)' = Owner(n)
    BY <1>4, <1>8, <2>1, Told DEF Owner
  <2> QED
    BY <1>7, <1>10, <1>11, <2>4, <2>3, Told DEF Fits, Owner, Holds
<1>14. Talking'
  <2>1. PICK q : q = [type |-> "continue", client |-> c, id |-> id, init |-> m.init]
    OBVIOUS
  <2>2. q.type = "continue" /\ q.client = c /\ q.id = id /\ q.init = m.init
    BY <2>1
  <2>3. Fits(q)'
    BY <1>4, <1>5, <1>7, <1>8, <1>10, <1>11, <2>2 DEF Fits, Holds
  <2>4. inbox' = inbox \cup {q} /\ outbox' = outbox \ {m}
    BY <1>7, <2>1
  <2>5. m \notin inbox
    BY DEF Good, Talking, OnResponseAddTraverse
  <2> QED
    BY <1>13, <2>2, <2>3, <2>4, <2>5 DEF Good, Talking, Messages
<1>15. Rows' /\ ~erasedRead' /\ ~crashed'
  BY <1>7 DEF Good, Rows, daemon
<1> QED
  BY <1>9, <1>12, <1>14, <1>15 DEF Good

\* Every message has its listener.
LEMMA UnheardApart ==
  ASSUME Good, NEW m \in outbox, Unheard(m)
  PROVE  Good'
  BY Told DEF Unheard, Messages

-------------------------------------------------------------------------------
LEMMA Step == Apart /\ [Next]_vars => Apart'
<1> SUFFICES ASSUME Apart, [Next]_vars, ~met'
             PROVE  Good'
  BY DEF Apart, Good
<1>1. ~met
  BY DEF Next, Run, OnResponseAddOk, OnResponseAddTraverse, Unheard, OnRequestAdd,
         GoOn, Arrive, NoWalk, vars, client
<1>2. Good
  BY <1>1 DEF Apart, Good
<1>3. ASSUME NEW o \in Ops, NEW id \in Ids, Run(o, id)
      PROVE  Good'
  BY <1>2, <1>3, RunApart
<1>4. ASSUME NEW m \in outbox, NEW id \in Ids, OnResponseAddTraverse(m, id)
      PROVE  Good'
  BY <1>2, <1>4, OnResponseAddTraverseApart
<1>5. ASSUME NEW m \in outbox, OnResponseAddOk(m) \/ Unheard(m)
      PROVE  Good'
  BY <1>2, <1>5, OnResponseAddOkApart, UnheardApart
<1>6. ASSUME NEW m \in inbox,
             OnRequestAdd(m) \/ GoOn(m) \/ Arrive(m) \/ NoWalk(m)
      PROVE  Good'
  BY <1>2, <1>6, OnRequestAddApart, GoOnApart, ArriveApart, NoWalkApart
<1>7. CASE UNCHANGED vars
  BY <1>2, <1>7 DEF vars, client, daemon, Good, Listening, Walking, Talking, Rows,
                    Fits, Holds, FirstIds
<1> QED
  BY <1>3, <1>4, <1>6, <1>7, <1>5 DEF Next

(***************************************************************************)
(* Until an id is drawn that names an insert under way, a question of the  *)
(* client's own or a walk, every message leads to the walk and to the row  *)
(* of the one insert it was sent for (test.cpp 146-154, 177-194, Worker.cpp *)
(* 184, 225, 271, BTree.cpp 93-107).                                       *)
(***************************************************************************)
THEOREM KeptApart == Spec => []Apart
<1>1. Init => Apart
  BY InitGood DEF Apart, Good
<1> QED
  BY <1>1, Step, PTL DEF Spec

(***************************************************************************)
(* Until then no insert has two rows, and every insert that is reported a  *)
(* success has one (test.cpp 146, 184, Worker.cpp 271).                    *)
(***************************************************************************)
THEOREM RowsOwn == Spec => []OwnRows
<1>1. Apart => OwnRows
  <2> SUFFICES ASSUME Apart, ~met, NEW o \in Ops
               PROVE  rows[o] =< 1 /\ (o \in done => rows[o] = 1)
    BY DEF OwnRows
  <2>1. rows[o] \in {0, 1}
    BY DEF Apart, Rows
  <2> QED
    BY <2>1 DEF Apart, Rows
<1> QED
  BY <1>1, KeptApart, PTL

(***************************************************************************)
(* Until then no continue misses its walk, and removeTraverse does not     *)
(* read the iterator it has erased (BTree.cpp 104-106).                    *)
(***************************************************************************)
THEOREM WalksKept == Spec => []WalksStay
<1>1. Apart => WalksStay
  BY DEF Apart, WalksStay
<1> QED
  BY <1>1, KeptApart, PTL
===============================================================================
