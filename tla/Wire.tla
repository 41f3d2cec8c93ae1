--------------------------------- MODULE Wire ---------------------------------
(***************************************************************************)
(* A message on its way: an object of src/lib/objects is serialized into   *)
(* an output buffer of fixed capacity, the bytes travel, and the other     *)
(* side runs an ObjectParser over a CborReader on them.                    *)
(***************************************************************************)
EXTENDS CborStream, ObjectParser, FiniteSets, SequencesExt

CONSTANTS Messages,    \* the requests and responses sent
          Inputs       \* other sequences of writer calls

VARIABLE message       \* the message sent, or NoMessage

ASSUME CapacitiesAssumption == Capacities \subseteq Nat

\* The buffer is filled with calls of the writer.
ASSUME InputsAssumption == \A input \in Inputs : input \in Seq(WriterCalls)

\* A row is a std::map of strings.
IsRow(row) ==
  /\ DOMAIN row \subseteq Chunk
  /\ row \in [DOMAIN row -> Chunk]
  /\ IsFiniteSet(DOMAIN row)
  /\ Cardinality(DOMAIN row) =< IntMax

UInt == 0..UIntMax

\* The objects of src/lib/objects with the id of their wrapper: ids are
\* unsigned, a key is an unsigned long long, the result of a comparison an int.
IsMessage(m) ==
  \/ m \in [kind : {"get"}, id : UInt, database : Chunk, table : Chunk, pk : Nat]
  \/ /\ m.kind = "add" /\ IsRow(m.row)
     /\ m \in [kind : {"add"}, id : UInt, database : Chunk, table : Chunk,
              row : {m.row}]
  \/ m \in [kind : {"continue"}, id : UInt, initRequestId : UInt,
           compareResult : -(IntMax + 1)..IntMax]
  \/ /\ m.kind = "getOk" /\ IsRow(m.row)
     /\ m \in [kind : {"getOk"}, id : UInt, row : {m.row}]
  \/ m \in [kind : {"getEmpty", "addOk", "addError"}, id : UInt]
  \/ m \in [kind : {"traverse"}, id : UInt, initRequestId : UInt, ciphertext : Chunk]

ASSUME MessagesAssumption == \A m \in Messages : IsMessage(m)

vars == <<svars, pvars, message>>

NoMessage == [kind |-> "none"]

-------------------------------------------------------------------------------
\* A row is a std::map: a function of its keys, written in some order.
RowItems(row) ==
  LET keys == SetToSeq(DOMAIN row)
  IN  [k \in 1..2 * Len(keys) |->
        Item("string", IF k % 2 = 1 THEN keys[(k + 1) \div 2]
                                      ELSE row[keys[k \div 2]])]

Map(row) == <<Item("map", Cardinality(DOMAIN row))>> \o RowItems(row)

\* Serialize of each request and of the responses, without the wrapper.
GetBody(m) ==
  <<Item("tag", 1100), Item("array", 3), Item("string", m.database),
    Item("string", m.table), Item("long", m.pk)>>

AddBody(m) ==
  <<Item("tag", 1200), Item("array", 3), Item("string", m.database),
    Item("string", m.table)>> \o Map(m.row)

ContinueBody(m) ==
  <<Item("tag", 3100), Item("array", 2), Item("int", m.initRequestId),
    Item("int", m.compareResult)>>

ResponseBody(m) ==
  CASE m.kind = "getOk"    -> <<Item("tag", 2100)>> \o Map(m.row)
    [] m.kind = "getEmpty" -> <<Item("tag", 2101), Item("map", 0)>>
    [] m.kind = "addOk"    -> <<Item("tag", 2200), Item("map", 0)>>
    [] m.kind = "traverse" ->
         <<Item("tag", 2201), Item("array", 2),
           Item("int", m.initRequestId), Item("bytes", m.ciphertext)>>

\* No class writes this one: Tags.h reserves its tag, the parser knows it not.
AddError == <<Item("tag", 2202), Item("map", 0)>>

Body(m) == CASE m.kind = "get"      -> GetBody(m)
             [] m.kind = "add"      -> AddBody(m)
             [] m.kind = "continue" -> ContinueBody(m)
             [] m.kind = "addError" -> AddError
             [] OTHER               -> ResponseBody(m)

IsRequest(m) == m.kind \in {"get", "add", "continue"}

\* RequestWrapper::Serialize and ResponseWrapper::Serialize.
Serialize(m) ==
  <<Item("tag", IF IsRequest(m) THEN 1000 ELSE 2000), Item("array", 2),
    Item("int", m.id)>> \o Body(m)

-------------------------------------------------------------------------------
Init ==
  /\ \/ message \in Messages /\ Written(Serialize(message))
     \/ message = NoMessage /\ \E input \in Inputs : Written(input)
  /\ PInit

\* One turn of the reader, and what the parser does with the callback.
Step ==
  /\ Hear
  /\ IF callback'.on = "nothing" THEN UNCHANGED pvars
                                 ELSE On(callback'.on, callback'.arg)
  /\ UNCHANGED message

Spec == Init /\ [][Step]_vars /\ WF_vars(Step)

-------------------------------------------------------------------------------
TypeOK ==
  /\ pstate \in {m[1] : m \in Moves}
  /\ elements \in Int
  /\ currentRequestId \in UInt
  /\ StreamTypeOK

\* The messages the wire can carry: they fit the buffer, a row has a column,
\* and the key of a get is not one writeInt(unsigned long long) cuts to one
\* byte or the reader skips.
Carried(m) ==
  /\ m.kind # "addError"
  /\ BytesNeeded(items) =< capacity
  /\ m.kind \in {"add", "getOk"} => DOMAIN m.row # {}
  /\ m.kind = "get" => \/ m.pk < Base
                       \/ m.pk >= Base * Base /\ m.pk =< UIntMax

\* The key of a get above INT_MAX arrives as the negative int Database::get
\* looks for.
Arrived(m) == IF m.kind = "get" THEN [m EXCEPT !.pk = AsInt(@)] ELSE m

\* Of a message that was sent the listener is handed nothing, or that message:
\* a buffer that is too small loses it and makes no other of it.  For a tag the
\* parser does not know it is told of errors alone.
NothingElseHandled ==
  message # NoMessage =>
    IF message.kind = "addError"
    THEN \A k \in DOMAIN handled : handled[k].kind = "error"
    ELSE handled \in {<<>>, <<Arrived(message)>>}

\* When the reader has returned, the message was handled if the wire carries
\* it, and only then.
HandledIfCarried ==
  Returned /\ message # NoMessage =>
    (handled = <<Arrived(message)>> <=> Carried(message))

\* The reader comes back from every message, so that the worker can receive
\* the next one; of other input only a negative number of eight bytes keeps it
\* (Cbor.cpp:273) and only a chunk of a negative size ends the program.
RunReturns ==
  <>[](Returned \/ (message = NoMessage /\ (AtLongNegative \/ Throws)))
===============================================================================
