----------------------------- MODULE ObjectParser -----------------------------
(***************************************************************************)
(* ObjectParser (src/lib/objects/ObjectParser.cpp), the listener of the    *)
(* reader that puts the messages together.  Its states keep the names of   *)
(* the enumeration without their prefix.  The object under construction is *)
(* a record that gains a field per item; the handler of a finished message *)
(* is called with that record and the request id of the wrapper.           *)
(***************************************************************************)
EXTENDS Cbor

VARIABLES pstate,            \* state
          elements,          \* map entries still to come
          currentKey,
          currentObject,
          currentRequestId,
          handled            \* the calls of the ObjectListener, errors included

pvars == <<pstate, elements, currentKey, currentObject, currentRequestId, handled>>

AnyArg == -1

\* What the callbacks do to the state: where, on what, with which argument
\* (a tag, or the size of an array or a map), whereto.
Moves ==
  { <<"INIT", "tag", 1000, "REQUEST_WRAPPER_ARRAY">>,
    <<"INIT", "tag", 2000, "RESPONSE_WRAPPER_ARRAY">>,
    <<"REQUEST_WRAPPER_ARRAY", "array", 2, "REQUEST_WRAPPER_ID">>,
    <<"REQUEST_WRAPPER_ID", "integer", AnyArg, "REQUEST_WRAPPER_BODY">>,
    <<"REQUEST_WRAPPER_BODY", "tag", 1100, "REQUEST_GET_ARRAY">>,
    <<"REQUEST_WRAPPER_BODY", "tag", 1200, "REQUEST_ADD_ARRAY">>,
    <<"REQUEST_WRAPPER_BODY", "tag", 3100, "REQUEST_ADD_CONTINUE_ARRAY">>,
    <<"REQUEST_GET_ARRAY", "array", 3, "REQUEST_GET_DATABASE">>,
    <<"REQUEST_GET_DATABASE", "string", AnyArg, "REQUEST_GET_TABLE">>,
    <<"REQUEST_GET_TABLE", "string", AnyArg, "REQUEST_GET_PK">>,
    <<"REQUEST_GET_PK", "integer", AnyArg, "INIT">>,
    <<"REQUEST_ADD_ARRAY", "array", 3, "REQUEST_ADD_DATABASE">>,
    <<"REQUEST_ADD_DATABASE", "string", AnyArg, "REQUEST_ADD_TABLE">>,
    <<"REQUEST_ADD_TABLE", "string", AnyArg, "REQUEST_ADD_ROW_MAP">>,
    <<"REQUEST_ADD_ROW_MAP", "map", AnyArg, "REQUEST_ADD_ROW_MAP_KEY">>,
    <<"REQUEST_ADD_ROW_MAP_KEY", "string", AnyArg, "REQUEST_ADD_ROW_MAP_VALUE">>,
    <<"REQUEST_ADD_ROW_MAP_VALUE", "string", AnyArg, "REQUEST_ADD_ROW_MAP_KEY">>,
    <<"REQUEST_ADD_CONTINUE_ARRAY", "array", 2, "REQUEST_ADD_CONTINUE_INIT_REQUEST_ID">>,
    <<"REQUEST_ADD_CONTINUE_INIT_REQUEST_ID", "integer", AnyArg,
      "REQUEST_ADD_CONTINUE_COMPARE_RESULT">>,
    <<"REQUEST_ADD_CONTINUE_COMPARE_RESULT", "integer", AnyArg, "INIT">>,
    <<"RESPONSE_WRAPPER_ARRAY", "array", 2, "RESPONSE_WRAPPER_ID">>,
    <<"RESPONSE_WRAPPER_ID", "integer", AnyArg, "RESPONSE_WRAPPER_BODY">>,
    <<"RESPONSE_WRAPPER_BODY", "tag", 2100, "RESPONSE_GET_OK_MAP">>,
    <<"RESPONSE_WRAPPER_BODY", "tag", 2101, "RESPONSE_GET_EMPTY_MAP">>,
    <<"RESPONSE_WRAPPER_BODY", "tag", 2200, "RESPONSE_ADD_OK_MAP">>,
    <<"RESPONSE_WRAPPER_BODY", "tag", 2201, "RESPONSE_ADD_TRAVERSE_ARRAY">>,
    <<"RESPONSE_GET_OK_MAP", "map", AnyArg, "RESPONSE_GET_OK_MAP_KEY">>,
    <<"RESPONSE_GET_OK_MAP_KEY", "string", AnyArg, "RESPONSE_GET_OK_MAP_VALUE">>,
    <<"RESPONSE_GET_OK_MAP_VALUE", "string", AnyArg, "RESPONSE_GET_OK_MAP_KEY">>,
    <<"RESPONSE_GET_EMPTY_MAP", "map", 0, "INIT">>,
    <<"RESPONSE_ADD_OK_MAP", "map", 0, "INIT">>,
    <<"RESPONSE_ADD_TRAVERSE_ARRAY", "array", 2, "RESPONSE_ADD_TRAVERSE_INIT_REQUEST_ID">>,
    <<"RESPONSE_ADD_TRAVERSE_INIT_REQUEST_ID", "integer", AnyArg,
      "RESPONSE_ADD_TRAVERSE_CIPHERTEXT">>,
    <<"RESPONSE_ADD_TRAVERSE_CIPHERTEXT", "bytes", AnyArg, "INIT">> }

Keys == {"REQUEST_ADD_ROW_MAP_KEY", "RESPONSE_GET_OK_MAP_KEY"}
Values == {"REQUEST_ADD_ROW_MAP_VALUE", "RESPONSE_GET_OK_MAP_VALUE"}
WrapperIds == {"REQUEST_WRAPPER_ID", "RESPONSE_WRAPPER_ID"}

\* The states that fill a field of the object, and the field.
Fields ==
  { <<"REQUEST_GET_DATABASE", "database">>, <<"REQUEST_ADD_DATABASE", "database">>,
    <<"REQUEST_GET_TABLE", "table">>, <<"REQUEST_ADD_TABLE", "table">>,
    <<"REQUEST_GET_PK", "pk">>,
    <<"REQUEST_ADD_CONTINUE_INIT_REQUEST_ID", "initRequestId">>,
    <<"REQUEST_ADD_CONTINUE_COMPARE_RESULT", "compareResult">>,
    <<"RESPONSE_ADD_TRAVERSE_INIT_REQUEST_ID", "initRequestId">>,
    <<"RESPONSE_ADD_TRAVERSE_CIPHERTEXT", "ciphertext">> }

\* The object whose fields the items after a tag fill.
Started(tag) ==
  CASE tag = 1100 -> [kind |-> "get"]
    [] tag = 1200 -> [kind |-> "add", row |-> <<>>]
    [] tag = 3100 -> [kind |-> "continue"]
    [] tag = 2201 -> [kind |-> "traverse"]
    [] tag \notin {1100, 1200, 3100, 2201} -> currentObject

\* f with y at x, a new place or one it has.
With(f, x, y) == [z \in DOMAIN f \cup {x} |-> IF z = x THEN y ELSE f[z]]

\* Run sets the state and nothing else.
PInit ==
  /\ pstate = "INIT"
  /\ elements = 0
  /\ currentKey = <<>>
  /\ currentObject = <<>>
  /\ currentRequestId = 0
  /\ handled = <<>>

-------------------------------------------------------------------------------
Expected(on, arg) ==
  {m \in Moves : m[1] = pstate /\ m[2] = on /\ (m[3] = AnyArg \/ m[3] = arg)}

Go(on, arg) == \E m \in Expected(on, arg) : pstate' = m[4]

\* The handler of the finished message.
Handle(object) == handled' = Append(handled, With(object, "id", currentRequestId))

OnTag(tag) ==
  /\ Go("tag", tag)
  /\ currentObject' = Started(tag)
  /\ UNCHANGED <<elements, currentKey, currentRequestId, handled>>

OnArray(size) ==
  /\ Go("array", size)
  /\ UNCHANGED <<elements, currentKey, currentObject, currentRequestId, handled>>

\* OnInteger of the wrapper's id, cast to unsigned int.
OnWrapperId(value) ==
  /\ pstate \in WrapperIds
  /\ Go("integer", value)
  /\ currentRequestId' = AsUInt(value)
  /\ UNCHANGED <<elements, currentKey, currentObject, handled>>

\* OnInteger, OnString and OnBytes of a field; the last field calls the handler.
OnField(on, arg) ==
  /\ Go(on, arg)
  /\ \E f \in Fields :
       /\ f[1] = pstate
       /\ currentObject' = With(currentObject, f[2],
                               IF f[2] = "initRequestId" THEN AsUInt(arg) ELSE arg)
  /\ IF pstate' = "INIT" THEN Handle(currentObject') ELSE UNCHANGED handled
  /\ UNCHANGED <<elements, currentKey, currentRequestId>>

\* OnMap of a row: even one without entries waits for a key.
OnRow(size) ==
  /\ Go("map", size)
  /\ pstate' \in Keys
  /\ elements' = size
  /\ currentObject' = IF pstate = "RESPONSE_GET_OK_MAP"
                      THEN [kind |-> "getOk", row |-> <<>>] ELSE currentObject
  /\ UNCHANGED <<currentKey, currentRequestId, handled>>

\* OnMap of a response without a body.
OnNoRow(size) ==
  /\ Go("map", size)
  /\ pstate' = "INIT"
  /\ Handle([kind |-> IF pstate = "RESPONSE_ADD_OK_MAP" THEN "addOk" ELSE "getEmpty"])
  /\ UNCHANGED <<elements, currentKey, currentObject, currentRequestId>>

OnKey(str) ==
  /\ pstate \in Keys
  /\ Go("string", str)
  /\ currentKey' = str
  /\ UNCHANGED <<elements, currentObject, currentRequestId, handled>>

\* Mutant: the entries are counted to one.
OnValue_OneLeft(str) ==
  /\ pstate \in Values
  /\ elements' = elements - 1
  /\ currentObject' = [currentObject EXCEPT !.row = With(@, currentKey, str)]
  /\ IF elements' =< 1
     THEN pstate' = "INIT" /\ Handle(currentObject')
     ELSE Go("string", str) /\ UNCHANGED handled
  /\ UNCHANGED <<currentKey, currentRequestId>>

\* The value of the last entry calls the handler.
OnValue(str) ==
  /\ pstate \in Values
  /\ elements' = elements - 1
  /\ currentObject' = [currentObject EXCEPT !.row = With(@, currentKey, str)]
  /\ IF elements' = 0
     THEN pstate' = "INIT" /\ Handle(currentObject')
     ELSE Go("string", str) /\ UNCHANGED handled
  /\ UNCHANGED <<currentKey, currentRequestId>>

\* Anything else is an error the listener is told of; the state stays.
OnUnexpected(on, arg) ==
  /\ Expected(on, arg) = {}
  /\ handled' = Append(handled, [kind |-> "error"])
  /\ UNCHANGED <<pstate, elements, currentKey, currentObject, currentRequestId>>

\* One callback of the reader.
On(on, arg) ==
  \/ on = "tag" /\ OnTag(arg)
  \/ on = "array" /\ OnArray(arg)
  \/ on = "integer" /\ OnWrapperId(arg)
  \/ OnField(on, arg)
  \/ on = "map" /\ (OnRow(arg) \/ OnNoRow(arg))
  \/ on = "string" /\ (OnKey(arg) \/ OnValue(arg))
  \/ OnUnexpected(on, arg)
===============================================================================
