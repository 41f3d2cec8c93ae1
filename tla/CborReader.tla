------------------------------ MODULE CborReader ------------------------------
(***************************************************************************)
(* CborReader::Run over CborInput (src/lib/Cbor.cpp).  The eleven states   *)
(* of the reader are a phase and the major type of the item it is in:      *)
(*   type             STATE_TYPE                                           *)
(*   size 0..7        PINT, NINT, BYTES_SIZE, STRING_SIZE, ARRAY, MAP,     *)
(*                    TAG, SPECIAL: the value follows in currentLength     *)
(*                    bytes                                                *)
(*   data 2, 3        BYTES_DATA, STRING_DATA                              *)
(* One action is one turn of the loop, with the callback it makes.         *)
(***************************************************************************)
EXTENDS Cbor

VARIABLES data,           \* the input
          offset,         \* bytes consumed
          state,          \* phase and major type
          currentLength,  \* bytes the next turn asks for
          callback        \* the listener call of the last turn

rvars == <<data, offset, state, currentLength, callback>>

NoCall == [on |-> "nothing", arg |-> 0]
Call(on, arg) == [on |-> on, arg |-> arg]

Type == [phase |-> "type", major |-> 0]

\* The listener method of each major type.
Listener == [major \in 0..7 |->
  <<"integer", "integer", "bytes", "string", "array", "map", "tag", "special">>
    [major + 1]]

\* The int (unsigned for a tag) the method is handed.  The negation of the
\* least int, which no int holds, wraps to itself.
Argument(major, v) == CASE major = 1          -> AsInt(AsUInt(-AsInt(v)))
                        [] major = 6          -> v
                        [] major \notin {1, 6} -> AsInt(v)

HasBytes(n) == Len(data) - offset >= n

NextBytes(n) == SubSeq(data, offset + 1, offset + n)

Begin(input) ==
  /\ data = input
  /\ offset = 0
  /\ state = Type
  /\ currentLength = 0
  /\ callback = NoCall

\* A head byte.  Chunks go on with their data, other small values are told.
ReadType ==
  /\ state = Type
  /\ HasBytes(1)
  /\ offset' = offset + 1
  /\ LET major == data[offset + 1] \div Minors
         minor == data[offset + 1] % Minors
     IN  \/ /\ minor < Direct /\ major \notin {2, 3}
            /\ callback' = Call(Listener[major], Argument(major, minor))
            /\ UNCHANGED <<state, currentLength>>
         \/ /\ minor < Direct /\ major \in {2, 3}
            /\ state' = [phase |-> "data", major |-> major]
            /\ currentLength' = minor
            /\ callback' = NoCall
         \/ \E n \in Widths :
              /\ minor = WidthCode(n)
              /\ state' = [phase |-> "size", major |-> major]
              /\ currentLength' = n
              /\ callback' = NoCall
         \/ /\ minor > WidthCode(8)
            /\ callback' = Call("error", 0)
            /\ UNCHANGED <<state, currentLength>>
  /\ UNCHANGED data

\* A value of one, two or four bytes: a length, or something to tell.
ReadValue ==
  /\ state.phase = "size"
  /\ currentLength # 8
  /\ HasBytes(currentLength)
  /\ offset' = offset + currentLength
  /\ LET v == Number(NextBytes(currentLength))
     IN  IF state.major \in {2, 3}
         THEN /\ currentLength' = AsInt(v)
              /\ state' = [state EXCEPT !.phase = "data"]
              /\ callback' = NoCall
         ELSE /\ callback' = Call(Listener[state.major], Argument(state.major, v))
              /\ state' = Type
              /\ currentLength' = IF state.major \in {4, 5} /\ currentLength = 2
                                  THEN v ELSE currentLength
  /\ UNCHANGED data

\* A value of eight bytes is never told.  A positive number, a tag and a
\* special are skipped, an array and a map are forgotten with their bytes
\* unread, a chunk is taken for one of LongChunk bytes, and a negative
\* number leaves the reader where it is.
LongChunk == 123

\* Mutant: a positive number stays in its state like a negative one.
ReadLong_NoNumber ==
  /\ state.phase = "size"
  /\ currentLength = 8
  /\ HasBytes(8)
  /\ \/ /\ state.major \in {6, 7}
        /\ offset' = offset + 8
        /\ state' = Type
        /\ UNCHANGED currentLength
     \/ /\ state.major \in {0, 1}
        /\ UNCHANGED <<offset, state, currentLength>>
     \/ /\ state.major \in {2, 3}
        /\ offset' = offset + 8
        /\ state' = [state EXCEPT !.phase = "data"]
        /\ currentLength' = LongChunk
     \/ /\ state.major \in {4, 5}
        /\ state' = Type
        /\ UNCHANGED <<offset, currentLength>>
  /\ callback' = NoCall
  /\ UNCHANGED data

ReadLong ==
  /\ state.phase = "size"
  /\ currentLength = 8
  /\ HasBytes(8)
  /\ \/ /\ state.major \in {0, 6, 7}
        /\ offset' = offset + 8
        /\ state' = Type
        /\ UNCHANGED currentLength
     \/ /\ state.major = 1
        /\ UNCHANGED <<offset, state, currentLength>>
     \/ /\ state.major \in {2, 3}
        /\ offset' = offset + 8
        /\ state' = [state EXCEPT !.phase = "data"]
        /\ currentLength' = LongChunk
     \/ /\ state.major \in {4, 5}
        /\ state' = Type
        /\ UNCHANGED <<offset, currentLength>>
  /\ callback' = NoCall
  /\ UNCHANGED data

\* A size above IntMax is a negative int: the allocation throws, and nothing
\* in the program catches it.
Throws == state.phase = "data" /\ currentLength < 0

ReadData ==
  /\ state.phase = "data"
  /\ ~Throws
  /\ HasBytes(currentLength)
  /\ offset' = offset + currentLength
  /\ state' = Type
  /\ callback' = Call(Listener[state.major], NextBytes(currentLength))
  /\ UNCHANGED <<data, currentLength>>

Turn == ReadType \/ ReadValue \/ ReadLong \/ ReadData

\* The loop ends where the input has fewer bytes than the next turn needs.
Returned == ~HasBytes(IF state = Type THEN 1 ELSE currentLength)
===============================================================================
