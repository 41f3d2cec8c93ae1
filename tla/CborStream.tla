------------------------------ MODULE CborStream ------------------------------
(***************************************************************************)
(* A writer fills one buffer, a reader is run over it and tells a listener *)
(* what it finds.                                                          *)
(***************************************************************************)
EXTENDS CborReader, CborWriter

CONSTANT Capacities   \* the capacities of the output buffer

VARIABLES items, capacity, heard   \* heard: the calls of the listener so far

svars == <<rvars, items, capacity, heard>>

\* The input is written, and the reader begins.
Written(input) ==
  /\ items = input
  /\ capacity \in Capacities
  /\ heard = <<>>
  /\ Begin(WriteAll(input, capacity))

\* One turn of the reader, and what the listener is told in it.
Hear ==
  /\ Turn
  /\ heard' = IF callback'.on = "nothing" THEN heard ELSE Append(heard, callback')
  /\ UNCHANGED <<items, capacity>>

-------------------------------------------------------------------------------
\* What a listener must hear of an item.
Told(item) ==
  CASE item.op \in {"int", "long"} -> Call("integer", AsInt(AsUInt(item.arg)))
    [] item.op = "tag"             -> Call("tag", item.arg)
    [] OTHER                       -> Call(item.op, item.arg)

\* The 64-bit calls that lose bytes, or that the reader skips.
Lossy(item) ==
  /\ item.op = "long"
  /\ \/ Value(item) >= Base /\ Value(item) < Base * Base
     \/ Value(item) > UIntMax

\* None of the first k items is lossy.
SoundTo(k) == \A j \in 1..k : ~Lossy(items[j])

StreamTypeOK ==
  /\ offset \in 0..Len(data) /\ currentLength \in Int
  /\ state \in [phase : {"type", "size", "data"}, major : 0..7]
  /\ Len(data) =< capacity
  /\ \A k \in DOMAIN data : data[k] \in Byte

\* A buffer that is too small cuts the tail: the listener hears the written
\* items in order from the first, none of them changed, and nothing after the
\* last, up to an item that loses bytes (Cbor.cpp:446-460 drop what does not
\* fit, item by item, and the reader sees the rest).
HeardInOrder ==
  /\ \A k \in DOMAIN heard \cap DOMAIN items :
       SoundTo(k) => heard[k] = Told(items[k])
  /\ SoundTo(Len(items)) => Len(heard) =< Len(items)

\* Of a buffer that is large enough every item is heard once the reader has
\* returned, whatever the width of its value, up to one that loses bytes.
AllHeard ==
  Returned /\ BytesNeeded(items) =< capacity
    => \A k \in DOMAIN items :
         SoundTo(k) => k \in DOMAIN heard /\ heard[k] = Told(items[k])

\* Where a negative number of eight bytes keeps the reader turning for ever.
AtLongNegative ==
  /\ state = [phase |-> "size", major |-> 1]
  /\ currentLength = 8
  /\ HasBytes(8)
===============================================================================
