------------------------------ MODULE CborWriter ------------------------------
(***************************************************************************)
(* CborWriter over CborOutput (src/lib/Cbor.cpp).  An item is one call of  *)
(* the writer: op names the method, arg its argument; a string or a      *)
(* chunk of bytes is a sequence of bytes.  The output buffer is the        *)
(* sequence of bytes put so far; its capacity is fixed when it is made,    *)
(* and what does not fit is dropped with a line in the log.                *)
(***************************************************************************)
EXTENDS Cbor

Item(op, arg) == [op |-> op, arg |-> arg]

IsChunk(item) == item.op \in {"bytes", "string"}

Chunk == {bytes \in Seq(Byte) : Len(bytes) =< IntMax}

\* The calls: int and unsigned int, long long and unsigned long long, tags,
\* sizes and specials, byte strings.
WriterCalls ==
       [op : {"int"}, arg : -(IntMax + 1)..UIntMax]
  \cup [op : {"long"}, arg : Int]
  \cup [op : {"tag"}, arg : 0..UIntMax]
  \cup [op : {"array", "map", "special"}, arg : 0..IntMax]
  \cup [op : {"string", "bytes"}, arg : Chunk]

\* putByte of each byte of a head: one beyond the capacity is dropped.
PutHead(buffer, capacity, head) ==
  LET room == capacity - Len(buffer)
  IN  buffer \o SubSeq(head, 1, IF room < Len(head) THEN room ELSE Len(head))

\* Mutant: a chunk that fits exactly is dropped too.
PutBytes_Strict(buffer, capacity, chunk) ==
  IF Len(buffer) + Len(chunk) < capacity THEN buffer \o chunk ELSE buffer

\* putBytes: a chunk that does not fit is dropped as a whole.
PutBytes(buffer, capacity, chunk) ==
  IF Len(buffer) + Len(chunk) - 1 < capacity THEN buffer \o chunk ELSE buffer

Sized(major, v, n) == <<major * Minors + WidthCode(n)>> \o BigEndian(v, n)

\* The bytes an unsigned int that is not small takes.
Width(v) == CASE v < Base                         -> 1
              [] v >= Base /\ v < Base * Base     -> 2
              [] v >= Base * Base                 -> 4

\* Mutant: the first value of two bytes is given one.
TypeAndValue_OffByOne(major, v) ==
  IF v < Direct THEN <<major * Minors + v>>
                ELSE Sized(major, v, IF v = Base THEN 1 ELSE Width(v))

\* writeTypeAndValue(int, unsigned int): the bytes of a head.
TypeAndValue(major, v) ==
  IF v < Direct THEN <<major * Minors + v>> ELSE Sized(major, v, Width(v))

\* writeTypeAndValue(int, unsigned long long): of a value of two bytes only
\* the high one is put, and one that needs more than four takes eight.
TypeAndLong(major, v) ==
  CASE v < Base -> TypeAndValue(major, v)
    [] v >= Base /\ v < Base * Base ->
         <<major * Minors + WidthCode(2), v \div Base>>
    [] v >= Base * Base /\ v <= UIntMax -> TypeAndValue(major, v)
    [] v > UIntMax -> Sized(major, v, 8)

\* The major type and the value in the head of an item: a negative number is
\* written as its absolute value, a chunk as its size.
Major(item) ==
  CASE item.op \in {"int", "long"} -> IF item.arg >= 0 THEN 0 ELSE 1
    [] item.op = "bytes" -> 2 [] item.op = "string" -> 3
    [] item.op = "array" -> 4 [] item.op = "map" -> 5
    [] item.op = "tag" -> 6   [] item.op = "special" -> 7

Value(item) ==
  CASE IsChunk(item) -> Len(item.arg)
    [] item.op \in {"int", "long"} -> IF item.arg >= 0 THEN item.arg ELSE -item.arg
    [] item.op \in {"array", "map", "tag", "special"} -> item.arg

HeadOf(item) == IF item.op = "long" THEN TypeAndLong(Major(item), Value(item))
                                    ELSE TypeAndValue(Major(item), Value(item))

Size(item) == Len(HeadOf(item)) + IF IsChunk(item) THEN Len(item.arg) ELSE 0

\* One call of the writer on a buffer of that capacity.
Write(buffer, capacity, item) ==
  LET headed == PutHead(buffer, capacity, HeadOf(item))
  IN  IF IsChunk(item) THEN PutBytes(headed, capacity, item.arg) ELSE headed

\* The buffer after each of the calls, and after the last.
Buffers(items, capacity) ==
  LET after[k \in 0..Len(items)] ==
        IF k = 0 THEN <<>> ELSE Write(after[k - 1], capacity, items[k])
  IN  after

WriteAll(items, capacity) == Buffers(items, capacity)[Len(items)]

\* Where each item ends in a buffer large enough, and the bytes they all take.
Ends(items) ==
  LET after[k \in 0..Len(items)] ==
        IF k = 0 THEN 0 ELSE after[k - 1] + Size(items[k])
  IN  after

BytesNeeded(items) == Ends(items)[Len(items)]
===============================================================================
