-------------------------------- MODULE MCWire --------------------------------
\* Bytes of 96 values: the tags take two bytes as in the program, and request
\* ids and keys of every width fit an integer.
EXTENDS Wire, TLC

Ids == {0, 96, 9216, UIntMax}
Pks == {0, 4, 95, 96, 9215, 9216, IntMax + 1, UIntMax, UIntMax + 1}

Name == <<7>>
LongName == <<1, 2, 3, 4, 5>>
Names == {<<>>, Name, LongName}

\* Rows without, with one and with two columns.
Rows == {<<>>} \cup {c :> v : c \in {Name, LongName}, v \in Names}
          \cup {(Name :> v) @@ (LongName :> w) : v, w \in Names}

MCMessages ==
       {[kind |-> "get", id |-> 96, database |-> d, table |-> LongName, pk |-> pk]
          : d \in Names, pk \in Pks}
  \cup {[kind |-> "add", id |-> i, database |-> Name, table |-> Name, row |-> r]
          : i \in Ids, r \in Rows}
  \cup {[kind |-> "continue", id |-> i, initRequestId |-> j, compareResult |-> c]
          : i, j \in Ids, c \in {-1, 0, 1}}
  \cup {[kind |-> "getOk", id |-> i, row |-> r] : i \in Ids, r \in Rows}
  \cup {[kind |-> k, id |-> i] : k \in {"getEmpty", "addOk", "addError"}, i \in Ids}
  \cup {[kind |-> "traverse", id |-> i, initRequestId |-> j, ciphertext |-> c]
          : i, j \in Ids, c \in Names}

\* Both sides of every change of width.
Edges == {0, 3, 4, 95, 96, 97, 9215, 9216, IntMax}

\* Payload bytes that read as heads when the reader is a byte behind: an
\* array, a map, a tag, a special and chunks of eight bytes, an invalid one, and
\* a chunk of a negative size.
Payloads == {<<>>, <<7>>, <<1, 2, 3, 4>>,
             <<4 * Minors + 7, 0, 0, 0, 0, 0, 0, 0, 1>>,
             <<5 * Minors + 7, 0, 0, 0, 0, 0, 0, 0, 1>>,
             <<7 * Minors + 7, 0, 0, 0, 0, 0, 0, 0, 1>>,
             <<2 * Minors + 7, 0, 0, 0, 0, 0, 0, 0, 1>>,
             <<3 * Minors + 9>>,
             <<2 * Minors + 6, Base - 1, 0, 0, 0, 0, 0, 0, 0>>}

Items ==
       {Item("int", v) : v \in Edges \cup {-1, -4, -96, -9216, -(IntMax + 1), UIntMax}}
  \cup {Item("long", v) : v \in Edges \cup {UIntMax + 5, -5, -9216, -(UIntMax + 5)}}
  \cup {Item("tag", v) : v \in {3, 1000, 9216}}
  \cup {Item(op, v) : op \in {"array", "map", "special"}, v \in {0, 4, 96, 9216}}
  \cup {Item(op, p) : op \in {"string", "bytes"}, p \in Payloads}

MCInputs == {<<i>> : i \in Items} \cup {<<i, j>> : i, j \in Items}
===============================================================================
