----------------------------- MODULE WireProofs -----------------------------
(***************************************************************************)
(* The wire, proved for every set of inputs, messages and capacities: the  *)
(* items a writer puts into a buffer are those a listener is told, and the *)
(* parser hands over the message they stand for.                           *)
(*                                                                         *)
(* The invariant has two halves.  The reader is in step with the writer    *)
(* (StreamInv): it stands where an item ends, or inside the next, and told *)
(* every item before; a long that loses bytes ends that.  The parser is in *)
(* step with the reader (ParserInv): it stands where the items heard so    *)
(* far take it.                                                            *)
(***************************************************************************)
EXTENDS Wire, FiniteSetTheorems, SequenceTheorems, TLAPS

(***************************************************************************)
(* The bytes of a number: what BigEndian and Number of Cbor lose and keep  *)
(***************************************************************************)

\* A number is its quotient and its remainder.
LEMMA Division ==
  ASSUME NEW v \in Nat, NEW b \in Nat, b > 0
  PROVE  /\ v \div b \in Nat /\ v % b \in Nat /\ v % b < b
         /\ v = ((v \div b) * b) + (v % b)
  OBVIOUS

\* The quotient and the remainder of a number are the only such pair.
LEMMA Divided ==
  ASSUME NEW q \in Nat, NEW r \in Nat, NEW b \in Nat, r < b
  PROVE  (q * b + r) \div b = q /\ (q * b + r) % b = r
  OBVIOUS

\* A number below c times b has a quotient by b below c.
LEMMA LessDivided ==
  ASSUME NEW v \in Nat, NEW b \in Nat, NEW c \in Nat, b > 0, v < c * b
  PROVE  v \div b < c
<1>1. v \div b \in Nat /\ v >= (v \div b) * b
  BY Division
<1>2. ASSUME v \div b >= c PROVE FALSE
  <2>1. (v \div b) * b >= c * b
    BY <1>1, <1>2
  <2> QED BY <2>1, <1>1
<1> QED BY <1>1, <1>2

\* The sizes of a byte, of a minor value and of an unsigned integer, as the
\* proofs use them.
LEMMA Sizes ==
  /\ Base \in Nat /\ Base >= 72 /\ Base = 8 * Minors
  /\ Minors \in Nat /\ Minors >= 9
  /\ Direct \in Nat /\ Direct = Minors - 8
  /\ Base * Base \in Nat /\ Base * Base >= 72 * Base /\ Base * Base >= 5184
  /\ UIntMax \in Nat /\ UIntMax + 1 = (Base * Base) * (Base * Base)
  /\ UIntMax >= Base * Base /\ UIntMax >= 5184
  /\ IntMax \in Nat /\ UIntMax = 2 * IntMax + 1 /\ IntMax > Base
<1>1. Minors \in Nat /\ Minors >= 9 /\ Base \in Nat /\ Base >= 72 /\ Base = 8 * Minors
      /\ Direct \in Nat /\ Direct = Minors - 8
  BY MinorsAssumption DEF Base, Direct
<1> DEFINE B == Base * Base
<1>2. B \in Nat /\ B >= 72 * Base /\ B >= 5184
  BY <1>1
<1>3. B * B \in Nat /\ B * B >= 5184 * B
  BY <1>2
<1>4. UIntMax + 1 = B * B /\ UIntMax \in Nat
  <2>1. Base * Base * Base * Base = B * B
    BY <1>1
  <2> QED BY <2>1, <1>3, <1>2 DEF UIntMax
<1>5. PICK h \in Nat : Base = 2 * h
  BY <1>1
<1>6. B * B = 2 * (h * Base * B) /\ h * Base * B \in Nat
  BY <1>1, <1>5
<1>7. IntMax = h * Base * B - 1 
  BY <1>4, <1>6 DEF IntMax
<1>8. UIntMax = 2 * IntMax + 1 /\ IntMax \in Nat
  <2> DEFINE x == h * Base * B
  <2>1. x \in Nat /\ UIntMax = 2 * x - 1 /\ IntMax = x - 1 /\ UIntMax \in Nat
    BY <1>4, <1>6, <1>7
  <2> HIDE DEF x
  <2> QED BY <2>1
<1>9. IntMax > Base
  BY <1>1, <1>2, <1>3, <1>4, <1>8
<1> QED BY <1>1, <1>2, <1>3, <1>4, <1>8, <1>9

\* Two bytes hold the low two digits of a number (CborOutput::putByte).
LEMMA LowTwo ==
  ASSUME NEW v \in Nat
  PROVE  /\ Pair(v) \in Seq(Byte) /\ Len(Pair(v)) = 2
         /\ Pair(v)[1] * Base + Pair(v)[2] = v % (Base * Base)
<1> DEFINE q == v \div Base   r == v % Base   q2 == q \div Base   r2 == q % Base
           B == Base * Base
<1>1. Base \in Nat /\ Base >= 72 /\ B \in Nat /\ B >= 5184
  BY Sizes
<1>2. q \in Nat /\ r \in Nat /\ r < Base /\ v = q * Base + r
  BY <1>1, Division
<1>3. q2 \in Nat /\ r2 \in Nat /\ r2 < Base /\ q = q2 * Base + r2
  BY <1>1, <1>2, Division
<1>4. r2 \in Byte /\ r \in Byte
  BY <1>1, <1>2, <1>3 DEF Byte
<1>5. Pair(v) \in Seq(Byte) /\ Len(Pair(v)) = 2 /\ Pair(v)[1] = r2 /\ Pair(v)[2] = r
  BY <1>4 DEF Pair
<1> HIDE DEF q, r, q2, r2, B
<1>6. r2 * Base + r \in Nat /\ r2 * Base + r < B
  <2>1. r2 * Base =< (Base - 1) * Base /\ r2 * Base \in Nat
    BY <1>1, <1>3
  <2>2. (Base - 1) * Base = B - Base
    BY <1>1 DEF B
  <2> QED BY <2>1, <2>2, <1>1, <1>2
<1>7. v = q2 * B + (r2 * Base + r)
  <2>1. (q2 * Base + r2) * Base = q2 * B + r2 * Base
    BY <1>1, <1>3 DEF B
  <2> QED BY <2>1, <1>1, <1>2, <1>3
<1>8. v % B = r2 * Base + r
  <2> DEFINE x == r2 * Base + r
  <2>1. x \in Nat /\ x < B /\ v = q2 * B + x
    BY <1>6, <1>7
  <2> HIDE DEF x
  <2>2. (q2 * B + x) % B = x
    BY <1>1, <1>3, <2>1, Divided
  <2> QED BY <2>1, <2>2 DEF x
<1> QED BY <1>5, <1>8 DEF B

\* Four bytes hold the low four digits, and so every unsigned integer.
LEMMA LowFour ==
  ASSUME NEW v \in Nat
  PROVE  /\ Quad(v) \in Seq(Byte) /\ Len(Quad(v)) = 4
         /\ v =< UIntMax =>
              (Quad(v)[1] * Base + Quad(v)[2]) * (Base * Base)
                + (Quad(v)[3] * Base + Quad(v)[4]) = v
<1> DEFINE B == Base * Base   q == v \div B   p == Pair(q)   r == Pair(v)
<1>1. Base \in Nat /\ Base >= 72 /\ B \in Nat /\ B >= 5184 /\ UIntMax + 1 = B * B
      /\ UIntMax \in Nat
  BY Sizes
<1>2. q \in Nat /\ v % B \in Nat /\ v % B < B /\ v = (q * B) + (v % B)
  <2> HIDE DEF B
  <2> QED BY <1>1, Division
<1>3. /\ p \in Seq(Byte) /\ Len(p) = 2 /\ p[1] * Base + p[2] = q % B
      /\ r \in Seq(Byte) /\ Len(r) = 2 /\ r[1] * Base + r[2] = v % B
  BY <1>2, LowTwo
<1> DEFINE c == p \o r
<1>4. Quad(v) = c
  BY DEF Quad
<1> HIDE DEF p, r, B, q
<1>5. /\ c \in Seq(Byte) /\ Len(c) = 4
      /\ c[1] = p[1] /\ c[2] = p[2] /\ c[3] = r[1] /\ c[4] = r[2]
  <2>1. c \in Seq(Byte) /\ Len(c) = Len(p) + Len(r)
        /\ \A i \in 1..(Len(p) + Len(r)) :
             c[i] = IF i =< Len(p) THEN p[i] ELSE r[i - Len(p)]
    BY <1>3, ConcatProperties
  <2> HIDE DEF c
  <2> QED BY <1>3, <2>1
<1> HIDE DEF c
<1>6. ASSUME v =< UIntMax
      PROVE  (Quad(v)[1] * Base + Quad(v)[2]) * B
                + (Quad(v)[3] * Base + Quad(v)[4]) = v
  <2>1. q < B
    BY <1>1, <1>6, LessDivided DEF q
  <2>2. q % B = q
    BY <2>1, <1>2, <1>1
  <2> QED BY <2>2, <1>2, <1>3, <1>4, <1>5
<1> QED BY <1>4, <1>5, <1>6 DEF B

\* A value below 2^32 survives its bytes when they are as many as Width says.
LEMMA Encoded ==
  ASSUME NEW v \in UInt, NEW n, n = Width(v)
  PROVE  /\ n \in {1, 2, 4}
         /\ BigEndian(v, n) \in Seq(Byte) /\ Len(BigEndian(v, n)) = n
         /\ Number(BigEndian(v, n)) = v
<1> DEFINE B == Base * Base
<1>1. Base \in Nat /\ Base >= 72 /\ B \in Nat /\ B >= 72 * Base /\ v \in Nat
      /\ v =< UIntMax
  BY Sizes DEF UInt
<1>w. Width(v) = CASE v < Base -> 1 [] v >= Base /\ v < B -> 2 [] v >= B -> 4
  BY DEF Width
<1> HIDE DEF B
<1>2. CASE v < Base
  <2>1. n = 1
    BY <1>1, <1>2, <1>w
  <2>2. v % Base = v /\ v \in Byte
    BY <1>1, <1>2 DEF Byte
  <2>3. BigEndian(v, n) = <<v>>
    BY <2>1, <2>2 DEF BigEndian
  <2>4. Number(<<v>>) = v /\ <<v>> \in Seq(Byte) /\ Len(<<v>>) = 1
    BY <2>2 DEF Number
  <2> QED BY <2>1, <2>2, <2>3, <2>4
<1>3. CASE v >= Base /\ v < B
  <2>1. n = 2
    BY <1>1, <1>3, <1>w
  <2> DEFINE p == Pair(v)
  <2>2. BigEndian(v, 2) = p
    BY DEF BigEndian
  <2>3. v % B = v
    BY <1>1, <1>3
  <2>4. p \in Seq(Byte) /\ Len(p) = 2 /\ p[1] * Base + p[2] = v
    BY <1>1, <2>3, LowTwo DEF B
  <2> HIDE DEF p
  <2>5. Number(p) = v
    BY <2>4 DEF Number
  <2> QED BY <2>1, <2>2, <2>4, <2>5
<1>4. CASE v >= B
  <2>1. n = 4
    BY <1>1, <1>4, <1>w
  <2> DEFINE q == Quad(v)
  <2>2. BigEndian(v, 4) = q
    BY DEF BigEndian
  <2>4. q \in Seq(Byte) /\ Len(q) = 4
        /\ (q[1] * Base + q[2]) * (Base * Base) + (q[3] * Base + q[4]) = v
    BY <1>1, LowFour
  <2> HIDE DEF q
  <2>5. Number(q) = v
    BY <2>4 DEF Number
  <2> QED BY <2>1, <2>2, <2>4, <2>5
<1> QED BY <1>1, <1>2, <1>3, <1>4

\* The byte of a head gives back its major type and its minor value.
LEMMA HeadByte ==
  ASSUME NEW major \in 0..7, NEW minor \in 0..(Minors - 1)
  PROVE  /\ major * Minors + minor \in Byte
         /\ (major * Minors + minor) \div Minors = major
         /\ (major * Minors + minor) % Minors = minor
<1>1. Minors \in Nat /\ Minors >= 9 /\ Base = 8 * Minors /\ major \in Nat /\ minor \in Nat
      /\ minor < Minors
  BY Sizes
<1>2. major * Minors \in Nat /\ major * Minors =< 7 * Minors
  BY <1>1
<1>3. major * Minors + minor \in Byte
  BY <1>1, <1>2 DEF Byte
<1> QED BY <1>1, <1>3, Divided

\* The minor values that announce a value of 1, 2, 4 or 8 bytes follow the
\* direct ones.
LEMMA WidthCodes ==
  /\ WidthCode(1) = Direct /\ WidthCode(2) = Direct + 1
  /\ WidthCode(4) = Direct + 2 /\ WidthCode(8) = Direct + 3
  /\ \A n \in Widths : WidthCode(n) \in Direct..(Minors - 1)
  BY Sizes DEF WidthCode, Widths

\* A byte put before a sequence of bytes.
LEMMA Prefixed ==
  ASSUME NEW b \in Byte, NEW s \in Seq(Byte)
  PROVE  /\ <<b>> \o s \in Seq(Byte) /\ Len(<<b>> \o s) = Len(s) + 1
         /\ (<<b>> \o s)[1] = b
         /\ \A i \in 1..Len(s) : (<<b>> \o s)[i + 1] = s[i]
  OBVIOUS

\* The head byte of a value that follows it.
LEMMA SizedHead ==
  ASSUME NEW major \in 0..7, NEW n \in Widths
  PROVE  LET b == major * Minors + WidthCode(n)
         IN  b \in Byte /\ b \div Minors = major /\ b % Minors = WidthCode(n)
<1>1. WidthCode(n) \in 0..(Minors - 1)
  BY WidthCodes, Sizes
<1> QED BY <1>1, HeadByte

\* h is the head of a value v, and a reader of h finds v again.
HasHead(h, major, v) ==
  /\ h \in Seq(Byte) /\ Len(h) >= 1 /\ h[1] \div Minors = major
  /\ v < Direct => Len(h) = 1 /\ h[1] % Minors = v
  /\ v >= Direct =>
       /\ Width(v) \in {1, 2, 4} /\ Len(h) = Width(v) + 1
       /\ h[1] % Minors = WidthCode(Width(v))
       /\ \A s \in Seq(Byte) :
            Len(s) = Width(v) /\ (\A i \in 1..Width(v) : s[i] = h[i + 1])
              => Number(s) = v

\* What writeTypeAndValue writes has the shape readers expect, for every value
\* it takes.
LEMMA HeadShape ==
  ASSUME NEW major \in 0..7, NEW v \in UInt
  PROVE  HasHead(TypeAndValue(major, v), major, v)
<1>0. PICK h, n : h = TypeAndValue(major, v) /\ n = Width(v)
  OBVIOUS
<1>1. Direct \in Nat /\ Direct < Minors /\ Minors \in Nat /\ v \in Nat
  BY Sizes DEF UInt
<1>2. CASE v < Direct
  <2>1. h = <<major * Minors + v>>
    BY <1>0, <1>2 DEF TypeAndValue
  <2>2. v \in 0..(Minors - 1)
    BY <1>1, <1>2
  <2>3. /\ major * Minors + v \in Byte /\ (major * Minors + v) \div Minors = major
        /\ (major * Minors + v) % Minors = v
    BY <2>2, HeadByte
  <2>4. h \in Seq(Byte) /\ Len(h) = 1 /\ h[1] = major * Minors + v
    BY <2>1, <2>3
  <2>5. ~(v >= Direct)
    BY <1>1, <1>2
  <2> QED BY <1>0, <2>3, <2>4, <2>5 DEF HasHead
<1>3. CASE v >= Direct
  <2> DEFINE e == BigEndian(v, n)
  <2>1. n \in {1, 2, 4} /\ e \in Seq(Byte) /\ Len(e) = n /\ Number(e) = v
    BY <1>0, Encoded
  <2>2. h = <<major * Minors + WidthCode(n)>> \o e
    BY <1>0, <1>1, <1>3 DEF TypeAndValue, Sized
  <2>3. n \in Widths
    BY <2>1 DEF Widths
  <2> HIDE DEF e
  <2>4. /\ h \in Seq(Byte) /\ Len(h) = n + 1 /\ h[1] \div Minors = major
        /\ h[1] % Minors = WidthCode(n) /\ \A i \in 1..n : h[i + 1] = e[i]
    <3> DEFINE b == major * Minors + WidthCode(n)
    <3>1. b \in Byte /\ b \div Minors = major /\ b % Minors = WidthCode(n)
      BY <2>3, SizedHead
    <3>2. h = <<b>> \o e
      BY <2>2
    <3> HIDE DEF b
    <3> QED BY <2>1, <3>1, <3>2, Prefixed
  <2>5. ASSUME NEW s \in Seq(Byte), Len(s) = n, \A i \in 1..n : s[i] = h[i + 1]
        PROVE  Number(s) = v
    <3>1. s = e
      BY <2>1, <2>4, <2>5
    <3> QED BY <3>1, <2>1
  <2>6. ~(v < Direct) /\ Len(h) >= 1
    BY <1>1, <1>3, <2>1, <2>4
  <2> QED BY <1>0, <2>1, <2>4, <2>5, <2>6 DEF HasHead
<1> QED BY <1>1, <1>2, <1>3

(***************************************************************************)
(* The head of an item: what the writer puts before a value, and what it   *)
(* drops                                                                   *)
(***************************************************************************)

\* The major type and the value of every call of the writer.
LEMMA ItemTypes ==
  ASSUME NEW it \in WriterCalls
  PROVE  /\ it.op \in {"int", "long", "tag", "array", "map", "special", "string", "bytes"}
         /\ Major(it) \in 0..7 /\ Value(it) \in Nat
         /\ it.op # "long" => Value(it) \in UInt
         /\ IsChunk(it) <=> Major(it) \in {2, 3}
         /\ IsChunk(it) => it.arg \in Seq(Byte) /\ Value(it) = Len(it.arg)
                           /\ Value(it) =< IntMax
<1>1. IntMax \in Nat /\ UIntMax = 2 * IntMax + 1
  BY Sizes
<1>2. CASE it \in [op : {"int"}, arg : -(IntMax + 1)..UIntMax]
  BY <1>1, <1>2 DEF Major, Value, IsChunk, UInt
<1>3. CASE it \in [op : {"long"}, arg : Int]
  BY <1>3 DEF Major, Value, IsChunk
<1>4. CASE it \in [op : {"tag"}, arg : 0..UIntMax]
  BY <1>1, <1>4 DEF Major, Value, IsChunk, UInt
<1>5. CASE it \in [op : {"array", "map", "special"}, arg : 0..IntMax]
  BY <1>1, <1>5 DEF Major, Value, IsChunk, UInt
<1>6. CASE it \in [op : {"string", "bytes"}, arg : Chunk]
  BY <1>1, <1>6 DEF Major, Value, IsChunk, UInt, Chunk
<1> QED BY <1>2, <1>3, <1>4, <1>5, <1>6 DEF WriterCalls

\* Eight bytes are written for a value of more than 32 bits.
LEMMA EightBytes ==
  ASSUME NEW v \in Nat
  PROVE  BigEndian(v, 8) \in Seq(Byte) /\ Len(BigEndian(v, 8)) = 8
<1> DEFINE p == Quad(v \div (UIntMax + 1))   q == Quad(v)
<1>1. UIntMax + 1 \in Nat /\ UIntMax + 1 > 0
  BY Sizes
<1>2. v \div (UIntMax + 1) \in Nat
  <2> DEFINE w == UIntMax + 1
  <2> HIDE DEF w
  <2> QED BY <1>1, Division DEF w
<1>3. p \in Seq(Byte) /\ Len(p) = 4 /\ q \in Seq(Byte) /\ Len(q) = 4
  BY <1>2, LowFour
<1> DEFINE c == p \o q
<1>4. BigEndian(v, 8) = c
  BY DEF BigEndian
<1> HIDE DEF p, q
<1>5. c \in Seq(Byte) /\ Len(c) = 8
  <2>1. c \in Seq(Byte) /\ Len(c) = Len(p) + Len(q)
    BY <1>3, ConcatProperties
  <2> QED BY <1>3, <2>1
<1> HIDE DEF c
<1> QED BY <1>4, <1>5

\* A long that loses bytes has a head of two or nine bytes, with the size of 2
\* or 8 in it.
LEMMA LossyHead ==
  ASSUME NEW it \in WriterCalls, Lossy(it)
  PROVE  /\ it.op = "long" /\ HeadOf(it) \in Seq(Byte)
         /\ Len(HeadOf(it)) \in {2, 9} /\ HeadOf(it)[1] \div Minors = Major(it)
         /\ Len(HeadOf(it)) = 2 => HeadOf(it)[1] % Minors = WidthCode(2)
         /\ Len(HeadOf(it)) = 9 => HeadOf(it)[1] % Minors = WidthCode(8)
<1>0. PICK h, v : h = HeadOf(it) /\ v = Value(it)
  OBVIOUS
<1> DEFINE B == Base * Base   m == Major(it)
<1>1. Base \in Nat /\ Base >= 72 /\ B \in Nat /\ B >= 72 * Base /\ UIntMax >= B
      /\ UIntMax \in Nat /\ Direct \in Nat /\ Direct < Base
  BY Sizes
<1>2. m \in 0..7 /\ v \in Nat
  BY <1>0, ItemTypes
<1>3. it.op = "long" /\ ((v >= Base /\ v < B) \/ v > UIntMax)
  BY <1>0 DEF Lossy
<1>4. h = TypeAndLong(m, v)
  BY <1>0, <1>3 DEF HeadOf
<1>t. TypeAndLong(m, v) =
        CASE v < Base -> TypeAndValue(m, v)
          [] v >= Base /\ v < B -> <<m * Minors + WidthCode(2), v \div Base>>
          [] v >= B /\ v <= UIntMax -> TypeAndValue(m, v)
          [] v > UIntMax -> Sized(m, v, 8)
  BY DEF TypeAndLong
<1>5. CASE v >= Base /\ v < B
  <2> DEFINE b == m * Minors + WidthCode(2)
  <2>1. b \in Byte /\ b \div Minors = m /\ b % Minors = WidthCode(2)
    BY <1>2, SizedHead DEF Widths
  <2>2. h = <<b, v \div Base>>
    <3> HIDE DEF B, m
    <3> QED BY <1>1, <1>2, <1>4, <1>5, <1>t
  <2>3. v \div Base \in Byte
    <3>1. v \div Base \in Nat
      BY <1>1, <1>2, Division
    <3>2. v \div Base < Base
      BY <1>1, <1>2, <1>5, LessDivided
    <3> QED BY <3>1, <3>2, <1>1 DEF Byte
  <2> HIDE DEF b
  <2>4. h \in Seq(Byte) /\ Len(h) = 2 /\ h[1] = b
    BY <2>1, <2>2, <2>3
  <2> QED BY <1>0, <1>3, <2>1, <2>4
<1>6. CASE v > UIntMax
  <2> DEFINE b == m * Minors + WidthCode(8)   e == BigEndian(v, 8)
  <2>1. b \in Byte /\ b \div Minors = m /\ b % Minors = WidthCode(8)
    BY <1>2, SizedHead DEF Widths
  <2>2. h = <<b>> \o e
    <3>1. Sized(m, v, 8) = <<b>> \o e
      BY DEF Sized
    <3>2. h = Sized(m, v, 8)
      <4> HIDE DEF B, m
      <4> QED BY <1>1, <1>2, <1>4, <1>6, <1>t
    <3> QED BY <3>1, <3>2
  <2>3. e \in Seq(Byte) /\ Len(e) = 8
    BY <1>2, EightBytes
  <2> HIDE DEF b, e
  <2> DEFINE c == <<b>> \o e
  <2>4. c \in Seq(Byte) /\ Len(c) = Len(e) + 1 /\ c[1] = b
    BY <2>1, <2>3, Prefixed
  <2>5. h \in Seq(Byte) /\ Len(h) = 9 /\ h[1] = b
    <3> HIDE DEF c
    <3>1. h = c
      BY <2>2 DEF c
    <3> QED BY <2>3, <2>4, <3>1
  <2> QED BY <1>0, <1>3, <2>1, <2>5
<1> QED BY <1>3, <1>5, <1>6

\* Every other call writes the head that writeTypeAndValue writes for its value.
LEMMA SoundHead ==
  ASSUME NEW it \in WriterCalls, ~Lossy(it)
  PROVE  Value(it) \in UInt /\ HeadOf(it) = TypeAndValue(Major(it), Value(it))
<1> DEFINE B == Base * Base   m == Major(it)   v == Value(it)
<1>1. Base \in Nat /\ Base >= 72 /\ B \in Nat /\ B >= 72 * Base /\ UIntMax >= B
      /\ UIntMax \in Nat
  BY Sizes
<1>2. v \in Nat /\ (it.op # "long" => v \in UInt)
  BY ItemTypes
<1>3. CASE it.op # "long"
  BY <1>2, <1>3 DEF HeadOf
<1>4. CASE it.op = "long"
  <2>1. v < Base \/ (v >= B /\ v =< UIntMax)
    BY <1>1, <1>2, <1>4 DEF Lossy
  <2>t. TypeAndLong(m, v) =
          CASE v < Base -> TypeAndValue(m, v)
            [] v >= Base /\ v < B -> <<m * Minors + WidthCode(2), v \div Base>>
            [] v >= B /\ v <= UIntMax -> TypeAndValue(m, v)
            [] v > UIntMax -> Sized(m, v, 8)
    BY DEF TypeAndLong
  <2>2. HeadOf(it) = TypeAndLong(m, v)
    BY <1>4 DEF HeadOf
  <2>3. v \in UInt
    BY <1>1, <1>2, <2>1 DEF UInt
  <2> HIDE DEF B, m, v
  <2>4. TypeAndLong(m, v) = TypeAndValue(m, v)
    BY <1>1, <1>2, <2>1, <2>t
  <2> QED BY <2>2, <2>3, <2>4 DEF m, v
<1> QED BY <1>3, <1>4

\* The length of an item is that of its head and, for a chunk, of its bytes.
LEMMA ItemHead ==
  ASSUME NEW it \in WriterCalls
  PROVE  /\ HeadOf(it) \in Seq(Byte) /\ Len(HeadOf(it)) >= 1
         /\ Size(it) \in Nat /\ Size(it) >= Len(HeadOf(it))
         /\ Size(it) = IF IsChunk(it) THEN Len(HeadOf(it)) + Value(it) ELSE Len(HeadOf(it))
<1>1. HeadOf(it) \in Seq(Byte) /\ Len(HeadOf(it)) >= 1
  <2>1. CASE Lossy(it)
    BY <2>1, LossyHead
  <2>2. CASE ~Lossy(it)
    <3> DEFINE m == Major(it)   v == Value(it)   h == HeadOf(it)   n == Width(v)
    <3>1. m \in 0..7 /\ v \in UInt /\ h = TypeAndValue(m, v)
      BY <2>2, SoundHead, ItemTypes
    <3> HIDE DEF m, v, h
    <3>2. h \in Seq(Byte) /\ Len(h) >= 1
      <4>1. HasHead(h, m, v)
        BY <3>1, HeadShape
      <4> QED BY <4>1 DEF HasHead
    <3> QED BY <3>2 DEF h
  <2> QED BY <2>1, <2>2
<1>2. IsChunk(it) => it.arg \in Seq(Byte) /\ Value(it) = Len(it.arg)
  BY ItemTypes
<1> DEFINE h == HeadOf(it)
<1>3. Size(it) = Len(h) + IF IsChunk(it) THEN Len(it.arg) ELSE 0
  BY DEF Size
<1> HIDE DEF h
<1>4. CASE IsChunk(it)
  BY <1>1, <1>2, <1>3, <1>4 DEF h
<1>5. CASE ~IsChunk(it)
  BY <1>1, <1>3, <1>5 DEF h
<1> QED BY <1>4, <1>5

(***************************************************************************)
(* What the listener is told of an item that loses nothing                 *)
(***************************************************************************)

\* Conversion to unsigned int keeps an unsigned value and wraps a negative one.
LEMMA AsUInts ==
  /\ \A v \in UInt : AsUInt(v) = v
  /\ \A v \in 1..UIntMax : AsUInt(-v) = UIntMax + 1 - v
<1> DEFINE w == UIntMax + 1
<1>1. w \in Nat /\ w > 0 /\ UIntMax = w - 1
  BY Sizes
<1> HIDE DEF w
<1>2. ASSUME NEW v \in UInt PROVE v % w = v
  BY <1>1 DEF UInt
<1>3. ASSUME NEW v \in 1..UIntMax PROVE (-v) % w = w - v
  BY <1>1
<1> QED BY <1>1, <1>2, <1>3 DEF AsUInt, w

\* Conversion to int and back keeps the value, and int keeps the values it
\* holds.
LEMMA AsInts ==
  /\ \A v \in UInt : AsInt(v) \in -(IntMax + 1)..IntMax /\ AsUInt(AsInt(v)) = v
  /\ \A v \in 0..IntMax : AsInt(v) = v
  /\ \A i \in -(IntMax + 1)..IntMax : AsUInt(i) \in UInt /\ AsInt(AsUInt(i)) = i
<1>1. IntMax \in Nat /\ UIntMax = 2 * IntMax + 1 /\ UIntMax \in Nat
  BY Sizes
<1>2. ASSUME NEW v \in UInt
      PROVE  AsInt(v) \in -(IntMax + 1)..IntMax /\ AsUInt(AsInt(v)) = v
  <2>1. CASE 2 * v > UIntMax
    <3>1. AsInt(v) = -(UIntMax + 1 - v) /\ UIntMax + 1 - v \in 1..UIntMax
      BY <1>1, <2>1 DEF AsInt, UInt
    <3>2. AsUInt(-(UIntMax + 1 - v)) = UIntMax + 1 - (UIntMax + 1 - v)
      BY <3>1, AsUInts
    <3> QED BY <3>1, <3>2, <2>1, <1>1 DEF UInt
  <2>2. CASE ~(2 * v > UIntMax)
    BY <1>1, <2>2, AsUInts DEF AsInt, UInt
  <2> QED BY <2>1, <2>2
<1>3. ASSUME NEW v \in 0..IntMax PROVE AsInt(v) = v
  BY <1>1 DEF AsInt
<1>4. ASSUME NEW i \in -(IntMax + 1)..IntMax
      PROVE  AsUInt(i) \in UInt /\ AsInt(AsUInt(i)) = i
  <2>1. CASE i >= 0
    BY <1>1, <1>3, <2>1, AsUInts DEF UInt
  <2>2. CASE i < 0
    <3>1. PICK v \in 1..UIntMax : i = -v
      <4>1. -i \in 1..UIntMax /\ i = -(-i)
        BY <1>1, <2>2
      <4> QED BY <4>1
    <3>2. AsUInt(-v) = UIntMax + 1 - v
      BY <3>1, AsUInts
    <3>3. AsUInt(i) = UIntMax + 1 + i
      BY <3>1, <3>2, <1>1
    <3> QED BY <1>1, <2>2, <3>3 DEF AsInt, UInt
  <2> QED BY <2>1, <2>2
<1> QED BY <1>2, <1>3, <1>4

\* The reader negates what it read, the writer wrote the absolute value.
LEMMA Negated ==
  ASSUME NEW v \in 1..UIntMax
  PROVE  AsInt(AsUInt(-AsInt(v))) = AsInt(AsUInt(-v))
<1>1. IntMax \in Nat /\ UIntMax = 2 * IntMax + 1 /\ UIntMax \in Nat
  BY Sizes
<1>2. CASE 2 * v > UIntMax
  <2>1. -AsInt(v) = UIntMax + 1 - v /\ UIntMax + 1 - v \in UInt
    BY <1>1, <1>2 DEF AsInt, UInt
  <2>2. AsUInt(-AsInt(v)) = UIntMax + 1 - v
    BY <2>1, AsUInts
  <2> QED BY <2>2, AsUInts
<1>3. CASE ~(2 * v > UIntMax)
  BY <1>3 DEF AsInt
<1> QED BY <1>2, <1>3

\* What the listener is told of a sound item is what the reader makes of its
\* type and value.
LEMMA ToldByReader ==
  ASSUME NEW it \in WriterCalls, ~Lossy(it)
  PROVE  /\ Told(it).on # "nothing"
         /\ Told(it) = Call(Listener[Major(it)],
                            IF IsChunk(it) THEN it.arg
                                           ELSE Argument(Major(it), Value(it)))
<1>1. IntMax \in Nat /\ UIntMax = 2 * IntMax + 1 /\ UIntMax \in Nat
  BY Sizes
<1>s. Value(it) \in UInt
  BY SoundHead
<1>2. CASE it \in [op : {"int"}, arg : -(IntMax + 1)..UIntMax]
                    \cup [op : {"long"}, arg : Int]
  <2>1. it.op \in {"int", "long"} /\ it.arg \in Int /\ ~IsChunk(it)
    BY <1>1, <1>2 DEF IsChunk
  <2>2. Told(it) = Call("integer", AsInt(AsUInt(it.arg)))
    BY <2>1 DEF Told
  <2>3. CASE it.arg >= 0
    <3>1. Major(it) = 0 /\ Value(it) = it.arg
      BY <2>1, <2>3 DEF Major, Value, IsChunk
    <3>2. AsUInt(it.arg) = it.arg
      BY <3>1, <1>s, AsUInts
    <3>3. Listener[0] = "integer" /\ Argument(0, it.arg) = AsInt(it.arg)
      BY DEF Listener, Argument
    <3> QED BY <2>1, <2>2, <3>1, <3>2, <3>3 DEF Call
  <2>4. CASE it.arg < 0
    <3>1. Major(it) = 1 /\ Value(it) = -it.arg
      BY <2>1, <2>4 DEF Major, Value, IsChunk
    <3> DEFINE v == -it.arg
    <3>2. v \in 1..UIntMax /\ it.arg = -v
      BY <2>1, <2>4, <3>1, <1>s DEF UInt
    <3>3. Listener[1] = "integer" /\ Argument(1, v) = AsInt(AsUInt(-AsInt(v)))
      BY DEF Listener, Argument
    <3> HIDE DEF v
    <3>4. Argument(1, v) = AsInt(AsUInt(it.arg))
      BY <3>2, <3>3, Negated
    <3> QED BY <2>1, <2>2, <3>1, <3>3, <3>4 DEF Call, v
  <2> QED BY <2>1, <2>3, <2>4
<1>4. CASE it \in [op : {"tag"}, arg : 0..UIntMax]
  BY <1>4 DEF Told, Call, Listener, Argument, Major, Value, IsChunk
<1>5. CASE it \in [op : {"array", "map", "special"}, arg : 0..IntMax]
  <2>1. it.op \in {"array", "map", "special"} /\ it.arg \in 0..IntMax /\ ~IsChunk(it)
    BY <1>5 DEF IsChunk
  <2>2. AsInt(it.arg) = it.arg
    BY <2>1, AsInts
  <2>3. Value(it) = it.arg /\ Told(it) = Call(it.op, it.arg)
    BY <2>1 DEF Value, Told
  <2>4. Major(it) \in {4, 5, 7} /\ Listener[Major(it)] = it.op
    BY <2>1 DEF Major, Listener
  <2>5. Argument(Major(it), it.arg) = it.arg
    BY <2>2, <2>4 DEF Argument
  <2> QED BY <2>1, <2>3, <2>4, <2>5 DEF Call
<1>6. CASE it \in [op : {"string", "bytes"}, arg : Chunk]
  BY <1>6 DEF Told, Call, Listener, Major, IsChunk
<1> QED BY <1>2, <1>4, <1>5, <1>6 DEF WriterCalls

(***************************************************************************)
(* Where the items end: Ends is the recursive function its definition says *)
(***************************************************************************)

\* Induction over the naturals for a set: a least number outside it would be a
\* successor of one inside.
LEMMA NatInductionSet ==
  ASSUME NEW T, 0 \in T, \A n \in Nat : n \in T => n + 1 \in T
  PROVE  \A n \in Nat : n \in T
<1> DEFINE R == {p \in Nat \X Nat : p[1] < p[2]}
           U == {n \in Nat : n \notin T}
<1>1. IsWellFoundedOn(R, Nat)
  BY NatLessThanWellFounded DEF OpToRel
<1>2. \A n, m \in Nat : n < m => <<n, m>> \in R
  OBVIOUS
<1> SUFFICES ASSUME U # {} PROVE FALSE
  OBVIOUS
<1>3. PICK m \in U : \A n \in U : ~(<<n, m>> \in R)
  <2>1. U \in SUBSET Nat
    OBVIOUS
  <2> HIDE DEF R, U
  <2> QED BY <1>1, <2>1, WFMin, Zenon
<1>4. m - 1 \in Nat /\ m - 1 < m
  BY DEF U
<1>5. <<m - 1, m>> \in R
  BY <1>4
<1>6. m - 1 \in T
  BY <1>3, <1>4, <1>5
<1> QED BY <1>3, <1>4, <1>6

\* There is a function that satisfies the recursion of Ends.
LEMMA EndsExist ==
  ASSUME NEW is \in Seq(WriterCalls)
  PROVE  \E f : f = [k \in 0..Len(is) |-> IF k = 0 THEN 0 ELSE f[k - 1] + Size(is[k])]
<1> DEFINE Upto(n, f) == f = [k \in 0..n |-> IF k = 0 THEN 0 ELSE f[k - 1] + Size(is[k])]
           T == {n \in Nat : \E f : Upto(n, f)}
<1>1. 0 \in T
  <2>1. Upto(0, [k \in {0} |-> 0])
    <3>1. 0..0 = {0}
      OBVIOUS
    <3> QED BY <3>1
  <2> HIDE DEF Upto
  <2> QED BY <2>1
<1>2. ASSUME NEW n \in Nat, n \in T
      PROVE  n + 1 \in T
  <2>1. PICK f : Upto(n, f)
    BY <1>2
  <2> DEFINE g == [k \in 0..(n + 1) |-> IF k =< n THEN f[k] ELSE f[n] + Size(is[n + 1])]
  <2>2. \A k \in 0..n : f[k] = IF k = 0 THEN 0 ELSE f[k - 1] + Size(is[k])
    BY <2>1
  <2>3. ASSUME NEW k \in 0..(n + 1)
        PROVE  g[k] = IF k = 0 THEN 0 ELSE g[k - 1] + Size(is[k])
    <3>1. CASE k = 0
      BY <2>2, <3>1
    <3>2. CASE k > 0 /\ k =< n
      BY <2>2, <3>2
    <3>3. CASE k = n + 1
      BY <3>3
    <3> QED BY <3>1, <3>2, <3>3
  <2>4. Upto(n + 1, g)
    <3>1. g = [k \in 0..(n + 1) |-> g[k]]
      OBVIOUS
    <3> HIDE DEF g
    <3> QED BY <2>3, <3>1
  <2> HIDE DEF Upto
  <2> QED BY <2>4
<1> HIDE DEF T
<1>3. Len(is) \in T
  BY <1>1, <1>2, NatInductionSet, LenProperties
<1> QED BY <1>3 DEF T

\* Ends satisfies its recursion.
LEMMA EndsDef ==
  ASSUME NEW is \in Seq(WriterCalls)
  PROVE  /\ Ends(is)[0] = 0
         /\ \A k \in 1..Len(is) : Ends(is)[k] = Ends(is)[k - 1] + Size(is[k])
<1> DEFINE P(f) == f = [k \in 0..Len(is) |-> IF k = 0 THEN 0 ELSE f[k - 1] + Size(is[k])]
<1>1. \E f : P(f)
  BY EndsExist
<1>2. Ends(is) = CHOOSE f : P(f)
  BY DEF Ends
<1> HIDE DEF P
<1>3. P(Ends(is))
  BY <1>1, <1>2
<1>4. Len(is) \in Nat
  OBVIOUS
<1> QED BY <1>3, <1>4 DEF P

(***************************************************************************)
(* One call of the writer: what it puts into the buffer, and where it      *)
(* stops                                                                   *)
(***************************************************************************)

\* The bytes of a head go in one by one until the buffer is full
\* (CborOutput::putByte).
LEMMA HeadPut ==
  ASSUME NEW b \in Seq(Byte), NEW c \in Nat, Len(b) =< c, NEW h \in Seq(Byte)
  PROVE  LET w == PutHead(b, c, h) IN
         /\ w \in Seq(Byte)
         /\ (Len(b) + Len(h) =< c => Len(w) = Len(b) + Len(h))
         /\ (Len(b) + Len(h) > c => Len(w) = c)
         /\ \A i \in 1..Len(b) : w[i] = b[i]
         /\ \A i \in 1..Len(h) : Len(b) + i =< c => w[Len(b) + i] = h[i]
<1> DEFINE w == PutHead(b, c, h)
           room == c - Len(b)
           n == IF room < Len(h) THEN room ELSE Len(h)
           s == SubSeq(h, 1, n)
           t == b \o s
<1>1. Len(b) \in Nat /\ Len(h) \in Nat /\ room \in Nat /\ n \in 0..Len(h) /\ n =< room
  OBVIOUS
<1>2. w = t
  BY DEF PutHead
<1> HIDE DEF w
<1>3. s \in Seq(Byte) /\ Len(s) = n /\ \A i \in 1..n : s[i] = h[i]
  <2> HIDE DEF n
  <2> QED BY <1>1
<1>n. n = IF Len(b) + Len(h) =< c THEN Len(h) ELSE room
  BY <1>1
<1> HIDE DEF s
<1>4. /\ t \in Seq(Byte) /\ Len(t) = Len(b) + Len(s)
      /\ \A i \in 1..(Len(b) + Len(s)) :
           t[i] = IF i =< Len(b) THEN b[i] ELSE s[i - Len(b)]
  BY <1>3, ConcatProperties
<1> HIDE DEF t, n
<1>5. /\ (Len(b) + Len(h) =< c => Len(w) = Len(b) + Len(h))
      /\ (Len(b) + Len(h) > c => Len(w) = c)
  BY <1>1, <1>2, <1>3, <1>4, <1>n
<1>6. \A i \in 1..Len(b) : w[i] = b[i]
  BY <1>1, <1>2, <1>3, <1>4
<1>7. ASSUME NEW i \in 1..Len(h), Len(b) + i =< c
      PROVE  w[Len(b) + i] = h[i]
  <2>1. i \in 1..n
    BY <1>1, <1>7, <1>n
  <2>2. t[Len(b) + i] = s[Len(b) + i - Len(b)]
    BY <1>1, <1>3, <1>4, <2>1
  <2>3. Len(b) + i - Len(b) = i
    BY <1>1, <2>1
  <2> QED BY <1>2, <1>3, <2>1, <2>2, <2>3
<1> QED BY <1>2, <1>4, <1>5, <1>6, <1>7 DEF w

\* A chunk goes in whole or not at all (CborOutput::putBytes).
LEMMA ChunkPut ==
  ASSUME NEW b \in Seq(Byte), NEW c \in Nat, Len(b) =< c, NEW s \in Seq(Byte)
  PROVE  LET w == PutBytes(b, c, s) IN
         /\ w \in Seq(Byte)
         /\ (Len(b) + Len(s) =< c => Len(w) = Len(b) + Len(s))
         /\ (Len(b) + Len(s) > c => Len(w) = Len(b))
         /\ \A i \in 1..Len(b) : w[i] = b[i]
         /\ Len(b) + Len(s) =< c => \A i \in 1..Len(s) : w[Len(b) + i] = s[i]
<1> DEFINE w == PutBytes(b, c, s)
           t == b \o s
<1>1. Len(b) \in Nat /\ Len(s) \in Nat
  OBVIOUS
<1>4. /\ t \in Seq(Byte) /\ Len(t) = Len(b) + Len(s)
      /\ \A i \in 1..(Len(b) + Len(s)) :
           t[i] = IF i =< Len(b) THEN b[i] ELSE s[i - Len(b)]
  BY ConcatProperties
<1>5. w = IF Len(b) + Len(s) - 1 < c THEN t ELSE b
  BY DEF PutBytes
<1> HIDE DEF w
<1> HIDE DEF t
<1>6. CASE Len(b) + Len(s) =< c
  <2>1. w = t
    BY <1>1, <1>5, <1>6
  <2>2. ASSUME NEW i \in 1..Len(s) PROVE w[Len(b) + i] = s[i]
    <3>1. t[Len(b) + i] = s[Len(b) + i - Len(b)]
      BY <1>1, <1>4
    <3>2. Len(b) + i - Len(b) = i
      BY <1>1
    <3> QED BY <2>1, <3>1, <3>2
  <2>3. ASSUME NEW i \in 1..Len(b) PROVE w[i] = b[i]
    BY <1>1, <1>4, <2>1
  <2> QED BY <1>1, <1>4, <1>6, <2>1, <2>2, <2>3 DEF w
<1>7. CASE ~(Len(b) + Len(s) =< c)
  <2>1. w = b
    BY <1>1, <1>5, <1>7
  <2> QED BY <1>1, <1>7, <2>1 DEF w
<1> QED BY <1>6, <1>7

\* w is b with an item put into it as far as the capacity c allows.
Put(b, w, c, it) ==
  /\ w \in Seq(Byte) /\ Len(w) >= Len(b) /\ Len(w) =< c /\ Len(w) =< Len(b) + Size(it)
  /\ Len(b) + Size(it) =< c => Len(w) = Len(b) + Size(it)
  /\ \A i \in 1..Len(b) : w[i] = b[i]
  /\ \A i \in 1..Len(HeadOf(it)) : Len(b) + i =< c =>
       Len(b) + i =< Len(w) /\ w[Len(b) + i] = HeadOf(it)[i]
  /\ IsChunk(it) /\ Len(b) + Size(it) =< c =>
       \A i \in 1..Len(it.arg) : w[Len(b) + Len(HeadOf(it)) + i] = it.arg[i]

\* Every call of the writer puts its item, and cuts it where the buffer is full.
LEMMA ItemWritten ==
  ASSUME NEW it \in WriterCalls, NEW b \in Seq(Byte), NEW c \in Nat, Len(b) =< c
  PROVE  Put(b, Write(b, c, it), c, it)
<1>h. PICK h : h = HeadOf(it)
  OBVIOUS
<1>0. PICK g, w : g = PutHead(b, c, h) /\ w = Write(b, c, it)
  OBVIOUS
<1>1. /\ h \in Seq(Byte) /\ Len(h) >= 1
      /\ Size(it) = IF IsChunk(it) THEN Len(h) + Value(it) ELSE Len(h)
      /\ Len(h) \in Nat /\ Len(b) \in Nat
  BY <1>h, ItemHead
<1>2. w = IF IsChunk(it) THEN PutBytes(g, c, it.arg) ELSE g
  BY <1>0, <1>h DEF Write
<1>3. /\ g \in Seq(Byte)
      /\ (Len(b) + Len(h) =< c => Len(g) = Len(b) + Len(h))
      /\ (Len(b) + Len(h) > c => Len(g) = c)
      /\ \A i \in 1..Len(b) : g[i] = b[i]
      /\ \A i \in 1..Len(h) : Len(b) + i =< c => g[Len(b) + i] = h[i]
  BY <1>0, <1>1, HeadPut
<1>4. CASE ~IsChunk(it)
  <2>1. w = g /\ Size(it) = Len(h)
    BY <1>1, <1>2, <1>4
  <2>2. Put(b, w, c, it)
    BY <1>h, <1>1, <1>3, <1>4, <2>1 DEF Put
  <2> QED BY <1>0, <2>2
<1>5. CASE IsChunk(it)
  <2>0. PICK s : s = it.arg
    OBVIOUS
  <2>1. s \in Seq(Byte) /\ Len(s) = Value(it) /\ Len(s) \in Nat
    BY <1>5, <2>0, ItemTypes
  <2>2. w = PutBytes(g, c, s) /\ Size(it) = Len(h) + Len(s)
    BY <1>1, <1>2, <1>5, <2>0, <2>1
  <2>3. Len(g) =< c /\ Len(g) \in Nat /\ Len(g) >= Len(b)
    BY <1>1, <1>3
  <2>4. /\ w \in Seq(Byte)
        /\ (Len(g) + Len(s) =< c => Len(w) = Len(g) + Len(s))
        /\ (Len(g) + Len(s) > c => Len(w) = Len(g))
        /\ \A i \in 1..Len(g) : w[i] = g[i]
        /\ Len(g) + Len(s) =< c => \A i \in 1..Len(s) : w[Len(g) + i] = s[i]
    <3>1. g \in Seq(Byte) /\ Len(g) =< c
      BY <1>3, <2>3
    <3>2. w = PutBytes(g, c, s)
      BY <2>2
    <3> QED BY <2>1, <3>1, <3>2, ChunkPut
  <2>5. /\ Len(w) >= Len(b) /\ Len(w) =< c /\ Len(w) =< Len(b) + Size(it)
        /\ Len(b) + Size(it) =< c => Len(w) = Len(b) + Size(it)
    <3>1. PICK x, y, u, v, z : /\ x = Len(b) /\ y = Len(h) /\ u = Len(g) /\ v = Len(s)
                               /\ z = Len(w)
      OBVIOUS
    <3>2. x \in Nat /\ y \in Nat /\ u \in Nat /\ v \in Nat /\ z \in Nat
      BY <1>1, <2>1, <2>3, <2>4, <3>1
    <3>3. /\ x + y =< c => u = x + y
          /\ x + y > c => u = c
          /\ u + v =< c => z = u + v
          /\ u + v > c => z = u
          /\ x =< c
      BY <1>3, <2>4, <3>1
    <3>4. /\ z >= x /\ z =< c /\ z =< x + (y + v)
          /\ x + (y + v) =< c => z = x + (y + v)
      BY <3>2, <3>3
    <3> QED BY <2>2, <3>1, <3>4
  <2>6. \A i \in 1..Len(b) : w[i] = b[i]
    BY <1>1, <1>3, <2>3, <2>4
  <2>7. ASSUME NEW i \in 1..Len(h), Len(b) + i =< c
        PROVE  Len(b) + i =< Len(w) /\ w[Len(b) + i] = h[i]
    <3>1. Len(b) + i \in 1..Len(g)
      BY <1>1, <1>3, <2>3, <2>7
    <3>2. w[Len(b) + i] = g[Len(b) + i] /\ Len(g) =< Len(w)
      BY <2>1, <2>3, <2>4, <3>1
    <3> QED BY <1>1, <1>3, <2>3, <2>5, <2>7, <3>1, <3>2
  <2>8. ASSUME Len(b) + Size(it) =< c
        PROVE  \A i \in 1..Len(s) : w[Len(b) + Len(h) + i] = s[i]
    <3>1. Len(g) = Len(b) + Len(h) /\ Len(g) + Len(s) =< c
      BY <1>1, <1>3, <2>1, <2>2, <2>8
    <3> QED BY <2>4, <3>1
  <2> QED BY <1>0, <1>h, <2>0, <2>4, <2>5, <2>6, <2>7, <2>8 DEF Put
<1> QED BY <1>4, <1>5

(***************************************************************************)
(* The buffer: the items lie in it one behind another, up to the capacity  *)
(***************************************************************************)

\* There is a function that satisfies the recursion of Buffers.
LEMMA BuffersExist ==
  ASSUME NEW is \in Seq(WriterCalls), NEW c
  PROVE  \E f : f = [k \in 0..Len(is) |-> IF k = 0 THEN <<>> ELSE Write(f[k - 1], c, is[k])]
<1> DEFINE Upto(n, f) ==
             f = [k \in 0..n |-> IF k = 0 THEN <<>> ELSE Write(f[k - 1], c, is[k])]
           T == {n \in Nat : \E f : Upto(n, f)}
<1>1. 0 \in T
  <2>1. Upto(0, [k \in {0} |-> <<>>])
    <3>1. 0..0 = {0}
      OBVIOUS
    <3> QED BY <3>1
  <2> HIDE DEF Upto
  <2> QED BY <2>1
<1>2. ASSUME NEW n \in Nat, n \in T
      PROVE  n + 1 \in T
  <2>1. PICK f : Upto(n, f)
    BY <1>2
  <2> DEFINE g == [k \in 0..(n + 1) |-> IF k =< n THEN f[k] ELSE Write(f[n], c, is[n + 1])]
  <2>2. \A k \in 0..n : f[k] = IF k = 0 THEN <<>> ELSE Write(f[k - 1], c, is[k])
    BY <2>1
  <2>3. ASSUME NEW k \in 0..(n + 1)
        PROVE  g[k] = IF k = 0 THEN <<>> ELSE Write(g[k - 1], c, is[k])
    <3>1. CASE k = 0
      BY <2>2, <3>1
    <3>2. CASE k > 0 /\ k =< n
      BY <2>2, <3>2
    <3>3. CASE k = n + 1
      BY <3>3
    <3> QED BY <3>1, <3>2, <3>3
  <2>4. Upto(n + 1, g)
    <3>1. g = [k \in 0..(n + 1) |-> g[k]]
      OBVIOUS
    <3> HIDE DEF g
    <3> QED BY <2>3, <3>1
  <2> HIDE DEF Upto
  <2> QED BY <2>4
<1> HIDE DEF T
<1>3. Len(is) \in T
  BY <1>1, <1>2, NatInductionSet, LenProperties
<1> QED BY <1>3 DEF T

\* Buffers satisfies its recursion.
LEMMA BuffersDef ==
  ASSUME NEW is \in Seq(WriterCalls), NEW c
  PROVE  /\ Buffers(is, c)[0] = <<>>
         /\ \A k \in 1..Len(is) :
              Buffers(is, c)[k] = Write(Buffers(is, c)[k - 1], c, is[k])
<1> DEFINE P(f) == f = [k \in 0..Len(is) |->
                          IF k = 0 THEN <<>> ELSE Write(f[k - 1], c, is[k])]
<1>1. \E f : P(f)
  BY BuffersExist
<1>2. Buffers(is, c) = CHOOSE f : P(f)
  BY DEF Buffers
<1> HIDE DEF P
<1>3. P(Buffers(is, c))
  BY <1>1, <1>2
<1>4. Len(is) \in Nat
  OBVIOUS
<1> QED BY <1>3, <1>4 DEF P

\* Every end is a number, and the next end is the item's size away.
LEMMA EndsTypes ==
  ASSUME NEW is \in Seq(WriterCalls)
  PROVE  /\ \A k \in 0..Len(is) : Ends(is)[k] \in Nat
         /\ \A k \in 0..(Len(is) - 1) : Ends(is)[k + 1] = Ends(is)[k] + Size(is[k + 1])
<1> DEFINE n == Len(is)   T == {k \in Nat : k =< n => Ends(is)[k] \in Nat}
<1>1. n \in Nat
  OBVIOUS
<1>2. ASSUME NEW k \in 0..(n - 1)
      PROVE  /\ Ends(is)[k + 1] = Ends(is)[k] + Size(is[k + 1])
             /\ is[k + 1] \in WriterCalls /\ Size(is[k + 1]) \in Nat
  <2>1. k + 1 \in 1..n /\ k + 1 - 1 = k
    BY <1>1
  <2>2. Ends(is)[k + 1] = Ends(is)[k] + Size(is[k + 1])
    BY <2>1, EndsDef
  <2>3. is[k + 1] \in WriterCalls
    BY <2>1
  <2> QED BY <2>2, <2>3, ItemHead
<1>3. \A k \in Nat : k \in T
  <2>1. 0 \in T
    BY EndsDef
  <2>2. ASSUME NEW k \in Nat, k \in T PROVE k + 1 \in T
    <3>1. SUFFICES ASSUME k + 1 =< n PROVE Ends(is)[k + 1] \in Nat
      OBVIOUS
    <3>2. k \in 0..(n - 1) /\ k =< n
      BY <1>1, <3>1
    <3> QED BY <1>2, <2>2, <3>2
  <2> HIDE DEF T
  <2> QED BY <2>1, <2>2, NatInductionSet
<1> QED BY <1>1, <1>2, <1>3

\* The buffer b holds the first e bytes, or as many as the capacity c allows.
Filled(b, e, c) ==
  b \in Seq(Byte) /\ Len(b) =< c /\ Len(b) =< e /\ (e =< c => Len(b) = e)

\* After k calls the buffer holds the first k items, or they did not fit.
LEMMA BufferTypes ==
  ASSUME NEW is \in Seq(WriterCalls), NEW c \in Nat, NEW k \in 0..Len(is)
  PROVE  Filled(Buffers(is, c)[k], Ends(is)[k], c)
<1> DEFINE n == Len(is)
           P(j) == Filled(Buffers(is, c)[j], Ends(is)[j], c)
           T == {j \in Nat : j =< n => P(j)}
<1>1. n \in Nat
  OBVIOUS
<1>2. 0 \in T
  <2>1. Filled(<<>>, 0, c)
    BY DEF Filled
  <2> QED BY <2>1, BuffersDef, EndsDef
<1>3. ASSUME NEW j \in Nat, j \in T PROVE j + 1 \in T
  <2>1. SUFFICES ASSUME j + 1 =< n PROVE P(j + 1)
    OBVIOUS
  <2>2. j + 1 \in 1..n /\ j + 1 - 1 = j /\ j \in 0..(n - 1) /\ j =< n /\ j \in 0..n
    BY <1>1, <2>1
  <2>3. PICK it \in WriterCalls : it = is[j + 1]
    BY <2>2
  <2>4. PICK b, w : b = Buffers(is, c)[j] /\ w = Buffers(is, c)[j + 1]
    OBVIOUS
  <2>5. w = Write(b, c, it)
    BY <2>2, <2>3, <2>4, BuffersDef
  <2>6. PICK e \in Nat : e = Ends(is)[j]
    BY <2>2, EndsTypes
  <2>7. Ends(is)[j + 1] = e + Size(it) /\ Size(it) \in Nat
    BY <2>2, <2>3, <2>6, EndsTypes, ItemHead
  <2>8. b \in Seq(Byte) /\ Len(b) =< c /\ Len(b) =< e /\ (e =< c => Len(b) = e)
    BY <1>3, <2>2, <2>4, <2>6 DEF Filled
  <2>9. Put(b, w, c, it)
    BY <2>5, <2>8, ItemWritten
  <2>10. Filled(w, e + Size(it), c)
    BY <2>7, <2>8, <2>9 DEF Put, Filled
  <2> QED BY <2>4, <2>7, <2>10
<1> HIDE DEF T
<1>4. k \in T
  BY <1>1, <1>2, <1>3, NatInductionSet
<1>5. k =< n
  BY <1>1
<1> QED BY <1>4, <1>5 DEF T

\* Writing on never changes what is there.
Extends(b, w) == Len(b) =< Len(w) /\ \A i \in 1..Len(b) : w[i] = b[i]

\* The buffer after j calls is the beginning of the buffer after k.
LEMMA BufferPrefix ==
  ASSUME NEW is \in Seq(WriterCalls), NEW c \in Nat, NEW j \in 0..Len(is),
         NEW k \in j..Len(is)
  PROVE  Extends(Buffers(is, c)[j], Buffers(is, c)[k])
<1>1. PICK b : b = Buffers(is, c)[j]
  OBVIOUS
<1> DEFINE n == Len(is)
           P(m) == Extends(b, Buffers(is, c)[m])
           T == {m \in Nat : m \in j..n => P(m)}
<1>a. Filled(b, Ends(is)[j], c)
  BY <1>1, BufferTypes
<1>2. n \in Nat /\ b \in Seq(Byte) /\ Len(b) =< c
  BY <1>a DEF Filled
<1>3. P(j)
  BY <1>1, <1>2 DEF Extends
<1>4. 0 \in T
  BY <1>3
<1>5. ASSUME NEW m \in Nat, m \in T PROVE m + 1 \in T
  <2>1. SUFFICES ASSUME m + 1 \in j..n PROVE P(m + 1)
    OBVIOUS
  <2>2. CASE m + 1 = j
    BY <1>3, <2>2
  <2>3. CASE m + 1 # j
    <3>1. m \in j..n /\ m + 1 \in 1..n /\ m + 1 - 1 = m /\ m \in 0..n
      BY <1>2, <2>1, <2>3
    <3>2. PICK it \in WriterCalls : it = is[m + 1]
      BY <3>1
    <3>3. PICK v, w : v = Buffers(is, c)[m] /\ w = Buffers(is, c)[m + 1]
      OBVIOUS
    <3>4. w = Write(v, c, it)
      BY <3>1, <3>2, <3>3, BuffersDef
    <3>a. Filled(v, Ends(is)[m], c)
      BY <3>1, <3>3, BufferTypes
    <3>5. v \in Seq(Byte) /\ Len(v) =< c
      BY <3>a DEF Filled
    <3>6. Put(v, w, c, it)
      BY <3>4, <3>5, ItemWritten
    <3>7. Extends(b, v)
      BY <1>5, <3>1, <3>3
    <3>8. Extends(b, w)
      BY <1>2, <3>5, <3>6, <3>7 DEF Put, Extends
    <3> QED BY <3>3, <3>8
  <2> QED BY <2>2, <2>3
<1> HIDE DEF T
<1>6. k \in Nat /\ k \in j..n
  BY <1>2
<1>7. k \in T
  BY <1>4, <1>5, <1>6, NatInductionSet
<1>8. P(k)
  BY <1>6, <1>7 DEF T
<1> QED BY <1>1, <1>8

\* The buffer after the last call.
LEMMA WrittenData ==
  ASSUME NEW is \in Seq(WriterCalls), NEW c \in Nat
  PROVE  Filled(WriteAll(is, c), BytesNeeded(is), c) /\ BytesNeeded(is) \in Nat
<1>1. Len(is) \in 0..Len(is)
  OBVIOUS
<1> QED BY <1>1, BufferTypes, EndsTypes DEF WriteAll, BytesNeeded

\* At e the data d hold the bytes of an item, as far as they reach.
Laid(d, e, it) ==
  /\ \A i \in 1..Len(HeadOf(it)) : e + i =< Len(d) => d[e + i] = HeadOf(it)[i]
  /\ IsChunk(it) /\ e + Size(it) =< Len(d) =>
       \A i \in 1..Len(it.arg) : d[e + Len(HeadOf(it)) + i] = it.arg[i]

\* An item that begins inside the final buffer lies there, as far as the buffer
\* goes.
LEMMA Layout ==
  ASSUME NEW is \in Seq(WriterCalls), NEW c \in Nat,
         NEW k \in 0..(Len(is) - 1), Ends(is)[k] =< Len(WriteAll(is, c))
  PROVE  Laid(WriteAll(is, c), Ends(is)[k], is[k + 1])
<1>1. /\ Len(is) \in Nat /\ k \in 0..Len(is) /\ k + 1 \in 1..Len(is)
      /\ k + 1 \in 0..Len(is) /\ Len(is) \in (k + 1)..Len(is) /\ k + 1 - 1 = k
  OBVIOUS
<1>2. PICK b, w, d, e, it, h :
        /\ b = Buffers(is, c)[k] /\ w = Buffers(is, c)[k + 1] /\ d = WriteAll(is, c)
        /\ e = Ends(is)[k] /\ it = is[k + 1] /\ h = HeadOf(it)
  OBVIOUS
<1>a. e =< Len(d)
  BY <1>2
<1>3. it \in WriterCalls /\ w = Write(b, c, it)
  BY <1>1, <1>2, BuffersDef
<1>4. d \in Seq(Byte) /\ Len(d) =< c /\ e \in Nat /\ Len(d) \in Nat
  <2>1. Filled(d, BytesNeeded(is), c) /\ e \in Nat
    BY <1>1, <1>2, WrittenData, EndsTypes
  <2> QED BY <2>1 DEF Filled
<1>5. b \in Seq(Byte) /\ Len(b) = e
  <2>1. Filled(b, e, c)
    BY <1>1, <1>2, BufferTypes
  <2> QED BY <1>a, <1>4, <2>1 DEF Filled
<1>7. Put(b, w, c, it)
  BY <1>3, <1>4, <1>5, <1>a, ItemWritten
<1>6. /\ Len(w) =< Len(d) /\ w \in Seq(Byte) /\ Len(w) \in Nat
      /\ \A i \in 1..Len(w) : d[i] = w[i]
  <2>1. Extends(w, d)
    BY <1>1, <1>2, BufferPrefix DEF WriteAll
  <2> QED BY <1>7, <2>1 DEF Put, Extends
<1>8. h \in Seq(Byte) /\ Size(it) \in Nat /\ Len(h) \in Nat
      /\ (IsChunk(it) => Len(it.arg) \in Nat /\ Size(it) = Len(h) + Len(it.arg))
  <2>1. HeadOf(it) \in Seq(Byte) /\ Size(it) \in Nat
    BY <1>3, ItemHead
  <2>2. h \in Seq(Byte) /\ Len(h) \in Nat
    BY <1>2, <2>1
  <2>3. ASSUME IsChunk(it)
        PROVE  Len(it.arg) \in Nat /\ Size(it) = Len(h) + Len(it.arg)
    <3>1. it.arg \in Seq(Byte)
      BY <1>3, <2>3, ItemTypes
    <3>2. Size(it) = Len(h) + Len(it.arg)
      BY <1>2, <2>3 DEF Size
    <3> QED BY <3>1, <3>2
  <2> QED BY <2>1, <2>2, <2>3
<1>9. ASSUME NEW i \in 1..Len(h), e + i =< Len(d)
      PROVE  d[e + i] = h[i]
  <2>1. e + i =< c
    BY <1>4, <1>8, <1>9
  <2>2. e + i =< Len(w) /\ w[e + i] = h[i]
    BY <1>2, <1>5, <1>7, <2>1 DEF Put
  <2>3. e + i \in 1..Len(w)
    BY <1>4, <1>6, <1>8, <2>2
  <2> QED BY <1>6, <2>2, <2>3
<1>10. ASSUME IsChunk(it), e + Size(it) =< Len(d), NEW i \in 1..Len(it.arg)
       PROVE  d[e + Len(h) + i] = it.arg[i]
  <2>1. e + Size(it) =< c
    BY <1>4, <1>8, <1>10
  <2>2. Len(w) = e + Size(it) /\ w[e + Len(h) + i] = it.arg[i]
    BY <1>2, <1>5, <1>7, <1>10, <2>1 DEF Put
  <2>a. Len(it.arg) \in Nat /\ Size(it) = Len(h) + Len(it.arg) /\ Len(h) \in Nat
    BY <1>8, <1>10
  <2>3. e + Len(h) + i \in 1..Len(w)
    BY <1>4, <1>10, <2>2, <2>a
  <2> QED BY <1>6, <2>2, <2>3
<1>11. Laid(d, e, it)
  BY <1>2, <1>9, <1>10 DEF Laid
<1> QED BY <1>2, <1>11

(***************************************************************************)
(* The invariant: where the reader stands in the buffer, and the parser in *)
(* the message                                                             *)
(***************************************************************************)

\* The first k items are sound, and the listener was told them.
HeardTo(k) ==
  \A j \in 1..k : j \in DOMAIN heard /\ ~Lossy(items[j]) /\ heard[j] = Told(items[j])

\* The reader has the head byte of an item, and the value comes next.
InSize(it, e) ==
  /\ state = [phase |-> "size", major |-> Major(it)]
  /\ Value(it) >= Direct
  /\ currentLength = Width(Value(it))
  /\ offset = e + 1

\* It has the head of a chunk, and the chunk comes next.
InData(it, e) ==
  /\ IsChunk(it)
  /\ state = [phase |-> "data", major |-> Major(it)]
  /\ currentLength = Value(it)
  /\ offset = e + Len(HeadOf(it))

\* The reader stands where the item after the first k begins, or inside it.
AtItem(k) ==
  \/ state = Type /\ offset = Ends(items)[k]
  \/ /\ k < Len(items) /\ ~Lossy(items[k + 1])
     /\ \/ InSize(items[k + 1], Ends(items)[k])
        \/ InData(items[k + 1], Ends(items)[k])

\* The reader has told the sound items up to where it stands.
Synced ==
  /\ Len(heard) =< Len(items)
  /\ HeardTo(Len(heard))
  /\ AtItem(Len(heard))

\* Beyond an item that loses bytes anything may be heard, but not before.
Astray == \E j \in 1..Len(items) : Lossy(items[j]) /\ HeardTo(j - 1)

\* The last item of the message loses bytes: the reader waits for bytes that are
\* not there, or skips it.
Lost ==
  /\ Len(heard) + 1 = Len(items)
  /\ HeardTo(Len(heard))
  /\ LET it == items[Len(items)]   e == Ends(items)[Len(heard)]
     IN  /\ Lossy(it) /\ Major(it) = 0
         /\ \/ /\ state = [phase |-> "size", major |-> 0] /\ offset = e + 1
               /\ currentLength = IF Len(HeadOf(it)) = 2 THEN 2 ELSE 8
            \/ /\ state = Type /\ offset = BytesNeeded(items)

\* What a turn may tell: a number, a chunk, or nothing.
Calls ==
       [on : {"integer", "array", "map", "tag", "special", "error", "nothing"}, arg : Int]
  \cup [on : {"bytes", "string"}, arg : Seq(Byte)]

\* The bytes are those of the items, and the reader's fields have their types.
ReaderOK ==
  /\ items \in Seq(WriterCalls) /\ capacity \in Nat
  /\ data = WriteAll(items, capacity) /\ data \in Seq(Byte) /\ Len(data) =< capacity
  /\ offset \in 0..Len(data) /\ currentLength \in Int
  /\ state \in [phase : {"type", "size", "data"}, major : 0..7]
  /\ state.phase = "size" => currentLength \in Widths
  /\ state.phase = "data" => state.major \in {2, 3}
  /\ heard \in Seq(Calls)

\* A reader is in step with the writer, or in a long that lost bytes, the last
\* item of a message, or, in a stream that is no message, past one.
StreamInv == Synced \/ Lost \/ (message = NoMessage /\ Astray)

\* The parser waits in s for the next item of o, which is not finished.
Waits(s, o) == pstate = s /\ currentObject = o /\ handled = <<>>

\* The parser in the wrapper, after k of its three items.
InWrapper(m, k) ==
  /\ handled = <<>>
  /\ IF IsRequest(m)
     THEN pstate = <<"INIT", "REQUEST_WRAPPER_ARRAY", "REQUEST_WRAPPER_ID",
                     "REQUEST_WRAPPER_BODY">>[k + 1]
     ELSE pstate = <<"INIT", "RESPONSE_WRAPPER_ARRAY", "RESPONSE_WRAPPER_ID",
                     "RESPONSE_WRAPPER_BODY">>[k + 1]

\* The parser in the body of a get, after k items.
InGet(m, k) ==
  \/ k = 1 /\ Waits("REQUEST_GET_ARRAY", [kind |-> "get"])
  \/ k = 2 /\ Waits("REQUEST_GET_DATABASE", [kind |-> "get"])
  \/ k = 3 /\ Waits("REQUEST_GET_TABLE", [kind |-> "get", database |-> m.database])
  \/ k = 4 /\ Waits("REQUEST_GET_PK",
                    [kind |-> "get", database |-> m.database, table |-> m.table])

\* The parser in the body of an add continuation, after k items.
InContinue(m, k) ==
  \/ k = 1 /\ Waits("REQUEST_ADD_CONTINUE_ARRAY", [kind |-> "continue"])
  \/ k = 2 /\ Waits("REQUEST_ADD_CONTINUE_INIT_REQUEST_ID", [kind |-> "continue"])
  \/ k = 3 /\ Waits("REQUEST_ADD_CONTINUE_COMPARE_RESULT",
                    [kind |-> "continue", initRequestId |-> m.initRequestId])

\* The parser in the body of a traverse response, after k items.
InTraverse(m, k) ==
  \/ k = 1 /\ Waits("RESPONSE_ADD_TRAVERSE_ARRAY", [kind |-> "traverse"])
  \/ k = 2 /\ Waits("RESPONSE_ADD_TRAVERSE_INIT_REQUEST_ID", [kind |-> "traverse"])
  \/ k = 3 /\ Waits("RESPONSE_ADD_TRAVERSE_CIPHERTEXT",
                    [kind |-> "traverse", initRequestId |-> m.initRequestId])

\* The object a row goes into.
Rowed(m, row) ==
  IF m.kind = "add"
  THEN [kind |-> "add", row |-> row, database |-> m.database, table |-> m.table]
  ELSE [kind |-> "getOk", row |-> row]

\* The row of the first j keys.
FirstColumns(row, j) ==
  LET keys == SetToSeq(DOMAIN row) IN [x \in {keys[i] : i \in 1..j} |-> row[x]]

\* The state in which a key of the row is due.
KeyState(m) ==
  IF m.kind = "add" THEN "REQUEST_ADD_ROW_MAP_KEY" ELSE "RESPONSE_GET_OK_MAP_KEY"

\* The state in which the value of a column is due.
ValueState(m) ==
  IF m.kind = "add" THEN "REQUEST_ADD_ROW_MAP_VALUE" ELSE "RESPONSE_GET_OK_MAP_VALUE"

\* The parser waits for key j + 1 of a row.
AtKey(m, j) ==
  /\ elements = Len(SetToSeq(DOMAIN m.row)) - j
  /\ Waits(KeyState(m), Rowed(m, FirstColumns(m.row, j)))

\* The parser waits for the value of key j + 1.
AtValue(m, j) ==
  /\ elements = Len(SetToSeq(DOMAIN m.row)) - j
  /\ currentKey = SetToSeq(DOMAIN m.row)[j + 1]
  /\ Waits(ValueState(m), Rowed(m, FirstColumns(m.row, j)))

\* k items of the row have been parsed: not all, but a row without columns waits
\* for a key too.
InRow(m, k) ==
  LET c == Len(SetToSeq(DOMAIN m.row))
  IN  \E j \in 0..c :
        \/ k = 2 * j /\ AtKey(m, j) /\ (j < c \/ j = 0)
        \/ k = 2 * j + 1 /\ j < c /\ AtValue(m, j)

\* The parser in the body of an add, after k items.
InAdd(m, k) ==
  \/ k = 1 /\ Waits("REQUEST_ADD_ARRAY", [kind |-> "add", row |-> <<>>])
  \/ k = 2 /\ Waits("REQUEST_ADD_DATABASE", [kind |-> "add", row |-> <<>>])
  \/ k = 3 /\ Waits("REQUEST_ADD_TABLE",
                    [kind |-> "add", row |-> <<>>, database |-> m.database])
  \/ k = 4 /\ Waits("REQUEST_ADD_ROW_MAP", Rowed(m, <<>>))
  \/ k >= 5 /\ InRow(m, k - 5)

\* The parser in the body of a response with a row, after k items.
InGetOk(m, k) ==
  \/ k = 1 /\ pstate = "RESPONSE_GET_OK_MAP" /\ handled = <<>>
  \/ k >= 2 /\ InRow(m, k - 2)

\* The parser in the body of a response that has an empty map.
InEmpty(m, k) ==
  /\ k = 1 /\ handled = <<>>
  /\ pstate = IF m.kind = "addOk" THEN "RESPONSE_ADD_OK_MAP" ELSE "RESPONSE_GET_EMPTY_MAP"

\* The parser in a body whose tag it does not know: an error for every item.
InUnknown(m, k) ==
  /\ pstate = "RESPONSE_WRAPPER_BODY"
  /\ handled = [i \in 1..k |-> [kind |-> "error"]]

\* The parser after k items of a body, before the last.
InBody(m, k) ==
  CASE m.kind = "get"      -> InGet(m, k)
    [] m.kind = "add"      -> InAdd(m, k)
    [] m.kind = "continue" -> InContinue(m, k)
    [] m.kind = "getOk"    -> InGetOk(m, k)
    [] m.kind = "traverse" -> InTraverse(m, k)
    [] m.kind = "addError" -> InUnknown(m, k)
    [] m.kind \in {"getEmpty", "addOk"} -> InEmpty(m, k)

\* The messages that hold a row.
HasRow(m) == m.kind \in {"add", "getOk"}

\* The parser after k items of the message.
Parsed(m, k) ==
  \/ k \in 0..3 /\ InWrapper(m, k) /\ (k = 3 => currentRequestId = m.id)
  \/ k > 3 /\ InBody(m, k - 3) /\ currentRequestId = m.id
  \/ /\ k = Len(items) /\ handled = <<Arrived(m)>> /\ m.kind # "addError"
     /\ HasRow(m) => DOMAIN m.row # {}

\* The parser stands where the items heard so far take it.
ParserInv == message # NoMessage => Parsed(message, Len(heard))

(***************************************************************************)
(* A turn of the reader: the types of what it leaves and of what it tells  *)
(***************************************************************************)

\* A byte is a major type and a minor value.
LEMMA ByteHead ==
  ASSUME NEW b \in Byte
  PROVE  b \div Minors \in 0..7 /\ b % Minors \in 0..(Minors - 1)
<1>1. b \in Nat /\ b < 8 * Minors /\ Minors \in Nat /\ Minors > 0
  BY Sizes DEF Byte
<1>2. b \div Minors \in Nat /\ b \div Minors < 8
  BY <1>1, Division, LessDivided
<1>3. b % Minors \in Nat /\ b % Minors < Minors
  BY <1>1, Division
<1> QED BY <1>1, <1>2, <1>3

\* The method of the listener for each major type (CborReader::Run).
LEMMA ListenerNames ==
  /\ \A m \in 0..7 \ {2, 3} : Listener[m] \in {"integer", "array", "map", "tag", "special"}
  /\ \A m \in {2, 3} : Listener[m] \in {"bytes", "string"}
  BY DEF Listener

\* What the listener is told of a number is an integer.
LEMMA Arguments ==
  ASSUME NEW major \in 0..7, NEW v \in Nat
  PROVE  Argument(major, v) \in Int /\ AsInt(v) \in Int
<1>1. UIntMax \in Nat
  BY Sizes
<1>2. \A i \in Nat : AsInt(i) \in Int
  BY <1>1 DEF AsInt
<1>3. \A i \in Int : AsUInt(i) \in Nat
  BY <1>1 DEF AsUInt
<1>4. AsInt(AsUInt(-AsInt(v))) \in Int
  <2>1. -AsInt(v) \in Int
    BY <1>2
  <2> QED BY <1>2, <1>3, <2>1
<1> QED BY <1>2, <1>4 DEF Argument

\* The bytes of a value make a number.
LEMMA Numbers ==
  ASSUME NEW s \in Seq(Byte), Len(s) \in {1, 2, 4}
  PROVE  Number(s) \in Nat
<1> DEFINE B == Base * Base
<1>1. Base \in Nat /\ B \in Nat
  BY Sizes
<1> HIDE DEF B
<1>2. \A i \in 1..Len(s) : s[i] \in Nat
  BY <1>1 DEF Byte
<1>3. \A x, y \in Nat : x * y \in Nat /\ x + y \in Nat
  OBVIOUS
<1>4. Number(s) = CASE Len(s) = 1 -> s[1]
                    [] Len(s) = 2 -> s[1] * Base + s[2]
                    [] Len(s) = 4 -> (s[1] * Base + s[2]) * B + (s[3] * Base + s[4])
  BY DEF Number, B
<1>5. CASE Len(s) = 1
  BY <1>2, <1>4, <1>5
<1>6. CASE Len(s) = 2
  <2>1. s[1] \in Nat /\ s[2] \in Nat
    BY <1>2, <1>6
  <2>2. Number(s) = s[1] * Base + s[2]
    BY <1>4, <1>6
  <2> QED BY <1>1, <1>3, <2>1, <2>2
<1>7. CASE Len(s) = 4
  <2>1. s[1] \in Nat /\ s[2] \in Nat /\ s[3] \in Nat /\ s[4] \in Nat
    BY <1>2, <1>7
  <2>2. Number(s) = (s[1] * Base + s[2]) * B + (s[3] * Base + s[4])
    BY <1>4, <1>7
  <2>3. s[1] * Base + s[2] \in Nat /\ s[3] * Base + s[4] \in Nat
    BY <1>1, <1>3, <2>1
  <2> QED BY <1>1, <1>3, <2>2, <2>3
<1> QED BY <1>5, <1>6, <1>7

\* The bytes a turn takes are those of the buffer behind the offset.
LEMMA NextBytesAre ==
  ASSUME ReaderOK, NEW n \in Nat, HasBytes(n)
  PROVE  /\ NextBytes(n) \in Seq(Byte) /\ Len(NextBytes(n)) = n
         /\ offset + n \in 0..Len(data)
         /\ \A i \in 1..n : NextBytes(n)[i] = data[offset + i]
<1>1. data \in Seq(Byte) /\ offset \in 0..Len(data) /\ Len(data) \in Nat
  BY DEF ReaderOK
<1>2. offset + n \in 0..Len(data)
  BY <1>1 DEF HasBytes
<1> QED BY <1>1, <1>2 DEF NextBytes

\* A turn leaves the reader's fields in their types and tells the listener
\* something of its type.
LEMMA TurnTypes ==
  ASSUME ReaderOK, Turn
  PROVE  /\ data' = data /\ offset' \in 0..Len(data) /\ currentLength' \in Int
         /\ state' \in [phase : {"type", "size", "data"}, major : 0..7]
         /\ state'.phase = "size" => currentLength' \in Widths
         /\ state'.phase = "data" => state'.major \in {2, 3}
         /\ callback' \in Calls
<1>1. /\ data \in Seq(Byte) /\ offset \in 0..Len(data) /\ Len(data) \in Nat
      /\ currentLength \in Int
      /\ state \in [phase : {"type", "size", "data"}, major : 0..7]
      /\ state.phase = "size" => currentLength \in Widths
      /\ state.phase = "data" => state.major \in {2, 3}
      /\ state.major \in 0..7
  BY DEF ReaderOK
<1> DEFINE States == [phase : {"type", "size", "data"}, major : 0..7]
<1>t. Type \in States /\ Type.phase = "type"
  BY DEF Type
<1>e. \A p \in {"type", "size", "data"}, m \in 0..7 : [phase |-> p, major |-> m] \in States
  OBVIOUS
<1>c. /\ \A m \in 0..7 \ {2, 3}, i \in Int : Call(Listener[m], i) \in Calls
      /\ \A m \in {2, 3}, s \in Seq(Byte) : Call(Listener[m], s) \in Calls
      /\ NoCall \in Calls /\ Call("error", 0) \in Calls
  BY ListenerNames DEF Call, Calls, NoCall
<1>2. CASE ReadType
  <2> DEFINE major == data[offset + 1] \div Minors
             minor == data[offset + 1] % Minors
  <2>1. /\ state = Type /\ HasBytes(1) /\ offset' = offset + 1 /\ data' = data
        /\ \/ /\ minor < Direct /\ major \notin {2, 3}
              /\ callback' = Call(Listener[major], Argument(major, minor))
              /\ UNCHANGED <<state, currentLength>>
           \/ /\ minor < Direct /\ major \in {2, 3}
              /\ state' = [phase |-> "data", major |-> major]
              /\ currentLength' = minor
              /\ callback' = NoCall
           \/ \E n \in Widths :
                /\ minor = WidthCode(n)
                /\ state' = [phase |-> "size", major |-> major]
                /\ currentLength' = n
                /\ callback' = NoCall
           \/ /\ minor > WidthCode(8)
              /\ callback' = Call("error", 0)
              /\ UNCHANGED <<state, currentLength>>
    BY <1>2 DEF ReadType
  <2>2. offset + 1 \in 1..Len(data) /\ data[offset + 1] \in Byte
    BY <1>1, <2>1 DEF HasBytes
  <2>3. major \in 0..7 /\ minor \in 0..(Minors - 1) /\ minor \in Nat
    BY <2>2, ByteHead, Sizes
  <2>4. Widths \subseteq Int
    BY DEF Widths
  <2> HIDE DEF major, minor
  <2>5. Argument(major, minor) \in Int
    BY <2>3, Arguments
  <2>6. offset' \in 0..Len(data) /\ data' = data
    BY <1>1, <2>1, <2>2
  <2>7. currentLength' \in Int /\ state' \in States /\ callback' \in Calls
    <3>1. CASE minor < Direct /\ major \notin {2, 3}
               /\ callback' = Call(Listener[major], Argument(major, minor))
               /\ UNCHANGED <<state, currentLength>>
      BY <1>1, <1>c, <2>3, <2>5, <3>1
    <3>2. CASE minor < Direct /\ major \in {2, 3}
               /\ state' = [phase |-> "data", major |-> major]
               /\ currentLength' = minor /\ callback' = NoCall
      BY <1>c, <1>e, <2>3, <3>2
    <3>3. CASE \E n \in Widths : /\ minor = WidthCode(n)
                                 /\ state' = [phase |-> "size", major |-> major]
                                 /\ currentLength' = n /\ callback' = NoCall
      BY <1>c, <1>e, <2>3, <2>4, <3>3
    <3>4. CASE minor > WidthCode(8) /\ callback' = Call("error", 0)
               /\ UNCHANGED <<state, currentLength>>
      BY <1>1, <1>c, <3>4
    <3> QED BY <2>1, <3>1, <3>2, <3>3, <3>4
  <2>8. /\ state'.phase = "size" => currentLength' \in Widths
        /\ state'.phase = "data" => state'.major \in {2, 3}
    BY <1>t, <2>1
  <2> QED BY <2>6, <2>7, <2>8
<1>3. CASE ReadValue
  <2> DEFINE v == Number(NextBytes(currentLength))
  <2>1. /\ state.phase = "size" /\ currentLength # 8 /\ HasBytes(currentLength)
        /\ offset' = offset + currentLength /\ data' = data
    BY <1>3 DEF ReadValue
  <2>2. currentLength \in {1, 2, 4} /\ currentLength \in Nat
    BY <1>1, <2>1 DEF Widths
  <2>3. v \in Nat
    BY <2>1, <2>2, NextBytesAre, Numbers
  <2>4. offset' \in 0..Len(data)
    BY <2>1, <2>2, NextBytesAre
  <2>5. IF state.major \in {2, 3}
        THEN /\ currentLength' = AsInt(v)
             /\ state' = [state EXCEPT !.phase = "data"]
             /\ callback' = NoCall
        ELSE /\ callback' = Call(Listener[state.major], Argument(state.major, v))
             /\ state' = Type
             /\ currentLength' = IF state.major \in {4, 5} /\ currentLength = 2
                                 THEN v ELSE currentLength
    BY <1>3 DEF ReadValue
  <2>6. AsInt(v) \in Int /\ Argument(state.major, v) \in Int
    BY <1>1, <2>3, Arguments
  <2> HIDE DEF v
  <2>7. CASE state.major \in {2, 3}
    <3>1. /\ state' \in States /\ state'.phase = "data" /\ state'.major \in {2, 3}
          /\ currentLength' \in Int /\ callback' \in Calls
      BY <1>1, <1>c, <2>5, <2>6, <2>7
    <3> QED BY <2>1, <2>4, <3>1
  <2>8. CASE state.major \notin {2, 3}
    <3>1. state' \in States /\ state'.phase = "type"
      BY <1>t, <2>5, <2>8
    <3>2. currentLength' \in Int
      BY <1>1, <2>3, <2>5, <2>8
    <3>3. callback' \in Calls
      BY <1>1, <1>c, <2>5, <2>6, <2>8
    <3> QED BY <2>1, <2>4, <3>1, <3>2, <3>3
  <2> QED BY <2>7, <2>8
<1>4. CASE ReadLong
  <2>1. offset + 8 \in 0..Len(data) /\ data' = data
    BY <1>1, <1>4 DEF ReadLong, HasBytes
  <2>2. callback' \in Calls
    BY <1>c, <1>4 DEF ReadLong
  <2>3. LongChunk \in Int
    BY DEF LongChunk
  <2>4. \/ /\ state' = Type /\ currentLength' = currentLength
           /\ offset' \in {offset, offset + 8}
        \/ state' = state /\ currentLength' = currentLength /\ offset' = offset
        \/ /\ state.major \in {2, 3} /\ state' = [state EXCEPT !.phase = "data"]
           /\ currentLength' = LongChunk /\ offset' = offset + 8
    BY <1>4 DEF ReadLong
  <2>5. offset' \in 0..Len(data) /\ currentLength' \in Int
    BY <1>1, <2>1, <2>3, <2>4
  <2>6. CASE state' = [state EXCEPT !.phase = "data"] /\ state.major \in {2, 3}
    <3>1. state' \in States /\ state'.phase = "data" /\ state'.major = state.major
      BY <1>1, <2>6
    <3> QED BY <2>1, <2>2, <2>5, <2>6, <3>1
  <2>7. CASE state' = Type
    BY <1>t, <2>1, <2>2, <2>5, <2>7
  <2>8. CASE state' = state /\ currentLength' = currentLength
    BY <1>1, <2>1, <2>2, <2>5, <2>8
  <2> QED BY <2>4, <2>6, <2>7, <2>8
<1>5. CASE ReadData
  <2>1. /\ state.phase = "data" /\ ~Throws /\ HasBytes(currentLength)
        /\ offset' = offset + currentLength /\ state' = Type
        /\ callback' = Call(Listener[state.major], NextBytes(currentLength))
        /\ data' = data /\ currentLength' = currentLength
    BY <1>5 DEF ReadData
  <2>2. currentLength \in Nat
    BY <1>1, <2>1 DEF Throws
  <2>3. offset' \in 0..Len(data) /\ NextBytes(currentLength) \in Seq(Byte)
    BY <2>1, <2>2, NextBytesAre
  <2>4. callback' \in Calls
    BY <1>1, <1>c, <2>1, <2>3
  <2> QED BY <1>1, <1>t, <2>1, <2>3, <2>4
<1> QED BY <1>2, <1>3, <1>4, <1>5 DEF Turn

(***************************************************************************)
(* The reader inside an item that loses nothing                            *)
(***************************************************************************)

\* The head of an item that loses nothing.
LEMMA SoundShape ==
  ASSUME NEW it \in WriterCalls, ~Lossy(it)
  PROVE  /\ Major(it) \in 0..7 /\ Value(it) \in Nat
         /\ HeadOf(it) \in Seq(Byte) /\ Len(HeadOf(it)) \in Nat /\ Len(HeadOf(it)) >= 1
         /\ HeadOf(it)[1] \div Minors = Major(it)
         /\ Value(it) < Direct =>
              Len(HeadOf(it)) = 1 /\ HeadOf(it)[1] % Minors = Value(it)
         /\ Value(it) >= Direct =>
              /\ Width(Value(it)) \in {1, 2, 4}
              /\ Len(HeadOf(it)) = Width(Value(it)) + 1
              /\ HeadOf(it)[1] % Minors = WidthCode(Width(Value(it)))
              /\ \A s \in Seq(Byte) :
                   Len(s) = Width(Value(it))
                     /\ (\A i \in 1..Width(Value(it)) : s[i] = HeadOf(it)[i + 1])
                   => Number(s) = Value(it)
         /\ IsChunk(it) <=> Major(it) \in {2, 3}
         /\ IsChunk(it) => /\ it.arg \in Seq(Byte) /\ Len(it.arg) = Value(it)
                           /\ AsInt(Value(it)) = Value(it)
                           /\ Size(it) = Len(HeadOf(it)) + Value(it)
         /\ ~IsChunk(it) => Size(it) = Len(HeadOf(it))
<1>1. Value(it) \in UInt /\ HeadOf(it) = TypeAndValue(Major(it), Value(it))
  BY SoundHead
<1>2. /\ Major(it) \in 0..7 /\ Value(it) \in Nat
      /\ IsChunk(it) <=> Major(it) \in {2, 3}
      /\ IsChunk(it) => it.arg \in Seq(Byte) /\ Value(it) = Len(it.arg)
                        /\ Value(it) =< IntMax
  BY ItemTypes
<1>3. IsChunk(it) => AsInt(Value(it)) = Value(it)
  BY <1>2, AsInts, Sizes
<1>4. /\ IsChunk(it) => Size(it) = Len(HeadOf(it)) + Value(it)
      /\ ~IsChunk(it) => Size(it) = Len(HeadOf(it))
  BY ItemHead
<1>5. PICK h, v, n, m : h = HeadOf(it) /\ v = Value(it) /\ n = Width(v) /\ m = Major(it)
  OBVIOUS
<1>6. m \in 0..7 /\ v \in UInt /\ h = TypeAndValue(m, v)
  BY <1>1, <1>2, <1>5
<1>7. HasHead(h, m, v)
  BY <1>6, HeadShape
<1>8. Len(h) \in Nat
  BY <1>7 DEF HasHead
<1> QED BY <1>2, <1>3, <1>4, <1>5, <1>7, <1>8, Zenon DEF HasHead

\* The reader inside an item.
Inside(it, e) == InSize(it, e) \/ InData(it, e)

\* The item is told, and the next one begins.
Done(it, e) == callback' = Told(it) /\ state' = Type /\ offset' = e + Size(it)

\* At the head of a sound item, a turn ends the item or stays inside it.
LEMMA FromType ==
  ASSUME ReaderOK, Turn, NEW it \in WriterCalls, NEW e \in Nat, Laid(data, e, it),
         ~Lossy(it), state = Type, offset = e
  PROVE  Done(it, e) \/ (callback' = NoCall /\ Inside(it, e)')
<1> DEFINE v == Value(it)   m == Major(it)   h == HeadOf(it)
           major == data[offset + 1] \div Minors
           minor == data[offset + 1] % Minors
<1>1. ReadType
  BY DEF Turn, ReadValue, ReadLong, ReadData, Type
<1>2. /\ HasBytes(1) /\ offset' = offset + 1
      /\ \/ /\ minor < Direct /\ major \notin {2, 3}
            /\ callback' = Call(Listener[major], Argument(major, minor))
            /\ UNCHANGED <<state, currentLength>>
         \/ /\ minor < Direct /\ major \in {2, 3}
            /\ state' = [phase |-> "data", major |-> major]
            /\ currentLength' = minor
            /\ callback' = NoCall
         \/ \E n \in Widths :
              /\ minor = WidthCode(n)
              /\ state' = [phase |-> "size", major |-> major]
              /\ currentLength' = n
              /\ callback' = NoCall
         \/ /\ minor > WidthCode(8)
            /\ callback' = Call("error", 0)
            /\ UNCHANGED <<state, currentLength>>
  BY <1>1 DEF ReadType
<1>3. /\ m \in 0..7 /\ v \in Nat /\ Len(h) \in Nat /\ Len(h) >= 1
      /\ h[1] \div Minors = m
      /\ v < Direct => Len(h) = 1 /\ h[1] % Minors = v
      /\ v >= Direct => Width(v) \in {1, 2, 4} /\ h[1] % Minors = WidthCode(Width(v))
      /\ IsChunk(it) <=> m \in {2, 3}
      /\ ~IsChunk(it) => Size(it) = Len(h)
  BY SoundShape
<1>4. data[offset + 1] = h[1]
  <2>1. 1 \in 1..Len(h) /\ e + 1 =< Len(data)
    BY <1>2, <1>3 DEF HasBytes, ReaderOK
  <2> QED BY <2>1 DEF Laid
<1>5. major = m /\ (v < Direct => minor = v) /\ (v >= Direct => minor = WidthCode(Width(v)))
  BY <1>3, <1>4
<1>6. /\ Direct \in Nat /\ WidthCode(1) = Direct /\ WidthCode(2) = Direct + 1
      /\ WidthCode(4) = Direct + 2 /\ WidthCode(8) = Direct + 3
  BY Sizes, WidthCodes
<1>t. Told(it) = Call(Listener[m], IF IsChunk(it) THEN it.arg ELSE Argument(m, v))
  BY ToldByReader
<1>w. PICK w : w = Width(v)
  OBVIOUS
<1> HIDE DEF major, minor, m, v, h
<1>7. CASE v < Direct /\ m \notin {2, 3}
  <2>1. minor < Direct /\ ~(minor > WidthCode(8)) /\ \A n \in Widths : minor # WidthCode(n)
    BY <1>3, <1>5, <1>6, <1>7 DEF Widths
  <2>2. /\ callback' = Call(Listener[major], Argument(major, minor))
        /\ state' = state
    BY <1>2, <1>5, <1>7, <2>1
  <2>3. callback' = Told(it)
    BY <1>3, <1>5, <1>7, <1>t, <2>2
  <2>4. Done(it, e)
    BY <1>2, <1>3, <1>7, <2>2, <2>3 DEF Done
  <2> QED BY <2>4
<1>8. CASE v < Direct /\ m \in {2, 3}
  <2>1. minor < Direct /\ ~(minor > WidthCode(8)) /\ \A n \in Widths : minor # WidthCode(n)
    BY <1>3, <1>5, <1>6, <1>8 DEF Widths
  <2>2. /\ state' = [phase |-> "data", major |-> m]
        /\ currentLength' = v /\ callback' = NoCall
    BY <1>2, <1>5, <1>8, <2>1
  <2>3. InData(it, e)'
    BY <1>2, <1>3, <1>8, <2>2 DEF InData, m, v, h
  <2> QED BY <2>2, <2>3 DEF Inside
<1>9. CASE ~(v < Direct)
  <2>1. v >= Direct /\ w \in {1, 2, 4} /\ minor = WidthCode(w)
    BY <1>3, <1>5, <1>6, <1>9, <1>w
  <2>2. ~(minor < Direct) /\ ~(minor > WidthCode(8))
    BY <1>6, <2>1
  <2>3. \A n \in Widths : minor = WidthCode(n) => n = w
    <3>1. ASSUME NEW n \in Widths, WidthCode(w) = WidthCode(n) PROVE n = w
      BY <1>6, <2>1, <3>1 DEF Widths
    <3> QED BY <2>1, <3>1
  <2>4. /\ state' = [phase |-> "size", major |-> m]
        /\ currentLength' = w /\ callback' = NoCall
    BY <1>2, <1>5, <2>2, <2>3
  <2>5. InSize(it, e)'
    BY <1>2, <1>w, <2>1, <2>4 DEF InSize, m, v
  <2> QED BY <2>4, <2>5 DEF Inside
<1> QED BY <1>7, <1>8, <1>9

\* Before the value of a sound item, a turn ends the item or goes on to its
\* chunk.
LEMMA FromSize ==
  ASSUME ReaderOK, Turn, NEW it \in WriterCalls, NEW e \in Nat, Laid(data, e, it),
         ~Lossy(it), InSize(it, e)
  PROVE  Done(it, e) \/ (callback' = NoCall /\ Inside(it, e)')
<1> DEFINE s == NextBytes(currentLength)
<1>0. PICK v, m, h, n : v = Value(it) /\ m = Major(it) /\ h = HeadOf(it) /\ n = Width(v)
  OBVIOUS
<1>1. /\ state = [phase |-> "size", major |-> m] /\ v >= Direct /\ currentLength = n
      /\ offset = e + 1
  BY <1>0 DEF InSize
<1>2. /\ m \in 0..7 /\ v \in Nat /\ Len(h) \in Nat
      /\ n \in {1, 2, 4} /\ Len(h) = n + 1
      /\ \A b \in Seq(Byte) :
           Len(b) = n /\ (\A i \in 1..n : b[i] = h[i + 1]) => Number(b) = v
      /\ IsChunk(it) <=> m \in {2, 3}
      /\ IsChunk(it) => AsInt(v) = v
      /\ ~IsChunk(it) => Size(it) = Len(h)
  BY <1>0, <1>1, SoundShape
<1>3. ReadValue
  BY <1>1, <1>2 DEF Turn, ReadType, ReadLong, ReadData, Type
<1>4. HasBytes(n) /\ offset' = offset + n
  BY <1>1, <1>3 DEF ReadValue
<1>5. /\ s \in Seq(Byte) /\ Len(s) = n /\ \A i \in 1..n : s[i] = data[offset + i]
  BY <1>1, <1>2, <1>4, NextBytesAre
<1>6. ASSUME NEW i \in 1..n
      PROVE  s[i] = h[i + 1]
  <2>1. i + 1 \in 1..Len(h) /\ e + (i + 1) =< Len(data) /\ offset + i = e + (i + 1)
    <3>1. n \in Nat /\ Len(data) \in Nat
      BY <1>2 DEF ReaderOK
    <3> QED BY <1>1, <1>2, <1>4, <3>1 DEF HasBytes
  <2>2. data[e + (i + 1)] = h[i + 1]
    BY <1>0, <2>1 DEF Laid
  <2> QED BY <1>5, <2>1, <2>2
<1>7. Number(s) = v
  BY <1>2, <1>5, <1>6
<1>8. IF m \in {2, 3}
      THEN /\ currentLength' = AsInt(v)
           /\ state' = [state EXCEPT !.phase = "data"]
           /\ callback' = NoCall
      ELSE /\ callback' = Call(Listener[m], Argument(m, v))
           /\ state' = Type
  <2>1. state.major = m
    BY <1>1
  <2> QED BY <1>3, <1>7, <2>1 DEF ReadValue
<1>9. offset' = e + Len(h)
  BY <1>1, <1>2, <1>4
<1>10. CASE m \in {2, 3}
  <2>1. state' = [phase |-> "data", major |-> m] /\ currentLength' = v /\ callback' = NoCall
    BY <1>1, <1>2, <1>8, <1>10
  <2>2. InData(it, e)'
    BY <1>0, <1>2, <1>9, <1>10, <2>1 DEF InData
  <2> QED BY <2>1, <2>2 DEF Inside
<1>11. CASE m \notin {2, 3}
  <2>1. Told(it) = Call(Listener[m], Argument(m, v))
    BY <1>0, <1>2, <1>11, ToldByReader
  <2>2. Done(it, e)
    BY <1>2, <1>8, <1>9, <1>11, <2>1 DEF Done
  <2> QED BY <2>2
<1> QED BY <1>10, <1>11

\* Before the chunk of a sound item, a turn ends the item.
LEMMA FromData ==
  ASSUME ReaderOK, Turn, NEW it \in WriterCalls, NEW e \in Nat, Laid(data, e, it),
         ~Lossy(it), InData(it, e)
  PROVE  Done(it, e)
<1> DEFINE s == NextBytes(currentLength)
<1>0. PICK v, m, h : v = Value(it) /\ m = Major(it) /\ h = HeadOf(it)
  OBVIOUS
<1>1. /\ IsChunk(it) /\ state = [phase |-> "data", major |-> m] /\ currentLength = v
      /\ offset = e + Len(h)
  BY <1>0 DEF InData
<1>2. /\ m \in 0..7 /\ v \in Nat /\ Len(h) \in Nat
      /\ it.arg \in Seq(Byte) /\ Len(it.arg) = v /\ Size(it) = Len(h) + v
  BY <1>0, <1>1, SoundShape
<1>3. ReadData
  BY <1>1 DEF Turn, ReadType, ReadValue, ReadLong, Type
<1>4. /\ HasBytes(v) /\ offset' = offset + v /\ state' = Type
      /\ callback' = Call(Listener[m], s)
  BY <1>1, <1>3 DEF ReadData
<1>5. /\ s \in Seq(Byte) /\ Len(s) = v /\ \A i \in 1..v : s[i] = data[offset + i]
  BY <1>1, <1>2, <1>4, NextBytesAre
<1>6. ASSUME NEW i \in 1..v
      PROVE  s[i] = it.arg[i]
  <2>1. i \in 1..Len(it.arg) /\ e + Size(it) =< Len(data) /\ offset + i = e + Len(h) + i
    BY <1>1, <1>2, <1>4 DEF HasBytes, ReaderOK
  <2>2. data[e + Len(h) + i] = it.arg[i]
    BY <1>0, <1>1, <2>1 DEF Laid
  <2> QED BY <1>5, <2>1, <2>2
<1> HIDE DEF s
<1>7. s = it.arg
  BY <1>2, <1>5, <1>6
<1>8. callback' = Told(it)
  BY <1>0, <1>1, <1>4, <1>7, ToldByReader
<1> QED BY <1>1, <1>2, <1>4, <1>8 DEF Done

(***************************************************************************)
(* A turn keeps the reader where the invariant says                        *)
(***************************************************************************)

\* Every item ends before the bytes of all of them do.
LEMMA EndsGrow ==
  ASSUME NEW is \in Seq(WriterCalls), NEW k \in 0..Len(is)
  PROVE  Ends(is)[k] =< BytesNeeded(is)
<1> DEFINE n == Len(is)
           T == {j \in Nat : j \in k..n => Ends(is)[k] =< Ends(is)[j]}
<1>1. n \in Nat /\ k \in Nat /\ k =< n /\ \A j \in 0..n : Ends(is)[j] \in Nat
  BY EndsTypes
<1>2. 0 \in T
  BY <1>1
<1>3. ASSUME NEW j \in Nat, j \in T PROVE j + 1 \in T
  <2>1. SUFFICES ASSUME j + 1 \in k..n PROVE Ends(is)[k] =< Ends(is)[j + 1]
    OBVIOUS
  <2>2. CASE j + 1 = k
    BY <1>1, <2>2
  <2>3. CASE j + 1 # k
    <3>1. j \in k..n /\ j \in 0..(n - 1) /\ j + 1 \in 1..n /\ j \in 0..n /\ j + 1 \in 0..n
      BY <1>1, <2>1, <2>3
    <3>2. Ends(is)[j + 1] = Ends(is)[j] + Size(is[j + 1]) /\ Size(is[j + 1]) \in Nat
      BY <3>1, EndsTypes, ItemHead
    <3>3. Ends(is)[k] =< Ends(is)[j]
      BY <1>3, <3>1
    <3> QED BY <1>1, <3>1, <3>2, <3>3
  <2> QED BY <2>2, <2>3
<1> HIDE DEF T
<1>4. n \in T
  BY <1>1, <1>2, <1>3, NatInductionSet
<1> QED BY <1>1, <1>4 DEF T, BytesNeeded

\* Where the reader may stand in the data.
LEMMA InItem ==
  ASSUME ReaderOK, NEW k \in 0..(Len(items) - 1)
  PROVE  /\ items[k + 1] \in WriterCalls /\ Ends(items)[k] \in Nat
         /\ Size(items[k + 1]) \in Nat
         /\ Ends(items)[k + 1] = Ends(items)[k] + Size(items[k + 1])
         /\ Ends(items)[k + 1] =< BytesNeeded(items)
         /\ Ends(items)[k] =< offset => Laid(data, Ends(items)[k], items[k + 1])
<1>1. /\ items \in Seq(WriterCalls) /\ capacity \in Nat /\ data = WriteAll(items, capacity)
      /\ data \in Seq(Byte) /\ offset \in 0..Len(data)
  BY DEF ReaderOK
<1>2. k + 1 \in 1..Len(items) /\ k + 1 \in 0..Len(items) /\ k \in 0..Len(items)
  BY <1>1
<1>3. Ends(items)[k] \in Nat /\ Ends(items)[k + 1] = Ends(items)[k] + Size(items[k + 1])
  BY <1>1, <1>2, EndsTypes
<1>4. items[k + 1] \in WriterCalls
  BY <1>1, <1>2
<1>5. Size(items[k + 1]) \in Nat
  BY <1>4, ItemHead
<1>6. Ends(items)[k + 1] =< BytesNeeded(items)
  BY <1>1, <1>2, EndsGrow
<1>7. ASSUME Ends(items)[k] =< offset
      PROVE  Laid(data, Ends(items)[k], items[k + 1])
  <2>1. Ends(items)[k] =< Len(data)
    BY <1>1, <1>3, <1>7
  <2> QED BY <1>1, <2>1, Layout
<1> QED BY <1>3, <1>4, <1>5, <1>6, <1>7

\* At the end of the items the reader has returned.
LEMMA NoTurnAtEnd ==
  ASSUME ReaderOK, state = Type, offset = BytesNeeded(items)
  PROVE  ~Turn
<1>1. Filled(data, BytesNeeded(items), capacity) /\ BytesNeeded(items) \in Nat
  BY WrittenData DEF ReaderOK
<1>2. Len(data) =< offset /\ Len(data) \in Nat /\ offset \in Nat
  BY <1>1 DEF Filled
<1>3. ~HasBytes(1)
  BY <1>2 DEF HasBytes
<1> QED BY <1>3 DEF Turn, ReadType, ReadValue, ReadLong, ReadData, Type

\* What was heard stays heard.
LEMMA HeardStays ==
  ASSUME ReaderOK, Hear, NEW k \in Nat, HeardTo(k)
  PROVE  /\ HeardTo(k)' /\ items' = items /\ capacity' = capacity
         /\ heard' \in Seq(Calls) /\ Len(heard') >= Len(heard)
         /\ callback'.on # "nothing" =>
              Len(heard') = Len(heard) + 1 /\ heard'[Len(heard) + 1] = callback'
         /\ callback'.on = "nothing" => heard' = heard
<1>1. heard \in Seq(Calls) /\ callback' \in Calls /\ items' = items /\ capacity' = capacity
      /\ heard' = IF callback'.on = "nothing" THEN heard ELSE Append(heard, callback')
  BY TurnTypes DEF Hear, ReaderOK
<1>2. /\ heard' \in Seq(Calls) /\ Len(heard') >= Len(heard)
      /\ \A j \in DOMAIN heard : j \in DOMAIN heard' /\ heard'[j] = heard[j]
      /\ callback'.on # "nothing" =>
           Len(heard') = Len(heard) + 1 /\ heard'[Len(heard) + 1] = callback'
      /\ callback'.on = "nothing" => heard' = heard
  BY <1>1
<1>3. HeardTo(k)'
  BY <1>1, <1>2 DEF HeardTo
<1> QED BY <1>1, <1>2, <1>3

\* In a sound item a turn keeps the reader in step.
LEMMA SoundTurn ==
  ASSUME ReaderOK, Hear, Synced, Len(heard) < Len(items), ~Lossy(items[Len(heard) + 1])
  PROVE  Synced'
<1>0. PICK k, it, e : k = Len(heard) /\ it = items[k + 1] /\ e = Ends(items)[k]
  OBVIOUS
<1>1. k \in Nat /\ Len(items) \in Nat /\ k \in 0..(Len(items) - 1) /\ ~Lossy(it)
  BY <1>0 DEF ReaderOK
<1>2. /\ it \in WriterCalls /\ e \in Nat /\ Ends(items)[k + 1] = e + Size(it)
      /\ e =< offset => Laid(data, e, it)
  BY <1>0, <1>1, InItem
<1>3. \/ state = Type /\ offset = e
      \/ InSize(it, e)
      \/ InData(it, e)
  BY <1>0 DEF Synced, AtItem
<1>4. e =< offset
  <2>1. Len(HeadOf(it)) \in Nat
    BY <1>2, ItemHead
  <2> QED BY <1>2, <1>3, <2>1 DEF InSize, InData
<1>5. Turn
  BY DEF Hear
<1>6. Done(it, e) \/ (callback' = NoCall /\ Inside(it, e)')
  BY <1>1, <1>2, <1>3, <1>4, <1>5, FromType, FromSize, FromData
<1>7. HeardTo(k)
  BY <1>0 DEF Synced
<1>8. /\ HeardTo(k)' /\ items' = items /\ heard' \in Seq(Calls)
      /\ callback'.on # "nothing" => Len(heard') = k + 1 /\ heard'[k + 1] = callback'
      /\ callback'.on = "nothing" => heard' = heard
  BY <1>0, <1>1, <1>7, HeardStays
<1>9. CASE Done(it, e)
  <2>1. /\ callback' = Told(it) /\ state' = Type /\ offset' = e + Size(it)
        /\ Told(it).on # "nothing"
    BY <1>1, <1>2, <1>9, ToldByReader DEF Done
  <2>2. Len(heard') = k + 1 /\ heard'[k + 1] = Told(it) /\ k + 1 \in DOMAIN heard'
    BY <1>1, <1>8, <2>1
  <2>3. HeardTo(k + 1)'
    BY <1>0, <1>1, <1>8, <2>2 DEF HeardTo
  <2>4. AtItem(k + 1)'
    BY <1>2, <1>8, <2>1 DEF AtItem
  <2> QED BY <1>1, <1>8, <2>2, <2>3, <2>4 DEF Synced
<1>10. CASE callback' = NoCall /\ Inside(it, e)'
  <2>1. heard' = heard
    BY <1>8, <1>10 DEF NoCall
  <2>2. AtItem(k)'
    BY <1>0, <1>1, <1>8, <1>10 DEF AtItem, Inside
  <2> QED BY <1>0, <1>1, <1>8, <2>1, <2>2 DEF Synced
<1> QED BY <1>6, <1>9, <1>10

\* After an item that loses bytes nothing is said of what is heard.
LEMMA AstrayStays ==
  ASSUME ReaderOK, Hear, Astray
  PROVE  Astray'
<1>1. PICK j \in 1..Len(items) : Lossy(items[j]) /\ HeardTo(j - 1)
  BY DEF Astray
<1>2. j - 1 \in Nat
  BY <1>1 DEF ReaderOK
<1>3. HeardTo(j - 1)' /\ items' = items
  BY <1>1, <1>2, HeardStays
<1> QED BY <1>1, <1>3 DEF Astray

\* Only the last item of a message loses bytes, and it is a positive number.
LossyLast ==
  \A j \in 1..Len(items) : Lossy(items[j]) => j = Len(items) /\ Major(items[j]) = 0

\* A turn at a long that loses bytes, the last item, leaves the reader lost.
LEMMA LossyTurn ==
  ASSUME ReaderOK, Hear, Synced, Len(heard) < Len(items), Lossy(items[Len(heard) + 1]),
         LossyLast
  PROVE  Lost'
<1>0. PICK k, it, e, h : /\ k = Len(heard) /\ it = items[k + 1] /\ e = Ends(items)[k]
                         /\ h = HeadOf(it)
  OBVIOUS
<1>1. k \in Nat /\ Len(items) \in Nat /\ k \in 0..(Len(items) - 1) /\ Lossy(it)
      /\ k + 1 \in 1..Len(items)
  BY <1>0 DEF ReaderOK
<1>2. k + 1 = Len(items) /\ Major(it) = 0
  BY <1>0, <1>1 DEF LossyLast
<1>3. it \in WriterCalls /\ e \in Nat /\ (e =< offset => Laid(data, e, it))
  BY <1>0, <1>1, InItem
<1>4. state = Type /\ offset = e
  BY <1>0, <1>1 DEF Synced, AtItem
<1>5. /\ h \in Seq(Byte) /\ h[1] \div Minors = 0 /\ Len(h) \in {2, 9}
      /\ Len(h) = 2 => h[1] % Minors = WidthCode(2)
      /\ Len(h) = 9 => h[1] % Minors = WidthCode(8)
  BY <1>0, <1>1, <1>2, <1>3, LossyHead
<1>6. ReadType
  BY <1>4 DEF Hear, Turn, ReadValue, ReadLong, ReadData, Type
<1>7. HasBytes(1) /\ offset' = e + 1
  BY <1>4, <1>6 DEF ReadType
<1>8. data[e + 1] = h[1]
  <2>1. 1 \in 1..Len(h) /\ e + 1 =< Len(data) /\ Laid(data, e, it)
    BY <1>3, <1>4, <1>5, <1>7 DEF HasBytes, ReaderOK
  <2> QED BY <1>0, <2>1 DEF Laid
<1>9. PICK n : n = IF Len(h) = 2 THEN 2 ELSE 8
  OBVIOUS
<1>10. n \in {2, 8} /\ data[offset + 1] % Minors = WidthCode(n)
       /\ data[offset + 1] \div Minors = 0
  BY <1>4, <1>5, <1>8, <1>9
<1>11. /\ Direct \in Nat /\ WidthCode(1) = Direct /\ WidthCode(2) = Direct + 1
       /\ WidthCode(4) = Direct + 2 /\ WidthCode(8) = Direct + 3
  BY Sizes, WidthCodes
<1>12. ~(WidthCode(n) < Direct) /\ ~(WidthCode(n) > WidthCode(8))
  BY <1>10, <1>11
<1>13. \A i \in Widths : WidthCode(n) = WidthCode(i) => i = n
  <2>1. ASSUME NEW i \in Widths, WidthCode(n) = WidthCode(i) PROVE i = n
    BY <1>10, <1>11, <2>1 DEF Widths
  <2> QED BY <2>1
<1>14. state' = [phase |-> "size", major |-> 0] /\ currentLength' = n /\ callback' = NoCall
  BY <1>6, <1>10, <1>12, <1>13 DEF ReadType
<1>15. HeardTo(k)
  BY <1>0 DEF Synced
<1>16. HeardTo(k)' /\ items' = items /\ heard' = heard
  BY <1>1, <1>14, <1>15, HeardStays DEF NoCall
<1> QED BY <1>0, <1>1, <1>2, <1>7, <1>9, <1>14, <1>16 DEF Lost

\* A lost reader stays lost.
LEMMA LostTurn ==
  ASSUME ReaderOK, Hear, Lost
  PROVE  Lost'
<1>0. PICK k, it, e, h : /\ k = Len(heard) /\ it = items[k + 1] /\ e = Ends(items)[k]
                         /\ h = HeadOf(it)
  OBVIOUS
<1>1. /\ k \in Nat /\ k + 1 = Len(items) /\ Lossy(it) /\ Major(it) = 0 /\ HeardTo(k)
      /\ \/ /\ state = [phase |-> "size", major |-> 0] /\ offset = e + 1
            /\ currentLength = IF Len(h) = 2 THEN 2 ELSE 8
         \/ state = Type /\ offset = BytesNeeded(items)
  BY <1>0 DEF Lost, ReaderOK
<1>2. k \in 0..(Len(items) - 1)
  BY <1>1
<1>3. it \in WriterCalls /\ e \in Nat /\ BytesNeeded(items) = e + Size(it)
  BY <1>0, <1>1, <1>2, InItem DEF BytesNeeded
<1>4. h \in Seq(Byte) /\ Len(h) \in {2, 9}
  BY <1>0, <1>1, <1>3, LossyHead
<1>5. Size(it) = Len(h)
  BY <1>0, <1>1, <1>3, ItemHead, ItemTypes
<1>6. ~(state = Type)
  BY <1>1, NoTurnAtEnd DEF Hear, Type
<1>7. /\ state = [phase |-> "size", major |-> 0] /\ offset = e + 1
      /\ currentLength = IF Len(h) = 2 THEN 2 ELSE 8
  BY <1>1, <1>6
<1>8. Filled(data, BytesNeeded(items), capacity)
  BY WrittenData DEF ReaderOK
<1>9. Len(data) =< e + Len(h) /\ Len(data) \in Nat
  BY <1>3, <1>5, <1>8 DEF Filled
<1>10. ReadLong
  <2>1. ASSUME currentLength = 2 PROVE ~HasBytes(2)
    <3>1. Len(h) = 2
      BY <1>4, <1>7, <2>1
    <3> QED BY <1>3, <1>7, <1>9, <3>1 DEF HasBytes
  <2>2. currentLength = 2 \/ currentLength = 8
    BY <1>7
  <2> QED BY <1>7, <2>1, <2>2 DEF Hear, Turn, ReadType, ReadValue, ReadData, Type
<1>11. currentLength = 8 /\ Len(h) = 9
  BY <1>4, <1>7, <1>10 DEF ReadLong
<1>12. offset' = offset + 8 /\ state' = Type /\ callback' = NoCall
  BY <1>7, <1>10 DEF ReadLong
<1>13. offset' = BytesNeeded(items)
  BY <1>3, <1>5, <1>7, <1>11, <1>12
<1>14. HeardTo(k)' /\ items' = items /\ heard' = heard
  BY <1>1, <1>12, HeardStays DEF NoCall
<1> QED BY <1>0, <1>1, <1>12, <1>13, <1>14 DEF Lost

\* A turn keeps the types of the reader and its place in the stream.
LEMMA StreamStep ==
  ASSUME ReaderOK, StreamInv, Hear, message' = message, message # NoMessage => LossyLast
  PROVE  ReaderOK' /\ StreamInv'
<1>1. Len(heard) \in Nat /\ Len(items) \in Nat /\ heard \in Seq(Calls)
  BY DEF ReaderOK
<1>2. ReaderOK'
  <2>1. HeardTo(0)
    BY DEF HeardTo
  <2>2. heard' \in Seq(Calls) /\ items' = items /\ capacity' = capacity
    BY <2>1, HeardStays
  <2>3. /\ data' = data /\ offset' \in 0..Len(data) /\ currentLength' \in Int
        /\ state' \in [phase : {"type", "size", "data"}, major : 0..7]
        /\ state'.phase = "size" => currentLength' \in Widths
        /\ state'.phase = "data" => state'.major \in {2, 3}
    BY TurnTypes DEF Hear
  <2> QED BY <2>2, <2>3 DEF ReaderOK
<1>3. CASE Synced
  <2>1. Len(heard) =< Len(items)
    BY <1>3 DEF Synced
  <2>2. Len(heard) # Len(items)
    <3>1. SUFFICES ASSUME Len(heard) = Len(items) PROVE FALSE
      OBVIOUS
    <3>2. state = Type /\ offset = BytesNeeded(items)
      BY <1>1, <1>3, <3>1 DEF Synced, AtItem, BytesNeeded
    <3> QED BY <3>2, NoTurnAtEnd DEF Hear
  <2>3. Len(heard) < Len(items) /\ Len(heard) + 1 \in 1..Len(items)
        /\ Len(heard) + 1 - 1 = Len(heard)
    BY <1>1, <2>1, <2>2
  <2>4. CASE ~Lossy(items[Len(heard) + 1])
    BY <1>2, <1>3, <2>3, <2>4, SoundTurn DEF StreamInv
  <2>5. CASE Lossy(items[Len(heard) + 1]) /\ message # NoMessage
    BY <1>2, <1>3, <2>3, <2>5, LossyTurn DEF StreamInv
  <2>6. CASE Lossy(items[Len(heard) + 1]) /\ message = NoMessage
    <3>1. HeardTo(Len(heard))
      BY <1>3 DEF Synced
    <3>2. Astray
      BY <2>3, <2>6, <3>1 DEF Astray
    <3> QED BY <1>2, <2>6, <3>2, AstrayStays DEF StreamInv
  <2> QED BY <2>4, <2>5, <2>6
<1>4. CASE Lost
  BY <1>2, <1>4, LostTurn DEF StreamInv
<1>5. CASE message = NoMessage /\ Astray
  BY <1>2, <1>5, AstrayStays DEF StreamInv
<1> QED BY <1>3, <1>4, <1>5 DEF StreamInv

(***************************************************************************)
(* What the listener has heard, and the types of the parser                *)
(***************************************************************************)

\* Wherever the reader stands, what was heard was told in order.
LEMMA InOrder ==
  ASSUME ReaderOK, StreamInv
  PROVE  HeardInOrder
<1>1. /\ Len(heard) \in Nat /\ Len(items) \in Nat
      /\ DOMAIN heard = 1..Len(heard) /\ DOMAIN items = 1..Len(items)
  BY DEF ReaderOK
<1>2. CASE Synced
  BY <1>1, <1>2 DEF HeardInOrder, Synced, HeardTo
<1>3. CASE Lost
  <2>1. Len(heard) + 1 = Len(items) /\ HeardTo(Len(heard)) /\ Lossy(items[Len(items)])
    BY <1>3 DEF Lost
  <2> QED BY <1>1, <2>1 DEF HeardInOrder, HeardTo, SoundTo
<1>4. CASE Astray
  <2>1. PICK j \in 1..Len(items) : Lossy(items[j]) /\ HeardTo(j - 1)
    BY <1>4 DEF Astray
  <2>2. ASSUME NEW k \in 1..Len(items), SoundTo(k) PROVE k \in 1..(j - 1)
    BY <1>1, <2>1, <2>2 DEF SoundTo
  <2>3. ~SoundTo(Len(items))
    BY <1>1, <2>1 DEF SoundTo
  <2> QED BY <1>1, <2>1, <2>2, <2>3 DEF HeardInOrder, HeardTo
<1> QED BY <1>2, <1>3, <1>4 DEF StreamInv

\* Of a buffer that holds everything the reader has all it asks for.
LEMMA NotReturned ==
  ASSUME ReaderOK, Synced, BytesNeeded(items) =< capacity,
         Len(heard) < Len(items), ~Lossy(items[Len(heard) + 1])
  PROVE  ~Returned
<1>0. PICK k, it, e, h, n : /\ k = Len(heard) /\ it = items[k + 1] /\ e = Ends(items)[k]
                            /\ h = HeadOf(it) /\ n = Width(Value(it))
  OBVIOUS
<1>1. k \in Nat /\ k \in 0..(Len(items) - 1) /\ ~Lossy(it)
  BY <1>0 DEF ReaderOK
<1>2. /\ it \in WriterCalls /\ e \in Nat /\ Size(it) \in Nat
      /\ e + Size(it) =< BytesNeeded(items)
  BY <1>0, <1>1, InItem
<1>3. Filled(data, BytesNeeded(items), capacity) /\ BytesNeeded(items) \in Nat
  BY WrittenData DEF ReaderOK
<1>4. e + Size(it) =< Len(data) /\ Len(data) \in Nat
  BY <1>2, <1>3 DEF Filled
<1>5. /\ Len(h) \in Nat /\ Len(h) >= 1 /\ Value(it) \in Nat
      /\ Value(it) >= Direct => n \in {1, 2, 4} /\ Len(h) = n + 1
      /\ IsChunk(it) => Size(it) = Len(h) + Value(it)
      /\ Size(it) >= Len(h)
  BY <1>0, <1>1, <1>2, SoundShape, ItemHead
<1>6. \/ state = Type /\ offset = e
      \/ InSize(it, e)
      \/ InData(it, e)
  BY <1>0 DEF Synced, AtItem
<1>7. CASE state = Type /\ offset = e
  BY <1>2, <1>4, <1>5, <1>7 DEF Returned, HasBytes
<1>8. CASE InSize(it, e)
  <2>1. state # Type /\ currentLength = n /\ offset = e + 1 /\ Value(it) >= Direct
    BY <1>0, <1>8 DEF InSize, Type
  <2> QED BY <1>2, <1>4, <1>5, <2>1 DEF Returned, HasBytes
<1>9. CASE InData(it, e)
  <2>1. state # Type /\ currentLength = Value(it) /\ offset = e + Len(h) /\ IsChunk(it)
    BY <1>0, <1>9 DEF InData, Type
  <2> QED BY <1>2, <1>4, <1>5, <2>1 DEF Returned, HasBytes
<1> QED BY <1>6, <1>7, <1>8, <1>9

\* Wherever the reader stands when it returns, a stream that fits was heard
\* whole.
LEMMA AllIn ==
  ASSUME ReaderOK, StreamInv
  PROVE  AllHeard
<1>1. /\ Len(heard) \in Nat /\ Len(items) \in Nat
      /\ DOMAIN heard = 1..Len(heard) /\ DOMAIN items = 1..Len(items)
  BY DEF ReaderOK
<1>2. SUFFICES ASSUME Returned, BytesNeeded(items) =< capacity,
                      NEW k \in 1..Len(items), SoundTo(k)
               PROVE  k \in DOMAIN heard /\ heard[k] = Told(items[k])
  BY <1>1 DEF AllHeard
<1>3. CASE Synced
  <2>1. k =< Len(heard)
    <3>1. SUFFICES ASSUME Len(heard) < k PROVE FALSE
      BY <1>1
    <3>2. Len(heard) < Len(items) /\ Len(heard) + 1 \in 1..k
      BY <1>1, <3>1
    <3>3. ~Lossy(items[Len(heard) + 1])
      BY <1>2, <3>2 DEF SoundTo
    <3> QED BY <1>2, <1>3, <3>2, <3>3, NotReturned
  <2> QED BY <1>1, <1>3, <2>1 DEF Synced, HeardTo
<1>4. CASE Lost
  <2>1. Len(heard) + 1 = Len(items) /\ HeardTo(Len(heard)) /\ Lossy(items[Len(items)])
    BY <1>4 DEF Lost
  <2>2. k # Len(items)
    BY <1>1, <1>2, <2>1 DEF SoundTo
  <2>3. k \in 1..Len(heard)
    <3>1. PICK n : n = Len(heard)
      OBVIOUS
    <3>2. n \in Nat /\ k \in 1..(n + 1) /\ k # n + 1
      BY <1>1, <1>2, <2>1, <2>2, <3>1
    <3>3. k \in 1..n
      BY <3>2
    <3> QED BY <3>1, <3>3
  <2> QED BY <2>1, <2>3 DEF HeardTo
<1>5. CASE Astray
  <2>1. PICK j \in 1..Len(items) : Lossy(items[j]) /\ HeardTo(j - 1)
    BY <1>5 DEF Astray
  <2>2. k \in 1..(j - 1)
    BY <1>1, <1>2, <2>1 DEF SoundTo
  <2> QED BY <1>1, <2>1, <2>2 DEF HeardTo
<1> QED BY <1>3, <1>4, <1>5 DEF StreamInv

\* The fields of the parser have their types.
ParserOK ==
  /\ pstate \in {m[1] : m \in Moves}
  /\ elements \in Int
  /\ currentRequestId \in UInt

\* Every move leads to a state that has moves.
LEMMA Targets == \A m \in Moves : m[4] \in {n[1] : n \in Moves}
  BY DEF Moves

\* What is converted to unsigned int is one.
LEMMA AsUIntTypes == \A i \in Int : AsUInt(i) \in UInt
<1>1. UIntMax \in Nat
  BY Sizes
<1> QED BY <1>1 DEF AsUInt, UInt

\* A call of the listener keeps the types of the parser.
LEMMA ParserTypes ==
  ASSUME ParserOK, NEW on, NEW arg,
         on \in {"integer", "array", "map", "tag"} => arg \in Int,
         On(on, arg)
  PROVE  ParserOK'
<1> DEFINE States == {m[1] : m \in Moves}
<1>1. pstate \in States /\ elements \in Int /\ currentRequestId \in UInt
  BY DEF ParserOK
<1>2. \A o, a : Go(o, a) => pstate' \in States
  BY Targets DEF Go, Expected
<1>3. "INIT" \in States
  BY DEF Moves
<1> HIDE DEF States
<1>4. pstate' \in States
  BY <1>1, <1>2, <1>3
  DEF On, OnTag, OnArray, OnWrapperId, OnField, OnRow, OnNoRow, OnKey, OnValue, OnUnexpected
<1>5. elements' \in Int
  BY <1>1
  DEF On, OnTag, OnArray, OnWrapperId, OnField, OnRow, OnNoRow, OnKey, OnValue, OnUnexpected
<1>6. currentRequestId' \in UInt
  BY <1>1, AsUIntTypes
  DEF On, OnTag, OnArray, OnWrapperId, OnField, OnRow, OnNoRow, OnKey, OnValue, OnUnexpected
<1> QED BY <1>4, <1>5, <1>6 DEF ParserOK, States

(***************************************************************************)
(* The keys of a row, in the order the serializer writes them              *)
(***************************************************************************)

\* A row is written as an array of its keys, each once.
LEMMA KeysOf ==
  ASSUME NEW S, IsFiniteSet(S)
  PROVE  /\ Cardinality(S) \in Nat
         /\ SetToSeq(S) \in Seq(S) /\ Len(SetToSeq(S)) = Cardinality(S)
         /\ \A i, j \in 1..Cardinality(S) : SetToSeq(S)[i] = SetToSeq(S)[j] => i = j
         /\ \A x \in S : \E i \in 1..Cardinality(S) : SetToSeq(S)[i] = x
<1> DEFINE n == Cardinality(S)   keys == SetToSeq(S)
<1>1. n \in Nat /\ ExistsBijection(1..n, S)
  BY FS_CardinalityType
<1>2. \E f \in [1..n -> S] : IsInjective(f)
  BY <1>1 DEF ExistsBijection, Bijection, Injection
<1>3. keys \in [1..n -> S] /\ IsInjective(keys)
  BY <1>2 DEF SetToSeq
<1> HIDE DEF keys
<1>4. keys \in Injection(1..n, S)
  BY <1>3 DEF Injection
<1>5. Cardinality(1..n) = n
  BY <1>1, FS_Interval
<1>6. keys \in Surjection(1..n, S)
  BY <1>4, <1>5, FS_Injection
<1>7. \A x \in S : \E i \in 1..n : keys[i] = x
  BY <1>6 DEF Surjection
<1>8. \A i, j \in 1..n : keys[i] = keys[j] => i = j
  BY <1>3 DEF IsInjective
<1>9. keys \in Seq(S) /\ Len(keys) = n
  BY <1>1, <1>3
<1> QED BY <1>1, <1>7, <1>8, <1>9 DEF keys

(***************************************************************************)
(* One move of the parser                                                  *)
(***************************************************************************)

\* Every move of the parser on this callback leads to t, and there is one.
Goes(on, arg, t) == Expected(on, arg) # {} /\ \A m \in Expected(on, arg) : m[4] = t

\* The state fills the field n.
Fills(s, n) == \A f \in Fields : f[1] = s => f[2] = n

\* No field is filled in state s.
NoField(s) == \A f \in Fields : f[1] # s

\* When every move that fits leads to t, the parser goes there.
LEMMA Going == \A on, arg, t : Goes(on, arg, t) /\ Go(on, arg) => pstate' = t
  BY DEF Goes, Go

\* A tag begins the object it stands for (ObjectParser.cpp, OnTag).
LEMMA TagMove ==
  ASSUME NEW tag, NEW t, Goes("tag", tag, t), NoField(pstate), On("tag", tag)
  PROVE  /\ pstate' = t /\ currentObject' = Started(tag)
         /\ UNCHANGED <<elements, currentKey, currentRequestId, handled>>
<1>1. OnTag(tag)
  BY DEF On, NoField, OnField, OnUnexpected, Goes
<1> QED BY <1>1, Going DEF OnTag

\* An array of the expected size moves the parser on (ObjectParser.cpp,
\* OnArray).
LEMMA ArrayMove ==
  ASSUME NEW n, NEW t, Goes("array", n, t), NoField(pstate), On("array", n)
  PROVE  pstate' = t
         /\ UNCHANGED <<elements, currentKey, currentObject, currentRequestId, handled>>
<1>1. OnArray(n)
  BY DEF On, NoField, OnField, OnUnexpected, Goes
<1> QED BY <1>1, Going DEF OnArray

\* The integer in the wrapper is the request id (ObjectParser.cpp, OnInteger).
LEMMA WrapperIdMove ==
  ASSUME NEW n, NEW t, Goes("integer", n, t), NoField(pstate), On("integer", n)
  PROVE  /\ pstate' = t /\ currentRequestId' = AsUInt(n)
         /\ UNCHANGED <<elements, currentKey, currentObject, handled>>
<1>1. OnWrapperId(n)
  BY DEF On, NoField, OnField, OnUnexpected, Goes
<1> QED BY <1>1, Going DEF OnWrapperId

\* A value fills the field of the state, and the last one hands the object over.
LEMMA FieldMove ==
  ASSUME NEW on \in {"integer", "string", "bytes"}, NEW arg, NEW t, NEW n,
         Goes(on, arg, t), Fills(pstate, n),
         pstate \notin Keys \cup Values \cup WrapperIds, On(on, arg)
  PROVE  /\ pstate' = t
         /\ currentObject' = With(currentObject, n, IF n = "initRequestId" THEN AsUInt(arg)
                                                                         ELSE arg)
         /\ t # "INIT" => handled' = handled
         /\ t = "INIT" =>
              handled' = Append(handled, With(currentObject', "id", currentRequestId))
         /\ UNCHANGED <<elements, currentKey, currentRequestId>>
<1>1. OnField(on, arg)
  BY DEF On, OnWrapperId, OnKey, OnValue, OnUnexpected, Goes
<1>2. pstate' = t
  BY <1>1, Going DEF OnField
<1>3. currentObject' = With(currentObject, n, IF n = "initRequestId" THEN AsUInt(arg)
                                                                   ELSE arg)
  BY <1>1 DEF OnField, Fills
<1> QED BY <1>1, <1>2, <1>3 DEF OnField, Handle

\* A map that is a row sets the number of columns to come (ObjectParser.cpp,
\* OnMap).
LEMMA RowMove ==
  ASSUME NEW n, NEW t, Goes("map", n, t), t # "INIT", NoField(pstate), On("map", n)
  PROVE  /\ pstate' = t /\ elements' = n
         /\ currentObject' = IF pstate = "RESPONSE_GET_OK_MAP"
                             THEN [kind |-> "getOk", row |-> <<>>] ELSE currentObject
         /\ UNCHANGED <<currentKey, currentRequestId, handled>>
<1>1. OnRow(n) \/ OnNoRow(n)
  BY DEF On, NoField, OnField, OnUnexpected, Goes
<1>2. pstate' = t
  BY <1>1, Going DEF OnRow, OnNoRow
<1> QED BY <1>1, <1>2 DEF OnRow, OnNoRow

\* The map of an empty response hands it over.
LEMMA NoRowMove ==
  ASSUME NEW n, Goes("map", n, "INIT"), NoField(pstate), On("map", n)
  PROVE  /\ handled' = Append(handled,
              With([kind |-> IF pstate = "RESPONSE_ADD_OK_MAP" THEN "addOk"
                                                               ELSE "getEmpty"],
                   "id", currentRequestId))
         /\ UNCHANGED <<elements, currentKey, currentObject, currentRequestId>>
<1>1. OnRow(n) \/ OnNoRow(n)
  BY DEF On, NoField, OnField, OnUnexpected, Goes
<1>2. pstate' = "INIT"
  BY <1>1, Going DEF OnRow, OnNoRow
<1>3. OnNoRow(n)
  BY <1>1, <1>2 DEF OnRow, Keys
<1> QED BY <1>3 DEF OnNoRow, Handle

\* A string where a key is due is kept as the key (ObjectParser.cpp, OnString).
LEMMA KeyMove ==
  ASSUME NEW key, NEW t, Goes("string", key, t), pstate \in Keys, On("string", key)
  PROVE  /\ pstate' = t /\ currentKey' = key
         /\ UNCHANGED <<elements, currentObject, currentRequestId, handled>>
<1>1. NoField(pstate) /\ pstate \notin Values
  BY DEF NoField, Fields, Keys, Values
<1>2. OnKey(key)
  BY <1>1 DEF On, NoField, OnField, OnValue, OnUnexpected, Goes
<1> QED BY <1>2, Going DEF OnKey

\* A string where a value is due goes into the row, and the last one hands the
\* object over.
LEMMA ValueMove ==
  ASSUME NEW str, NEW t, Goes("string", str, t), pstate \in Values, On("string", str)
  PROVE  /\ elements' = elements - 1
         /\ currentObject' = [currentObject EXCEPT !.row = With(@, currentKey, str)]
         /\ elements' # 0 => pstate' = t /\ handled' = handled
         /\ elements' = 0 =>
              handled' = Append(handled, With(currentObject', "id", currentRequestId))
         /\ UNCHANGED <<currentKey, currentRequestId>>
<1>1. NoField(pstate) /\ pstate \notin Keys
  BY DEF NoField, Fields, Keys, Values
<1>2. OnValue(str)
  BY <1>1 DEF On, NoField, OnField, OnKey, OnUnexpected, Goes
<1> QED BY <1>2, Going DEF OnValue, Handle

\* A tag or a map that is not expected is an error, and the parser stays
\* (ObjectParser.cpp).
LEMMA UnexpectedMove ==
  ASSUME NEW on \in {"tag", "map"}, NEW arg, Expected(on, arg) = {}, NoField(pstate),
         On(on, arg)
  PROVE  /\ handled' = Append(handled, [kind |-> "error"])
         /\ UNCHANGED <<pstate, elements, currentKey, currentObject, currentRequestId>>
<1>1. OnUnexpected(on, arg)
  BY DEF On, OnTag, OnField, OnRow, OnNoRow, NoField, Go
<1> QED BY <1>1 DEF OnUnexpected

\* The calls a listener hears of the items of messages.
LEMMA ToldItems ==
  /\ \A t : Told(Item("tag", t)) = Call("tag", t)
  /\ \A n : Told(Item("array", n)) = Call("array", n)
  /\ \A n : Told(Item("map", n)) = Call("map", n)
  /\ \A s : Told(Item("string", s)) = Call("string", s)
  /\ \A s : Told(Item("bytes", s)) = Call("bytes", s)
  /\ \A i : Told(Item("int", i)) = Call("integer", AsInt(AsUInt(i)))
  /\ \A i : Told(Item("long", i)) = Call("integer", AsInt(AsUInt(i)))
  BY DEF Told, Item

\* An id is the same after the listener's int.
LEMMA Ids ==
  \A v \in UInt : AsUInt(AsInt(AsUInt(v))) = v
  BY AsUInts, AsInts

(***************************************************************************)
(* The pieces of a message: its kind, its items, its row                   *)
(***************************************************************************)

\* What a program hands the wire, kind by kind.
IsGet(m) == m \in [kind : {"get"}, id : UInt, database : Chunk, table : Chunk, pk : Nat]
\* An add.
IsAdd(m) ==
  /\ m.kind = "add" /\ IsRow(m.row)
  /\ m \in [kind : {"add"}, id : UInt, database : Chunk, table : Chunk, row : {m.row}]
\* An add continuation.
IsContinue(m) ==
  m \in [kind : {"continue"}, id : UInt, initRequestId : UInt,
         compareResult : -(IntMax + 1)..IntMax]
\* A response with a row.
IsGetOk(m) ==
  m.kind = "getOk" /\ IsRow(m.row) /\ m \in [kind : {"getOk"}, id : UInt, row : {m.row}]
\* A response without one.
IsPlain(m) == m \in [kind : {"getEmpty", "addOk", "addError"}, id : UInt]
\* A response that asks for the next comparison.
IsTraverse(m) ==
  m \in [kind : {"traverse"}, id : UInt, initRequestId : UInt, ciphertext : Chunk]

\* Every message is of one of these kinds.
LEMMA Kinds ==
  ASSUME NEW m, IsMessage(m)
  PROVE  IsGet(m) \/ IsAdd(m) \/ IsContinue(m) \/ IsGetOk(m) \/ IsPlain(m) \/ IsTraverse(m)
  BY DEF IsMessage, IsGet, IsAdd, IsContinue, IsGetOk, IsPlain, IsTraverse

\* The tags of the wire are calls the writer takes.
LEMMA TagCall ==
  ASSUME NEW t \in 0..5184
  PROVE  Item("tag", t) \in WriterCalls
<1>1. t \in 0..UIntMax
  BY Sizes
<1> QED BY <1>1 DEF Item, WriterCalls

\* A size of an array or of a map is a call the writer takes.
LEMMA SizeCall ==
  ASSUME NEW op \in {"array", "map"}, NEW n \in 0..IntMax
  PROVE  Item(op, n) \in WriterCalls
  BY DEF Item, WriterCalls

\* The sizes of the arrays are sizes.
LEMMA SmallSizes == 0 \in 0..IntMax /\ 2 \in 0..IntMax /\ 3 \in 0..IntMax
<1>1. IntMax \in Nat /\ IntMax > Base /\ Base \in Nat /\ Base >= 72
  BY Sizes
<1> QED BY <1>1

\* A chunk is a call the writer takes.
LEMMA ChunkCall ==
  ASSUME NEW op \in {"string", "bytes"}, NEW s \in Chunk
  PROVE  Item(op, s) \in WriterCalls
  BY DEF Item, WriterCalls

\* An int, converted or not, is a call the writer takes.
LEMMA IntCall ==
  ASSUME NEW v \in UInt \cup -(IntMax + 1)..IntMax
  PROVE  Item("int", v) \in WriterCalls
<1>1. UIntMax \in Nat /\ IntMax \in Nat /\ UIntMax = 2 * IntMax + 1
  BY Sizes
<1>2. v \in -(IntMax + 1)..UIntMax
  BY <1>1 DEF UInt
<1> QED BY <1>2 DEF Item, WriterCalls

\* A long is a call the writer takes.
LEMMA LongCall ==
  ASSUME NEW v \in Nat
  PROVE  Item("long", v) \in WriterCalls
  BY DEF Item, WriterCalls

\* s is p with q behind it.
Joined(s, p, q) ==
  /\ Len(s) = Len(p) + Len(q)
  /\ \A i \in 1..Len(p) : s[i] = p[i]
  /\ \A i \in 1..Len(q) : s[Len(p) + i] = q[i]

\* The members of two sequences put together.
LEMMA Joins ==
  ASSUME NEW S, NEW p \in Seq(S), NEW q \in Seq(S)
  PROVE  p \o q \in Seq(S) /\ Joined(p \o q, p, q)
<1> DEFINE s == p \o q
<1>1. /\ s \in Seq(S) /\ Len(s) = Len(p) + Len(q) /\ Len(p) \in Nat /\ Len(q) \in Nat
      /\ \A i \in 1..(Len(p) + Len(q)) : s[i] = IF i =< Len(p) THEN p[i] ELSE q[i - Len(p)]
  BY ConcatProperties
<1> HIDE DEF s
<1>2. \A i \in 1..Len(p) : s[i] = p[i]
  BY <1>1
<1>3. ASSUME NEW i \in 1..Len(q)
      PROVE  s[Len(p) + i] = q[i]
  <2>1. /\ Len(p) + i \in 1..(Len(p) + Len(q)) /\ ~(Len(p) + i =< Len(p))
        /\ Len(p) + i - Len(p) = i
    BY <1>1
  <2> QED BY <1>1, <2>1
<1> QED BY <1>1, <1>2, <1>3 DEF Joined, s

\* From place n on, s holds a row with its size, its keys and their values.
RowAt(s, n, row) ==
  LET keys == SetToSeq(DOMAIN row)
      c    == Cardinality(DOMAIN row)
  IN  /\ Len(s) = n + 2 * c
      /\ s[n] = Item("map", c)
      /\ \A j \in 1..c : /\ s[n + (2 * j - 1)] = Item("string", keys[j])
                         /\ s[n + 2 * j] = Item("string", row[keys[j]])

\* A row has each of its keys once in the order it is written in.
LEMMA RowKeys ==
  ASSUME NEW row, IsRow(row)
  PROVE  LET keys == SetToSeq(DOMAIN row)   c == Cardinality(DOMAIN row)
         IN  /\ c \in 0..IntMax /\ Len(keys) = c
             /\ \A j \in 1..c : keys[j] \in DOMAIN row /\ keys[j] \in Chunk
                                /\ row[keys[j]] \in Chunk
             /\ \A i, j \in 1..c : keys[i] = keys[j] => i = j
             /\ \A x \in DOMAIN row : \E i \in 1..c : keys[i] = x
<1> DEFINE keys == SetToSeq(DOMAIN row)   c == Cardinality(DOMAIN row)
<1>1. /\ DOMAIN row \subseteq Chunk /\ row \in [DOMAIN row -> Chunk]
      /\ IsFiniteSet(DOMAIN row) /\ c =< IntMax
  BY DEF IsRow
<1>2. /\ c \in Nat /\ keys \in Seq(DOMAIN row) /\ Len(keys) = c
      /\ \A i, j \in 1..c : keys[i] = keys[j] => i = j
      /\ \A x \in DOMAIN row : \E i \in 1..c : keys[i] = x
  BY <1>1, KeysOf
<1>3. c \in 0..IntMax
  BY <1>1, <1>2, Sizes
<1> HIDE DEF keys, c
<1>4. \A j \in 1..c : keys[j] \in DOMAIN row
  BY <1>2
<1>5. \A j \in 1..c : keys[j] \in Chunk /\ row[keys[j]] \in Chunk
  BY <1>1, <1>4
<1> QED BY <1>2, <1>3, <1>4, <1>5 DEF keys, c

\* The items of a row are its keys and values in turn.
LEMMA RowItemsAre ==
  ASSUME NEW row, IsRow(row)
  PROVE  LET keys == SetToSeq(DOMAIN row)   c == Cardinality(DOMAIN row)
         IN  /\ RowItems(row) \in Seq(WriterCalls) /\ Len(RowItems(row)) = 2 * c
             /\ \A i \in 1..(2 * c) : RowItems(row)[i].op = "string"
             /\ \A j \in 1..c : /\ RowItems(row)[2 * j - 1] = Item("string", keys[j])
                                /\ RowItems(row)[2 * j] = Item("string", row[keys[j]])
<1>0. PICK keys, c : keys = SetToSeq(DOMAIN row) /\ c = Cardinality(DOMAIN row)
  OBVIOUS
<1>1. /\ c \in Nat /\ Len(keys) = c
      /\ \A j \in 1..c : keys[j] \in Chunk /\ row[keys[j]] \in Chunk
  BY <1>0, RowKeys
<1> DEFINE f == [k \in 1..2 * c |-> Item("string", IF k % 2 = 1 THEN keys[(k + 1) \div 2]
                                                                ELSE row[keys[k \div 2]])]
<1>2. RowItems(row) = f
  BY <1>0, <1>1 DEF RowItems
<1>i. \A x \in Chunk : Item("string", x) \in WriterCalls /\ Item("string", x).op = "string"
  <2>1. \A x : Item("string", x).op = "string"
    BY DEF Item
  <2> QED BY <2>1, ChunkCall
<1>3. ASSUME NEW k \in 1..2 * c
      PROVE  f[k] \in WriterCalls /\ f[k].op = "string"
  <2>1. CASE k % 2 = 1
    <3>1. (k + 1) \div 2 \in 1..c
      BY <1>1, <2>1
    <3>2. PICK x \in Chunk : x = keys[(k + 1) \div 2]
      BY <1>1, <3>1
    <3>3. f[k] = Item("string", x)
      BY <2>1, <3>2
    <3> QED BY <1>i, <3>3
  <2>2. CASE k % 2 = 0
    <3>1. k \div 2 \in 1..c
      BY <1>1, <2>2
    <3>2. PICK x \in Chunk : x = row[keys[k \div 2]]
      BY <1>1, <3>1
    <3>3. f[k] = Item("string", x)
      BY <2>2, <3>2
    <3> QED BY <1>i, <3>3
  <2>3. k % 2 \in {0, 1}
    BY <1>1
  <2> QED BY <2>1, <2>2, <2>3
<1>4. ASSUME NEW j \in 1..c
      PROVE  /\ f[2 * j - 1] = Item("string", keys[j])
             /\ f[2 * j] = Item("string", row[keys[j]])
  <2>1. /\ 2 * j - 1 \in 1..2 * c /\ 2 * j \in 1..2 * c
        /\ (2 * j - 1) % 2 = 1 /\ (2 * j) % 2 = 0
        /\ (2 * j - 1 + 1) \div 2 = j /\ (2 * j) \div 2 = j
    BY <1>1
  <2> QED BY <2>1
<1>5. f \in [1..2 * c -> WriterCalls]
  BY <1>3
<1> HIDE DEF f
<1>6. f \in Seq(WriterCalls) /\ Len(f) = 2 * c
  BY <1>1, <1>5
<1> QED BY <1>0, <1>2, <1>3, <1>4, <1>6

\* A row behind some items: its map, and its columns.
LEMMA Mapped ==
  ASSUME NEW row, IsRow(row), NEW p \in Seq(WriterCalls)
  PROVE  LET s == p \o Map(row)
         IN  /\ s \in Seq(WriterCalls)
             /\ Len(s) >= Len(p) + 1
             /\ \A i \in 1..Len(p) : s[i] = p[i]
             /\ \A i \in (Len(p) + 1)..Len(s) : s[i].op # "long"
             /\ RowAt(s, Len(p) + 1, row)
<1>0. PICK keys, c, r, n : /\ keys = SetToSeq(DOMAIN row) /\ c = Cardinality(DOMAIN row)
                           /\ r = RowItems(row) /\ n = Len(p)
  OBVIOUS
<1>1. /\ r \in Seq(WriterCalls) /\ Len(r) = 2 * c /\ c \in 0..IntMax /\ n \in Nat
      /\ \A i \in 1..(2 * c) : r[i].op = "string"
      /\ \A j \in 1..c : /\ r[2 * j - 1] = Item("string", keys[j])
                         /\ r[2 * j] = Item("string", row[keys[j]])
  <2>1. c \in 0..IntMax /\ n \in Nat
    BY <1>0, RowKeys
  <2>2. /\ r \in Seq(WriterCalls) /\ Len(r) = 2 * c
        /\ \A i \in 1..(2 * c) : r[i].op = "string"
        /\ \A j \in 1..c : /\ r[2 * j - 1] = Item("string", keys[j])
                           /\ r[2 * j] = Item("string", row[keys[j]])
    BY <1>0, RowItemsAre
  <2> QED BY <2>1, <2>2
<1>2. PICK it, h : it = Item("map", c) /\ h = <<it>>
  OBVIOUS
<1>3. h \in Seq(WriterCalls) /\ Len(h) = 1 /\ h[1] = it
  <2>1. it \in WriterCalls
    <3>1. Item("map", c) \in WriterCalls
      BY <1>1, SizeCall
    <3> QED BY <1>2, <3>1
  <2> QED BY <1>2, <2>1
<1>4. PICK q : q = h \o r
  OBVIOUS
<1>5. Map(row) = q
  BY <1>0, <1>2, <1>4 DEF Map
<1>6. q \in Seq(WriterCalls) /\ Joined(q, h, r)
  BY <1>1, <1>3, <1>4, Joins
<1>7. /\ Len(q) = 1 + 2 * c /\ q[1] = it
      /\ \A i \in 1..(2 * c) : q[1 + i] = r[i]
  BY <1>1, <1>3, <1>6 DEF Joined
<1> DEFINE s == p \o q
<1>8. s \in Seq(WriterCalls) /\ Joined(s, p, q)
  BY <1>6, Joins
<1> HIDE DEF s
<1>9. /\ Len(s) = n + (1 + 2 * c) /\ (\A i \in 1..n : s[i] = p[i])
      /\ \A i \in 1..(1 + 2 * c) : s[n + i] = q[i]
  BY <1>0, <1>7, <1>8 DEF Joined
<1>m. s[n + 1] = it
  <2>1. 1 \in 1..(1 + 2 * c)
    BY <1>1
  <2> QED BY <1>7, <1>9, <2>1
<1>v. ASSUME NEW i \in 1..(2 * c)
      PROVE  s[n + 1 + i] = r[i]
  <2>1. 1 + i \in 1..(1 + 2 * c) /\ n + (1 + i) = n + 1 + i
    BY <1>1
  <2>2. s[n + (1 + i)] = q[1 + i]
    BY <1>9, <2>1
  <2> QED BY <1>7, <2>1, <2>2
<1>10. ASSUME NEW i \in (n + 1)..Len(s)
       PROVE  s[i].op # "long"
  <2>1. CASE i = n + 1
    BY <1>2, <1>m, <2>1 DEF Item
  <2>2. CASE i # n + 1
    <3>1. PICK l : l = i - (n + 1)
      OBVIOUS
    <3>2. l \in 1..(2 * c) /\ n + 1 + l = i
      BY <1>1, <1>9, <2>2, <3>1
    <3>3. s[i] = r[l]
      BY <1>v, <3>2
    <3> QED BY <1>1, <3>2, <3>3
  <2> QED BY <2>1, <2>2
<1>11. ASSUME NEW j \in 1..c
       PROVE  /\ s[n + 1 + (2 * j - 1)] = Item("string", keys[j])
              /\ s[n + 1 + 2 * j] = Item("string", row[keys[j]])
  <2>1. 2 * j - 1 \in 1..(2 * c) /\ 2 * j \in 1..(2 * c)
    BY <1>1
  <2> QED BY <1>1, <1>v, <2>1
<1>12. Len(s) = n + 1 + 2 * c /\ Len(s) >= n + 1
  BY <1>1, <1>9
<1>13. RowAt(s, n + 1, row)
  BY <1>0, <1>2, <1>m, <1>11, <1>12 DEF RowAt
<1> QED BY <1>0, <1>5, <1>8, <1>9, <1>10, <1>12, <1>13 DEF s

(***************************************************************************)
(* The items of each kind of message                                       *)
(***************************************************************************)

\* The items of a message begin with its wrapper, and only the last can be a
\* number of eight bytes.
Framed(s, m) ==
  /\ s \in Seq(WriterCalls) /\ Len(s) >= 4
  /\ s[1] = Item("tag", IF IsRequest(m) THEN 1000 ELSE 2000)
  /\ s[2] = Item("array", 2)
  /\ s[3] = Item("int", m.id)
  /\ \A i \in 1..Len(s) : s[i].op = "long" => i = Len(s) /\ s[i].arg \in Nat

\* A body of a message, and where it stands in s.
GoodBody(b) ==
  /\ b \in Seq(WriterCalls) /\ Len(b) >= 1
  /\ \A i \in 1..Len(b) : b[i].op = "long" => i = Len(b) /\ b[i].arg \in Nat

\* The items of the body come behind the wrapper's.
Behind(s, b) == Len(s) = 3 + Len(b) /\ \A i \in 1..Len(b) : s[3 + i] = b[i]

\* A message is its wrapper and its body.
LEMMA Framing ==
  ASSUME NEW m, m.id \in UInt, GoodBody(Body(m))
  PROVE  Framed(Serialize(m), m) /\ Behind(Serialize(m), Body(m))
<1>0. PICK b : b = Body(m)
  OBVIOUS
<1>b. /\ b \in Seq(WriterCalls) /\ Len(b) >= 1
      /\ \A i \in 1..Len(b) : b[i].op = "long" => i = Len(b) /\ b[i].arg \in Nat
  BY <1>0 DEF GoodBody
<1>1. PICK x, y, z : /\ x = Item("tag", IF IsRequest(m) THEN 1000 ELSE 2000)
                     /\ y = Item("array", 2) /\ z = Item("int", m.id)
  OBVIOUS
<1>w. PICK w : w = <<x, y, z>>
  OBVIOUS
<1>2. x \in WriterCalls /\ y \in WriterCalls /\ z \in WriterCalls
  <2>1. Item("tag", 1000) \in WriterCalls /\ Item("tag", 2000) \in WriterCalls
    BY TagCall
  <2>2. y \in WriterCalls
    <3>1. Item("array", 2) \in WriterCalls
      BY SizeCall, SmallSizes
    <3> QED BY <1>1, <3>1
  <2>3. z \in WriterCalls
    <3>1. Item("int", m.id) \in WriterCalls
      BY IntCall
    <3> QED BY <1>1, <3>1
  <2> QED BY <1>1, <2>1, <2>2, <2>3
<1>3. x.op # "long" /\ y.op # "long" /\ z.op # "long"
  BY <1>1 DEF Item
<1>4. w \in Seq(WriterCalls) /\ Len(w) = 3 /\ w[1] = x /\ w[2] = y /\ w[3] = z
  BY <1>2, <1>w
<1> DEFINE s == w \o b
<1>5. Serialize(m) = s
  BY <1>0, <1>1, <1>w DEF Serialize
<1>6. s \in Seq(WriterCalls) /\ Joined(s, w, b)
  BY <1>4, <1>b, Joins
<1> HIDE DEF s
<1>7. /\ Len(s) = 3 + Len(b) /\ Len(b) \in Nat
      /\ s[1] = x /\ s[2] = y /\ s[3] = z
      /\ \A i \in 1..Len(b) : s[3 + i] = b[i]
  BY <1>4, <1>6, <1>b DEF Joined
<1>8. ASSUME NEW i \in 1..Len(s), s[i].op = "long"
      PROVE  i = Len(s) /\ s[i].arg \in Nat
  <2>1. i \notin {1, 2, 3}
    BY <1>3, <1>7, <1>8
  <2>2. PICK j : j = i - 3
    OBVIOUS
  <2>3. j \in 1..Len(b) /\ i = 3 + j
    BY <1>7, <2>1, <2>2
  <2>4. s[i] = b[j]
    BY <1>7, <2>3
  <2>5. j = Len(b) /\ b[j].arg \in Nat
    BY <1>8, <1>b, <2>3, <2>4
  <2> QED BY <1>7, <2>3, <2>4, <2>5
<1>9. Framed(s, m)
  <2>1. Len(s) >= 4
    BY <1>7, <1>b
  <2> QED BY <1>1, <1>6, <1>7, <1>8, <2>1 DEF Framed
<1> QED BY <1>0, <1>5, <1>7, <1>9 DEF Behind

\* The items of a get (RequestGetByPK, Serialize).
LEMMA GetItems ==
  ASSUME NEW m, IsGet(m)
  PROVE  LET s == Serialize(m)
         IN  /\ Framed(s, m) /\ Len(s) = 8
             /\ s[4] = Item("tag", 1100) /\ s[5] = Item("array", 3)
             /\ s[6] = Item("string", m.database) /\ s[7] = Item("string", m.table)
             /\ s[8] = Item("long", m.pk)
<1>1. m.kind = "get" /\ m.id \in UInt /\ m.database \in Chunk /\ m.table \in Chunk
      /\ m.pk \in Nat
  BY DEF IsGet
<1>2. PICK x1, x2, x3, x4, x5 :
        /\ x1 = Item("tag", 1100) /\ x2 = Item("array", 3)
        /\ x3 = Item("string", m.database) /\ x4 = Item("string", m.table)
        /\ x5 = Item("long", m.pk)
  OBVIOUS
<1>p. PICK b : b = <<x1, x2, x3, x4, x5>>
  OBVIOUS
<1>3. Body(m) = b
  BY <1>1, <1>2, <1>p DEF Body, GetBody
<1>4. /\ x1 \in WriterCalls /\ x2 \in WriterCalls /\ x3 \in WriterCalls
      /\ x4 \in WriterCalls /\ x5 \in WriterCalls
  BY <1>1, <1>2, TagCall, SizeCall, SmallSizes, ChunkCall, LongCall
<1>5. /\ b \in Seq(WriterCalls) /\ Len(b) = 5
      /\ b[1] = x1 /\ b[2] = x2 /\ b[3] = x3 /\ b[4] = x4 /\ b[5] = x5
  BY <1>4, <1>p
<1>6. x1.op # "long" /\ x2.op # "long" /\ x3.op # "long" /\ x4.op # "long" /\ x5.arg \in Nat
  BY <1>1, <1>2 DEF Item
<1>7. GoodBody(b)
  <2>1. \A i \in 1..Len(b) : b[i].op = "long" => i = Len(b) /\ b[i].arg \in Nat
    BY <1>5, <1>6
  <2> QED BY <1>5, <2>1 DEF GoodBody
<1>8. Framed(Serialize(m), m) /\ Behind(Serialize(m), b)
  BY <1>1, <1>3, <1>7, Framing
<1>9. /\ Serialize(m)[3 + 1] = x1 /\ Serialize(m)[3 + 2] = x2 /\ Serialize(m)[3 + 3] = x3
      /\ Serialize(m)[3 + 4] = x4 /\ Serialize(m)[3 + 5] = x5
  BY <1>5, <1>8 DEF Behind
<1> QED BY <1>2, <1>5, <1>8, <1>9 DEF Behind

\* The items of an add continuation.
LEMMA ContinueItems ==
  ASSUME NEW m, IsContinue(m)
  PROVE  LET s == Serialize(m)
         IN  /\ Framed(s, m) /\ Len(s) = 7
             /\ s[4] = Item("tag", 3100) /\ s[5] = Item("array", 2)
             /\ s[6] = Item("int", m.initRequestId) /\ s[7] = Item("int", m.compareResult)
<1>1. m.kind = "continue" /\ m.id \in UInt /\ m.initRequestId \in UInt
      /\ m.compareResult \in -(IntMax + 1)..IntMax
  BY DEF IsContinue
<1>2. PICK x1, x2, x3, x4 :
        /\ x1 = Item("tag", 3100) /\ x2 = Item("array", 2)
        /\ x3 = Item("int", m.initRequestId) /\ x4 = Item("int", m.compareResult)
  OBVIOUS
<1>p. PICK b : b = <<x1, x2, x3, x4>>
  OBVIOUS
<1>3. Body(m) = b
  BY <1>1, <1>2, <1>p DEF Body, ContinueBody
<1>4. x1 \in WriterCalls /\ x2 \in WriterCalls /\ x3 \in WriterCalls /\ x4 \in WriterCalls
  BY <1>1, <1>2, TagCall, SizeCall, SmallSizes, IntCall
<1>5. /\ b \in Seq(WriterCalls) /\ Len(b) = 4
      /\ b[1] = x1 /\ b[2] = x2 /\ b[3] = x3 /\ b[4] = x4
  BY <1>4, <1>p
<1>6. x1.op # "long" /\ x2.op # "long" /\ x3.op # "long" /\ x4.op # "long"
  BY <1>2 DEF Item
<1>7. GoodBody(b)
  <2>1. \A i \in 1..Len(b) : b[i].op = "long" => i = Len(b) /\ b[i].arg \in Nat
    BY <1>5, <1>6
  <2> QED BY <1>5, <2>1 DEF GoodBody
<1>8. Framed(Serialize(m), m) /\ Behind(Serialize(m), b)
  BY <1>1, <1>3, <1>7, Framing
<1>9. /\ Serialize(m)[3 + 1] = x1 /\ Serialize(m)[3 + 2] = x2
      /\ Serialize(m)[3 + 3] = x3 /\ Serialize(m)[3 + 4] = x4
  BY <1>5, <1>8 DEF Behind
<1> QED BY <1>2, <1>5, <1>8, <1>9 DEF Behind

\* The items of a traverse response.
LEMMA TraverseItems ==
  ASSUME NEW m, IsTraverse(m)
  PROVE  LET s == Serialize(m)
         IN  /\ Framed(s, m) /\ Len(s) = 7
             /\ s[4] = Item("tag", 2201) /\ s[5] = Item("array", 2)
             /\ s[6] = Item("int", m.initRequestId) /\ s[7] = Item("bytes", m.ciphertext)
<1>1. m.kind = "traverse" /\ m.id \in UInt /\ m.initRequestId \in UInt
      /\ m.ciphertext \in Chunk
  BY DEF IsTraverse
<1>2. PICK x1, x2, x3, x4 :
        /\ x1 = Item("tag", 2201) /\ x2 = Item("array", 2)
        /\ x3 = Item("int", m.initRequestId) /\ x4 = Item("bytes", m.ciphertext)
  OBVIOUS
<1>p. PICK b : b = <<x1, x2, x3, x4>>
  OBVIOUS
<1>3. Body(m) = b
  BY <1>1, <1>2, <1>p DEF Body, ResponseBody
<1>4. x1 \in WriterCalls /\ x2 \in WriterCalls /\ x3 \in WriterCalls /\ x4 \in WriterCalls
  BY <1>1, <1>2, TagCall, SizeCall, SmallSizes, IntCall, ChunkCall
<1>5. /\ b \in Seq(WriterCalls) /\ Len(b) = 4
      /\ b[1] = x1 /\ b[2] = x2 /\ b[3] = x3 /\ b[4] = x4
  BY <1>4, <1>p
<1>6. x1.op # "long" /\ x2.op # "long" /\ x3.op # "long" /\ x4.op # "long"
  BY <1>2 DEF Item
<1>7. GoodBody(b)
  <2>1. \A i \in 1..Len(b) : b[i].op = "long" => i = Len(b) /\ b[i].arg \in Nat
    BY <1>5, <1>6
  <2> QED BY <1>5, <2>1 DEF GoodBody
<1>8. Framed(Serialize(m), m) /\ Behind(Serialize(m), b)
  BY <1>1, <1>3, <1>7, Framing
<1>9. /\ Serialize(m)[3 + 1] = x1 /\ Serialize(m)[3 + 2] = x2
      /\ Serialize(m)[3 + 3] = x3 /\ Serialize(m)[3 + 4] = x4
  BY <1>5, <1>8 DEF Behind
<1> QED BY <1>2, <1>5, <1>8, <1>9 DEF Behind

\* The tag of a response without a row.
PlainTag(m) == CASE m.kind = "getEmpty" -> 2101
                 [] m.kind = "addOk"    -> 2200
                 [] m.kind = "addError" -> 2202

\* The items of a response without a row.
LEMMA PlainItems ==
  ASSUME NEW m, IsPlain(m)
  PROVE  LET s == Serialize(m)
         IN  /\ Framed(s, m) /\ Len(s) = 5
             /\ s[4] = Item("tag", PlainTag(m)) /\ s[5] = Item("map", 0)
<1>1. m.kind \in {"getEmpty", "addOk", "addError"} /\ m.id \in UInt
  BY DEF IsPlain
<1>t. PICK t : t = PlainTag(m)
  OBVIOUS
<1>2. PICK x1, x2 : x1 = Item("tag", t) /\ x2 = Item("map", 0)
  OBVIOUS
<1>p. PICK b : b = <<x1, x2>>
  OBVIOUS
<1>3. Body(m) = b
  BY <1>1, <1>2, <1>p, <1>t DEF Body, ResponseBody, AddError, PlainTag
<1>4. x1 \in WriterCalls /\ x2 \in WriterCalls
  <2>2. x1 \in WriterCalls
    <3>1. t \in {2101, 2200, 2202}
      BY <1>1, <1>t DEF PlainTag
    <3>2. Item("tag", 2101) \in WriterCalls /\ Item("tag", 2200) \in WriterCalls
          /\ Item("tag", 2202) \in WriterCalls
      BY TagCall
    <3> QED BY <1>2, <3>1, <3>2
  <2>3. Item("map", 0) \in WriterCalls
    BY SizeCall, SmallSizes
  <2> QED BY <1>2, <2>2, <2>3
<1>5. b \in Seq(WriterCalls) /\ Len(b) = 2 /\ b[1] = x1 /\ b[2] = x2
  BY <1>4, <1>p
<1>6. x1.op # "long" /\ x2.op # "long"
  BY <1>2 DEF Item
<1>7. GoodBody(b)
  <2>1. \A i \in 1..Len(b) : b[i].op = "long" => i = Len(b) /\ b[i].arg \in Nat
    BY <1>5, <1>6
  <2> QED BY <1>5, <2>1 DEF GoodBody
<1>8. Framed(Serialize(m), m) /\ Behind(Serialize(m), b)
  BY <1>1, <1>3, <1>7, Framing
<1>9. Serialize(m)[3 + 1] = x1 /\ Serialize(m)[3 + 2] = x2
  BY <1>5, <1>8 DEF Behind
<1> QED BY <1>2, <1>5, <1>8, <1>9, <1>t DEF Behind

\* The row of a body is the row of the message, three places on.
LEMMA RowShift ==
  ASSUME NEW row, IsRow(row), NEW n \in Nat, n >= 1, NEW b \in Seq(WriterCalls),
         NEW s, Behind(s, b), RowAt(b, n, row)
  PROVE  RowAt(s, 3 + n, row)
<1>0. PICK keys, c : keys = SetToSeq(DOMAIN row) /\ c = Cardinality(DOMAIN row)
  OBVIOUS
<1>1. c \in Nat
  BY <1>0, RowKeys, Sizes
<1>2. /\ Len(b) = n + 2 * c
      /\ b[n] = Item("map", c)
      /\ \A j \in 1..c : /\ b[n + (2 * j - 1)] = Item("string", keys[j])
                         /\ b[n + 2 * j] = Item("string", row[keys[j]])
  BY <1>0 DEF RowAt
<1>3. Len(s) = 3 + n + 2 * c
  BY <1>1, <1>2 DEF Behind
<1>4. s[3 + n] = Item("map", c)
  BY <1>1, <1>2 DEF Behind
<1>5. ASSUME NEW j \in 1..c
      PROVE  /\ s[3 + n + (2 * j - 1)] = Item("string", keys[j])
             /\ s[3 + n + 2 * j] = Item("string", row[keys[j]])
  <2>1. /\ n + (2 * j - 1) \in 1..Len(b) /\ n + 2 * j \in 1..Len(b)
        /\ 3 + n + (2 * j - 1) = 3 + (n + (2 * j - 1)) /\ 3 + n + 2 * j = 3 + (n + 2 * j)
    BY <1>1, <1>2
  <2>2. s[3 + (n + (2 * j - 1))] = b[n + (2 * j - 1)] /\ s[3 + (n + 2 * j)] = b[n + 2 * j]
    BY <2>1 DEF Behind
  <2> QED BY <1>2, <2>1, <2>2
<1> QED BY <1>0, <1>3, <1>4, <1>5 DEF RowAt

\* The items of an add.
LEMMA AddItems ==
  ASSUME NEW m, IsAdd(m)
  PROVE  LET s == Serialize(m)
         IN  /\ Framed(s, m)
             /\ s[4] = Item("tag", 1200) /\ s[5] = Item("array", 3)
             /\ s[6] = Item("string", m.database) /\ s[7] = Item("string", m.table)
             /\ RowAt(s, 8, m.row)
<1>1. m.kind = "add" /\ m.id \in UInt /\ m.database \in Chunk /\ m.table \in Chunk
      /\ IsRow(m.row)
  BY DEF IsAdd
<1>2. PICK x1, x2, x3, x4 :
        /\ x1 = Item("tag", 1200) /\ x2 = Item("array", 3)
        /\ x3 = Item("string", m.database) /\ x4 = Item("string", m.table)
  OBVIOUS
<1>p. PICK p : p = <<x1, x2, x3, x4>>
  OBVIOUS
<1>0. PICK b : b = p \o Map(m.row)
  OBVIOUS
<1>3. Body(m) = b
  BY <1>0, <1>1, <1>2, <1>p DEF Body, AddBody
<1>4. x1 \in WriterCalls /\ x2 \in WriterCalls /\ x3 \in WriterCalls /\ x4 \in WriterCalls
  BY <1>1, <1>2, TagCall, SizeCall, SmallSizes, ChunkCall
<1>5. /\ p \in Seq(WriterCalls) /\ Len(p) = 4
      /\ p[1] = x1 /\ p[2] = x2 /\ p[3] = x3 /\ p[4] = x4
  BY <1>4, <1>p
<1>6. x1.op # "long" /\ x2.op # "long" /\ x3.op # "long" /\ x4.op # "long"
  BY <1>2 DEF Item
<1>a. /\ b \in Seq(WriterCalls) /\ Len(b) >= Len(p) + 1
      /\ \A i \in 1..Len(p) : b[i] = p[i]
      /\ \A i \in (Len(p) + 1)..Len(b) : b[i].op # "long"
      /\ RowAt(b, Len(p) + 1, m.row)
  BY <1>0, <1>1, <1>5, Mapped
<1>b. /\ b \in Seq(WriterCalls) /\ Len(b) \in Nat /\ Len(b) >= 5 /\ RowAt(b, 5, m.row)
      /\ b[1] = x1 /\ b[2] = x2 /\ b[3] = x3 /\ b[4] = x4
      /\ \A i \in 5..Len(b) : b[i].op # "long"
  BY <1>5, <1>a
<1>7. ASSUME NEW i \in 1..Len(b)
      PROVE  b[i].op # "long"
  <2>1. i \in {1, 2, 3, 4} \/ i \in 5..Len(b)
    BY <1>b
  <2> QED BY <1>6, <1>b, <2>1
<1>g. GoodBody(b)
  BY <1>7, <1>b DEF GoodBody
<1>8. Framed(Serialize(m), m) /\ Behind(Serialize(m), b)
  BY <1>1, <1>3, <1>g, Framing
<1>9. /\ Serialize(m)[3 + 1] = x1 /\ Serialize(m)[3 + 2] = x2
      /\ Serialize(m)[3 + 3] = x3 /\ Serialize(m)[3 + 4] = x4
  BY <1>8, <1>b DEF Behind
<1>10. RowAt(Serialize(m), 3 + 5, m.row)
  BY <1>1, <1>8, <1>b, RowShift
<1> QED BY <1>2, <1>8, <1>9, <1>10

\* The items of a response with a row.
LEMMA GetOkItems ==
  ASSUME NEW m, IsGetOk(m)
  PROVE  LET s == Serialize(m)
         IN  /\ Framed(s, m)
             /\ s[4] = Item("tag", 2100)
             /\ RowAt(s, 5, m.row)
<1>1. m.kind = "getOk" /\ m.id \in UInt /\ IsRow(m.row)
  BY DEF IsGetOk
<1>2. PICK x1 : x1 = Item("tag", 2100)
  OBVIOUS
<1>p. PICK p : p = <<x1>>
  OBVIOUS
<1>0. PICK b : b = p \o Map(m.row)
  OBVIOUS
<1>3. Body(m) = b
  BY <1>0, <1>1, <1>2, <1>p DEF Body, ResponseBody
<1>4. x1 \in WriterCalls
  BY <1>2, TagCall
<1>5. p \in Seq(WriterCalls) /\ Len(p) = 1 /\ p[1] = x1
  BY <1>4, <1>p
<1>6. x1.op # "long"
  BY <1>2 DEF Item
<1>a. /\ b \in Seq(WriterCalls) /\ Len(b) >= Len(p) + 1
      /\ \A i \in 1..Len(p) : b[i] = p[i]
      /\ \A i \in (Len(p) + 1)..Len(b) : b[i].op # "long"
      /\ RowAt(b, Len(p) + 1, m.row)
  BY <1>0, <1>1, <1>5, Mapped
<1>b. /\ b \in Seq(WriterCalls) /\ Len(b) \in Nat /\ Len(b) >= 2 /\ RowAt(b, 2, m.row)
      /\ b[1] = x1
      /\ \A i \in 2..Len(b) : b[i].op # "long"
  BY <1>5, <1>a
<1>7. ASSUME NEW i \in 1..Len(b)
      PROVE  b[i].op # "long"
  <2>1. i = 1 \/ i \in 2..Len(b)
    BY <1>b
  <2> QED BY <1>6, <1>b, <2>1
<1>g. GoodBody(b)
  BY <1>7, <1>b DEF GoodBody
<1>8. Framed(Serialize(m), m) /\ Behind(Serialize(m), b)
  BY <1>1, <1>3, <1>g, Framing
<1>9. Serialize(m)[3 + 1] = x1
  BY <1>8, <1>b DEF Behind
<1>10. RowAt(Serialize(m), 3 + 2, m.row)
  BY <1>1, <1>8, <1>b, RowShift
<1> QED BY <1>2, <1>8, <1>9, <1>10

(***************************************************************************)
(* The parser along a message: the wrapper, and a get                      *)
(***************************************************************************)

\* A state and a call have one move for each argument the parser compares.
LEMMA OneMove ==
  ASSUME NEW m \in Moves, NEW n \in Moves, m[1] = n[1], m[2] = n[2]
  PROVE  m = n \/ (m[3] # n[3] /\ m[3] # AnyArg /\ n[3] # AnyArg)
  BY SMTT(120) DEF Moves, AnyArg
\* A move whose argument fits is where the parser goes.
LEMMA MoveGoes ==
  ASSUME NEW s, NEW on, NEW n, NEW t, NEW arg, <<s, on, n, t>> \in Moves, pstate = s,
         n \in {AnyArg, arg}
  PROVE  Goes(on, arg, t)
<1> DEFINE m == <<s, on, n, t>>
<1>1. m \in Expected(on, arg)
  BY DEF Expected
<1>2. ASSUME NEW o \in Expected(on, arg) PROVE o[4] = t
  <2>1. o \in Moves /\ o[1] = m[1] /\ o[2] = m[2] /\ (o[3] = AnyArg \/ o[3] = arg)
    BY DEF Expected
  <2>2. m \in Moves /\ m[3] = n /\ m[4] = t
    OBVIOUS
  <2> HIDE DEF m
  <2> QED BY <2>1, <2>2, OneMove
<1> QED BY <1>1, <1>2 DEF Goes

\* The parser is told of an item.
Hears(it) == On(Told(it).on, Told(it).arg)

\* The call of the listener that the reader makes for each kind of item.
LEMMA Heard ==
  /\ \A t : Hears(Item("tag", t)) => On("tag", t)
  /\ \A n : Hears(Item("array", n)) => On("array", n)
  /\ \A n : Hears(Item("map", n)) => On("map", n)
  /\ \A s : Hears(Item("string", s)) => On("string", s)
  /\ \A s : Hears(Item("bytes", s)) => On("bytes", s)
  /\ \A i : Hears(Item("int", i)) => On("integer", AsInt(AsUInt(i)))
  /\ \A i : Hears(Item("long", i)) => On("integer", AsInt(AsUInt(i)))
  BY ToldItems DEF Hears, Call

\* An item of the wrapper takes the parser on.
LEMMA WrapperStep ==
  ASSUME NEW m, m.id \in UInt, Framed(Serialize(m), m), NEW k \in 0..2, InWrapper(m, k),
         Hears(Serialize(m)[k + 1])
  PROVE  InWrapper(m, k + 1)' /\ (k = 2 => currentRequestId' = m.id)
<1>1. /\ Serialize(m)[1] = Item("tag", IF IsRequest(m) THEN 1000 ELSE 2000)
      /\ Serialize(m)[2] = Item("array", 2) /\ Serialize(m)[3] = Item("int", m.id)
  BY DEF Framed
<1>2. handled = <<>>
  BY DEF InWrapper
<1>3. CASE k = 0
  <2>1. pstate = "INIT"
    BY <1>3 DEF InWrapper
  <2>2. NoField(pstate)
    BY <2>1 DEF NoField, Fields
  <2>3. CASE IsRequest(m)
    <3>1. On("tag", 1000)
      BY <1>1, <1>3, <2>3, Heard
    <3>2. Goes("tag", 1000, "REQUEST_WRAPPER_ARRAY")
      <4>1. <<"INIT", "tag", 1000, "REQUEST_WRAPPER_ARRAY">> \in Moves
        BY DEF Moves
      <4> QED BY <2>1, <4>1, MoveGoes
    <3>3. pstate' = "REQUEST_WRAPPER_ARRAY" /\ handled' = <<>>
      BY <1>2, <2>2, <3>1, <3>2, TagMove
    <3> QED BY <1>3, <2>3, <3>3 DEF InWrapper
  <2>4. CASE ~IsRequest(m)
    <3>1. On("tag", 2000)
      BY <1>1, <1>3, <2>4, Heard
    <3>2. Goes("tag", 2000, "RESPONSE_WRAPPER_ARRAY")
      <4>1. <<"INIT", "tag", 2000, "RESPONSE_WRAPPER_ARRAY">> \in Moves
        BY DEF Moves
      <4> QED BY <2>1, <4>1, MoveGoes
    <3>3. pstate' = "RESPONSE_WRAPPER_ARRAY" /\ handled' = <<>>
      BY <1>2, <2>2, <3>1, <3>2, TagMove
    <3> QED BY <1>3, <2>4, <3>3 DEF InWrapper
  <2> QED BY <2>3, <2>4
<1>4. CASE k = 1
  <2>1. On("array", 2)
    BY <1>1, <1>4, Heard
  <2>2. CASE IsRequest(m)
    <3>1. pstate = "REQUEST_WRAPPER_ARRAY"
      BY <1>4, <2>2 DEF InWrapper
    <3>2. NoField(pstate)
      BY <3>1 DEF NoField, Fields
    <3>3. Goes("array", 2, "REQUEST_WRAPPER_ID")
      <4>1. <<"REQUEST_WRAPPER_ARRAY", "array", 2, "REQUEST_WRAPPER_ID">> \in Moves
        BY DEF Moves
      <4> QED BY <3>1, <4>1, MoveGoes
    <3>4. pstate' = "REQUEST_WRAPPER_ID" /\ handled' = <<>>
      BY <1>2, <2>1, <3>2, <3>3, ArrayMove
    <3> QED BY <1>4, <2>2, <3>4 DEF InWrapper
  <2>3. CASE ~IsRequest(m)
    <3>1. pstate = "RESPONSE_WRAPPER_ARRAY"
      BY <1>4, <2>3 DEF InWrapper
    <3>2. NoField(pstate)
      BY <3>1 DEF NoField, Fields
    <3>3. Goes("array", 2, "RESPONSE_WRAPPER_ID")
      <4>1. <<"RESPONSE_WRAPPER_ARRAY", "array", 2, "RESPONSE_WRAPPER_ID">> \in Moves
        BY DEF Moves
      <4> QED BY <3>1, <4>1, MoveGoes
    <3>4. pstate' = "RESPONSE_WRAPPER_ID" /\ handled' = <<>>
      BY <1>2, <2>1, <3>2, <3>3, ArrayMove
    <3> QED BY <1>4, <2>3, <3>4 DEF InWrapper
  <2> QED BY <2>2, <2>3
<1>5. CASE k = 2
  <2> DEFINE v == AsInt(AsUInt(m.id))
  <2>1. On("integer", v)
    BY <1>1, <1>5, Heard
  <2>2. AsUInt(v) = m.id
    BY Ids
  <2> HIDE DEF v
  <2>3. CASE IsRequest(m)
    <3>1. pstate = "REQUEST_WRAPPER_ID"
      BY <1>5, <2>3 DEF InWrapper
    <3>2. NoField(pstate)
      BY <3>1 DEF NoField, Fields
    <3>3. Goes("integer", v, "REQUEST_WRAPPER_BODY")
      <4>1. <<"REQUEST_WRAPPER_ID", "integer", AnyArg, "REQUEST_WRAPPER_BODY">> \in Moves
        BY DEF Moves
      <4> QED BY <3>1, <4>1, MoveGoes
    <3>4. pstate' = "REQUEST_WRAPPER_BODY" /\ handled' = <<>> /\ currentRequestId' = m.id
      BY <1>2, <2>1, <2>2, <3>2, <3>3, WrapperIdMove
    <3> QED BY <1>5, <2>3, <3>4 DEF InWrapper
  <2>4. CASE ~IsRequest(m)
    <3>1. pstate = "RESPONSE_WRAPPER_ID"
      BY <1>5, <2>4 DEF InWrapper
    <3>2. NoField(pstate)
      BY <3>1 DEF NoField, Fields
    <3>3. Goes("integer", v, "RESPONSE_WRAPPER_BODY")
      <4>1. <<"RESPONSE_WRAPPER_ID", "integer", AnyArg, "RESPONSE_WRAPPER_BODY">> \in Moves
        BY DEF Moves
      <4> QED BY <3>1, <4>1, MoveGoes
    <3>4. pstate' = "RESPONSE_WRAPPER_BODY" /\ handled' = <<>> /\ currentRequestId' = m.id
      BY <1>2, <2>1, <2>2, <3>2, <3>3, WrapperIdMove
    <3> QED BY <1>5, <2>4, <3>4 DEF InWrapper
  <2> QED BY <2>3, <2>4
<1> QED BY <1>3, <1>4, <1>5

\* An item of a get takes the parser on, and the last one hands the get over.
LEMMA GetStep ==
  ASSUME NEW m, IsGet(m), NEW k \in 3..7,
         k = 3 => InWrapper(m, 3), k > 3 => InGet(m, k - 3), currentRequestId = m.id,
         Hears(Serialize(m)[k + 1]), ~Lossy(Serialize(m)[k + 1])
  PROVE  /\ k < 7 => InGet(m, k - 2)'
         /\ k = 7 => handled' = <<Arrived(m)>>
         /\ currentRequestId' = m.id
<1>1. PICK s : s = Serialize(m)
  OBVIOUS
<1>2. /\ s[4] = Item("tag", 1100) /\ s[5] = Item("array", 3)
      /\ s[6] = Item("string", m.database) /\ s[7] = Item("string", m.table)
      /\ s[8] = Item("long", m.pk)
  BY <1>1, GetItems
<1>3. m.kind = "get" /\ m.pk \in Nat
  BY DEF IsGet
<1>4. CASE k = 3
  <2>1. pstate = "REQUEST_WRAPPER_BODY" /\ handled = <<>>
    BY <1>3, <1>4 DEF InWrapper, IsRequest
  <2>2. On("tag", 1100)
    BY <1>1, <1>2, <1>4, Heard
  <2>f. NoField(pstate)
    BY <2>1 DEF NoField, Fields
  <2>3. Goes("tag", 1100, "REQUEST_GET_ARRAY")
    <3>1. <<"REQUEST_WRAPPER_BODY", "tag", 1100, "REQUEST_GET_ARRAY">> \in Moves
      BY DEF Moves
    <3> QED BY <2>1, <3>1, MoveGoes
  <2>4. /\ pstate' = "REQUEST_GET_ARRAY" /\ currentObject' = [kind |-> "get"]
        /\ handled' = <<>> /\ currentRequestId' = m.id
    BY <2>1, <2>2, <2>3, <2>f, TagMove DEF Started
  <2> QED BY <1>4, <2>4 DEF InGet, Waits
<1>5. CASE k = 4
  <2>1. Waits("REQUEST_GET_ARRAY", [kind |-> "get"])
    BY <1>5 DEF InGet
  <2>2. On("array", 3)
    BY <1>1, <1>2, <1>5, Heard
  <2>f. NoField(pstate)
    BY <2>1 DEF NoField, Fields, Waits
  <2>3. Goes("array", 3, "REQUEST_GET_DATABASE")
    <3>1. <<"REQUEST_GET_ARRAY", "array", 3, "REQUEST_GET_DATABASE">> \in Moves
      BY DEF Moves
    <3> QED BY <2>1, <3>1, MoveGoes DEF Waits
  <2>4. Waits("REQUEST_GET_DATABASE", [kind |-> "get"])' /\ currentRequestId' = m.id
    BY <2>1, <2>2, <2>3, <2>f, ArrayMove DEF Waits
  <2> QED BY <1>5, <2>4 DEF InGet
<1>6. CASE k = 5
  <2>1. Waits("REQUEST_GET_DATABASE", [kind |-> "get"])
    BY <1>6 DEF InGet
  <2>2. On("string", m.database)
    BY <1>1, <1>2, <1>6, Heard
  <2>f. Fills(pstate, "database") /\ pstate \notin Keys \cup Values \cup WrapperIds
    BY <2>1 DEF Waits, Fills, Fields, Keys, Values, WrapperIds
  <2>3. Goes("string", m.database, "REQUEST_GET_TABLE")
    <3>1. <<"REQUEST_GET_DATABASE", "string", AnyArg, "REQUEST_GET_TABLE">> \in Moves
      BY DEF Moves
    <3> QED BY <2>1, <3>1, MoveGoes DEF Waits
  <2>4. /\ pstate' = "REQUEST_GET_TABLE" /\ handled' = <<>> /\ currentRequestId' = m.id
        /\ currentObject' = With([kind |-> "get"], "database", m.database)
    BY <2>1, <2>2, <2>3, <2>f, FieldMove DEF Waits
  <2>5. With([kind |-> "get"], "database", m.database)
          = [kind |-> "get", database |-> m.database]
    BY DEF With
  <2> QED BY <1>6, <2>4, <2>5 DEF InGet, Waits
<1>7. CASE k = 6
  <2> DEFINE o == [kind |-> "get", database |-> m.database]
  <2>1. Waits("REQUEST_GET_TABLE", o)
    BY <1>7 DEF InGet
  <2>2. On("string", m.table)
    BY <1>1, <1>2, <1>7, Heard
  <2>f. Fills(pstate, "table") /\ pstate \notin Keys \cup Values \cup WrapperIds
    BY <2>1 DEF Waits, Fills, Fields, Keys, Values, WrapperIds
  <2>3. Goes("string", m.table, "REQUEST_GET_PK")
    <3>1. <<"REQUEST_GET_TABLE", "string", AnyArg, "REQUEST_GET_PK">> \in Moves
      BY DEF Moves
    <3> QED BY <2>1, <3>1, MoveGoes DEF Waits
  <2>4. /\ pstate' = "REQUEST_GET_PK" /\ handled' = <<>> /\ currentRequestId' = m.id
        /\ currentObject' = With(o, "table", m.table)
    BY <2>1, <2>2, <2>3, <2>f, FieldMove DEF Waits
  <2>5. With(o, "table", m.table)
          = [kind |-> "get", database |-> m.database, table |-> m.table]
    BY DEF With
  <2> QED BY <1>7, <2>4, <2>5 DEF InGet, Waits
<1>8. CASE k = 7
  <2> DEFINE o == [kind |-> "get", database |-> m.database, table |-> m.table]
             v == AsInt(m.pk)
  <2>1. Waits("REQUEST_GET_PK", o)
    BY <1>8 DEF InGet
  <2>2. On("integer", v)
    <3>1. Item("long", m.pk) \in WriterCalls /\ ~Lossy(Item("long", m.pk))
      BY <1>1, <1>2, <1>3, <1>8, LongCall
    <3>2. Value(Item("long", m.pk)) = m.pk
      BY <1>3 DEF Value, Item, IsChunk
    <3>3. m.pk \in UInt
      BY <3>1, <3>2, SoundHead
    <3>4. AsUInt(m.pk) = m.pk
      BY <3>3, AsUInts
    <3> QED BY <1>1, <1>2, <1>8, <3>4, Heard
  <2> HIDE DEF v
  <2>f. Fills(pstate, "pk") /\ pstate \notin Keys \cup Values \cup WrapperIds
    BY <2>1 DEF Waits, Fills, Fields, Keys, Values, WrapperIds
  <2>3. Goes("integer", v, "INIT")
    <3>1. <<"REQUEST_GET_PK", "integer", AnyArg, "INIT">> \in Moves
      BY DEF Moves
    <3> QED BY <2>1, <3>1, MoveGoes DEF Waits
  <2>4. /\ handled' = Append(handled, With(currentObject', "id", m.id))
        /\ currentRequestId' = m.id /\ currentObject' = With(o, "pk", v)
    BY <2>1, <2>2, <2>3, <2>f, FieldMove DEF Waits
  <2>5. With(o, "pk", v)
          = [kind |-> "get", database |-> m.database, table |-> m.table, pk |-> v]
    BY DEF With
  <2>6. With(With(o, "pk", v), "id", m.id) = Arrived(m)
    BY <2>5 DEF With, Arrived, IsGet, v
  <2>7. handled' = <<Arrived(m)>>
    BY <2>1, <2>4, <2>6 DEF Waits
  <2>8. ~(k < 7)
    BY <1>8
  <2> QED BY <1>8, <2>4, <2>7, <2>8
<1> QED BY <1>4, <1>5, <1>6, <1>7, <1>8

(***************************************************************************)
(* The parser along a message: the bodies without a row                    *)
(***************************************************************************)

\* What a number of eight bytes or fewer says when it is not lossy.
LEMMA LongTold ==
  ASSUME NEW v \in Nat, ~Lossy(Item("long", v))
  PROVE  v \in UInt /\ (Hears(Item("long", v)) => On("integer", AsInt(v)))
<1>1. Item("long", v) \in WriterCalls
  BY LongCall
<1>2. Value(Item("long", v)) = v
  BY DEF Value, Item, IsChunk
<1>3. v \in UInt
  BY <1>1, <1>2, SoundHead
<1>4. AsUInt(v) = v
  BY <1>3, AsUInts
<1> QED BY <1>3, <1>4, Heard

\* An item of a continuation takes the parser on, and the last one hands it
\* over.
LEMMA ContinueStep ==
  ASSUME NEW m, IsContinue(m), NEW k \in 3..6,
         k = 3 => InWrapper(m, 3), k > 3 => InContinue(m, k - 3), currentRequestId = m.id,
         Hears(Serialize(m)[k + 1])
  PROVE  /\ k < 6 => InContinue(m, k - 2)'
         /\ k = 6 => handled' = <<Arrived(m)>>
         /\ currentRequestId' = m.id
<1>1. PICK s : s = Serialize(m)
  OBVIOUS
<1>2. /\ s[4] = Item("tag", 3100) /\ s[5] = Item("array", 2)
      /\ s[6] = Item("int", m.initRequestId) /\ s[7] = Item("int", m.compareResult)
  BY <1>1, ContinueItems
<1>3. /\ m.kind = "continue" /\ m.initRequestId \in UInt
      /\ m.compareResult \in -(IntMax + 1)..IntMax
  BY DEF IsContinue
<1>4. CASE k = 3
  <2>1. pstate = "REQUEST_WRAPPER_BODY" /\ handled = <<>>
    BY <1>3, <1>4 DEF InWrapper, IsRequest
  <2>2. On("tag", 3100)
    BY <1>1, <1>2, <1>4, Heard
  <2>f. NoField(pstate)
    BY <2>1 DEF NoField, Fields
  <2>3. Goes("tag", 3100, "REQUEST_ADD_CONTINUE_ARRAY")
    <3>1. <<"REQUEST_WRAPPER_BODY", "tag", 3100, "REQUEST_ADD_CONTINUE_ARRAY">> \in Moves
      BY DEF Moves
    <3> QED BY <2>1, <3>1, MoveGoes
  <2>4. /\ pstate' = "REQUEST_ADD_CONTINUE_ARRAY" /\ currentObject' = [kind |-> "continue"]
        /\ handled' = <<>> /\ currentRequestId' = m.id
    BY <2>1, <2>2, <2>3, <2>f, TagMove DEF Started
  <2> QED BY <1>4, <2>4 DEF InContinue, Waits
<1>5. CASE k = 4
  <2>1. Waits("REQUEST_ADD_CONTINUE_ARRAY", [kind |-> "continue"])
    BY <1>5 DEF InContinue
  <2>2. On("array", 2)
    BY <1>1, <1>2, <1>5, Heard
  <2>f. NoField(pstate)
    BY <2>1 DEF NoField, Fields, Waits
  <2>3. Goes("array", 2, "REQUEST_ADD_CONTINUE_INIT_REQUEST_ID")
    <3>1. <<"REQUEST_ADD_CONTINUE_ARRAY", "array", 2,
            "REQUEST_ADD_CONTINUE_INIT_REQUEST_ID">> \in Moves
      BY DEF Moves
    <3> QED BY <2>1, <3>1, MoveGoes DEF Waits
  <2>4. Waits("REQUEST_ADD_CONTINUE_INIT_REQUEST_ID", [kind |-> "continue"])'
        /\ currentRequestId' = m.id
    BY <2>1, <2>2, <2>3, <2>f, ArrayMove DEF Waits
  <2> QED BY <1>5, <2>4 DEF InContinue
<1>6. CASE k = 5
  <2> DEFINE v == AsInt(AsUInt(m.initRequestId))
  <2>1. Waits("REQUEST_ADD_CONTINUE_INIT_REQUEST_ID", [kind |-> "continue"])
    BY <1>6 DEF InContinue
  <2>2. On("integer", v)
    BY <1>1, <1>2, <1>6, Heard
  <2>u. AsUInt(v) = m.initRequestId
    BY <1>3, Ids
  <2> HIDE DEF v
  <2>f. Fills(pstate, "initRequestId") /\ pstate \notin Keys \cup Values \cup WrapperIds
    BY <2>1 DEF Waits, Fills, Fields, Keys, Values, WrapperIds
  <2>3. Goes("integer", v, "REQUEST_ADD_CONTINUE_COMPARE_RESULT")
    <3>1. <<"REQUEST_ADD_CONTINUE_INIT_REQUEST_ID", "integer", AnyArg,
            "REQUEST_ADD_CONTINUE_COMPARE_RESULT">> \in Moves
      BY DEF Moves
    <3> QED BY <2>1, <3>1, MoveGoes DEF Waits
  <2>4. /\ pstate' = "REQUEST_ADD_CONTINUE_COMPARE_RESULT" /\ handled' = <<>>
        /\ currentRequestId' = m.id
        /\ currentObject' = With([kind |-> "continue"], "initRequestId", m.initRequestId)
    BY <2>1, <2>2, <2>3, <2>f, FieldMove, <2>u DEF Waits
  <2>5. With([kind |-> "continue"], "initRequestId", m.initRequestId)
          = [kind |-> "continue", initRequestId |-> m.initRequestId]
    BY DEF With
  <2> QED BY <1>6, <2>4, <2>5 DEF InContinue, Waits
<1>7. CASE k = 6
  <2> DEFINE o == [kind |-> "continue", initRequestId |-> m.initRequestId]
             v == m.compareResult
  <2>1. Waits("REQUEST_ADD_CONTINUE_COMPARE_RESULT", o)
    BY <1>7 DEF InContinue
  <2>2. On("integer", v)
    <3>1. AsInt(AsUInt(v)) = v
      BY <1>3, AsInts
    <3> QED BY <1>1, <1>2, <1>7, <3>1, Heard
  <2> HIDE DEF v
  <2>f. Fills(pstate, "compareResult") /\ pstate \notin Keys \cup Values \cup WrapperIds
    BY <2>1 DEF Waits, Fills, Fields, Keys, Values, WrapperIds
  <2>3. Goes("integer", v, "INIT")
    <3>1. <<"REQUEST_ADD_CONTINUE_COMPARE_RESULT", "integer", AnyArg, "INIT">> \in Moves
      BY DEF Moves
    <3> QED BY <2>1, <3>1, MoveGoes DEF Waits
  <2>4. /\ handled' = Append(handled, With(currentObject', "id", m.id))
        /\ currentRequestId' = m.id /\ currentObject' = With(o, "compareResult", v)
    BY <2>1, <2>2, <2>3, <2>f, FieldMove DEF Waits
  <2>5. With(o, "compareResult", v)
          = [kind |-> "continue", initRequestId |-> m.initRequestId, compareResult |-> v]
    BY DEF With
  <2>6. With(With(o, "compareResult", v), "id", m.id) = Arrived(m)
    BY <2>5 DEF With, Arrived, IsContinue, v
  <2>7. handled' = <<Arrived(m)>>
    BY <2>1, <2>4, <2>6 DEF Waits
  <2>8. ~(k < 6)
    BY <1>7
  <2> QED BY <1>7, <2>4, <2>7, <2>8
<1> QED BY <1>4, <1>5, <1>6, <1>7

\* An item of a traverse response takes the parser on, and the last one hands it
\* over.
LEMMA TraverseStep ==
  ASSUME NEW m, IsTraverse(m), NEW k \in 3..6,
         k = 3 => InWrapper(m, 3), k > 3 => InTraverse(m, k - 3), currentRequestId = m.id,
         Hears(Serialize(m)[k + 1])
  PROVE  /\ k < 6 => InTraverse(m, k - 2)'
         /\ k = 6 => handled' = <<Arrived(m)>>
         /\ currentRequestId' = m.id
<1>1. PICK s : s = Serialize(m)
  OBVIOUS
<1>2. /\ s[4] = Item("tag", 2201) /\ s[5] = Item("array", 2)
      /\ s[6] = Item("int", m.initRequestId) /\ s[7] = Item("bytes", m.ciphertext)
  BY <1>1, TraverseItems
<1>3. m.kind = "traverse" /\ m.initRequestId \in UInt
  BY DEF IsTraverse
<1>4. CASE k = 3
  <2>1. pstate = "RESPONSE_WRAPPER_BODY" /\ handled = <<>>
    BY <1>3, <1>4 DEF InWrapper, IsRequest
  <2>2. On("tag", 2201)
    BY <1>1, <1>2, <1>4, Heard
  <2>f. NoField(pstate)
    BY <2>1 DEF NoField, Fields
  <2>3. Goes("tag", 2201, "RESPONSE_ADD_TRAVERSE_ARRAY")
    <3>1. <<"RESPONSE_WRAPPER_BODY", "tag", 2201, "RESPONSE_ADD_TRAVERSE_ARRAY">> \in Moves
      BY DEF Moves
    <3> QED BY <2>1, <3>1, MoveGoes
  <2>4. /\ pstate' = "RESPONSE_ADD_TRAVERSE_ARRAY" /\ currentObject' = [kind |-> "traverse"]
        /\ handled' = <<>> /\ currentRequestId' = m.id
    BY <2>1, <2>2, <2>3, <2>f, TagMove DEF Started
  <2> QED BY <1>4, <2>4 DEF InTraverse, Waits
<1>5. CASE k = 4
  <2>1. Waits("RESPONSE_ADD_TRAVERSE_ARRAY", [kind |-> "traverse"])
    BY <1>5 DEF InTraverse
  <2>2. On("array", 2)
    BY <1>1, <1>2, <1>5, Heard
  <2>f. NoField(pstate)
    BY <2>1 DEF NoField, Fields, Waits
  <2>3. Goes("array", 2, "RESPONSE_ADD_TRAVERSE_INIT_REQUEST_ID")
    <3>1. <<"RESPONSE_ADD_TRAVERSE_ARRAY", "array", 2,
            "RESPONSE_ADD_TRAVERSE_INIT_REQUEST_ID">> \in Moves
      BY DEF Moves
    <3> QED BY <2>1, <3>1, MoveGoes DEF Waits
  <2>4. Waits("RESPONSE_ADD_TRAVERSE_INIT_REQUEST_ID", [kind |-> "traverse"])'
        /\ currentRequestId' = m.id
    BY <2>1, <2>2, <2>3, <2>f, ArrayMove DEF Waits
  <2> QED BY <1>5, <2>4 DEF InTraverse
<1>6. CASE k = 5
  <2> DEFINE v == AsInt(AsUInt(m.initRequestId))
  <2>1. Waits("RESPONSE_ADD_TRAVERSE_INIT_REQUEST_ID", [kind |-> "traverse"])
    BY <1>6 DEF InTraverse
  <2>2. On("integer", v)
    BY <1>1, <1>2, <1>6, Heard
  <2>u. AsUInt(v) = m.initRequestId
    BY <1>3, Ids
  <2> HIDE DEF v
  <2>f. Fills(pstate, "initRequestId") /\ pstate \notin Keys \cup Values \cup WrapperIds
    BY <2>1 DEF Waits, Fills, Fields, Keys, Values, WrapperIds
  <2>3. Goes("integer", v, "RESPONSE_ADD_TRAVERSE_CIPHERTEXT")
    <3>1. <<"RESPONSE_ADD_TRAVERSE_INIT_REQUEST_ID", "integer", AnyArg,
            "RESPONSE_ADD_TRAVERSE_CIPHERTEXT">> \in Moves
      BY DEF Moves
    <3> QED BY <2>1, <3>1, MoveGoes DEF Waits
  <2>4. /\ pstate' = "RESPONSE_ADD_TRAVERSE_CIPHERTEXT" /\ handled' = <<>>
        /\ currentRequestId' = m.id
        /\ currentObject' = With([kind |-> "traverse"], "initRequestId", m.initRequestId)
    BY <2>1, <2>2, <2>3, <2>f, FieldMove, <2>u DEF Waits
  <2>5. With([kind |-> "traverse"], "initRequestId", m.initRequestId)
          = [kind |-> "traverse", initRequestId |-> m.initRequestId]
    BY DEF With
  <2> QED BY <1>6, <2>4, <2>5 DEF InTraverse, Waits
<1>7. CASE k = 6
  <2> DEFINE o == [kind |-> "traverse", initRequestId |-> m.initRequestId]
             v == m.ciphertext
  <2>1. Waits("RESPONSE_ADD_TRAVERSE_CIPHERTEXT", o)
    BY <1>7 DEF InTraverse
  <2>2. On("bytes", v)
    BY <1>1, <1>2, <1>7, Heard
  <2> HIDE DEF v
  <2>f. Fills(pstate, "ciphertext") /\ pstate \notin Keys \cup Values \cup WrapperIds
    BY <2>1 DEF Waits, Fills, Fields, Keys, Values, WrapperIds
  <2>3. Goes("bytes", v, "INIT")
    <3>1. <<"RESPONSE_ADD_TRAVERSE_CIPHERTEXT", "bytes", AnyArg, "INIT">> \in Moves
      BY DEF Moves
    <3> QED BY <2>1, <3>1, MoveGoes DEF Waits
  <2>4. /\ handled' = Append(handled, With(currentObject', "id", m.id))
        /\ currentRequestId' = m.id /\ currentObject' = With(o, "ciphertext", v)
    BY <2>1, <2>2, <2>3, <2>f, FieldMove DEF Waits
  <2>5. With(o, "ciphertext", v)
          = [kind |-> "traverse", initRequestId |-> m.initRequestId, ciphertext |-> v]
    BY DEF With
  <2>6. With(With(o, "ciphertext", v), "id", m.id) = Arrived(m)
    BY <2>5 DEF With, Arrived, IsTraverse, v
  <2>7. handled' = <<Arrived(m)>>
    BY <2>1, <2>4, <2>6 DEF Waits
  <2>8. ~(k < 6)
    BY <1>7
  <2> QED BY <1>7, <2>4, <2>7, <2>8
<1> QED BY <1>4, <1>5, <1>6, <1>7

\* The items of an empty response take the parser on, and its map hands it over.
LEMMA EmptyStep ==
  ASSUME NEW m, IsPlain(m), m.kind # "addError", NEW k \in 3..4,
         k = 3 => InWrapper(m, 3), k > 3 => InEmpty(m, k - 3), currentRequestId = m.id,
         Hears(Serialize(m)[k + 1])
  PROVE  /\ k = 3 => InEmpty(m, 1)'
         /\ k = 4 => handled' = <<Arrived(m)>>
         /\ currentRequestId' = m.id
<1>1. Serialize(m)[4] = Item("tag", PlainTag(m)) /\ Serialize(m)[5] = Item("map", 0)
  BY PlainItems
<1>2. m.kind \in {"getEmpty", "addOk"} /\ ~IsRequest(m)
  BY DEF IsPlain, IsRequest
<1>3. CASE k = 3
  <2>1. pstate = "RESPONSE_WRAPPER_BODY" /\ handled = <<>>
    BY <1>2, <1>3 DEF InWrapper
  <2>n. NoField(pstate)
    BY <2>1 DEF NoField, Fields
  <2>2. CASE m.kind = "getEmpty"
    <3>1. On("tag", 2101)
      BY <1>1, <1>3, <2>2, Heard DEF PlainTag
    <3>2. Goes("tag", 2101, "RESPONSE_GET_EMPTY_MAP")
      <4>1. <<"RESPONSE_WRAPPER_BODY", "tag", 2101, "RESPONSE_GET_EMPTY_MAP">> \in Moves
        BY DEF Moves
      <4> QED BY <2>1, <4>1, MoveGoes
    <3>3. pstate' = "RESPONSE_GET_EMPTY_MAP" /\ handled' = <<>> /\ currentRequestId' = m.id
      BY <2>1, <2>n, <3>1, <3>2, TagMove
    <3> QED BY <1>3, <2>2, <3>3 DEF InEmpty
  <2>3. CASE m.kind = "addOk"
    <3>1. On("tag", 2200)
      BY <1>1, <1>3, <2>3, Heard DEF PlainTag
    <3>2. Goes("tag", 2200, "RESPONSE_ADD_OK_MAP")
      <4>1. <<"RESPONSE_WRAPPER_BODY", "tag", 2200, "RESPONSE_ADD_OK_MAP">> \in Moves
        BY DEF Moves
      <4> QED BY <2>1, <4>1, MoveGoes
    <3>3. pstate' = "RESPONSE_ADD_OK_MAP" /\ handled' = <<>> /\ currentRequestId' = m.id
      BY <2>1, <2>n, <3>1, <3>2, TagMove
    <3> QED BY <1>3, <2>3, <3>3 DEF InEmpty
  <2> QED BY <1>2, <2>2, <2>3
<1>4. CASE k = 4
  <2>1. /\ handled = <<>>
        /\ pstate = IF m.kind = "addOk" THEN "RESPONSE_ADD_OK_MAP"
                                        ELSE "RESPONSE_GET_EMPTY_MAP"
    BY <1>4 DEF InEmpty
  <2>2. On("map", 0)
    BY <1>1, <1>4, Heard
  <2>n. NoField(pstate)
    BY <2>1 DEF NoField, Fields
  <2>3. Goes("map", 0, "INIT")
    <3>1. /\ <<"RESPONSE_GET_EMPTY_MAP", "map", 0, "INIT">> \in Moves
          /\ <<"RESPONSE_ADD_OK_MAP", "map", 0, "INIT">> \in Moves
      BY DEF Moves
    <3> QED BY <2>1, <3>1, MoveGoes
  <2>4. /\ handled' = Append(handled, With([kind |-> m.kind], "id", m.id))
        /\ currentRequestId' = m.id
    BY <1>2, <2>1, <2>2, <2>3, <2>n, NoRowMove
  <2>5. With([kind |-> m.kind], "id", m.id) = Arrived(m)
    BY <1>2 DEF With, Arrived, IsPlain
  <2>6. handled' = <<Arrived(m)>>
    BY <2>1, <2>4, <2>5
  <2>7. k # 3
    BY <1>4
  <2> QED BY <1>4, <2>4, <2>6, <2>7
<1> QED BY <1>3, <1>4

\* A tag the parser does not know.
LEMMA UnknownStep ==
  ASSUME NEW m, IsPlain(m), m.kind = "addError", NEW k \in 3..4,
         k = 3 => InWrapper(m, 3), k > 3 => InUnknown(m, k - 3), currentRequestId = m.id,
         Hears(Serialize(m)[k + 1])
  PROVE  InUnknown(m, k - 2)' /\ currentRequestId' = m.id
<1>1. Serialize(m)[4] = Item("tag", PlainTag(m)) /\ Serialize(m)[5] = Item("map", 0)
  BY PlainItems
<1>2. ~IsRequest(m)
  BY DEF IsRequest
<1>3. CASE k = 3
  <2>1. pstate = "RESPONSE_WRAPPER_BODY" /\ handled = <<>>
    BY <1>2, <1>3 DEF InWrapper
  <2>n. NoField(pstate)
    BY <2>1 DEF NoField, Fields
  <2>2. On("tag", 2202)
    BY <1>1, <1>3, Heard DEF PlainTag
  <2>3. Expected("tag", 2202) = {}
    BY <2>1 DEF Expected, Moves, AnyArg
  <2>4. /\ handled' = Append(handled, [kind |-> "error"])
        /\ pstate' = pstate /\ currentRequestId' = m.id
    BY <2>2, <2>3, <2>n, UnexpectedMove
  <2>5. handled' = [i \in 1..1 |-> [kind |-> "error"]]
    BY <2>1, <2>4
  <2> QED BY <1>3, <2>1, <2>4, <2>5 DEF InUnknown
<1>4. CASE k = 4
  <2>1. pstate = "RESPONSE_WRAPPER_BODY" /\ handled = [i \in 1..1 |-> [kind |-> "error"]]
    BY <1>4 DEF InUnknown
  <2>n. NoField(pstate)
    BY <2>1 DEF NoField, Fields
  <2>2. On("map", 0)
    BY <1>1, <1>4, Heard
  <2>3. Expected("map", 0) = {}
    BY <2>1 DEF Expected, Moves, AnyArg
  <2>4. /\ handled' = Append(handled, [kind |-> "error"])
        /\ pstate' = pstate /\ currentRequestId' = m.id
    BY <2>2, <2>3, <2>n, UnexpectedMove
  <2>5. handled' = [i \in 1..2 |-> [kind |-> "error"]]
    BY <2>1, <2>4
  <2> QED BY <1>4, <2>1, <2>4, <2>5 DEF InUnknown
<1> QED BY <1>3, <1>4

(***************************************************************************)
(* The parser along a row                                                  *)
(***************************************************************************)

\* A row of no columns is empty.
LEMMA NoColumns ==
  ASSUME NEW row
  PROVE  FirstColumns(row, 0) = <<>>
<1>1. PICK keys : keys = SetToSeq(DOMAIN row)
  OBVIOUS
<1>2. FirstColumns(row, 0) = [x \in {keys[i] : i \in 1..0} |-> row[x]]
  BY <1>1 DEF FirstColumns
<1>3. {keys[i] : i \in 1..0} = {}
  OBVIOUS
<1>4. <<>> = [x \in {} |-> row[x]]
  OBVIOUS
<1> QED BY <1>2, <1>3, <1>4

\* One more column put into the row of the first j.
LEMMA NextColumn ==
  ASSUME NEW row, NEW keys, keys = SetToSeq(DOMAIN row), NEW j \in Nat
  PROVE  With(FirstColumns(row, j), keys[j + 1], row[keys[j + 1]])
           = FirstColumns(row, j + 1)
<1> DEFINE S == {keys[i] : i \in 1..j}   T == {keys[i] : i \in 1..(j + 1)}
<1>1. FirstColumns(row, j) = [x \in S |-> row[x]]
      /\ FirstColumns(row, j + 1) = [x \in T |-> row[x]]
  BY DEF FirstColumns
<1>2. T = S \cup {keys[j + 1]}
  <2>1. 1..(j + 1) = 1..j \cup {j + 1}
    OBVIOUS
  <2> QED BY <2>1
<1> HIDE DEF S, T
<1>3. \A x \in S : [z \in S |-> row[z]][x] = row[x]
  OBVIOUS
<1> QED BY <1>1, <1>2, <1>3 DEF With

\* The row of all columns is the row.
LEMMA AllColumns ==
  ASSUME NEW row, IsRow(row)
  PROVE  FirstColumns(row, Cardinality(DOMAIN row)) = row
<1> DEFINE keys == SetToSeq(DOMAIN row)   c == Cardinality(DOMAIN row)
           S == {keys[i] : i \in 1..c}
<1>1. /\ \A j \in 1..c : keys[j] \in DOMAIN row
      /\ \A x \in DOMAIN row : \E i \in 1..c : keys[i] = x
  BY RowKeys
<1>2. FirstColumns(row, c) = [x \in S |-> row[x]]
  BY DEF FirstColumns
<1> HIDE DEF keys, c
<1>3. S = DOMAIN row
  BY <1>1
<1>4. row \in [DOMAIN row -> Chunk]
  BY DEF IsRow
<1> QED BY <1>2, <1>3, <1>4 DEF c

\* Strings take the parser from keys to values and back.
LEMMA RowGoes ==
  ASSUME NEW m, HasRow(m), NEW str
  PROVE  /\ pstate = KeyState(m) => Goes("string", str, ValueState(m))
         /\ pstate = ValueState(m) => Goes("string", str, KeyState(m))
<1>1. /\ <<"REQUEST_ADD_ROW_MAP_KEY", "string", AnyArg, "REQUEST_ADD_ROW_MAP_VALUE">> \in Moves
      /\ <<"REQUEST_ADD_ROW_MAP_VALUE", "string", AnyArg, "REQUEST_ADD_ROW_MAP_KEY">> \in Moves
  BY DEF Moves
<1>2. /\ <<"RESPONSE_GET_OK_MAP_KEY", "string", AnyArg, "RESPONSE_GET_OK_MAP_VALUE">> \in Moves
      /\ <<"RESPONSE_GET_OK_MAP_VALUE", "string", AnyArg, "RESPONSE_GET_OK_MAP_KEY">> \in Moves
  BY DEF Moves
<1>3. /\ <<KeyState(m), "string", AnyArg, ValueState(m)>> \in Moves
      /\ <<ValueState(m), "string", AnyArg, KeyState(m)>> \in Moves
  BY <1>1, <1>2 DEF KeyState, ValueState
<1> QED BY <1>3, MoveGoes

\* A key or a value of a row takes the parser on, and the last value hands the
\* object over.
LEMMA RowStep ==
  ASSUME NEW m, IsAdd(m) \/ IsGetOk(m), NEW n \in Nat, NEW s, RowAt(s, n, m.row),
         NEW k \in Nat, n + k < Len(s), InRow(m, k), Hears(s[n + (k + 1)]),
         currentRequestId = m.id
  PROVE  /\ \/ InRow(m, k + 1)'
            \/ n + (k + 1) = Len(s) /\ handled' = <<Arrived(m)>> /\ DOMAIN m.row # {}
         /\ currentRequestId' = m.id
<1>0. PICK row, keys, c : /\ row = m.row /\ keys = SetToSeq(DOMAIN row)
                          /\ c = Cardinality(DOMAIN row)
  OBVIOUS
<1>1. /\ IsRow(row) /\ m.kind \in {"add", "getOk"} /\ HasRow(m)
  BY <1>0 DEF IsAdd, IsGetOk, HasRow
<1>2. c \in Nat /\ Len(keys) = c
  BY <1>0, <1>1, RowKeys, Sizes
<1>3. /\ Len(s) = n + 2 * c
      /\ \A i \in 1..c : /\ s[n + (2 * i - 1)] = Item("string", keys[i])
                         /\ s[n + 2 * i] = Item("string", row[keys[i]])
  BY <1>0 DEF RowAt
<1>4. PICK j \in 0..c : \/ k = 2 * j /\ AtKey(m, j)
                        \/ k = 2 * j + 1 /\ j < c /\ AtValue(m, j)
  BY <1>0, <1>2 DEF InRow
<1>5. j \in Nat /\ j < c /\ j + 1 \in 1..c /\ j + 1 \in 0..c /\ j \in 0..c
  BY <1>2, <1>3, <1>4
<1>6. CASE k = 2 * j /\ AtKey(m, j)
  <2>1. n + (k + 1) = n + (2 * (j + 1) - 1) /\ k + 1 = 2 * j + 1
    BY <1>5, <1>6
  <2>2. Hears(Item("string", keys[j + 1]))
    BY <1>3, <1>5, <2>1
  <2>3. On("string", keys[j + 1])
    BY <2>2, Heard
  <2>4. pstate = KeyState(m) /\ pstate \in Keys
    BY <1>6 DEF AtKey, Waits, KeyState, Keys
  <2>5. Goes("string", keys[j + 1], ValueState(m))
    BY <1>1, <2>4, RowGoes
  <2>6. /\ pstate' = ValueState(m) /\ currentKey' = keys[j + 1] /\ elements' = elements
        /\ currentObject' = currentObject /\ currentRequestId' = m.id /\ handled' = handled
    BY <2>3, <2>4, <2>5, KeyMove
  <2>7. AtValue(m, j)'
    BY <1>0, <1>6, <2>6 DEF AtKey, AtValue, Waits
  <2>8. InRow(m, k + 1)'
    BY <1>0, <1>2, <1>5, <2>1, <2>7 DEF InRow, AtValue, ValueState
  <2> QED BY <2>6, <2>8
<1>7. CASE k = 2 * j + 1 /\ j < c /\ AtValue(m, j)
  <2>1. n + (k + 1) = n + 2 * (j + 1) /\ k + 1 = 2 * (j + 1)
    BY <1>5, <1>7
  <2> DEFINE y == row[keys[j + 1]]
  <2>2. Hears(Item("string", y))
    BY <1>3, <1>5, <2>1
  <2> HIDE DEF y
  <2>3. On("string", y)
    BY <2>2, Heard
  <2>4. pstate = ValueState(m) /\ pstate \in Values
    BY <1>7 DEF AtValue, Waits, ValueState, Values
  <2>5. Goes("string", y, KeyState(m))
    BY <1>1, <2>4, RowGoes
  <2>6. /\ elements' = elements - 1
        /\ currentObject' = [currentObject EXCEPT !.row = With(@, currentKey, y)]
        /\ elements' # 0 => pstate' = KeyState(m) /\ handled' = handled
        /\ elements' = 0 =>
             handled' = Append(handled, With(currentObject', "id", currentRequestId))
        /\ currentRequestId' = m.id
    BY <2>3, <2>4, <2>5, ValueMove
  <2>7. /\ elements = c - j /\ currentKey = keys[j + 1] /\ handled = <<>>
        /\ currentObject = Rowed(m, FirstColumns(row, j))
    BY <1>0, <1>2, <1>7 DEF AtValue, Waits
  <2>8. currentObject' = Rowed(m, FirstColumns(row, j + 1))
    <3>1. With(FirstColumns(row, j), keys[j + 1], y) = FirstColumns(row, j + 1)
      BY <1>0, <1>5, NextColumn DEF y
    <3> QED BY <1>1, <2>6, <2>7, <3>1 DEF Rowed
  <2>9. CASE j + 1 = c
    <3>1. elements' = 0 /\ n + (k + 1) = Len(s)
      BY <1>2, <1>3, <1>5, <2>1, <2>6, <2>7, <2>9
    <3>2. currentObject' = Rowed(m, row)
      BY <1>0, <1>1, <2>8, <2>9, AllColumns
    <3>3. With(Rowed(m, row), "id", m.id) = Arrived(m)
      <4>1. CASE IsAdd(m)
        BY <1>0, <4>1 DEF IsAdd, Rowed, With, Arrived
      <4>2. CASE IsGetOk(m)
        BY <1>0, <4>2 DEF IsGetOk, Rowed, With, Arrived
      <4> QED BY <4>1, <4>2
    <3>4. handled' = <<Arrived(m)>>
      <4>1. handled' = Append(handled, With(currentObject', "id", m.id))
        BY <2>6, <3>1
      <4>2. With(currentObject', "id", m.id) = Arrived(m)
        BY <3>2, <3>3
      <4>3. handled' = Append(<<>>, Arrived(m))
        BY <2>7, <4>1, <4>2
      <4> QED BY <4>3
    <3>5. keys[c] \in DOMAIN row
      BY <1>0, <1>1, <1>5, <2>9, RowKeys
    <3> QED BY <1>0, <2>6, <3>1, <3>4, <3>5
  <2>10. CASE j + 1 # c
    <3>1. elements' # 0 /\ elements' = c - (j + 1)
      BY <1>2, <1>5, <2>6, <2>7, <2>10
    <3>2. AtKey(m, j + 1)'
      BY <1>0, <1>2, <2>6, <2>7, <2>8, <3>1 DEF AtKey, Waits
    <3>3. j + 1 < c
      BY <1>2, <1>5, <2>10
    <3>4. InRow(m, k + 1)'
      BY <1>0, <1>2, <1>5, <2>1, <3>2, <3>3 DEF InRow, AtKey, KeyState
    <3> QED BY <2>6, <3>4
  <2> QED BY <2>9, <2>10
<1> QED BY <1>4, <1>6, <1>7

(***************************************************************************)
(* The parser along the bodies that hold a row                             *)
(***************************************************************************)

\* The parser is told how many columns the row has.
LEMMA RowBegins ==
  ASSUME NEW m, IsAdd(m) \/ IsGetOk(m), Hears(Item("map", Cardinality(DOMAIN m.row))),
         m.kind = "add" => Waits("REQUEST_ADD_ROW_MAP", Rowed(m, <<>>)),
         m.kind = "getOk" => pstate = "RESPONSE_GET_OK_MAP" /\ handled = <<>>
  PROVE  InRow(m, 0)' /\ currentRequestId' = currentRequestId
<1>0. PICK row, keys, c : /\ row = m.row /\ keys = SetToSeq(DOMAIN row)
                          /\ c = Cardinality(DOMAIN row)
  OBVIOUS
<1>1. IsRow(row) /\ m.kind \in {"add", "getOk"}
  BY <1>0 DEF IsAdd, IsGetOk
<1>2. c \in Nat /\ Len(keys) = c
  BY <1>0, <1>1, RowKeys, Sizes
<1>3. On("map", c)
  BY <1>0, Heard
<1>4. /\ m.kind = "add" => pstate = "REQUEST_ADD_ROW_MAP" /\ currentObject = Rowed(m, <<>>)
      /\ m.kind = "getOk" => pstate = "RESPONSE_GET_OK_MAP"
      /\ handled = <<>>
  BY <1>1 DEF Waits
<1>5. NoField(pstate) /\ KeyState(m) # "INIT"
  BY <1>1, <1>4 DEF NoField, Fields, KeyState
<1>6. Goes("map", c, KeyState(m))
  <2>1. /\ <<"REQUEST_ADD_ROW_MAP", "map", AnyArg, "REQUEST_ADD_ROW_MAP_KEY">> \in Moves
        /\ <<"RESPONSE_GET_OK_MAP", "map", AnyArg, "RESPONSE_GET_OK_MAP_KEY">> \in Moves
    BY DEF Moves
  <2>2. <<pstate, "map", AnyArg, KeyState(m)>> \in Moves
    BY <1>1, <1>4, <2>1 DEF KeyState
  <2> QED BY <2>2, MoveGoes
<1>7. /\ pstate' = KeyState(m) /\ elements' = c /\ handled' = handled
      /\ currentObject' = IF pstate = "RESPONSE_GET_OK_MAP"
                          THEN [kind |-> "getOk", row |-> <<>>] ELSE currentObject
      /\ currentRequestId' = currentRequestId
  BY <1>3, <1>5, <1>6, RowMove
<1>8. currentObject' = Rowed(m, <<>>)
  BY <1>1, <1>4, <1>7 DEF Rowed
<1>9. currentObject' = Rowed(m, FirstColumns(row, 0))
  BY <1>8, NoColumns
<1>10. AtKey(m, 0)'
  BY <1>0, <1>2, <1>4, <1>7, <1>9 DEF AtKey, Waits
<1>11. 0 \in 0..c /\ 0 = 2 * 0
  BY <1>2
<1> QED BY <1>0, <1>2, <1>7, <1>10, <1>11 DEF InRow, AtKey, KeyState

\* An item of an add takes the parser on, and the last one hands it over.
LEMMA AddStep ==
  ASSUME NEW m, IsAdd(m), NEW k \in Nat, k >= 3, k < Len(Serialize(m)),
         k = 3 => InWrapper(m, 3), k > 3 => InAdd(m, k - 3), currentRequestId = m.id,
         Hears(Serialize(m)[k + 1])
  PROVE  /\ \/ InAdd(m, k - 2)'
            \/ /\ k + 1 = Len(Serialize(m)) /\ handled' = <<Arrived(m)>>
               /\ DOMAIN m.row # {}
         /\ currentRequestId' = m.id
<1>1. PICK s : s = Serialize(m)
  OBVIOUS
<1>2. /\ s[4] = Item("tag", 1200) /\ s[5] = Item("array", 3)
      /\ s[6] = Item("string", m.database) /\ s[7] = Item("string", m.table)
      /\ RowAt(s, 8, m.row)
  BY <1>1, AddItems
<1>3. m.kind = "add"
  BY DEF IsAdd
<1> DEFINE o == [kind |-> "add", row |-> <<>>]
<1>4. CASE k = 3
  <2>1. pstate = "REQUEST_WRAPPER_BODY" /\ handled = <<>>
    BY <1>3, <1>4 DEF InWrapper, IsRequest
  <2>2. On("tag", 1200)
    BY <1>1, <1>2, <1>4, Heard
  <2>f. NoField(pstate)
    BY <2>1 DEF NoField, Fields
  <2>3. Goes("tag", 1200, "REQUEST_ADD_ARRAY")
    <3>1. <<"REQUEST_WRAPPER_BODY", "tag", 1200, "REQUEST_ADD_ARRAY">> \in Moves
      BY DEF Moves
    <3> QED BY <2>1, <3>1, MoveGoes
  <2>4. /\ pstate' = "REQUEST_ADD_ARRAY" /\ currentObject' = o
        /\ handled' = <<>> /\ currentRequestId' = m.id
    BY <2>1, <2>2, <2>3, <2>f, TagMove DEF Started
  <2> QED BY <1>4, <2>4 DEF InAdd, Waits
<1>5. CASE k = 4
  <2>1. Waits("REQUEST_ADD_ARRAY", o)
    BY <1>5 DEF InAdd
  <2>2. On("array", 3)
    BY <1>1, <1>2, <1>5, Heard
  <2>f. NoField(pstate)
    BY <2>1 DEF NoField, Fields, Waits
  <2>3. Goes("array", 3, "REQUEST_ADD_DATABASE")
    <3>1. <<"REQUEST_ADD_ARRAY", "array", 3, "REQUEST_ADD_DATABASE">> \in Moves
      BY DEF Moves
    <3> QED BY <2>1, <3>1, MoveGoes DEF Waits
  <2>4. Waits("REQUEST_ADD_DATABASE", o)' /\ currentRequestId' = m.id
    BY <2>1, <2>2, <2>3, <2>f, ArrayMove DEF Waits
  <2> QED BY <1>5, <2>4 DEF InAdd
<1>6. CASE k = 5
  <2>1. Waits("REQUEST_ADD_DATABASE", o)
    BY <1>6 DEF InAdd
  <2>2. On("string", m.database)
    BY <1>1, <1>2, <1>6, Heard
  <2>f. Fills(pstate, "database") /\ pstate \notin Keys \cup Values \cup WrapperIds
    BY <2>1 DEF Waits, Fills, Fields, Keys, Values, WrapperIds
  <2>3. Goes("string", m.database, "REQUEST_ADD_TABLE")
    <3>1. <<"REQUEST_ADD_DATABASE", "string", AnyArg, "REQUEST_ADD_TABLE">> \in Moves
      BY DEF Moves
    <3> QED BY <2>1, <3>1, MoveGoes DEF Waits
  <2>4. /\ pstate' = "REQUEST_ADD_TABLE" /\ handled' = <<>> /\ currentRequestId' = m.id
        /\ currentObject' = With(o, "database", m.database)
    BY <2>1, <2>2, <2>3, <2>f, FieldMove DEF Waits
  <2>5. With(o, "database", m.database)
          = [kind |-> "add", row |-> <<>>, database |-> m.database]
    BY DEF With
  <2> QED BY <1>6, <2>4, <2>5 DEF InAdd, Waits
<1>7. CASE k = 6
  <2> DEFINE p == [kind |-> "add", row |-> <<>>, database |-> m.database]
  <2>1. Waits("REQUEST_ADD_TABLE", p)
    BY <1>7 DEF InAdd
  <2>2. On("string", m.table)
    BY <1>1, <1>2, <1>7, Heard
  <2>f. Fills(pstate, "table") /\ pstate \notin Keys \cup Values \cup WrapperIds
    BY <2>1 DEF Waits, Fills, Fields, Keys, Values, WrapperIds
  <2>3. Goes("string", m.table, "REQUEST_ADD_ROW_MAP")
    <3>1. <<"REQUEST_ADD_TABLE", "string", AnyArg, "REQUEST_ADD_ROW_MAP">> \in Moves
      BY DEF Moves
    <3> QED BY <2>1, <3>1, MoveGoes DEF Waits
  <2>4. /\ pstate' = "REQUEST_ADD_ROW_MAP" /\ handled' = <<>> /\ currentRequestId' = m.id
        /\ currentObject' = With(p, "table", m.table)
    BY <2>1, <2>2, <2>3, <2>f, FieldMove DEF Waits
  <2>5. With(p, "table", m.table) = Rowed(m, <<>>)
    BY <1>3 DEF With, Rowed
  <2> QED BY <1>7, <2>4, <2>5 DEF InAdd, Waits
<1>8. CASE k = 7
  <2>1. Waits("REQUEST_ADD_ROW_MAP", Rowed(m, <<>>))
    BY <1>8 DEF InAdd
  <2>2. Hears(Item("map", Cardinality(DOMAIN m.row)))
    BY <1>1, <1>2, <1>8 DEF RowAt
  <2>3. InRow(m, 0)' /\ currentRequestId' = m.id
    BY <1>3, <2>1, <2>2, RowBegins
  <2>4. k - 2 >= 5 /\ k - 2 - 5 = 0
    BY <1>8
  <2>5. InAdd(m, k - 2)'
    BY <2>3, <2>4 DEF InAdd
  <2> QED BY <2>3, <2>5
<1>9. CASE k > 7
  <2>1. PICK r : r = k - 8
    OBVIOUS
  <2>2. r \in Nat /\ 8 + r = k /\ 8 + (r + 1) = k + 1 /\ k - 3 - 5 = r
        /\ k - 2 - 5 = r + 1 /\ k - 2 >= 5
    BY <1>9, <2>1
  <2>3. InRow(m, r)
    <3>1. k - 3 \notin {1, 2, 3, 4}
      BY <1>9
    <3> QED BY <1>9, <2>2, <3>1 DEF InAdd
  <2>4. /\ \/ InRow(m, r + 1)'
           \/ 8 + (r + 1) = Len(s) /\ handled' = <<Arrived(m)>> /\ DOMAIN m.row # {}
        /\ currentRequestId' = m.id
    BY <1>1, <1>2, <2>2, <2>3, RowStep
  <2>5. InRow(m, r + 1)' => InAdd(m, k - 2)'
    BY <2>2 DEF InAdd
  <2> QED BY <1>1, <2>2, <2>4, <2>5
<1> QED BY <1>4, <1>5, <1>6, <1>7, <1>8, <1>9

\* An item of a response with a row takes the parser on, and the last one hands
\* it over.
LEMMA GetOkStep ==
  ASSUME NEW m, IsGetOk(m), NEW k \in Nat, k >= 3, k < Len(Serialize(m)),
         k = 3 => InWrapper(m, 3), k > 3 => InGetOk(m, k - 3), currentRequestId = m.id,
         Hears(Serialize(m)[k + 1])
  PROVE  /\ \/ InGetOk(m, k - 2)'
            \/ /\ k + 1 = Len(Serialize(m)) /\ handled' = <<Arrived(m)>>
               /\ DOMAIN m.row # {}
         /\ currentRequestId' = m.id
<1>1. PICK s : s = Serialize(m)
  OBVIOUS
<1>2. s[4] = Item("tag", 2100) /\ RowAt(s, 5, m.row)
  BY <1>1, GetOkItems
<1>3. m.kind = "getOk"
  BY DEF IsGetOk
<1>4. CASE k = 3
  <2>1. pstate = "RESPONSE_WRAPPER_BODY" /\ handled = <<>>
    BY <1>3, <1>4 DEF InWrapper, IsRequest
  <2>2. On("tag", 2100)
    BY <1>1, <1>2, <1>4, Heard
  <2>f. NoField(pstate)
    BY <2>1 DEF NoField, Fields
  <2>3. Goes("tag", 2100, "RESPONSE_GET_OK_MAP")
    <3>1. <<"RESPONSE_WRAPPER_BODY", "tag", 2100, "RESPONSE_GET_OK_MAP">> \in Moves
      BY DEF Moves
    <3> QED BY <2>1, <3>1, MoveGoes
  <2>4. pstate' = "RESPONSE_GET_OK_MAP" /\ handled' = <<>> /\ currentRequestId' = m.id
    BY <2>1, <2>2, <2>3, <2>f, TagMove
  <2> QED BY <1>4, <2>4 DEF InGetOk
<1>5. CASE k = 4
  <2>1. pstate = "RESPONSE_GET_OK_MAP" /\ handled = <<>>
    BY <1>5 DEF InGetOk
  <2>2. Hears(Item("map", Cardinality(DOMAIN m.row)))
    BY <1>1, <1>2, <1>5 DEF RowAt
  <2>3. InRow(m, 0)' /\ currentRequestId' = m.id
    BY <1>3, <2>1, <2>2, RowBegins
  <2>4. k - 2 >= 2 /\ k - 2 - 2 = 0
    BY <1>5
  <2>5. InGetOk(m, k - 2)'
    BY <2>3, <2>4 DEF InGetOk
  <2> QED BY <2>3, <2>5
<1>6. CASE k > 4
  <2>1. PICK r : r = k - 5
    OBVIOUS
  <2>2. r \in Nat /\ 5 + r = k /\ 5 + (r + 1) = k + 1 /\ k - 3 - 2 = r
        /\ k - 2 - 2 = r + 1 /\ k - 2 >= 2
    BY <1>6, <2>1
  <2>3. InRow(m, r)
    <3>1. k - 3 # 1
      BY <1>6
    <3> QED BY <1>6, <2>2, <3>1 DEF InGetOk
  <2>4. /\ \/ InRow(m, r + 1)'
           \/ 5 + (r + 1) = Len(s) /\ handled' = <<Arrived(m)>> /\ DOMAIN m.row # {}
        /\ currentRequestId' = m.id
    BY <1>1, <1>2, <2>2, <2>3, RowStep
  <2>5. InRow(m, r + 1)' => InGetOk(m, k - 2)'
    BY <2>2 DEF InGetOk
  <2> QED BY <1>1, <2>2, <2>4, <2>5
<1> QED BY <1>4, <1>5, <1>6

(***************************************************************************)
(* The parser along a whole message                                        *)
(***************************************************************************)

\* Every message is framed, and its last item is sound unless it is the key of a get.
LEMMA Messaged ==
  ASSUME NEW m, IsMessage(m)
  PROVE  /\ m.id \in UInt /\ Framed(Serialize(m), m)
         /\ m.kind # "get" /\ (HasRow(m) => DOMAIN m.row # {})
              => Serialize(m)[Len(Serialize(m))].op # "long"
<1> DEFINE s == Serialize(m)
<1>1. /\ \A t : Item("map", t).op # "long" /\ Item("int", t).op # "long"
      /\ \A t : Item("string", t).op # "long" /\ Item("bytes", t).op # "long"
  BY DEF Item
<1>2. ASSUME NEW n \in Nat, RowAt(s, n, m.row), IsRow(m.row), DOMAIN m.row # {}
      PROVE  s[Len(s)].op # "long"
  <2>1. PICK row, keys, c : /\ row = m.row /\ keys = SetToSeq(DOMAIN row)
                            /\ c = Cardinality(DOMAIN row)
    OBVIOUS
  <2>i. IsRow(row)
    BY <1>2, <2>1
  <2>2. c \in Nat /\ \A x \in DOMAIN row : \E i \in 1..c : keys[i] = x
    BY <2>1, <2>i, RowKeys, Sizes
  <2>3. c \in 1..c
    BY <1>2, <2>1, <2>2
  <2>4. Len(s) = n + 2 * c /\ s[n + 2 * c] = Item("string", row[keys[c]])
    BY <1>2, <2>1, <2>3 DEF RowAt
  <2> QED BY <1>1, <2>4
<1>3. CASE IsGet(m)
  <2>1. m.kind = "get" /\ m.id \in UInt
    BY <1>3 DEF IsGet
  <2> QED BY <1>3, <2>1, GetItems
<1>4. CASE IsAdd(m)
  <2>1. m.kind = "add" /\ m.id \in UInt /\ IsRow(m.row) /\ HasRow(m)
    BY <1>4 DEF IsAdd, HasRow
  <2>2. Framed(s, m) /\ RowAt(s, 8, m.row)
    BY <1>4, AddItems
  <2> QED BY <1>2, <2>1, <2>2
<1>5. CASE IsContinue(m)
  <2>1. m.kind = "continue" /\ m.id \in UInt
    BY <1>5 DEF IsContinue
  <2>2. Framed(s, m) /\ Len(s) = 7 /\ s[7] = Item("int", m.compareResult)
    BY <1>5, ContinueItems
  <2> QED BY <1>1, <2>1, <2>2
<1>6. CASE IsGetOk(m)
  <2>1. m.kind = "getOk" /\ m.id \in UInt /\ IsRow(m.row) /\ HasRow(m)
    BY <1>6 DEF IsGetOk, HasRow
  <2>2. Framed(s, m) /\ RowAt(s, 5, m.row)
    BY <1>6, GetOkItems
  <2> QED BY <1>2, <2>1, <2>2
<1>7. CASE IsPlain(m)
  <2>1. m.id \in UInt
    BY <1>7 DEF IsPlain
  <2>2. Framed(s, m) /\ Len(s) = 5 /\ s[5] = Item("map", 0)
    BY <1>7, PlainItems
  <2> QED BY <1>1, <2>1, <2>2
<1>8. CASE IsTraverse(m)
  <2>1. m.id \in UInt
    BY <1>8 DEF IsTraverse
  <2>2. Framed(s, m) /\ Len(s) = 7 /\ s[7] = Item("bytes", m.ciphertext)
    BY <1>8, TraverseItems
  <2> QED BY <1>1, <2>1, <2>2
<1> QED BY <1>3, <1>4, <1>5, <1>6, <1>7, <1>8, Kinds

\* One more item of the message.
LEMMA ParsedStep ==
  ASSUME NEW m, IsMessage(m), items = Serialize(m), items' = items,
         NEW k \in Nat, k < Len(items), Parsed(m, k),
         Hears(items[k + 1]), ~Lossy(items[k + 1])
  PROVE  Parsed(m, k + 1)'
<1>1. m.id \in UInt /\ Framed(Serialize(m), m)
  BY Messaged
<1>2. /\ k \in 0..3 => InWrapper(m, k)
      /\ k > 3 => InBody(m, k - 3)
      /\ k >= 3 => currentRequestId = m.id
  BY DEF Parsed
<1>3. CASE k \in 0..2
  <2>1. InWrapper(m, k + 1)' /\ (k = 2 => currentRequestId' = m.id)
    BY <1>1, <1>2, <1>3, WrapperStep
  <2>2. k + 1 \in 0..3 /\ (k + 1 = 3 => k = 2)
    BY <1>3
  <2> QED BY <2>1, <2>2 DEF Parsed
<1>4. CASE k >= 3
  <2>0. /\ k = 3 => InWrapper(m, 3)
        /\ currentRequestId = m.id /\ Hears(Serialize(m)[k + 1]) /\ k < Len(Serialize(m))
        /\ k + 1 > 3 /\ k + 1 - 3 = k - 2
    BY <1>2, <1>4
  <2>1. CASE IsGet(m)
    <3>1. m.kind = "get" /\ Len(items) = 8 /\ k \in 3..7
      BY <1>4, <2>1, GetItems DEF IsGet
    <3>2. k > 3 => InGet(m, k - 3)
      BY <1>2, <3>1 DEF InBody
    <3>3. /\ k < 7 => InGet(m, k - 2)'
          /\ k = 7 => handled' = <<Arrived(m)>>
          /\ currentRequestId' = m.id
      BY <2>0, <2>1, <3>1, <3>2, GetStep
    <3>4. k < 7 => InBody(m, k - 2)'
      BY <3>1, <3>3 DEF InBody
    <3>5. k < 7 \/ (k = 7 /\ k + 1 = Len(items'))
      BY <3>1
    <3> QED BY <2>0, <3>1, <3>3, <3>4, <3>5 DEF Parsed, HasRow
  <2>2. CASE IsAdd(m)
    <3>1. m.kind = "add"
      BY <2>2 DEF IsAdd
    <3>2. k > 3 => InAdd(m, k - 3)
      BY <1>2, <3>1 DEF InBody
    <3>3. /\ \/ InAdd(m, k - 2)'
             \/ /\ k + 1 = Len(Serialize(m)) /\ handled' = <<Arrived(m)>>
                /\ DOMAIN m.row # {}
          /\ currentRequestId' = m.id
      BY <1>4, <2>0, <2>2, <3>2, AddStep
    <3>4. InAdd(m, k - 2)' => InBody(m, k - 2)'
      BY <3>1 DEF InBody
    <3> QED BY <2>0, <3>1, <3>3, <3>4 DEF Parsed
  <2>3. CASE IsContinue(m)
    <3>1. m.kind = "continue" /\ Len(items) = 7 /\ k \in 3..6
      BY <1>4, <2>3, ContinueItems DEF IsContinue
    <3>2. k > 3 => InContinue(m, k - 3)
      BY <1>2, <3>1 DEF InBody
    <3>3. /\ k < 6 => InContinue(m, k - 2)'
          /\ k = 6 => handled' = <<Arrived(m)>>
          /\ currentRequestId' = m.id
      BY <2>0, <2>3, <3>1, <3>2, ContinueStep
    <3>4. k < 6 => InBody(m, k - 2)'
      BY <3>1, <3>3 DEF InBody
    <3>5. k < 6 \/ (k = 6 /\ k + 1 = Len(items'))
      BY <3>1
    <3> QED BY <2>0, <3>1, <3>3, <3>4, <3>5 DEF Parsed, HasRow
  <2>4. CASE IsGetOk(m)
    <3>1. m.kind = "getOk"
      BY <2>4 DEF IsGetOk
    <3>2. k > 3 => InGetOk(m, k - 3)
      BY <1>2, <3>1 DEF InBody
    <3>3. /\ \/ InGetOk(m, k - 2)'
             \/ /\ k + 1 = Len(Serialize(m)) /\ handled' = <<Arrived(m)>>
                /\ DOMAIN m.row # {}
          /\ currentRequestId' = m.id
      BY <1>4, <2>0, <2>4, <3>2, GetOkStep
    <3>4. InGetOk(m, k - 2)' => InBody(m, k - 2)'
      BY <3>1 DEF InBody
    <3> QED BY <2>0, <3>1, <3>3, <3>4 DEF Parsed
  <2>5. CASE IsTraverse(m)
    <3>1. m.kind = "traverse" /\ Len(items) = 7 /\ k \in 3..6
      BY <1>4, <2>5, TraverseItems DEF IsTraverse
    <3>2. k > 3 => InTraverse(m, k - 3)
      BY <1>2, <3>1 DEF InBody
    <3>3. /\ k < 6 => InTraverse(m, k - 2)'
          /\ k = 6 => handled' = <<Arrived(m)>>
          /\ currentRequestId' = m.id
      BY <2>0, <2>5, <3>1, <3>2, TraverseStep
    <3>4. k < 6 => InBody(m, k - 2)'
      BY <3>1, <3>3 DEF InBody
    <3>5. k < 6 \/ (k = 6 /\ k + 1 = Len(items'))
      BY <3>1
    <3> QED BY <2>0, <3>1, <3>3, <3>4, <3>5 DEF Parsed, HasRow
  <2>6. CASE IsPlain(m) /\ m.kind # "addError"
    <3>1. m.kind \in {"getEmpty", "addOk"} /\ Len(items) = 5 /\ k \in 3..4
      BY <1>4, <2>6, PlainItems DEF IsPlain
    <3>2. k > 3 => InEmpty(m, k - 3)
      BY <1>2, <3>1 DEF InBody
    <3>3. /\ k = 3 => InEmpty(m, 1)'
          /\ k = 4 => handled' = <<Arrived(m)>>
          /\ currentRequestId' = m.id
      BY <2>0, <2>6, <3>1, <3>2, EmptyStep
    <3>4. k = 3 => InBody(m, k - 2)'
      <4>1. k = 3 => k - 2 = 1
        OBVIOUS
      <4>2. InEmpty(m, 1)' => InBody(m, 1)'
        BY <3>1 DEF InBody
      <4> QED BY <3>3, <4>1, <4>2
    <3>5. k = 3 \/ (k = 4 /\ k + 1 = Len(items'))
      BY <3>1
    <3> QED BY <2>0, <3>1, <3>3, <3>4, <3>5 DEF Parsed, HasRow
  <2>7. CASE IsPlain(m) /\ m.kind = "addError"
    <3>1. Len(items) = 5 /\ k \in 3..4
      BY <1>4, <2>7, PlainItems
    <3>2. k > 3 => InUnknown(m, k - 3)
      BY <1>2, <2>7 DEF InBody
    <3>3. InUnknown(m, k - 2)' /\ currentRequestId' = m.id
      BY <2>0, <2>7, <3>1, <3>2, UnknownStep
    <3>4. InBody(m, k - 2)'
      BY <2>7, <3>3 DEF InBody
    <3> QED BY <2>0, <3>3, <3>4 DEF Parsed
  <2> QED BY <2>1, <2>2, <2>3, <2>4, <2>5, <2>6, <2>7, Kinds
<1> QED BY <1>3, <1>4

\* Until a message is finished nothing is handled, or errors alone.
LEMMA Unfinished ==
  ASSUME NEW m, IsMessage(m), NEW k \in Nat, k > 3, InBody(m, k - 3)
  PROVE  /\ m.kind # "addError" => handled = <<>>
         /\ m.kind = "addError" => handled = [i \in 1..(k - 3) |-> [kind |-> "error"]]
<1>1. m.kind \in {"get", "add", "continue", "getOk", "traverse", "addError",
                  "getEmpty", "addOk"}
  BY Kinds DEF IsGet, IsAdd, IsContinue, IsGetOk, IsTraverse, IsPlain
<1>2. \A n : InRow(m, n) => handled = <<>>
  BY DEF InRow, AtKey, AtValue, Waits
<1>3. CASE m.kind = "get"
  BY <1>3 DEF InBody, InGet, Waits
<1>4. CASE m.kind = "add"
  BY <1>2, <1>4 DEF InBody, InAdd, Waits
<1>5. CASE m.kind = "continue"
  BY <1>5 DEF InBody, InContinue, Waits
<1>6. CASE m.kind = "getOk"
  BY <1>2, <1>6 DEF InBody, InGetOk
<1>7. CASE m.kind = "traverse"
  BY <1>7 DEF InBody, InTraverse, Waits
<1>8. CASE m.kind = "addError"
  BY <1>8 DEF InBody, InUnknown
<1>9. CASE m.kind \in {"getEmpty", "addOk"}
  BY <1>9 DEF InBody, InEmpty
<1> QED BY <1>1, <1>3, <1>4, <1>5, <1>6, <1>7, <1>8, <1>9

\* A body is not unfinished behind its last item, but for a row without columns.
LEMMA BodyEnds ==
  ASSUME NEW m, IsMessage(m), InBody(m, Len(Serialize(m)) - 3), m.kind # "addError"
  PROVE  HasRow(m) /\ DOMAIN m.row = {}
<1> DEFINE s == Serialize(m)
<1>2. ASSUME NEW n \in Nat, RowAt(s, n, m.row), IsRow(m.row), InRow(m, Len(s) - n)
      PROVE  DOMAIN m.row = {}
  <2>1. PICK row, keys, c : /\ row = m.row /\ keys = SetToSeq(DOMAIN row)
                            /\ c = Cardinality(DOMAIN row)
    OBVIOUS
  <2>i. IsRow(row)
    BY <1>2, <2>1
  <2>2. /\ c \in Nat /\ Len(keys) = c
        /\ \A x \in DOMAIN row : \E i \in 1..c : keys[i] = x
    BY <2>1, <2>i, RowKeys, Sizes
  <2>3. Len(s) = n + 2 * c
    BY <1>2, <2>1 DEF RowAt
  <2>4. PICK j \in 0..c : \/ Len(s) - n = 2 * j /\ (j < c \/ j = 0)
                          \/ Len(s) - n = 2 * j + 1 /\ j < c
    BY <1>2, <2>1, <2>2 DEF InRow
  <2>5. c = 0
    BY <2>2, <2>3, <2>4
  <2> QED BY <2>1, <2>2, <2>5
<1>3. CASE IsGet(m)
  <2>1. m.kind = "get" /\ Len(s) = 8
    BY <1>3, GetItems DEF IsGet
  <2> QED BY <2>1 DEF InBody, InGet
<1>4. CASE IsAdd(m)
  <2>1. m.kind = "add" /\ IsRow(m.row) /\ HasRow(m)
    BY <1>4 DEF IsAdd, HasRow
  <2>2. RowAt(s, 8, m.row) /\ s \in Seq(WriterCalls)
    BY <1>4, AddItems DEF Framed
  <2>3. Len(s) >= 8 /\ Len(s) \in Nat
    <3>1. Cardinality(DOMAIN m.row) \in Nat
      BY <2>1, RowKeys, Sizes
    <3> QED BY <2>2, <3>1 DEF RowAt
  <2>4. Len(s) - 3 - 5 = Len(s) - 8 /\ Len(s) - 3 \notin {1, 2, 3, 4}
    <3>1. \A l \in Nat : l >= 8 => l - 3 - 5 = l - 8 /\ l - 3 \notin {1, 2, 3, 4}
      OBVIOUS
    <3> QED BY <2>3, <3>1
  <2>5. InRow(m, Len(s) - 8)
    <3>1. InAdd(m, Len(s) - 3)
      BY <2>1 DEF InBody
    <3> HIDE DEF s
    <3> QED BY <2>4, <3>1 DEF InAdd
  <2> QED BY <1>2, <2>1, <2>2, <2>5
<1>5. CASE IsContinue(m)
  <2>1. m.kind = "continue" /\ Len(s) = 7
    BY <1>5, ContinueItems DEF IsContinue
  <2> QED BY <2>1 DEF InBody, InContinue
<1>6. CASE IsGetOk(m)
  <2>1. m.kind = "getOk" /\ IsRow(m.row) /\ HasRow(m)
    BY <1>6 DEF IsGetOk, HasRow
  <2>2. RowAt(s, 5, m.row) /\ s \in Seq(WriterCalls)
    BY <1>6, GetOkItems DEF Framed
  <2>3. Len(s) >= 5 /\ Len(s) \in Nat
    <3>1. Cardinality(DOMAIN m.row) \in Nat
      BY <2>1, RowKeys, Sizes
    <3> QED BY <2>2, <3>1 DEF RowAt
  <2>4. Len(s) - 3 - 2 = Len(s) - 5 /\ Len(s) - 3 # 1
    <3>1. \A l \in Nat : l >= 5 => l - 3 - 2 = l - 5 /\ l - 3 # 1
      OBVIOUS
    <3> QED BY <2>3, <3>1
  <2>5. InRow(m, Len(s) - 5)
    <3>1. InGetOk(m, Len(s) - 3)
      BY <2>1 DEF InBody
    <3> HIDE DEF s
    <3> QED BY <2>4, <3>1 DEF InGetOk
  <2> QED BY <1>2, <2>1, <2>2, <2>5
<1>7. CASE IsPlain(m)
  <2>1. m.kind \in {"getEmpty", "addOk"} /\ Len(s) = 5
    BY <1>7, PlainItems DEF IsPlain
  <2>2. Len(s) - 3 = 2
    BY <2>1
  <2>3. InBody(m, 2)
    BY <2>2
  <2>4. InEmpty(m, 2)
    <3>1. CASE m.kind = "getEmpty"
      BY <2>3, <3>1 DEF InBody
    <3>2. CASE m.kind = "addOk"
      BY <2>3, <3>2 DEF InBody
    <3> QED BY <2>1, <3>1, <3>2
  <2>5. FALSE
    BY <2>4 DEF InEmpty
  <2> QED BY <2>5
<1>8. CASE IsTraverse(m)
  <2>1. m.kind = "traverse" /\ Len(s) = 7
    BY <1>8, TraverseItems DEF IsTraverse
  <2> QED BY <2>1 DEF InBody, InTraverse
<1> QED BY <1>3, <1>4, <1>5, <1>6, <1>7, <1>8, Kinds

(***************************************************************************)
(* The inductive invariant: it holds at first, and a step keeps it         *)
(***************************************************************************)

\* What a listener of a message is told in a turn, if anything: the next item.
LEMMA HeardItem ==
  ASSUME ReaderOK, StreamInv, Hear, message' = message, message # NoMessage, LossyLast
  PROVE  /\ callback'.on = "nothing" => heard' = heard
         /\ callback'.on # "nothing" =>
              /\ Len(heard') = Len(heard) + 1 /\ Len(heard) < Len(items)
              /\ ~Lossy(items[Len(heard) + 1])
              /\ callback' = Told(items[Len(heard) + 1])
<1>1. ReaderOK' /\ StreamInv'
  BY StreamStep
<1>2. HeardTo(0)
  BY DEF HeardTo
<1>3. /\ items' = items
      /\ callback'.on # "nothing" =>
           Len(heard') = Len(heard) + 1 /\ heard'[Len(heard) + 1] = callback'
      /\ callback'.on = "nothing" => heard' = heard
  BY <1>2, HeardStays
<1>4. /\ Len(heard') =< Len(items)
      /\ \A j \in 1..Len(heard') : ~Lossy(items[j]) /\ heard'[j] = Told(items[j])
  <2>1. CASE Synced'
    BY <1>3, <2>1 DEF Synced, HeardTo
  <2>2. CASE Lost'
    <3>1. Len(heard') \in Nat /\ Len(heard') + 1 = Len(items) /\ Len(items) \in Nat
      BY <1>1, <1>3, <2>2 DEF Lost, ReaderOK
    <3>2. Len(heard') =< Len(items)
      BY <3>1
    <3> QED BY <1>3, <2>2, <3>2 DEF Lost, HeardTo
  <2>3. Synced' \/ Lost'
    BY <1>1 DEF StreamInv
  <2> QED BY <2>1, <2>2, <2>3
<1>5. SUFFICES ASSUME callback'.on # "nothing"
               PROVE  /\ Len(heard') = Len(heard) + 1 /\ Len(heard) < Len(items)
                      /\ ~Lossy(items[Len(heard) + 1])
                      /\ callback' = Told(items[Len(heard) + 1])
  BY <1>3
<1>6. Len(heard) \in Nat /\ Len(items) \in Nat
  BY DEF ReaderOK
<1>7. PICK k : k = Len(heard) + 1
  OBVIOUS
<1>8. /\ k \in 1..Len(heard') /\ k = Len(heard') /\ heard'[k] = callback'
      /\ Len(heard) < Len(items)
  BY <1>3, <1>4, <1>5, <1>6, <1>7
<1>9. ~Lossy(items[k]) /\ heard'[k] = Told(items[k])
  BY <1>4, <1>8
<1> QED BY <1>3, <1>5, <1>7, <1>8, <1>9

\* The items are those of the message, when there is one.
MessageOK ==
  message # NoMessage => message \in Messages /\ items = Serialize(message)

\* The inductive invariant of the wire.
WireInv == ReaderOK /\ StreamInv /\ MessageOK /\ ParserOK /\ ParserInv

\* Only the last item of a message can lose bytes: the primary key of a get.
LEMMA MessageLossy ==
  ASSUME MessageOK, message # NoMessage
  PROVE  LossyLast
<1>1. PICK s : s = items
  OBVIOUS
<1>2. IsMessage(message) /\ s = Serialize(message)
  BY <1>1, MessagesAssumption DEF MessageOK
<1>3. \A i \in 1..Len(s) : s[i].op = "long" => i = Len(s) /\ s[i].arg \in Nat
  BY <1>2, Messaged DEF Framed
<1>4. ASSUME NEW i \in 1..Len(s), Lossy(s[i])
      PROVE  i = Len(s) /\ Major(s[i]) = 0
  <2>1. s[i].op = "long" /\ s[i].arg \in Nat /\ i = Len(s)
    BY <1>3, <1>4 DEF Lossy
  <2> QED BY <2>1 DEF Major
<1> QED BY <1>1, <1>4 DEF LossyLast

\* The place of the parser depends on nothing but its fields.
LEMMA ParserStays ==
  ASSUME NEW m, IsMessage(m), NEW k, Parsed(m, k), items' = items, UNCHANGED pvars
  PROVE  Parsed(m, k)'
<1>1. /\ pstate' = pstate /\ elements' = elements /\ currentKey' = currentKey
      /\ currentObject' = currentObject /\ currentRequestId' = currentRequestId
      /\ handled' = handled
  BY DEF pvars
<1>2. \A i : InWrapper(m, i) => InWrapper(m, i)'
  BY <1>1 DEF InWrapper
<1>3. \A s, o : Waits(s, o) => Waits(s, o)'
  BY <1>1 DEF Waits
<1>4. \A i : InRow(m, i) => InRow(m, i)'
  <2>1. \A j : AtKey(m, j) => AtKey(m, j)'
    BY <1>1, <1>3 DEF AtKey
  <2>2. \A j : AtValue(m, j) => AtValue(m, j)'
    BY <1>1, <1>3 DEF AtValue
  <2> QED BY <2>1, <2>2 DEF InRow
<1>5. \A i : InGet(m, i) => InGet(m, i)'
  BY <1>3 DEF InGet
<1>6. \A i : InAdd(m, i) => InAdd(m, i)'
  BY <1>3, <1>4 DEF InAdd
<1>7. \A i : InContinue(m, i) => InContinue(m, i)'
  BY <1>3 DEF InContinue
<1>8. \A i : InGetOk(m, i) => InGetOk(m, i)'
  BY <1>1, <1>4 DEF InGetOk
<1>9. \A i : InTraverse(m, i) => InTraverse(m, i)'
  BY <1>3 DEF InTraverse
<1>10. \A i : InUnknown(m, i) => InUnknown(m, i)'
  BY <1>1 DEF InUnknown
<1>11. \A i : InEmpty(m, i) => InEmpty(m, i)'
  BY <1>1 DEF InEmpty
<1>12. \A i : InBody(m, i) => InBody(m, i)'
  <2>1. CASE m.kind = "get"
    BY <1>5, <2>1 DEF InBody
  <2>2. CASE m.kind = "add"
    BY <1>6, <2>2 DEF InBody
  <2>3. CASE m.kind = "continue"
    BY <1>7, <2>3 DEF InBody
  <2>4. CASE m.kind = "getOk"
    BY <1>8, <2>4 DEF InBody
  <2>5. CASE m.kind = "traverse"
    BY <1>9, <2>5 DEF InBody
  <2>6. CASE m.kind = "addError"
    BY <1>10, <2>6 DEF InBody
  <2>7. CASE m.kind = "getEmpty"
    BY <1>11, <2>7 DEF InBody
  <2>8. CASE m.kind = "addOk"
    BY <1>11, <2>8 DEF InBody
  <2> QED BY <2>1, <2>2, <2>3, <2>4, <2>5, <2>6, <2>7, <2>8, Kinds
          DEF IsGet, IsAdd, IsContinue, IsGetOk, IsTraverse, IsPlain
<1> QED BY <1>1, <1>2, <1>12 DEF Parsed

\* The invariant holds when the reader starts.
LEMMA WireInit ==
  ASSUME Init
  PROVE  WireInv
<1>1. PInit /\ heard = <<>> /\ capacity \in Capacities /\ Begin(WriteAll(items, capacity))
  BY DEF Init, Written
<1>2. MessageOK
  BY DEF Init, Written, MessageOK
<1>3. items \in Seq(WriterCalls)
  <2>1. CASE message \in Messages /\ Written(Serialize(message))
    <3>1. IsMessage(message) /\ items = Serialize(message)
      BY <2>1, MessagesAssumption DEF Written
    <3> QED BY <3>1, Messaged DEF Framed
  <2>2. CASE \E input \in Inputs : Written(input)
    BY <2>2, InputsAssumption DEF Written
  <2> QED BY <2>1, <2>2 DEF Init
<1>4. capacity \in Nat
  BY <1>1, CapacitiesAssumption
<1>5. data = WriteAll(items, capacity) /\ offset = 0 /\ state = Type /\ currentLength = 0
  BY <1>1 DEF Begin
<1>6. data \in Seq(Byte) /\ Len(data) =< capacity
  BY <1>3, <1>4, <1>5, WrittenData DEF Filled
<1>7. ReaderOK
  <2>1. 0 \in 0..Len(data) /\ heard \in Seq(Calls)
    BY <1>1, <1>6
  <2>2. Type \in [phase : {"type", "size", "data"}, major : 0..7] /\ Type.phase = "type"
    BY DEF Type
  <2> QED BY <1>3, <1>4, <1>5, <1>6, <2>1, <2>2 DEF ReaderOK
<1>8. StreamInv
  <2>1. Len(heard) = 0 /\ Len(items) \in Nat
    BY <1>1, <1>3
  <2>2. Ends(items)[0] = 0
    BY <1>3, EndsDef
  <2> QED BY <1>5, <2>1, <2>2 DEF StreamInv, Synced, HeardTo, AtItem
<1>9. ParserOK
  <2>1. 0 \in UInt
    BY Sizes DEF UInt
  <2>2. "INIT" \in {m[1] : m \in Moves}
    BY DEF Moves
  <2> QED BY <1>1, <2>1, <2>2 DEF PInit, ParserOK
<1>10. ParserInv
  <2>1. Len(heard) = 0
    BY <1>1
  <2>2. \A m : InWrapper(m, 0)
    BY <1>1 DEF PInit, InWrapper
  <2> QED BY <2>1, <2>2 DEF ParserInv, Parsed
<1> QED BY <1>2, <1>7, <1>8, <1>9, <1>10 DEF WireInv

\* A turn of the reader with the call it makes keeps the invariant.
LEMMA WireStep ==
  ASSUME WireInv, Step
  PROVE  WireInv'
<1>1. ReaderOK /\ StreamInv /\ MessageOK /\ ParserOK /\ ParserInv
  BY DEF WireInv
<1>2. Hear /\ message' = message /\ items' = items
  BY DEF Step, Hear
<1>3. message # NoMessage => LossyLast
  BY <1>1, MessageLossy
<1>4. ReaderOK' /\ StreamInv'
  BY <1>1, <1>2, <1>3, StreamStep
<1>5. MessageOK'
  BY <1>1, <1>2 DEF MessageOK
<1>6. callback' \in Calls
  BY <1>1, <1>2, TurnTypes DEF Hear
<1>7. /\ callback'.on = "nothing" => UNCHANGED pvars
      /\ callback'.on # "nothing" => On(callback'.on, callback'.arg)
  BY DEF Step
<1>8. ParserOK'
  <2>1. CASE callback'.on = "nothing"
    BY <1>1, <1>7, <2>1 DEF ParserOK, pvars
  <2>2. CASE callback'.on # "nothing"
    <3>1. callback'.on \in {"integer", "array", "map", "tag"} => callback'.arg \in Int
      BY <1>6 DEF Calls
    <3> QED BY <1>1, <1>7, <2>2, <3>1, ParserTypes
  <2> QED BY <2>1, <2>2
<1>9. ParserInv'
  <2>1. SUFFICES ASSUME message # NoMessage PROVE Parsed(message, Len(heard))'
    BY <1>2 DEF ParserInv
  <2>2. PICK m : m = message
    OBVIOUS
  <2>3. IsMessage(m) /\ items = Serialize(m)
    BY <1>1, <2>1, <2>2, MessagesAssumption DEF MessageOK
  <2>4. PICK k : k = Len(heard)
    OBVIOUS
  <2>5. k \in Nat /\ Parsed(m, k)
    BY <1>1, <2>1, <2>2, <2>4 DEF ParserInv, ReaderOK
  <2>6. CASE callback'.on = "nothing"
    <3>1. heard' = heard /\ UNCHANGED pvars
      BY <1>1, <1>2, <1>3, <1>7, <2>1, <2>6, HeardItem
    <3>2. Parsed(m, k)'
      BY <1>2, <2>3, <2>5, <3>1, ParserStays
    <3> QED BY <1>2, <2>2, <2>4, <3>1, <3>2
  <2>7. CASE callback'.on # "nothing"
    <3>1. /\ Len(heard') = k + 1 /\ k < Len(items) /\ ~Lossy(items[k + 1])
          /\ callback' = Told(items[k + 1])
      BY <1>1, <1>2, <1>3, <2>1, <2>4, <2>7, HeardItem
    <3>2. Hears(items[k + 1])
      BY <1>7, <2>7, <3>1 DEF Hears
    <3>3. Parsed(m, k + 1)'
      BY <1>2, <2>3, <2>5, <3>1, <3>2, ParsedStep
    <3> QED BY <1>2, <2>2, <3>1, <3>3
  <2> QED BY <2>6, <2>7
<1> QED BY <1>4, <1>5, <1>8, <1>9 DEF WireInv

(***************************************************************************)
(* The theorems                                                            *)
(***************************************************************************)

\* A stuttering step keeps the invariant.
LEMMA WireStays ==
  ASSUME WireInv, UNCHANGED vars
  PROVE  WireInv'
<1>1. /\ data' = data /\ offset' = offset /\ state' = state /\ currentLength' = currentLength
      /\ items' = items /\ capacity' = capacity /\ heard' = heard /\ message' = message
      /\ UNCHANGED pvars
  BY DEF vars, svars, rvars
<1>2. ReaderOK'
  BY <1>1 DEF WireInv, ReaderOK
<1>3. StreamInv'
  <2>1. Synced => Synced'
    BY <1>1 DEF Synced, HeardTo, AtItem, InSize, InData
  <2>2. Lost => Lost'
    BY <1>1 DEF Lost, HeardTo
  <2>3. Astray => Astray'
    BY <1>1 DEF Astray, HeardTo
  <2> QED BY <1>1, <2>1, <2>2, <2>3 DEF WireInv, StreamInv
<1>4. MessageOK'
  BY <1>1 DEF WireInv, MessageOK
<1>5. ParserOK'
  BY <1>1 DEF WireInv, ParserOK, pvars
<1>6. ParserInv'
  <2>1. SUFFICES ASSUME message # NoMessage PROVE Parsed(message, Len(heard))'
    BY <1>1 DEF ParserInv
  <2>2. PICK m, k : m = message /\ k = Len(heard)
    OBVIOUS
  <2>3. IsMessage(m) /\ Parsed(m, k)
    BY <2>1, <2>2, MessagesAssumption DEF WireInv, MessageOK, ParserInv
  <2>4. Parsed(m, k)'
    BY <1>1, <2>3, ParserStays
  <2> QED BY <1>1, <2>2, <2>4
<1> QED BY <1>2, <1>3, <1>4, <1>5, <1>6 DEF WireInv

\* On every run the reader stands where the items end or inside one, and the
\* parser where the items heard take it, for every set of inputs, messages and
\* capacities.
THEOREM WireInvariant == Spec => []WireInv
<1>1. Init => WireInv
  BY WireInit
<1>2. WireInv /\ [Step]_vars => WireInv'
  BY WireStep, WireStays
<1> QED BY <1>1, <1>2, PTL DEF Spec

\* The invariant gives the types of the wire.
LEMMA Typed ==
  ASSUME WireInv
  PROVE  TypeOK
<1>1. ReaderOK /\ ParserOK
  BY DEF WireInv
<1>2. \A k \in DOMAIN data : data[k] \in Byte
  BY <1>1 DEF ReaderOK
<1> QED BY <1>1, <1>2 DEF ReaderOK, ParserOK, TypeOK, StreamTypeOK

\* The invariant gives that nothing else is handled.
LEMMA NoneElse ==
  ASSUME WireInv
  PROVE  NothingElseHandled
<1>1. SUFFICES ASSUME message # NoMessage
               PROVE  IF message.kind = "addError"
                      THEN \A k \in DOMAIN handled : handled[k].kind = "error"
                      ELSE handled \in {<<>>, <<Arrived(message)>>}
  BY DEF NothingElseHandled
<1>2. PICK m, k : m = message /\ k = Len(heard)
  OBVIOUS
<1>3. IsMessage(m) /\ k \in Nat /\ Parsed(m, k)
  BY <1>1, <1>2, MessagesAssumption DEF WireInv, MessageOK, ParserInv, ReaderOK
<1>4. CASE k \in 0..3 /\ InWrapper(m, k)
  <2>1. handled = <<>>
    BY <1>4 DEF InWrapper
  <2> QED BY <2>1
<1>5. CASE k > 3 /\ InBody(m, k - 3)
  <2>1. /\ m.kind # "addError" => handled = <<>>
        /\ m.kind = "addError" => handled = [i \in 1..(k - 3) |-> [kind |-> "error"]]
    BY <1>3, <1>5, Unfinished
  <2> QED BY <1>2, <2>1
<1>6. CASE handled = <<Arrived(m)>> /\ m.kind # "addError"
  BY <1>2, <1>6
<1> QED BY <1>3, <1>4, <1>5, <1>6 DEF Parsed

\* The message the wire carries is the one whose items are all heard.
LEMMA Handled ==
  ASSUME WireInv, message # NoMessage, Returned, Carried(message)
  PROVE  handled = <<Arrived(message)>>
<1>1. PICK m, k, s : m = message /\ k = Len(heard) /\ s = items
  OBVIOUS
<1>2. /\ IsMessage(m) /\ s = Serialize(m) /\ k \in Nat /\ Parsed(m, k)
      /\ ReaderOK /\ StreamInv
  BY <1>1, MessagesAssumption DEF WireInv, MessageOK, ParserInv, ReaderOK
<1>3. /\ m.kind # "addError" /\ BytesNeeded(items) =< capacity
      /\ HasRow(m) => DOMAIN m.row # {}
      /\ m.kind = "get" => \/ m.pk < Base
                           \/ m.pk >= Base * Base /\ m.pk =< UIntMax
  BY <1>1 DEF Carried, HasRow
<1>4. /\ Len(s) \in Nat /\ Len(s) >= 4
      /\ \A i \in 1..Len(s) : s[i].op = "long" => i = Len(s)
      /\ m.kind # "get" => s[Len(s)].op # "long"
  BY <1>2, <1>3, Messaged DEF Framed
<1>5. ASSUME NEW i \in 1..Len(s)
      PROVE  ~Lossy(s[i])
  <2>1. CASE m.kind = "get"
    <3>1. IsGet(m)
      BY <1>2, <2>1, Kinds DEF IsAdd, IsContinue, IsGetOk, IsTraverse, IsPlain
    <3>2. m.pk \in Nat /\ Len(s) = 8 /\ s[8] = Item("long", m.pk)
      BY <1>2, <3>1, GetItems DEF IsGet
    <3>3. Value(Item("long", m.pk)) = m.pk
      BY <3>2 DEF Value, Item, IsChunk
    <3>4. Base \in Nat /\ Base * Base \in Nat /\ UIntMax \in Nat /\ Base * Base >= Base
          /\ UIntMax >= Base * Base
      BY Sizes
    <3>5. ~Lossy(Item("long", m.pk))
      BY <1>3, <2>1, <3>2, <3>3, <3>4 DEF Lossy
    <3> QED BY <1>4, <3>2, <3>5 DEF Lossy
  <2>2. CASE m.kind # "get"
    BY <1>4, <2>2 DEF Lossy
  <2> QED BY <2>1, <2>2
<1>6. AllHeard
  BY <1>2, AllIn
<1>7. k = Len(s)
  <2>1. SoundTo(Len(s)) /\ Len(s) \in DOMAIN items
    BY <1>1, <1>2, <1>4, <1>5 DEF SoundTo, ReaderOK
  <2>2. Len(s) \in DOMAIN heard
    BY <1>3, <1>6, <2>1 DEF AllHeard
  <2>3. HeardInOrder
    BY <1>2, InOrder
  <2>4. Len(heard) =< Len(items)
    BY <1>1, <2>1, <2>3 DEF HeardInOrder
  <2>5. DOMAIN heard = 1..Len(heard)
    BY <1>2 DEF ReaderOK
  <2>6. Len(s) \in 1..Len(heard)
    BY <2>2, <2>5
  <2>7. Len(s) =< k /\ k =< Len(s)
    BY <1>1, <1>2, <1>4, <2>4, <2>6
  <2> QED BY <1>2, <1>4, <2>7
<1>8. ~(k \in 0..3) /\ ~InBody(m, k - 3)
  BY <1>2, <1>3, <1>4, <1>7, BodyEnds
<1> QED BY <1>1, <1>2, <1>8 DEF Parsed

\* A message that was handed over was one the wire carries.
LEMMA OnlyCarried ==
  ASSUME WireInv, message # NoMessage, handled = <<Arrived(message)>>
  PROVE  Carried(message)
<1>1. PICK m, k, s : m = message /\ k = Len(heard) /\ s = items
  OBVIOUS
<1>2. /\ IsMessage(m) /\ s = Serialize(m) /\ k \in Nat /\ Parsed(m, k)
      /\ ReaderOK /\ StreamInv
  BY <1>1, MessagesAssumption DEF WireInv, MessageOK, ParserInv, ReaderOK
<1>3. handled = <<Arrived(m)>> /\ handled # <<>>
  BY <1>1
<1>4. k = Len(items) /\ m.kind # "addError" /\ (HasRow(m) => DOMAIN m.row # {})
  <2>1. ~InWrapper(m, k)
    BY <1>3 DEF InWrapper
  <2>2. ASSUME k > 3, InBody(m, k - 3) PROVE FALSE
    <3>1. m.kind = "addError" /\ handled = [i \in 1..(k - 3) |-> [kind |-> "error"]]
      BY <1>2, <1>3, <2>2, Unfinished
    <3>2. 1 \in 1..(k - 3)
      BY <1>2, <2>2
    <3>3. handled[1] = [kind |-> "error"]
      BY <3>1, <3>2
    <3>4. handled[1] = m
      BY <1>3, <3>1 DEF Arrived
    <3> QED BY <3>1, <3>3, <3>4
  <2> QED BY <1>2, <2>1, <2>2 DEF Parsed
<1>5. Len(items) \in Nat
  BY <1>2 DEF ReaderOK
<1>6. Synced
  <2>1. ~Lost
    BY <1>1, <1>2, <1>4, <1>5 DEF Lost
  <2> QED BY <1>2, <2>1 DEF StreamInv
<1>7. BytesNeeded(items) =< capacity
  <2>1. offset = BytesNeeded(items)
    BY <1>1, <1>4, <1>5, <1>6 DEF Synced, AtItem, BytesNeeded
  <2>2. offset \in 0..Len(data) /\ Len(data) =< capacity /\ capacity \in Nat
        /\ Len(data) \in Nat
    BY <1>2 DEF ReaderOK
  <2> QED BY <2>1, <2>2
<1>8. m.kind = "get" => \/ m.pk < Base
                        \/ m.pk >= Base * Base /\ m.pk =< UIntMax
  <2>1. SUFFICES ASSUME m.kind = "get"
                 PROVE  m.pk < Base \/ (m.pk >= Base * Base /\ m.pk =< UIntMax)
    OBVIOUS
  <2>2. IsGet(m)
    BY <1>2, <2>1, Kinds DEF IsAdd, IsContinue, IsGetOk, IsTraverse, IsPlain
  <2>3. m.pk \in Nat /\ Len(s) = 8 /\ s[8] = Item("long", m.pk)
    BY <1>2, <2>2, GetItems DEF IsGet
  <2>4. 8 \in 1..k /\ HeardTo(k)
    BY <1>1, <1>4, <1>6, <2>3 DEF Synced
  <2>5. ~Lossy(Item("long", m.pk))
    BY <1>1, <2>3, <2>4 DEF HeardTo
  <2>6. Value(Item("long", m.pk)) = m.pk /\ Item("long", m.pk).op = "long"
    BY <2>3 DEF Value, Item, IsChunk
  <2>7. Base \in Nat /\ Base * Base \in Nat /\ UIntMax \in Nat
    BY Sizes
  <2> QED BY <2>3, <2>5, <2>6, <2>7 DEF Lossy
<1> QED BY <1>1, <1>4, <1>7, <1>8 DEF Carried, HasRow

\* The fields of CborReader and of ObjectParser hold values of their types on
\* every run.
THEOREM WireTypeOK == Spec => []TypeOK
  BY WireInvariant, Typed, PTL

\* The listener is told the items the CborWriter was given, in their order, each
\* with its value: neither the buffer's end nor the reader's pauses make it hear
\* another, up to the first long that writeTypeAndValue cuts (Cbor.cpp:499).
THEOREM WireHeardInOrder == Spec => []HeardInOrder
<1>1. WireInv => HeardInOrder
  BY InOrder DEF WireInv
<1> QED BY <1>1, WireInvariant, PTL

\* When CborReader::Run returns and the buffer had room for everything, the
\* listener has heard all items, up to one that loses bytes (Cbor.cpp:446-516).
THEOREM WireAllHeard == Spec => []AllHeard
<1>1. WireInv => AllHeard
  BY AllIn DEF WireInv
<1> QED BY <1>1, WireInvariant, PTL

\* Of a message the ObjectParser hands its listener nothing but the message as
\* it arrives, or an error for each item of a body whose tag it does not know
\* (ObjectParser.cpp:138-168).
THEOREM WireNothingElseHandled == Spec => []NothingElseHandled
  BY WireInvariant, NoneElse, PTL

\* When ObjectParser::Run returns, the message was handed to the listener
\* exactly when the wire carries it: it fits the buffer, its row has a column,
\* its key loses no byte and its tag is known.
THEOREM WireHandledIfCarried == Spec => []HandledIfCarried
<1>1. WireInv => HandledIfCarried
  BY Handled, OnlyCarried DEF HandledIfCarried
<1> QED BY <1>1, WireInvariant, PTL

=============================================================================
