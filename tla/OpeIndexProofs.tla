--------------------------- MODULE OpeIndexProofs ---------------------------
(***************************************************************************)
(* OpeIndex keeps its promise for any number of inserts and tables, any    *)
(* values and any width of the path word.                                  *)
(***************************************************************************)
EXTENDS OpeIndex, WellFoundedInduction, TLAPS

USE DEF Status, NoLabel

\* A non-empty set of naturals has a least element.
LEMMA LeastNat ==
  ASSUME NEW T \in SUBSET Nat, T # {}
  PROVE  \E m \in T : \A n \in T : m <= n
<1> DEFINE R == {p \in Nat \X Nat : p[1] < p[2]}
<1>1. IsWellFoundedOn(R, Nat)
  BY NatLessThanWellFounded DEF OpToRel
<1>2. \A n, m \in Nat : n < m => <<n, m>> \in R
  OBVIOUS
<1> HIDE DEF R
<1>3. PICK m \in T : \A n \in T : ~(<<n, m>> \in R)
  BY <1>1, WFMin, Zenon
<1>4. ASSUME NEW n \in T
      PROVE  m <= n
  <2>1. ~(n < m)
    BY <1>2, <1>3, Zenon
  <2> QED
    BY <2>1
<1> QED
  BY <1>4

(***************************************************************************)
(* Two different positions part at one turn, or one ends where the other   *)
(* goes on.                                                                *)
(***************************************************************************)
PartAt(p, q, d) ==
  /\ \A i \in 1..(d - 1) : i <= Len(p) /\ i <= Len(q) /\ p[i] = q[i]
  /\ \/ d <= Len(p) /\ d <= Len(q) /\ p[d] # q[d]
     \/ d = Len(p) + 1 /\ d <= Len(q)
     \/ d = Len(q) + 1 /\ d <= Len(p)

LEMMA PositionsPart ==
  ASSUME NEW p \in Seq(Bit), NEW q \in Seq(Bit), p # q
  PROVE  \E d \in Nat \ {0} : PartAt(p, q, d)
<1> DEFINE T == {d \in Nat : /\ d >= 1
                             /\ \/ d > Len(p)
                                \/ d > Len(q)
                                \/ p[d] # q[d]}
<1>1. Len(p) + 1 \in T
  OBVIOUS
<1>2. PICK d \in T : \A n \in T : d <= n
  <2> HIDE DEF T
  <2>1. T # {}
    BY <1>1
  <2>2. T \in SUBSET Nat
    BY DEF T
  <2> QED
    BY <2>1, <2>2, LeastNat
<1>3. \A i \in 1..(d - 1) : i <= Len(p) /\ i <= Len(q) /\ p[i] = q[i]
  <2> TAKE i \in 1..(d - 1)
  <2>1. i \notin T
    BY <1>2
  <2> QED
    BY <2>1
<1>4. CASE d > Len(p) /\ d > Len(q)
  <2>1. Len(p) = d - 1 /\ Len(q) = d - 1
    <3>1. CASE Len(p) < d - 1
      BY <1>3, <3>1
    <3>2. CASE Len(q) < d - 1
      BY <1>3, <3>2
    <3> QED
      BY <1>4, <3>1, <3>2
  <2>2. p = q
    BY <1>3, <2>1
  <2> QED
    BY <2>2
<1>5. CASE d > Len(p) /\ d <= Len(q)
  <2>1. d = Len(p) + 1
    <3>1. CASE Len(p) < d - 1
      BY <1>3, <3>1
    <3> QED
      BY <1>5, <3>1
  <2> QED
    BY <1>3, <1>5, <2>1 DEF PartAt
<1>6. CASE d <= Len(p) /\ d > Len(q)
  <2>1. d = Len(q) + 1
    <3>1. CASE Len(q) < d - 1
      BY <1>3, <3>1
    <3> QED
      BY <1>6, <3>1
  <2> QED
    BY <1>3, <1>6, <2>1 DEF PartAt
<1>7. CASE d <= Len(p) /\ d <= Len(q)
  BY <1>3, <1>7 DEF PartAt
<1> QED
  BY <1>4, <1>5, <1>6, <1>7

(***************************************************************************)
(* A label is a word, and tells its position.                              *)
(***************************************************************************)
LEMMA LabelIsWord ==
  ASSUME NEW p \in Seq(Bit)
  PROVE  Label(p) \in Word
<1> SUFFICES ASSUME NEW i \in 1..PathBits
             PROVE  Label(p)[i] \in Bit
  BY DEF Label, Word
<1>1. CASE i <= Len(p)
  <2>1. i \in Nat /\ i >= 1
    BY PathBitsAssumption
  <2>2. p[i] \in Bit
    BY <1>1, <2>1
  <2> QED
    BY <1>1, <2>2 DEF Label
<1>2. CASE ~(i <= Len(p))
  BY <1>2 DEF Label, Bit
<1> QED
  BY <1>1, <1>2

LEMMA LabelInjective ==
  ASSUME NEW p \in Seq(Bit), NEW q \in Seq(Bit),
         Len(p) < PathBits, Len(q) < PathBits,
         Label(p) = Label(q)
  PROVE  p = q
<1> USE PathBitsAssumption
<1>1. Len(p) \in Nat /\ Len(q) \in Nat
  OBVIOUS
<1>2. ~(Len(p) < Len(q))
  <2> SUFFICES ASSUME Len(p) < Len(q)
               PROVE  FALSE
    OBVIOUS
  <2>1. Len(q) + 1 \in 1..PathBits
    BY <1>1
  <2>2. Label(q)[Len(q) + 1] = 1 /\ Label(p)[Len(q) + 1] = 0
    BY <1>1, <2>1 DEF Label
  <2> QED
    BY <2>2
<1>3. ~(Len(q) < Len(p))
  <2> SUFFICES ASSUME Len(q) < Len(p)
               PROVE  FALSE
    OBVIOUS
  <2>1. Len(p) + 1 \in 1..PathBits
    BY <1>1
  <2>2. Label(p)[Len(p) + 1] = 1 /\ Label(q)[Len(p) + 1] = 0
    BY <1>1, <2>1 DEF Label
  <2> QED
    BY <2>2
<1>4. Len(p) = Len(q)
  BY <1>1, <1>2, <1>3
<1>5. \A i \in 1..Len(p) : p[i] = q[i]
  <2> TAKE i \in 1..Len(p)
  <2>1. i \in 1..PathBits
    BY <1>1
  <2>2. Label(p)[i] = p[i] /\ Label(q)[i] = q[i]
    BY <1>1, <1>4, <2>1 DEF Label
  <2> QED
    BY <2>2
<1> QED
  BY <1>4, <1>5

(***************************************************************************)
(* The order of the labels is that of the positions, read as in a search   *)
(* tree: left subtree, node, right subtree.                                *)
(***************************************************************************)
LEMMA LabelsLess ==
  ASSUME NEW p \in Seq(Bit), NEW q \in Seq(Bit), NEW d \in Nat \ {0},
         Len(p) < PathBits, Len(q) < PathBits,
         PartAt(p, q, d),
         \/ d <= Len(p) /\ d <= Len(q) /\ p[d] = 0 /\ q[d] = 1
         \/ d = Len(q) + 1 /\ d <= Len(p) /\ p[d] = 0
         \/ d = Len(p) + 1 /\ d <= Len(q) /\ q[d] = 1
  PROVE  WordLess(Label(p), Label(q))
<1> USE PathBitsAssumption
<1>1. Len(p) \in Nat /\ Len(q) \in Nat
  OBVIOUS
<1>2. d \in 1..PathBits
  BY <1>1
<1>3. \A i \in 1..PathBits : i < d => Label(p)[i] = Label(q)[i]
  <2> SUFFICES ASSUME NEW i \in 1..PathBits, i < d
               PROVE  Label(p)[i] = Label(q)[i]
    OBVIOUS
  <2>1. i <= Len(p) /\ i <= Len(q) /\ p[i] = q[i]
    BY DEF PartAt
  <2> QED
    BY <2>1 DEF Label
<1>4. CASE d <= Len(p) /\ d <= Len(q) /\ p[d] = 0 /\ q[d] = 1
  <2>1. Label(p)[d] = 0 /\ Label(q)[d] = 1
    BY <1>2, <1>4 DEF Label
  <2> QED
    BY <1>2, <1>3, <2>1 DEF WordLess
<1>5. CASE d = Len(q) + 1 /\ d <= Len(p) /\ p[d] = 0
  <2>1. Label(p)[d] = 0 /\ Label(q)[d] = 1
    BY <1>1, <1>2, <1>5 DEF Label
  <2> QED
    BY <1>2, <1>3, <2>1 DEF WordLess
<1>6. CASE d = Len(p) + 1 /\ d <= Len(q) /\ q[d] = 1
  <2> DEFINE T == {i \in Nat : i > d /\ i <= PathBits /\ Label(q)[i] = 1}
  <2>1. Len(q) + 1 \in T
    <3>1. Len(q) + 1 \in 1..PathBits
      BY <1>1
    <3>2. Label(q)[Len(q) + 1] = 1
      BY <1>1, <3>1 DEF Label
    <3> QED
      BY <1>1, <1>6, <3>1, <3>2
  <2>2. PICK e \in T : \A n \in T : e <= n
    <3>1. T # {}
      BY <2>1
    <3>2. T \in SUBSET Nat
      OBVIOUS
    <3> HIDE DEF T
    <3> QED
      BY <3>1, <3>2, LeastNat
  <2>3. e \in 1..PathBits /\ e > d /\ Label(q)[e] = 1
    BY <1>2
  <2>4. Label(p)[e] = 0
    BY <1>1, <1>6, <2>3 DEF Label
  <2>5. \A i \in 1..PathBits : i < e => Label(p)[i] = Label(q)[i]
    <3> SUFFICES ASSUME NEW i \in 1..PathBits, i < e
                 PROVE  Label(p)[i] = Label(q)[i]
      OBVIOUS
    <3>1. CASE i < d
      BY <1>3, <3>1
    <3>2. CASE i = d
      BY <1>1, <1>6, <3>2 DEF Label
    <3>3. CASE i > d
      <4>1. i \notin T
        BY <2>2
      <4>2. Label(q)[i] # 1
        BY <1>2, <3>3, <4>1
      <4>3. Label(q) \in Word
        BY LabelIsWord
      <4>4. Label(q)[i] = 0
        BY <4>2, <4>3 DEF Word, Bit
      <4>5. Label(p)[i] = 0
        BY <1>1, <1>6, <3>3 DEF Label
      <4> QED
        BY <4>4, <4>5
    <3> QED
      BY <1>2, <3>1, <3>2, <3>3
  <2> QED
    BY <2>3, <2>4, <2>5 DEF WordLess
<1> QED
  BY <1>4, <1>5, <1>6

-------------------------------------------------------------------------------
LEMMA CompareIs ==
  ASSUME NEW a \in Int, NEW b \in Int
  PROVE  /\ Compare(a, b) = -1 <=> a < b
         /\ Compare(a, b) = 1 <=> a > b
         /\ Compare(a, b) = 0 <=> a = b
  BY DEF Compare

(***************************************************************************)
(* One turn deeper: the positions above are those above, and the position  *)
(* itself.                                                                 *)
(***************************************************************************)
LEMMA AboveAppend ==
  ASSUME NEW p \in Seq(Bit), NEW q \in Seq(Bit), NEW t \in Bit
  PROVE  /\ Append(q, t) \in Seq(Bit)
         /\ Len(Append(q, t)) = Len(q) + 1
         /\ Append(q, t)[Len(q) + 1] = t
         /\ \A i \in 1..Len(q) : Append(q, t)[i] = q[i]
         /\ Above(q, Append(q, t))
         /\ Above(p, Append(q, t)) <=> (Above(p, q) \/ p = q)
<1>1. /\ Append(q, t) \in Seq(Bit)
      /\ Len(Append(q, t)) = Len(q) + 1
      /\ Append(q, t)[Len(q) + 1] = t
      /\ \A i \in 1..Len(q) : Append(q, t)[i] = q[i]
  OBVIOUS
<1>2. Above(q, Append(q, t))
  BY <1>1 DEF Above
<1>3. ASSUME Above(p, Append(q, t)), Len(p) # Len(q)
      PROVE  Above(p, q)
  <2>1. Len(p) < Len(q)
    BY <1>1, <1>3 DEF Above
  <2>2. \A i \in 1..Len(p) : p[i] = q[i]
    BY <1>1, <1>3, <2>1 DEF Above
  <2> QED
    BY <2>1, <2>2 DEF Above
<1>4. ASSUME Above(p, Append(q, t)), Len(p) = Len(q)
      PROVE  p = q
  <2>1. \A i \in 1..Len(p) : p[i] = q[i]
    BY <1>1, <1>4 DEF Above
  <2> QED
    BY <1>4, <2>1
<1>5. ASSUME Above(p, q)
      PROVE  Above(p, Append(q, t))
  BY <1>1, <1>5 DEF Above
<1> QED
  BY <1>1, <1>2, <1>3, <1>4, <1>5

LEMMA InitIndInv == Init => IndInv
<1> SUFFICES ASSUME Init
             PROVE  IndInv
  OBVIOUS
<1> USE DEF Init
<1>1. TypeOK /\ NewAtRoot
  BY DEF TypeOK, NewAtRoot
<1>2. UniquePlaces /\ AncestorsPlaced /\ SearchesOccupied
  BY DEF UniquePlaces, AncestorsPlaced, SearchesOccupied
<1>3. SidesRespected
  BY DEF SidesRespected
<1>4. LabelsFollowPlaces
  BY DEF LabelsFollowPlaces
<1> QED
  BY <1>1, <1>2, <1>3, <1>4 DEF IndInv
-----------------------------------------------------------------------------
(***************************************************************************)
(* Placing o at a free position whose ancestors are all taken, on the      *)
(* right side of each, preserves the invariant.  The root and every leaf   *)
(* are placed so.                                                          *)
(***************************************************************************)
RightSide(o, h, p) == IF p[Len(pos[h]) + 1] = 0 THEN Val[h] < Val[o]
                                                ELSE Val[h] > Val[o]

LEMMA PlacingKeeps ==
  ASSUME IndInv, NEW o \in Ops, NEW P \in Seq(Bit),
         status[o] \in {"new", "search"},
         ~Occupied(Key[o], P),
         \A d \in 0..(Len(P) - 1) :
           \E h \in Placed(Key[o]) : Len(pos[h]) = d /\ Above(pos[h], P),
         Intact(Key[o]) => \A h \in Placed(Key[o]) : Above(pos[h], P) => RightSide(o, h, P),
         status' = [status EXCEPT ![o] = "placed"],
         pos' = [pos EXCEPT ![o] = P],
         label' = label
  PROVE  IndInv'
<1>1. TypeOK /\ NewAtRoot /\ UniquePlaces /\ AncestorsPlaced
      /\ SearchesOccupied /\ SidesRespected /\ LabelsFollowPlaces
  BY DEF IndInv
<1>2. TypeOK'
  BY <1>1 DEF TypeOK
<1>3. /\ \A x \in Ops : status'[x] = IF x = o THEN "placed" ELSE status[x]
      /\ \A x \in Ops : pos'[x] = IF x = o THEN P ELSE pos[x]
      /\ \A x \in Ops : pos[x] \in Seq(Bit)
  BY <1>1 DEF TypeOK
<1>4. \A x \in Ops : (status[x] = "placed" /\ Key[x] = Key[o]) => pos[x] # P
  BY DEF Occupied, Placed
<1>5. \A k : Placed(k) \subseteq Placed(k)'
  BY <1>3 DEF Placed
<1>6. \A k : \A h \in Placed(k) : h \in Ops /\ h # o /\ pos'[h] = pos[h]
  BY <1>3 DEF Placed
<1>7. NewAtRoot'
  BY <1>1, <1>3 DEF NewAtRoot
<1>8. UniquePlaces'
  BY <1>1, <1>3, <1>4 DEF UniquePlaces
<1>9. AncestorsPlaced'
  <2> SUFFICES ASSUME NEW x \in Ops, status'[x] = "placed",
                      NEW d \in 0..(Len(pos'[x]) - 1)
               PROVE  \E h \in Placed(Key[x])' :
                        Len(pos'[h]) = d /\ Above(pos'[h], pos'[x])
    BY DEF AncestorsPlaced, Above
  <2>1. PICK h \in Placed(Key[x]) : Len(pos[h]) = d /\ Above(pos[h], pos'[x])
    <3>1. CASE x = o
      BY <1>3, <3>1
    <3>2. CASE x # o
      BY <1>1, <1>3, <3>2 DEF AncestorsPlaced
    <3> QED
      BY <3>1, <3>2
  <2> QED
    BY <1>5, <1>6, <2>1
<1>10. SearchesOccupied'
  <2> SUFFICES ASSUME NEW x \in Ops, status'[x] = "search"
               PROVE  \E h \in Placed(Key[x])' : pos'[h] = pos'[x]
    BY DEF SearchesOccupied, Occupied
  <2>1. x # o /\ status[x] = "search" /\ pos'[x] = pos[x]
    BY <1>3
  <2>2. PICK h \in Placed(Key[x]) : pos[h] = pos[x]
    BY <1>1, <2>1 DEF SearchesOccupied, Occupied
  <2> QED
    BY <1>5, <1>6, <2>1, <2>2
<1>11. ASSUME NEW x \in Ops, status[x] \in {"search", "placed"}, Key[x] = Key[o],
              Above(P, pos[x])
       PROVE  FALSE
  <2>1. PICK y \in Ops : status[y] = "placed" /\ Key[y] = Key[o] /\ pos[y] = pos[x]
    <3>1. CASE status[x] = "placed"
      BY <1>11, <3>1
    <3>2. CASE status[x] = "search"
      BY <1>1, <1>11, <3>2 DEF SearchesOccupied, Occupied, Placed
    <3> QED
      BY <1>11, <3>1, <3>2
  <2>2. Len(P) \in 0..(Len(pos[y]) - 1)
    BY <1>3, <1>11, <2>1 DEF Above
  <2>3. PICK h \in Placed(Key[o]) : Len(pos[h]) = Len(P) /\ Above(pos[h], pos[y])
    BY <1>1, <2>1, <2>2 DEF AncestorsPlaced
  <2>4. \A i \in 1..Len(P) : pos[h][i] = P[i]
    BY <1>11, <2>1, <2>3 DEF Above
  <2>5. pos[h] = P
    <3>1. pos[h] \in Seq(Bit) /\ Len(pos[h]) = Len(P)
      BY <1>3, <1>6, <2>3
    <3> HIDE DEF Bit
    <3> QED
      BY <2>4, <3>1
  <2> QED
    BY <1>4, <2>3, <2>5 DEF Placed
<1>12. SidesRespected'
  <2> SUFFICES ASSUME NEW x \in Ops, NEW h \in Ops, Intact(Key[x]),
                      status'[x] \in {"search", "placed"}, status'[h] = "placed",
                      Key[h] = Key[x], Above(pos'[h], pos'[x])
               PROVE  IF pos'[x][Len(pos'[h]) + 1] = 0 THEN Val[h] < Val[x]
                                                       ELSE Val[h] > Val[x]
    BY DEF SidesRespected, Above
  <2>1. CASE x # o /\ h # o
    BY <1>1, <1>3, <2>1 DEF SidesRespected
  <2>2. CASE x # o /\ h = o
    BY <1>3, <1>11, <2>2
  <2>3. CASE x = o /\ h # o
    <3>1. h \in Placed(Key[o]) /\ pos'[h] = pos[h] /\ pos'[x] = P
      BY <1>3, <2>3 DEF Placed
    <3> QED
      BY <2>3, <3>1 DEF RightSide
  <2>4. CASE x = o /\ h = o
    BY <1>3, <2>4 DEF Above
  <2> QED
    BY <2>1, <2>2, <2>3, <2>4
<1>13. LabelsFollowPlaces'
  BY <1>1, <1>3 DEF LabelsFollowPlaces
<1> QED
  BY <1>2, <1>7, <1>8, <1>9, <1>10, <1>12, <1>13 DEF IndInv

LEMMA PlaceRootKeeps ==
  ASSUME IndInv, NEW o \in Ops, PlaceRoot(o)
  PROVE  IndInv'
<1>1. pos[o] = <<>>
  BY DEF IndInv, NewAtRoot, PlaceRoot
<1>2. pos' = [pos EXCEPT ![o] = <<>>]
  BY <1>1 DEF PlaceRoot, IndInv, TypeOK
<1>3. ~Occupied(Key[o], <<>>)
  BY DEF Occupied, PlaceRoot
<1>4. <<>> \in Seq(Bit) /\ 0..(Len(<<>>) - 1) = {}
  OBVIOUS
<1>5. Placed(Key[o]) = {} /\ status[o] = "new"
      /\ status' = [status EXCEPT ![o] = "placed"] /\ label' = label
  BY DEF PlaceRoot
<1> HIDE DEF Status, NoLabel
<1> QED
  BY <1>2, <1>3, <1>4, <1>5, PlacingKeeps

\* The client's answer names the side of the node the search stands on.
LEMMA AnswersRightSide ==
  ASSUME IndInv, NEW o \in Ops, Intact(Key[o]), NEW c \in {-1, 1},
         status[o] = "search", Answers(o, c),
         NEW h \in Placed(Key[o]), Above(pos[h], Append(pos[o], Turn(c)))
  PROVE  RightSide(o, h, Append(pos[o], Turn(c)))
<1> DEFINE P == Append(pos[o], Turn(c))
<1>1. h \in Ops /\ status[h] = "placed" /\ Key[h] = Key[o]
  BY DEF Placed
<1>2. pos[h] \in Seq(Bit) /\ pos[o] \in Seq(Bit) /\ Turn(c) \in Bit
  BY <1>1 DEF IndInv, TypeOK, Turn, Bit
<1>3. CASE Above(pos[h], pos[o])
  <2>1. IF pos[o][Len(pos[h]) + 1] = 0 THEN Val[h] < Val[o] ELSE Val[h] > Val[o]
    BY <1>1, <1>3 DEF IndInv, SidesRespected
  <2>2. P[Len(pos[h]) + 1] = pos[o][Len(pos[h]) + 1]
    BY <1>2, <1>3, AboveAppend DEF Above
  <2> QED
    BY <2>1, <2>2 DEF RightSide
<1>4. CASE pos[h] = pos[o]
  <2>1. PICK g \in Placed(Key[o]) :
          pos[g] = pos[o] /\ \E u \in ReadsOf[g] : Compare(u, Val[o]) = c
    BY DEF Answers
  <2>2. g = h
    BY <1>1, <1>4, <2>1 DEF IndInv, UniquePlaces, Placed
  <2>3. Compare(Val[h], Val[o]) = c
    BY <1>1, <2>1, <2>2 DEF Intact
  <2>4. Val[h] \in Int /\ Val[o] \in Int
    BY <1>1, OpsAssumption
  <2>5. P[Len(pos[h]) + 1] = Turn(c)
    BY <1>2, <1>4, AboveAppend
  <2> QED
    BY <2>3, <2>4, <2>5, CompareIs DEF RightSide, Turn
<1> QED
  BY <1>2, <1>3, <1>4, AboveAppend

LEMMA AttachKeeps ==
  ASSUME IndInv, NEW o \in Ops, NEW c \in {-1, 1}, Attach(o, c)
  PROVE  IndInv'
<1> DEFINE P == Append(pos[o], Turn(c))
<1>1. pos[o] \in Seq(Bit) /\ Turn(c) \in Bit
  BY DEF IndInv, TypeOK, Turn, Bit
<1>2. P \in Seq(Bit) /\ Len(P) = Len(pos[o]) + 1
  BY <1>1, AboveAppend
<1>3. PICK x \in Placed(Key[o]) : pos[x] = pos[o]
  BY DEF Attach, Answers
<1>4. ASSUME NEW d \in 0..(Len(P) - 1)
      PROVE  \E h \in Placed(Key[o]) : Len(pos[h]) = d /\ Above(pos[h], P)
  <2>1. CASE d = Len(pos[o])
    BY <1>1, <1>3, <2>1, AboveAppend
  <2>2. CASE d # Len(pos[o])
    <3>1. d \in 0..(Len(pos[x]) - 1)
      BY <1>1, <1>2, <1>3, <2>2
    <3>2. PICK h \in Placed(Key[o]) : Len(pos[h]) = d /\ Above(pos[h], pos[x])
      BY <1>3, <3>1 DEF IndInv, AncestorsPlaced, Placed
    <3>3. pos[h] \in Seq(Bit)
      BY DEF IndInv, TypeOK, Placed
    <3> QED
      BY <1>1, <1>3, <3>2, <3>3, AboveAppend
  <2> QED
    BY <2>1, <2>2
<1>5. Intact(Key[o]) => \A h \in Placed(Key[o]) : Above(pos[h], P) => RightSide(o, h, P)
  BY AnswersRightSide DEF Attach
<1> HIDE DEF P
<1>6. /\ status[o] = "search"
      /\ ~Occupied(Key[o], P)
      /\ status' = [status EXCEPT ![o] = "placed"]
      /\ pos' = [pos EXCEPT ![o] = P]
      /\ label' = label
  BY DEF Attach, P
<1> QED
  BY <1>2, <1>4, <1>5, <1>6, PlacingKeeps

LEMMA DescendKeeps ==
  ASSUME IndInv, NEW o \in Ops, NEW c \in {-1, 1}, Descend(o, c)
  PROVE  IndInv'
<1> DEFINE P == Append(pos[o], Turn(c))
<1>1. TypeOK /\ NewAtRoot /\ UniquePlaces /\ AncestorsPlaced
      /\ SearchesOccupied /\ SidesRespected /\ LabelsFollowPlaces
  BY DEF IndInv
<1>2. pos[o] \in Seq(Bit) /\ Turn(c) \in Bit
  BY <1>1 DEF TypeOK, Turn, Bit
<1>3. P \in Seq(Bit)
  BY <1>2, AboveAppend
<1>4. Intact(Key[o]) => \A h \in Placed(Key[o]) : Above(pos[h], P) => RightSide(o, h, P)
  BY AnswersRightSide DEF Descend
<1>5. status[o] = "search" /\ Occupied(Key[o], P)
  BY DEF Descend
<1>6. pos' = [pos EXCEPT ![o] = P] /\ status' = status /\ label' = label
  BY DEF Descend
<1> HIDE DEF P
<1>7. /\ \A x \in Ops : pos'[x] = IF x = o THEN P ELSE pos[x]
      /\ \A x \in Ops : status[x] = "placed" => x # o
  BY <1>1, <1>5, <1>6 DEF TypeOK
<1>8. TypeOK'
  BY <1>1, <1>3, <1>6 DEF TypeOK
<1>9. \A k : /\ Placed(k)' = Placed(k)
             /\ \A h \in Placed(k) : pos'[h] = pos[h] /\ h \in Ops /\ h # o
  BY <1>6, <1>7 DEF Placed
<1>10. NewAtRoot' /\ UniquePlaces' /\ LabelsFollowPlaces'
  BY <1>1, <1>5, <1>6, <1>7 DEF NewAtRoot, UniquePlaces, LabelsFollowPlaces
<1>11. AncestorsPlaced'
  BY <1>1, <1>6, <1>7, <1>9 DEF AncestorsPlaced, Above
<1>12. SearchesOccupied'
  BY <1>1, <1>5, <1>6, <1>7, <1>9 DEF SearchesOccupied, Occupied
<1>13. SidesRespected'
  <2> SUFFICES ASSUME NEW x \in Ops, NEW h \in Ops, Intact(Key[x]),
                      status[x] \in {"search", "placed"}, status[h] = "placed",
                      Key[h] = Key[x], Above(pos[h], pos'[x])
               PROVE  IF pos'[x][Len(pos[h]) + 1] = 0 THEN Val[h] < Val[x]
                                                      ELSE Val[h] > Val[x]
    BY <1>6, <1>7 DEF SidesRespected, Above
  <2>1. CASE x = o
    BY <1>4, <1>7, <2>1 DEF Placed, RightSide
  <2>2. CASE x # o
    BY <1>1, <1>7, <2>2 DEF SidesRespected
  <2> QED
    BY <2>1, <2>2
<1> QED
  BY <1>8, <1>10, <1>11, <1>12, <1>13 DEF IndInv

\* An operation that is not placed, and will not be, changes its status only.
LEMMA StartSearchKeeps ==
  ASSUME IndInv, NEW o \in Ops, StartSearch(o)
  PROVE  IndInv'
<1>1. TypeOK /\ NewAtRoot /\ UniquePlaces /\ AncestorsPlaced
      /\ SearchesOccupied /\ SidesRespected /\ LabelsFollowPlaces
  BY DEF IndInv
<1>2. /\ status' = [status EXCEPT ![o] = "search"]
      /\ status[o] = "new" /\ pos' = pos /\ label' = label
      /\ pos[o] = <<>>
  BY <1>1 DEF StartSearch, NewAtRoot
<1>3. TypeOK'
  BY <1>1, <1>2 DEF TypeOK
<1>4. \A x \in Ops : status'[x] = IF x = o THEN "search" ELSE status[x]
  BY <1>1, <1>2 DEF TypeOK
<1>5. \A k : Placed(k)' = Placed(k)
  BY <1>2, <1>4 DEF Placed
<1>6. NewAtRoot' /\ UniquePlaces' /\ LabelsFollowPlaces'
  BY <1>1, <1>2, <1>4 DEF NewAtRoot, UniquePlaces, LabelsFollowPlaces
<1>7. AncestorsPlaced'
  BY <1>1, <1>2, <1>4, <1>5 DEF AncestorsPlaced, Above
<1>8. Occupied(Key[o], <<>>)
  <2>1. PICK x \in Placed(Key[o]) : TRUE
    BY DEF StartSearch
  <2>2. CASE pos[x] = <<>>
    BY <2>1, <2>2 DEF Occupied
  <2>3. CASE pos[x] # <<>>
    <3>1. pos[x] \in Seq(Bit)
      BY <1>1 DEF Placed, TypeOK
    <3>2. 0 \in 0..(Len(pos[x]) - 1)
      BY <2>3, <3>1
    <3> x \in Ops /\ status[x] = "placed" /\ Key[x] = Key[o]
      BY DEF Placed
    <3>3. PICK h \in Placed(Key[o]) : Len(pos[h]) = 0
      BY <1>1, <3>2 DEF AncestorsPlaced
    <3>4. pos[h] \in Seq(Bit)
      BY <1>1 DEF Placed, TypeOK
    <3>5. pos[h] = <<>>
      BY <3>3, <3>4
    <3> QED
      BY <3>5 DEF Occupied
  <2> QED
    BY <2>2, <2>3
<1>9. SearchesOccupied'
  BY <1>1, <1>2, <1>4, <1>5, <1>8 DEF SearchesOccupied, Occupied
<1>10. SidesRespected'
  BY <1>1, <1>2, <1>4 DEF SidesRespected, Above, TypeOK
<1> QED
  BY <1>3, <1>6, <1>7, <1>9, <1>10 DEF IndInv

LEMMA DropKeeps ==
  ASSUME IndInv, NEW o \in Ops, Drop(o)
  PROVE  IndInv'
<1>1. TypeOK /\ NewAtRoot /\ UniquePlaces /\ AncestorsPlaced
      /\ SearchesOccupied /\ SidesRespected /\ LabelsFollowPlaces
  BY DEF IndInv
<1>2. /\ status' = [status EXCEPT ![o] = "dropped"]
      /\ status[o] = "search" /\ pos' = pos /\ label' = label
  BY DEF Drop
<1>3. TypeOK'
  BY <1>1, <1>2 DEF TypeOK
<1>4. \A x \in Ops : status'[x] = IF x = o THEN "dropped" ELSE status[x]
  BY <1>1, <1>2 DEF TypeOK
<1>5. \A k : Placed(k)' = Placed(k)
  BY <1>2, <1>4 DEF Placed
<1>6. NewAtRoot' /\ UniquePlaces' /\ LabelsFollowPlaces' /\ SidesRespected'
  BY <1>1, <1>2, <1>4
     DEF NewAtRoot, UniquePlaces, LabelsFollowPlaces, SidesRespected, Above
<1>7. AncestorsPlaced' /\ SearchesOccupied'
  BY <1>1, <1>2, <1>4, <1>5 DEF AncestorsPlaced, SearchesOccupied, Occupied, Above
<1> QED
  BY <1>3, <1>6, <1>7 DEF IndInv

LEMMA StoreKeeps ==
  ASSUME IndInv, NEW o \in Ops, Store(o)
  PROVE  IndInv'
<1>1. PICK w \in Word : /\ Len(pos[o]) < PathBits => w = Label(pos[o])
                        /\ label' = [label EXCEPT ![o] = w]
  BY DEF Store
<1>2. status[o] = "placed" /\ status' = status /\ pos' = pos
  BY DEF Store
<1>3. TypeOK'
  BY <1>1, <1>2 DEF IndInv, TypeOK
<1>4. LabelsFollowPlaces'
  BY <1>1, <1>2 DEF IndInv, TypeOK, LabelsFollowPlaces
<1>5. NewAtRoot' /\ UniquePlaces' /\ AncestorsPlaced' /\ SearchesOccupied'
      /\ SidesRespected'
  BY <1>2 DEF IndInv, NewAtRoot, UniquePlaces, AncestorsPlaced, SearchesOccupied,
              SidesRespected, Placed, Occupied, Above
<1> QED
  BY <1>3, <1>4, <1>5 DEF IndInv

LEMMA NextIndInv == IndInv /\ [Next]_vars => IndInv'
<1> SUFFICES ASSUME IndInv, [Next]_vars
             PROVE  IndInv'
  OBVIOUS
<1>1. ASSUME NEW o \in Ops, PlaceRoot(o)
      PROVE  IndInv'
  BY <1>1, PlaceRootKeeps
<1>2. ASSUME NEW o \in Ops, StartSearch(o)
      PROVE  IndInv'
  BY <1>2, StartSearchKeeps
<1>3. ASSUME NEW o \in Ops, NEW c \in {-1, 1}, Descend(o, c)
      PROVE  IndInv'
  BY <1>3, DescendKeeps
<1>4. ASSUME NEW o \in Ops, NEW c \in {-1, 1}, Attach(o, c)
      PROVE  IndInv'
  BY <1>4, AttachKeeps
<1>5. ASSUME NEW o \in Ops, Drop(o)
      PROVE  IndInv'
  BY <1>5, DropKeeps
<1>6. ASSUME NEW o \in Ops, Store(o)
      PROVE  IndInv'
  BY <1>6, StoreKeeps
<1>7. CASE UNCHANGED vars
  BY <1>7 DEF vars, IndInv, TypeOK, NewAtRoot, UniquePlaces, AncestorsPlaced,
              SearchesOccupied, SidesRespected, LabelsFollowPlaces, Placed,
              Occupied, Above
<1> QED
  BY <1>1, <1>2, <1>3, <1>4, <1>5, <1>6, <1>7 DEF Next

(***************************************************************************)
(* The inductive invariant holds in every state OpeIndex reaches: places   *)
(* are unique, their ancestors taken, every operation on the side of its   *)
(* ancestors its value asks for, and every label that of its place.        *)
(***************************************************************************)
THEOREM Inductive == Spec => []IndInv
<1>1. Init => IndInv
  BY InitIndInv
<1>2. IndInv /\ [Next]_vars => IndInv'
  BY NextIndInv
<1> QED
  BY <1>1, <1>2, PTL DEF Spec

LEMMA InvDistinctLabels == IndInv => DistinctLabels
<1> SUFFICES ASSUME IndInv, NEW o1 \in Ops, NEW o2 \in Ops, o1 # o2,
                    Key[o1] = Key[o2], Indexed(o1), Indexed(o2),
                    label[o1] = label[o2]
             PROVE  FALSE
  BY DEF DistinctLabels
<1>1. Label(pos[o1]) = Label(pos[o2])
  BY DEF IndInv, LabelsFollowPlaces, Indexed
<1>2. pos[o1] \in Seq(Bit) /\ pos[o2] \in Seq(Bit)
  BY DEF IndInv, TypeOK
<1>3. pos[o1] = pos[o2]
  BY <1>1, <1>2, LabelInjective DEF Indexed
<1> QED
  BY <1>3 DEF IndInv, UniquePlaces, LabelsFollowPlaces, Indexed

(***************************************************************************)
(* Two rows of one table never share a label.                              *)
(***************************************************************************)
THEOREM LabelsDistinct == Spec => []DistinctLabels
  BY InvDistinctLabels, Inductive, PTL

\* Two placed operations of one tree part where their values say.
LEMMA ValuesPart ==
  ASSUME IndInv, NEW x \in Ops, NEW y \in Ops, Intact(Key[x]),
         status[x] = "placed", status[y] = "placed", Key[x] = Key[y],
         NEW d \in Nat \ {0}, PartAt(pos[x], pos[y], d)
  PROVE  /\ (d <= Len(pos[x]) /\ d <= Len(pos[y]))
              => IF pos[x][d] = 0 THEN Val[x] > Val[y] /\ pos[y][d] = 1
                                  ELSE Val[x] < Val[y] /\ pos[y][d] = 0
         /\ (d = Len(pos[x]) + 1 /\ d <= Len(pos[y]))
              => IF pos[y][d] = 0 THEN Val[x] < Val[y] ELSE Val[x] > Val[y]
         /\ (d = Len(pos[y]) + 1 /\ d <= Len(pos[x]))
              => IF pos[x][d] = 0 THEN Val[y] < Val[x] ELSE Val[y] > Val[x]
<1>1. /\ pos[x] \in Seq(Bit) /\ pos[y] \in Seq(Bit)
      /\ Val[x] \in Int /\ Val[y] \in Int
      /\ \A h \in Ops : Val[h] \in Int /\ pos[h] \in Seq(Bit)
  BY OpsAssumption DEF IndInv, TypeOK
<1>2. ASSUME NEW h \in Ops, NEW g \in Ops, status[h] = "placed",
             status[g] = "placed", Key[h] = Key[g], Key[g] = Key[x],
             Above(pos[h], pos[g])
      PROVE  IF pos[g][Len(pos[h]) + 1] = 0 THEN Val[h] < Val[g]
                                             ELSE Val[h] > Val[g]
  BY <1>2 DEF IndInv, SidesRespected
<1>3. ASSUME d <= Len(pos[x]), d <= Len(pos[y])
      PROVE  IF pos[x][d] = 0 THEN Val[x] > Val[y] /\ pos[y][d] = 1
                              ELSE Val[x] < Val[y] /\ pos[y][d] = 0
  <2>1. d - 1 \in 0..(Len(pos[x]) - 1)
    BY <1>1, <1>3
  <2>2. PICK h \in Placed(Key[x]) : Len(pos[h]) = d - 1 /\ Above(pos[h], pos[x])
    BY <2>1 DEF IndInv, AncestorsPlaced
  <2>3. h \in Ops /\ status[h] = "placed" /\ Key[h] = Key[x]
    BY DEF Placed
  <2>4. Above(pos[h], pos[y])
    <3>1. /\ Len(pos[h]) = d - 1 /\ Len(pos[h]) < Len(pos[y])
          /\ Len(pos[x]) \in Nat /\ Len(pos[y]) \in Nat
      BY <1>1, <1>3, <2>2
    <3>2. ASSUME NEW i \in 1..Len(pos[h])
          PROVE  pos[h][i] = pos[y][i]
      <4>1. pos[h][i] = pos[x][i]
        BY <2>2 DEF Above
      <4>2. i \in 1..d - 1
        BY <3>1
      <4>3. pos[x][i] = pos[y][i]
        BY <4>2 DEF PartAt
      <4> QED
        BY <4>1, <4>3
    <3> QED
      BY <3>1, <3>2 DEF Above
  <2>5. IF pos[x][d] = 0 THEN Val[h] < Val[x] ELSE Val[h] > Val[x]
    BY <1>2, <2>2, <2>3
  <2>6. IF pos[y][d] = 0 THEN Val[h] < Val[y] ELSE Val[h] > Val[y]
    BY <1>2, <2>2, <2>3, <2>4
  <2>7. pos[x][d] \in Bit /\ pos[y][d] \in Bit /\ pos[x][d] # pos[y][d]
    BY <1>1, <1>3 DEF PartAt
  <2> QED
    BY <1>1, <2>3, <2>5, <2>6, <2>7 DEF Bit
<1>4. ASSUME d = Len(pos[x]) + 1, d <= Len(pos[y])
      PROVE  IF pos[y][d] = 0 THEN Val[x] < Val[y] ELSE Val[x] > Val[y]
  <2>1. Above(pos[x], pos[y])
    <3>1. /\ Len(pos[x]) = d - 1 /\ Len(pos[x]) < Len(pos[y])
          /\ Len(pos[x]) \in Nat
      BY <1>1, <1>4
    <3>2. ASSUME NEW i \in 1..Len(pos[x])
          PROVE  pos[x][i] = pos[y][i]
      <4>1. i \in 1..d - 1
        BY <3>1
      <4> QED
        BY <4>1 DEF PartAt
    <3> QED
      BY <3>1, <3>2 DEF Above
  <2> QED
    BY <1>2, <1>4, <2>1
<1>5. ASSUME d = Len(pos[y]) + 1, d <= Len(pos[x])
      PROVE  IF pos[x][d] = 0 THEN Val[y] < Val[x] ELSE Val[y] > Val[x]
  <2>1. Above(pos[y], pos[x])
    <3>1. /\ Len(pos[y]) = d - 1 /\ Len(pos[y]) < Len(pos[x])
          /\ Len(pos[y]) \in Nat
      BY <1>1, <1>5
    <3>2. ASSUME NEW i \in 1..Len(pos[y])
          PROVE  pos[y][i] = pos[x][i]
      <4>1. i \in 1..d - 1
        BY <3>1
      <4> QED
        BY <4>1 DEF PartAt
    <3> QED
      BY <3>1, <3>2 DEF Above
  <2> QED
    BY <1>2, <1>5, <2>1
<1> QED
  BY <1>3, <1>4, <1>5

LEMMA InvLabelsOrdered == IndInv => LabelsOrdered
<1> SUFFICES ASSUME IndInv, NEW x \in Ops, NEW y \in Ops, Intact(Key[x]),
                    Key[x] = Key[y], Indexed(x), Indexed(y), Val[x] < Val[y]
             PROVE  WordLess(label[y], label[x])
  BY DEF LabelsOrdered
<1>1. /\ status[x] = "placed" /\ status[y] = "placed"
      /\ label[x] = Label(pos[x]) /\ label[y] = Label(pos[y])
      /\ Len(pos[x]) < PathBits /\ Len(pos[y]) < PathBits
  BY DEF IndInv, LabelsFollowPlaces, Indexed
<1>2. /\ pos[x] \in Seq(Bit) /\ pos[y] \in Seq(Bit)
      /\ Val[x] \in Int /\ Val[y] \in Int
  BY OpsAssumption DEF IndInv, TypeOK
<1>3. pos[x] # pos[y]
  BY <1>1, <1>2 DEF IndInv, UniquePlaces
<1>4. PICK d \in Nat \ {0} : PartAt(pos[y], pos[x], d)
  BY <1>2, <1>3, PositionsPart
<1>5. \/ d <= Len(pos[y]) /\ d <= Len(pos[x]) /\ pos[y][d] = 0 /\ pos[x][d] = 1
      \/ d = Len(pos[x]) + 1 /\ d <= Len(pos[y]) /\ pos[y][d] = 0
      \/ d = Len(pos[y]) + 1 /\ d <= Len(pos[x]) /\ pos[x][d] = 1
  <2>1. CASE d <= Len(pos[y]) /\ d <= Len(pos[x])
    <3>1. Intact(Key[y])
      OBVIOUS
    <3>2. IF pos[y][d] = 0 THEN Val[y] > Val[x] /\ pos[x][d] = 1
                           ELSE Val[y] < Val[x] /\ pos[x][d] = 0
      BY <1>1, <1>4, <2>1, <3>1, ValuesPart
    <3> QED
      BY <1>2, <2>1, <3>2
  <2>2. CASE d = Len(pos[x]) + 1 /\ d <= Len(pos[y])
    BY <1>1, <1>2, <1>4, <2>2, ValuesPart
  <2>3. CASE d = Len(pos[y]) + 1 /\ d <= Len(pos[x])
    <3>1. pos[x][d] # 0
      BY <1>1, <1>2, <1>4, <2>3, ValuesPart
    <3>2. pos[x][d] \in Bit
      BY <1>2, <2>3
    <3> QED
      BY <2>3, <3>1, <3>2 DEF Bit
  <2> QED
    BY <1>4, <2>1, <2>2, <2>3 DEF PartAt
<1> QED
  BY <1>1, <1>2, <1>4, <1>5, LabelsLess

(***************************************************************************)
(* The labels of a table order its rows as the hidden values do, the       *)
(* largest first, as long as the node buffers are intact.                  *)
(***************************************************************************)
THEOREM Ordered == Spec => []LabelsOrdered
  BY InvLabelsOrdered, Inductive, PTL

LEMMA InvUniqueValues == IndInv => UniqueValues
<1> SUFFICES ASSUME IndInv, NEW x \in Ops, NEW y \in Ops, Intact(Key[x]), x # y,
                    Key[x] = Key[y], status[x] = "placed", status[y] = "placed"
             PROVE  Val[x] # Val[y]
  BY DEF UniqueValues
<1>1. /\ pos[x] \in Seq(Bit) /\ pos[y] \in Seq(Bit)
      /\ Val[x] \in Int /\ Val[y] \in Int
  BY OpsAssumption DEF IndInv, TypeOK
<1>2. pos[x] # pos[y]
  BY DEF IndInv, UniquePlaces
<1>3. PICK d \in Nat \ {0} : PartAt(pos[x], pos[y], d)
  BY <1>1, <1>2, PositionsPart
<1>4. \/ d <= Len(pos[x]) /\ d <= Len(pos[y])
      \/ d = Len(pos[x]) + 1 /\ d <= Len(pos[y])
      \/ d = Len(pos[y]) + 1 /\ d <= Len(pos[x])
  BY <1>3 DEF PartAt
<1> QED
  BY <1>1, <1>3, <1>4, ValuesPart

(***************************************************************************)
(* A value is in a tree once, as long as the node buffers are intact.      *)
(***************************************************************************)
THEOREM ValuesUnique == Spec => []UniqueValues
  BY InvUniqueValues, Inductive, PTL

(***************************************************************************)
(* Operations, places and labels are what they are declared to be.         *)
(***************************************************************************)
THEOREM Typed == Spec => []TypeOK
<1>1. IndInv => TypeOK
  BY DEF IndInv
<1> QED
  BY <1>1, Inductive, PTL
=============================================================================
