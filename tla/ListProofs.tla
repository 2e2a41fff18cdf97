---------------------------- MODULE ListProofs -----------------------------
(***************************************************************************)
(* Facts about lists that the proofs about the driver and the virtual      *)
(* machine use, and induction over the natural numbers for sets.           *)
(***************************************************************************)
EXTENDS Lists, SequenceTheorems, WellFoundedInduction, TLAPS

\* A sequence of anything is a list.
LEMMA SeqIsList ==
  ASSUME NEW R, NEW s \in Seq(R)
  PROVE  IsList(s)
<1>1. s \in [1 .. Len(s) -> Range(s)] /\ Len(s) \in Nat
  BY DEF Range
<1> QED
  BY <1>1, SeqDef DEF IsList

\* Appending one list to another keeps both, one after the other.
LEMMA ListConcat ==
  ASSUME NEW s, NEW t, IsList(s), IsList(t)
  PROVE  /\ IsList(s \o t)
         /\ Len(s \o t) = Len(s) + Len(t)
         /\ \A i \in 1 .. Len(s) : (s \o t)[i] = s[i]
         /\ \A i \in 1 .. Len(t) : (s \o t)[Len(s) + i] = t[i]
         /\ DOMAIN (s \o t) = 1 .. Len(s) + Len(t)
<1> DEFINE R == Range(s) \cup Range(t)
<1>1. s \in Seq(R) /\ t \in Seq(R)
  BY DEF IsList
<1> HIDE DEF R
<1>2. s \o t \in Seq(R)
  BY <1>1
<1>3. IsList(s \o t)
  BY <1>2, SeqIsList
<1> QED
  BY <1>1, <1>2, <1>3

\* A list is what stands at its places.
LEMMA ListLength ==
  ASSUME NEW s, IsList(s)
  PROVE  Len(s) \in Nat /\ DOMAIN s = 1 .. Len(s)
BY DEF IsList

\* A list of one element.
LEMMA ListOfOne == ASSUME NEW x PROVE IsList(<<x>>) /\ Len(<<x>>) = 1
BY DEF IsList, Range

\* A list of two elements.
LEMMA ListOfTwo == ASSUME NEW x, NEW y PROVE IsList(<<x, y>>) /\ Len(<<x, y>>) = 2
BY DEF IsList, Range

\* The empty list.
LEMMA ListEmpty == IsList(<<>>) /\ Len(<<>>) = 0 /\ DOMAIN <<>> = {}
BY DEF IsList, Range

\* The part of a list up to where more is appended stays as it is.
LEMMA SubSeqOfPrefix ==
  ASSUME NEW s, NEW t, IsList(s), IsList(t),
         NEW a \in Nat \ {0}, NEW b \in Int, b <= Len(s)
  PROVE  SubSeq(s \o t, a, b) = SubSeq(s, a, b)
<1>1. \A i \in a .. b : (s \o t)[i] = s[i]
  BY ListConcat, ListLength
<1> QED
  BY <1>1, ListConcat, ListLength DEF IsList

\* The part of a list after its first part.
LEMMA SubSeqOfSuffix ==
  ASSUME NEW s, NEW t, IsList(s), IsList(t)
  PROVE  SubSeq(s \o t, Len(s) + 1, Len(s) + Len(t)) = t
<1> DEFINE u == SubSeq(s \o t, Len(s) + 1, Len(s) + Len(t))
<1>1. Len(s) \in Nat /\ Len(t) \in Nat
  BY ListLength
<1>2. u = [i \in 1 .. Len(t) |-> (s \o t)[Len(s) + 1 + i - 1]]
  BY <1>1, ListConcat
<1>3. \A i \in 1 .. Len(t) : (s \o t)[Len(s) + 1 + i - 1] = t[i]
  BY <1>1, ListConcat
<1>4. t = [i \in 1 .. Len(t) |-> t[i]]
  BY DEF IsList
<1> QED
  BY <1>2, <1>3, <1>4

\* push_back.
LEMMA ListAppend ==
  ASSUME NEW s, NEW x, IsList(s)
  PROVE  /\ IsList(Append(s, x))
         /\ Len(Append(s, x)) = Len(s) + 1
         /\ Append(s, x)[Len(s) + 1] = x
         /\ \A i \in 1 .. Len(s) : Append(s, x)[i] = s[i]
         /\ Append(s, x) = s \o <<x>>
<1> DEFINE R == Range(s) \cup {x}
<1>1. s \in Seq(R) /\ x \in R
  BY DEF IsList
<1> HIDE DEF R
<1>2. Append(s, x) \in Seq(R)
  BY <1>1
<1>3. IsList(Append(s, x))
  BY <1>2, SeqIsList
<1> QED
  BY <1>1, <1>3, AppendIsConcat

\* What is left of a list without its first element.
LEMMA TailIsList == ASSUME NEW s, IsList(s), s # <<>> PROVE IsList(Tail(s))
<1>1. Tail(s) \in Seq(Range(s))
  BY DEF IsList
<1> QED
  BY <1>1, SeqIsList

\* The first n elements of a list.
LEMMA ListPrefix ==
  ASSUME NEW s, IsList(s), NEW n \in Nat, n <= Len(s)
  PROVE  /\ IsList(SubSeq(s, 1, n))
         /\ Len(SubSeq(s, 1, n)) = n
         /\ \A i \in 1 .. n : SubSeq(s, 1, n)[i] = s[i]
<1>1. SubSeq(s, 1, n) = [i \in 1 .. n |-> s[i]]
  BY ListLength DEF IsList
<1>2. SubSeq(s, 1, n) \in Seq(Range(s)) /\ Len(SubSeq(s, 1, n)) = n
  BY DEF IsList
<1> QED
  BY <1>1, <1>2, SeqIsList

\* A list with one element replaced.
LEMMA ListExcept ==
  ASSUME NEW s, IsList(s), NEW i \in 1 .. Len(s), NEW x
  PROVE  /\ IsList([s EXCEPT ![i] = x])
         /\ Len([s EXCEPT ![i] = x]) = Len(s)
         /\ [s EXCEPT ![i] = x][i] = x
         /\ \A j \in 1 .. Len(s) : j # i => [s EXCEPT ![i] = x][j] = s[j]
<1> DEFINE R == Range(s) \cup {x}
<1>1. s \in Seq(R) /\ x \in R
  BY DEF IsList
<1> HIDE DEF R
<1>2. [s EXCEPT ![i] = x] \in Seq(R)
  BY <1>1
<1>3. IsList([s EXCEPT ![i] = x])
  BY <1>2, SeqIsList
<1>4. DOMAIN s = 1 .. Len(s) /\ s \in [1 .. Len(s) -> R]
  BY <1>1
<1>5. Len([s EXCEPT ![i] = x]) = Len(s)
  BY <1>1
<1>6. /\ [s EXCEPT ![i] = x][i] = x
      /\ \A j \in 1 .. Len(s) : j # i => [s EXCEPT ![i] = x][j] = s[j]
  BY <1>4
<1> QED
  BY <1>3, <1>5, <1>6

-----------------------------------------------------------------------------
\* Every set of natural numbers that is not empty has a least element.
LEMMA LeastNumber ==
  ASSUME NEW T, T \subseteq Nat, T # {}
  PROVE  \E x \in T : \A y \in T : ~(y < x)
<1>1. \E x \in T : \A y \in T : ~(<<y, x>> \in OpToRel(<, Nat))
  BY NatLessThanWellFounded, WFMin
<1> QED
  BY <1>1 DEF OpToRel

\* A set that contains 0 and with every number the next one contains them all.
LEMMA SetInduction ==
  ASSUME NEW S, 0 \in S, \A n \in Nat : n \in S => n + 1 \in S
  PROVE  Nat \subseteq S
<1> SUFFICES ASSUME NEW n \in Nat, n \notin S PROVE FALSE
  OBVIOUS
<1> DEFINE T == {m \in Nat : m \notin S}
<1>1. PICK x \in T : \A y \in T : ~(y < x)
  <2>1. T \subseteq Nat /\ T # {}
    OBVIOUS
  <2> HIDE DEF T
  <2> QED
    BY <2>1, LeastNumber
<1>2. x \in Nat /\ x # 0
  BY <1>1
<1>3. x - 1 \in Nat /\ x - 1 \in S
  BY <1>1, <1>2
<1> QED
  BY <1>1, <1>2, <1>3
=============================================================================
