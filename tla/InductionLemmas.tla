-------------------------- MODULE InductionLemmas --------------------------
(***************************************************************************)
(* Induction in a form the provers can use, over a set of numbers instead  *)
(* of a predicate, what it gives about FlattenSeq, and facts about pieces  *)
(* of sequences.                                                           *)
(***************************************************************************)
EXTENDS Integers, Sequences, SequencesExt, SequenceTheorems, WellFoundedInduction, TLAPS

\* A set of naturals that is not empty has a least element.
LEMMA LeastNat ==
    ASSUME NEW T, T \subseteq Nat, T # {}
    PROVE  \E n \in T : \A m \in T : n <= m
<1> DEFINE R == OpToRel(<, Nat)
<1>1. IsWellFoundedOn(R, Nat)
  BY NatLessThanWellFounded
<1>2. \A x, y \in Nat : <<x, y>> \in R <=> x < y
  BY DEF OpToRel
<1> HIDE DEF R
<1>3. PICK n \in T : \A m \in T : ~ (<<m, n>> \in R)
  BY <1>1, WFMin
<1>4. ASSUME NEW m \in T
      PROVE  n <= m
  <2>1. n \in Nat /\ m \in Nat /\ ~ (m < n)
    BY <1>2, <1>3
  <2> QED
    BY <2>1
<1> QED
  BY <1>4

\* Induction: a set that holds 0 and with each number its successor holds
\* every number.
LEMMA SetInduction ==
    ASSUME NEW T, 0 \in T, \A n \in Nat : n \in T => n + 1 \in T
    PROVE  \A n \in Nat : n \in T
<1> DEFINE U == Nat \ T
<1> SUFFICES ASSUME U # {} PROVE FALSE
  OBVIOUS
<1>1. PICK n \in U : \A m \in U : n <= m
  BY LeastNat
<1>2. n # 0 /\ n - 1 \in Nat /\ n - 1 \notin U
  BY <1>1
<1> QED
  BY <1>2

----------------------------------------------------------------------------
\* f[i] is the concatenation of the first i elements of s.
Joins(f, s) == f = [i \in 1..Len(s) |-> IF i = 1 THEN s[i] ELSE f[i - 1] \o s[i]]

\* The function that FlattenSeq defines by recursion exists.
LEMMA JoinsExists ==
    ASSUME NEW S, NEW s \in Seq(Seq(S))
    PROVE  \E f : Joins(f, s)
<1> DEFINE Def(f, n) == f = [i \in 1..n |-> IF i = 1 THEN s[i] ELSE f[i - 1] \o s[i]]
           T == {n \in Nat : \E f : Def(f, n)}
<1>1. 0 \in T
  <2> DEFINE f == [i \in 1..0 |-> <<>>]
  <2>1. Def(f, 0)
    OBVIOUS
  <2> QED
    BY <2>1
<1>2. ASSUME NEW n \in Nat, n \in T
      PROVE  n + 1 \in T
  <2>1. PICK f : Def(f, n)
    BY <1>2
  <2> DEFINE g == [i \in 1..(n + 1) |->
                     IF i = n + 1 THEN IF i = 1 THEN s[i] ELSE f[n] \o s[i] ELSE f[i]]
  <2>2. ASSUME NEW i \in 1..(n + 1)
        PROVE  g[i] = IF i = 1 THEN s[i] ELSE g[i - 1] \o s[i]
    <3>1. CASE i = n + 1
      BY <3>1
    <3>2. CASE i # n + 1
      <4>1. i \in 1..n
        BY <3>2
      <4>2. f[i] = IF i = 1 THEN s[i] ELSE f[i - 1] \o s[i]
        BY <2>1, <4>1
      <4>3. g[i] = f[i] /\ (i # 1 => g[i - 1] = f[i - 1])
        BY <4>1
      <4> QED
        BY <4>2, <4>3
    <3> QED
      BY <3>1, <3>2
  <2>3. Def(g, n + 1)
    BY <2>2
  <2> HIDE DEF g, Def
  <2> QED
    BY <2>3
<1>3. Len(s) \in T
  <2> HIDE DEF T
  <2>1. \A n \in Nat : n \in T
    BY <1>1, <1>2, SetInduction, SMTT(30)
  <2> QED
    BY <2>1
<1> QED
  BY <1>3 DEF Joins

\* FlattenSeq of a sequence that is not empty is the last of its partial
\* concatenations.
LEMMA FlattenIsJoin ==
    ASSUME NEW S, NEW s \in Seq(Seq(S)), s # <<>>
    PROVE  \E f : Joins(f, s) /\ FlattenSeq(s) = f[Len(s)]
<1>1. Len(s) # 0
  BY EmptySeq
<1> DEFINE flatten == CHOOSE f : Joins(f, s)
<1>2. Joins(flatten, s)
  BY JoinsExists
<1>3. FlattenSeq(s) = flatten[Len(s)]
  BY <1>1 DEF FlattenSeq, Joins
<1> QED
  BY <1>2, <1>3

\* FlattenSeq of sequences over S is a sequence over S, and no shorter than
\* any of them.
LEMMA FlattenTyped ==
    ASSUME NEW S, NEW s \in Seq(Seq(S)), s # <<>>
    PROVE  /\ FlattenSeq(s) \in Seq(S)
           /\ \A j \in 1..Len(s) : Len(s[j]) <= Len(FlattenSeq(s))
<1>1. PICK f : Joins(f, s) /\ FlattenSeq(s) = f[Len(s)]
  BY FlattenIsJoin
<1>2. Len(s) \in Nat /\ Len(s) # 0 /\ \A i \in 1..Len(s) : s[i] \in Seq(S)
  BY EmptySeq
<1>3. \A i \in 1..Len(s) : f[i] = IF i = 1 THEN s[i] ELSE f[i - 1] \o s[i]
  BY <1>1 DEF Joins
<1> DEFINE T == {n \in Nat : n + 1 <= Len(s) =>
                   /\ f[n + 1] \in Seq(S)
                   /\ \A j \in 1..(n + 1) : Len(s[j]) <= Len(f[n + 1])}
<1>4. 0 \in T
  BY <1>2, <1>3
<1>5. ASSUME NEW n \in Nat, n \in T
      PROVE  n + 1 \in T
  <2> SUFFICES ASSUME n + 2 <= Len(s)
               PROVE  /\ f[n + 2] \in Seq(S)
                      /\ \A j \in 1..(n + 2) : Len(s[j]) <= Len(f[n + 2])
    OBVIOUS
  <2>1. n + 1 \in 1..Len(s) /\ n + 2 \in 1..Len(s) /\ n + 2 # 1 /\ (n + 2) - 1 = n + 1
    BY <1>2
  <2>2. f[n + 2] = f[n + 1] \o s[n + 2]
    BY <1>3, <2>1
  <2>3. f[n + 1] \in Seq(S) /\ \A j \in 1..(n + 1) : Len(s[j]) <= Len(f[n + 1])
    BY <1>2, <1>5
  <2>4. s[n + 2] \in Seq(S)
    BY <1>2, <2>1
  <2>5. /\ f[n + 2] \in Seq(S) /\ Len(f[n + 2]) = Len(f[n + 1]) + Len(s[n + 2])
        /\ Len(f[n + 1]) \in Nat /\ Len(s[n + 2]) \in Nat
    BY <2>2, <2>3, <2>4
  <2> DEFINE new == Len(f[n + 2])
             old == Len(f[n + 1])
             add == Len(s[n + 2])
  <2>6. /\ new = old + add /\ old \in Nat /\ add \in Nat
        /\ \A j \in 1..(n + 1) : Len(s[j]) <= old
    BY <2>3, <2>5
  <2> HIDE DEF new, old
  <2>7. ASSUME NEW j \in 1..(n + 2)
        PROVE  Len(s[j]) <= new
    <3>1. CASE j = n + 2
      <4> HIDE DEF add
      <4>1. add <= new
        BY <2>6
      <4> QED
        BY <3>1, <4>1 DEF add
    <3>2. CASE j # n + 2
      <4>1. j \in 1..(n + 1) /\ j \in 1..Len(s)
        BY <1>2, <2>1, <3>2
      <4>2. Len(s[j]) <= old /\ Len(s[j]) \in Nat
        BY <1>2, <2>6, <4>1
      <4> QED
        BY <2>6, <4>2
    <3> QED
      BY <3>1, <3>2
  <2> QED
    BY <2>5, <2>7 DEF new
<1>6. Len(s) - 1 \in T
  <2>1. Len(s) - 1 \in Nat
    BY <1>2
  <2> HIDE DEF T
  <2> QED
    BY <1>4, <1>5, <2>1, SetInduction
<1> QED
  BY <1>1, <1>2, <1>6

----------------------------------------------------------------------------
\* A piece of a list.
LEMMA PieceIs ==
    ASSUME NEW S, NEW L \in Seq(S), NEW m \in 1..(Len(L) + 1), NEW n \in (m - 1)..Len(L)
    PROVE  /\ SubSeq(L, m, n) \in Seq(S) /\ Len(SubSeq(L, m, n)) = n - m + 1
           /\ \A i \in 1..(n - m + 1) : SubSeq(L, m, n)[i] = L[m + i - 1]
  <1>1. Len(L) \in Nat /\ \A i \in 1..Len(L) : L[i] \in S
    BY ElementOfSeq
  <1>2. m \in Int /\ n \in Int /\ m <= n + 1
    BY <1>1
  <1>3. \A i \in m..n : L[i] \in S
    BY <1>1
  <1>4. /\ SubSeq(L, m, n) \in Seq(S)
        /\ Len(SubSeq(L, m, n)) = IF m <= n THEN n - m + 1 ELSE 0
        /\ \A i \in 1..(n - m + 1) : SubSeq(L, m, n)[i] = L[m + i - 1]
    BY <1>2, <1>3, SubSeqProperties
  <1> QED
    BY <1>2, <1>4

\* A function on 1..n is a sequence.
LEMMA OneOfSeq ==
    ASSUME NEW T, NEW n \in Nat, NEW g \in [1..n -> T]
    PROVE  g \in Seq(T) /\ Len(g) = n
  OBVIOUS

\* Sequences with the same cells are equal.
LEMMA SameCells ==
    ASSUME NEW S, NEW s \in Seq(S), NEW T, NEW t \in Seq(T), Len(s) = Len(t), \A i \in 1..Len(s) : s[i] = t[i]
    PROVE  s = t
  <1>1. s = [i \in 1..Len(s) |-> s[i]] /\ t = [i \in 1..Len(t) |-> t[i]]
    OBVIOUS
  <1> QED
    BY <1>1

\* Division with remainder.
LEMMA Quotient ==
    ASSUME NEW b \in Nat \ {0}, NEW x \in Nat
    PROVE  x \div b \in Nat /\ x % b \in 0..(b - 1) /\ x = (x \div b) * b + (x % b)
  OBVIOUS
=============================================================================
