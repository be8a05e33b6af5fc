--------------------------- MODULE SequenceFolds ---------------------------
(***************************************************************************)
(* Facts about FoldLeft of the community modules, for the proofs about     *)
(* lists that loops have built: induction on a number, the least and the   *)
(* largest of some indices, and the function behind a fold.  FoldLeft has  *)
(* an operator for a parameter, so each proof expands it for its own; what *)
(* it needs to know of the function is here.                               *)
(***************************************************************************)
EXTENDS SequencesExt, SequenceTheorems, WellFoundedInduction, TLAPS

(***************************************************************************)
(* Induction up to n, by the smallest number that is not in the set.       *)
(***************************************************************************)
LEMMA UpTo ==
    ASSUME NEW n \in Nat, NEW S, 0 \in S, \A k \in 1 .. n : k - 1 \in S => k \in S
    PROVE  \A k \in 0 .. n : k \in S
<1> DEFINE T == (0 .. n) \ S
           R == OpToRel(<, Nat)
<1>1. SUFFICES ASSUME T # {} PROVE FALSE
  OBVIOUS
<1>2. \A x, y \in Nat : x < y => <<x, y>> \in R
  BY DEF OpToRel
<1>3. IsWellFoundedOn(R, Nat)
  BY NatLessThanWellFounded
<1> HIDE DEF R
<1>a. T \subseteq 0 .. n /\ T \subseteq Nat /\ \A k \in 0 .. n : k \notin S => k \in T
  OBVIOUS
<1>b. T \cap S = {}
  OBVIOUS
<1> HIDE DEF T
<1>4. PICK m \in T : \A y \in T : ~ (<<y, m>> \in R)
  BY <1>1, <1>3, <1>a, WFMin
<1>5. m \in 1 .. n /\ m - 1 \in 0 .. n /\ m - 1 \in Nat /\ m \in Nat /\ m - 1 < m
  BY <1>4, <1>a, <1>b
<1>6. m - 1 \notin T
  BY <1>2, <1>4, <1>5
<1> QED BY <1>4, <1>5, <1>6, <1>a, <1>b

(***************************************************************************)
(* FoldLeft is defined with a function on the sets of indices of seq.      *)
(***************************************************************************)
LEMMA LastIndex ==
    ASSUME NEW k \in Nat \ {0}
    PROVE  Max(1 .. k) = k /\ (1 .. k) \ {k} = 1 .. (k - 1)
<1>1. k \in 1 .. k /\ \A y \in 1 .. k : k >= y
  OBVIOUS
<1>2. \A x \in 1 .. k : (\A y \in 1 .. k : x >= y) => x = k
  BY <1>1
<1>3. Max(1 .. k) = k
  BY <1>1, <1>2 DEF Max
<1> QED BY <1>3

IsFold(it, step, base, seq) ==
    it = [s \in SUBSET (DOMAIN seq) |->
            IF s = {} THEN base ELSE step[it[s \ {Max(s)}], seq[Max(s)]]]

\* Such a function exists.
LEMMA FoldExists ==
    ASSUME NEW T, NEW P, NEW step \in [T \X P -> T], NEW base \in T, NEW seq \in Seq(P)
    PROVE  \E it : /\ IsFold(it, step, base, seq)
                   /\ \A s \in SUBSET (DOMAIN seq) : it[s] \in T
<1> DEFINE Good(it, k) == /\ it = [s \in SUBSET (1 .. k) |->
                                IF s = {} THEN base ELSE step[it[s \ {Max(s)}], seq[Max(s)]]]
                          /\ \A s \in SUBSET (1 .. k) : it[s] \in T
           n == Len(seq)
           S == {k \in 0 .. n : \E it : Good(it, k)}
<1>1. n \in Nat /\ DOMAIN seq = 1 .. n
  OBVIOUS
<1>2. 0 \in S
  <2> DEFINE it == [s \in SUBSET (1 .. 0) |-> base]
  <2>1. \A s \in SUBSET (1 .. 0) : s = {}
    OBVIOUS
  <2>2. it = [s \in SUBSET (1 .. 0) |->
                IF s = {} THEN base ELSE step[it[s \ {Max(s)}], seq[Max(s)]]]
    BY <2>1
  <2>3. \A s \in SUBSET (1 .. 0) : it[s] \in T
    OBVIOUS
  <2>4. Good(it, 0)
    BY <2>2, <2>3
  <2> HIDE DEF Good, it
  <2> QED BY <1>1, <2>4
<1>3. ASSUME NEW k \in 1 .. n, k - 1 \in S PROVE k \in S
  <2>1. PICK g : Good(g, k - 1)
    BY <1>3
  <2>a. k \in Nat \ {0} /\ seq[k] \in P
    BY <1>1
  <2> DEFINE it == [s \in SUBSET (1 .. k) |->
                       IF k \in s THEN step[g[s \ {k}], seq[k]] ELSE g[s]]
  <2>2. \A s \in SUBSET (1 .. k) : s \ {k} \in SUBSET (1 .. (k - 1))
    BY <2>a
  <2>3. \A s \in SUBSET (1 .. (k - 1)) : it[s] = g[s] /\ g[s] \in T
    <3>1. \A s \in SUBSET (1 .. (k - 1)) : s \in SUBSET (1 .. k) /\ k \notin s
      BY <2>a
    <3>2. \A s \in SUBSET (1 .. (k - 1)) : g[s] \in T
      BY <2>1
    <3> QED BY <3>1, <3>2
  <2>4. ASSUME NEW s \in SUBSET (1 .. k)
        PROVE  /\ it[s] = IF s = {} THEN base ELSE step[it[s \ {Max(s)}], seq[Max(s)]]
               /\ it[s] \in T
    <3>1. CASE k \in s
      <4>1. Max(s) = k
        <5>1. \A y \in s : k >= y
          BY <2>a
        <5>2. \A x \in s : (\A y \in s : x >= y) => x = k
          BY <2>a, <3>1
        <5> QED BY <3>1, <5>1, <5>2 DEF Max
      <4>2. it[s \ {k}] = g[s \ {k}] /\ g[s \ {k}] \in T
        BY <2>2, <2>3
      <4>3. it[s] = step[g[s \ {k}], seq[k]]
        BY <3>1
      <4>4. it[s] \in T
        BY <4>2, <4>3, <2>a
      <4> HIDE DEF it
      <4> QED BY <3>1, <4>1, <4>2, <4>3, <4>4
    <3>2. CASE k \notin s
      <4>1. s \in SUBSET (1 .. (k - 1)) /\ s \ {Max(s)} \in SUBSET (1 .. (k - 1))
        BY <2>2, <3>2
      <4>2. it[s] = g[s] /\ it[s \ {Max(s)}] = g[s \ {Max(s)}] /\ g[s] \in T
        BY <2>3, <4>1
      <4>3. g[s] = IF s = {} THEN base ELSE step[g[s \ {Max(s)}], seq[Max(s)]]
        BY <2>1, <4>1
      <4> HIDE DEF it
      <4> QED BY <4>2, <4>3
    <3> QED BY <3>1, <3>2
  <2>5. Good(it, k)
    <3>1. it = [s \in SUBSET (1 .. k) |-> it[s]]
      OBVIOUS
    <3> HIDE DEF it
    <3> QED BY <2>4, <3>1
  <2> HIDE DEF Good, it
  <2> QED BY <2>5
<1> HIDE DEF Good
<1>4. n \in S
  <2> HIDE DEF S
  <2>1. \A k \in 0 .. n : k \in S
    BY <1>1, <1>2, <1>3, UpTo
  <2> QED BY <1>1, <2>1
<1>5. PICK it : Good(it, n)
  BY <1>4
<1>6. IsFold(it, step, base, seq) /\ \A s \in SUBSET (DOMAIN seq) : it[s] \in T
  BY <1>1, <1>5 DEF Good, IsFold
<1> QED BY <1>6

\* A set of indices that is not empty has a least member.
LEMMA Least ==
    ASSUME NEW n \in Nat, NEW I \in SUBSET (1 .. n), I # {}
    PROVE  Min(I) \in I /\ \A j \in I : Min(I) <= j
<1>1. ASSUME \A i \in I : \E j \in I : j < i PROVE FALSE
  <2> DEFINE S == {k \in 0 .. n : \A i \in I : k < i}
  <2>1. 0 \in S
    OBVIOUS
  <2>2. ASSUME NEW k \in 1 .. n, k - 1 \in S PROVE k \in S
    <3>1. \A i \in I : k - 1 < i
      BY <2>2
    <3>2. \A i \in I : k <= i
      BY <3>1
    <3>3. k \notin I
      BY <1>1, <3>2
    <3> QED BY <3>2, <3>3
  <2> HIDE DEF S
  <2>3. n \in S
    BY <2>1, <2>2, UpTo
  <2>4. \A i \in I : n < i
    BY <2>3 DEF S
  <2>5. PICK x \in I : x \in 1 .. n
    OBVIOUS
  <2> QED BY <2>4, <2>5
<1>2. PICK i \in I : \A j \in I : ~ (j < i)
  BY <1>1
<1>3. \A j \in I : i <= j
  BY <1>2
<1> QED BY <1>3 DEF Min

\* A set of indices that is not empty has a largest member.
LEMMA LargestIn ==
    ASSUME NEW n \in Nat, NEW s \in SUBSET (1 .. n), s # {}
    PROVE  Max(s) \in s /\ Max(s) \in 1 .. n
<1> DEFINE S == {k \in 0 .. n : \A t \in SUBSET (1 .. k) : t # {} => \E x \in t : \A y \in t : x >= y}
<1>1. 0 \in S
  <2>1. \A t \in SUBSET (1 .. 0) : t = {}
    OBVIOUS
  <2>2. \A t \in SUBSET (1 .. 0) : t # {} => \E x \in t : \A y \in t : x >= y
    BY <2>1
  <2> QED BY <2>2
<1>2. ASSUME NEW k \in 1 .. n, k - 1 \in S PROVE k \in S
  <2> SUFFICES ASSUME NEW t \in SUBSET (1 .. k), t # {} PROVE \E x \in t : \A y \in t : x >= y
    BY <1>2
  <2>1. CASE k \in t
    BY <2>1
  <2>2. CASE k \notin t
    <3>1. t \in SUBSET (1 .. (k - 1))
      BY <2>2
    <3> QED BY <1>2, <3>1
  <2> QED BY <2>1, <2>2
<1> HIDE DEF S
<1>3. n \in S
  <2>1. \A k \in 0 .. n : k \in S
    BY <1>1, <1>2, UpTo
  <2> QED BY <2>1
<1>4. \E x \in s : \A y \in s : x >= y
  BY <1>3 DEF S
<1>5. Max(s) \in s
  BY <1>4 DEF Max
<1> QED BY <1>5
=============================================================================
