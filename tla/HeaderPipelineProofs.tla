------------------------ MODULE HeaderPipelineProofs ------------------------
(***************************************************************************)
(* Proofs about the headers of a request, for lists of any length, any     *)
(* names and values and any number of threads that change client.headers.  *)
(***************************************************************************)
EXTENDS HeaderPipeline, SequenceFolds

-----------------------------------------------------------------------------
(***************************************************************************)
(* Lists of pairs: the first and the last pair of a name.                  *)
(***************************************************************************)
Lists == Seq(Pairs)

LEMMA Elements ==
    ASSUME NEW h \in Lists
    PROVE  /\ Len(h) \in Nat /\ DOMAIN h = 1 .. Len(h)
           /\ \A i \in DOMAIN h : h[i] \in Pairs /\ h[i][1] \in Names /\ h[i][2] \in Values
           /\ NamesOf(h) \subseteq Names
<1>1. Len(h) \in Nat /\ DOMAIN h = 1 .. Len(h) /\ \A i \in DOMAIN h : h[i] \in Pairs
  BY DEF Lists
<1>2. \A i \in DOMAIN h : h[i][1] \in Names /\ h[i][2] \in Values
  BY <1>1 DEF Pairs
<1> QED BY <1>1, <1>2 DEF NamesOf

\* The index that SelectInSeq finds.
FirstIndex(h, n) == Min({i \in 1 .. Len(h) : h[i][1] = n})

LEMMA FirstIndexIs ==
    ASSUME NEW h \in Lists, NEW n \in NamesOf(h)
    PROVE  /\ FirstIndex(h, n) \in DOMAIN h /\ h[FirstIndex(h, n)][1] = n
           /\ \A j \in DOMAIN h : h[j][1] = n => FirstIndex(h, n) <= j
           /\ SelectInSeq(h, LAMBDA p : p[1] = n) = FirstIndex(h, n)
           /\ FirstValue(h, n) = h[FirstIndex(h, n)][2]
<1> DEFINE I == {i \in 1 .. Len(h) : h[i][1] = n}
<1>1. Len(h) \in Nat /\ DOMAIN h = 1 .. Len(h)
  BY Elements
<1>2. I # {} /\ I \in SUBSET (1 .. Len(h))
  BY <1>1 DEF NamesOf
<1>3. Min(I) \in I /\ \A j \in I : Min(I) <= j
  BY <1>1, <1>2, Least
<1>4. SelectInSeq(h, LAMBDA p : p[1] = n) = Min(I)
  BY <1>2 DEF SelectInSeq
<1>5. FirstValue(h, n) = h[Min(I)][2]
  BY <1>4 DEF FirstValue
<1> QED BY <1>1, <1>3, <1>4, <1>5 DEF FirstIndex

LEMMA FirstValueIs ==
    ASSUME NEW h \in Lists, NEW i \in DOMAIN h, \A j \in DOMAIN h : h[j][1] = h[i][1] => i <= j
    PROVE  FirstValue(h, h[i][1]) = h[i][2]
<1> DEFINE n == h[i][1]
           k == FirstIndex(h, n)
<1>1. n \in NamesOf(h)
  BY DEF NamesOf
<1>2. k \in DOMAIN h /\ h[k][1] = n /\ k <= i /\ FirstValue(h, n) = h[k][2]
  BY <1>1, FirstIndexIs
<1>3. i <= k
  BY <1>2
<1>4. i \in Nat /\ k \in Nat
  BY <1>2, Elements
<1>5. k = i
  BY <1>2, <1>3, <1>4
<1> QED BY <1>2, <1>5

LEMMA ReversedList ==
    ASSUME NEW h \in Lists
    PROVE  /\ Reverse(h) \in Lists /\ DOMAIN Reverse(h) = DOMAIN h
           /\ \A i \in DOMAIN h : /\ Len(h) - i + 1 \in DOMAIN h
                                  /\ Reverse(h)[i] = h[Len(h) - i + 1]
                                  /\ Reverse(h)[Len(h) - i + 1] = h[i]
           /\ NamesOf(Reverse(h)) = NamesOf(h)
<1> DEFINE n == Len(h)
           r == Reverse(h)
<1>1. n \in Nat /\ DOMAIN h = 1 .. n /\ \A i \in 1 .. n : h[i] \in Pairs
  BY Elements
<1>2. r = [i \in 1 .. n |-> h[(n - i) + 1]]
  BY DEF Reverse
<1> HIDE DEF r, n
<1>3. \A i \in 1 .. n : n - i + 1 \in 1 .. n /\ n - (n - i + 1) + 1 = i
  BY <1>1
<1>4. \A i \in 1 .. n : r[i] = h[n - i + 1]
  BY <1>2
<1>5. \A i \in 1 .. n : r[n - i + 1] = h[i]
  BY <1>3, <1>4
<1>6. r \in Seq(Pairs) /\ DOMAIN r = 1 .. n
  BY <1>1, <1>2, <1>3
<1>7. NamesOf(r) = NamesOf(h)
  BY <1>1, <1>3, <1>4, <1>5, <1>6 DEF NamesOf
<1> QED BY <1>1, <1>3, <1>4, <1>5, <1>6, <1>7 DEF Lists, r, n

LEMMA LastValueIs ==
    ASSUME NEW h \in Lists, NEW i \in DOMAIN h, \A j \in DOMAIN h : h[j][1] = h[i][1] => j <= i
    PROVE  LastValue(h, h[i][1]) = h[i][2]
<1> DEFINE r == Reverse(h)
           k == Len(h) - i + 1
<1>1. Len(h) \in Nat /\ DOMAIN h = 1 .. Len(h) /\ i \in Nat
  BY Elements
<1>2. r \in Lists /\ k \in DOMAIN r /\ r[k] = h[i] /\ DOMAIN r = DOMAIN h
  BY ReversedList
<1>3. ASSUME NEW j \in DOMAIN r, r[j][1] = r[k][1] PROVE k <= j
  <2>1. Len(h) - j + 1 \in DOMAIN h /\ r[j] = h[Len(h) - j + 1]
    BY <1>2, ReversedList
  <2>2. Len(h) - j + 1 <= i
    BY <1>2, <1>3, <2>1
  <2> QED BY <1>1, <1>2, <2>2
<1> HIDE DEF r, k
<1>4. FirstValue(r, r[k][1]) = r[k][2]
  BY <1>2, <1>3, FirstValueIs
<1> QED BY <1>2, <1>4 DEF LastValue, r

LEMMA LastOccurs ==
    ASSUME NEW h \in Lists, NEW n \in NamesOf(h)
    PROVE  \E i \in DOMAIN h : /\ h[i][1] = n /\ LastValue(h, n) = h[i][2]
                               /\ \A j \in DOMAIN h : h[j][1] = n => j <= i
<1> DEFINE r == Reverse(h)
           k == FirstIndex(r, n)
           i == Len(h) - k + 1
<1>1. r \in Lists /\ n \in NamesOf(r) /\ DOMAIN r = DOMAIN h
  BY ReversedList
<1>2. k \in DOMAIN r /\ r[k][1] = n /\ \A j \in DOMAIN r : r[j][1] = n => k <= j
  BY <1>1, FirstIndexIs
<1>3. Len(h) \in Nat /\ DOMAIN h = 1 .. Len(h)
  BY Elements
<1>4. i \in DOMAIN h /\ r[k] = h[i]
  BY <1>1, <1>2, ReversedList
<1>5. ASSUME NEW j \in DOMAIN h, h[j][1] = n PROVE j <= i
  <2>1. Len(h) - j + 1 \in DOMAIN r /\ r[Len(h) - j + 1] = h[j]
    BY <1>1, ReversedList
  <2>2. k <= Len(h) - j + 1
    BY <1>2, <1>5, <2>1
  <2> QED BY <1>1, <1>2, <1>3, <2>2
<1> HIDE DEF r, k, i
<1>6. h[i][1] = n
  BY <1>2, <1>4
<1>7. LastValue(h, n) = h[i][2]
  BY <1>4, <1>5, <1>6, LastValueIs
<1> QED BY <1>4, <1>5, <1>6, <1>7

LEMMA Absent ==
    ASSUME NEW h \in Lists, NEW n, n \notin NamesOf(h)
    PROVE  FirstValue(h, n) = NoValue /\ LastValue(h, n) = NoValue
  BY ReversedList DEF FirstValue, LastValue

LEMMA ValuesAreValues ==
    ASSUME NEW h \in Lists, NEW m \in NamesOf(h)
    PROVE  FirstValue(h, m) \in Values /\ LastValue(h, m) \in Values
<1>1. FirstValue(h, m) \in Values
  <2>1. FirstIndex(h, m) \in DOMAIN h /\ FirstValue(h, m) = h[FirstIndex(h, m)][2]
    BY FirstIndexIs
  <2> QED BY <2>1, Elements
<1>2. LastValue(h, m) \in Values
  BY LastOccurs, Elements
<1> QED BY <1>1, <1>2

LEMMA Appended ==
    ASSUME NEW h \in Lists, NEW p \in Pairs
    PROVE  /\ Append(h, p) \in Lists
           /\ NamesOf(Append(h, p)) = NamesOf(h) \cup {p[1]}
           /\ LastValue(Append(h, p), p[1]) = p[2]
           /\ \A m : m # p[1] => LastValue(Append(h, p), m) = LastValue(h, m)
<1> DEFINE a == Append(h, p)
           n == Len(h)
<1>1. n \in Nat /\ DOMAIN h = 1 .. n
  BY Elements
<1>2. /\ a \in Lists /\ DOMAIN a = 1 .. (n + 1) /\ a[n + 1] = p
      /\ \A i \in 1 .. n : a[i] = h[i]
  BY DEF Lists
<1> HIDE DEF a, n
<1>3. NamesOf(a) = NamesOf(h) \cup {p[1]}
  <2>1. n + 1 \in DOMAIN a /\ \A i \in DOMAIN a : i = n + 1 \/ i \in DOMAIN h
    BY <1>1, <1>2
  <2>2. DOMAIN h \subseteq DOMAIN a /\ \A i \in DOMAIN h : a[i] = h[i]
    BY <1>1, <1>2
  <2> QED BY <2>1, <2>2, <1>2 DEF NamesOf
<1>4. LastValue(a, p[1]) = p[2]
  <2>1. n + 1 \in DOMAIN a /\ \A j \in DOMAIN a : j <= n + 1
    BY <1>1, <1>2
  <2>2. LastValue(a, a[n + 1][1]) = a[n + 1][2]
    BY <1>2, <2>1, LastValueIs
  <2> QED BY <1>2, <2>2
<1>5. ASSUME NEW m, m # p[1] PROVE LastValue(a, m) = LastValue(h, m)
  <2>1. CASE m \in NamesOf(h)
    <3>1. PICK i \in DOMAIN h : /\ h[i][1] = m /\ LastValue(h, m) = h[i][2]
                                /\ \A j \in DOMAIN h : h[j][1] = m => j <= i
      BY <2>1, LastOccurs
    <3>2. i \in DOMAIN a /\ a[i] = h[i]
      BY <1>1, <1>2
    <3>3. ASSUME NEW j \in DOMAIN a, a[j][1] = m PROVE j <= i
      <4>1. j # n + 1
        BY <1>2, <1>5, <3>3
      <4>2. j \in DOMAIN h /\ a[j] = h[j]
        BY <1>1, <1>2, <4>1
      <4> QED BY <3>1, <3>3, <4>2
    <3>4. LastValue(a, a[i][1]) = a[i][2]
      BY <1>2, <3>1, <3>2, <3>3, LastValueIs
    <3> QED BY <3>1, <3>2, <3>4
  <2>2. CASE m \notin NamesOf(h)
    <3>1. m \notin NamesOf(a)
      BY <1>3, <1>5, <2>2
    <3> QED BY <1>2, <2>2, <3>1, Absent
  <2> QED BY <2>1, <2>2
<1> QED BY <1>2, <1>3, <1>4, <1>5 DEF a

\* A list up to its k-th pair.
Pre(h, k) == SubSeq(h, 1, k)

LEMMA UpToPair ==
    ASSUME NEW h \in Lists
    PROVE  /\ Pre(h, 0) = <<>> /\ Pre(h, Len(h)) = h
           /\ \A k \in 0 .. Len(h) : Pre(h, k) \in Lists
           /\ \A k \in 1 .. Len(h) : Pre(h, k) = Append(Pre(h, k - 1), h[k])
<1>1. Len(h) \in Nat /\ h \in Seq(Pairs) /\ DOMAIN h = 1 .. Len(h)
  BY Elements DEF Lists
<1>2. ASSUME NEW k \in 0 .. Len(h)
      PROVE  /\ Pre(h, k) \in Seq(Pairs) /\ Len(Pre(h, k)) = k
             /\ \A i \in 1 .. k : Pre(h, k)[i] = h[i]
  BY <1>1 DEF Pre
<1>3. ASSUME NEW k \in 1 .. Len(h)
      PROVE  Pre(h, k) = Append(Pre(h, k - 1), h[k])
  <2> DEFINE b == Pre(h, k - 1)
             c == Pre(h, k)
  <2>1. /\ k \in Nat /\ h[k] \in Pairs
        /\ b \in Seq(Pairs) /\ Len(b) = k - 1 /\ \A i \in 1 .. (k - 1) : b[i] = h[i]
        /\ c \in Seq(Pairs) /\ Len(c) = k /\ \A i \in 1 .. k : c[i] = h[i]
    <3>1. k - 1 \in 0 .. Len(h) /\ k \in 0 .. Len(h) /\ k \in Nat /\ h[k] \in Pairs
      BY <1>1
    <3> QED BY <1>2, <3>1
  <2> HIDE DEF b, c
  <2>2. Append(b, h[k]) \in Seq(Pairs) /\ Len(Append(b, h[k])) = k
        /\ \A i \in 1 .. k : Append(b, h[k])[i] = h[i]
    BY <2>1
  <2>3. c = Append(b, h[k])
    BY <2>1, <2>2, SeqEqual
  <2> QED BY <2>3 DEF b, c
<1>4. Pre(h, 0) = <<>> /\ Pre(h, Len(h)) = h
  <2>1. Len(h) \in 0 .. Len(h) /\ 0 \in 0 .. Len(h)
    BY <1>1
  <2>2. Pre(h, Len(h)) = h
    BY <1>1, <1>2, <2>1, SeqEqual
  <2>3. Pre(h, 0) \in Seq(Pairs) /\ Len(Pre(h, 0)) = 0
    BY <1>2, <2>1
  <2>4. Pre(h, 0) = <<>>
    BY <2>3, EmptySeq
  <2> QED BY <2>2, <2>4
<1>5. \A k \in 0 .. Len(h) : Pre(h, k) \in Lists
  BY <1>2 DEF Lists
<1>6. \A k \in 1 .. Len(h) : Pre(h, k) = Append(Pre(h, k - 1), h[k])
  BY <1>3
<1> QED BY <1>4, <1>5, <1>6

-----------------------------------------------------------------------------
(***************************************************************************)
(* The folds, pair by pair.                                                *)
(***************************************************************************)
LEMMA WithoutIs ==
    ASSUME NEW h \in Lists, NEW n
    PROVE  \E f : /\ f[0] = <<>> /\ f[Len(h)] = Without(h, n)
                  /\ \A k \in 0 .. Len(h) : f[k] \in Lists
                  /\ \A k \in 1 .. Len(h) :
                        f[k] = IF h[k][1] = n THEN f[k - 1] ELSE Append(f[k - 1], h[k])
<1> DEFINE step == [x \in Lists \X Pairs |-> IF x[2][1] = n THEN x[1] ELSE Append(x[1], x[2])]
           Iterates(it) == it = [s \in SUBSET (DOMAIN h) |->
                                    IF s = {} THEN <<>>
                                    ELSE IF h[Max(s)][1] = n THEN it[s \ {Max(s)}]
                                         ELSE Append(it[s \ {Max(s)}], h[Max(s)])]
           it == CHOOSE it : Iterates(it)
<1>a. h \in Seq(Pairs) /\ <<>> \in Lists /\ Len(h) \in Nat /\ DOMAIN h = 1 .. Len(h)
  BY Elements DEF Lists
<1>1. step \in [Lists \X Pairs -> Lists]
  BY DEF Lists
<1> HIDE DEF step
<1>2. PICK g : /\ IsFold(g, step, <<>>, h)
               /\ \A s \in SUBSET (DOMAIN h) : g[s] \in Lists
  BY <1>1, <1>a, FoldExists
<1>3. Iterates(g)
  <2>1. ASSUME NEW s \in SUBSET (DOMAIN h), s # {}
        PROVE  g[s \ {Max(s)}] \in Lists /\ h[Max(s)] \in Pairs
    BY <1>2, <1>a, <2>1, Elements, LargestIn
  <2>2. ASSUME NEW s \in SUBSET (DOMAIN h), s # {}
        PROVE  step[g[s \ {Max(s)}], h[Max(s)]] =
                   IF h[Max(s)][1] = n THEN g[s \ {Max(s)}]
                   ELSE Append(g[s \ {Max(s)}], h[Max(s)])
    BY <2>1, <2>2 DEF step
  <2> QED BY <1>2, <2>2 DEF IsFold
<1> HIDE DEF Iterates
<1>4. Iterates(it)
  BY <1>3
<1>5. Without(h, n) = it[DOMAIN h]
  BY DEF Without, FoldLeft, MapThenFoldSet, Iterates
<1> HIDE DEF it
<1> DEFINE f == [k \in 0 .. Len(h) |-> it[1 .. k]]
<1>6. f[0] = <<>>
  <2>1. it[{}] = <<>>
    BY <1>4 DEF Iterates
  <2>2. 1 .. 0 = {}
    OBVIOUS
  <2> QED BY <1>a, <2>1, <2>2
<1>7. f[Len(h)] = Without(h, n)
  BY <1>5, <1>a
<1>8. ASSUME NEW k \in 1 .. Len(h)
      PROVE  f[k] = IF h[k][1] = n THEN f[k - 1] ELSE Append(f[k - 1], h[k])
  <2>1. k \in Nat \ {0} /\ k \in 1 .. k /\ 1 .. k \in SUBSET (DOMAIN h)
    BY <1>a
  <2>2. Max(1 .. k) = k /\ (1 .. k) \ {k} = 1 .. (k - 1)
    BY <2>1, LastIndex
  <2>3. it[1 .. k] = IF h[k][1] = n THEN it[1 .. (k - 1)] ELSE Append(it[1 .. (k - 1)], h[k])
    BY <1>4, <2>1, <2>2 DEF Iterates
  <2>4. f[k] = it[1 .. k] /\ f[k - 1] = it[1 .. (k - 1)]
    BY <1>a
  <2> QED BY <2>3, <2>4
<1> HIDE DEF f
<1>9. \A k \in 0 .. Len(h) : f[k] \in Lists
  <2> DEFINE S == {k \in 0 .. Len(h) : f[k] \in Lists}
  <2>1. 0 \in S
    BY <1>6, <1>a
  <2>2. ASSUME NEW k \in 1 .. Len(h), k - 1 \in S PROVE k \in S
    <3>1. f[k - 1] \in Lists /\ h[k] \in Pairs
      BY <1>a, <2>2
    <3>2. Append(f[k - 1], h[k]) \in Lists
      BY <3>1 DEF Lists
    <3>3. f[k] \in Lists
      BY <1>8, <3>1, <3>2
    <3> QED BY <3>3
  <2> HIDE DEF S
  <2>3. \A k \in 0 .. Len(h) : k \in S
    BY <1>a, <2>1, <2>2, UpTo
  <2> QED BY <2>3 DEF S
<1> QED BY <1>6, <1>7, <1>8, <1>9

-----------------------------------------------------------------------------
(***************************************************************************)
(* What the operations on lists and the merges do to the values, to the    *)
(* order of the names, and to lists without duplicates.                    *)
(***************************************************************************)
Unique(h) == \A i, j \in DOMAIN h : h[i][1] = h[j][1] => i = j

LEMMA AppendedUnique ==
    ASSUME NEW h \in Lists, NEW p \in Pairs
    PROVE  Unique(Append(h, p)) <=> Unique(h) /\ p[1] \notin NamesOf(h)
<1> DEFINE a == Append(h, p)
           n == Len(h)
<1>1. n \in Nat /\ DOMAIN h = 1 .. n
  BY Elements
<1>2. DOMAIN a = 1 .. (n + 1) /\ a[n + 1] = p /\ \A i \in 1 .. n : a[i] = h[i]
  BY DEF Lists
<1> HIDE DEF a, n
<1>3. /\ n + 1 \in DOMAIN a /\ n + 1 \notin DOMAIN h
      /\ DOMAIN a = DOMAIN h \cup {n + 1} /\ \A i \in DOMAIN h : a[i] = h[i]
  BY <1>1, <1>2
<1>4. ASSUME Unique(a) PROVE Unique(h)
  <2> SUFFICES ASSUME NEW i \in DOMAIN h, NEW j \in DOMAIN h, h[i][1] = h[j][1] PROVE i = j
    BY DEF Unique
  <2>1. i \in DOMAIN a /\ j \in DOMAIN a /\ a[i][1] = a[j][1]
    BY <1>3
  <2> QED BY <1>4, <2>1 DEF Unique
<1>5. ASSUME Unique(a), p[1] \in NamesOf(h) PROVE FALSE
  <2>1. PICK i \in DOMAIN h : h[i][1] = p[1]
    BY <1>5 DEF NamesOf
  <2>2. i \in DOMAIN a /\ a[i][1] = a[n + 1][1] /\ i # n + 1
    BY <1>2, <1>3, <2>1
  <2> QED BY <1>3, <1>5, <2>2 DEF Unique
<1>6. ASSUME Unique(h), p[1] \notin NamesOf(h) PROVE Unique(a)
  <2> SUFFICES ASSUME NEW i \in DOMAIN a, NEW j \in DOMAIN a, a[i][1] = a[j][1] PROVE i = j
    BY DEF Unique
  <2>1. \A k \in DOMAIN h : a[k][1] # p[1]
    BY <1>3, <1>6 DEF NamesOf
  <2>2. CASE i \in DOMAIN h /\ j \in DOMAIN h
    BY <1>3, <1>6, <2>2 DEF Unique
  <2>3. CASE ~ (i \in DOMAIN h /\ j \in DOMAIN h)
    BY <1>2, <1>3, <2>1, <2>3
  <2> QED BY <2>2, <2>3
<1> QED BY <1>4, <1>5, <1>6 DEF a

LEMMA AppendedOnce ==
    ASSUME NEW h \in Lists, NEW p \in Pairs
    PROVE  /\ p[1] \notin NamesOf(h) => Once(Append(h, p), p[1])
           /\ \A m : m # p[1] => (Once(Append(h, p), m) <=> Once(h, m))
<1> DEFINE a == Append(h, p)
           n == Len(h)
<1>1. n \in Nat /\ DOMAIN h = 1 .. n
  BY Elements
<1>2. DOMAIN a = 1 .. (n + 1) /\ a[n + 1] = p /\ \A i \in 1 .. n : a[i] = h[i]
  BY DEF Lists
<1> HIDE DEF a, n
<1>3. DOMAIN a = DOMAIN h \cup {n + 1} /\ \A i \in DOMAIN h : a[i] = h[i]
  BY <1>1, <1>2
<1>4. ASSUME p[1] \notin NamesOf(h) PROVE Once(a, p[1])
  <2>1. \A i \in DOMAIN h : a[i][1] # p[1]
    BY <1>3, <1>4 DEF NamesOf
  <2> QED BY <1>3, <2>1 DEF Once
<1>5. ASSUME NEW m, m # p[1] PROVE Once(a, m) <=> Once(h, m)
  <2>1. a[n + 1][1] # m
    BY <1>2, <1>5
  <2> QED BY <1>3, <2>1 DEF Once
<1> QED BY <1>4, <1>5 DEF a

LEMMA OnceAppended ==
    ASSUME NEW h \in Lists, NEW p \in Pairs, Once(Append(h, p), p[1])
    PROVE  p[1] \notin NamesOf(h)
<1>1. SUFFICES ASSUME NEW i \in DOMAIN h, h[i][1] = p[1] PROVE FALSE
  BY DEF NamesOf
<1>2. Len(h) \in Nat /\ DOMAIN h = 1 .. Len(h)
  BY Elements
<1>3. /\ Len(h) + 1 \in DOMAIN Append(h, p) /\ Append(h, p)[Len(h) + 1] = p
      /\ i \in DOMAIN Append(h, p) /\ Append(h, p)[i] = h[i] /\ i # Len(h) + 1
  BY <1>2 DEF Lists
<1> QED BY <1>1, <1>3 DEF Once

LEMMA UniqueIsOnce ==
    ASSUME NEW h
    PROVE  /\ Unique(h) <=> \A m : Once(h, m)
           /\ \A m : m \notin NamesOf(h) => Once(h, m)
  BY DEF Unique, Once, NamesOf

LEMMA OnceValue ==
    ASSUME NEW h \in Lists, NEW m, Once(h, m)
    PROVE  FirstValue(h, m) = LastValue(h, m)
<1>1. CASE m \in NamesOf(h)
  <2>1. FirstIndex(h, m) \in DOMAIN h /\ h[FirstIndex(h, m)][1] = m
        /\ FirstValue(h, m) = h[FirstIndex(h, m)][2]
    BY <1>1, FirstIndexIs
  <2>2. PICK i \in DOMAIN h : h[i][1] = m /\ LastValue(h, m) = h[i][2]
    BY <1>1, LastOccurs
  <2>3. i = FirstIndex(h, m)
    BY <2>1, <2>2 DEF Once
  <2> QED BY <2>1, <2>2, <2>3
<1>2. CASE m \notin NamesOf(h)
  BY <1>2, Absent
<1> QED BY <1>1, <1>2

LEMMA EmptyList ==
    /\ <<>> \in Lists /\ Len(<<>>) = 0 /\ NamesOf(<<>>) = {} /\ Unique(<<>>)
    /\ \A n : FirstValue(<<>>, n) = NoValue /\ LastValue(<<>>, n) = NoValue
<1>1. <<>> \in Lists /\ Len(<<>>) = 0 /\ DOMAIN <<>> = {}
  BY DEF Lists
<1>2. NamesOf(<<>>) = {} /\ Unique(<<>>)
  BY <1>1 DEF NamesOf, Unique
<1> QED BY <1>1, <1>2, Absent

LEMMA WithoutValues ==
    ASSUME NEW h \in Lists, NEW n
    PROVE  /\ Without(h, n) \in Lists
           /\ NamesOf(Without(h, n)) = NamesOf(h) \ {n}
           /\ \A m : m # n => LastValue(Without(h, n), m) = LastValue(h, m)
           /\ \A m : Once(h, m) => Once(Without(h, n), m)
<1> DEFINE Right(g, k) == /\ NamesOf(g) = NamesOf(Pre(h, k)) \ {n}
                          /\ \A m : m # n => LastValue(g, m) = LastValue(Pre(h, k), m)
                          /\ \A m : Once(Pre(h, k), m) => Once(g, m)
<1>1. PICK f : /\ f[0] = <<>> /\ f[Len(h)] = Without(h, n)
               /\ \A k \in 0 .. Len(h) : f[k] \in Lists
               /\ \A k \in 1 .. Len(h) :
                     f[k] = IF h[k][1] = n THEN f[k - 1] ELSE Append(f[k - 1], h[k])
  BY WithoutIs
<1>2. Len(h) \in Nat /\ \A k \in 1 .. Len(h) : h[k] \in Pairs
  BY Elements
<1>3. /\ Pre(h, 0) = <<>> /\ Pre(h, Len(h)) = h
      /\ \A k \in 0 .. Len(h) : Pre(h, k) \in Lists
      /\ \A k \in 1 .. Len(h) : Pre(h, k) = Append(Pre(h, k - 1), h[k])
  BY UpToPair
<1> DEFINE S == {k \in 0 .. Len(h) : Right(f[k], k)}
<1>4. 0 \in S
  BY <1>1, <1>2, <1>3, EmptyList
<1>5. ASSUME NEW k \in 1 .. Len(h), k - 1 \in S PROVE k \in S
  <2> DEFINE q == Pre(h, k - 1)
             g == f[k - 1]
             p == h[k]
  <2>1. k - 1 \in 0 .. Len(h) /\ k \in 0 .. Len(h)
    BY <1>2
  <2>2. q \in Lists /\ g \in Lists /\ p \in Pairs /\ Right(g, k - 1)
    BY <1>1, <1>2, <1>3, <1>5, <2>1
  <2>3. Pre(h, k) = Append(q, p) /\ f[k] = IF p[1] = n THEN g ELSE Append(g, p)
    BY <1>1, <1>3
  <2>a. /\ NamesOf(g) = NamesOf(q) \ {n}
        /\ \A m : m # n => LastValue(g, m) = LastValue(q, m)
        /\ \A m : Once(q, m) => Once(g, m)
    BY <2>2
  <2> HIDE DEF q, g, p
  <2>4. /\ NamesOf(Append(q, p)) = NamesOf(q) \cup {p[1]}
        /\ LastValue(Append(q, p), p[1]) = p[2]
        /\ \A m : m # p[1] => LastValue(Append(q, p), m) = LastValue(q, m)
        /\ \A m : m # p[1] => (Once(Append(q, p), m) <=> Once(q, m))
    BY <2>2, Appended, AppendedOnce
  <2>5. CASE p[1] = n
    <3>1. f[k] = g
      BY <2>3, <2>5
    <3>2. ASSUME NEW m, Once(Append(q, p), m) PROVE Once(g, m)
      <4>1. CASE m = n
        BY <2>a, <4>1, UniqueIsOnce
      <4>2. CASE m # n
        BY <2>4, <2>5, <2>a, <3>2, <4>2
      <4> QED BY <4>1, <4>2
    <3>3. Right(g, k)
      BY <2>3, <2>4, <2>5, <2>a, <3>2
    <3> QED BY <2>1, <3>1, <3>3
  <2>6. CASE p[1] # n
    <3>1. /\ NamesOf(Append(g, p)) = NamesOf(g) \cup {p[1]}
          /\ LastValue(Append(g, p), p[1]) = p[2]
          /\ \A m : m # p[1] => LastValue(Append(g, p), m) = LastValue(g, m)
          /\ p[1] \notin NamesOf(g) => Once(Append(g, p), p[1])
          /\ \A m : m # p[1] => (Once(Append(g, p), m) <=> Once(g, m))
      BY <2>2, Appended, AppendedOnce
    <3>2. f[k] = Append(g, p)
      BY <2>3, <2>6
    <3>3. Right(Append(g, p), k)
      <4>1. NamesOf(Append(g, p)) = NamesOf(Append(q, p)) \ {n}
        BY <2>4, <2>6, <2>a, <3>1
      <4>2. ASSUME NEW m, m # n PROVE LastValue(Append(g, p), m) = LastValue(Append(q, p), m)
        BY <2>4, <2>a, <3>1, <4>2
      <4>3. ASSUME NEW m, Once(Append(q, p), m) PROVE Once(Append(g, p), m)
        <5>1. CASE m = p[1]
          <6>1. p[1] \notin NamesOf(q)
            BY <2>2, <4>3, <5>1, OnceAppended
          <6> QED BY <2>a, <3>1, <5>1, <6>1
        <5>2. CASE m # p[1]
          BY <2>4, <2>a, <3>1, <4>3, <5>2
        <5> QED BY <5>1, <5>2
      <4> QED BY <2>3, <4>1, <4>2, <4>3
    <3> QED BY <2>1, <3>2, <3>3
  <2> QED BY <2>5, <2>6
<1> HIDE DEF S, Right
<1>6. Len(h) \in S
  <2>1. \A k \in 0 .. Len(h) : k \in S
    BY <1>2, <1>4, <1>5, UpTo
  <2> QED BY <1>2, <2>1
<1>7. Right(Without(h, n), Len(h)) /\ Without(h, n) \in Lists
  BY <1>1, <1>2, <1>6 DEF S
<1> QED BY <1>3, <1>7 DEF Right

LEMMA SetItemValues ==
    ASSUME NEW h \in Lists, NEW p \in Pairs
    PROVE  /\ SetItem(h, p) \in Lists
           /\ NamesOf(SetItem(h, p)) = NamesOf(h) \cup {p[1]}
           /\ LastValue(SetItem(h, p), p[1]) = p[2]
           /\ \A m : m # p[1] => LastValue(SetItem(h, p), m) = LastValue(h, m)
           /\ Once(SetItem(h, p), p[1])
           /\ \A m : Once(h, m) => Once(SetItem(h, p), m)
<1> DEFINE g == Without(h, p[1])
<1>1. /\ g \in Lists /\ NamesOf(g) = NamesOf(h) \ {p[1]}
      /\ \A m : m # p[1] => LastValue(g, m) = LastValue(h, m)
      /\ \A m : Once(h, m) => Once(g, m)
  BY WithoutValues
<1>2. SetItem(h, p) = Append(g, p)
  BY DEF SetItem
<1> HIDE DEF g
<1>3. /\ Append(g, p) \in Lists /\ NamesOf(Append(g, p)) = NamesOf(g) \cup {p[1]}
      /\ LastValue(Append(g, p), p[1]) = p[2]
      /\ \A m : m # p[1] => LastValue(Append(g, p), m) = LastValue(g, m)
      /\ Once(Append(g, p), p[1])
      /\ \A m : m # p[1] => (Once(Append(g, p), m) <=> Once(g, m))
  BY <1>1, Appended, AppendedOnce
<1>4. ASSUME NEW m, Once(h, m) PROVE Once(Append(g, p), m)
  BY <1>1, <1>3, <1>4
<1> QED BY <1>1, <1>2, <1>3, <1>4

LEMMA SetItemFold ==
    ASSUME NEW base \in Lists, NEW seq \in Lists
    PROVE  \E f : /\ f[0] = base /\ f[Len(seq)] = FoldLeft(SetItem, base, seq)
                  /\ \A k \in 0 .. Len(seq) : f[k] \in Lists
                  /\ \A k \in 1 .. Len(seq) : f[k] = SetItem(f[k - 1], seq[k])
<1> DEFINE step == [x \in Lists \X Pairs |-> SetItem(x[1], x[2])]
           Iterates(it) == it = [s \in SUBSET (DOMAIN seq) |->
                                    IF s = {} THEN base
                                    ELSE SetItem(it[s \ {Max(s)}], seq[Max(s)])]
           it == CHOOSE it : Iterates(it)
<1>a. seq \in Seq(Pairs) /\ Len(seq) \in Nat /\ DOMAIN seq = 1 .. Len(seq)
      /\ \A i \in DOMAIN seq : seq[i] \in Pairs
  BY Elements DEF Lists
<1>b. \A h \in Lists, p \in Pairs : SetItem(h, p) \in Lists
  BY SetItemValues
<1>1. step \in [Lists \X Pairs -> Lists]
  BY <1>b
<1> HIDE DEF step
<1>2. PICK g : /\ IsFold(g, step, base, seq)
               /\ \A s \in SUBSET (DOMAIN seq) : g[s] \in Lists
  BY <1>1, <1>a, FoldExists
<1>3. Iterates(g)
  <2>1. ASSUME NEW s \in SUBSET (DOMAIN seq), s # {}
        PROVE  g[s \ {Max(s)}] \in Lists /\ seq[Max(s)] \in Pairs
    BY <1>2, <1>a, <2>1, LargestIn
  <2>2. ASSUME NEW s \in SUBSET (DOMAIN seq), s # {}
        PROVE  step[g[s \ {Max(s)}], seq[Max(s)]] = SetItem(g[s \ {Max(s)}], seq[Max(s)])
    BY <2>1, <2>2 DEF step
  <2> QED BY <1>2, <2>2 DEF IsFold
<1> HIDE DEF Iterates
<1>4. Iterates(it)
  BY <1>3
<1>5. FoldLeft(SetItem, base, seq) = it[DOMAIN seq]
  BY DEF FoldLeft, MapThenFoldSet, Iterates
<1> HIDE DEF it
<1> DEFINE f == [k \in 0 .. Len(seq) |-> it[1 .. k]]
<1>6. f[0] = base
  <2>1. it[{}] = base
    BY <1>4 DEF Iterates
  <2>2. 1 .. 0 = {}
    OBVIOUS
  <2> QED BY <1>a, <2>1, <2>2
<1>7. f[Len(seq)] = FoldLeft(SetItem, base, seq)
  BY <1>5, <1>a
<1>8. ASSUME NEW k \in 1 .. Len(seq) PROVE f[k] = SetItem(f[k - 1], seq[k])
  <2>1. k \in Nat \ {0} /\ k \in 1 .. k /\ 1 .. k \in SUBSET (DOMAIN seq)
    BY <1>a
  <2>2. Max(1 .. k) = k /\ (1 .. k) \ {k} = 1 .. (k - 1)
    BY <2>1, LastIndex
  <2>3. it[1 .. k] = SetItem(it[1 .. (k - 1)], seq[k])
    BY <1>4, <2>1, <2>2 DEF Iterates
  <2>4. f[k] = it[1 .. k] /\ f[k - 1] = it[1 .. (k - 1)]
    BY <1>a
  <2> QED BY <2>3, <2>4
<1> HIDE DEF f
<1>9. \A k \in 0 .. Len(seq) : f[k] \in Lists
  <2> DEFINE S == {k \in 0 .. Len(seq) : f[k] \in Lists}
  <2>1. 0 \in S
    BY <1>6, <1>a
  <2>2. ASSUME NEW k \in 1 .. Len(seq), k - 1 \in S PROVE k \in S
    BY <1>8, <1>a, <1>b, <2>2
  <2> HIDE DEF S
  <2>3. \A k \in 0 .. Len(seq) : k \in S
    BY <1>a, <2>1, <2>2, UpTo
  <2> QED BY <2>3 DEF S
<1> QED BY <1>6, <1>7, <1>8, <1>9

\* The values of the second list win, the others stay.
LEMMA AssignedValues ==
    ASSUME NEW base \in Lists, NEW seq \in Lists
    PROVE  /\ AssignAll(base, seq) \in Lists
           /\ NamesOf(AssignAll(base, seq)) = NamesOf(base) \cup NamesOf(seq)
           /\ \A m : LastValue(AssignAll(base, seq), m) =
                         IF m \in NamesOf(seq) THEN LastValue(seq, m) ELSE LastValue(base, m)
           /\ \A m : m \in NamesOf(seq) \/ Once(base, m) => Once(AssignAll(base, seq), m)
<1> DEFINE Right(g, q) == /\ NamesOf(g) = NamesOf(base) \cup NamesOf(q)
                          /\ \A m : LastValue(g, m) = IF m \in NamesOf(q) THEN LastValue(q, m)
                                                      ELSE LastValue(base, m)
                          /\ \A m : m \in NamesOf(q) \/ Once(base, m) => Once(g, m)
<1>1. PICK f : /\ f[0] = base /\ f[Len(seq)] = FoldLeft(SetItem, base, seq)
               /\ \A k \in 0 .. Len(seq) : f[k] \in Lists
               /\ \A k \in 1 .. Len(seq) : f[k] = SetItem(f[k - 1], seq[k])
  BY SetItemFold
<1>2. Len(seq) \in Nat /\ \A k \in 1 .. Len(seq) : seq[k] \in Pairs
  BY Elements
<1>3. /\ Pre(seq, 0) = <<>> /\ Pre(seq, Len(seq)) = seq
      /\ \A k \in 0 .. Len(seq) : Pre(seq, k) \in Lists
      /\ \A k \in 1 .. Len(seq) : Pre(seq, k) = Append(Pre(seq, k - 1), seq[k])
  BY UpToPair
<1> DEFINE S == {k \in 0 .. Len(seq) : Right(f[k], Pre(seq, k))}
<1>4. 0 \in S
  BY <1>1, <1>2, <1>3, EmptyList
<1>5. ASSUME NEW k \in 1 .. Len(seq), k - 1 \in S PROVE k \in S
  <2> DEFINE q == Pre(seq, k - 1)
             g == f[k - 1]
             p == seq[k]
  <2>1. k - 1 \in 0 .. Len(seq) /\ k \in 0 .. Len(seq)
    BY <1>2
  <2>2. q \in Lists /\ g \in Lists /\ p \in Pairs /\ Right(g, q)
    BY <1>1, <1>2, <1>3, <1>5, <2>1
  <2>3. Pre(seq, k) = Append(q, p) /\ f[k] = SetItem(g, p)
    BY <1>1, <1>3
  <2> HIDE DEF q, g, p
  <2>4. /\ NamesOf(Append(q, p)) = NamesOf(q) \cup {p[1]}
        /\ LastValue(Append(q, p), p[1]) = p[2]
        /\ \A m : m # p[1] => LastValue(Append(q, p), m) = LastValue(q, m)
    BY <2>2, Appended
  <2>5. /\ NamesOf(SetItem(g, p)) = NamesOf(g) \cup {p[1]}
        /\ LastValue(SetItem(g, p), p[1]) = p[2]
        /\ \A m : m # p[1] => LastValue(SetItem(g, p), m) = LastValue(g, m)
        /\ Once(SetItem(g, p), p[1])
        /\ \A m : Once(g, m) => Once(SetItem(g, p), m)
    BY <2>2, SetItemValues
  <2>6. NamesOf(SetItem(g, p)) = NamesOf(base) \cup NamesOf(Append(q, p))
    BY <2>2, <2>4, <2>5
  <2>7. ASSUME NEW m
        PROVE  LastValue(SetItem(g, p), m) = IF m \in NamesOf(Append(q, p))
                                             THEN LastValue(Append(q, p), m)
                                             ELSE LastValue(base, m)
    BY <2>2, <2>4, <2>5
  <2>8. \A m : m \in NamesOf(Append(q, p)) \/ Once(base, m) => Once(SetItem(g, p), m)
    BY <2>2, <2>4, <2>5
  <2>9. Right(SetItem(g, p), Append(q, p))
    BY <2>6, <2>7, <2>8
  <2> QED BY <2>1, <2>3, <2>9
<1> HIDE DEF S, Right
<1>6. Len(seq) \in S
  <2>1. \A k \in 0 .. Len(seq) : k \in S
    BY <1>2, <1>4, <1>5, UpTo
  <2> QED BY <1>2, <2>1
<1>7. AssignAll(base, seq) \in Lists /\ Right(AssignAll(base, seq), seq)
  BY <1>1, <1>2, <1>3, <1>6 DEF S, AssignAll
<1> QED BY <1>7 DEF Right

\* The user's cookies are the last thing merged in, behind the first Cookie header.
LEMMA CookieValues ==
    ASSUME NEW h \in Lists, NEW k \in Values
    PROVE  /\ AddCookies(h, k) \in Lists
           /\ \A m : k = <<>> \/ m # Cookie =>
                 /\ LastValue(AddCookies(h, k), m) = LastValue(h, m)
                 /\ m \in NamesOf(AddCookies(h, k)) <=> m \in NamesOf(h)
           /\ k # <<>> =>
                 /\ LastValue(AddCookies(h, k), Cookie) = Joined(FirstValue(h, Cookie), k)
                 /\ Cookie \in NamesOf(AddCookies(h, k))
<1>1. CASE k = <<>>
  <2>1. AddCookies(h, k) = h
    BY <1>1 DEF AddCookies
  <2> QED BY <1>1, <2>1
<1>2. CASE k # <<>>
  <2> DEFINE v == Joined(FirstValue(h, Cookie), k)
             p == <<Cookie, v>>
  <2>1. v \in Values
    <3>1. CASE Cookie \in NamesOf(h)
      <4>1. FirstValue(h, Cookie) \in Seq(Parts) /\ k \in Seq(Parts)
        BY <3>1, ValuesAreValues DEF Values
      <4>2. FirstValue(h, Cookie) \o k \in Seq(Parts)
        BY <4>1
      <4> QED BY <4>2 DEF Joined, Values
    <3>2. CASE Cookie \notin NamesOf(h)
      BY <3>2, Absent DEF Joined
    <3> QED BY <3>1, <3>2
  <2>2. AddCookies(h, k) = SetItem(h, p)
    BY <1>2 DEF AddCookies
  <2> HIDE DEF v
  <2>3. p \in Pairs /\ p[1] = Cookie /\ p[2] = v
    BY <2>1, HeaderAssumption DEF Pairs
  <2> HIDE DEF p
  <2>4. /\ SetItem(h, p) \in Lists
        /\ NamesOf(SetItem(h, p)) = NamesOf(h) \cup {Cookie}
        /\ LastValue(SetItem(h, p), Cookie) = v
        /\ \A m : m # Cookie => LastValue(SetItem(h, p), m) = LastValue(h, m)
    BY <2>3, SetItemValues
  <2> QED BY <1>2, <2>2, <2>4 DEF v
<1> QED BY <1>1, <1>2

-----------------------------------------------------------------------------
(***************************************************************************)
(* The merge in Go.                                                        *)
(***************************************************************************)
\* The names of h, in its order, come first in g.
Leads(h, g) == Len(h) <= Len(g) /\ \A i \in 1 .. Len(h) : g[i][1] = h[i][1]

\* The first pair of a name is where it was, with its value.
LEMMA FirstStays ==
    ASSUME NEW h \in Lists, NEW g \in Lists, Leads(h, g), NEW m \in NamesOf(h),
           \A i \in DOMAIN h : h[i][1] = m => g[i] = h[i]
    PROVE  FirstValue(g, m) = FirstValue(h, m)
<1> DEFINE k == FirstIndex(h, m)
<1>1. k \in DOMAIN h /\ h[k][1] = m /\ FirstValue(h, m) = h[k][2]
      /\ \A j \in DOMAIN h : h[j][1] = m => k <= j
  BY FirstIndexIs
<1>2. /\ Len(h) \in Nat /\ DOMAIN h = 1 .. Len(h)
      /\ Len(g) \in Nat /\ DOMAIN g = 1 .. Len(g)
  BY Elements
<1> HIDE DEF k
<1>3. k \in DOMAIN g /\ g[k] = h[k]
  BY <1>1, <1>2 DEF Leads
<1>4. ASSUME NEW j \in DOMAIN g, g[j][1] = m PROVE k <= j
  <2>1. CASE j \in DOMAIN h
    <3>1. h[j][1] = m
      BY <1>2, <1>4, <2>1 DEF Leads
    <3> QED BY <1>1, <2>1, <3>1
  <2>2. CASE j \notin DOMAIN h
    BY <1>1, <1>2, <2>2
  <2> QED BY <2>1, <2>2
<1>5. FirstValue(g, g[k][1]) = g[k][2]
  BY <1>1, <1>3, <1>4, FirstValueIs
<1> QED BY <1>1, <1>3, <1>5

LEMMA PutFirstValues ==
    ASSUME NEW h \in Lists, NEW p \in Pairs
    PROVE  /\ PutFirst(h, p) \in Lists
           /\ NamesOf(PutFirst(h, p)) = NamesOf(h) \cup {p[1]}
           /\ FirstValue(PutFirst(h, p), p[1]) = p[2]
           /\ \A m : m # p[1] => FirstValue(PutFirst(h, p), m) = FirstValue(h, m)
           /\ Unique(h) => Unique(PutFirst(h, p))
           /\ Leads(h, PutFirst(h, p))
<1>a. Len(h) \in Nat /\ DOMAIN h = 1 .. Len(h) /\ h \in Seq(Pairs)
  BY Elements DEF Lists
<1>1. CASE p[1] \in NamesOf(h)
  <2> DEFINE k == FirstIndex(h, p[1])
             g == [h EXCEPT ![k] = p]
  <2>1. k \in DOMAIN h /\ h[k][1] = p[1] /\ \A j \in DOMAIN h : h[j][1] = p[1] => k <= j
    BY <1>1, FirstIndexIs
  <2>2. PutFirst(h, p) = g
    <3>1. SelectInSeq(h, LAMBDA q : q[1] = p[1]) = k
      BY <1>1, FirstIndexIs
    <3> QED BY <1>1, <3>1 DEF PutFirst
  <2> HIDE DEF k
  <2>3. /\ g \in Seq(Pairs) /\ Len(g) = Len(h) /\ DOMAIN g = DOMAIN h
        /\ g[k] = p /\ \A i \in DOMAIN h : i # k => g[i] = h[i]
    BY <1>a, <2>1
  <2> HIDE DEF g
  <2>4. \A i \in DOMAIN h : g[i][1] = h[i][1]
    BY <2>1, <2>3
  <2>5. g \in Lists /\ Leads(h, g)
    BY <1>a, <2>3, <2>4 DEF Lists, Leads
  <2>6. NamesOf(g) = NamesOf(h)
    BY <2>3, <2>4 DEF NamesOf
  <2>7. Unique(h) => Unique(g)
    BY <2>3, <2>4 DEF Unique
  <2>8. FirstValue(g, p[1]) = p[2]
    <3>1. \A j \in DOMAIN g : g[j][1] = g[k][1] => k <= j
      BY <2>1, <2>3, <2>4
    <3>2. FirstValue(g, g[k][1]) = g[k][2]
      BY <2>1, <2>3, <2>5, <3>1, FirstValueIs
    <3> QED BY <2>3, <3>2
  <2>9. ASSUME NEW m, m # p[1] PROVE FirstValue(g, m) = FirstValue(h, m)
    <3>1. CASE m \in NamesOf(h)
      <4>1. \A i \in DOMAIN h : h[i][1] = m => g[i] = h[i]
        BY <2>1, <2>3, <2>9
      <4> QED BY <2>5, <3>1, <4>1, FirstStays
    <3>2. CASE m \notin NamesOf(h)
      BY <2>5, <2>6, <3>2, Absent
    <3> QED BY <3>1, <3>2
  <2> QED BY <1>1, <2>2, <2>5, <2>6, <2>7, <2>8, <2>9
<1>2. CASE p[1] \notin NamesOf(h)
  <2> DEFINE a == Append(h, p)
             n == Len(h)
  <2>1. PutFirst(h, p) = a
    BY <1>2 DEF PutFirst
  <2>2. a \in Lists /\ NamesOf(a) = NamesOf(h) \cup {p[1]} /\ (Unique(h) => Unique(a))
    BY <1>2, Appended, AppendedUnique
  <2>3. DOMAIN a = 1 .. (n + 1) /\ Len(a) = n + 1 /\ a[n + 1] = p /\ \A i \in 1 .. n : a[i] = h[i]
    BY <1>a
  <2> HIDE DEF a, n
  <2>4. n \in Nat /\ DOMAIN h = 1 .. n /\ Len(h) = n
    BY <1>a DEF n
  <2>5. Leads(h, a)
    BY <2>3, <2>4 DEF Leads
  <2>6. FirstValue(a, p[1]) = p[2]
    <3>1. \A i \in 1 .. n : a[i][1] # p[1]
      BY <1>2, <2>3, <2>4 DEF NamesOf
    <3>2. n + 1 \in DOMAIN a /\ \A j \in DOMAIN a : a[j][1] = a[n + 1][1] => n + 1 <= j
      BY <2>3, <2>4, <3>1
    <3>3. FirstValue(a, a[n + 1][1]) = a[n + 1][2]
      BY <2>2, <3>2, FirstValueIs
    <3> QED BY <2>3, <3>3
  <2>7. ASSUME NEW m, m # p[1] PROVE FirstValue(a, m) = FirstValue(h, m)
    <3>1. CASE m \in NamesOf(h)
      BY <2>2, <2>3, <2>4, <2>5, <3>1, FirstStays
    <3>2. CASE m \notin NamesOf(h)
      BY <2>2, <2>7, <3>2, Absent
    <3> QED BY <3>1, <3>2
  <2> QED BY <2>1, <2>2, <2>5, <2>6, <2>7
<1> QED BY <1>1, <1>2

LEMMA PutFirstFold ==
    ASSUME NEW base \in Lists, NEW seq \in Lists
    PROVE  \E f : /\ f[0] = base /\ f[Len(seq)] = FoldLeft(PutFirst, base, seq)
                  /\ \A k \in 0 .. Len(seq) : f[k] \in Lists
                  /\ \A k \in 1 .. Len(seq) : f[k] = PutFirst(f[k - 1], seq[k])
<1> DEFINE step == [x \in Lists \X Pairs |-> PutFirst(x[1], x[2])]
           Iterates(it) == it = [s \in SUBSET (DOMAIN seq) |->
                                    IF s = {} THEN base
                                    ELSE PutFirst(it[s \ {Max(s)}], seq[Max(s)])]
           it == CHOOSE it : Iterates(it)
<1>a. seq \in Seq(Pairs) /\ Len(seq) \in Nat /\ DOMAIN seq = 1 .. Len(seq)
      /\ \A i \in DOMAIN seq : seq[i] \in Pairs
  BY Elements DEF Lists
<1>b. \A h \in Lists, p \in Pairs : PutFirst(h, p) \in Lists
  BY PutFirstValues
<1>1. step \in [Lists \X Pairs -> Lists]
  BY <1>b
<1> HIDE DEF step
<1>2. PICK g : /\ IsFold(g, step, base, seq)
               /\ \A s \in SUBSET (DOMAIN seq) : g[s] \in Lists
  BY <1>1, <1>a, FoldExists
<1>3. Iterates(g)
  <2>1. ASSUME NEW s \in SUBSET (DOMAIN seq), s # {}
        PROVE  g[s \ {Max(s)}] \in Lists /\ seq[Max(s)] \in Pairs
    BY <1>2, <1>a, <2>1, LargestIn
  <2>2. ASSUME NEW s \in SUBSET (DOMAIN seq), s # {}
        PROVE  step[g[s \ {Max(s)}], seq[Max(s)]] = PutFirst(g[s \ {Max(s)}], seq[Max(s)])
    BY <2>1, <2>2 DEF step
  <2> QED BY <1>2, <2>2 DEF IsFold
<1> HIDE DEF Iterates
<1>4. Iterates(it)
  BY <1>3
<1>5. FoldLeft(PutFirst, base, seq) = it[DOMAIN seq]
  BY DEF FoldLeft, MapThenFoldSet, Iterates
<1> HIDE DEF it
<1> DEFINE f == [k \in 0 .. Len(seq) |-> it[1 .. k]]
<1>6. f[0] = base
  <2>1. it[{}] = base
    BY <1>4 DEF Iterates
  <2>2. 1 .. 0 = {}
    OBVIOUS
  <2> QED BY <1>a, <2>1, <2>2
<1>7. f[Len(seq)] = FoldLeft(PutFirst, base, seq)
  BY <1>5, <1>a
<1>8. ASSUME NEW k \in 1 .. Len(seq) PROVE f[k] = PutFirst(f[k - 1], seq[k])
  <2>1. k \in Nat \ {0} /\ k \in 1 .. k /\ 1 .. k \in SUBSET (DOMAIN seq)
    BY <1>a
  <2>2. Max(1 .. k) = k /\ (1 .. k) \ {k} = 1 .. (k - 1)
    BY <2>1, LastIndex
  <2>3. it[1 .. k] = PutFirst(it[1 .. (k - 1)], seq[k])
    BY <1>4, <2>1, <2>2 DEF Iterates
  <2>4. f[k] = it[1 .. k] /\ f[k - 1] = it[1 .. (k - 1)]
    BY <1>a
  <2> QED BY <2>3, <2>4
<1> HIDE DEF f
<1>9. \A k \in 0 .. Len(seq) : f[k] \in Lists
  <2> DEFINE S == {k \in 0 .. Len(seq) : f[k] \in Lists}
  <2>1. 0 \in S
    BY <1>6, <1>a
  <2>2. ASSUME NEW k \in 1 .. Len(seq), k - 1 \in S PROVE k \in S
    BY <1>8, <1>a, <1>b, <2>2
  <2> HIDE DEF S
  <2>3. \A k \in 0 .. Len(seq) : k \in S
    BY <1>a, <2>1, <2>2, UpTo
  <2> QED BY <2>3 DEF S
<1> QED BY <1>6, <1>7, <1>8, <1>9

\* The last value of a name wins, and what the session has keeps its order.
LEMMA MergedValues ==
    ASSUME NEW base \in Lists, NEW seq \in Lists
    PROVE  /\ SessionMerge(base, seq) \in Lists
           /\ NamesOf(SessionMerge(base, seq)) = NamesOf(base) \cup NamesOf(seq)
           /\ \A m : FirstValue(SessionMerge(base, seq), m) =
                         IF m \in NamesOf(seq) THEN LastValue(seq, m) ELSE FirstValue(base, m)
           /\ Unique(base) => Unique(SessionMerge(base, seq))
           /\ Leads(base, SessionMerge(base, seq))
<1> DEFINE Right(g, q) == /\ NamesOf(g) = NamesOf(base) \cup NamesOf(q)
                          /\ \A m : FirstValue(g, m) = IF m \in NamesOf(q) THEN LastValue(q, m)
                                                       ELSE FirstValue(base, m)
                          /\ Unique(base) => Unique(g)
                          /\ Leads(base, g)
<1>1. PICK f : /\ f[0] = base /\ f[Len(seq)] = FoldLeft(PutFirst, base, seq)
               /\ \A k \in 0 .. Len(seq) : f[k] \in Lists
               /\ \A k \in 1 .. Len(seq) : f[k] = PutFirst(f[k - 1], seq[k])
  BY PutFirstFold
<1>2. Len(seq) \in Nat /\ \A k \in 1 .. Len(seq) : seq[k] \in Pairs
  BY Elements
<1>3. /\ Pre(seq, 0) = <<>> /\ Pre(seq, Len(seq)) = seq
      /\ \A k \in 0 .. Len(seq) : Pre(seq, k) \in Lists
      /\ \A k \in 1 .. Len(seq) : Pre(seq, k) = Append(Pre(seq, k - 1), seq[k])
  BY UpToPair
<1>a. Leads(base, base)
  BY Elements DEF Leads
<1> DEFINE S == {k \in 0 .. Len(seq) : Right(f[k], Pre(seq, k))}
<1>4. 0 \in S
  BY <1>1, <1>2, <1>3, <1>a, EmptyList
<1>5. ASSUME NEW k \in 1 .. Len(seq), k - 1 \in S PROVE k \in S
  <2> DEFINE q == Pre(seq, k - 1)
             g == f[k - 1]
             p == seq[k]
  <2>1. k - 1 \in 0 .. Len(seq) /\ k \in 0 .. Len(seq)
    BY <1>2
  <2>2. q \in Lists /\ g \in Lists /\ p \in Pairs /\ Right(g, q)
    BY <1>1, <1>2, <1>3, <1>5, <2>1
  <2>3. Pre(seq, k) = Append(q, p) /\ f[k] = PutFirst(g, p)
    BY <1>1, <1>3
  <2> HIDE DEF q, g, p
  <2>4. /\ NamesOf(Append(q, p)) = NamesOf(q) \cup {p[1]}
        /\ LastValue(Append(q, p), p[1]) = p[2]
        /\ \A m : m # p[1] => LastValue(Append(q, p), m) = LastValue(q, m)
    BY <2>2, Appended
  <2>5. /\ PutFirst(g, p) \in Lists
        /\ NamesOf(PutFirst(g, p)) = NamesOf(g) \cup {p[1]}
        /\ FirstValue(PutFirst(g, p), p[1]) = p[2]
        /\ \A m : m # p[1] => FirstValue(PutFirst(g, p), m) = FirstValue(g, m)
        /\ Unique(g) => Unique(PutFirst(g, p))
        /\ Leads(g, PutFirst(g, p))
    BY <2>2, PutFirstValues
  <2>6. NamesOf(PutFirst(g, p)) = NamesOf(base) \cup NamesOf(Append(q, p))
    BY <2>2, <2>4, <2>5
  <2>7. ASSUME NEW m
        PROVE  FirstValue(PutFirst(g, p), m) = IF m \in NamesOf(Append(q, p))
                                               THEN LastValue(Append(q, p), m)
                                               ELSE FirstValue(base, m)
    BY <2>2, <2>4, <2>5
  <2>8. Unique(base) => Unique(PutFirst(g, p))
    BY <2>2, <2>5
  <2>9. Leads(base, PutFirst(g, p))
    <3>1. Len(base) \in Nat /\ Len(g) \in Nat /\ Len(PutFirst(g, p)) \in Nat
      BY <2>2, <2>5, Elements
    <3>2. Leads(base, g) /\ Leads(g, PutFirst(g, p))
      BY <2>2, <2>5
    <3> QED BY <3>1, <3>2 DEF Leads
  <2>10. Right(PutFirst(g, p), Append(q, p))
    BY <2>6, <2>7, <2>8, <2>9
  <2> QED BY <2>1, <2>3, <2>10
<1> HIDE DEF S, Right
<1>6. Len(seq) \in S
  <2>1. \A k \in 0 .. Len(seq) : k \in S
    BY <1>2, <1>4, <1>5, UpTo
  <2> QED BY <1>2, <2>1
<1>7. SessionMerge(base, seq) \in Lists /\ Right(SessionMerge(base, seq), seq)
  BY <1>1, <1>2, <1>3, <1>6 DEF S, SessionMerge
<1> QED BY <1>7 DEF Right

-----------------------------------------------------------------------------
(***************************************************************************)
(* What __init__ puts together has no name twice, unless it is the user's  *)
(* list as it was given.                                                   *)
(***************************************************************************)
LEMMA SetMissingList ==
    ASSUME NEW h \in Lists, NEW p \in Pairs
    PROVE  SetMissing(h, p) \in Lists /\ (Unique(h) => Unique(SetMissing(h, p)))
  BY SetItemValues, UniqueIsOnce DEF SetMissing

LEMMA SetMissingFold ==
    ASSUME NEW base \in Lists, NEW seq \in Lists
    PROVE  \E f : /\ f[0] = base /\ f[Len(seq)] = FoldLeft(SetMissing, base, seq)
                  /\ \A k \in 0 .. Len(seq) : f[k] \in Lists
                  /\ \A k \in 1 .. Len(seq) : f[k] = SetMissing(f[k - 1], seq[k])
<1> DEFINE step == [x \in Lists \X Pairs |-> SetMissing(x[1], x[2])]
           Iterates(it) == it = [s \in SUBSET (DOMAIN seq) |->
                                    IF s = {} THEN base
                                    ELSE SetMissing(it[s \ {Max(s)}], seq[Max(s)])]
           it == CHOOSE it : Iterates(it)
<1>a. seq \in Seq(Pairs) /\ Len(seq) \in Nat /\ DOMAIN seq = 1 .. Len(seq)
      /\ \A i \in DOMAIN seq : seq[i] \in Pairs
  BY Elements DEF Lists
<1>b. \A h \in Lists, p \in Pairs : SetMissing(h, p) \in Lists
  BY SetMissingList
<1>1. step \in [Lists \X Pairs -> Lists]
  BY <1>b
<1> HIDE DEF step
<1>2. PICK g : /\ IsFold(g, step, base, seq)
               /\ \A s \in SUBSET (DOMAIN seq) : g[s] \in Lists
  BY <1>1, <1>a, FoldExists
<1>3. Iterates(g)
  <2>1. ASSUME NEW s \in SUBSET (DOMAIN seq), s # {}
        PROVE  g[s \ {Max(s)}] \in Lists /\ seq[Max(s)] \in Pairs
    BY <1>2, <1>a, <2>1, LargestIn
  <2>2. ASSUME NEW s \in SUBSET (DOMAIN seq), s # {}
        PROVE  step[g[s \ {Max(s)}], seq[Max(s)]] = SetMissing(g[s \ {Max(s)}], seq[Max(s)])
    BY <2>1, <2>2 DEF step
  <2> QED BY <1>2, <2>2 DEF IsFold
<1> HIDE DEF Iterates
<1>4. Iterates(it)
  BY <1>3
<1>5. FoldLeft(SetMissing, base, seq) = it[DOMAIN seq]
  BY DEF FoldLeft, MapThenFoldSet, Iterates
<1> HIDE DEF it
<1> DEFINE f == [k \in 0 .. Len(seq) |-> it[1 .. k]]
<1>6. f[0] = base
  <2>1. it[{}] = base
    BY <1>4 DEF Iterates
  <2>2. 1 .. 0 = {}
    OBVIOUS
  <2> QED BY <1>a, <2>1, <2>2
<1>7. f[Len(seq)] = FoldLeft(SetMissing, base, seq)
  BY <1>5, <1>a
<1>8. ASSUME NEW k \in 1 .. Len(seq) PROVE f[k] = SetMissing(f[k - 1], seq[k])
  <2>1. k \in Nat \ {0} /\ k \in 1 .. k /\ 1 .. k \in SUBSET (DOMAIN seq)
    BY <1>a
  <2>2. Max(1 .. k) = k /\ (1 .. k) \ {k} = 1 .. (k - 1)
    BY <2>1, LastIndex
  <2>3. it[1 .. k] = SetMissing(it[1 .. (k - 1)], seq[k])
    BY <1>4, <2>1, <2>2 DEF Iterates
  <2>4. f[k] = it[1 .. k] /\ f[k - 1] = it[1 .. (k - 1)]
    BY <1>a
  <2> QED BY <2>3, <2>4
<1> HIDE DEF f
<1>9. \A k \in 0 .. Len(seq) : f[k] \in Lists
  <2> DEFINE S == {k \in 0 .. Len(seq) : f[k] \in Lists}
  <2>1. 0 \in S
    BY <1>6, <1>a
  <2>2. ASSUME NEW k \in 1 .. Len(seq), k - 1 \in S PROVE k \in S
    BY <1>8, <1>a, <1>b, <2>2
  <2> HIDE DEF S
  <2>3. \A k \in 0 .. Len(seq) : k \in S
    BY <1>a, <2>1, <2>2, UpTo
  <2> QED BY <2>3 DEF S
<1> QED BY <1>6, <1>7, <1>8, <1>9

LEMMA ConstructedList ==
    ASSUME NEW browser \in Lists, NEW user \in Lists
    PROVE  /\ ConstructorMerge(browser, user) \in Lists
           /\ browser # <<>> \/ Unique(user) => Unique(ConstructorMerge(browser, user))
<1>1. CASE browser = <<>>
  BY <1>1 DEF ConstructorMerge
<1>2. CASE browser # <<>>
  <2> DEFINE valued == [i \in DOMAIN browser |->
                           <<browser[i][1], IF browser[i][1] \in NamesOf(user)
                                            THEN FirstValue(user, browser[i][1])
                                            ELSE browser[i][2]>>]
             seeded == AssignAll(<<>>, valued)
             result == FoldLeft(SetMissing, seeded, user)
  <2>1. valued \in Lists
    <3>1. Len(browser) \in Nat /\ DOMAIN browser = 1 .. Len(browser)
      BY Elements
    <3>2. \A i \in DOMAIN browser : valued[i] \in Pairs
      BY Elements, ValuesAreValues DEF Pairs
    <3>3. valued = [i \in 1 .. Len(browser) |-> valued[i]]
      BY <3>1
    <3> HIDE DEF valued
    <3>4. valued \in Seq(Pairs)
      BY <3>1, <3>2, <3>3
    <3> QED BY <3>4 DEF Lists
  <2>2. ConstructorMerge(browser, user) = result
    BY <1>2 DEF ConstructorMerge
  <2> HIDE DEF valued
  <2>3. seeded \in Lists /\ Unique(seeded)
    BY <2>1, EmptyList, AssignedValues, UniqueIsOnce
  <2> HIDE DEF seeded
  <2>4. PICK f : /\ f[0] = seeded /\ f[Len(user)] = result
                 /\ \A k \in 0 .. Len(user) : f[k] \in Lists
                 /\ \A k \in 1 .. Len(user) : f[k] = SetMissing(f[k - 1], user[k])
    BY <2>3, SetMissingFold
  <2>5. Len(user) \in Nat /\ \A k \in 1 .. Len(user) : user[k] \in Pairs
    BY Elements
  <2> HIDE DEF result
  <2> DEFINE S == {k \in 0 .. Len(user) : Unique(f[k])}
  <2>6. 0 \in S
    BY <2>3, <2>4, <2>5
  <2>7. ASSUME NEW k \in 1 .. Len(user), k - 1 \in S PROVE k \in S
    <3>1. k - 1 \in 0 .. Len(user) /\ k \in 0 .. Len(user)
      BY <2>5
    <3>2. f[k - 1] \in Lists /\ Unique(f[k - 1]) /\ f[k] = SetMissing(f[k - 1], user[k])
      BY <2>4, <2>7, <3>1
    <3>3. Unique(f[k])
      BY <2>5, <3>2, SetMissingList
    <3> QED BY <3>1, <3>3
  <2> HIDE DEF S
  <2>8. \A k \in 0 .. Len(user) : k \in S
    BY <2>5, <2>6, <2>7, UpTo
  <2>9. Len(user) \in S
    BY <2>5, <2>8
  <2> QED BY <2>2, <2>4, <2>5, <2>9 DEF S
<1> QED BY <1>1, <1>2

(***************************************************************************)
(* What goes out: the merged list, with the content type of the body.      *)
(***************************************************************************)
\* The content type of the body takes the place of any other value of m.
Overwritten(m, contentType) == m = ContentType /\ contentType # NoValue

LEMMA WireIs ==
    ASSUME NEW ordered \in Lists, NEW pairs \in Lists, NEW v \in Values \cup {NoValue}
    PROVE  /\ Wire(ordered, pairs, v) \in Lists
           /\ Unique(ordered) => Unique(Wire(ordered, pairs, v))
           /\ \/ Leads(ordered, Wire(ordered, pairs, v))
              \/ pairs = <<>> /\ Wire(ordered, pairs, v) = <<<<ContentType, v>>>>
           /\ v # NoValue => FirstValue(Wire(ordered, pairs, v), ContentType) = v
           /\ \A m : ~ Overwritten(m, v) =>
                 /\ m \in NamesOf(pairs) =>
                        FirstValue(Wire(ordered, pairs, v), m) = LastValue(pairs, m)
                 /\ m \notin NamesOf(pairs) =>
                        FirstValue(Wire(ordered, pairs, v), m)
                            \in {NoValue, FirstValue(ordered, m)}
<1> DEFINE merged == IF pairs = <<>> THEN <<>> ELSE SessionMerge(ordered, pairs)
           c == <<ContentType, v>>
           typed == IF v = NoValue THEN merged ELSE PutFirst(merged, c)
           w == Wire(ordered, pairs, v)
<1>1. w = IF typed = <<>> THEN ordered ELSE typed
  BY DEF Wire
<1>a. Leads(ordered, ordered)
  BY Elements DEF Leads
<1>b. v # NoValue => c \in Pairs /\ c[1] = ContentType /\ c[2] = v
  BY HeaderAssumption DEF Pairs
<1>2. CASE pairs = <<>>
  <2>1. merged = <<>> /\ NamesOf(pairs) = {}
    BY <1>2, EmptyList
  <2>2. CASE v = NoValue
    <3>1. w = ordered
      BY <1>1, <1>2, <2>2
    <3> HIDE DEF w
    <3> QED BY <1>2, <1>a, <2>1, <2>2, <3>1, Absent DEF w
  <2>3. CASE v # NoValue
    <3>1. typed = PutFirst(<<>>, c) /\ PutFirst(<<>>, c) = Append(<<>>, c)
      BY <1>2, <2>3, EmptyList DEF PutFirst
    <3>2. Append(<<>>, c) = <<c>> /\ <<c>> # <<>>
      OBVIOUS
    <3>3. w = <<c>> /\ w = PutFirst(<<>>, c)
      BY <1>1, <3>1, <3>2
    <3> HIDE DEF w
    <3>4. /\ w \in Lists /\ NamesOf(w) = {ContentType} /\ FirstValue(w, ContentType) = v
          /\ Unique(w)
      BY <1>b, <2>3, <3>3, EmptyList, PutFirstValues
    <3>5. ASSUME NEW m, ~ Overwritten(m, v) PROVE FirstValue(w, m) = NoValue
      BY <2>3, <3>4, <3>5, Absent DEF Overwritten
    <3> QED BY <1>2, <2>1, <2>3, <3>3, <3>4, <3>5 DEF w
  <2> QED BY <2>2, <2>3
<1>3. CASE pairs # <<>>
  <2>1. merged = SessionMerge(ordered, pairs)
    BY <1>3
  <2> HIDE DEF merged
  <2>2. /\ merged \in Lists /\ NamesOf(merged) = NamesOf(ordered) \cup NamesOf(pairs)
        /\ \A m : FirstValue(merged, m) = IF m \in NamesOf(pairs) THEN LastValue(pairs, m)
                                          ELSE FirstValue(ordered, m)
        /\ Unique(ordered) => Unique(merged)
        /\ Leads(ordered, merged)
    BY <2>1, MergedValues
  <2>3. NamesOf(merged) # {}
    <3>1. 1 \in DOMAIN pairs
      BY <1>3, Elements DEF Lists
    <3> QED BY <2>2, <3>1 DEF NamesOf
  <2>4. CASE v = NoValue
    <3>1. w = merged
      BY <1>1, <2>3, <2>4, EmptyList
    <3> HIDE DEF w
    <3> QED BY <2>2, <2>4, <3>1, Absent DEF w
  <2>5. CASE v # NoValue
    <3>1. /\ PutFirst(merged, c) \in Lists
          /\ NamesOf(PutFirst(merged, c)) = NamesOf(merged) \cup {ContentType}
          /\ FirstValue(PutFirst(merged, c), ContentType) = v
          /\ \A m : m # ContentType =>
                FirstValue(PutFirst(merged, c), m) = FirstValue(merged, m)
          /\ Unique(merged) => Unique(PutFirst(merged, c))
          /\ Leads(merged, PutFirst(merged, c))
      BY <1>b, <2>2, <2>5, PutFirstValues
    <3>2. w = PutFirst(merged, c)
      BY <1>1, <2>5, <3>1, EmptyList
    <3> HIDE DEF w, c
    <3>3. Leads(ordered, w)
      <4>1. Len(ordered) \in Nat /\ Len(merged) \in Nat /\ Len(w) \in Nat
        BY <2>2, <3>1, <3>2, Elements
      <4> QED BY <2>2, <3>1, <3>2, <4>1 DEF Leads
    <3>4. ASSUME NEW m, ~ Overwritten(m, v)
          PROVE  /\ m \in NamesOf(pairs) => FirstValue(w, m) = LastValue(pairs, m)
                 /\ m \notin NamesOf(pairs) =>
                        FirstValue(w, m) \in {NoValue, FirstValue(ordered, m)}
      <4>1. m # ContentType
        BY <2>5, <3>4 DEF Overwritten
      <4>2. FirstValue(w, m) = FirstValue(merged, m)
        BY <3>1, <3>2, <4>1
      <4> QED BY <2>2, <4>2, Absent
    <3> QED BY <2>2, <3>1, <3>2, <3>3, <3>4 DEF w
  <2> QED BY <2>4, <2>5
<1> QED BY <1>2, <1>3

-----------------------------------------------------------------------------
(***************************************************************************)
(* The invariant.  OneInv: a name that nobody is changing, and whose last  *)
(* change overlapped no other, has the value last asked for, in            *)
(* client.headers and in every list that is about to replace it.           *)
(***************************************************************************)
Active(t) == pc[t] # "idle"

ArgInv ==
    /\ DOMAIN arg = Mutators /\ DOMAIN tmp = Mutators
    /\ \A t \in Mutators :
          /\ pc[t] \in {"assign", "append"} => arg[t] \in Pairs
          /\ pc[t] = "delete" =>
                arg[t] \in Names \X {NoValue} /\ arg[t][1] \notin NamesOf(tmp[t])
          /\ \A u \in Mutators \ {t} : Active(t) /\ Active(u) => arg[t][1] \in clashed

Quiet == Names \ (Changing \cup clashed)

OneInv ==
    \A m \in Quiet :
        /\ LastValue(headers, m) = want[m]
        /\ \A t \in Mutators : Active(t) => LastValue(tmp[t], m) = want[m]

SentInv ==
    \/ sent = NoRequest
    \/ \E o \in RequestHeaders, k \in UserCookies, v \in BodyTypes :
          sent = Sent(AddCookies(RequestMerge(headers, o), k), o, k, v)

IndInv == TypeOK /\ ArgInv /\ OneInv /\ SentInv

LEMMA LastValues ==
    ASSUME NEW h \in Lists, NEW m
    PROVE  LastValue(h, m) \in Values \cup {NoValue}
  BY ValuesAreValues, Absent

LEMMA InitGood == Init => IndInv
<1> SUFFICES ASSUME Init PROVE IndInv
  OBVIOUS
<1>1. PICK b \in BrowserDefaults, u \in UserHeaders : headers = ConstructorMerge(b, u)
  BY DEF Init
<1>2. b \in Lists /\ u \in Lists
  BY HeaderAssumption DEF Lists, Pairs
<1>3. headers \in Lists
  BY <1>1, <1>2, ConstructedList
<1>a. /\ session = headers /\ want = [n \in Names |-> LastValue(headers, n)]
      /\ pc = [t \in Mutators |-> "idle"] /\ arg = [t \in Mutators |-> <<>>]
      /\ tmp = [t \in Mutators |-> <<>>] /\ clashed = {} /\ sent = NoRequest
  BY DEF Init
<1>b. <<>> \in Values
  BY DEF Values
<1>4. TypeOK
  BY <1>3, <1>a, <1>b, LastValues, EmptyList DEF TypeOK, Lists, NoRequest
<1>5. ArgInv /\ OneInv
  BY <1>a DEF ArgInv, OneInv, Active, Quiet
<1> QED BY <1>4, <1>5, <1>a DEF IndInv, SentInv

LEMMA Types ==
    ASSUME IndInv
    PROVE  /\ headers \in Lists /\ session \in Lists
           /\ pc \in [Mutators -> {"idle", "assign", "append", "delete"}]
           /\ \A t \in Mutators : tmp[t] \in Lists
           /\ want \in [Names -> Values \cup {NoValue}] /\ clashed \subseteq Names
           /\ DOMAIN arg = Mutators /\ DOMAIN tmp = Mutators
           /\ \A t \in Mutators : Active(t) => arg[t][1] \in Names
<1>1. \A t \in Mutators : Active(t) => arg[t][1] \in Names
  <2> SUFFICES ASSUME NEW t \in Mutators, Active(t) PROVE arg[t][1] \in Names
    OBVIOUS
  <2>1. pc[t] \in {"assign", "append", "delete"}
    BY DEF IndInv, TypeOK, Active
  <2>2. arg[t] \in Pairs \/ arg[t] \in Names \X {NoValue}
    BY <2>1 DEF IndInv, ArgInv
  <2> QED BY <2>2 DEF Pairs
<1>2. headers \in Lists /\ session \in Lists /\ \A t \in Mutators : tmp[t] \in Lists
  BY DEF IndInv, TypeOK, Lists
<1> QED BY <1>1, <1>2 DEF IndInv, TypeOK, ArgInv

\* The typing of a step that changes no session, and makes no request.
LEMMA TypesKept ==
    ASSUME IndInv, session' = session, sent' = NoRequest, headers' \in Lists,
           pc' \in [Mutators -> {"idle", "assign", "append", "delete"}],
           \A t \in Mutators :
               tmp'[t] \in Lists /\ arg'[t] \in Pairs \cup (Names \X {NoValue}) \cup {<<>>},
           want' \in [Names -> Values \cup {NoValue}], clashed' \subseteq Names
    PROVE  TypeOK' /\ SentInv'
<1>1. /\ NoRequest.wire = <<>> /\ NoRequest.pairs = <<>> /\ NoRequest.over = <<>>
      /\ NoRequest.cookies = <<>> /\ <<>> \in Values
  BY DEF NoRequest, Values
<1>2. {sent'.wire, sent'.pairs, sent'.over} \subseteq Seq(Pairs) /\ sent'.cookies \in Values
  BY <1>1
<1>3. session \in Seq(Pairs)
  BY DEF IndInv, TypeOK
<1> QED BY <1>2, <1>3 DEF TypeOK, SentInv, Lists, NoRequest

\* The first step of a change: the name is not quiet any more, the others stay so.
LEMMA BegunKeeps ==
    ASSUME IndInv, NEW t \in Mutators, NEW n \in Names, NEW a, a[1] = n, NEW p,
           p \in {"assign", "delete"},
           IF p = "assign" THEN a \in Pairs ELSE a \in Names \X {NoValue},
           pc[t] = "idle", pc' = [pc EXCEPT ![t] = p], arg' = [arg EXCEPT ![t] = a],
           tmp' = [tmp EXCEPT ![t] = Without(headers, n)], Begins(t, n),
           sent' = NoRequest, want' = Settled(n), UNCHANGED <<headers, session>>
    PROVE  IndInv'
<1> DEFINE O == {v \in Mutators \ {t} : pc[v] # "idle"}
           others == {arg[u][1] : u \in O}
<1>a. /\ headers \in Lists /\ pc \in [Mutators -> {"idle", "assign", "append", "delete"}]
      /\ \A u \in Mutators : tmp[u] \in Lists
      /\ want \in [Names -> Values \cup {NoValue}] /\ clashed \subseteq Names
      /\ DOMAIN arg = Mutators /\ DOMAIN tmp = Mutators
      /\ \A u \in Mutators : Active(u) => arg[u][1] \in Names
  BY Types
<1>b. /\ pc'[t] = p /\ arg'[t] = a /\ tmp'[t] = Without(headers, n)
      /\ \A u \in Mutators \ {t} : pc'[u] = pc[u] /\ arg'[u] = arg[u] /\ tmp'[u] = tmp[u]
      /\ DOMAIN arg' = Mutators /\ DOMAIN tmp' = Mutators
  BY <1>a
<1>c. clashed' = IF others = {} THEN clashed \ {n} ELSE clashed \cup others \cup {n}
  BY DEF Begins
<1>d. /\ Without(headers, n) \in Lists /\ n \notin NamesOf(Without(headers, n))
      /\ \A m : m # n => LastValue(Without(headers, n), m) = LastValue(headers, m)
  BY <1>a, WithoutValues
<1>e. others \subseteq Names
  BY <1>a DEF Active
<1>f. want' \in [Names -> Values \cup {NoValue}] /\ \A m \in Names \ {n} : want'[m] = want[m]
  BY <1>a, LastValues DEF Settled
<1>1. TypeOK' /\ SentInv'
  <2>1. pc' \in [Mutators -> {"idle", "assign", "append", "delete"}]
    BY <1>a
  <2>2. clashed' \subseteq Names
    BY <1>a, <1>c, <1>e
  <2>3. ASSUME NEW u \in Mutators
        PROVE  tmp'[u] \in Lists /\ arg'[u] \in Pairs \cup (Names \X {NoValue}) \cup {<<>>}
    BY <1>a, <1>b, <1>d DEF IndInv, TypeOK
  <2> QED BY <1>a, <1>f, <2>1, <2>2, <2>3, TypesKept
<1>2. ArgInv'
  <2>1. ASSUME NEW u \in Mutators
        PROVE  /\ pc'[u] \in {"assign", "append"} => arg'[u] \in Pairs
               /\ pc'[u] = "delete" =>
                     arg'[u] \in Names \X {NoValue} /\ arg'[u][1] \notin NamesOf(tmp'[u])
    <3>1. CASE u = t
      BY <1>b, <1>d, <3>1
    <3>2. CASE u # t
      BY <1>b, <3>2 DEF IndInv, ArgInv
    <3> QED BY <3>1, <3>2
  <2>2. ASSUME NEW u \in Mutators, NEW v \in Mutators \ {u}, pc'[u] # "idle", pc'[v] # "idle"
        PROVE  arg'[u][1] \in clashed'
    <3>1. CASE u = t
      <4>1. v \in O
        BY <1>b, <2>2, <3>1
      <4>2. arg[v][1] \in others
        BY <4>1
      <4> HIDE DEF others
      <4> QED BY <1>b, <1>c, <3>1, <4>2
    <3>2. CASE u # t
      <4>1. u \in O
        BY <1>b, <2>2, <3>2
      <4>2. arg[u][1] \in others
        BY <4>1
      <4> HIDE DEF others
      <4> QED BY <1>b, <1>c, <3>2, <4>2
    <3> QED BY <3>1, <3>2
  <2>3. (\A u \in Mutators : Active(u) <=> pc[u] # "idle")'
    BY DEF Active
  <2>4. (\A u \in Mutators : \A v \in Mutators \ {u} :
            Active(u) /\ Active(v) => arg[u][1] \in clashed)'
    BY <2>2, <2>3
  <2> QED BY <1>b, <2>1, <2>4 DEF ArgInv
<1>3. OneInv'
  <2>1. ASSUME NEW m \in Quiet' PROVE m \in Quiet /\ m # n
    <3>1. m \in Names /\ m \notin Changing' /\ m \notin clashed'
      BY <2>1 DEF Quiet
    <3>2. m # n
      <4>1. t \in {u \in Mutators : pc'[u] # "idle"}
        BY <1>b
      <4>2. arg'[t][1] \in Changing'
        BY <4>1 DEF Changing
      <4> QED BY <1>b, <3>1, <4>2
    <3>3. m \notin Changing
      <4> SUFFICES ASSUME NEW u \in Mutators, pc[u] # "idle", m = arg[u][1] PROVE FALSE
        BY DEF Changing
      <4>1. pc'[u] # "idle" /\ arg'[u] = arg[u]
        BY <1>b
      <4> QED BY <3>1, <4>1 DEF Changing
    <3>4. m \notin clashed
      <4> HIDE DEF others
      <4> QED BY <1>c, <3>1, <3>2
    <3> QED BY <3>1, <3>2, <3>3, <3>4 DEF Quiet
  <2>2. ASSUME NEW m \in Quiet' PROVE LastValue(headers', m) = want'[m]
    BY <1>f, <2>1, <2>2 DEF IndInv, OneInv, Quiet
  <2>3. ASSUME NEW m \in Quiet', NEW u \in Mutators, pc'[u] # "idle"
        PROVE  LastValue(tmp'[u], m) = want'[m]
    <3>1. m \in Quiet /\ m # n
      BY <2>1, <2>3
    <3>2. want'[m] = want[m]
      BY <1>f, <3>1 DEF Quiet
    <3>3. CASE u = t
      BY <1>b, <1>d, <3>1, <3>2, <3>3 DEF IndInv, OneInv
    <3>4. CASE u # t
      BY <1>b, <2>3, <3>1, <3>2, <3>4 DEF IndInv, OneInv, Active
    <3> QED BY <3>3, <3>4
  <2>4. \A m, u : m \in Quiet' /\ u \in Mutators /\ pc'[u] # "idle" => LastValue(tmp'[u], m) = want'[m]
    BY <2>3
  <2> QED BY <2>2, <2>4 DEF OneInv, Active
<1> QED BY <1>1, <1>2, <1>3 DEF IndInv

LEMMA SetHeaderKeeps ==
    ASSUME IndInv, NEW t \in Mutators, NEW p \in Pairs, SetHeader(t, p)
    PROVE  IndInv'
<1>1. p[1] \in Names
  BY DEF Pairs
<1> QED BY <1>1, BegunKeeps DEF SetHeader

LEMMA DeleteHeaderKeeps ==
    ASSUME IndInv, NEW t \in Mutators, NEW n \in Names, DeleteHeader(t, n)
    PROVE  IndInv'
<1>1. <<n, NoValue>> \in Names \X {NoValue} /\ <<n, NoValue>>[1] = n
  OBVIOUS
<1> HIDE DEF Begins
<1> QED BY <1>1, BegunKeeps DEF DeleteHeader

LEMMA AssignFilteredKeeps ==
    ASSUME IndInv, NEW t \in Mutators, AssignFiltered(t)
    PROVE  IndInv'
<1>a. /\ headers \in Lists /\ pc \in [Mutators -> {"idle", "assign", "append", "delete"}]
      /\ \A u \in Mutators : tmp[u] \in Lists
      /\ want \in [Names -> Values \cup {NoValue}] /\ clashed \subseteq Names
  BY Types
<1>b. /\ pc[t] = "assign" /\ pc'[t] = "append"
      /\ \A u \in Mutators \ {t} : pc'[u] = pc[u]
      /\ headers' = tmp[t] /\ arg' = arg /\ tmp' = tmp /\ want' = want /\ clashed' = clashed
      /\ session' = session /\ sent' = NoRequest
  BY <1>a DEF AssignFiltered, histVars
<1>1. TypeOK' /\ SentInv'
  <2>1. pc' \in [Mutators -> {"idle", "assign", "append", "delete"}]
    BY <1>a DEF AssignFiltered
  <2>2. \A u \in Mutators : arg'[u] \in Pairs \cup (Names \X {NoValue}) \cup {<<>>}
    BY <1>b DEF IndInv, TypeOK
  <2> QED BY <1>a, <1>b, <2>1, <2>2, TypesKept
<1>2. /\ \A u \in Mutators : (pc'[u] # "idle") <=> (pc[u] # "idle")
      /\ \A u \in Mutators : pc'[u] = "delete" => pc[u] = "delete"
      /\ \A u \in Mutators : pc'[u] \in {"assign", "append"} => pc[u] \in {"assign", "append"}
  BY <1>b
<1>3. ArgInv'
  BY <1>b, <1>2 DEF IndInv, ArgInv, Active
<1>4. Quiet' = Quiet
  BY <1>b, <1>2 DEF Quiet, Changing
<1>5. OneInv'
  BY <1>b, <1>2, <1>4 DEF IndInv, OneInv, Active
<1> QED BY <1>1, <1>3, <1>5 DEF IndInv

\* The last step of a change: the name is quiet again, if it was the only change.
LEMMA EndedKeeps ==
    ASSUME IndInv, NEW t \in Mutators, Active(t), NEW v, v \in Values \cup {NoValue},
           pc' = [pc EXCEPT ![t] = "idle"], arg' = [arg EXCEPT ![t] = <<>>],
           tmp' = [tmp EXCEPT ![t] = <<>>], want' = [want EXCEPT ![arg[t][1]] = v],
           clashed' = clashed, session' = session, sent' = NoRequest,
           headers' \in Lists,
           arg[t][1] \notin clashed => LastValue(headers', arg[t][1]) = v,
           \A m \in Quiet : LastValue(headers', m) = want[m]
    PROVE  IndInv'
<1> DEFINE n == arg[t][1]
<1>a. /\ pc \in [Mutators -> {"idle", "assign", "append", "delete"}]
      /\ \A u \in Mutators : tmp[u] \in Lists
      /\ want \in [Names -> Values \cup {NoValue}] /\ clashed \subseteq Names
      /\ DOMAIN arg = Mutators /\ DOMAIN tmp = Mutators /\ n \in Names
  BY Types
<1> HIDE DEF n
<1>b. /\ pc'[t] = "idle" /\ arg'[t] = <<>> /\ tmp'[t] = <<>>
      /\ \A u \in Mutators \ {t} : pc'[u] = pc[u] /\ arg'[u] = arg[u] /\ tmp'[u] = tmp[u]
      /\ DOMAIN arg' = Mutators /\ DOMAIN tmp' = Mutators
  BY <1>a
<1>c. want'[n] = v /\ \A m \in Names \ {n} : want'[m] = want[m]
  BY <1>a DEF n
<1>1. TypeOK' /\ SentInv'
  <2>1. pc' \in [Mutators -> {"idle", "assign", "append", "delete"}]
    BY <1>a
  <2>2. want' \in [Names -> Values \cup {NoValue}]
    BY <1>a DEF n
  <2>3. ASSUME NEW u \in Mutators
        PROVE  tmp'[u] \in Lists /\ arg'[u] \in Pairs \cup (Names \X {NoValue}) \cup {<<>>}
    BY <1>a, <1>b, EmptyList DEF IndInv, TypeOK
  <2> QED BY <1>a, <2>1, <2>2, <2>3, TypesKept
<1>2. ArgInv'
  <2>1. ASSUME NEW u \in Mutators, pc'[u] # "idle"
        PROVE  u # t /\ pc'[u] = pc[u] /\ arg'[u] = arg[u] /\ tmp'[u] = tmp[u]
    BY <1>b, <2>1
  <2> QED BY <1>b, <2>1 DEF IndInv, ArgInv, Active
<1>3. ASSUME NEW m \in Quiet', m # n PROVE m \in Quiet
  <2>1. m \in Names /\ m \notin Changing' /\ m \notin clashed
    BY <1>3 DEF Quiet
  <2>2. m \notin Changing
    <3> SUFFICES ASSUME NEW u \in Mutators, pc[u] # "idle", m = arg[u][1] PROVE FALSE
      BY DEF Changing
    <3>1. u # t
      BY <1>3 DEF n
    <3>2. pc'[u] # "idle" /\ arg'[u] = arg[u]
      BY <1>b, <3>1
    <3> QED BY <2>1, <3>2 DEF Changing
  <2> QED BY <2>1, <2>2 DEF Quiet
<1>4. ASSUME NEW u \in Mutators, pc'[u] # "idle", n \notin clashed PROVE FALSE
  <2>1. u # t /\ pc[u] # "idle"
    BY <1>b, <1>4
  <2> QED BY <1>4, <2>1 DEF IndInv, ArgInv, Active, n
<1>5. OneInv'
  <2>1. ASSUME NEW m \in Quiet' PROVE LastValue(headers', m) = want'[m]
    <3>1. m \in Names /\ m \notin clashed
      BY <2>1 DEF Quiet
    <3>2. CASE m = n
      BY <1>c, <3>1, <3>2 DEF n
    <3>3. CASE m # n
      BY <1>3, <1>c, <2>1, <3>1, <3>3
    <3> QED BY <3>2, <3>3
  <2>2. ASSUME NEW m \in Quiet', NEW u \in Mutators, pc'[u] # "idle"
        PROVE  LastValue(tmp'[u], m) = want'[m]
    <3>1. m \in Names /\ m \notin clashed
      BY <2>2 DEF Quiet
    <3>2. m # n
      BY <1>4, <2>2, <3>1
    <3>3. m \in Quiet /\ pc[u] # "idle" /\ tmp'[u] = tmp[u]
      BY <1>3, <1>b, <2>2, <3>2
    <3> QED BY <1>c, <3>1, <3>2, <3>3 DEF IndInv, OneInv, Active
  <2>3. \A m, u : m \in Quiet' /\ u \in Mutators /\ pc'[u] # "idle" => LastValue(tmp'[u], m) = want'[m]
    BY <2>2
  <2> QED BY <2>1, <2>3 DEF OneInv, Active
<1> QED BY <1>1, <1>2, <1>5 DEF IndInv

LEMMA AppendPairKeeps ==
    ASSUME IndInv, NEW t \in Mutators, AppendPair(t)
    PROVE  IndInv'
<1> DEFINE p == arg[t]
<1>a. headers \in Lists /\ p \in Pairs /\ pc[t] = "append"
  BY Types DEF AppendPair, IndInv, ArgInv
<1>b. p[1] \in Names /\ p[2] \in Values
  BY <1>a DEF Pairs
<1>1. /\ Append(headers, p) \in Lists
      /\ LastValue(Append(headers, p), p[1]) = p[2]
      /\ \A m : m # p[1] => LastValue(Append(headers, p), m) = LastValue(headers, m)
  BY <1>a, Appended
<1>2. ASSUME NEW m \in Quiet PROVE m # p[1]
  BY <1>a, <1>2 DEF Quiet, Changing
<1>3. \A m \in Quiet : LastValue(Append(headers, p), m) = want[m]
  BY <1>1, <1>2 DEF IndInv, OneInv
<1>4. Active(t) /\ headers' = Append(headers, p)
  BY <1>a DEF AppendPair, Active
<1> QED BY <1>1, <1>3, <1>4, <1>b, EndedKeeps DEF AppendPair

LEMMA AssignDeletedKeeps ==
    ASSUME IndInv, NEW t \in Mutators, AssignDeleted(t)
    PROVE  IndInv'
<1>a. tmp[t] \in Lists /\ arg[t][1] \notin NamesOf(tmp[t]) /\ Active(t) /\ headers' = tmp[t]
  BY Types DEF AssignDeleted, IndInv, ArgInv, Active
<1>1. LastValue(tmp[t], arg[t][1]) = NoValue
  BY <1>a, Absent
<1>2. \A m \in Quiet : LastValue(tmp[t], m) = want[m]
  BY <1>a DEF IndInv, OneInv
<1> QED BY <1>1, <1>2, <1>a, EndedKeeps DEF AssignDeleted

LEMMA ReplaceHeadersKeeps ==
    ASSUME IndInv, NEW t \in Mutators, NEW h \in UserHeaders, ReplaceHeaders(t, h)
    PROVE  IndInv'
<1>a. /\ headers' = h /\ pc' = [u \in Mutators |-> "idle"] /\ arg' = [u \in Mutators |-> <<>>]
      /\ tmp' = [u \in Mutators |-> <<>>] /\ want' = [n \in Names |-> LastValue(h, n)]
      /\ clashed' = {} /\ sent' = NoRequest /\ session' = session
  BY DEF ReplaceHeaders
<1>1. h \in Lists
  BY HeaderAssumption DEF Lists, Pairs
<1>2. TypeOK' /\ SentInv'
  BY <1>a, <1>1, LastValues, EmptyList, TypesKept
<1>3. ArgInv' /\ OneInv'
  BY <1>a DEF ArgInv, OneInv, Active, Quiet
<1> QED BY <1>2, <1>3 DEF IndInv

LEMMA RequestKeeps ==
    ASSUME IndInv, NEW o \in RequestHeaders, NEW k \in UserCookies, NEW v \in BodyTypes,
           Request(o, k, v)
    PROVE  IndInv'
<1> DEFINE r == AddCookies(RequestMerge(headers, o), k)
<1>a. /\ sent' = Sent(r, o, k, v)
      /\ UNCHANGED <<headers, session, pc, arg, tmp, want, clashed>>
  BY DEF Request, histVars
<1>b. /\ headers \in Lists /\ session \in Lists /\ o \in Lists /\ k \in Values
      /\ v \in Values \cup {NoValue}
  BY Types, HeaderAssumption DEF Lists
<1>1. r \in Lists
  BY <1>b, AssignedValues, CookieValues DEF RequestMerge
<1> HIDE DEF r
<1>2. Wire(session, r, v) \in Lists
  BY <1>1, <1>b, WireIs
<1>3. {sent'.wire, sent'.pairs, sent'.over} \subseteq Seq(Pairs) /\ sent'.cookies \in Values
  BY <1>1, <1>2, <1>a, <1>b DEF Sent, Lists
<1>4. TypeOK'
  BY <1>3, <1>a DEF IndInv, TypeOK
<1>5. ArgInv' /\ OneInv'
  BY <1>a DEF IndInv, ArgInv, OneInv, Active, Quiet, Changing
<1>6. SentInv'
  <2>1. /\ (AddCookies(RequestMerge(headers, o), k))' = r
        /\ (Sent(AddCookies(RequestMerge(headers, o), k), o, k, v))' = Sent(r, o, k, v)
    BY <1>a DEF r, Sent, RequestMerge
  <2> QED BY <1>a, <2>1 DEF SentInv
<1> QED BY <1>4, <1>5, <1>6 DEF IndInv

LEMMA StepGood == IndInv /\ [Next]_vars => IndInv'
<1> SUFFICES ASSUME IndInv, [Next]_vars PROVE IndInv'
  OBVIOUS
<1>1. ASSUME NEW t \in Mutators,
             \/ \E p \in Assigned : SetHeader(t, p)
             \/ \E n \in Names : DeleteHeader(t, n)
             \/ \E h \in UserHeaders : ReplaceHeaders(t, h)
      PROVE  IndInv'
  BY <1>1, HeaderAssumption, SetHeaderKeeps, DeleteHeaderKeeps, ReplaceHeadersKeeps
<1>2. ASSUME NEW t \in Mutators, AssignFiltered(t) \/ AppendPair(t) \/ AssignDeleted(t)
      PROVE  IndInv'
  BY <1>2, AssignFilteredKeeps, AppendPairKeeps, AssignDeletedKeeps
<1>3. ASSUME NEW o \in RequestHeaders, NEW k \in UserCookies, NEW v \in BodyTypes,
             Request(o, k, v)
      PROVE  IndInv'
  BY <1>3, RequestKeeps
<1>4. CASE UNCHANGED vars
  <2>1. UNCHANGED <<headers, session, pc, arg, tmp, want, clashed, sent>>
    BY <1>4 DEF vars, histVars
  <2>2. TypeOK' /\ ArgInv' /\ OneInv'
    BY <2>1 DEF IndInv, TypeOK, ArgInv, OneInv, Active, Quiet, Changing
  <2>3. SentInv'
    BY <2>1 DEF IndInv, SentInv, Sent, RequestMerge
  <2> QED BY <2>2, <2>3 DEF IndInv
<1> QED BY <1>1, <1>2, <1>3, <1>4 DEF Next

-----------------------------------------------------------------------------
(***************************************************************************)
(* The theorems.                                                           *)
(***************************************************************************)
LEMMA Invariant == Spec => []IndInv
  BY InitGood, StepGood, PTL DEF Spec

\* What a request of the program is made of, and what its wire carries.
LEMMA Made ==
    ASSUME IndInv, sent.made
    PROVE  /\ sent.over \in Lists /\ sent.pairs \in Lists /\ sent.cookies \in Values
           /\ sent.body \in Values \cup {NoValue}
           /\ sent.pairs = AddCookies(AssignAll(headers, sent.over), sent.cookies)
           /\ sent.wire = Wire(session, sent.pairs, sent.body)
           /\ headers \in Lists /\ session \in Lists
<1>1. sent # NoRequest
  BY DEF NoRequest
<1>2. PICK o \in RequestHeaders, k \in UserCookies, v \in BodyTypes :
          sent = Sent(AddCookies(RequestMerge(headers, o), k), o, k, v)
  BY <1>1 DEF IndInv, SentInv
<1> DEFINE r == AddCookies(RequestMerge(headers, o), k)
<1>3. /\ sent.over = o /\ sent.cookies = k /\ sent.body = v /\ sent.pairs = r
      /\ sent.wire = Wire(session, r, v)
  BY <1>2 DEF Sent
<1>4. /\ o \in Lists /\ k \in Values /\ v \in Values \cup {NoValue}
      /\ headers \in Lists /\ session \in Lists
  BY HeaderAssumption, Types DEF Lists
<1>5. r \in Lists
  BY <1>4, AssignedValues, CookieValues DEF RequestMerge
<1> QED BY <1>3, <1>4, <1>5 DEF RequestMerge

\* What the lists merged before the request's cookies have for n, unless the body
\* says what it is, is what it sends, with the cookies.
LEMMA SentIs ==
    ASSUME IndInv, sent.made, NEW n, ~ Overwritten(n, sent.body),
           NEW h, h = AssignAll(headers, sent.over),
           n = Cookie /\ sent.cookies # <<>> => Once(h, n)
    PROVE  /\ WithCookies(n, LastValue(h, n)) # NoValue \/ n \notin NamesOf(session) =>
                  SentValue(n) = WithCookies(n, LastValue(h, n))
           /\ WithCookies(n, LastValue(h, n)) = NoValue =>
                  SentValue(n) \in {NoValue, FirstValue(session, n)}
<1> DEFINE k == sent.cookies
<1>a. /\ sent.over \in Lists /\ sent.pairs \in Lists /\ k \in Values
      /\ sent.body \in Values \cup {NoValue}
      /\ sent.pairs = AddCookies(h, k) /\ sent.wire = Wire(session, sent.pairs, sent.body)
      /\ headers \in Lists /\ session \in Lists
  BY Made
<1>1. h \in Lists
  BY <1>a, AssignedValues
<1>2. /\ n \in NamesOf(sent.pairs) => SentValue(n) = LastValue(sent.pairs, n)
      /\ n \notin NamesOf(sent.pairs) => SentValue(n) \in {NoValue, FirstValue(session, n)}
      /\ n \notin NamesOf(session) => FirstValue(session, n) = NoValue
      /\ n \in NamesOf(sent.pairs) => LastValue(sent.pairs, n) # NoValue
  <2> DEFINE q == sent.pairs
             v == sent.body
  <2>1. /\ n \in NamesOf(q) => FirstValue(Wire(session, q, v), n) = LastValue(q, n)
        /\ n \notin NamesOf(q) =>
               FirstValue(Wire(session, q, v), n) \in {NoValue, FirstValue(session, n)}
    <3>1. q \in Lists /\ v \in Values \cup {NoValue} /\ session \in Lists /\ ~ Overwritten(n, v)
      BY <1>a
    <3> HIDE DEF q, v
    <3> QED BY <3>1, WireIs
  <2>2. n \in NamesOf(q) => LastValue(q, n) # NoValue
    BY <1>a, ValuesAreValues, HeaderAssumption
  <2> QED BY <1>a, <2>1, <2>2, Absent DEF SentValue
<1>3. n \notin NamesOf(h) => LastValue(h, n) = NoValue
  BY <1>1, Absent
<1> HIDE DEF k
<1>4. CASE n = Cookie /\ k # <<>>
  <2>1. LastValue(sent.pairs, n) = Joined(FirstValue(h, n), k) /\ n \in NamesOf(sent.pairs)
    BY <1>1, <1>4, <1>a, CookieValues
  <2>2. FirstValue(h, n) = LastValue(h, n)
    BY <1>1, <1>4, OnceValue DEF k
  <2>3. SentValue(n) = Joined(LastValue(h, n), k)
    BY <1>2, <2>1, <2>2
  <2> QED BY <1>4, <2>3 DEF WithCookies, k
<1>5. CASE ~ (n = Cookie /\ k # <<>>)
  <2>1. /\ LastValue(sent.pairs, n) = LastValue(h, n)
        /\ n \in NamesOf(sent.pairs) <=> n \in NamesOf(h)
    BY <1>1, <1>5, <1>a, CookieValues
  <2>2. WithCookies(n, LastValue(h, n)) = LastValue(h, n)
    BY <1>5 DEF WithCookies, k
  <2> QED BY <1>2, <1>3, <2>1, <2>2
<1> QED BY <1>4, <1>5

(***************************************************************************)
(* Headers, lists on their way and requests are what they should be: lists *)
(* of pairs, with a value or none asked for each name.                     *)
(***************************************************************************)
THEOREM TypeCorrect == Spec => []TypeOK
<1>1. IndInv => TypeOK
  BY DEF IndInv
<1> QED BY <1>1, Invariant, PTL

(***************************************************************************)
(* The values of headers= arrive, the last one of a name, a cookie header  *)
(* with the user's cookies behind it, but for the content type of a body   *)
(* (RequestMerge, AddCookies, SessionMerge, Wire), whatever the browser's  *)
(* defaults and the lists are and whoever changes client.headers.          *)
(***************************************************************************)
THEOREM OverridesWin == Spec => []OverrideWins
<1>1. ASSUME IndInv PROVE OverrideWins
  <2> SUFFICES ASSUME sent.made, NEW n \in NamesOf(sent.over)
               PROVE  \/ SentValue(n) = WithCookies(n, LastValue(sent.over, n))
                      \/ n = ContentType /\ sent.body # NoValue /\ SentValue(n) = sent.body
    BY DEF OverrideWins
  <2> DEFINE h == AssignAll(headers, sent.over)
  <2>1. /\ sent.over \in Lists /\ sent.pairs \in Lists /\ sent.body \in Values \cup {NoValue}
        /\ sent.cookies \in Values /\ sent.wire = Wire(session, sent.pairs, sent.body)
        /\ headers \in Lists /\ session \in Lists
    BY <1>1, Made
  <2>2. LastValue(h, n) = LastValue(sent.over, n) /\ Once(h, n)
    BY <2>1, AssignedValues
  <2> HIDE DEF h
  <2>3. CASE Overwritten(n, sent.body)
    <3> DEFINE q == sent.pairs
               v == sent.body
    <3>a. /\ q \in Lists /\ v \in Values \cup {NoValue} /\ session \in Lists /\ v # NoValue
          /\ sent.wire = Wire(session, q, v)
      BY <2>1, <2>3 DEF Overwritten
    <3> HIDE DEF q, v
    <3>b. FirstValue(Wire(session, q, v), ContentType) = v
      BY <3>a, WireIs
    <3>1. FirstValue(sent.wire, ContentType) = sent.body
      BY <3>a, <3>b DEF v
    <3> QED BY <2>3, <3>1 DEF Overwritten, SentValue
  <2>4. CASE ~ Overwritten(n, sent.body)
    <3>1. WithCookies(n, LastValue(sent.over, n)) \in Values
      <4>1. LastValue(sent.over, n) \in Seq(Parts) /\ sent.cookies \in Seq(Parts)
        BY <2>1, ValuesAreValues DEF Values
      <4>2. LastValue(sent.over, n) \o sent.cookies \in Seq(Parts)
        BY <4>1
      <4> QED BY <4>1, <4>2 DEF WithCookies, Joined, Values
    <3>2. WithCookies(n, LastValue(sent.over, n)) # NoValue
      BY <3>1, HeaderAssumption
    <3>3. SentValue(n) = WithCookies(n, LastValue(sent.over, n))
      BY <1>1, <2>2, <2>4, <3>2, SentIs DEF h
    <3> QED BY <3>3
  <2> QED BY <2>3, <2>4
<1> QED BY <1>1, Invariant, PTL

(***************************************************************************)
(* A change of client.headers that nobody else's change overlapped counts  *)
(* for the requests after it, whatever changes of other names are under    *)
(* way (__setitem__, __delitem__, the setter of headers, request()).       *)
(***************************************************************************)
THEOREM LatestIsSent == Spec => []LatestValueSent
<1>1. ASSUME IndInv PROVE LatestValueSent
  <2> SUFFICES ASSUME sent.made, NEW n \in Names \ (Changing \cup clashed), ~ Decided(n),
                      n = Cookie /\ sent.cookies # <<>> => Once(headers, n),
                      WithCookies(n, want[n]) # NoValue \/ n \notin NamesOf(session)
               PROVE  SentValue(n) = WithCookies(n, want[n])
    BY DEF LatestValueSent
  <2> DEFINE h == AssignAll(headers, sent.over)
  <2>1. sent.over \in Lists /\ headers \in Lists
    BY <1>1, Made
  <2>2. n \notin NamesOf(sent.over) /\ ~ Overwritten(n, sent.body)
    BY DEF Decided, Overwritten
  <2>3. LastValue(headers, n) = want[n]
    BY <1>1 DEF IndInv, OneInv, Quiet
  <2>4. LastValue(h, n) = want[n] /\ (Once(headers, n) => Once(h, n))
    BY <2>1, <2>2, <2>3, AssignedValues
  <2> HIDE DEF h
  <2> QED BY <1>1, <2>2, <2>4, SentIs DEF h
<1> QED BY <1>1, Invariant, PTL

(***************************************************************************)
(* In the middle of a change that meets no other: the list still has the   *)
(* old value of the name until the filtered one, which lacks it, has been  *)
(* assigned.                                                               *)
(***************************************************************************)
MidInv ==
    \A t \in Mutators :
        Active(t) /\ arg[t][1] \notin clashed =>
            /\ pc[t] # "append" =>
                  /\ LastValue(headers, arg[t][1]) = want[arg[t][1]]
                  /\ LastValue(tmp[t], arg[t][1]) = NoValue
            /\ pc[t] = "append" => LastValue(headers, arg[t][1]) = NoValue

LEMMA BegunMid ==
    ASSUME IndInv, MidInv, NEW t \in Mutators, NEW n \in Names, NEW a, a[1] = n, NEW p,
           p \in {"assign", "delete"},
           pc[t] = "idle", pc' = [pc EXCEPT ![t] = p], arg' = [arg EXCEPT ![t] = a],
           tmp' = [tmp EXCEPT ![t] = Without(headers, n)], Begins(t, n),
           want' = Settled(n), headers' = headers
    PROVE  MidInv'
<1> DEFINE O == {v \in Mutators \ {t} : pc[v] # "idle"}
           others == {arg[u][1] : u \in O}
<1>a. /\ headers \in Lists /\ pc \in [Mutators -> {"idle", "assign", "append", "delete"}]
      /\ want \in [Names -> Values \cup {NoValue}]
      /\ DOMAIN arg = Mutators /\ DOMAIN tmp = Mutators
  BY Types
<1>b. /\ pc'[t] = p /\ arg'[t] = a /\ tmp'[t] = Without(headers, n)
      /\ \A u \in Mutators \ {t} : pc'[u] = pc[u] /\ arg'[u] = arg[u]
  BY <1>a
<1>c. clashed' = IF others = {} THEN clashed \ {n} ELSE clashed \cup others \cup {n}
  BY DEF Begins
<1>1. ASSUME NEW u \in Mutators \ {t}, pc[u] # "idle" PROVE arg[u][1] \in clashed'
  <2>1. u \in O
    BY <1>1
  <2>2. arg[u][1] \in others
    BY <2>1
  <2> HIDE DEF others
  <2> QED BY <1>c, <2>2
<1>2. ASSUME n \notin clashed'
      PROVE  LastValue(headers, n) = want'[n] /\ LastValue(Without(headers, n), n) = NoValue
  <2>1. \A u \in Mutators : pc[u] = "idle"
    <3> SUFFICES ASSUME NEW u \in Mutators \ {t}, pc[u] # "idle" PROVE FALSE
      OBVIOUS
    <3>1. u \in O
      OBVIOUS
    <3>2. arg[u][1] \in others
      BY <3>1
    <3> HIDE DEF others
    <3> QED BY <1>2, <1>c, <3>2
  <2>2. ASSUME n \in clashed PROVE LastValue(headers, n) = want'[n]
    BY <1>a, <2>2 DEF Settled
  <2>3. ASSUME n \notin clashed PROVE LastValue(headers, n) = want'[n]
    <3>1. n \in Quiet
      BY <2>1, <2>3 DEF Quiet, Changing
    <3> QED BY <2>3, <3>1 DEF IndInv, OneInv, Settled
  <2>4. LastValue(Without(headers, n), n) = NoValue
    BY <1>a, WithoutValues, Absent
  <2> QED BY <2>2, <2>3, <2>4
<1> QED
  <2> SUFFICES ASSUME NEW u \in Mutators, pc'[u] # "idle", arg'[u][1] \notin clashed'
               PROVE  /\ pc'[u] # "append" /\ LastValue(headers, arg'[u][1]) = want'[arg'[u][1]]
                      /\ LastValue(tmp'[u], arg'[u][1]) = NoValue
    BY DEF MidInv, Active
  <2>1. u = t
    BY <1>1, <1>b
  <2> QED BY <1>2, <1>b, <2>1

LEMMA MidKept ==
    ASSUME IndInv, MidInv, [Next]_vars
    PROVE  MidInv'
<1>1. ASSUME NEW t \in Mutators, NEW p \in Pairs, SetHeader(t, p) PROVE MidInv'
  <2>1. p[1] \in Names
    BY DEF Pairs
  <2> QED BY <1>1, <2>1, BegunMid DEF SetHeader
<1>2. ASSUME NEW t \in Mutators, NEW n \in Names, DeleteHeader(t, n) PROVE MidInv'
  <2>1. <<n, NoValue>>[1] = n
    OBVIOUS
  <2> HIDE DEF Begins
  <2> QED BY <1>2, <2>1, BegunMid DEF DeleteHeader
<1>3. ASSUME NEW t \in Mutators, NEW h \in UserHeaders, ReplaceHeaders(t, h) PROVE MidInv'
  BY <1>3 DEF ReplaceHeaders, MidInv, Active
\* If there is another change under way, it and that of t are in clashed.
<1>4. ASSUME NEW t \in Mutators, NEW u \in Mutators \ {t}, pc[t] # "idle", pc[u] # "idle"
      PROVE  arg[u][1] \in clashed
  BY <1>4 DEF IndInv, ArgInv, Active
<1>5. ASSUME NEW t \in Mutators, AssignFiltered(t) PROVE MidInv'
  <2>1. /\ pc[t] = "assign" /\ pc'[t] = "append" /\ headers' = tmp[t]
        /\ \A u \in Mutators \ {t} : pc'[u] = pc[u]
        /\ arg' = arg /\ clashed' = clashed
    BY <1>5, Types DEF AssignFiltered, histVars
  <2>2. arg[t][1] \notin clashed => LastValue(tmp[t], arg[t][1]) = NoValue
    BY <2>1 DEF MidInv, Active
  <2>3. ASSUME NEW u \in Mutators, pc'[u] # "idle", arg[u][1] \notin clashed PROVE u = t
    BY <1>4, <2>1, <2>3
  <2> QED BY <2>1, <2>2, <2>3 DEF MidInv, Active
<1>6. ASSUME NEW t \in Mutators, AppendPair(t) \/ AssignDeleted(t) PROVE MidInv'
  <2>1. /\ pc[t] # "idle" /\ pc'[t] = "idle" /\ clashed' = clashed
        /\ \A u \in Mutators \ {t} : pc'[u] = pc[u] /\ arg'[u] = arg[u]
    BY <1>6, Types DEF AppendPair, AssignDeleted
  <2>2. ASSUME NEW u \in Mutators, pc'[u] # "idle" PROVE arg'[u][1] \in clashed'
    BY <1>4, <2>1, <2>2
  <2> QED BY <2>2 DEF MidInv, Active
<1>7. CASE UNCHANGED <<headers, pc, arg, tmp, want, clashed>>
  BY <1>7 DEF MidInv, Active
<1>8. ASSUME NEW o \in RequestHeaders, NEW k \in UserCookies, NEW v \in BodyTypes,
             Request(o, k, v)
      PROVE  MidInv'
  BY <1>7, <1>8 DEF Request, histVars
<1>9. CASE UNCHANGED vars
  BY <1>7, <1>9 DEF vars, histVars
<1> QED BY <1>1, <1>2, <1>3, <1>5, <1>6, <1>8, <1>9, HeaderAssumption DEF Next

(***************************************************************************)
(* What a request in the middle of __setitem__ or __delitem__ loses is     *)
(* the one header, for the one step between the two assignments (headers,  *)
(* RequestMerge, AddCookies, SessionMerge, Wire).                          *)
(***************************************************************************)
THEOREM LostInBetween == Spec => []MissingOnlyInBetween
<1>1. ASSUME IndInv, MidInv PROVE MissingOnlyInBetween
  <2> DEFINE held(t) ==
          WithCookies(arg[t][1], IF pc[t] = "append" THEN NoValue ELSE want[arg[t][1]])
  <2>1. ASSUME sent.made, NEW t \in Mutators, pc[t] # "idle", NEW n, n = arg[t][1],
               n \notin clashed, ~ Decided(n),
               n = Cookie /\ sent.cookies # <<>> => Once(headers, n)
        PROVE  IF held(t) # NoValue THEN SentValue(n) = held(t)
               ELSE SentValue(n) \in {NoValue, FirstValue(session, n)}
    <3> DEFINE h == AssignAll(headers, sent.over)
    <3>1. sent.over \in Lists /\ headers \in Lists
      BY <1>1, <2>1, Made
    <3>2. n \notin NamesOf(sent.over) /\ ~ Overwritten(n, sent.body)
      BY <2>1 DEF Decided, Overwritten
    <3>3. LastValue(headers, n) = IF pc[t] = "append" THEN NoValue ELSE want[n]
      BY <1>1, <2>1 DEF MidInv, Active
    <3>4. LastValue(h, n) = LastValue(headers, n) /\ (Once(headers, n) => Once(h, n))
      BY <3>1, <3>2, AssignedValues
    <3> HIDE DEF h
    <3>5. held(t) = WithCookies(n, LastValue(h, n))
      BY <2>1, <3>3, <3>4
    <3> HIDE DEF held
    <3> QED BY <1>1, <2>1, <3>2, <3>4, <3>5, SentIs DEF h
  <2> QED BY <2>1 DEF MissingOnlyInBetween
<1>2. Init => MidInv
  BY DEF Init, MidInv, Active
<1>3. Spec => []MidInv
  <2>1. IndInv /\ MidInv /\ [Next]_vars => MidInv'
    BY MidKept
  <2> QED BY <1>2, <2>1, Invariant, PTL DEF Spec
<1> QED BY <1>1, <1>3, Invariant, PTL

LEMMA LeadsInOrder ==
    ASSUME NEW h \in Lists, NEW g \in Lists, Leads(h, g)
    PROVE  IsPrefix(Order(h), Order(g))
<1> DEFINE a == Order(h)
           b == Order(g)
<1>1. /\ Len(h) \in Nat /\ DOMAIN h = 1 .. Len(h) /\ Len(g) \in Nat /\ DOMAIN g = 1 .. Len(g)
      /\ \A i \in DOMAIN h : h[i][1] \in Names
      /\ \A i \in DOMAIN g : g[i][1] \in Names
      /\ Len(h) <= Len(g) /\ \A i \in 1 .. Len(h) : g[i][1] = h[i][1]
  BY Elements DEF Leads
<1>2. /\ a \in Seq(Names) /\ Len(a) = Len(h) /\ \A i \in 1 .. Len(h) : a[i] = h[i][1]
      /\ b \in Seq(Names) /\ Len(b) = Len(g) /\ \A i \in 1 .. Len(g) : b[i] = g[i][1]
  BY <1>1 DEF Order
<1> HIDE DEF a, b
<1> DEFINE c == SubSeq(a, 1, Len(a))
           d == SubSeq(b, 1, Len(a))
<1>3. /\ c \in Seq(Names) /\ Len(c) = Len(h) /\ \A i \in 1 .. Len(h) : c[i] = h[i][1]
      /\ d \in Seq(Names) /\ Len(d) = Len(h) /\ \A i \in 1 .. Len(h) : d[i] = g[i][1]
  BY <1>1, <1>2
<1> HIDE DEF c, d
<1>4. c = d
  BY <1>1, <1>3, SeqEqual
<1> QED BY <1>1, <1>2, <1>4 DEF IsPrefix, a, b, c, d

(***************************************************************************)
(* The wire keeps the order of the session's headers and sends no name     *)
(* twice, if the caller of Client() gave no name twice or the browser's    *)
(* defaults were merged in (ConstructorMerge, PutFirst, Wire).             *)
(***************************************************************************)
THEOREM OrderIsKept ==
    ASSUME <<>> \in BrowserDefaults => \A u \in UserHeaders : IsInjective(Order(u))
    PROVE  Spec => []WireOrderKept
<1>a. ASSUME NEW h PROVE IsInjective(Order(h)) <=> Unique(h)
  BY DEF IsInjective, Order, Unique
<1>1. Init => Unique(session)
  <2> SUFFICES ASSUME Init PROVE Unique(session)
    OBVIOUS
  <2>1. PICK b \in BrowserDefaults, u \in UserHeaders : session = ConstructorMerge(b, u)
    BY DEF Init
  <2>2. b \in Lists /\ u \in Lists
    BY HeaderAssumption DEF Lists, Pairs
  <2>3. b # <<>> \/ Unique(u)
    BY <1>a
  <2> QED BY <2>1, <2>2, <2>3, ConstructedList
<1>2. Unique(session) /\ [Next]_vars => Unique(session)'
  <2>1. [Next]_vars => session' = session
    BY DEF Next, vars, SetHeader, DeleteHeader, ReplaceHeaders, AssignFiltered, AppendPair,
           AssignDeleted, Request
  <2> QED BY <2>1 DEF Unique
<1>3. ASSUME IndInv, Unique(session) PROVE WireOrderKept
  <2> SUFFICES ASSUME sent.made
               PROVE  /\ \/ IsPrefix(Order(session), Order(sent.wire))
                         \/ sent.pairs = <<>> /\ sent.wire = <<<<ContentType, sent.body>>>>
                      /\ IsInjective(Order(sent.wire))
    BY DEF WireOrderKept
  <2>1. /\ sent.pairs \in Lists /\ sent.body \in Values \cup {NoValue}
        /\ sent.wire = Wire(session, sent.pairs, sent.body) /\ session \in Lists
    BY <1>3, Made, Types
  <2>2. /\ sent.wire \in Lists /\ Unique(sent.wire)
        /\ \/ Leads(session, sent.wire)
           \/ sent.pairs = <<>> /\ sent.wire = <<<<ContentType, sent.body>>>>
    BY <1>3, <2>1, WireIs
  <2>3. Leads(session, sent.wire) => IsPrefix(Order(session), Order(sent.wire))
    BY <2>1, <2>2, LeadsInOrder
  <2> QED BY <1>a, <2>2, <2>3
<1>4. Spec => []Unique(session)
  BY <1>1, <1>2, PTL DEF Spec
<1> QED BY <1>3, <1>4, Invariant, PTL
=============================================================================
