--------------------------- MODULE ScraperProofs ---------------------------
(***************************************************************************)
(* Proofs about the job that generates the preset table, for any table to  *)
(* start from, any sources and answers and any number of jobs.             *)
(***************************************************************************)
EXTENDS Scraper, FiniteSetTheorems, SequenceTheorems, WellFoundedInduction, TLAPS

(***************************************************************************)
(* TypesInSync speaks of the moments without a job.  While one runs, the   *)
(* files agree until it opens the first and again when it has written the  *)
(* second, which it does from the draft that it has just put in the first. *)
(***************************************************************************)
SyncInv ==
    /\ torn \in BOOLEAN
    /\ phase \in {"openTypes", "writeTypes"} => intact /\ table = draft
    /\ phase \notin {"write", "openTypes", "writeTypes"} /\ ~torn =>
          intact /\ literal = Listed(table)

LEMMA SyncInit == Init => SyncInv
  BY InitialAssumption DEF Init, SyncInv

\* A step that touches no file keeps the agreement, if it stays clear of the writing.
LEMMA OutsideKeeps ==
    ASSUME SyncInv, UNCHANGED fileVars,
           phase \notin {"write", "openTypes", "writeTypes"},
           phase' \notin {"write", "openTypes", "writeTypes"}
    PROVE  SyncInv'
  BY DEF SyncInv, fileVars, Listed

LEMMA StepKeeps ==
    ASSUME SyncInv, [Next]_vars
    PROVE  SyncInv'
<1>1. ASSUME NEW job \in Jobs, Start(job) PROVE SyncInv'
  BY <1>1, OutsideKeeps DEF Start, Goto
<1>2. CASE Probe
  BY <1>2, OutsideKeeps DEF Probe, Goto
<1>3. CASE ProbeFails
  BY <1>3, OutsideKeeps DEF ProbeFails, Goto
<1>4. CASE NextSource
  BY <1>4, OutsideKeeps DEF NextSource, Goto
<1>5. CASE EndScrape
  BY <1>5, OutsideKeeps DEF EndScrape, Goto
<1>6. CASE Rebuild
  BY <1>6, OutsideKeeps DEF Rebuild, Goto
<1>7. CASE LoadExisting
  BY <1>7, OutsideKeeps DEF LoadExisting, Goto, Exit
<1>8. ASSUME NEW i \in pending, AugmentNext(i) PROVE SyncInv'
  BY <1>8, OutsideKeeps DEF AugmentNext, Goto
<1>9. CASE EndAugment
  BY <1>9, OutsideKeeps DEF EndAugment, Goto
<1>10. CASE OpenFile
  BY <1>10 DEF OpenFile, Goto, SyncInv
<1>11. CASE WriteTable
  BY <1>11 DEF WriteTable, Goto, SyncInv, jobVars
<1>12. CASE OpenTypes
  BY <1>12 DEF OpenTypes, Goto, SyncInv, jobVars
<1>13. CASE WriteTypes
  \* The draft behind the type is the table behind the module.
  BY <1>13 DEF WriteTypes, Exit, SyncInv, Listed
<1>14. CASE Interrupt
  <2>1. CASE phase \in {"write", "openTypes", "writeTypes"}
    BY <1>14, <2>1 DEF Interrupt, Exit, SyncInv
  <2>2. CASE phase \notin {"write", "openTypes", "writeTypes"}
    BY <1>14, <2>2 DEF Interrupt, Exit, SyncInv, Listed
  <2>3. QED BY <2>1, <2>2
<1>15. CASE UNCHANGED vars
  BY <1>15 DEF SyncInv, vars, fileVars, jobVars, Listed
<1>16. CASE Finished
  BY <1>15, <1>16 DEF Finished
<1>17. QED
  BY <1>1, <1>2, <1>3, <1>4, <1>5, <1>6, <1>7, <1>8, <1>9, <1>10, <1>11, <1>12, <1>13,
     <1>14, <1>15, <1>16 DEF Next

(***************************************************************************)
(* The static type in _types.py lists exactly the names that resolve in    *)
(* presets.py, after any sequence of jobs none of which was stopped        *)
(* between its two writes since the last that finished (main writes the    *)
(* two files one after the other).                                         *)
(***************************************************************************)
THEOREM TypeFollowsTable == Spec => []TypesInSync
<1>1. SyncInv => TypesInSync
  BY DEF SyncInv, TypesInSync
<1>2. QED BY SyncInit, StepKeeps, <1>1, PTL DEF Spec
-----------------------------------------------------------------------------
(***************************************************************************)
(* The other properties are about what is in the table.                    *)
(***************************************************************************)
\* A table whose aliases all lead to a target and that has no fingerprint twice.
Whole(t) ==
    /\ t = [targets |-> t.targets, aliases |-> t.aliases]
    /\ Listed(t) \subseteq Names /\ IsFiniteSet(DOMAIN t.targets)
    /\ \A n \in DOMAIN t.aliases : t.aliases[n] \in DOMAIN t.targets
    /\ \A m, n \in DOMAIN t.targets : t.targets[m].fp = t.targets[n].fp => m = n

Stores(t, f) == \E n \in DOMAIN t.targets : t.targets[n].fp = f

Probed == {n \in OfferedNames : FamilyOf[n] # NoFamily}
Captures ==
    [key : CaptureKeys, name : Probed, fp : UNION {Answers[n] : n \in Probed},
     source : Sources, browser : {FamilyOf[n] : n \in Probed}]

\* Keys are unique: whatever a source still has to offer was not captured from it.
CaptureInv ==
    /\ scraped \in Seq(Captures)
    /\ \A i \in DOMAIN scraped :
          /\ scraped[i].key \in {scraped[i].name, Tagged[scraped[i].source][scraped[i].name]}
          /\ \A j \in DOMAIN scraped : scraped[i].key = scraped[j].key => i = j
    /\ at \in Nat \ {0}
    /\ todo \in Seq(Sources)
    /\ \A i, j \in DOMAIN todo : todo[i] = todo[j] => i = j
    /\ \A i \in DOMAIN scraped, k \in DOMAIN todo :
          scraped[i].source = todo[k] =>
              k = 1 /\ \E l \in DOMAIN Offered[todo[1]] :
                          l < at /\ scraped[i].name = Offered[todo[1]][l]

\* What a draft is good for at each phase of a job.
DraftInv ==
    /\ Whole(table) /\ Whole(draft)
    /\ phase = "rebuild" => mode = "full"
    /\ phase \in {"load", "augment"} => mode = "augment"
    /\ phase # "augment" => pending = {}
    /\ phase \in {"augment", "open", "write", "openTypes", "writeTypes"} =>
          \A i \in DOMAIN scraped \ pending : Stores(draft, scraped[i].fp)
    /\ phase \in {"open", "write", "openTypes", "writeTypes"} /\ mode = "full" => draft = Rebuilt
    /\ phase = "augment" => SameMeaning(table, draft)

TableInv == TypeOK /\ SyncInv /\ CaptureInv /\ DraftInv
-----------------------------------------------------------------------------
(***************************************************************************)
(* Least elements: of a set of numbers, and of a finite set in any order.  *)
(***************************************************************************)
\* R compares any two elements of D, and consistently.
Orders(R, D) ==
    /\ \A x, y \in D : x # y => <<x, y>> \in R \/ <<y, x>> \in R
    /\ \A x, y, z \in D : <<x, y>> \in R /\ <<y, z>> \in R => <<x, z>> \in R

FirstIn(R, S, x) == \A y \in S \ {x} : <<x, y>> \in R

LEMMA NatMin ==
    ASSUME NEW T \in SUBSET Nat, T # {}
    PROVE  \E m \in T : \A n \in T : m <= n
<1> DEFINE R == OpToRel(<, Nat)
<1>1. IsWellFoundedOn(R, Nat)
  BY NatLessThanWellFounded
<1>2. \A x, y \in Nat : x < y => <<x, y>> \in R
  BY DEF OpToRel
<1> HIDE DEF R
<1>3. PICK m \in T : \A y \in T : ~ (<<y, m>> \in R)
  BY <1>1, WFMin
<1>4. ASSUME NEW n \in T PROVE m <= n
  <2>1. n \in Nat /\ m \in Nat /\ ~ (<<n, m>> \in R)
    BY <1>3
  <2>2. ~ (n < m)
    BY <1>2, <2>1
  <2> QED BY <2>1, <2>2
<1> QED BY <1>4

\* By the smallest set without a first element: one without some x has a first one.
LEMMA FirstExists ==
    ASSUME NEW D, IsFiniteSet(D), NEW R, Orders(R, D), NEW S \in SUBSET D, S # {}
    PROVE  \E x \in S : FirstIn(R, S, x)
<1> DEFINE Bad == {T \in SUBSET D : T # {} /\ \A x \in T : ~FirstIn(R, T, x)}
<1>1. Bad \subseteq FiniteSubsetsOf(D)
  <2>1. ASSUME NEW T \in Bad PROVE IsFiniteSet(T)
    BY FS_Subset
  <2> QED BY <2>1 DEF FiniteSubsetsOf
<1>2. SUFFICES ASSUME Bad # {} PROVE FALSE
  BY <1>2
<1> DEFINE L == StrictSubsetOrdering(D)
<1>3. IsWellFoundedOn(L, FiniteSubsetsOf(D))
  BY FS_StrictSubsetOrderingWellFounded
<1> HIDE DEF L
<1>4. PICK T \in Bad : \A U \in Bad : <<U, T>> \notin L
  BY <1>1, <1>2, <1>3, WFMin
<1>5. PICK x \in T : TRUE
  OBVIOUS
<1>6. ASSUME NEW U \in SUBSET T, U # T, U # {}
      PROVE  \E y \in U : FirstIn(R, U, y)
  <2>1. <<U, T>> \in L
    BY <1>6 DEF L, StrictSubsetOrdering
  <2> QED BY <2>1, <1>4, <1>6
<1>7. CASE T = {x}
  BY <1>7 DEF FirstIn
<1>8. CASE T # {x}
  <2>1. PICK y \in T \ {x} : FirstIn(R, T \ {x}, y)
    BY <1>6, <1>8, <1>5
  <2>2. CASE <<y, x>> \in R
    BY <2>1, <2>2 DEF FirstIn
  <2>3. CASE <<x, y>> \in R
    BY <2>1, <2>3 DEF FirstIn, Orders
  <2> QED BY <2>1, <2>2, <2>3 DEF Orders
<1> QED BY <1>7, <1>8
-----------------------------------------------------------------------------
(***************************************************************************)
(* The winner of a fingerprint, and what the alias of a name leads to.     *)
(***************************************************************************)
LEMMA Entries ==
    ASSUME CaptureInv
    PROVE  /\ IsFiniteSet(DOMAIN scraped) /\ DOMAIN scraped \subseteq Nat
           /\ \A i \in DOMAIN scraped : scraped[i] \in Captures
<1>1. scraped \in Seq(Captures)
  BY DEF CaptureInv
<1>2. Len(scraped) \in Nat /\ DOMAIN scraped = 1 .. Len(scraped)
  BY <1>1
<1>3. IsFiniteSet(1 .. Len(scraped))
  BY <1>2, FS_Interval
<1>4. \A i \in 1 .. Len(scraped) : scraped[i] \in Captures
  BY <1>1
<1> QED BY <1>2, <1>3, <1>4

Ranking == {p \in (DOMAIN scraped) \X (DOMAIN scraped) : RankedBefore(p[1], p[2])}

LEMMA RankingOrders ==
    ASSUME CaptureInv
    PROVE  Orders(Ranking, DOMAIN scraped)
<1> DEFINE D == DOMAIN scraped
<1>1. ASSUME NEW i \in D
      PROVE  /\ scraped[i].key \in CaptureKeys
             /\ Length[scraped[i].key] \in Nat /\ Position[scraped[i].key] \in Nat
             /\ Preference(i) \in Nat
  <2>1. scraped[i].key \in CaptureKeys
    BY Entries DEF Captures
  <2> QED BY <2>1, OrderAssumption DEF Preference
<1>2. ASSUME NEW i \in D, NEW j \in D, i # j
      PROVE  Position[scraped[i].key] # Position[scraped[j].key]
  <2>1. scraped[i].key # scraped[j].key
    BY <1>2 DEF CaptureInv
  <2> QED BY <1>1, <2>1, OrderAssumption
<1>3. ASSUME NEW i \in D, NEW j \in D, i # j
      PROVE  RankedBefore(i, j) \/ RankedBefore(j, i)
  <2> DEFINE k == scraped[i].key
             l == scraped[j].key
  <2>1. /\ Length[k] \in Nat /\ Position[k] \in Nat /\ Preference(i) \in Nat
        /\ Length[l] \in Nat /\ Position[l] \in Nat /\ Preference(j) \in Nat
    BY <1>1
  <2>2. Position[k] # Position[l]
    BY <1>2, <1>3
  <2> QED BY <2>1, <2>2 DEF RankedBefore
<1>4. ASSUME NEW i \in D, NEW j \in D, NEW m \in D, RankedBefore(i, j), RankedBefore(j, m)
      PROVE  RankedBefore(i, m)
  <2>1. /\ Length[scraped[i].key] \in Nat /\ Position[scraped[i].key] \in Nat
        /\ Length[scraped[j].key] \in Nat /\ Position[scraped[j].key] \in Nat
        /\ Length[scraped[m].key] \in Nat /\ Position[scraped[m].key] \in Nat
        /\ Preference(i) \in Nat /\ Preference(j) \in Nat /\ Preference(m) \in Nat
    BY <1>1
  <2> QED BY <2>1, <1>4 DEF RankedBefore
<1> HIDE DEF D
<1>5. ASSUME NEW x \in D, NEW y \in D
      PROVE  <<x, y>> \in Ranking <=> RankedBefore(x, y)
  <2> DEFINE p == <<x, y>>
  <2>1. p \in (DOMAIN scraped) \X (DOMAIN scraped) /\ p[1] = x /\ p[2] = y
    BY <1>5 DEF D
  <2> HIDE DEF p
  <2>2. p \in Ranking <=> RankedBefore(p[1], p[2])
    BY <2>1 DEF Ranking
  <2> QED BY <2>1, <2>2 DEF p
<1> QED BY <1>3, <1>4, <1>5 DEF Orders, D

\* Every fingerprint has one winner, and it is a capture of that fingerprint.
LEMMA WinnerIsTwin ==
    ASSUME CaptureInv, NEW i \in DOMAIN scraped
    PROVE  Winner(i) \in Twins(i)
<1>1. Twins(i) \in SUBSET DOMAIN scraped /\ i \in Twins(i)
  BY DEF Twins
<1>2. PICK w \in Twins(i) : FirstIn(Ranking, Twins(i), w)
  BY <1>1, Entries, RankingOrders, FirstExists
<1>3. \A j \in Twins(i) \ {w} : RankedBefore(w, j)
  BY <1>2 DEF FirstIn, Ranking
<1> QED BY <1>3 DEF Winner

LEMMA TwinsShare ==
    ASSUME NEW i \in DOMAIN scraped, NEW j \in DOMAIN scraped, scraped[i].fp = scraped[j].fp
    PROVE  Twins(i) = Twins(j) /\ Winner(i) = Winner(j) /\ Group(i) = Group(j)
<1>1. Twins(i) = Twins(j)
  BY DEF Twins
<1>2. Winner(i) = Winner(j)
  BY <1>1 DEF Winner
<1>3. Group(i) = Group(j)
  BY <1>1 DEF Group
<1> QED BY <1>1, <1>2, <1>3

LEMMA WinnersDiffer ==
    ASSUME CaptureInv
    PROVE  /\ \A i \in DOMAIN scraped : /\ Winner(i) \in DOMAIN scraped \cap Winners
                                        /\ scraped[Winner(i)].fp = scraped[i].fp
           /\ \A v, w \in Winners : scraped[v].fp = scraped[w].fp => v = w
<1>1. ASSUME NEW i \in DOMAIN scraped
      PROVE  /\ Winner(i) \in DOMAIN scraped \cap Winners
             /\ scraped[Winner(i)].fp = scraped[i].fp
  BY WinnerIsTwin DEF Twins, Winners
<1>2. ASSUME NEW v \in Winners, NEW w \in Winners, scraped[v].fp = scraped[w].fp PROVE v = w
  <2>1. PICK i \in DOMAIN scraped : v = Winner(i)
    BY DEF Winners
  <2>2. PICK j \in DOMAIN scraped : w = Winner(j)
    BY DEF Winners
  <2>3. scraped[i].fp = scraped[j].fp
    BY <1>1, <1>2, <2>1, <2>2
  <2> QED BY <2>1, <2>2, <2>3, TwinsShare
<1> QED BY <1>1, <1>2

\* Distinct fingerprints have distinct groups.
LEMMA GroupIsTwin ==
    ASSUME CaptureInv, NEW i \in DOMAIN scraped
    PROVE  Group(i) \in Twins(i) /\ Group(i) \in Nat
<1>1. Twins(i) \in SUBSET Nat /\ i \in Twins(i)
  BY Entries DEF Twins
<1>2. \E g \in Twins(i) : \A j \in Twins(i) : g <= j
  BY <1>1, NatMin
<1>3. Group(i) \in Twins(i)
  BY <1>2 DEF Group
<1> QED BY <1>1, <1>3

LEMMA WinnersGroups ==
    ASSUME CaptureInv, NEW v \in Winners, NEW w \in Winners, Group(v) = Group(w)
    PROVE  v = w
<1>1. v \in DOMAIN scraped /\ w \in DOMAIN scraped
  BY WinnersDiffer DEF Winners
<1>2. Group(v) \in Twins(v) /\ Group(v) \in Twins(w)
  BY <1>1, GroupIsTwin
<1>3. scraped[v].fp = scraped[w].fp
  BY <1>2 DEF Twins
<1> QED BY <1>3, WinnersDiffer

\* The later of two dropped entries, and the earlier of two targets.
LoserAfter == {p \in Losers \X Losers : LoserBefore(p[2], p[1])}
TargetOrder == {p \in Winners \X Winners : TargetBefore(p[1], p[2])}

LEMMA LosersOrdered ==
    ASSUME CaptureInv
    PROVE  Orders(LoserAfter, Losers)
<1>1. ASSUME NEW i \in Losers PROVE i \in DOMAIN scraped /\ Group(i) \in Nat
  BY GroupIsTwin DEF Losers
<1>2. ASSUME NEW i \in Losers, NEW j \in Losers, i # j
      PROVE  RankedBefore(i, j) \/ RankedBefore(j, i)
  BY <1>1, <1>2, RankingOrders DEF Orders, Ranking
<1>3. ASSUME NEW i \in Losers, NEW j \in Losers, NEW m \in Losers,
             RankedBefore(i, j), RankedBefore(j, m)
      PROVE  RankedBefore(i, m)
  <2>1. <<i, j>> \in Ranking /\ <<j, m>> \in Ranking
    BY <1>1, <1>3 DEF Ranking
  <2>2. <<i, m>> \in Ranking
    BY <1>1, <2>1, RankingOrders DEF Orders
  <2> QED BY <2>2 DEF Ranking
<1>4. ASSUME NEW i \in Losers, NEW j \in Losers, i # j
      PROVE  LoserBefore(j, i) \/ LoserBefore(i, j)
  <2>1. Group(i) \in Nat /\ Group(j) \in Nat
    BY <1>1
  <2> QED BY <1>2, <1>4, <2>1 DEF LoserBefore
<1>5. ASSUME NEW i \in Losers, NEW j \in Losers, NEW m \in Losers,
             LoserBefore(j, i), LoserBefore(m, j)
      PROVE  LoserBefore(m, i)
  <2>1. Group(i) \in Nat /\ Group(j) \in Nat /\ Group(m) \in Nat
    BY <1>1
  <2> QED BY <1>3, <1>5, <2>1 DEF LoserBefore
<1>6. ASSUME NEW x \in Losers, NEW y \in Losers
      PROVE  <<x, y>> \in LoserAfter <=> LoserBefore(y, x)
  BY <1>6 DEF LoserAfter
<1> QED BY <1>4, <1>5, <1>6 DEF Orders

LEMMA TargetsOrdered ==
    ASSUME CaptureInv
    PROVE  Orders(TargetOrder, Winners)
<1>1. ASSUME NEW i \in Winners PROVE Group(i) \in Nat /\ Preference(i) \in Nat
  BY GroupIsTwin, WinnersDiffer DEF Winners, Preference
<1>2. ASSUME NEW i \in Winners, NEW j \in Winners, i # j
      PROVE  TargetBefore(i, j) \/ TargetBefore(j, i)
  <2>1. Group(i) # Group(j)
    BY <1>2, WinnersGroups
  <2>2. /\ Group(i) \in Nat /\ Preference(i) \in Nat
        /\ Group(j) \in Nat /\ Preference(j) \in Nat
    BY <1>1
  <2> QED BY <2>1, <2>2 DEF TargetBefore
<1>3. ASSUME NEW i \in Winners, NEW j \in Winners, NEW m \in Winners,
             TargetBefore(i, j), TargetBefore(j, m)
      PROVE  TargetBefore(i, m)
  <2>1. /\ Group(i) \in Nat /\ Preference(i) \in Nat
        /\ Group(j) \in Nat /\ Preference(j) \in Nat
        /\ Group(m) \in Nat /\ Preference(m) \in Nat
    BY <1>1
  <2> QED BY <1>3, <2>1 DEF TargetBefore
<1>4. ASSUME NEW x \in Winners, NEW y \in Winners
      PROVE  <<x, y>> \in TargetOrder <=> TargetBefore(x, y)
  BY <1>4 DEF TargetOrder
<1> QED BY <1>2, <1>3, <1>4 DEF Orders

\* The alias of a dropped name leads to the winner of an entry dropped under that name.
LEMMA DroppedAlias ==
    ASSUME CaptureInv, NEW i \in Losers, NEW n \in Spellings(i)
    PROVE  \E d \in Losers : n \in Spellings(d) /\ AliasOf(n) = scraped[Winner(d)].key
<1> DEFINE dropped == {d \in Losers : n \in Spellings(d)}
<1>1. dropped \in SUBSET Losers /\ dropped # {}
  BY DEF Spellings
<1>2. IsFiniteSet(Losers)
  BY Entries, FS_Subset DEF Losers
<1>3. PICK d \in dropped : FirstIn(LoserAfter, dropped, d)
  BY <1>1, <1>2, LosersOrdered, FirstExists
<1>4. \A j \in dropped \ {d} : LoserBefore(j, d)
  BY <1>3 DEF FirstIn, LoserAfter
<1> DEFINE last == CHOOSE c \in dropped : \A j \in dropped \ {c} : LoserBefore(j, c)
<1>5. last \in dropped
  BY <1>4
<1>6. AliasOf(n) = scraped[Winner(last)].key
  BY <1>1 DEF AliasOf
<1> HIDE DEF last
<1> QED BY <1>5, <1>6

LEMMA AliasLeads ==
    ASSUME CaptureInv, NEW i \in DOMAIN scraped, NEW n \in Spellings(i)
    PROVE  \E w \in Winners : AliasOf(n) = scraped[w].key
<1> DEFINE dropped == {d \in Losers : n \in Spellings(d)}
           candidates == {w \in Winners : n \in Spellings(w)}
<1>1. CASE dropped # {}
  <2>1. PICK d \in Losers : AliasOf(n) = scraped[Winner(d)].key
    BY <1>1, DroppedAlias
  <2> QED BY <2>1, WinnersDiffer DEF Losers
<1>2. CASE dropped = {}
  <2>1. i \in Winners
    BY <1>2 DEF Losers
  <2>2. candidates \in SUBSET Winners /\ candidates # {}
    BY <2>1
  <2>3. IsFiniteSet(Winners)
    BY Entries, FS_Subset, WinnersDiffer DEF Winners
  <2>4. PICK w \in candidates : FirstIn(TargetOrder, candidates, w)
    BY <2>2, <2>3, TargetsOrdered, FirstExists
  <2>5. \A j \in candidates \ {w} : TargetBefore(w, j)
    BY <2>4 DEF FirstIn, TargetOrder
  <2> DEFINE first == CHOOSE c \in candidates : \A j \in candidates \ {c} : TargetBefore(c, j)
  <2>6. first \in candidates
    BY <2>5
  <2>7. AliasOf(n) = scraped[first].key
    BY <1>2 DEF AliasOf
  <2> HIDE DEF first
  <2> QED BY <2>6, <2>7
<1> QED BY <1>1, <1>2

\* What the full rebuild makes of the captures.
LEMMA RebuiltTargets ==
    ASSUME CaptureInv
    PROVE  /\ DOMAIN Rebuilt.targets = {scraped[w].key : w \in Winners}
           /\ \A w \in Winners : Rebuilt.targets[scraped[w].key].fp = scraped[w].fp
<1>1. Winners \subseteq DOMAIN scraped
  BY WinnersDiffer DEF Winners
<1>2. ASSUME NEW w \in Winners PROVE (CHOOSE i \in Winners : scraped[i].key = scraped[w].key) = w
  BY <1>1 DEF CaptureInv
<1>3. Rebuilt.targets = [n \in {scraped[w].key : w \in Winners} |->
                             Profile(CHOOSE i \in Winners : scraped[i].key = n)]
  BY DEF Rebuilt
<1>4. ASSUME NEW w \in Winners PROVE Rebuilt.targets[scraped[w].key].fp = scraped[w].fp
  <2> DEFINE k == scraped[w].key
  <2>1. k \in {scraped[v].key : v \in Winners}
    OBVIOUS
  <2>2. Rebuilt.targets[k] = Profile(CHOOSE i \in Winners : scraped[i].key = k)
    BY <1>3, <2>1
  <2>3. Rebuilt.targets[k] = Profile(w)
    BY <1>2, <2>2
  <2>4. Profile(w).fp = scraped[w].fp
    BY DEF Profile
  <2> HIDE DEF k
  <2> QED BY <2>3, <2>4 DEF k
<1> QED BY <1>3, <1>4

LEMMA RebuiltAliases ==
    ASSUME CaptureInv
    PROVE  /\ DOMAIN Rebuilt.aliases = UNION {Spellings(i) : i \in DOMAIN scraped}
           /\ \A n \in DOMAIN Rebuilt.aliases : Rebuilt.aliases[n] = AliasOf(n)
           /\ \A n \in DOMAIN Rebuilt.aliases : Rebuilt.aliases[n] \in DOMAIN Rebuilt.targets
<1>1. /\ DOMAIN Rebuilt.aliases = UNION {Spellings(i) : i \in DOMAIN scraped}
      /\ \A n \in DOMAIN Rebuilt.aliases : Rebuilt.aliases[n] = AliasOf(n)
  BY DEF Rebuilt
<1>2. ASSUME NEW n \in DOMAIN Rebuilt.aliases
      PROVE  Rebuilt.aliases[n] \in DOMAIN Rebuilt.targets
  <2>1. PICK i \in DOMAIN scraped : n \in Spellings(i)
    BY <1>1
  <2>2. PICK w \in Winners : AliasOf(n) = scraped[w].key
    BY <2>1, AliasLeads
  <2> QED BY <1>1, <2>2, RebuiltTargets
<1> QED BY <1>1, <1>2

LEMMA RebuiltIsWhole ==
    ASSUME CaptureInv
    PROVE  Whole(Rebuilt) /\ \A i \in DOMAIN scraped : Stores(Rebuilt, scraped[i].fp)
<1>1. Winners \subseteq DOMAIN scraped
  BY WinnersDiffer DEF Winners
<1>2. Rebuilt = [targets |-> Rebuilt.targets, aliases |-> Rebuilt.aliases]
  BY DEF Rebuilt
<1>3. \A i \in DOMAIN scraped : scraped[i].key \in Names /\ Spellings(i) \subseteq Names
  <2>1. ASSUME NEW i \in DOMAIN scraped PROVE scraped[i].key \in Names
    BY Entries, OfferAssumption DEF Captures
  <2> QED BY <2>1, NormAssumption DEF Spellings
<1>4. Listed(Rebuilt) \subseteq Names
  <2>1. DOMAIN Rebuilt.targets \subseteq Names
    BY <1>1, <1>3, RebuiltTargets
  <2>2. DOMAIN Rebuilt.aliases \subseteq Names
    BY <1>3, RebuiltAliases
  <2> QED BY <2>1, <2>2 DEF Listed
<1>5. IsFiniteSet(DOMAIN Rebuilt.targets)
  <2>1. IsFiniteSet(Winners)
    BY <1>1, Entries, FS_Subset
  <2> DEFINE T == {scraped[w].key : w \in Winners}
             f == [w \in Winners |-> scraped[w].key]
  <2>2. f \in Surjection(Winners, T)
    BY DEF Surjection
  <2> HIDE DEF f
  <2>3. IsFiniteSet(T)
    BY <2>1, <2>2, FS_Surjection
  <2> QED BY <2>3, RebuiltTargets
<1>6. \A w \in Winners : Rebuilt.targets[scraped[w].key].fp = scraped[w].fp
  BY RebuiltTargets
<1>7. ASSUME NEW m \in DOMAIN Rebuilt.targets, NEW n \in DOMAIN Rebuilt.targets,
             Rebuilt.targets[m].fp = Rebuilt.targets[n].fp
      PROVE  m = n
  <2>1. PICK v \in Winners : m = scraped[v].key
    BY RebuiltTargets
  <2>2. PICK w \in Winners : n = scraped[w].key
    BY RebuiltTargets
  <2>3. scraped[v].fp = scraped[w].fp
    BY <1>6, <1>7, <2>1, <2>2
  <2> QED BY <2>1, <2>2, <2>3, WinnersDiffer
<1>8. ASSUME NEW i \in DOMAIN scraped PROVE Stores(Rebuilt, scraped[i].fp)
  <2>1. scraped[Winner(i)].key \in DOMAIN Rebuilt.targets
    BY RebuiltTargets, WinnersDiffer
  <2>2. Rebuilt.targets[scraped[Winner(i)].key].fp = scraped[i].fp
    BY <1>6, WinnersDiffer
  <2> QED BY <2>1, <2>2 DEF Stores
<1>9. Whole(Rebuilt)
  BY <1>2, <1>4, <1>5, <1>7, RebuiltAliases DEF Whole
<1> QED BY <1>8, <1>9

\* The heart of DroppedNamesResolve.
LEMMA RebuiltResolves ==
    ASSUME CaptureInv, NEW i \in DOMAIN scraped
    PROVE  LET n == Resolve(Rebuilt, scraped[i].key)
           IN  /\ n # NoName
               /\ \/ Rebuilt.targets[n].fp = scraped[i].fp
                  \/ \E j \in Losers \ {i} :
                        /\ NormOf[scraped[j].key] = scraped[i].key
                        /\ Rebuilt.targets[n].fp = scraped[j].fp
<1> DEFINE k == scraped[i].key
<1>1. NoName \notin DOMAIN Rebuilt.targets
  BY RebuiltIsWhole, NormAssumption DEF Whole, Listed
<1>2. CASE i \in Winners
  <2>1. k \in DOMAIN Rebuilt.targets /\ Rebuilt.targets[k].fp = scraped[i].fp
    BY <1>2, RebuiltTargets
  <2> QED BY <1>1, <2>1 DEF Resolve
<1>3. CASE i \in Losers
  <2>1. k \notin DOMAIN Rebuilt.targets
    <3>1. ASSUME NEW w \in Winners PROVE scraped[w].key # k
      <4>1. w \in DOMAIN scraped /\ w # i
        BY <1>3, WinnersDiffer DEF Winners, Losers
      <4> QED BY <4>1 DEF CaptureInv
    <3> QED BY <3>1, RebuiltTargets
  <2>2. k \in Spellings(i)
    BY DEF Spellings
  <2>3. k \in DOMAIN Rebuilt.aliases /\ Rebuilt.aliases[k] = AliasOf(k)
        /\ Rebuilt.aliases[k] \in DOMAIN Rebuilt.targets
    BY <2>2, RebuiltAliases
  <2>4. PICK d \in Losers : k \in Spellings(d) /\ AliasOf(k) = scraped[Winner(d)].key
    BY <1>3, <2>2, DroppedAlias
  <2>5. Resolve(Rebuilt, k) = scraped[Winner(d)].key /\ Resolve(Rebuilt, k) # NoName
    BY <1>1, <2>1, <2>3, <2>4 DEF Resolve, HasAlias
  <2>6. d \in DOMAIN scraped
    BY DEF Losers
  <2>7. Rebuilt.targets[Resolve(Rebuilt, k)].fp = scraped[d].fp
    <3>1. Rebuilt.targets[scraped[Winner(d)].key].fp = scraped[Winner(d)].fp
      BY <2>6, RebuiltTargets, WinnersDiffer
    <3>2. scraped[Winner(d)].fp = scraped[d].fp
      BY <2>6, WinnersDiffer
    <3> QED BY <2>5, <3>1, <3>2
  <2>8. CASE scraped[d].fp = scraped[i].fp
    BY <2>5, <2>7, <2>8
  <2>9. CASE scraped[d].fp # scraped[i].fp
    <3>1. d # i
      BY <2>9
    <3>2. scraped[d].key # k
      BY <2>6, <3>1 DEF CaptureInv
    <3>3. NormOf[scraped[d].key] = k
      BY <2>4, <3>2 DEF Spellings
    <3> QED BY <2>5, <2>7, <3>1, <3>3
  <2> QED BY <2>8, <2>9
<1> QED BY <1>2, <1>3 DEF Losers
-----------------------------------------------------------------------------
(***************************************************************************)
(* Captures.                                                               *)
(***************************************************************************)
LEMMA SourcesOffer ==
    ASSUME CaptureInv, Probing
    PROVE  /\ Head(todo) = todo[1] /\ todo[1] \in Sources /\ 1 \in DOMAIN todo
           /\ at \in DOMAIN Offered[todo[1]]
           /\ Target = Offered[todo[1]][at] /\ Target \in OfferedNames
<1>1. todo \in Seq(Sources) /\ todo # <<>> /\ at \in Nat \ {0} /\ at <= Len(Offered[Head(todo)])
  BY DEF CaptureInv, Probing
<1>2. Head(todo) = todo[1] /\ todo[1] \in Sources /\ 1 \in DOMAIN todo
  BY <1>1
<1>3. Offered[todo[1]] \in Seq(OfferedNames)
  BY <1>2, OfferAssumption
<1>4. at \in DOMAIN Offered[todo[1]]
  BY <1>1, <1>2, <1>3
<1>5. Offered[todo[1]][at] \in OfferedNames
  BY <1>3, <1>4
<1> QED BY <1>2, <1>4, <1>5 DEF Target

\* A name that is taken is stored under its tagged key, which nobody else has.
LEMMA StoredKeyIsFree ==
    ASSUME CaptureInv, Probing
    PROVE  /\ StoredKey \in CaptureKeys
           /\ StoredKey \in {Target, Tagged[todo[1]][Target]}
           /\ \A i \in DOMAIN scraped : scraped[i].key # StoredKey
<1> DEFINE s == todo[1]
<1>1. /\ Head(todo) = s /\ s \in Sources /\ at \in DOMAIN Offered[s] /\ at \in Nat
      /\ Target = Offered[s][at] /\ Target \in OfferedNames /\ 1 \in DOMAIN todo
  BY SourcesOffer DEF CaptureInv
<1>2. StoredKey \in {Target, Tagged[s][Target]}
  BY <1>1 DEF StoredKey
<1>3. StoredKey \in CaptureKeys
  BY <1>1, <1>2 DEF CaptureKeys
<1>4. ASSUME NEW i \in DOMAIN scraped, scraped[i].key = StoredKey PROVE FALSE
  <2>1. Target \in Keys(scraped) /\ StoredKey = Tagged[s][Target]
    BY <1>1, <1>4 DEF StoredKey, Keys
  <2>2. scraped[i].name \in OfferedNames /\ scraped[i].source \in Sources
    BY Entries DEF Captures, Probed
  <2>3. scraped[i].key \in {scraped[i].name, Tagged[scraped[i].source][scraped[i].name]}
    BY DEF CaptureInv
  <2>4. scraped[i].key # scraped[i].name
    BY <1>1, <1>4, <2>1, <2>2, OfferAssumption
  <2>5. scraped[i].source = s /\ scraped[i].name = Target
    BY <1>1, <1>4, <2>1, <2>2, <2>3, <2>4, OfferAssumption
  <2>6. PICK l \in DOMAIN Offered[s] : l < at /\ Target = Offered[s][l]
    BY <1>1, <2>5 DEF CaptureInv
  <2>7. l = at
    BY <1>1, <2>6, OfferAssumption
  <2> QED BY <1>1, <2>6, <2>7
<1> QED BY <1>2, <1>3, <1>4

LEMMA ProbeCaptures ==
    ASSUME CaptureInv, Probe
    PROVE  CaptureInv'
<1> DEFINE s == todo[1]
           n == Len(scraped)
<1>a. PICK f \in Answers[Target] :
          scraped' = Append(scraped, [key |-> StoredKey, name |-> Target, fp |-> f,
                                      source |-> Head(todo), browser |-> FamilyOf[Target]])
  BY DEF Probe
<1>b. /\ Probing /\ FamilyOf[Target] # NoFamily
      /\ at' = at + 1 /\ todo' = todo
  BY DEF Probe
<1> DEFINE e == [key |-> StoredKey, name |-> Target, fp |-> f,
                 source |-> Head(todo), browser |-> FamilyOf[Target]]
<1>c. /\ Head(todo) = s /\ s \in Sources /\ at \in DOMAIN Offered[s] /\ at \in Nat \ {0}
      /\ Target = Offered[s][at] /\ Target \in OfferedNames /\ 1 \in DOMAIN todo
  BY <1>b, SourcesOffer DEF CaptureInv
<1>d. /\ scraped \in Seq(Captures) /\ todo \in Seq(Sources)
      /\ \A i, j \in DOMAIN todo : todo[i] = todo[j] => i = j
  BY DEF CaptureInv
<1>1. e \in Captures
  <2>1. Target \in Probed
    BY <1>b, <1>c DEF Probed
  <2>2. /\ StoredKey \in CaptureKeys /\ f \in UNION {Answers[m] : m \in Probed}
        /\ Head(todo) \in Sources /\ FamilyOf[Target] \in {FamilyOf[m] : m \in Probed}
    BY <2>1, <1>b, <1>c, StoredKeyIsFree
  <2> QED BY <2>1, <2>2 DEF Captures
<1>2. /\ e.key = StoredKey /\ e.name = Target /\ e.source = s
  BY <1>c
<1> HIDE DEF e
<1>3. /\ scraped' \in Seq(Captures) /\ DOMAIN scraped = 1 .. n /\ n \in Nat
      /\ DOMAIN scraped' = 1 .. (n + 1) /\ scraped'[n + 1] = e
      /\ \A i \in 1 .. n : scraped'[i] = scraped[i]
  BY <1>1, <1>a, <1>d DEF e
<1> HIDE DEF n
<1>4. \A i \in DOMAIN scraped' : i = n + 1 \/ i \in DOMAIN scraped
  BY <1>3
<1>5. n + 1 \notin DOMAIN scraped
  BY <1>3
<1>6. ASSUME NEW i \in DOMAIN scraped'
      PROVE  scraped'[i].key \in {scraped'[i].name, Tagged[scraped'[i].source][scraped'[i].name]}
  <2>1. CASE i = n + 1
    BY <2>1, <1>2, <1>3, <1>b, StoredKeyIsFree
  <2>2. CASE i \in DOMAIN scraped
    BY <2>2, <1>3 DEF CaptureInv
  <2> QED BY <2>1, <2>2, <1>4
<1>7. ASSUME NEW i \in DOMAIN scraped', NEW j \in DOMAIN scraped',
             scraped'[i].key = scraped'[j].key
      PROVE  i = j
  <2>1. ASSUME NEW h \in DOMAIN scraped PROVE scraped'[h].key # e.key
    BY <1>b, <1>2, <1>3, StoredKeyIsFree
  <2>2. CASE i \in DOMAIN scraped /\ j \in DOMAIN scraped
    BY <2>2, <1>3, <1>7 DEF CaptureInv
  <2> QED BY <2>1, <2>2, <1>3, <1>4, <1>7
<1>8. ASSUME NEW i \in DOMAIN scraped', NEW k \in DOMAIN todo', scraped'[i].source = todo'[k]
      PROVE  k = 1 /\ \E l \in DOMAIN Offered[todo'[1]] :
                         l < at' /\ scraped'[i].name = Offered[todo'[1]][l]
  <2>1. CASE i = n + 1
    <3>1. k = 1
      BY <2>1, <1>2, <1>3, <1>8, <1>b, <1>c, <1>d
    <3>2. at < at' /\ scraped'[i].name = Offered[todo'[1]][at] /\ at \in DOMAIN Offered[todo'[1]]
      BY <2>1, <1>2, <1>3, <1>b, <1>c
    <3> QED BY <3>1, <3>2
  <2>2. CASE i \in DOMAIN scraped
    <3>1. scraped'[i] = scraped[i] /\ todo'[k] = todo[k] /\ k \in DOMAIN todo
      BY <2>2, <1>3, <1>b
    <3>2. k = 1 /\ \E l \in DOMAIN Offered[todo[1]] :
                      l < at /\ scraped[i].name = Offered[todo[1]][l]
      BY <2>2, <3>1, <1>8 DEF CaptureInv
    <3>3. PICK l \in DOMAIN Offered[todo[1]] : l < at /\ scraped[i].name = Offered[todo[1]][l]
      BY <3>2
    <3>4. l \in Nat
      <4>1. Offered[s] \in Seq(OfferedNames)
        BY <1>c, OfferAssumption
      <4> QED BY <4>1, <3>3
    <3>5. l < at'
      BY <3>3, <3>4, <1>b, <1>c
    <3> QED BY <3>1, <3>2, <3>3, <3>5, <1>b
  <2> QED BY <2>1, <2>2, <1>4
<1>9. /\ at' \in Nat \ {0} /\ todo' \in Seq(Sources)
      /\ \A i, j \in DOMAIN todo' : todo'[i] = todo'[j] => i = j
  BY <1>b, <1>c, <1>d
<1> QED BY <1>3, <1>6, <1>7, <1>8, <1>9 DEF CaptureInv

LEMMA ProbeFailsCaptures ==
    ASSUME CaptureInv, ProbeFails
    PROVE  CaptureInv'
<1>a. Probing /\ at' = at + 1 /\ UNCHANGED <<todo, scraped>>
  BY DEF ProbeFails
<1>b. at \in Nat \ {0} /\ todo[1] \in Sources
  BY <1>a, SourcesOffer DEF CaptureInv
<1>1. \A l \in DOMAIN Offered[todo[1]] : l < at => l < at'
  <2>1. Offered[todo[1]] \in Seq(OfferedNames)
    BY <1>b, OfferAssumption
  <2> QED BY <2>1, <1>a, <1>b
<1>2. at' \in Nat \ {0}
  BY <1>a, <1>b
<1> QED BY <1>1, <1>2, <1>a DEF CaptureInv

LEMMA NextSourceCaptures ==
    ASSUME CaptureInv, NextSource
    PROVE  CaptureInv'
<1>a. todo # <<>> /\ todo' = Tail(todo) /\ at' = 1 /\ scraped' = scraped
  BY DEF NextSource
<1>b. /\ scraped \in Seq(Captures) /\ todo \in Seq(Sources)
      /\ \A i, j \in DOMAIN todo : todo[i] = todo[j] => i = j
  BY DEF CaptureInv
<1>1. /\ todo' \in Seq(Sources) /\ DOMAIN todo' \subseteq Nat \ {0}
      /\ \A k \in DOMAIN todo' : k + 1 \in DOMAIN todo /\ todo'[k] = todo[k + 1]
  BY <1>a, <1>b
<1>2. \A i, j \in DOMAIN todo' : todo'[i] = todo'[j] => i = j
  BY <1>1, <1>b
<1>3. ASSUME NEW i \in DOMAIN scraped, NEW k \in DOMAIN todo', scraped[i].source = todo'[k]
      PROVE  FALSE
  <2>1. k + 1 = 1
    BY <1>1, <1>3 DEF CaptureInv
  <2> QED BY <1>1, <2>1
<1>4. /\ \A i \in DOMAIN scraped :
          /\ scraped[i].key \in {scraped[i].name, Tagged[scraped[i].source][scraped[i].name]}
          /\ \A j \in DOMAIN scraped : scraped[i].key = scraped[j].key => i = j
  BY DEF CaptureInv
<1> QED BY <1>1, <1>2, <1>3, <1>4, <1>a, <1>b DEF CaptureInv

LEMMA NothingCaptured ==
    ASSUME scraped' = <<>>, at' = 1, todo' \in Seq(Sources),
           \A i, j \in DOMAIN todo' : todo'[i] = todo'[j] => i = j
    PROVE  CaptureInv'
<1>1. scraped' \in Seq(Captures) /\ DOMAIN scraped' = {}
  OBVIOUS
<1> QED BY <1>1 DEF CaptureInv

LEMMA ExitCaptures ==
    ASSUME Exit PROVE CaptureInv'
<1>1. /\ scraped' = <<>> /\ at' = 1 /\ todo' = <<>>
  BY DEF Exit
<1>2. todo' \in Seq(Sources) /\ DOMAIN todo' = {}
  BY <1>1
<1> QED BY <1>1, <1>2, NothingCaptured

LEMMA CapturesKept ==
    ASSUME CaptureInv, [Next]_vars PROVE CaptureInv'
<1>1. ASSUME NEW job \in Jobs, Start(job) PROVE CaptureInv'
  <2>1. scraped' = <<>> /\ at' = 1 /\ todo' = job.sources
    BY <1>1 DEF Start
  <2> QED BY <2>1, NothingCaptured, JobAssumption
<1>2. CASE LoadExisting
  <2>1. UNCHANGED <<todo, at, scraped>> \/ Exit
    BY <1>2 DEF LoadExisting
  <2> QED BY <2>1, ExitCaptures DEF CaptureInv
<1>3. CASE WriteTypes \/ Interrupt
  BY <1>3, ExitCaptures DEF WriteTypes, Interrupt
<1>4. CASE \/ EndScrape \/ Rebuild \/ (\E i \in pending : AugmentNext(i)) \/ EndAugment
           \/ OpenFile \/ WriteTable \/ OpenTypes \/ Finished \/ UNCHANGED vars
  <2>1. UNCHANGED <<todo, at, scraped>>
    BY <1>4 DEF EndScrape, Rebuild, AugmentNext, EndAugment, OpenFile, WriteTable, OpenTypes,
                Finished, vars, jobVars
  <2> QED BY <2>1 DEF CaptureInv
<1> QED BY <1>1, <1>2, <1>3, <1>4, ProbeCaptures, ProbeFailsCaptures, NextSourceCaptures
        DEF Next
-----------------------------------------------------------------------------
(***************************************************************************)
(* Adding to a table.                                                      *)
(***************************************************************************)
LEMMA MeaningChains ==
    ASSUME NEW a, NEW b, NEW c, SameMeaning(a, b), SameMeaning(b, c)
    PROVE  SameMeaning(a, c)
  BY DEF SameMeaning

\* A normalised name that is not listed takes no name's meaning away when it is added.
LEMMA AddingKeepsNames ==
    ASSUME NEW old, NEW new, NEW b \in Names, NormOf[b] = b, b \notin Listed(old),
           Whole(old), Whole(new),
           DOMAIN old.targets \subseteq DOMAIN new.targets,
           DOMAIN new.targets \subseteq DOMAIN old.targets \cup {b},
           \A n \in DOMAIN old.targets : new.targets[n] = old.targets[n],
           DOMAIN new.aliases = DOMAIN old.aliases \cup {b},
           \A n \in DOMAIN old.aliases : new.aliases[n] = old.aliases[n]
    PROVE  SameMeaning(old, new)
<1>1. ASSUME NEW n \in Names, Resolve(old, n) # NoName
      PROVE  Resolve(new, n) = Resolve(old, n) /\ Resolve(old, n) \in DOMAIN old.targets
  <2>1. \A m \in DOMAIN old.aliases : HasAlias(old, m) /\ HasAlias(new, m)
    BY DEF HasAlias, Whole
  <2>2. CASE n \in DOMAIN old.targets
    BY <2>2 DEF Resolve
  <2>3. CASE n \notin DOMAIN old.targets /\ n \in DOMAIN old.aliases
    <3>1. n \notin DOMAIN new.targets
      BY <2>3 DEF Listed
    <3> QED BY <2>1, <2>3, <3>1 DEF Resolve, HasAlias
  <2>4. CASE n \notin DOMAIN old.targets /\ n \notin DOMAIN old.aliases
    <3>1. NormOf[n] \in DOMAIN old.aliases /\ Resolve(old, n) = old.aliases[NormOf[n]]
      BY <1>1, <2>4 DEF Resolve, HasAlias
    <3>2. n # b
      BY <3>1 DEF Listed
    <3>3. n \notin DOMAIN new.targets /\ n \notin DOMAIN new.aliases
      BY <2>4, <3>2
    <3>4. Resolve(new, n) = new.aliases[NormOf[n]]
      BY <2>1, <3>1, <3>3 DEF Resolve, HasAlias
    <3> QED BY <2>1, <3>1, <3>4 DEF HasAlias
  <2> QED BY <2>2, <2>3, <2>4
<1> QED BY <1>1 DEF SameMeaning

LEMMA NothingIsWhole == Whole(NoTable)
<1>1. DOMAIN Empty = {}
  BY DEF Empty
<1>2. NoTable.targets = Empty /\ NoTable.aliases = Empty
  BY DEF NoTable
<1>3. NoTable = [targets |-> NoTable.targets, aliases |-> NoTable.aliases]
  BY DEF NoTable
<1> QED BY <1>1, <1>2, <1>3, FS_EmptySet DEF Whole, Listed

\* The names that augment() works with.
LEMMA BaseIsNormal ==
    ASSUME CaptureInv, NEW i \in DOMAIN scraped
    PROVE  Base(i) \in Names /\ NormOf[Base(i)] = Base(i)
<1>1. scraped[i].name \in Names
  BY Entries, OfferAssumption DEF Captures, Probed, CaptureKeys
<1> QED BY <1>1, NormAssumption DEF Base

LEMMA UniqueNameIsFree ==
    ASSUME CaptureInv, NEW i \in DOMAIN scraped, NEW name \in UniqueName(Base(i))
    PROVE  name \in Names /\ NormOf[name] = name /\ name \notin Listed(draft)
<1> DEFINE b == Base(i)
<1>1. b \in Names /\ NormOf[b] = b
  BY BaseIsNormal
<1> HIDE DEF b
<1>2. CASE ~Taken(b)
  BY <1>1, <1>2 DEF UniqueName, Taken, b
<1>3. CASE Taken(b)
  <2>1. PICK v \in FirstFree(b) : name = Variants[b][v]
    BY <1>3 DEF UniqueName, b
  <2>2. v \in DOMAIN Variants[b] /\ ~Taken(Variants[b][v])
    BY DEF FirstFree, FreeVariants
  <2> QED BY <1>1, <2>1, <2>2, VariantAssumption DEF Taken
<1> QED BY <1>2, <1>3

\* What a step of augment() on entry i leaves.
Added(i) == Whole(draft') /\ SameMeaning(draft, draft') /\ Stores(draft', scraped[i].fp)
            /\ \A f : Stores(draft, f) => Stores(draft', f)

LEMMA WiringAdds ==
    ASSUME CaptureInv, Whole(draft), NEW i \in DOMAIN scraped, WireDuplicate(i)
    PROVE  Added(i)
<1> DEFINE b == Base(i)
<1>1. b \in Names /\ NormOf[b] = b
  BY BaseIsNormal
<1>2. PICK c \in Known(scraped[i].fp) :
          draft' = IF Taken(b) THEN draft
                   ELSE [draft EXCEPT !.aliases = Put(@, b, c)]
  BY DEF WireDuplicate
<1>3. c \in DOMAIN draft.targets /\ draft.targets[c].fp = scraped[i].fp
  BY DEF Known
<1>4. Stores(draft, scraped[i].fp)
  BY <1>3 DEF Stores
<1> HIDE DEF b
<1>5. CASE Taken(b)
  <2>1. draft' = draft
    BY <1>2, <1>5
  <2>2. SameMeaning(draft, draft)
    BY DEF SameMeaning
  <2>3. Whole(draft') /\ SameMeaning(draft, draft') /\ Stores(draft', scraped[i].fp)
    BY <2>1, <2>2, <1>4
  <2> QED BY <2>1, <2>3 DEF Added
<1>6. CASE ~Taken(b)
  <2>1. b \notin Listed(draft)
    BY <1>6 DEF Taken
  <2>2. draft = [targets |-> draft.targets, aliases |-> draft.aliases]
    BY DEF Whole
  <2>3. draft' = [targets |-> draft.targets, aliases |-> Put(draft.aliases, b, c)]
    BY <1>2, <1>6, <2>2
  <2>4. draft'.targets = draft.targets /\ draft'.aliases = Put(draft.aliases, b, c)
    BY <2>3
  <2>5. /\ DOMAIN draft'.aliases = DOMAIN draft.aliases \cup {b}
        /\ \A n \in DOMAIN draft.aliases : draft'.aliases[n] = draft.aliases[n]
        /\ draft'.aliases[b] = c
    BY <2>1, <2>4 DEF Put, Listed
  <2>6. Whole(draft')
    <3>1. draft' = [targets |-> draft'.targets, aliases |-> draft'.aliases]
      BY <2>3, <2>4
    <3>2. Listed(draft') \subseteq Names /\ IsFiniteSet(DOMAIN draft'.targets)
      BY <1>1, <2>4, <2>5 DEF Listed, Whole
    <3>3. \A n \in DOMAIN draft'.aliases : draft'.aliases[n] \in DOMAIN draft'.targets
      BY <1>3, <2>4, <2>5 DEF Whole
    <3>4. \A m, n \in DOMAIN draft'.targets :
              draft'.targets[m].fp = draft'.targets[n].fp => m = n
      BY <2>4 DEF Whole
    <3> QED BY <3>1, <3>2, <3>3, <3>4 DEF Whole
  <2>7. SameMeaning(draft, draft')
    BY <1>1, <2>1, <2>4, <2>5, <2>6, AddingKeepsNames
  <2>8. \A f : Stores(draft, f) => Stores(draft', f)
    BY <2>4 DEF Stores
  <2> QED BY <1>4, <2>6, <2>7, <2>8 DEF Added
<1> QED BY <1>5, <1>6

LEMMA AddingAdds ==
    ASSUME CaptureInv, Whole(draft), NEW i \in DOMAIN scraped, AddNew(i)
    PROVE  Added(i)
<1>1. PICK b \in UniqueName(Base(i)) :
          draft' = [targets |-> Put(draft.targets, b, Profile(i)),
                    aliases |-> SetDefault(SetDefault(draft.aliases, b, b), NormOf[b], b)]
  BY DEF AddNew
<1>2. b \in Names /\ NormOf[b] = b /\ b \notin Listed(draft)
  BY UniqueNameIsFree
<1>3. b \notin DOMAIN draft.targets /\ b \notin DOMAIN draft.aliases
  BY <1>2 DEF Listed
<1>4. SetDefault(SetDefault(draft.aliases, b, b), NormOf[b], b) = Put(draft.aliases, b, b)
  BY <1>2, <1>3 DEF SetDefault, Put
<1>5. /\ draft' = [targets |-> draft'.targets, aliases |-> draft'.aliases]
      /\ draft'.targets = Put(draft.targets, b, Profile(i))
      /\ draft'.aliases = Put(draft.aliases, b, b)
  BY <1>1, <1>4
<1>6. /\ DOMAIN draft'.targets = DOMAIN draft.targets \cup {b}
      /\ \A n \in DOMAIN draft.targets : draft'.targets[n] = draft.targets[n]
      /\ draft'.targets[b] = Profile(i)
  BY <1>3, <1>5 DEF Put
<1>7. /\ DOMAIN draft'.aliases = DOMAIN draft.aliases \cup {b}
      /\ \A n \in DOMAIN draft.aliases : draft'.aliases[n] = draft.aliases[n]
      /\ draft'.aliases[b] = b
  BY <1>3, <1>5 DEF Put
<1>8. Profile(i).fp = scraped[i].fp
  BY DEF Profile
<1>9. \A n \in DOMAIN draft.targets : draft.targets[n].fp # scraped[i].fp
  BY DEF AddNew, Known
<1>10. Whole(draft')
  <2>1. Listed(draft') \subseteq Names
    BY <1>2, <1>6, <1>7 DEF Listed, Whole
  <2>2. IsFiniteSet(DOMAIN draft'.targets)
    BY <1>6, FS_AddElement DEF Whole
  <2>3. \A n \in DOMAIN draft'.aliases : draft'.aliases[n] \in DOMAIN draft'.targets
    BY <1>6, <1>7 DEF Whole
  <2>4. ASSUME NEW m \in DOMAIN draft'.targets, NEW n \in DOMAIN draft'.targets,
               draft'.targets[m].fp = draft'.targets[n].fp
        PROVE  m = n
    <3>1. \A l \in DOMAIN draft.targets : draft'.targets[l].fp # draft'.targets[b].fp
      BY <1>6, <1>8, <1>9
    <3>2. CASE m \in DOMAIN draft.targets /\ n \in DOMAIN draft.targets
      BY <3>2, <2>4, <1>6 DEF Whole
    <3> QED BY <3>1, <3>2, <2>4, <1>6
  <2> QED BY <1>5, <2>1, <2>2, <2>3, <2>4 DEF Whole
<1>11. SameMeaning(draft, draft')
  BY <1>2, <1>6, <1>7, <1>10, AddingKeepsNames
<1>12. Stores(draft', scraped[i].fp)
  BY <1>6, <1>8 DEF Stores
<1>13. \A f : Stores(draft, f) => Stores(draft', f)
  BY <1>6 DEF Stores
<1> QED BY <1>10, <1>11, <1>12, <1>13 DEF Added
-----------------------------------------------------------------------------
(***************************************************************************)
(* The invariant.                                                          *)
(***************************************************************************)
LEMMA TableInit == Init => TableInv
<1> SUFFICES ASSUME Init PROVE TableInv
  OBVIOUS
<1>a. /\ table = InitialTable /\ intact = TRUE /\ literal = InitialLiteral /\ torn = FALSE
      /\ phase = "idle" /\ mode = "full"
      /\ todo = <<>> /\ at = 1 /\ scraped = <<>>
      /\ draft = NoTable /\ pending = {} /\ jobs = 0
  BY DEF Init
<1>b. DOMAIN scraped = {} /\ DOMAIN todo = {}
  BY <1>a
<1>1. Whole(table)
  <2>1. IsFiniteSet(DOMAIN table.targets)
    BY <1>a, InitialAssumption, FS_Subset DEF Listed
  <2> QED BY <1>a, <2>1, InitialAssumption DEF Whole
<1>2. CaptureInv
  BY <1>a, <1>b DEF CaptureInv
<1>3. DraftInv
  BY <1>a, <1>b, <1>1, NothingIsWhole DEF DraftInv
<1>4. TypeOK
  <2>1. jobs \in 0 .. MaxJobs
    BY <1>a, JobAssumption
  <2>2. literal \subseteq Names
    BY <1>a, InitialAssumption
  <2>3. DOMAIN table.targets \subseteq Names /\ DOMAIN table.aliases \subseteq Names
    BY <1>1 DEF Whole, Listed
  <2>4. intact \in BOOLEAN /\ torn \in BOOLEAN
    BY <1>a
  <2>5. at \in Nat \ {0}
    BY <1>a
  <2> QED BY <1>a, <1>b, <2>1, <2>2, <2>3, <2>4, <2>5 DEF TypeOK
<1> QED BY <1>2, <1>3, <1>4, SyncInit DEF TableInv

\* A step that leaves the tables alone and is neither in augment nor late in a job.
LEMMA EarlyStep ==
    ASSUME DraftInv, UNCHANGED <<table, draft, pending>>, phase # "augment",
           phase' \notin {"augment", "open", "write", "openTypes", "writeTypes"},
           phase' = "rebuild" => mode' = "full",
           phase' = "load" => mode' = "augment"
    PROVE  DraftInv'
<1>1. Whole(table') /\ Whole(draft') /\ pending' = {}
  BY DEF DraftInv
<1> QED BY <1>1 DEF DraftInv

LEMMA RebuiltKept ==
    ASSUME UNCHANGED scraped PROVE Rebuilt' = Rebuilt
  BY DEF Rebuilt, Winners, Winner, Twins, Profile, Spellings, AliasOf, Losers, LoserBefore,
         TargetBefore, Group, RankedBefore, Preference

\* A step from a phase with a finished draft to another.
LEMMA LateStep ==
    ASSUME DraftInv, UNCHANGED <<draft, mode, scraped, pending>>,
           phase \in {"augment", "open", "write", "openTypes"}, phase = "augment" => pending = {},
           phase' \in {"open", "write", "openTypes", "writeTypes"}, Whole(table')
    PROVE  DraftInv'
<1>1. Rebuilt' = Rebuilt
  BY RebuiltKept
<1>2. Whole(draft') /\ pending' = {}
  BY DEF DraftInv
<1>3. \A i \in DOMAIN scraped' \ pending' : Stores(draft', scraped'[i].fp)
  BY DEF DraftInv
<1>4. mode' = "full" => draft' = Rebuilt'
  BY <1>1 DEF DraftInv
<1> QED BY <1>2, <1>3, <1>4 DEF DraftInv

LEMMA ExitKeepsDrafts ==
    ASSUME DraftInv, Exit, table' = table
    PROVE  DraftInv'
<1>1. phase' = "idle" /\ pending' = {} /\ draft' = NoTable
  BY DEF Exit
<1>2. Whole(table') /\ Whole(draft')
  BY <1>1, NothingIsWhole DEF DraftInv
<1> QED BY <1>1, <1>2 DEF DraftInv

LEMMA AugmentDrafts ==
    ASSUME TableInv, NEW i \in pending, AugmentNext(i)
    PROVE  DraftInv' /\ SameMeaning(table, draft')
<1>a. /\ phase = "augment" /\ phase' = "augment" /\ pending' = pending \ {i}
      /\ UNCHANGED <<table, mode, scraped>>
      /\ WireDuplicate(i) \/ AddNew(i)
  BY DEF AugmentNext, Goto, fileVars
<1>b. /\ i \in DOMAIN scraped /\ CaptureInv /\ Whole(draft) /\ Whole(table)
      /\ mode = "augment" /\ SameMeaning(table, draft)
      /\ \A j \in DOMAIN scraped \ pending : Stores(draft, scraped[j].fp)
  BY <1>a DEF TableInv, TypeOK, DraftInv
<1>1. Added(i)
  BY <1>a, <1>b, WiringAdds, AddingAdds
<1>2. SameMeaning(table, draft')
  BY <1>1, <1>b, MeaningChains DEF Added
<1>3. SameMeaning(table', draft')
  BY <1>2, <1>a
<1>4. Whole(table') /\ Whole(draft')
  BY <1>1, <1>a, <1>b DEF Added
<1>5. \A j \in DOMAIN scraped' \ pending' : Stores(draft', scraped'[j].fp)
  BY <1>1, <1>a, <1>b DEF Added
<1> QED BY <1>2, <1>3, <1>4, <1>5, <1>a, <1>b DEF DraftInv

LEMMA DraftsKept ==
    ASSUME TableInv, [Next]_vars PROVE DraftInv'
<1>i. DraftInv /\ SyncInv /\ TypeOK /\ CaptureInv
  BY DEF TableInv
<1>1. ASSUME NEW job \in Jobs, Start(job) PROVE DraftInv'
  BY <1>i, <1>1, EarlyStep DEF Start, Goto, fileVars
<1>2. CASE Probe \/ ProbeFails \/ NextSource
  BY <1>i, <1>2, EarlyStep DEF Probe, ProbeFails, NextSource, Goto, fileVars
<1>3. CASE EndScrape
  <2>1. /\ phase = "scrape" /\ UNCHANGED <<table, draft, pending, mode>>
        /\ phase' = IF mode = "augment" THEN "load" ELSE "rebuild"
    BY <1>3 DEF EndScrape, Goto, fileVars, jobVars
  <2>2. mode \in {"full", "augment"}
    BY <1>i DEF TypeOK
  <2> QED BY <1>i, <2>1, <2>2, EarlyStep
<1>4. CASE Rebuild
  <2>1. /\ phase = "rebuild" /\ phase' = "open" /\ draft' = Rebuilt
        /\ UNCHANGED <<table, mode, scraped, pending>>
    BY <1>4 DEF Rebuild, Goto, fileVars
  <2>2. Whole(draft') /\ \A i \in DOMAIN scraped : Stores(draft', scraped[i].fp)
    BY <1>i, <2>1, RebuiltIsWhole
  <2>3. Whole(table') /\ pending' = {}
    BY <1>i, <2>1 DEF DraftInv
  <2>4. draft' = Rebuilt'
    BY <2>1, RebuiltKept
  <2> QED BY <2>1, <2>2, <2>3, <2>4 DEF DraftInv
<1>5. CASE LoadExisting
  <2>1. CASE Exit
    BY <1>i, <1>5, <2>1, ExitKeepsDrafts DEF LoadExisting, fileVars
  <2>2. CASE ~Exit
    <3>1. /\ phase = "load" /\ phase' = "augment" /\ draft' = table
          /\ pending' = DOMAIN scraped /\ UNCHANGED <<table, mode, scraped>>
      BY <1>5, <2>2 DEF LoadExisting, Goto, fileVars
    <3>2. Whole(table') /\ Whole(draft') /\ mode' = "augment"
      BY <1>i, <3>1 DEF DraftInv
    <3>3. SameMeaning(table', draft')
      BY <3>1 DEF SameMeaning
    <3> QED BY <3>1, <3>2, <3>3 DEF DraftInv
  <2> QED BY <2>1, <2>2
<1>6. ASSUME NEW i \in pending, AugmentNext(i) PROVE DraftInv'
  BY <1>6, AugmentDrafts
<1>7. CASE EndAugment
  BY <1>i, <1>7, LateStep DEF EndAugment, Goto, fileVars, jobVars, DraftInv
<1>8. CASE OpenFile
  <2>1. Whole(table')
    BY <1>8, NothingIsWhole DEF OpenFile
  <2> QED BY <1>i, <1>8, <2>1, LateStep DEF OpenFile, Goto, jobVars
<1>9. CASE WriteTable
  <2>1. Whole(table')
    BY <1>i, <1>9 DEF WriteTable, DraftInv
  <2> QED BY <1>i, <1>9, <2>1, LateStep DEF WriteTable, Goto, jobVars
<1>10. CASE OpenTypes
  <2>1. Whole(table')
    BY <1>i, <1>10 DEF OpenTypes, DraftInv
  <2> QED BY <1>i, <1>10, <2>1, LateStep DEF OpenTypes, Goto, jobVars
<1>11. CASE WriteTypes \/ Interrupt
  BY <1>i, <1>11, ExitKeepsDrafts DEF WriteTypes, Interrupt
<1>12. CASE UNCHANGED vars
  <2>1. UNCHANGED <<table, draft, pending, mode, scraped, phase>>
    BY <1>12 DEF vars, fileVars, jobVars
  <2>2. Rebuilt' = Rebuilt
    BY <2>1, RebuiltKept
  <2>3. SameMeaning(table, draft) <=> SameMeaning(table', draft')
    BY <2>1
  <2> QED BY <1>i, <2>1, <2>2, <2>3 DEF DraftInv
<1>13. CASE Finished
  BY <1>12, <1>13 DEF Finished
<1> QED BY <1>1, <1>2, <1>3, <1>4, <1>5, <1>6, <1>7, <1>8, <1>9, <1>10, <1>11, <1>12, <1>13
        DEF Next

LEMMA TypesKept ==
    ASSUME TableInv, [Next]_vars, CaptureInv', DraftInv', SyncInv' PROVE TypeOK'
<1>i. DraftInv /\ SyncInv /\ TypeOK /\ CaptureInv
  BY DEF TableInv
<1>1. DOMAIN table'.targets \subseteq Names /\ DOMAIN table'.aliases \subseteq Names
  BY DEF DraftInv, Whole, Listed
<1>2. /\ \A i \in DOMAIN scraped' : scraped'[i].key \in Names /\ scraped'[i].name \in Names
      /\ \A i, j \in DOMAIN scraped' : scraped'[i].key = scraped'[j].key => i = j
      /\ at' \in Nat \ {0}
  <2>1. \A i \in DOMAIN scraped' : scraped'[i] \in Captures
    <3>1. scraped' \in Seq(Captures)
      BY DEF CaptureInv
    <3> QED BY <3>1
  <2>2. \A i \in DOMAIN scraped' : scraped'[i].key \in CaptureKeys /\ scraped'[i].name \in Probed
    BY <2>1 DEF Captures
  <2>3. \A i \in DOMAIN scraped' : scraped'[i].key \in Names /\ scraped'[i].name \in Names
    BY <2>2, OfferAssumption DEF CaptureKeys, Probed
  <2> QED BY <2>3 DEF CaptureInv
<1>3. intact' \in BOOLEAN /\ torn' \in BOOLEAN
  BY <1>i DEF SyncInv, TypeOK, Next, Start, Probe, ProbeFails, NextSource, EndScrape, Rebuild,
     LoadExisting, AugmentNext, EndAugment, OpenFile, WriteTable, OpenTypes, WriteTypes, Interrupt,
     Finished, vars, fileVars
<1>4. literal' \subseteq Names
  <2>1. CASE WriteTypes
    BY <1>i, <2>1 DEF WriteTypes, DraftInv, Whole
  <2>2. CASE ~WriteTypes
    <3>1. literal' \in {literal, {}}
      BY <2>2 DEF Next, Start, Probe, ProbeFails, NextSource, EndScrape, Rebuild,
         LoadExisting, AugmentNext, EndAugment, OpenFile, WriteTable, OpenTypes, Interrupt,
         Finished, vars, fileVars
    <3> QED BY <3>1, <1>i DEF TypeOK
  <2> QED BY <2>1, <2>2
<1>5. phase' \in {"idle", "scrape", "rebuild", "load", "augment",
                "open", "write", "openTypes", "writeTypes"}
  BY <1>i DEF TypeOK, Next, Goto, Exit, Start, Probe, ProbeFails, NextSource, EndScrape, Rebuild,
     LoadExisting, AugmentNext, EndAugment, OpenFile, WriteTable, OpenTypes, WriteTypes, Interrupt,
     Finished, vars
<1>6. mode' \in {"full", "augment"} /\ jobs' \in 0 .. MaxJobs
  <2>1. ASSUME NEW job \in Jobs, Start(job) PROVE mode' = job.mode /\ jobs' = jobs + 1
    BY <2>1 DEF Start
  <2>2. CASE \E job \in Jobs : Start(job)
    <3>1. PICK job \in Jobs : Start(job)
      BY <2>2
    <3>2. mode' \in {"full", "augment"}
      BY <3>1, <2>1, JobAssumption
    <3>3. jobs' = jobs + 1 /\ jobs < MaxJobs /\ jobs \in 0 .. MaxJobs
      BY <3>1, <2>1, <1>i DEF Start, TypeOK
    <3> QED BY <3>2, <3>3, JobAssumption
  <2>3. CASE ~ \E job \in Jobs : Start(job)
    <3>1. jobs' = jobs /\ mode' \in {mode, "full"}
      BY <2>3 DEF Next, Exit, Probe, ProbeFails, NextSource, EndScrape, Rebuild,
         LoadExisting, AugmentNext, EndAugment, OpenFile, WriteTable, OpenTypes, WriteTypes,
         Interrupt, Finished, vars, jobVars
    <3> QED BY <3>1, <1>i DEF TypeOK
  <2> QED BY <2>2, <2>3
<1>7. pending' \subseteq DOMAIN scraped'
  <2>1. CASE phase' # "augment"
    BY <2>1 DEF DraftInv
  <2>2. CASE phase' = "augment"
    <3>1. CASE LoadExisting
      BY <2>2, <3>1 DEF LoadExisting, Exit, Goto
    <3>2. CASE \E i \in pending : AugmentNext(i)
      BY <3>2, <1>i DEF AugmentNext, TypeOK
    <3>3. CASE UNCHANGED vars
      BY <3>3, <1>i DEF vars, jobVars, TypeOK
    <3> QED BY <2>2, <3>1, <3>2, <3>3 DEF Next, Goto, Exit, Start, Probe, ProbeFails, NextSource,
                EndScrape, Rebuild, EndAugment, OpenFile, WriteTable, OpenTypes, WriteTypes,
                Interrupt, Finished
  <2> QED BY <2>1, <2>2
<1> QED BY <1>1, <1>2, <1>3, <1>4, <1>5, <1>6, <1>7 DEF TypeOK

LEMMA TableStep == TableInv /\ [Next]_vars => TableInv'
<1> SUFFICES ASSUME TableInv, [Next]_vars PROVE TableInv'
  OBVIOUS
<1>1. CaptureInv' /\ SyncInv'
  BY CapturesKept, StepKeeps DEF TableInv
<1>2. DraftInv'
  BY DraftsKept
<1>3. TypeOK'
  BY <1>1, <1>2, TypesKept
<1> QED BY <1>1, <1>2, <1>3 DEF TableInv

LEMMA TableAlways == Spec => []TableInv
  BY TableInit, TableStep, PTL DEF Spec
-----------------------------------------------------------------------------
(***************************************************************************)
(* The theorems.                                                           *)
(***************************************************************************)
\* The variables of the job keep their types, and the keys of the captures stay unique.
THEOREM TypeCorrect == Spec => []TypeOK
<1>1. TableInv => TypeOK
  BY DEF TableInv
<1> QED BY TableAlways, <1>1, PTL

(***************************************************************************)
(* Whatever jobs have run, and wherever they were stopped, every name that *)
(* presets.py lists resolves: build_aliases and augment leave no alias     *)
(* without a target.                                                       *)
(***************************************************************************)
THEOREM NamesResolve == Spec => []ListedNamesResolve
<1>1. ASSUME NEW t, Whole(t), NEW n \in Listed(t) PROVE Resolve(t, n) # NoName
  <2>1. NoName \notin DOMAIN t.targets
    BY <1>1, NormAssumption DEF Whole, Listed
  <2>2. CASE n \in DOMAIN t.targets
    BY <2>1, <2>2 DEF Resolve
  <2>3. CASE n \notin DOMAIN t.targets
    <3>1. HasAlias(t, n)
      BY <1>1, <2>3 DEF HasAlias, Whole, Listed
    <3> QED BY <2>1, <2>3, <3>1 DEF Resolve, HasAlias
  <2> QED BY <2>2, <2>3
<1>2. TableInv => ListedNamesResolve
  BY <1>1 DEF TableInv, DraftInv, ListedNamesResolve
<1> QED BY TableAlways, <1>2, PTL

(***************************************************************************)
(* The table holds no fingerprint twice, and when a job has written it,    *)
(* every fingerprint the job captured is in there, as a target (rebuild)   *)
(* or as one that was there already (augment).                             *)
(***************************************************************************)
THEOREM EachStoredOnce == Spec => []StoredOnce
<1>1. ASSUME Whole(table)
      PROVE  Cardinality({table.targets[n].fp : n \in DOMAIN table.targets})
                 = Cardinality(DOMAIN table.targets)
  <2> DEFINE D == DOMAIN table.targets
             T == {table.targets[n].fp : n \in D}
             f == [n \in D |-> table.targets[n].fp]
  <2>1. f \in Bijection(D, T)
    BY <1>1 DEF Whole, Bijection, Injection, Surjection, IsInjective
  <2>2. IsFiniteSet(D)
    BY <1>1 DEF Whole
  <2> HIDE DEF f
  <2>3. ExistsBijection(D, T)
    BY <2>1 DEF ExistsBijection
  <2> QED BY <2>2, <2>3, FS_Bijection
<1>2. ASSUME TableInv, phase = "openTypes", NEW i \in DOMAIN scraped
      PROVE  \E n \in DOMAIN table.targets : table.targets[n].fp = scraped[i].fp
  <2>1. table = draft /\ pending = {} /\ Stores(draft, scraped[i].fp)
    BY <1>2 DEF TableInv, SyncInv, DraftInv
  <2> QED BY <2>1 DEF Stores
<1>3. TableInv => StoredOnce
  BY <1>1, <1>2 DEF TableInv, DraftInv, StoredOnce
<1> QED BY TableAlways, <1>3, PTL

(***************************************************************************)
(* After a full rebuild every captured name leads to the fingerprint that  *)
(* was captured under it, also a name dedupe_targets dropped, or to that   *)
(* of a dropped name of which it is the normal form.                       *)
(***************************************************************************)
THEOREM DroppedNamesAreFound == Spec => []DroppedNamesResolve
<1>1. ASSUME TableInv, phase = "openTypes", mode = "full" PROVE table = Rebuilt /\ CaptureInv
  BY <1>1 DEF TableInv, SyncInv, DraftInv
<1>2. TableInv => DroppedNamesResolve
  BY <1>1, RebuiltResolves DEF DroppedNamesResolve, LeadsTo
<1> QED BY TableAlways, <1>2, PTL

(***************************************************************************)
(* No step of augment() changes what a name of the old table means.        *)
(***************************************************************************)
THEOREM AugmentPreserves == Spec => AugmentKeepsNames
<1>1. ASSUME TableInv, [Next]_vars, phase = "augment", phase' # "idle"
      PROVE  SameMeaning(table, draft')
  <2>1. ASSUME NEW i \in pending, AugmentNext(i) PROVE SameMeaning(table, draft')
    BY <1>1, <2>1, AugmentDrafts
  <2>2. CASE EndAugment \/ UNCHANGED vars
    <3>1. draft' = draft
      BY <2>2 DEF EndAugment, jobVars, vars
    <3>2. SameMeaning(table, draft)
      BY <1>1 DEF TableInv, DraftInv
    <3> QED BY <3>1, <3>2
  <2> QED BY <1>1, <2>1, <2>2 DEF Next, Goto, Exit, Start, Probe, ProbeFails, NextSource,
              EndScrape, Rebuild, LoadExisting, OpenFile, WriteTable, OpenTypes, WriteTypes,
              Interrupt, Finished
<1>2. TableInv /\ [Next]_vars =>
          [phase = "augment" /\ phase' # "idle" => SameMeaning(table, draft')]_vars
  BY <1>1
<1> QED BY TableAlways, <1>2, PTL DEF Spec, AugmentKeepsNames
=============================================================================
