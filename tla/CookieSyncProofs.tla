-------------------------- MODULE CookieSyncProofs --------------------------
(***************************************************************************)
(* Proofs of the safety properties of CookieSync, for any sets of threads, *)
(* cookie names and values.                                                *)
(*                                                                         *)
(* A settled cookie reaches the server because nothing that touches its    *)
(* name leaves it settled (OwedInv), because the iteration that collects   *)
(* it keeps what it has read (CollectInv), and because a set to which      *)
(* names only came, or from which names only went, has another size than   *)
(* it had (ChangeInv).  The view follows the jar                           *)
(* because responses that are still to be synced list, for a name no two   *)
(* of them have raced for, what the jar has (ViewInv).                     *)
(***************************************************************************)
EXTENDS CookieSync, FiniteSetTheorems, TLAPS

\* What is owed is in the dict, marked as the user's, and not being changed.
OwedInv ==
    /\ \A n \in Names : owed[n] # NoValue =>
          /\ cookies[n] = owed[n] /\ n \in userSet
          /\ \A t \in Threads : arg[t] # n
    /\ \A t \in Threads, n \in Names : due[t][n] # NoValue => due[t][n] = owed[n]

\* What is due to a request is read as it is due, and not lost.
CollectInv ==
    /\ \A t \in Iterating, n \in Names :
          due[t][n] # NoValue /\ n \in seen[t] /\ n # found[t] => header[t][n] = due[t][n]
    /\ SettledCookiesAreSent

\* How the set that is iterated over differs from what it was.
ChangeInv ==
    \A t \in Iterating :
        /\ "added" \notin changed[t] => userSet \subseteq start[t]
        /\ "removed" \notin changed[t] => start[t] \subseteq userSet
        /\ changed[t] \in {{"added"}, {"removed"}} => userSet # start[t]

\* Names for which the view is promised to follow the jar.
Followed == Names \ (touched \cup raced)

ViewInv ==
    /\ \A t \in Threads : pc[t] # "sync" => reply[t] = Empty
    /\ \A t \in Threads, n \in Followed : reply[t][n] # NoValue => reply[t][n] = jar[n]
    /\ ViewFollowsJar

IndInv == TypeOK /\ OwedInv /\ CollectInv /\ ChangeInv /\ ViewInv
-----------------------------------------------------------------------------
LEMMA IndInvInit == Init => IndInv
  <1> SUFFICES ASSUME Init PROVE IndInv
    OBVIOUS
  <1> USE ValuesAssumption DEF Init, Given, Jars, Maybe, Having, Empty
  <1>1. TypeOK
    BY DEF TypeOK
  <1>2. OwedInv
    BY DEF OwedInv
  <1>3. CollectInv
    BY DEF CollectInv, SettledCookiesAreSent, Iterating
  <1>4. ViewInv
    BY DEF ViewInv, ViewFollowsJar
  <1>5. ChangeInv
    BY DEF ChangeInv, Iterating
  <1> QED
    BY <1>1, <1>2, <1>3, <1>4, <1>5 DEF IndInv

-----------------------------------------------------------------------------
(***************************************************************************)
(* The user's changes: what they touch is not settled any more, until it   *)
(* is marked.                                                              *)
(***************************************************************************)
LEMMA UnsettleTypes ==
    ASSUME TypeOK, NEW N \in SUBSET Names, Unsettle(N)
    PROVE  /\ owed' \in Jars(UserValues) /\ due' \in [Threads -> Jars(UserValues)]
           /\ \A n \in N : owed'[n] = NoValue /\ \A t \in Threads : due'[t][n] = NoValue
           /\ \A n \in Names \ N :
                 owed'[n] = owed[n] /\ \A t \in Threads : due'[t][n] = due[t][n]
  BY DEF TypeOK, Unsettle, Jars, Maybe

LEMMA SetCookieKeeps ==
    ASSUME IndInv, NEW t \in Threads, NEW n \in Names, NEW v \in UserValues, SetCookie(t, n, v)
    PROVE  IndInv'
  <1> USE ValuesAssumption DEF IndInv
  <1>a. /\ pc[t] = "idle" /\ pc' = [pc EXCEPT ![t] = "add"]
        /\ arg' = [arg EXCEPT ![t] = n]
        /\ cookies' = [cookies EXCEPT ![n] = v]
        /\ touched' = touched \cup {n}
        /\ UNCHANGED <<userSet, jar, start, header, seen, found, changed, reply, raced>>
    BY DEF SetCookie, Goto, reqVars
  <1>b. /\ owed' \in Jars(UserValues) /\ due' \in [Threads -> Jars(UserValues)]
        /\ owed'[n] = NoValue /\ \A u \in Threads : due'[u][n] = NoValue
        /\ \A m \in Names \ {n} :
              owed'[m] = owed[m] /\ \A u \in Threads : due'[u][m] = due[u][m]
    BY UnsettleTypes DEF SetCookie
  <1>1. TypeOK'
    BY <1>a, <1>b DEF TypeOK, Jars, Maybe
  <1>2. OwedInv'
    <2>1. /\ \A m \in Names \ {n} : cookies'[m] = cookies[m]
          /\ \A u \in Threads : arg'[u] \in {arg[u], n}
      BY <1>a DEF TypeOK, Jars
    <2> QED
      BY <1>a, <1>b, <2>1 DEF OwedInv
  <1>3. CollectInv'
    BY <1>a, <1>b DEF CollectInv, SettledCookiesAreSent, CarriesSettled, Having, Iterating, TypeOK
  <1>4. ViewInv'
    BY <1>a DEF ViewInv, ViewFollowsJar, Followed, Pending, TypeOK, Jars
  <1>5. ChangeInv'
    BY <1>a DEF ChangeInv, Iterating, TypeOK
  <1> QED
    BY <1>1, <1>2, <1>3, <1>4, <1>5

LEMMA DeleteCookieKeeps ==
    ASSUME IndInv, NEW t \in Threads, NEW n \in Names, DeleteCookie(t, n)
    PROVE  IndInv'
  <1> USE ValuesAssumption DEF IndInv
  <1>a. /\ pc[t] = "idle" /\ pc' = [pc EXCEPT ![t] = "discard"]
        /\ arg' = [arg EXCEPT ![t] = n]
        /\ cookies' = [cookies EXCEPT ![n] = NoValue]
        /\ touched' = touched \cup {n}
        /\ UNCHANGED <<userSet, jar, start, header, seen, found, changed, reply, raced>>
    BY DEF DeleteCookie, Goto, reqVars
  <1>b. /\ owed' \in Jars(UserValues) /\ due' \in [Threads -> Jars(UserValues)]
        /\ owed'[n] = NoValue /\ \A u \in Threads : due'[u][n] = NoValue
        /\ \A m \in Names \ {n} :
              owed'[m] = owed[m] /\ \A u \in Threads : due'[u][m] = due[u][m]
    BY UnsettleTypes DEF DeleteCookie
  <1>1. TypeOK'
    BY <1>a, <1>b DEF TypeOK, Jars, Maybe
  <1>2. OwedInv'
    <2>1. /\ \A m \in Names \ {n} : cookies'[m] = cookies[m]
          /\ \A u \in Threads : arg'[u] \in {arg[u], n}
      BY <1>a DEF TypeOK, Jars
    <2> QED
      BY <1>a, <1>b, <2>1 DEF OwedInv
  <1>3. CollectInv'
    <2>1. \A u \in Threads : /\ pc'[u] = "wait" <=> pc[u] = "wait"
                             /\ u \in Iterating' <=> u \in Iterating
      BY <1>a DEF TypeOK, Iterating
    <2>2. \A u \in Threads, m \in Names : due'[u][m] # NoValue => due'[u][m] = due[u][m]
      BY <1>b
    <2> QED
      BY <1>a, <2>1, <2>2 DEF CollectInv, SettledCookiesAreSent, CarriesSettled, Having, Iterating
  <1>4. ViewInv'
    BY <1>a DEF ViewInv, ViewFollowsJar, Followed, Pending, TypeOK, Jars
  <1>5. ChangeInv'
    BY <1>a DEF ChangeInv, Iterating, TypeOK
  <1> QED
    BY <1>1, <1>2, <1>3, <1>4, <1>5

LEMMA AddUserSetKeeps ==
    ASSUME IndInv, NEW t \in Threads, AddUserSet(t)
    PROVE  IndInv'
  <1> USE ValuesAssumption DEF IndInv
  <1> DEFINE n == arg[t]
  <1>a. /\ pc[t] = "add" /\ pc' = [pc EXCEPT ![t] = "idle"]
        /\ userSet' = userSet \cup {n}
        /\ arg' = [arg EXCEPT ![t] = NoName]
        /\ UNCHANGED <<cookies, jar, start, header, seen, found, reply, due, touched, raced>>
    BY DEF AddUserSet, Goto, reqVars
  <1>d. changed' = [u \in Threads |-> IF n \notin userSet /\ u \in Iterating
                                     THEN changed[u] \cup {"added"} ELSE changed[u]]
    BY DEF AddUserSet, Notice
  <1>b. n \in Names /\ owed[n] = NoValue /\ \A u \in Threads : due[u][n] = NoValue
    BY <1>a DEF TypeOK, OwedInv
  <1>c. /\ owed' \in Jars(UserValues)
        /\ \A m \in Names \ {n} : owed'[m] = owed[m]
        /\ owed'[n] # NoValue => owed'[n] = cookies[n] /\ \A u \in Threads \ {t} : arg[u] # n
    BY <1>b DEF AddUserSet, Settle, TypeOK, Jars, Maybe
  <1> HIDE DEF n
  <1>1. TypeOK'
    BY <1>a, <1>b, <1>c, <1>d DEF TypeOK
  <1>2. OwedInv'
    BY <1>a, <1>b, <1>c DEF OwedInv, TypeOK
  <1>3. CollectInv'
    BY <1>a, <1>d DEF CollectInv, SettledCookiesAreSent, CarriesSettled, Having, Iterating, TypeOK
  <1>4. ViewInv'
    BY <1>a DEF ViewInv, ViewFollowsJar, Followed, Pending, TypeOK
  <1>5. ChangeInv'
    <2>1. ASSUME NEW u \in Iterating' PROVE u \in Iterating
      BY <1>a, <2>1 DEF Iterating, TypeOK
    <2>2. ASSUME NEW u \in Iterating
          PROVE  changed'[u] = IF n \notin userSet THEN changed[u] \cup {"added"} ELSE changed[u]
      BY <1>d, <2>2 DEF Iterating
    <2> SUFFICES ASSUME NEW u \in Iterating'
                 PROVE  /\ "added" \notin changed'[u] => userSet' \subseteq start'[u]
                        /\ "removed" \notin changed'[u] => start'[u] \subseteq userSet'
                        /\ changed'[u] \in {{"added"}, {"removed"}} => userSet' # start'[u]
      BY DEF ChangeInv
    <2>3. /\ u \in Iterating /\ start'[u] = start[u]
          /\ changed[u] \in SUBSET {"added", "removed"}
      BY <1>a, <2>1 DEF TypeOK, Iterating
    <2>4. CASE n \in userSet
      <3>1. userSet' = userSet /\ changed'[u] = changed[u]
        BY <1>a, <2>2, <2>3, <2>4
      <3> QED
        BY <2>3, <3>1 DEF ChangeInv
    <2>5. CASE n \notin userSet
      <3>1. /\ changed'[u] = changed[u] \cup {"added"}
            /\ userSet \subseteq userSet' /\ n \in userSet'
        BY <1>a, <2>2, <2>3, <2>5
      <3>2. "removed" \notin changed[u] => start[u] \subseteq userSet
        BY <2>3 DEF ChangeInv
      <3> QED
        BY <2>3, <2>5, <3>1, <3>2
    <2> QED
      BY <2>4, <2>5
  <1> QED
    BY <1>1, <1>2, <1>3, <1>4, <1>5

LEMMA DiscardUserSetKeeps ==
    ASSUME IndInv, NEW t \in Threads, DiscardUserSet(t)
    PROVE  IndInv'
  <1> USE ValuesAssumption DEF IndInv
  <1> DEFINE n == arg[t]
  <1>a. /\ pc[t] = "discard" /\ pc' = [pc EXCEPT ![t] = "idle"]
        /\ userSet' = userSet \ {n}
        /\ arg' = [arg EXCEPT ![t] = NoName]
        /\ UNCHANGED <<cookies, jar, start, header, seen, found, reply, touched, raced>>
    BY DEF DiscardUserSet, Goto, reqVars
  <1>d. changed' = [u \in Threads |-> IF n \in userSet /\ u \in Iterating
                                     THEN changed[u] \cup {"removed"} ELSE changed[u]]
    BY DEF DiscardUserSet, Notice
  <1>b. n \in Names
    BY <1>a DEF TypeOK
  <1>c. /\ owed' \in Jars(UserValues) /\ due' \in [Threads -> Jars(UserValues)]
        /\ owed'[n] = NoValue /\ \A u \in Threads : due'[u][n] = NoValue
        /\ \A m \in Names \ {n} :
              owed'[m] = owed[m] /\ \A u \in Threads : due'[u][m] = due[u][m]
    BY <1>b, UnsettleTypes DEF DiscardUserSet
  <1> HIDE DEF n
  <1>1. TypeOK'
    BY <1>a, <1>b, <1>c, <1>d DEF TypeOK
  <1>2. OwedInv'
    BY <1>a, <1>b, <1>c DEF OwedInv, TypeOK
  <1>3. CollectInv'
    BY <1>a, <1>d, <1>b, <1>c DEF CollectInv, SettledCookiesAreSent, CarriesSettled, Having, Iterating, TypeOK
  <1>4. ViewInv'
    BY <1>a DEF ViewInv, ViewFollowsJar, Followed, Pending, TypeOK
  <1>5. ChangeInv'
    <2>1. ASSUME NEW u \in Iterating' PROVE u \in Iterating
      BY <1>a, <2>1 DEF Iterating, TypeOK
    <2>2. ASSUME NEW u \in Iterating
          PROVE  changed'[u] = IF n \in userSet THEN changed[u] \cup {"removed"} ELSE changed[u]
      BY <1>d, <2>2 DEF Iterating
    <2> SUFFICES ASSUME NEW u \in Iterating'
                 PROVE  /\ "added" \notin changed'[u] => userSet' \subseteq start'[u]
                        /\ "removed" \notin changed'[u] => start'[u] \subseteq userSet'
                        /\ changed'[u] \in {{"added"}, {"removed"}} => userSet' # start'[u]
      BY DEF ChangeInv
    <2>3. /\ u \in Iterating /\ start'[u] = start[u]
          /\ changed[u] \in SUBSET {"added", "removed"}
      BY <1>a, <2>1 DEF TypeOK, Iterating
    <2>4. CASE n \notin userSet
      <3>1. userSet' = userSet /\ changed'[u] = changed[u]
        BY <1>a, <2>2, <2>3, <2>4
      <3> QED
        BY <2>3, <3>1 DEF ChangeInv
    <2>5. CASE n \in userSet
      <3>1. /\ changed'[u] = changed[u] \cup {"removed"}
            /\ userSet' \subseteq userSet /\ n \notin userSet'
        BY <1>a, <2>2, <2>3, <2>5
      <3>2. "added" \notin changed[u] => userSet \subseteq start[u]
        BY <2>3 DEF ChangeInv
      <3> QED
        BY <2>3, <2>5, <3>1, <3>2
    <2> QED
      BY <2>4, <2>5
  <1> QED
    BY <1>1, <1>2, <1>3, <1>4, <1>5

\* A new object: nothing is due to the requests that still collect from the old one.
LEMMA ReplaceCookiesKeeps ==
    ASSUME IndInv, NEW t \in Threads, NEW given \in Given, ReplaceCookies(t, given)
    PROVE  IndInv'
  <1> USE ValuesAssumption DEF IndInv
  <1>a. /\ cookies' = given /\ userSet' = Having(given) /\ owed' = given
        /\ arg' = [u \in Threads |-> NoName]
        /\ due' = [u \in Threads |-> Empty]
        /\ start' = [u \in Threads |-> {}] /\ seen' = [u \in Threads |-> {}]
        /\ found' = [u \in Threads |-> NoName] /\ changed' = [u \in Threads |-> {}]
        /\ touched' = Names
        /\ UNCHANGED <<jar, reply, raced>>
    BY DEF ReplaceCookies
  <1>b. /\ pc' \in [Threads -> {"idle", "wait", "sync"}]
        /\ \A u \in Threads : pc'[u] = "sync" <=> pc[u] = "sync"
    BY DEF ReplaceCookies, TypeOK, Iterating, Changing
  <1>c. header' \in [Threads -> Jars(UserValues \cup ServerValues)]
    BY DEF ReplaceCookies, TypeOK, Jars, Maybe, Empty
  <1>d. given \in Jars(UserValues)
    BY DEF Given
  <1>1. TypeOK'
    BY <1>a, <1>b, <1>c, <1>d DEF TypeOK, Jars, Maybe, Having, Empty
  <1>2. OwedInv'
    BY <1>a, <1>d DEF OwedInv, Having, Empty
  <1>3. CollectInv'
    BY <1>a, <1>b DEF CollectInv, SettledCookiesAreSent, CarriesSettled, Having, Iterating, Empty
  <1>4. ViewInv'
    BY <1>a, <1>b DEF ViewInv, ViewFollowsJar, Followed, TypeOK
  <1>5. ChangeInv'
    BY <1>a, <1>b DEF ChangeInv, Iterating, TypeOK
  <1> QED
    BY <1>1, <1>2, <1>3, <1>4, <1>5

-----------------------------------------------------------------------------
(***************************************************************************)
(* request().                                                              *)
(***************************************************************************)
LEMMA BeginRequestKeeps ==
    ASSUME IndInv, NEW t \in Threads, BeginRequest(t)
    PROVE  IndInv'
  <1> USE ValuesAssumption DEF IndInv
  <1>a. /\ pc[t] = "idle" /\ pc' = [pc EXCEPT ![t] = "collect"]
        /\ start' = [start EXCEPT ![t] = userSet]
        /\ header' = [header EXCEPT ![t] = Empty]
        /\ seen' = [seen EXCEPT ![t] = {}]
        /\ changed' = [changed EXCEPT ![t] = {}]
        /\ due' = [due EXCEPT ![t] = owed]
        /\ UNCHANGED <<cookies, userSet, jar, arg, found, reply, owed, touched, raced>>
    BY DEF BeginRequest, Goto, pyVars
  <1>1. TypeOK'
    BY <1>a DEF TypeOK, Jars, Maybe, Empty
  <1>2. OwedInv'
    BY <1>a DEF OwedInv, TypeOK
  <1>3. CollectInv'
    BY <1>a DEF CollectInv, SettledCookiesAreSent, CarriesSettled, OwedInv, Having, Iterating, TypeOK
  <1>4. ViewInv'
    BY <1>a DEF ViewInv, ViewFollowsJar, Followed, Pending, TypeOK
  <1>5. ChangeInv'
    BY <1>a DEF ChangeInv, Iterating, TypeOK
  <1> QED
    BY <1>1, <1>2, <1>3, <1>4, <1>5

LEMMA CollectNameKeeps ==
    ASSUME IndInv, NEW t \in Threads, CollectName(t)
    PROVE  IndInv'
  <1> USE ValuesAssumption DEF IndInv
  <1>a. PICK n \in userSet :
          /\ pc[t] = "collect"
          /\ seen' = [seen EXCEPT ![t] = @ \cup {n}]
          /\ \/ UNCHANGED <<start, changed>>
             \/ start' = [start EXCEPT ![t] = userSet] /\ changed' = [changed EXCEPT ![t] = {}]
          /\ \/ cookies[n] = NoValue /\ UNCHANGED <<pc, found>>
             \/ /\ pc' = [pc EXCEPT ![t] = "read"] /\ found' = [found EXCEPT ![t] = n]
          /\ UNCHANGED <<cookies, userSet, jar, arg, header, reply, owed, due, touched, raced>>
    BY DEF CollectName, Goto, pyVars, histVars
  <1>b. n \in Names
    BY DEF TypeOK
  <1>c. \A u \in Threads : u \in Iterating' <=> u \in Iterating
    BY <1>a DEF TypeOK, Iterating
  <1>d. \A u \in Threads \ {t} : /\ pc'[u] = pc[u] /\ found'[u] = found[u] /\ seen'[u] = seen[u]
                                 /\ start'[u] = start[u] /\ changed'[u] = changed[u]
    BY <1>a DEF TypeOK
  <1>e. \A u \in Threads : pc'[u] \in {"wait", "sync"} <=> pc[u] \in {"wait", "sync"}
    BY <1>a DEF TypeOK
  <1>1. TypeOK'
    <2>1. /\ seen' \in [Threads -> SUBSET Names] /\ start' \in [Threads -> SUBSET Names]
          /\ changed' \in [Threads -> SUBSET {"added", "removed"}]
      BY <1>a, <1>b DEF TypeOK
    <2>2. /\ pc' \in [Threads -> {"idle", "add", "discard", "collect", "read", "wait", "sync"}]
          /\ found' \in [Threads -> Names \cup {NoName}]
          /\ \A u \in Threads : pc'[u] \in {"add", "discard"} <=> pc[u] \in {"add", "discard"}
          /\ \A u \in Threads : found'[u] # NoName <=> pc'[u] = "read"
      BY <1>a, <1>b DEF TypeOK
    <2> QED
      BY <1>a, <2>1, <2>2 DEF TypeOK
  <1>2. OwedInv'
    BY <1>a DEF OwedInv
  <1>3. CollectInv'
    <2>1. ASSUME NEW u \in Iterating', NEW m \in Names,
                 due'[u][m] # NoValue, m \in seen'[u], m # found'[u]
          PROVE  header'[u][m] = due'[u][m]
      <3>1. CASE u = t /\ m = n
        <4>1. cookies[n] # NoValue
          BY <1>a, <1>b, <2>1, <3>1 DEF OwedInv
        <4> QED
          BY <1>a, <2>1, <3>1, <4>1 DEF TypeOK
      <3>2. CASE u = t /\ m # n
        <4>1. m \in seen[t] /\ t \in Iterating /\ found[t] = NoName
          BY <1>a, <2>1, <3>2 DEF TypeOK, Iterating
        <4> QED
          BY <1>a, <2>1, <3>2, <4>1 DEF CollectInv
      <3>3. CASE u # t
        BY <1>a, <1>c, <1>d, <2>1, <3>3 DEF CollectInv, Iterating
      <3> QED
        BY <3>1, <3>2, <3>3
    <2>2. SettledCookiesAreSent'
      <3>1. ASSUME NEW u \in Threads, pc'[u] = "wait"
            PROVE  u # t /\ pc[u] = "wait"
        BY <1>a, <3>1 DEF TypeOK
      <3> QED
        BY <1>a, <1>d, <3>1 DEF CollectInv, SettledCookiesAreSent, CarriesSettled, Having
    <2> QED
      BY <2>1, <2>2 DEF CollectInv
  <1>4. ViewInv'
    <2>1. \A u \in Threads : pc'[u] = "sync" <=> pc[u] = "sync"
      BY <1>a DEF TypeOK
    <2> QED
      BY <1>a, <2>1 DEF ViewInv, ViewFollowsJar, Followed, Pending
  <1>5. ChangeInv'
    <2> SUFFICES ASSUME NEW u \in Iterating'
                 PROVE  /\ "added" \notin changed'[u] => userSet \subseteq start'[u]
                        /\ "removed" \notin changed'[u] => start'[u] \subseteq userSet
                        /\ changed'[u] \in {{"added"}, {"removed"}} => userSet # start'[u]
      BY <1>a DEF ChangeInv
    <2>1. u \in Threads /\ u \in Iterating
      BY <1>c DEF Iterating
    <2>2. CASE start'[u] = start[u] /\ changed'[u] = changed[u]
      BY <2>1, <2>2 DEF ChangeInv
    <2>3. CASE start'[u] = userSet /\ changed'[u] = {}
      BY <2>3
    <2> QED
      BY <1>a, <1>d, <2>1, <2>2, <2>3 DEF TypeOK
  <1> QED
    BY <1>1, <1>2, <1>3, <1>4, <1>5

LEMMA CollectValueKeeps ==
    ASSUME IndInv, NEW t \in Threads, CollectValue(t)
    PROVE  IndInv'
  <1> USE ValuesAssumption DEF IndInv
  <1> DEFINE n == found[t]
  <1>a. /\ pc[t] = "read" /\ pc' = [pc EXCEPT ![t] = "collect"]
        /\ found' = [found EXCEPT ![t] = NoName]
        /\ header' = [header EXCEPT ![t][n] = cookies[n]]
        /\ UNCHANGED <<cookies, userSet, jar, arg, start, seen, changed, reply, owed, due,
                      touched, raced>>
    BY DEF CollectValue, Goto, pyVars, histVars
  <1>b. n \in Names
    BY <1>a DEF TypeOK
  <1> HIDE DEF n
  <1>1. TypeOK'
    BY <1>a, <1>b DEF TypeOK, Jars, Maybe
  <1>2. OwedInv'
    BY <1>a DEF OwedInv
  <1>3. CollectInv'
    <2>1. ASSUME NEW u \in Iterating', NEW m \in Names,
                 due'[u][m] # NoValue, m \in seen'[u], m # found'[u]
          PROVE  header'[u][m] = due'[u][m]
      <3>1. u \in Threads /\ u \in Iterating
        BY <1>a, <2>1 DEF Iterating, TypeOK
      <3>2. CASE u = t /\ m = n
        <4>1. header'[t][n] = cookies[n]
          BY <1>a, <1>b DEF TypeOK, Jars
        <4> QED
          BY <1>a, <1>b, <2>1, <3>2, <4>1 DEF OwedInv
      <3>3. CASE u = t /\ m # n
        <4>1. header'[t][m] = header[t][m] /\ m # found[t]
          BY <1>a, <3>3 DEF TypeOK, Jars, n
        <4> QED
          BY <1>a, <2>1, <3>1, <3>3, <4>1 DEF CollectInv
      <3>4. CASE u # t
        <4>1. header'[u] = header[u] /\ found'[u] = found[u]
          BY <1>a, <3>1, <3>4 DEF TypeOK
        <4> QED
          BY <1>a, <2>1, <3>1, <4>1 DEF CollectInv
      <3> QED
        BY <3>2, <3>3, <3>4
    <2>2. SettledCookiesAreSent'
      <3>1. ASSUME NEW u \in Threads, pc'[u] = "wait"
            PROVE  u # t /\ pc[u] = "wait" /\ header'[u] = header[u]
        BY <1>a, <3>1 DEF TypeOK
      <3> QED
        BY <1>a, <3>1 DEF CollectInv, SettledCookiesAreSent, CarriesSettled, Having
    <2> QED
      BY <2>1, <2>2 DEF CollectInv
  <1>4. ViewInv'
    BY <1>a DEF ViewInv, ViewFollowsJar, Followed, Pending, TypeOK
  <1>5. ChangeInv'
    BY <1>a DEF ChangeInv, Iterating, TypeOK
  <1> QED
    BY <1>1, <1>2, <1>3, <1>4, <1>5

\* Here the halves meet: what is due is in the set, and the iteration has seen all of
\* the set unless it changed, which its size tells if names only came or only went.
LEMMA CollectDoneKeeps ==
    ASSUME IndInv, NEW t \in Threads, CollectDone(t)
    PROVE  IndInv'
  <1> USE ValuesAssumption DEF IndInv
  <1>a. /\ pc[t] = "collect" /\ pc' = [pc EXCEPT ![t] = "wait"]
        /\ Cardinality(userSet) = Cardinality(start[t])
        /\ changed[t] = {} => userSet \subseteq seen[t]
        /\ start' = [start EXCEPT ![t] = {}] /\ seen' = [seen EXCEPT ![t] = {}]
        /\ UNCHANGED <<cookies, userSet, jar, arg, header, found, changed, reply, owed, due,
                      touched, raced>>
    BY DEF CollectDone, SameSize, Goto, pyVars, histVars
  <1>1. TypeOK'
    BY <1>a DEF TypeOK
  <1>2. OwedInv'
    BY <1>a DEF OwedInv
  <1>3. CollectInv'
    <2>1. changed[t] # {} => changed[t] = {"added", "removed"}
      <3>1. SUFFICES ASSUME changed[t] \in {{"added"}, {"removed"}} PROVE FALSE
        BY DEF TypeOK
      <3>2. /\ userSet # start[t]
            /\ userSet \subseteq start[t] \/ start[t] \subseteq userSet
        BY <1>a, <3>1 DEF ChangeInv, Iterating
      <3>3. userSet \in SUBSET Names /\ start[t] \in SUBSET Names
        BY DEF TypeOK
      <3>4. IsFiniteSet(userSet) /\ IsFiniteSet(start[t])
        BY <3>3, FS_Subset
      <3> QED
        BY <1>a, <3>2, <3>4, FS_Subset
    <2>2. ASSUME changed[t] = {}, NEW n \in Having(due[t]) PROVE header[t][n] = due[t][n]
      <3>1. n \in Names /\ due[t][n] # NoValue
        BY <2>2 DEF Having
      <3>2. n \in seen[t] /\ found[t] = NoName /\ n # NoName
        BY <1>a, <2>2, <3>1 DEF OwedInv, TypeOK
      <3> QED
        BY <1>a, <3>1, <3>2 DEF CollectInv, Iterating
    <2>3. SettledCookiesAreSent'
      <3> SUFFICES ASSUME NEW u \in Threads, pc'[u] = "wait"
                   PROVE  CarriesSettled(u)' \/ changed'[u] = {"added", "removed"}
        BY DEF SettledCookiesAreSent
      <3>1. CASE u = t
        BY <1>a, <2>1, <2>2, <3>1 DEF CarriesSettled, Having
      <3>2. CASE u # t
        <4>1. pc[u] = "wait"
          BY <1>a, <3>2 DEF TypeOK
        <4> QED
          BY <1>a, <4>1 DEF CollectInv, SettledCookiesAreSent, CarriesSettled, Having
      <3> QED
        BY <3>1, <3>2
    <2>4. ASSUME NEW u \in Iterating', NEW m \in Names,
                 due'[u][m] # NoValue, m \in seen'[u], m # found'[u]
          PROVE  header'[u][m] = due'[u][m]
      <3>1. u # t /\ u \in Iterating /\ seen'[u] = seen[u]
        BY <1>a, <2>4 DEF Iterating, TypeOK
      <3> QED
        BY <1>a, <2>4, <3>1 DEF CollectInv
    <2> QED
      BY <2>3, <2>4 DEF CollectInv
  <1>4. ViewInv'
    BY <1>a DEF ViewInv, ViewFollowsJar, Followed, Pending, TypeOK
  <1>5. ChangeInv'
    BY <1>a DEF ChangeInv, Iterating, TypeOK
  <1> QED
    BY <1>1, <1>2, <1>3, <1>4, <1>5

LEMMA AbortKeeps ==
    ASSUME IndInv, NEW t \in Threads, NEW from \in {"collect", "read", "wait"}, Abort(t, from)
    PROVE  IndInv'
  <1> USE ValuesAssumption DEF IndInv
  <1>a. /\ pc[t] = from /\ pc' = [pc EXCEPT ![t] = "idle"]
        /\ start' = [start EXCEPT ![t] = {}] /\ seen' = [seen EXCEPT ![t] = {}]
        /\ found' = [found EXCEPT ![t] = NoName] /\ changed' = [changed EXCEPT ![t] = {}]
        /\ header' = [header EXCEPT ![t] = Empty] /\ due' = [due EXCEPT ![t] = Empty]
        /\ UNCHANGED <<cookies, userSet, jar, arg, reply, owed, touched, raced>>
    BY DEF Abort, Goto, pyVars
  <1>1. TypeOK'
    BY <1>a DEF TypeOK, Jars, Maybe, Empty
  <1>2. OwedInv'
    BY <1>a DEF OwedInv, TypeOK, Empty
  <1>3. CollectInv'
    BY <1>a DEF CollectInv, SettledCookiesAreSent, CarriesSettled, Having, Iterating, TypeOK
  <1>4. ViewInv'
    BY <1>a DEF ViewInv, ViewFollowsJar, Followed, Pending, TypeOK
  <1>5. ChangeInv'
    BY <1>a DEF ChangeInv, Iterating, TypeOK
  <1> QED
    BY <1>1, <1>2, <1>3, <1>4, <1>5

\* The response changes the jar of one name, and any older response that lists it has raced.
LEMMA ReceiveKeeps ==
    ASSUME IndInv, NEW t \in Threads, NEW n \in Names, NEW v \in Maybe(ServerValues),
           Receive(t, n, v)
    PROVE  IndInv'
  <1> USE ValuesAssumption DEF IndInv
  <1>a. /\ pc[t] = "wait" /\ pc' = [pc EXCEPT ![t] = "sync"]
        /\ jar' = [jar EXCEPT ![n] = v]
        /\ header' = [header EXCEPT ![t] = Empty] /\ due' = [due EXCEPT ![t] = Empty]
        /\ UNCHANGED <<cookies, userSet, arg, start, seen, found, owed>>
        /\ changed' = [changed EXCEPT ![t] = {}]
    BY DEF Receive, Goto, pyVars
  <1>b. /\ jar' \in Jars(ServerValues) /\ [Empty EXCEPT ![n] = v] \in Jars(ServerValues)
        /\ jar'[n] = v /\ \A m \in Names \ {n} : jar'[m] = jar[m]
    BY <1>a DEF TypeOK, Jars, Empty, Maybe
  <1>c. PICK listed \in Jars(ServerValues) :
           /\ reply' = [reply EXCEPT ![t] = listed]
           /\ \A m \in Names : listed[m] # NoValue => listed[m] = jar'[m]
           /\ jar' # jar => listed[n] = v
    <2>1. CASE reply' = [reply EXCEPT ![t] = jar']
      BY <1>b, <2>1
    <2>2. CASE reply' = [reply EXCEPT ![t] = [Empty EXCEPT ![n] = v]]
      <3> USE <1>b
      <3> WITNESS [Empty EXCEPT ![n] = v] \in Jars(ServerValues)
      <3> QED
        BY <1>b, <2>2 DEF Empty
    <2>3. CASE v = jar[n] /\ UNCHANGED reply
      <3>1. jar' = jar /\ reply[t] = Empty /\ Empty \in Jars(ServerValues)
        BY <1>a, <2>3 DEF TypeOK, ViewInv, Jars, Empty, Maybe
      <3>2. reply' = [reply EXCEPT ![t] = Empty]
        BY <2>3, <3>1 DEF TypeOK
      <3> QED
        BY <3>1, <3>2 DEF Empty
    <2> QED
      BY <2>1, <2>2, <2>3 DEF Receive
  <1>d. /\ touched' \subseteq Names /\ raced' \subseteq Names
        /\ \A m \in Names \ {n} : m \in touched' \cup raced' <=> m \in touched \cup raced
    BY DEF Receive, TypeOK
  <1>e. n \notin touched' \cup raced' =>
           \/ jar' = jar /\ n \notin touched \cup raced
           \/ jar' # jar /\ \A u \in Threads : pc[u] = "sync" => reply[u][n] = NoValue
    BY DEF Receive
  <1>1. TypeOK'
    BY <1>a, <1>b, <1>c, <1>d DEF TypeOK, Jars, Maybe, Empty
  <1>2. OwedInv'
    BY <1>a DEF OwedInv, TypeOK, Empty
  <1>3. CollectInv'
    BY <1>a DEF CollectInv, SettledCookiesAreSent, CarriesSettled, Having, Iterating, TypeOK
  <1>4. ViewInv'
    <2>1. \A u \in Threads : pc'[u] # "sync" => reply'[u] = Empty
      BY <1>a, <1>c DEF ViewInv, TypeOK
    <2>2. ASSUME NEW u \in Threads, NEW m \in Followed', reply'[u][m] # NoValue
          PROVE  reply'[u][m] = jar'[m]
      <3>1. CASE u = t
        BY <1>c, <2>2, <3>1 DEF TypeOK, Followed
      <3>2. CASE u # t /\ m # n
        BY <1>b, <1>c, <1>d, <2>2, <3>2 DEF ViewInv, TypeOK, Followed
      <3>3. CASE u # t /\ m = n
        <4>1. reply[u][n] # NoValue /\ reply'[u] = reply[u]
          BY <1>c, <2>2, <3>3 DEF TypeOK
        <4>2. pc[u] = "sync"
          BY <4>1 DEF ViewInv, Empty
        <4> QED
          BY <1>e, <2>2, <3>3, <4>1, <4>2 DEF ViewInv, Followed
      <3> QED
        BY <3>1, <3>2, <3>3
    <2>3. ASSUME NEW m \in Followed', jar'[m] # NoValue, ~Pending(m)'
          PROVE  cookies'[m] = jar'[m]
      <3>1. listed[m] = NoValue /\ \A u \in Threads : pc[u] = "sync" => reply[u][m] = NoValue
        BY <1>a, <1>c, <2>3 DEF Pending, TypeOK
      <3>2. m \in Followed /\ jar'[m] = jar[m]
        BY <1>b, <1>c, <1>d, <1>e, <2>3, <3>1 DEF Followed
      <3> QED
        BY <1>a, <2>3, <3>1, <3>2 DEF ViewInv, ViewFollowsJar, Followed, Pending
    <2> QED
      BY <2>1, <2>2, <2>3 DEF ViewInv, ViewFollowsJar, Followed
  <1>5. ChangeInv'
    BY <1>a DEF ChangeInv, Iterating, TypeOK
  <1> QED
    BY <1>1, <1>2, <1>3, <1>4, <1>5

LEMMA SyncKeeps ==
    ASSUME IndInv, NEW t \in Threads, Sync(t)
    PROVE  IndInv'
  <1> USE ValuesAssumption DEF IndInv
  <1>a. /\ pc[t] = "sync" /\ pc' = [pc EXCEPT ![t] = "idle"]
        /\ cookies' = [n \in Names |-> IF reply[t][n] # NoValue THEN reply[t][n] ELSE cookies[n]]
        /\ reply' = [reply EXCEPT ![t] = Empty]
        /\ UNCHANGED <<userSet, jar, arg, start, header, seen, found, changed, touched, raced>>
    BY DEF Sync, Goto
  <1>b. /\ owed' \in Jars(UserValues) /\ due' \in [Threads -> Jars(UserValues)]
        /\ \A n \in Names : reply[t][n] # NoValue =>
              owed'[n] = NoValue /\ \A u \in Threads : due'[u][n] = NoValue
        /\ \A n \in Names : reply[t][n] = NoValue =>
              owed'[n] = owed[n] /\ \A u \in Threads : due'[u][n] = due[u][n]
    <2>1. Unsettle(Having(reply[t])) /\ Having(reply[t]) \in SUBSET Names
      BY DEF Sync, Having
    <2> QED
      BY <2>1, UnsettleTypes DEF Having
  <1>1. TypeOK'
    <2>1. cookies' \in Jars(UserValues \cup ServerValues)
      BY <1>a DEF TypeOK, Jars, Maybe
    <2>2. reply' \in [Threads -> Jars(ServerValues)]
      BY <1>a DEF TypeOK, Jars, Maybe, Empty
    <2> QED
      BY <1>a, <1>b, <2>1, <2>2 DEF TypeOK
  <1>2. OwedInv'
    BY <1>a, <1>b DEF OwedInv, TypeOK
  <1>3. CollectInv'
    BY <1>a, <1>b DEF CollectInv, SettledCookiesAreSent, CarriesSettled, Having, Iterating, TypeOK
  <1>4. ViewInv'
    BY <1>a DEF ViewInv, ViewFollowsJar, Followed, Pending, TypeOK, Jars, Empty
  <1>5. ChangeInv'
    BY <1>a DEF ChangeInv, Iterating, TypeOK
  <1> QED
    BY <1>1, <1>2, <1>3, <1>4, <1>5

-----------------------------------------------------------------------------
LEMMA IndInvStep == IndInv /\ [Next]_vars => IndInv'
  <1> SUFFICES ASSUME IndInv, [Next]_vars PROVE IndInv'
    OBVIOUS
  <1>1. ASSUME NEW t \in Threads,
               \/ \E n \in Names, v \in UserValues : SetCookie(t, n, v)
               \/ \E n \in Names : DeleteCookie(t, n)
               \/ \E given \in Given : ReplaceCookies(t, given)
               \/ AddUserSet(t) \/ DiscardUserSet(t)
        PROVE  IndInv'
    BY <1>1, SetCookieKeeps, DeleteCookieKeeps, ReplaceCookiesKeeps, AddUserSetKeeps,
       DiscardUserSetKeeps
  <1>2. ASSUME NEW t \in Threads,
               \/ BeginRequest(t) \/ CollectName(t) \/ CollectValue(t) \/ CollectDone(t)
               \/ CollectRaises(t) \/ ReadRaises(t) \/ RequestFails(t)
        PROVE  IndInv'
    BY <1>2, BeginRequestKeeps, CollectNameKeeps, CollectValueKeeps, CollectDoneKeeps, AbortKeeps
       DEF CollectRaises, ReadRaises, RequestFails
  <1>3. ASSUME NEW t \in Threads,
               \/ \E n \in Names, v \in Maybe(ServerValues) : Receive(t, n, v)
               \/ Sync(t)
        PROVE  IndInv'
    BY <1>3, ReceiveKeeps, SyncKeeps
  <1>4. CASE UNCHANGED vars
    <2> USE <1>4 DEF vars, pyVars, reqVars, histVars, IndInv
    <2>1. TypeOK'
      BY DEF TypeOK
    <2>2. OwedInv'
      BY DEF OwedInv
    <2>3. CollectInv'
      BY DEF CollectInv, SettledCookiesAreSent, CarriesSettled, Having, Iterating
    <2>4. ViewInv'
      BY DEF ViewInv, ViewFollowsJar, Followed, Pending
    <2>5. ChangeInv'
      BY DEF ChangeInv, Iterating
    <2> QED
      BY <2>1, <2>2, <2>3, <2>4, <2>5
  <1> QED
    BY <1>1, <1>2, <1>3, <1>4 DEF Next

LEMMA Inductive == Spec => []IndInv
  BY IndInvInit, IndInvStep, PTL DEF Spec

(***************************************************************************)
(* Type correctness of the two jars and of what the threads do with them.  *)
(***************************************************************************)
THEOREM TypeCorrect == Spec => []TypeOK
  BY Inductive, PTL DEF IndInv

(***************************************************************************)
(* A cookie the user set, and nobody has changed since before the request  *)
(* began, is in the Cookie header request() sends, however many threads    *)
(* change or sync other cookies while it is put together, unless marks of  *)
(* the user's were both added and removed meanwhile: with only one of the  *)
(* two the request raises instead (user_set_items, __setitem__ and         *)
(* __delitem__ of Cookies).                                                *)
(***************************************************************************)
THEOREM SettledCookiesReachTheServer == Spec => []SettledCookiesAreSent
  BY Inductive, PTL DEF IndInv, CollectInv

(***************************************************************************)
(* client.cookies shows what the Go jar will send, for every name that     *)
(* neither the user nor two overlapping responses have changed.            *)
(***************************************************************************)
THEOREM ViewIsTheJar == Spec => []ViewFollowsJar
  BY Inductive, PTL DEF IndInv, ViewInv
=============================================================================
