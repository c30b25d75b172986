--------------------------- MODULE ReadSideProofs ---------------------------
(***************************************************************************)
(* Proofs about what is read from sources and what readers are shown: the  *)
(* cursors of the routes (RouteCursors), for any routes, runs and units,   *)
(* and the page (StoryPage), for any cities, any answers of the API and    *)
(* any number of polls, clicks and crossing answers.                       *)
(***************************************************************************)
EXTENDS Integers, RouteCursors, StoryPage, TLAPS

---------------------------------------------------------------------------
(* What a route's cursor remembers.                                        *)

Working(n) == rcAt[n] \in {"fetch", "store"}

\* A run that asks a route, or stores what it gave, has that route.
OnARoute == \A n \in RcRuns : Working(n) => routeNo[n] <= Len(routeList)

CursorTypes == RouteCursorsTypeOK /\ OnARoute

\* What may be remembered.
UnitSettled(r, u) == <<r, u>> \in rawPosts \cup OutOfScope \cup passedOver \cup abandoned

\* What a run remembers, its end pending: read and not yet handed over, yet to
\* be stored, or to be rolled back.
Pending(n, r, u) ==
    /\ r = RouteOf(n)
    /\ \/ rcAt[n] = "fetch" /\ u \in read[n]
       \/ rcAt[n] = "store" /\ (u \in toStore[n] \/ storeFails[n])

SavedSettled == \A r \in AllRoutes : \A u \in saved[r].past : UnitSettled(r, u)
SnapshotSettled ==
    \A n \in RcRuns, r \in AllRoutes : Working(n) => \A u \in snapshot[n][r].past : UnitSettled(r, u)
LiveSettled ==
    \A n \in RcRuns, r \in AllRoutes : \A u \in live[n][r].past : UnitSettled(r, u) \/ Pending(n, r, u)

\* The inductive invariant.
CursorInv == CursorTypes /\ SavedSettled /\ SnapshotSettled /\ LiveSettled

---------------------------------------------------------------------------

\* The units up to what a route has offered are units.
LEMMA UnitsClosed ==
    ASSUME NEW r \in AllRoutes, NEW k \in Nat, k <= MostUnits[r]
    PROVE  1 .. k \subseteq Units
BY CursorAssumption DEF Units, AllRoutes

\* The route under way is one of the source's.
LEMMA RouteKnown ==
    ASSUME RouteCursorsTypeOK, NEW n \in RcRuns, routeNo[n] <= Len(routeList)
    PROVE  RouteOf(n) \in AllRoutes
<1>1. routeList \in Seq(AllRoutes) BY CursorAssumption DEF RouteCursorsTypeOK, AllRoutes
<1>2. routeNo[n] \in 1 .. Len(routeList) BY <1>1 DEF RouteCursorsTypeOK
<1> QED BY <1>1, <1>2 DEF RouteOf

\* The first state remembers nothing.
LEMMA FreshTyped == Fresh0 \in [AllRoutes -> Memory] /\ \A r \in AllRoutes : Fresh0[r].past = {}
BY DEF Fresh0, Memory

\* What Remembers changes, and what it does not.
LEMMA RemembersEffect ==
    ASSUME live \in [RcRuns -> [AllRoutes -> Memory]], NEW n \in RcRuns, RouteOf(n) \in AllRoutes,
           NEW S \in SUBSET Units, Remembers(n, S)
    PROVE  /\ live' \in [RcRuns -> [AllRoutes -> Memory]]
           /\ \A m \in RcRuns, r \in AllRoutes : m # n \/ r # RouteOf(n) => live'[m][r] = live[m][r]
           /\ live'[n][RouteOf(n)].past = live[n][RouteOf(n)].past \cup S
<1> DEFINE q == RouteOf(n)
<1> DEFINE mem == [live[n][q] EXCEPT !.past = @ \cup S]
<1>1. live[n] \in [AllRoutes -> Memory] /\ live[n][q] \in Memory OBVIOUS
<1>2. mem \in Memory /\ mem.past = live[n][q].past \cup S BY <1>1 DEF Memory
<1>3. live' = [live EXCEPT ![n] = [live[n] EXCEPT ![q] = mem]] BY <1>1 DEF Remembers
<1> HIDE DEF mem, q
<1>4. [live[n] EXCEPT ![q] = mem] \in [AllRoutes -> Memory] BY <1>1, <1>2
<1>5. q \in AllRoutes BY DEF q
<1> QED BY <1>2, <1>3, <1>4, <1>5 DEF q

\* A run that is over is as a run that has not begun.
LEMMA RunOverTyped ==
    ASSUME CursorTypes, NEW n \in RcRuns, RunOver(n),
           UNCHANGED <<routeList, offered, rawPosts, passedOver, abandoned>>,
           saved' \in [AllRoutes -> Memory]
    PROVE  CursorTypes'
BY FreshTyped DEF CursorTypes, RouteCursorsTypeOK, OnARoute, Working, RunOver, RcGoes

LEMMA CursorTypesInit == RouteCursorsInit => CursorTypes
<1>1. ASSUME RouteCursorsInit PROVE CursorTypes
  <2>1. \A r \in AllRoutes : 0 <= MostUnits[r] BY CursorAssumption DEF AllRoutes
  <2>2. routeList \in Seq(AllRoutes) BY <1>1, CursorAssumption DEF RouteCursorsInit, AllRoutes
  <2>3. 1 \in 1 .. Len(routeList) + 1 BY <2>2
  <2> QED BY <1>1, <2>1, <2>3, FreshTyped
        DEF RouteCursorsInit, CursorTypes, RouteCursorsTypeOK, OnARoute, Working
<1> QED BY <1>1

LEMMA CursorTypesStep == CursorTypes /\ [RouteCursorsNext]_RouteCursorsVars => CursorTypes'
<1> SUFFICES ASSUME CursorTypes, [RouteCursorsNext]_RouteCursorsVars PROVE CursorTypes'
    OBVIOUS
<1> USE DEF CursorTypes
<1>0. routeList \in Seq(AllRoutes) /\ Len(routeList) \in Nat
  BY CursorAssumption DEF RouteCursorsTypeOK, AllRoutes
<1>1. CASE Offer
  <2>1. PICK i \in DOMAIN routeList :
            offered[routeList[i]] < MostUnits[routeList[i]]
            /\ offered' = [offered EXCEPT ![routeList[i]] = @ + 1]
    BY <1>1 DEF Offer
  <2>2. routeList[i] \in AllRoutes BY <1>0
  <2>3. \A r \in AllRoutes : MostUnits[r] \in Nat BY CursorAssumption DEF AllRoutes
  <2>4. offered' \in [AllRoutes -> Nat] /\ \A r \in AllRoutes : offered'[r] <= MostUnits[r]
    BY <2>1, <2>2, <2>3 DEF RouteCursorsTypeOK
  <2> QED BY <1>1, <2>4 DEF Offer, RouteCursorsTypeOK, OnARoute, Working, rcRun, rcFetch
<1>2. ASSUME NEW n \in RcRuns, ClaimSource(n) PROVE CursorTypes'
  BY <1>2 DEF ClaimSource, RouteCursorsTypeOK, OnARoute, Working, RcGoes, rcFetch
<1>3. ASSUME NEW n \in RcRuns, SkipRoute(n) PROVE CursorTypes'
  BY <1>3, <1>0 DEF SkipRoute, RouteCursorsTypeOK, OnARoute, Working, RcGoes, rcFetch
<1>4. ASSUME NEW n \in RcRuns, BeginRoute(n) PROVE CursorTypes'
  <2>1. RouteOf(n) \in AllRoutes BY <1>4, RouteKnown DEF BeginRoute
  <2>2. 1 .. offered[RouteOf(n)] \subseteq Units BY <2>1, UnitsClosed DEF RouteCursorsTypeOK
  <2>3. unread' \in [RcRuns -> SUBSET Units] /\ snapshot' \in [RcRuns -> [AllRoutes -> Memory]]
    BY <1>4, <2>2 DEF BeginRoute, RouteCursorsTypeOK
  <2>4. /\ rcAt' = [rcAt EXCEPT ![n] = "fetch"] /\ routeNo[n] <= Len(routeList)
        /\ UNCHANGED <<routeList, offered, saved, rawPosts, routeNo, live, read, toStore, storeFails,
                       anyRoute, passedOver, abandoned>>
    BY <1>4 DEF BeginRoute, RcGoes
  <2> QED BY <2>3, <2>4 DEF RouteCursorsTypeOK, OnARoute, Working
<1>5. ASSUME NEW n \in RcRuns, NEW u \in unread[n], ReadUnit(n, u) PROVE CursorTypes'
  <2>1. RouteOf(n) \in AllRoutes BY <1>5, RouteKnown DEF ReadUnit, OnARoute, Working
  <2>2. u \in Units BY DEF RouteCursorsTypeOK
  <2>3. live' \in [RcRuns -> [AllRoutes -> Memory]]
    BY <1>5, <2>1, <2>2, RemembersEffect DEF ReadUnit, RouteCursorsTypeOK
  <2>4. read' \in [RcRuns -> SUBSET Units] /\ unread' \in [RcRuns -> SUBSET Units]
    BY <1>5, <2>2 DEF ReadUnit, RouteCursorsTypeOK
  <2>5. UNCHANGED <<routeList, offered, saved, rawPosts, rcAt, routeNo, snapshot, toStore, storeFails,
                    anyRoute, passedOver, abandoned>>
    BY <1>5 DEF ReadUnit
  <2> QED BY <2>3, <2>4, <2>5 DEF RouteCursorsTypeOK, OnARoute, Working
<1>6. ASSUME NEW n \in RcRuns, NEW u \in unread[n], UnitBroken(n, u) PROVE CursorTypes'
  <2>1. RouteOf(n) \in AllRoutes BY <1>6, RouteKnown DEF UnitBroken, OnARoute, Working
  <2>2. u \in Units BY DEF RouteCursorsTypeOK
  <2>3. live' \in [RcRuns -> [AllRoutes -> Memory]]
    BY <1>6, <2>1, <2>2, RemembersEffect DEF UnitBroken, RouteCursorsTypeOK
  <2>4. passedOver' \subseteq RouteUnits
    BY <1>6, <2>1, <2>2 DEF UnitBroken, RouteCursorsTypeOK, RouteUnits
  <2> QED BY <1>6, <2>3, <2>4 DEF UnitBroken, RouteCursorsTypeOK, OnARoute, Working
<1>7. ASSUME NEW n \in RcRuns, SearchRead(n) PROVE CursorTypes'
  <2> DEFINE page == {u \in unread[n] : Cardinality({v \in unread[n] : v > u}) < PageSize}
  <2>1. RouteOf(n) \in AllRoutes BY <1>7, RouteKnown DEF SearchRead, OnARoute, Working
  <2>2. unread[n] \in SUBSET Units /\ page \in SUBSET unread[n] BY DEF RouteCursorsTypeOK
  <2>3. live' \in [RcRuns -> [AllRoutes -> Memory]]
    BY <1>7, <2>1, <2>2, RemembersEffect DEF SearchRead, RouteCursorsTypeOK
  <2>4. /\ read' = [read EXCEPT ![n] = @ \cup page]
        /\ passedOver' = passedOver \cup ({RouteOf(n)} \X (unread[n] \ page))
    BY <1>7 DEF SearchRead
  <2> HIDE DEF page
  <2>5. passedOver' \subseteq RouteUnits /\ read' \in [RcRuns -> SUBSET Units]
    BY <2>1, <2>2, <2>4 DEF RouteCursorsTypeOK, RouteUnits
  <2> QED BY <1>7, <2>3, <2>5 DEF SearchRead, RouteCursorsTypeOK, OnARoute, Working
<1>8. ASSUME NEW n \in RcRuns, FetchFails(n) PROVE CursorTypes'
  <2>1. RouteOf(n) \in AllRoutes /\ routeNo[n] <= Len(routeList)
    BY <1>8, RouteKnown DEF FetchFails, OnARoute, Working
  <2>2. abandoned' \subseteq RouteUnits
    BY <1>8, <2>1 DEF FetchFails, RouteCursorsTypeOK, RouteUnits
  <2>3. anyRoute' \in [RcRuns -> BOOLEAN] BY <1>8 DEF FetchFails, RouteCursorsTypeOK
  <2>4. unread' \in [RcRuns -> SUBSET Units] /\ read' \in [RcRuns -> SUBSET Units]
    BY <1>8 DEF FetchFails, RouteCursorsTypeOK
  <2>5. /\ routeNo' = [routeNo EXCEPT ![n] = @ + 1] /\ rcAt' = [rcAt EXCEPT ![n] = "route"]
        /\ UNCHANGED <<routeList, offered, saved, rawPosts, live, snapshot, toStore, storeFails, passedOver>>
    BY <1>8 DEF FetchFails, RcGoes
  <2> QED BY <1>0, <2>1, <2>2, <2>3, <2>4, <2>5 DEF RouteCursorsTypeOK, OnARoute, Working
<1>9. ASSUME NEW n \in RcRuns, FetchEnds(n) PROVE CursorTypes'
  <2>1. RouteOf(n) \in AllRoutes /\ routeNo[n] <= Len(routeList)
    BY <1>9, RouteKnown DEF FetchEnds, OnARoute, Working
  <2>2. live' \in [RcRuns -> [AllRoutes -> Memory]]
    <3> DEFINE mem == [known |-> TRUE, past |-> live[n][RouteOf(n)].past \cup read[n]]
    <3>1. live[n] \in [AllRoutes -> Memory] BY DEF RouteCursorsTypeOK
    <3>2. mem \in Memory BY <2>1, <3>1 DEF RouteCursorsTypeOK, Memory
    <3>3. live' = [live EXCEPT ![n] = [live[n] EXCEPT ![RouteOf(n)] = mem]] \/ live' = live
      BY <1>9, <2>1, <3>1 DEF FetchEnds, RouteCursorsTypeOK
    <3> HIDE DEF mem
    <3>4. [live[n] EXCEPT ![RouteOf(n)] = mem] \in [AllRoutes -> Memory] BY <3>1, <3>2
    <3> QED BY <3>3, <3>4 DEF RouteCursorsTypeOK
  <2>3. toStore' \in [RcRuns -> SUBSET Units] BY <1>9 DEF FetchEnds, RouteCursorsTypeOK
  <2> QED BY <1>9, <2>1, <2>2, <2>3 DEF FetchEnds, RouteCursorsTypeOK, OnARoute, Working, RcGoes
<1>10. ASSUME NEW n \in RcRuns, NEW u \in toStore[n], StoreUnit(n, u) PROVE CursorTypes'
  <2>1. RouteOf(n) \in AllRoutes BY <1>10, RouteKnown DEF StoreUnit, OnARoute, Working
  <2>2. rawPosts' \subseteq RouteUnits BY <1>10, <2>1 DEF StoreUnit, RouteCursorsTypeOK, RouteUnits
  <2> QED BY <1>10, <2>2 DEF StoreUnit, RouteCursorsTypeOK, OnARoute, Working
<1>11. ASSUME NEW n \in RcRuns, NEW u \in toStore[n], StoreFailed(n, u) PROVE CursorTypes'
  BY <1>11 DEF StoreFailed, RouteCursorsTypeOK, OnARoute, Working
<1>12. ASSUME NEW n \in RcRuns, EndRoute(n) PROVE CursorTypes'
  <2>1. routeNo[n] <= Len(routeList) BY <1>12 DEF EndRoute, OnARoute, Working
  <2> QED BY <1>12, <1>0, <2>1 DEF EndRoute, RouteCursorsTypeOK, OnARoute, Working, RcGoes
<1>13. ASSUME NEW n \in RcRuns, RunDies(n) PROVE CursorTypes'
  BY <1>13, RunOverTyped DEF RunDies, RouteCursorsTypeOK
<1>14. ASSUME NEW n \in RcRuns, SaveOutcome(n) PROVE CursorTypes'
  BY <1>14, RunOverTyped DEF SaveOutcome, RouteCursorsTypeOK
<1>15. CASE UNCHANGED RouteCursorsVars
  BY <1>15 DEF RouteCursorsVars, RouteCursorsTypeOK, OnARoute, Working, rcRun, rcFetch
<1> QED
  BY <1>1, <1>2, <1>3, <1>4, <1>5, <1>6, <1>7, <1>8, <1>9, <1>10, <1>11, <1>12, <1>13, <1>14, <1>15
  DEF RouteCursorsNext

\* Cursors, validators and runs keep their types, whatever interleaves.
THEOREM CursorsTyped == RouteCursorsSpec => []RouteCursorsTypeOK
<1>1. CursorTypes => RouteCursorsTypeOK BY DEF CursorTypes
<1> QED BY <1>1, CursorTypesInit, CursorTypesStep, PTL DEF RouteCursorsSpec

---------------------------------------------------------------------------

\* What is settled stays settled: the four sets only grow.
LEMMA SettledStays ==
    ASSUME rawPosts \subseteq rawPosts', passedOver \subseteq passedOver', abandoned \subseteq abandoned'
    PROVE  \A r, u : UnitSettled(r, u) => UnitSettled(r, u)'
BY DEF UnitSettled

LEMMA CursorInvInit == RouteCursorsInit => CursorInv
<1>1. ASSUME RouteCursorsInit PROVE CursorInv
  <2>1. /\ saved = Fresh0 /\ \A n \in RcRuns : ~Working(n)
        /\ \A n \in RcRuns : live[n] = Fresh0
    BY <1>1 DEF RouteCursorsInit, Working
  <2> QED BY <1>1, <2>1, CursorTypesInit, FreshTyped
        DEF CursorInv, SavedSettled, SnapshotSettled, LiveSettled
<1> QED BY <1>1

LEMMA CursorInvStep == CursorInv /\ [RouteCursorsNext]_RouteCursorsVars => CursorInv'
<1> SUFFICES ASSUME CursorInv, [RouteCursorsNext]_RouteCursorsVars PROVE CursorInv'
    OBVIOUS
<1>0. CursorTypes' BY CursorTypesStep DEF CursorInv
<1>t. RouteCursorsTypeOK /\ OnARoute BY DEF CursorInv, CursorTypes
<1>1. CASE Offer \/ UNCHANGED RouteCursorsVars
  <2>1. UNCHANGED <<routeList, saved, rawPosts, rcRun, passedOver, abandoned>>
    BY <1>1 DEF Offer, RouteCursorsVars
  <2> QED BY <1>0, <2>1 DEF CursorInv, SavedSettled, SnapshotSettled, LiveSettled, UnitSettled, Pending,
            RouteOf, Working, rcRun, rcFetch
<1>2. ASSUME NEW n \in RcRuns, ClaimSource(n) PROVE CursorInv'
  <2>1. \A m \in RcRuns : /\ ~Working(n)'
                          /\ m # n => rcAt'[m] = rcAt[m] /\ live'[m] = live[m]
                          /\ live'[n] = saved
    BY <1>2, <1>t DEF ClaimSource, RcGoes, RouteCursorsTypeOK, Working
  <2> QED BY <1>0, <1>2, <2>1 DEF ClaimSource, CursorInv, SavedSettled, SnapshotSettled, LiveSettled,
            UnitSettled, Pending, RouteOf, Working, rcFetch
<1>3. ASSUME NEW n \in RcRuns, SkipRoute(n) PROVE CursorInv'
  <2>1. \A m \in RcRuns : m # n => routeNo'[m] = routeNo[m]
    BY <1>3, <1>t DEF SkipRoute, RouteCursorsTypeOK
  <2> QED BY <1>0, <1>3, <2>1 DEF SkipRoute, CursorInv, SavedSettled, SnapshotSettled, LiveSettled,
            UnitSettled, Pending, RouteOf, Working, rcFetch
<1>4. ASSUME NEW n \in RcRuns, BeginRoute(n) PROVE CursorInv'
  <2>1. /\ \A m \in RcRuns : m # n => rcAt'[m] = rcAt[m] /\ snapshot'[m] = snapshot[m]
        /\ rcAt[n] = "route" /\ snapshot'[n] = live[n]
    BY <1>4, <1>t DEF BeginRoute, RcGoes, RouteCursorsTypeOK
  <2>2. \A r \in AllRoutes : \A u \in live[n][r].past : UnitSettled(r, u)
    BY <2>1 DEF CursorInv, LiveSettled, Pending
  <2> QED BY <1>0, <1>4, <2>1, <2>2 DEF BeginRoute, CursorInv, SavedSettled, SnapshotSettled,
            LiveSettled, UnitSettled, Pending, RouteOf, Working
<1>5. ASSUME NEW n \in RcRuns, NEW u \in unread[n], ReadUnit(n, u) PROVE CursorInv'
  <2>1. RouteOf(n) \in AllRoutes BY <1>5, <1>t, RouteKnown DEF ReadUnit, OnARoute, Working
  <2>2. PICK S \in SUBSET {u} : Remembers(n, S) BY <1>5 DEF ReadUnit
  <2>3. S \in SUBSET Units BY <1>t DEF RouteCursorsTypeOK
  <2>4. /\ \A m \in RcRuns, r \in AllRoutes : m # n \/ r # RouteOf(n) => live'[m][r] = live[m][r]
        /\ live'[n][RouteOf(n)].past = live[n][RouteOf(n)].past \cup S
    BY <1>t, <2>1, <2>2, <2>3, RemembersEffect DEF RouteCursorsTypeOK
  <2>5. /\ \A m \in RcRuns : m # n => read'[m] = read[m]
        /\ read'[n] = read[n] \cup {u} /\ rcAt[n] = "fetch"
    BY <1>5, <1>t DEF ReadUnit, RouteCursorsTypeOK
  <2>6. UNCHANGED <<routeList, saved, rawPosts, rcAt, routeNo, snapshot, toStore, storeFails, passedOver,
                    abandoned>>
    BY <1>5 DEF ReadUnit
  <2>7. \A r, v : UnitSettled(r, v)' <=> UnitSettled(r, v) BY <2>6 DEF UnitSettled
  <2>8. /\ \A m \in RcRuns : \A r, v : Pending(m, r, v) => Pending(m, r, v)'
        /\ \A v \in S : Pending(n, RouteOf(n), v)'
    BY <2>5, <2>6 DEF Pending, RouteOf
  <2>9. LiveSettled'
    <3>1. ASSUME NEW m \in RcRuns, NEW r \in AllRoutes, NEW v \in live[m][r].past
          PROVE  UnitSettled(r, v)' \/ Pending(m, r, v)'
      BY <2>7, <2>8, <3>1 DEF CursorInv, LiveSettled
    <3>2. \A v \in live'[n][RouteOf(n)].past : v \in live[n][RouteOf(n)].past \/ v \in S
      BY <2>4
    <3>3. ASSUME NEW m \in RcRuns, NEW r \in AllRoutes, NEW v \in live'[m][r].past
          PROVE  UnitSettled(r, v)' \/ Pending(m, r, v)'
      <4>1. CASE m = n /\ r = RouteOf(n)
        <5>1. v \in live[m][r].past \/ v \in S BY <3>2, <3>3, <4>1
        <5>2. CASE v \in live[m][r].past BY <3>1, <5>2
        <5>3. CASE v \in S BY <2>6, <2>8, <4>1, <5>3 DEF RouteOf
        <5> QED BY <5>1, <5>2, <5>3
      <4>2. CASE ~(m = n /\ r = RouteOf(n))
        <5>1. v \in live[m][r].past BY <2>4, <3>3, <4>2
        <5> QED BY <3>1, <5>1
      <4> QED BY <4>1, <4>2
    <3> QED BY <3>3 DEF LiveSettled
  <2> QED BY <1>0, <2>6, <2>7, <2>9 DEF CursorInv, SavedSettled, SnapshotSettled, Working
<1>6. ASSUME NEW n \in RcRuns, NEW u \in unread[n], UnitBroken(n, u) PROVE CursorInv'
  <2>1. RouteOf(n) \in AllRoutes BY <1>6, <1>t, RouteKnown DEF UnitBroken, OnARoute, Working
  <2>2. {u} \in SUBSET Units BY <1>t DEF RouteCursorsTypeOK
  <2>3. \/ UNCHANGED <<live, passedOver>>
        \/ Remembers(n, {u}) /\ passedOver' = passedOver \cup {<<RouteOf(n), u>>}
    BY <1>6 DEF UnitBroken
  <2>4. UNCHANGED <<routeList, saved, rawPosts, rcAt, routeNo, snapshot, read, toStore, storeFails, abandoned>>
    BY <1>6 DEF UnitBroken
  <2>5. CASE UNCHANGED <<live, passedOver>>
    BY <1>0, <2>4, <2>5 DEF CursorInv, SavedSettled, SnapshotSettled, LiveSettled, UnitSettled, Pending,
       RouteOf, Working
  <2>6. CASE Remembers(n, {u}) /\ passedOver' = passedOver \cup {<<RouteOf(n), u>>}
    <3>1. /\ \A m \in RcRuns, r \in AllRoutes : m # n \/ r # RouteOf(n) => live'[m][r] = live[m][r]
          /\ live'[n][RouteOf(n)].past = live[n][RouteOf(n)].past \cup {u}
      BY <1>t, <2>1, <2>2, <2>6, RemembersEffect DEF RouteCursorsTypeOK
    <3>2. \A r, v : UnitSettled(r, v) => UnitSettled(r, v)' BY <2>4, <2>6, SettledStays
    <3>3. UnitSettled(RouteOf(n), u)' BY <2>4, <2>6 DEF UnitSettled, RouteOf
    <3>4. \A m, r, v : Pending(m, r, v)' <=> Pending(m, r, v) BY <2>4 DEF Pending, RouteOf
    <3>5. LiveSettled' BY <2>4, <3>1, <3>2, <3>3, <3>4 DEF CursorInv, LiveSettled, RouteOf
    <3> QED BY <1>0, <2>4, <3>2, <3>5 DEF CursorInv, SavedSettled, SnapshotSettled, Working
  <2> QED BY <2>3, <2>5, <2>6
<1>7. ASSUME NEW n \in RcRuns, SearchRead(n) PROVE CursorInv'
  <2> DEFINE page == {v \in unread[n] : Cardinality({w \in unread[n] : w > v}) < PageSize}
  <2>1. RouteOf(n) \in AllRoutes BY <1>7, <1>t, RouteKnown DEF SearchRead, OnARoute, Working
  <2>2. unread[n] \in SUBSET Units BY <1>t DEF RouteCursorsTypeOK
  <2>3. /\ rcAt[n] = "fetch" /\ read' = [read EXCEPT ![n] = @ \cup page] /\ Remembers(n, unread[n])
        /\ passedOver' = passedOver \cup ({RouteOf(n)} \X (unread[n] \ page))
        /\ UNCHANGED <<routeList, saved, rawPosts, rcAt, routeNo, snapshot, toStore, storeFails, abandoned>>
    BY <1>7 DEF SearchRead
  <2> HIDE DEF page
  <2>4. /\ \A m \in RcRuns, r \in AllRoutes : m # n \/ r # RouteOf(n) => live'[m][r] = live[m][r]
        /\ live'[n][RouteOf(n)].past = live[n][RouteOf(n)].past \cup unread[n]
    BY <1>t, <2>1, <2>2, <2>3, RemembersEffect DEF RouteCursorsTypeOK
  <2>5. \A r, v : UnitSettled(r, v) => UnitSettled(r, v)' BY <2>3, SettledStays
  <2>6. /\ \A m \in RcRuns : m # n => read'[m] = read[m]
        /\ read'[n] = read[n] \cup page
    BY <2>3, <1>t DEF RouteCursorsTypeOK
  <2>7. \A m \in RcRuns : \A r, v : Pending(m, r, v) => Pending(m, r, v)'
    BY <2>3, <2>6 DEF Pending, RouteOf
  <2>8. \A v \in unread[n] : UnitSettled(RouteOf(n), v)' \/ Pending(n, RouteOf(n), v)'
    BY <2>3, <2>6 DEF UnitSettled, Pending, RouteOf
  <2>9. LiveSettled' BY <2>3, <2>4, <2>5, <2>7, <2>8 DEF CursorInv, LiveSettled, RouteOf
  <2> QED BY <1>0, <2>3, <2>5, <2>9 DEF CursorInv, SavedSettled, SnapshotSettled, Working
<1>8. ASSUME NEW n \in RcRuns, FetchFails(n) PROVE CursorInv'
  <2>1. /\ rcAt[n] = "fetch" /\ rcAt' = [rcAt EXCEPT ![n] = "route"]
        /\ abandoned' = abandoned \cup ({RouteOf(n)} \X (read[n] \cap live[n][RouteOf(n)].past))
        /\ routeNo' = [routeNo EXCEPT ![n] = @ + 1] /\ read' = [read EXCEPT ![n] = {}]
        /\ UNCHANGED <<routeList, saved, rawPosts, live, snapshot, toStore, storeFails, passedOver>>
    BY <1>8 DEF FetchFails, RcGoes
  <2>2. \A r, v : UnitSettled(r, v) => UnitSettled(r, v)' BY <2>1, SettledStays
  <2>3. \A m \in RcRuns : m # n => \A r, v : Pending(m, r, v) => Pending(m, r, v)'
    BY <2>1, <1>t DEF Pending, RouteOf, RouteCursorsTypeOK
  <2>4. ASSUME NEW r \in AllRoutes, NEW v \in live[n][r].past PROVE UnitSettled(r, v)'
    <3>1. CASE UnitSettled(r, v) BY <2>2, <3>1
    <3>2. CASE Pending(n, r, v) BY <2>1, <3>2 DEF Pending, UnitSettled
    <3> QED BY <3>1, <3>2 DEF CursorInv, LiveSettled
  <2>5. LiveSettled' BY <2>1, <2>2, <2>3, <2>4 DEF CursorInv, LiveSettled
  <2>6. \A m \in RcRuns : Working(m)' => Working(m) BY <2>1, <1>t DEF Working, RouteCursorsTypeOK
  <2> QED BY <1>0, <2>1, <2>2, <2>5, <2>6 DEF CursorInv, SavedSettled, SnapshotSettled
<1>9. ASSUME NEW n \in RcRuns, FetchEnds(n) PROVE CursorInv'
  <2>1. /\ rcAt[n] = "fetch" /\ rcAt' = [rcAt EXCEPT ![n] = "store"] /\ read' = [read EXCEPT ![n] = {}]
        /\ toStore' = [toStore EXCEPT ![n] = {u \in read[n] : <<RouteOf(n), u>> \notin OutOfScope}]
        /\ UNCHANGED <<routeList, saved, rawPosts, routeNo, snapshot, storeFails, passedOver, abandoned>>
    BY <1>9 DEF FetchEnds, RcGoes
  <2>2. RouteOf(n) \in AllRoutes BY <1>t, <2>1, RouteKnown DEF OnARoute, Working
  <2>3. /\ \A m \in RcRuns : m # n => live'[m] = live[m]
        /\ \A r \in AllRoutes : r # RouteOf(n) => live'[n][r] = live[n][r]
        /\ live'[n][RouteOf(n)].past \subseteq live[n][RouteOf(n)].past \cup read[n]
    BY <1>9, <1>t, <2>2 DEF FetchEnds, RouteCursorsTypeOK
  <2>4. \A m \in RcRuns : m # n => \A r, v : Pending(m, r, v) => Pending(m, r, v)'
    BY <2>1, <1>t DEF Pending, RouteOf, RouteCursorsTypeOK
  <2>5. \A r, v : UnitSettled(r, v) => UnitSettled(r, v)' BY <2>1, SettledStays
  <2>6. \A v \in read[n] : UnitSettled(RouteOf(n), v)' \/ Pending(n, RouteOf(n), v)'
    BY <2>1, <1>t DEF UnitSettled, Pending, RouteOf, RouteCursorsTypeOK
  <2>7. \A r \in AllRoutes : \A v \in live[n][r].past :
            UnitSettled(r, v) \/ (r = RouteOf(n) /\ v \in read[n])
    BY <2>1 DEF CursorInv, LiveSettled, Pending
  <2>8. LiveSettled'
    <3>1. ASSUME NEW r \in AllRoutes, NEW v \in live'[n][r].past
          PROVE  UnitSettled(r, v)' \/ Pending(n, r, v)'
      <4>1. CASE r # RouteOf(n)
        <5>1. v \in live[n][r].past BY <2>3, <3>1, <4>1
        <5> QED BY <2>5, <2>7, <4>1, <5>1
      <4>2. CASE r = RouteOf(n)
        <5>1. v \in live[n][r].past \/ v \in read[n] BY <2>3, <3>1, <4>2
        <5>2. UnitSettled(r, v) \/ v \in read[n] BY <2>7, <5>1
        <5>3. CASE UnitSettled(r, v) BY <2>5, <5>3
        <5>4. CASE v \in read[n]
          <6>1. UnitSettled(RouteOf(n), v)' \/ Pending(n, RouteOf(n), v)' BY <2>6, <5>4
          <6> QED BY <2>1, <4>2, <6>1 DEF UnitSettled, Pending, RouteOf
        <5> QED BY <5>2, <5>3, <5>4
      <4> QED BY <4>1, <4>2
    <3>2. ASSUME NEW m \in RcRuns, m # n, NEW r \in AllRoutes, NEW v \in live[m][r].past
          PROVE  UnitSettled(r, v)' \/ Pending(m, r, v)'
      BY <2>4, <2>5, <3>2 DEF CursorInv, LiveSettled
    <3> QED BY <2>3, <3>1, <3>2 DEF LiveSettled
  <2>9. \A m \in RcRuns : Working(m)' => Working(m) BY <2>1, <1>t DEF Working, RouteCursorsTypeOK
  <2> QED BY <1>0, <2>1, <2>5, <2>8, <2>9 DEF CursorInv, SavedSettled, SnapshotSettled
<1>10. ASSUME NEW n \in RcRuns, NEW u \in toStore[n], StoreUnit(n, u) PROVE CursorInv'
  <2>1. /\ rcAt[n] = "store" /\ rawPosts' = rawPosts \cup {<<RouteOf(n), u>>}
        /\ toStore' = [toStore EXCEPT ![n] = @ \ {u}]
        /\ UNCHANGED <<routeList, saved, rcAt, routeNo, live, snapshot, read, storeFails, passedOver, abandoned>>
    BY <1>10 DEF StoreUnit
  <2>2. \A r, v : UnitSettled(r, v) => UnitSettled(r, v)' BY <2>1, SettledStays
  <2>3. \A m \in RcRuns : \A r, v : Pending(m, r, v) => UnitSettled(r, v)' \/ Pending(m, r, v)'
    BY <2>1, <1>t DEF Pending, UnitSettled, RouteOf, RouteCursorsTypeOK
  <2>4. LiveSettled' BY <2>1, <2>2, <2>3 DEF CursorInv, LiveSettled
  <2> QED BY <1>0, <2>1, <2>2, <2>4 DEF CursorInv, SavedSettled, SnapshotSettled, Working
<1>11. ASSUME NEW n \in RcRuns, NEW u \in toStore[n], StoreFailed(n, u) PROVE CursorInv'
  <2>1. /\ rcAt[n] = "store" /\ storeFails' = [storeFails EXCEPT ![n] = TRUE]
        /\ toStore' = [toStore EXCEPT ![n] = @ \ {u}]
        /\ UNCHANGED <<routeList, saved, rawPosts, rcAt, routeNo, live, snapshot, read, passedOver, abandoned>>
    BY <1>11 DEF StoreFailed
  <2>2. \A r, v : UnitSettled(r, v)' <=> UnitSettled(r, v) BY <2>1 DEF UnitSettled
  <2>3. \A m \in RcRuns : \A r, v : Pending(m, r, v) => Pending(m, r, v)'
    BY <2>1, <1>t DEF Pending, RouteOf, RouteCursorsTypeOK
  <2>4. LiveSettled' BY <2>1, <2>2, <2>3 DEF CursorInv, LiveSettled
  <2> QED BY <1>0, <2>1, <2>2, <2>4 DEF CursorInv, SavedSettled, SnapshotSettled, Working
<1>12. ASSUME NEW n \in RcRuns, EndRoute(n) PROVE CursorInv'
  <2>1. /\ rcAt[n] = "store" /\ rcAt' = [rcAt EXCEPT ![n] = "route"] /\ toStore[n] = {}
        /\ routeNo' = [routeNo EXCEPT ![n] = @ + 1] /\ storeFails' = [storeFails EXCEPT ![n] = FALSE]
        /\ live' = IF storeFails[n] THEN [live EXCEPT ![n] = snapshot[n]] ELSE live
        /\ UNCHANGED <<routeList, saved, rawPosts, snapshot, read, toStore, passedOver, abandoned>>
    BY <1>12 DEF EndRoute, RcGoes
  <2>2. \A r, v : UnitSettled(r, v)' <=> UnitSettled(r, v) BY <2>1 DEF UnitSettled
  <2>3. \A m \in RcRuns : m # n => /\ live'[m] = live[m]
                                   /\ \A r, v : Pending(m, r, v) => Pending(m, r, v)'
    BY <2>1, <1>t DEF Pending, RouteOf, RouteCursorsTypeOK
  <2>4. ASSUME NEW r \in AllRoutes, NEW v \in live'[n][r].past PROVE UnitSettled(r, v)
    <3>1. CASE storeFails[n]
      <4>1. live'[n] = snapshot[n] /\ Working(n)
        BY <2>1, <3>1, <1>t DEF RouteCursorsTypeOK, Working
      <4> QED BY <2>4, <4>1 DEF CursorInv, SnapshotSettled
    <3>2. CASE ~storeFails[n] BY <2>1, <2>4, <3>2 DEF CursorInv, LiveSettled, Pending
    <3> QED BY <3>1, <3>2
  <2>5. LiveSettled' BY <2>2, <2>3, <2>4 DEF CursorInv, LiveSettled
  <2>6. \A m \in RcRuns : Working(m)' => Working(m) BY <2>1, <1>t DEF Working, RouteCursorsTypeOK
  <2> QED BY <1>0, <2>1, <2>2, <2>5, <2>6 DEF CursorInv, SavedSettled, SnapshotSettled
<1>13. ASSUME NEW n \in RcRuns, RunDies(n) \/ SaveOutcome(n) PROVE CursorInv'
  <2>1. RunOver(n) /\ UNCHANGED <<routeList, rawPosts, passedOver, abandoned>>
    BY <1>13 DEF RunDies, SaveOutcome
  <2>2. saved' = saved \/ (saved' = live[n] /\ rcAt[n] = "route") BY <1>13 DEF RunDies, SaveOutcome
  <2>3. \A r, v : UnitSettled(r, v)' <=> UnitSettled(r, v) BY <2>1 DEF UnitSettled
  <2>4. \A r \in AllRoutes : \A v \in saved'[r].past : UnitSettled(r, v)
    BY <2>2 DEF CursorInv, SavedSettled, LiveSettled, Pending
  <2>5. /\ \A m \in RcRuns : m # n => /\ live'[m] = live[m] /\ snapshot'[m] = snapshot[m]
                                      /\ Working(m)' => Working(m)
                                      /\ \A r, v : Pending(m, r, v) => Pending(m, r, v)'
        /\ live'[n] = Fresh0 /\ ~Working(n)'
    BY <2>1, <1>t DEF RunOver, RcGoes, RouteCursorsTypeOK, Working, Pending, RouteOf
  <2>6. SavedSettled' BY <2>3, <2>4 DEF SavedSettled
  <2>7. LiveSettled' BY <2>3, <2>5, FreshTyped DEF CursorInv, LiveSettled
  <2>8. SnapshotSettled' BY <2>3, <2>5 DEF CursorInv, SnapshotSettled
  <2> QED BY <1>0, <2>6, <2>7, <2>8 DEF CursorInv
<1> QED
  BY <1>1, <1>2, <1>3, <1>4, <1>5, <1>6, <1>7, <1>8, <1>9, <1>10, <1>11, <1>12, <1>13
  DEF RouteCursorsNext

\* What a source's row says has been read is stored, out of scope, never
\* obtained, or was lost with a fetch that failed: nothing is skipped because a
\* post failed to store, two runs overlapped or one died.
THEOREM NothingEverSkipped == RouteCursorsSpec => []NothingSkipped
<1>1. CursorInv => NothingSkipped
  BY DEF CursorInv, SavedSettled, UnitSettled, NothingSkipped, Remembered, RouteUnits
<1> QED BY <1>1, CursorInvInit, CursorInvStep, PTL DEF RouteCursorsSpec


---------------------------------------------------------------------------
(* What the page selects and shows.                                        *)

\* The types the proofs need; the bounds on polls and clicks are not among them.
PageTypes ==
    /\ cityData \in [mode : Modes, cities : SUBSET SpCities]
    /\ exploring \in BOOLEAN /\ slot \in {"hidden", "api"}
    /\ uiSel \in MaybeCity /\ pendingCity \in MaybeCity
    /\ panel \in [city : MaybeCity, wrap : Nat,
                  posts : {"closed", "asking", "api", "empty", "bundled", "apology"}]
    /\ postReqs \subseteq [city : SpCities, wrap : Nat]
    /\ seriesReqs \in Nat
    /\ drawer \in [open : BOOLEAN, post : Posts({"api", "bundled", "none"}),
                   shows : {"nothing", "loading", "receipt", "synthesized", "outage"}]
    /\ receiptReqs \subseteq Posts({"api", "bundled"})

\* Without a selection no posts are shown, so no answer finds an element of an
\* earlier one: a request that can still write to the open panel was made under
\* the snapshot on the page, and that one is no fallback.
RequestsInv ==
    /\ uiSel = SpNoCity => panel.posts = "closed"
    /\ "featured" \in blocks => ~FellBack(cityData.mode)
    /\ \A r \in postReqs :
          /\ r.wrap <= panel.wrap
          /\ FellBack(cityData.mode) /\ uiSel # SpNoCity => r.wrap < panel.wrap

PageInv == PageTypes /\ SelectionAgrees /\ RequestsInv /\ PageHonest

\* The page as it is loaded.
LEMMA PageInvInit == StoryPageInit => PageInv
<1> SUFFICES ASSUME StoryPageInit PROVE PageInv
  OBVIOUS
<1>1. PageTypes
  BY DEF StoryPageInit, PageTypes, Modes, MaybeCity, Posts
<1>2. SelectionAgrees /\ RequestsInv /\ PageHonest
  BY DEF StoryPageInit, SelectionAgrees, RequestsInv, PageHonest, FellBack
<1> QED BY <1>1, <1>2 DEF PageInv

\* What showing a city does to the panel: a new element, and a request for it
\* that no older element shares.
LEMMA Shown ==
    ASSUME PageTypes, NEW c \in MaybeCity, NEW mode, ShowsCity(c, mode)
    PROVE  /\ panel' \in [city : MaybeCity, wrap : Nat,
                          posts : {"closed", "asking", "api", "empty", "bundled", "apology"}]
           /\ postReqs' \subseteq [city : SpCities, wrap : Nat]
           /\ panel'.city = c
           /\ c = SpNoCity => panel'.posts = "closed" /\ panel'.wrap = panel.wrap /\ postReqs' = postReqs
           /\ c # SpNoCity => /\ panel'.posts = (IF FellBack(mode) THEN "bundled" ELSE "asking")
                              /\ panel'.wrap = panel.wrap + 1
           /\ FellBack(mode) => postReqs' = postReqs
           /\ \A r \in postReqs' : r \in postReqs \/ r.wrap = panel'.wrap
<1>1. CASE c = SpNoCity
  BY <1>1 DEF ShowsCity, PageTypes, MaybeCity
<1>2. CASE c # SpNoCity
  <2>1. c \in SpCities
    BY <1>2 DEF MaybeCity
  <2>2. /\ panel' = [city |-> c, wrap |-> panel.wrap + 1, posts |-> IF FellBack(mode) THEN "bundled" ELSE "asking"]
        /\ postReqs' = IF FellBack(mode) THEN postReqs
                       ELSE postReqs \cup {[city |-> c, wrap |-> panel.wrap + 1]}
    BY <1>2 DEF ShowsCity
  <2> QED BY <1>2, <2>1, <2>2 DEF PageTypes
<1> QED BY <1>1, <1>2

\* What drawing the ribbon makes up: only in the fallback.
LEMMA DrawnHonest ==
    ASSUME NEW rows, NEW mode, Drawn(rows, mode) = "synthesized"
    PROVE  FellBack(mode)
BY DEF Drawn

\* What asking for the series leaves.
LEMMA Asked ==
    ASSUME PageTypes, NEW mode, NEW drawn, AsksSeries(mode, drawn)
    PROVE  seriesReqs' \in Nat /\ (~FellBack(mode) => seriesReqs' > 0)
BY DEF AsksSeries, PageTypes

\* The snapshot comes in.
LEMMA CitiesArriveKeeps ==
    ASSUME PageInv, NEW a \in SpAnswers, NEW featured \in BOOLEAN, CitiesArrive(a, featured)
    PROVE  PageInv'
<1> DEFINE gone == uiSel # SpNoCity /\ uiSel \notin a.cities
<1>0. /\ PageTypes /\ SelectionAgrees /\ RequestsInv /\ PageHonest
      /\ cityData' = a /\ slot' = "hidden" /\ blocks' = {"themes"} \cup {b \in {"featured"} : featured}
      /\ FellBack(a.mode) => ~featured
      /\ UNCHANGED <<exploring, uiExploring, pendingCity, drawer, receiptReqs>>
      /\ a.mode \in Modes /\ a.cities \subseteq SpCities /\ SpNoCity \notin SpCities
  BY StoryPageAssumption DEF PageInv, CitiesArrive, spDrawer, Modes
<1>1. /\ IF gone THEN Selected(SpNoCity) ELSE UNCHANGED <<uiSel, storySel, globeSel>>
      /\ IF gone THEN ShowsCity(SpNoCity, a.mode)
         ELSE IF uiExploring /\ uiSel # SpNoCity THEN ShowsCity(uiSel, a.mode) ELSE UNCHANGED spPanel
      /\ IF ~uiExploring THEN UNCHANGED spRibbon
         ELSE IF ~FellBack(a.mode) /\ ~series.fresh THEN AsksSeries(a.mode, ribbon)
         ELSE ribbon' = Drawn(series.rows, a.mode) /\ UNCHANGED <<series, seriesReqs>>
  BY DEF CitiesArrive, OnCitiesData
<1> HIDE DEF gone
\* What is selected afterwards, the panel is drawn for, from this snapshot.
<1>2. /\ uiSel' = (IF gone THEN SpNoCity ELSE uiSel) /\ storySel' = uiSel' /\ globeSel' = uiSel'
      /\ uiSel' # SpNoCity => uiSel' \in a.cities /\ exploring /\ ~gone
  BY <1>0, <1>1 DEF Selected, SelectionAgrees, gone
<1>3. /\ panel' \in [city : MaybeCity, wrap : Nat,
                      posts : {"closed", "asking", "api", "empty", "bundled", "apology"}]
      /\ postReqs' \subseteq [city : SpCities, wrap : Nat]
      /\ panel'.city = uiSel'
      /\ uiSel' = SpNoCity => panel'.posts = "closed"
      /\ uiSel' # SpNoCity => panel'.posts = (IF FellBack(a.mode) THEN "bundled" ELSE "asking")
      /\ \A r \in postReqs' : r.wrap <= panel'.wrap
      /\ FellBack(a.mode) /\ uiSel' # SpNoCity => \A r \in postReqs' : r.wrap < panel'.wrap
  <2>1. CASE gone
    <3>1. ShowsCity(SpNoCity, a.mode) /\ SpNoCity \in MaybeCity
      BY <1>1, <2>1 DEF MaybeCity
    <3> QED BY <1>0, <1>2, <2>1, <3>1, Shown DEF RequestsInv
  <2>2. CASE ~gone /\ uiSel # SpNoCity
    <3>1. ShowsCity(uiSel, a.mode) /\ uiSel \in MaybeCity
      BY <1>0, <1>1, <2>2 DEF SelectionAgrees, PageTypes
    <3>2. \A r \in postReqs : r.wrap \in Nat /\ r.wrap <= panel.wrap /\ panel.wrap \in Nat
      BY <1>0 DEF PageTypes, RequestsInv
    <3>3. \A r \in postReqs' : r.wrap \in Nat /\ panel'.wrap \in Nat
      BY <1>0, <3>1, Shown
    <3>4. \A r \in postReqs' : r.wrap <= panel'.wrap
      BY <1>0, <2>2, <3>1, <3>2, <3>3, Shown
    <3>5. FellBack(a.mode) => \A r \in postReqs' : r.wrap < panel'.wrap
      BY <1>0, <2>2, <3>1, <3>2, <3>3, Shown
    <3> QED BY <1>0, <1>2, <2>2, <3>1, <3>4, <3>5, Shown
  <2>3. CASE ~gone /\ uiSel = SpNoCity
    <3>1. UNCHANGED <<panel, postReqs, uiSel>>
      BY <1>0, <1>1, <2>3 DEF spPanel
    <3> QED BY <1>0, <2>3, <3>1 DEF PageTypes, SelectionAgrees, RequestsInv
  <2> QED BY <2>1, <2>2, <2>3
<1>4. /\ seriesReqs' \in Nat
      /\ exploring /\ ribbon' = "synthesized" => FellBack(a.mode) \/ seriesReqs' > 0
  <2>1. CASE ~exploring
    BY <1>0, <1>1, <2>1 DEF SelectionAgrees, PageTypes, spRibbon
  <2>2. CASE exploring /\ ~FellBack(a.mode) /\ ~series.fresh
    BY <1>0, <1>1, <2>2, Asked DEF SelectionAgrees
  <2>3. CASE exploring /\ ~(~FellBack(a.mode) /\ ~series.fresh)
    BY <1>0, <1>1, <2>3, DrawnHonest DEF SelectionAgrees, PageTypes
  <2> QED BY <2>1, <2>2, <2>3
<1>5. PageTypes'
  <2>1. cityData' \in [mode : Modes, cities : SUBSET SpCities]
    BY <1>0, StoryPageAssumption DEF Modes
  <2>2. uiSel' \in MaybeCity
    BY <1>0, <1>2 DEF MaybeCity
  <2>3. /\ exploring' \in BOOLEAN /\ slot' \in {"hidden", "api"} /\ pendingCity' \in MaybeCity
        /\ drawer' \in [open : BOOLEAN, post : Posts({"api", "bundled", "none"}),
                        shows : {"nothing", "loading", "receipt", "synthesized", "outage"}]
        /\ receiptReqs' \subseteq Posts({"api", "bundled"})
    BY <1>0 DEF PageTypes
  <2> QED BY <1>3, <1>4, <2>1, <2>2, <2>3 DEF PageTypes
<1>6. SelectionAgrees'
  BY <1>0, <1>2, <1>3 DEF SelectionAgrees
<1>7. RequestsInv'
  BY <1>0, <1>3 DEF RequestsInv
<1>8. PageHonest'
  BY <1>0, <1>3, <1>4 DEF PageHonest
<1> QED BY <1>5, <1>6, <1>7, <1>8 DEF PageInv

\* A selection - by the reader, by a drill chip, or none any more - draws the
\* panel for it under the snapshot that is on the page.
LEMMA SelectingKeeps ==
    ASSUME PageInv, NEW c \in cityData.cities \cup {SpNoCity}, ShowsCity(c, cityData.mode), Selected(c),
           UNCHANGED <<cityData, slot, blocks, drawer, receiptReqs>>
    PROVE  /\ panel' \in [city : MaybeCity, wrap : Nat,
                           posts : {"closed", "asking", "api", "empty", "bundled", "apology"}]
           /\ postReqs' \subseteq [city : SpCities, wrap : Nat]
           /\ uiSel' \in MaybeCity
           /\ RequestsInv'
           /\ storySel' = uiSel' /\ globeSel' = uiSel' /\ panel'.city = uiSel'
           /\ uiSel' # SpNoCity => uiSel' \in cityData.cities /\ panel'.posts # "closed"
           /\ FellBack(cityData.mode) => panel'.posts \in {"closed", "bundled"}
           /\ panel'.posts = "bundled" => FellBack(cityData.mode)
<1>0. PageTypes /\ RequestsInv /\ uiSel' = c /\ c \in MaybeCity /\ storySel' = c /\ globeSel' = c
  BY DEF PageInv, PageTypes, MaybeCity, Selected
<1>1. \A r \in postReqs : r.wrap \in Nat /\ r.wrap <= panel.wrap /\ panel.wrap \in Nat
  BY <1>0 DEF PageTypes, RequestsInv
<1>2. \A r \in postReqs' : r.wrap \in Nat /\ panel'.wrap \in Nat
  BY <1>0, Shown
<1>3. \A r \in postReqs' : r.wrap <= panel'.wrap
  BY <1>0, <1>1, <1>2, Shown
<1>4. FellBack(cityData.mode) /\ c # SpNoCity => \A r \in postReqs' : r.wrap < panel'.wrap
  BY <1>0, <1>1, <1>2, Shown
<1>5. RequestsInv'
  BY <1>0, <1>3, <1>4, Shown DEF RequestsInv
<1> QED BY <1>0, <1>5, Shown

\* The start of the exploration keeps the page honest.
LEMMA EnterKeeps ==
    ASSUME PageInv, EnterExplore
    PROVE  PageInv'
<1> DEFINE c == IF pendingCity \in cityData.cities THEN pendingCity ELSE uiSel
<1>0. /\ PageTypes /\ SelectionAgrees /\ RequestsInv /\ PageHonest
      /\ UNCHANGED <<cityData, slot, blocks, drawer, receiptReqs>>
      /\ exploring' = TRUE /\ uiExploring' = TRUE /\ pendingCity' = SpNoCity
      /\ AsksSeries(cityData.mode, Drawn(series.rows, cityData.mode))
  BY DEF PageInv, EnterExplore, spStory, spDrawer
<1>1. uiSel = SpNoCity /\ c \in cityData.cities \cup {SpNoCity} /\ SpNoCity \in MaybeCity
  BY <1>0 DEF SelectionAgrees, EnterExplore, MaybeCity
<1>2. IF c = SpNoCity THEN UNCHANGED <<uiSel, storySel, globeSel, spPanel>>
      ELSE Selected(c) /\ ShowsCity(c, cityData.mode)
  BY DEF EnterExplore
<1> HIDE DEF c
<1>3. /\ panel' \in [city : MaybeCity, wrap : Nat,
                      posts : {"closed", "asking", "api", "empty", "bundled", "apology"}]
      /\ postReqs' \subseteq [city : SpCities, wrap : Nat]
      /\ uiSel' \in MaybeCity
      /\ RequestsInv'
      /\ storySel' = uiSel' /\ globeSel' = uiSel' /\ panel'.city = uiSel'
      /\ uiSel' # SpNoCity => uiSel' \in cityData.cities /\ panel'.posts # "closed"
      /\ FellBack(cityData.mode) => panel'.posts \in {"closed", "bundled"}
      /\ panel'.posts = "bundled" => FellBack(cityData.mode)
  <2>1. CASE c = SpNoCity
    BY <1>0, <1>1, <1>2, <2>1 DEF spPanel, PageTypes, SelectionAgrees, RequestsInv, PageHonest
  <2>2. CASE c # SpNoCity
    BY <1>0, <1>1, <1>2, <2>2, SelectingKeeps
  <2> QED BY <2>1, <2>2
<1>4. /\ seriesReqs' \in Nat
      /\ ~FellBack(cityData.mode) => seriesReqs' > 0
  BY <1>0, Asked
<1>5. PageTypes'
  BY <1>0, <1>1, <1>3, <1>4 DEF PageTypes
<1>6. SelectionAgrees'
  BY <1>0, <1>3 DEF SelectionAgrees
<1>7. PageHonest'
  BY <1>0, <1>3, <1>4 DEF PageHonest
<1> QED BY <1>3, <1>5, <1>6, <1>7 DEF PageInv

\* The selection of a city keeps the page honest.
LEMMA SelectKeeps ==
    ASSUME PageInv, NEW k \in SpCities, SelectCity(k)
    PROVE  PageInv'
<1>0. /\ PageTypes /\ SelectionAgrees /\ RequestsInv /\ PageHonest
      /\ UNCHANGED <<cityData, slot, blocks, drawer, receiptReqs>>
      /\ UNCHANGED <<exploring, uiExploring, pendingCity, series, seriesReqs, ribbon>> /\ exploring
  BY DEF PageInv, SelectCity, spStory, spDrawer, spRibbon
<1>1. PICK d \in cityData.cities \cup {SpNoCity} : Selected(d) /\ ShowsCity(d, cityData.mode)
  BY DEF SelectCity
<1>2. /\ panel' \in [city : MaybeCity, wrap : Nat,
                      posts : {"closed", "asking", "api", "empty", "bundled", "apology"}]
      /\ postReqs' \subseteq [city : SpCities, wrap : Nat]
      /\ uiSel' \in MaybeCity
      /\ RequestsInv'
      /\ storySel' = uiSel' /\ globeSel' = uiSel' /\ panel'.city = uiSel'
      /\ uiSel' # SpNoCity => uiSel' \in cityData.cities /\ panel'.posts # "closed"
      /\ FellBack(cityData.mode) => panel'.posts \in {"closed", "bundled"}
      /\ panel'.posts = "bundled" => FellBack(cityData.mode)
  BY <1>0, <1>1, SelectingKeeps
<1>3. PageTypes'
  BY <1>0, <1>2 DEF PageTypes
<1>4. SelectionAgrees' /\ PageHonest'
  BY <1>0, <1>2 DEF SelectionAgrees, PageHonest
<1> QED BY <1>2, <1>3, <1>4 DEF PageInv

\* The end of the exploration keeps the page honest.
LEMMA ExitKeeps ==
    ASSUME PageInv, ExitExplore
    PROVE  PageInv'
<1>0. /\ PageTypes /\ SelectionAgrees /\ RequestsInv /\ PageHonest
      /\ UNCHANGED <<cityData, slot, blocks, drawer, receiptReqs>>
      /\ UNCHANGED <<pendingCity, series, seriesReqs, ribbon>>
      /\ exploring' = FALSE /\ uiExploring' = FALSE /\ uiSel' = SpNoCity /\ globeSel' = SpNoCity
      /\ SpNoCity \in MaybeCity
  BY DEF PageInv, ExitExplore, spStory, spDrawer, spRibbon, MaybeCity
<1>1. /\ panel' \in [city : MaybeCity, wrap : Nat,
                      posts : {"closed", "asking", "api", "empty", "bundled", "apology"}]
      /\ postReqs' = postReqs /\ storySel' = SpNoCity /\ panel'.city = SpNoCity /\ panel'.posts = "closed"
      /\ panel'.wrap = panel.wrap
  <2>1. CASE uiSel = SpNoCity
    BY <1>0, <2>1 DEF ExitExplore, spPanel, SelectionAgrees, RequestsInv, PageTypes
  <2>2. CASE uiSel # SpNoCity
    <3>1. ShowsCity(SpNoCity, cityData.mode) /\ storySel' = SpNoCity
      BY <2>2 DEF ExitExplore
    <3> QED BY <1>0, <3>1, Shown
  <2> QED BY <2>1, <2>2
<1>2. PageTypes'
  BY <1>0, <1>1 DEF PageTypes
<1>3. SelectionAgrees' /\ RequestsInv' /\ PageHonest'
  BY <1>0, <1>1 DEF SelectionAgrees, RequestsInv, PageHonest
<1> QED BY <1>2, <1>3 DEF PageInv

\* An answer is written only if its element is on the page, and so to a panel
\* that the API's snapshot drew.
LEMMA PostsArriveKeeps ==
    ASSUME PageInv, NEW r \in postReqs, NEW what \in {"api", "empty", "apology"}, PostsArrive(r, what)
    PROVE  PageInv'
<1>0. /\ PageTypes /\ SelectionAgrees /\ RequestsInv /\ PageHonest
      /\ UNCHANGED <<cityData, slot, blocks, drawer, receiptReqs, exploring, uiExploring>>
      /\ UNCHANGED <<pendingCity, storySel, uiSel, globeSel, series, seriesReqs, ribbon>>
      /\ postReqs' \subseteq postReqs
      /\ panel' = IF uiSel = r.city /\ panel.wrap = r.wrap THEN [panel EXCEPT !.posts = what] ELSE panel
      /\ r.city \in SpCities /\ SpNoCity \notin SpCities /\ panel.wrap \in Nat
  BY StoryPageAssumption DEF PageInv, PostsArrive, spStory, spChoice, spRibbon, spDrawer, PageTypes
<1>1. CASE uiSel = r.city /\ panel.wrap = r.wrap
  <2>1. /\ panel' \in [city : MaybeCity, wrap : Nat,
                        posts : {"closed", "asking", "api", "empty", "bundled", "apology"}]
        /\ panel'.posts = what /\ panel'.city = panel.city /\ panel'.wrap = panel.wrap
    BY <1>0, <1>1 DEF PageTypes
  <2>2. ~FellBack(cityData.mode) /\ uiSel # SpNoCity
    BY <1>0, <1>1 DEF RequestsInv
  <2>3. PageTypes'
    BY <1>0, <2>1 DEF PageTypes
  <2>4. SelectionAgrees' /\ RequestsInv' /\ PageHonest'
    BY <1>0, <2>1, <2>2 DEF SelectionAgrees, RequestsInv, PageHonest
  <2> QED BY <2>3, <2>4 DEF PageInv
<1>2. CASE ~(uiSel = r.city /\ panel.wrap = r.wrap)
  <2>1. panel' = panel
    BY <1>0, <1>2
  <2> QED BY <1>0, <2>1 DEF PageInv, PageTypes, SelectionAgrees, RequestsInv, PageHonest
<1> QED BY <1>1, <1>2

\* The answer with a city's series keeps the page honest, late or not.
LEMMA SeriesArrivesKeeps ==
    ASSUME PageInv, NEW ok \in BOOLEAN, SeriesArrives(ok) \/ SeriesAges
    PROVE  PageInv'
<1>0. /\ PageTypes /\ SelectionAgrees /\ RequestsInv /\ PageHonest
      /\ UNCHANGED <<cityData, slot, blocks, drawer, receiptReqs, exploring, uiExploring>>
      /\ UNCHANGED <<pendingCity, storySel, uiSel, globeSel, panel, postReqs>>
  BY DEF PageInv, SeriesArrives, SeriesAges, spStory, spChoice, spPanel, spDrawer
<1>1. /\ seriesReqs' \in Nat
      /\ exploring /\ ribbon' = "synthesized" => FellBack(cityData.mode) \/ seriesReqs' > 0
  <2>1. CASE SeriesArrives(ok)
    <3>1. seriesReqs' = seriesReqs - 1 /\ seriesReqs > 0 /\ ribbon' = Drawn(series'.rows, cityData.mode)
      BY <2>1 DEF SeriesArrives
    <3> QED BY <1>0, <3>1, DrawnHonest DEF PageTypes
  <2>2. CASE SeriesAges
    BY <1>0, <2>2 DEF SeriesAges, PageTypes, PageHonest
  <2> QED BY <2>1, <2>2
<1> QED BY <1>0, <1>1 DEF PageInv, PageTypes, SelectionAgrees, RequestsInv, PageHonest

\* A receipt is made up for a bundled post only: in the fallback no other is on
\* the page.
LEMMA OpenAuditKeeps ==
    ASSUME PageInv, NEW p \in Traceable, OpenAudit(p)
    PROVE  PageInv'
<1> DEFINE local == FellBack(cityData.mode) \/ p.origin = "bundled"
<1>0. /\ PageTypes /\ SelectionAgrees /\ RequestsInv /\ PageHonest
      /\ UNCHANGED <<cityData, slot, blocks, exploring, uiExploring>>
      /\ UNCHANGED <<pendingCity, storySel, uiSel, globeSel, panel, postReqs, series, seriesReqs, ribbon>>
      /\ drawer' = [open |-> TRUE, post |-> p, shows |-> IF local THEN "synthesized" ELSE "loading"]
      /\ receiptReqs' = IF local THEN receiptReqs ELSE receiptReqs \cup {p}
      /\ p \in Posts({"api", "bundled"})
  BY DEF PageInv, OpenAudit, spStory, spChoice, spPanel, spRibbon, Traceable
<1>1. p.origin \in {"api", "bundled"} /\ p \in Posts({"api", "bundled", "none"})
  BY <1>0 DEF Posts
<1>2. FellBack(cityData.mode) => p.origin = "bundled"
  BY <1>0, <1>1 DEF Traceable, PageHonest
<1>3. PageTypes'
  BY <1>0, <1>1 DEF PageTypes
<1>4. SelectionAgrees' /\ RequestsInv'
  BY <1>0 DEF SelectionAgrees, RequestsInv
<1>5. PageHonest'
  BY <1>0, <1>1, <1>2 DEF PageHonest
<1> QED BY <1>3, <1>4, <1>5 DEF PageInv

\* The opening of the receipts keeps the page honest.
LEMMA ReceiptsKeep ==
    ASSUME PageInv, (\E p \in receiptReqs, ok \in BOOLEAN : ReceiptArrives(p, ok)) \/ CloseAudit
    PROVE  PageInv'
<1>0. /\ PageTypes /\ SelectionAgrees /\ RequestsInv /\ PageHonest
      /\ UNCHANGED <<cityData, slot, blocks, exploring, uiExploring>>
      /\ UNCHANGED <<pendingCity, storySel, uiSel, globeSel, panel, postReqs, series, seriesReqs, ribbon>>
      /\ receiptReqs' \subseteq receiptReqs
  BY DEF PageInv, ReceiptArrives, CloseAudit, spStory, spChoice, spPanel, spRibbon
<1>1. /\ drawer' \in [open : BOOLEAN, post : Posts({"api", "bundled", "none"}),
                       shows : {"nothing", "loading", "receipt", "synthesized", "outage"}]
      /\ drawer'.shows = "synthesized" => drawer'.post.origin = "bundled"
  <2>1. ASSUME NEW p \in receiptReqs, NEW ok \in BOOLEAN, ReceiptArrives(p, ok)
        PROVE  drawer' = [open |-> drawer.open, post |-> p, shows |-> IF ok THEN "receipt" ELSE "outage"]
    BY <1>0, <2>1 DEF ReceiptArrives, PageTypes
  <2>2. \A p \in receiptReqs : p \in Posts({"api", "bundled", "none"})
    BY <1>0 DEF PageTypes, Posts
  <2>3. CASE \E p \in receiptReqs, ok \in BOOLEAN : ReceiptArrives(p, ok)
    BY <1>0, <2>1, <2>2, <2>3 DEF PageTypes
  <2>4. CASE CloseAudit
    <3>1. drawer' = [open |-> FALSE, post |-> drawer.post, shows |-> drawer.shows]
      BY <1>0, <2>4 DEF CloseAudit, PageTypes
    <3> QED BY <1>0, <3>1 DEF PageTypes, PageHonest
  <2> QED BY <2>3, <2>4
<1> QED BY <1>0, <1>1 DEF PageInv, PageTypes, SelectionAgrees, RequestsInv, PageHonest

\* The loads of the story and what a drill chip leaves behind show nothing yet.
LEMMA StoryKeeps ==
    ASSUME PageInv,
           \/ StartLoad
           \/ \E b \in blocks, ok \in BOOLEAN : BlockSettles(b, ok)
           \/ \E k \in SpCities : Drill(k)
    PROVE  PageInv'
<1>0. /\ PageTypes /\ SelectionAgrees /\ RequestsInv /\ PageHonest
      /\ UNCHANGED <<cityData, drawer, receiptReqs, exploring, uiExploring>>
      /\ UNCHANGED <<storySel, uiSel, globeSel, panel, postReqs, series, seriesReqs, ribbon>>
  BY DEF PageInv, StartLoad, BlockSettles, Drill, spStory, spChoice, spPanel, spRibbon, spDrawer
<1>1. /\ pendingCity' \in MaybeCity
      /\ exploring => pendingCity' = pendingCity
  BY <1>0 DEF StartLoad, BlockSettles, Drill, spChoice, PageTypes, MaybeCity
<1>2. /\ slot' \in {"hidden", "api"}
      /\ FellBack(cityData.mode) => slot' = "hidden" /\ "featured" \notin blocks'
      /\ "featured" \in blocks' => ~FellBack(cityData.mode)
  BY <1>0 DEF StartLoad, BlockSettles, Drill, spStory, PageTypes, RequestsInv, PageHonest
<1>3. PageTypes'
  BY <1>0, <1>1, <1>2 DEF PageTypes
<1>4. SelectionAgrees' /\ RequestsInv' /\ PageHonest'
  BY <1>0, <1>1, <1>2 DEF SelectionAgrees, RequestsInv, PageHonest
<1> QED BY <1>3, <1>4 DEF PageInv

\* Every callback keeps the invariant.
LEMMA PageInvStep == PageInv /\ [StoryPageNext]_StoryPageVars => PageInv'
<1> SUFFICES ASSUME PageInv, [StoryPageNext]_StoryPageVars PROVE PageInv'
  OBVIOUS
<1>1. CASE UNCHANGED StoryPageVars
  BY <1>1 DEF StoryPageVars, spStory, spChoice, spPanel, spRibbon, spDrawer, PageInv, PageTypes, SelectionAgrees,
              RequestsInv, PageHonest
<1>2. CASE StoryPageNext
  BY <1>2, CitiesArriveKeeps, EnterKeeps, SelectKeeps, ExitKeeps, PostsArriveKeeps, SeriesArrivesKeeps,
     OpenAuditKeeps, ReceiptsKeep, StoryKeeps
     DEF StoryPageNext
<1> QED BY <1>1, <1>2

\* What the page shows is what it says it shows, with answers of any earlier
\* request coming in at any time.
THEOREM PageIsHonest == StoryPageSpec => []PageHonest
<1>1. PageInv => PageHonest
  BY DEF PageInv
<1> QED BY <1>1, PageInvInit, PageInvStep, PTL DEF StoryPageSpec

\* The story, the panels and the globe agree on the selected city, which is one
\* of the snapshot on the page.
THEOREM SelectionsAgree == StoryPageSpec => []SelectionAgrees
<1>1. PageInv => SelectionAgrees
  BY DEF PageInv
<1> QED BY <1>1, PageInvInit, PageInvStep, PTL DEF StoryPageSpec

---------------------------------------------------------------------------
(* The types of the page, and how many elements and requests it ever makes. *)

\* A snapshot that was asked for and is not there yet.
SnapshotsDue == IF "cities" \in blocks THEN 1 ELSE 0
DrawsLeft == loadsLeft + clicksLeft + SnapshotsDue

\* A load is under way while it waits for a block, so no snapshot is asked for
\* before the last came; every panel and every request for the series is paid
\* for by a snapshot or a click.
PageBounds ==
    /\ loading = (blocks # {}) /\ blocks \subseteq {"cities", "themes", "featured"}
    /\ loadsLeft \in 0 .. SpMaxLoads /\ clicksLeft \in 0 .. SpMaxClicks
    /\ panel.wrap + DrawsLeft <= MaxPanels /\ seriesReqs + DrawsLeft <= MaxPanels
    /\ \A r \in postReqs : r.wrap >= 1
    /\ series \in [rows : {"null", "api"}, failed : BOOLEAN, fresh : BOOLEAN]
    /\ ribbon \in {"flat", "api", "synthesized", "bare"}

LEMMA DueTyped == SnapshotsDue \in Nat /\ (loadsLeft \in Nat /\ clicksLeft \in Nat => DrawsLeft \in Nat)
<1>1. SnapshotsDue \in Nat
  BY DEF SnapshotsDue
<1> QED BY <1>1 DEF DrawsLeft

LEMMA PageBoundsInit == StoryPageInit => PageBounds
<1> SUFFICES ASSUME StoryPageInit PROVE PageBounds
  OBVIOUS
<1>1. SnapshotsDue = 0
  BY DEF StoryPageInit, SnapshotsDue
<1>2. DrawsLeft = MaxPanels /\ MaxPanels \in Nat
  BY <1>1, StoryPageAssumption DEF StoryPageInit, DrawsLeft, MaxPanels
<1>3. panel.wrap = 0 /\ seriesReqs = 0 /\ postReqs = {} /\ blocks = {} /\ loading = FALSE
  BY DEF StoryPageInit
<1>4. panel.wrap + DrawsLeft <= MaxPanels /\ seriesReqs + DrawsLeft <= MaxPanels
  BY <1>2, <1>3
<1>5. loadsLeft \in 0 .. SpMaxLoads /\ clicksLeft \in 0 .. SpMaxClicks
  BY StoryPageAssumption DEF StoryPageInit
<1>6. /\ series \in [rows : {"null", "api"}, failed : BOOLEAN, fresh : BOOLEAN]
      /\ ribbon \in {"flat", "api", "synthesized", "bare"}
  BY DEF StoryPageInit
<1> QED BY <1>3, <1>4, <1>5, <1>6 DEF PageBounds

\* What showing a city costs.
LEMMA ShownBounds ==
    ASSUME PageTypes, PageBounds, NEW c \in MaybeCity, NEW mode, ShowsCity(c, mode)
    PROVE  /\ panel'.wrap \in Nat /\ panel'.wrap <= panel.wrap + 1
           /\ \A r \in postReqs' : r.wrap >= 1
<1>1. panel.wrap \in Nat
  BY DEF PageTypes
<1>2. CASE c = SpNoCity
  BY <1>1, <1>2, Shown DEF PageBounds
<1>3. CASE c # SpNoCity
  <2>1. panel'.wrap = panel.wrap + 1 /\ \A r \in postReqs' : r \in postReqs \/ r.wrap = panel'.wrap
    BY <1>3, Shown
  <2> QED BY <1>1, <2>1 DEF PageBounds
<1> QED BY <1>2, <1>3

LEMMA RibbonTyped ==
    ASSUME NEW rows, NEW mode PROVE Drawn(rows, mode) \in {"flat", "api", "synthesized", "bare"}
BY DEF Drawn

\* What asking for the series costs.
LEMMA AskedBounds ==
    ASSUME PageTypes, PageBounds, NEW mode, NEW drawn \in {"flat", "api", "synthesized", "bare"},
           AsksSeries(mode, drawn)
    PROVE  /\ seriesReqs' \in Nat /\ seriesReqs' <= seriesReqs + 1
           /\ series' \in [rows : {"null", "api"}, failed : BOOLEAN, fresh : BOOLEAN]
           /\ ribbon' \in {"flat", "api", "synthesized", "bare"}
<1>0. seriesReqs \in Nat /\ series \in [rows : {"null", "api"}, failed : BOOLEAN, fresh : BOOLEAN]
  BY DEF PageTypes, PageBounds
<1>1. CASE FellBack(mode)
  <2>1. /\ series' = [series EXCEPT !.rows = "null", !.failed = FALSE]
        /\ ribbon' = Drawn("null", mode) /\ UNCHANGED seriesReqs
    BY <1>1 DEF AsksSeries
  <2>2. series' \in [rows : {"null", "api"}, failed : BOOLEAN, fresh : BOOLEAN]
    BY <1>0, <2>1
  <2>3. ribbon' \in {"flat", "api", "synthesized", "bare"}
    BY <2>1, RibbonTyped
  <2> QED BY <1>0, <2>1, <2>2, <2>3
<1>2. CASE ~FellBack(mode)
  BY <1>0, <1>2 DEF AsksSeries
<1> QED BY <1>1, <1>2

LEMMA SumIsNat == ASSUME NEW a \in Nat, NEW b \in Nat, NEW c \in Nat PROVE a + b + c \in Nat
OBVIOUS

LEMMA OneForOne ==
    ASSUME NEW d \in Nat, NEW e \in Nat, e < d, NEW w \in Nat, NEW v \in Nat, v <= w + 1, NEW m \in Nat, w + d <= m
    PROVE  v + e <= m
OBVIOUS

\* A snapshot or a click pays for one panel and one request.
LEMMA PaidFor ==
    ASSUME NEW d \in Nat, d = DrawsLeft, NEW e \in Nat, e = DrawsLeft', e < d, PageTypes, PageBounds,
           NEW v \in Nat, v = panel'.wrap, v <= panel.wrap + 1,
           seriesReqs' \in Nat, seriesReqs' <= seriesReqs + 1
    PROVE  panel'.wrap + DrawsLeft' <= MaxPanels /\ seriesReqs' + DrawsLeft' <= MaxPanels
<1>1. MaxPanels \in Nat /\ panel.wrap \in Nat /\ seriesReqs \in Nat
  BY StoryPageAssumption DEF PageTypes, MaxPanels
<1>2. panel.wrap + d <= MaxPanels /\ seriesReqs + d <= MaxPanels
  BY DEF PageBounds
<1>3. v + e <= MaxPanels
  BY <1>1, <1>2, OneForOne
<1>4. seriesReqs' + e <= MaxPanels
  BY <1>1, <1>2, OneForOne
<1> QED BY <1>3, <1>4

\* Every callback keeps the bounds.
LEMMA PageBoundsStep == PageInv /\ PageBounds /\ [StoryPageNext]_StoryPageVars => PageBounds'
<1> SUFFICES ASSUME PageInv, PageBounds, [StoryPageNext]_StoryPageVars PROVE PageBounds'
  OBVIOUS
<1>0. /\ PageTypes /\ SelectionAgrees /\ SpNoCity \in MaybeCity /\ panel.wrap \in Nat /\ seriesReqs \in Nat
      /\ loadsLeft \in 0 .. SpMaxLoads /\ clicksLeft \in 0 .. SpMaxClicks
      /\ SpMaxLoads \in Nat /\ SpMaxClicks \in Nat
  BY StoryPageAssumption DEF PageInv, PageTypes, PageBounds, MaybeCity
<1>d. DrawsLeft \in Nat
  BY <1>0, DueTyped
<1>p. ASSUME loadsLeft' \in 0 .. SpMaxLoads, clicksLeft' \in 0 .. SpMaxClicks, DrawsLeft' < DrawsLeft,
             panel'.wrap \in Nat, panel'.wrap <= panel.wrap + 1,
             seriesReqs' \in Nat, seriesReqs' <= seriesReqs + 1
      PROVE  panel'.wrap + DrawsLeft' <= MaxPanels /\ seriesReqs' + DrawsLeft' <= MaxPanels
  <2>2. loadsLeft' \in Nat /\ clicksLeft' \in Nat
    BY <1>0, <1>p
  <2>3. DrawsLeft' \in Nat
    <3>1. CASE "cities" \in blocks'
      <4>1. DrawsLeft' = loadsLeft' + clicksLeft' + 1
        BY <3>1 DEF DrawsLeft, SnapshotsDue
      <4> QED BY <2>2, <4>1, SumIsNat
    <3>2. CASE "cities" \notin blocks'
      <4>1. DrawsLeft' = loadsLeft' + clicksLeft' + 0
        BY <3>2 DEF DrawsLeft, SnapshotsDue
      <4> QED BY <2>2, <4>1, SumIsNat
    <3> QED BY <3>1, <3>2
  <2> QED BY <1>0, <1>d, <1>p, <2>3, PaidFor
<1>1. CASE UNCHANGED StoryPageVars \/ SeriesAges
  BY <1>1 DEF StoryPageVars, spStory, spChoice, spPanel, spRibbon, spDrawer, spBounds, SeriesAges, PageBounds,
              DrawsLeft, SnapshotsDue, MaxPanels
<1>2. CASE StartLoad
  <2>1. /\ blocks = {} /\ blocks' = {"cities"} /\ loading' = TRUE /\ loadsLeft > 0 /\ loadsLeft' = loadsLeft - 1
        /\ UNCHANGED <<clicksLeft, panel, postReqs, seriesReqs, series, ribbon>>
    BY <1>2 DEF StartLoad, PageBounds, spPanel, spRibbon
  <2>2. DrawsLeft' = DrawsLeft /\ loadsLeft' \in 0 .. SpMaxLoads
    BY <1>0, <2>1 DEF DrawsLeft, SnapshotsDue
  <2> QED BY <2>1, <2>2 DEF PageBounds, MaxPanels
<1>3. ASSUME NEW a \in SpAnswers, NEW f \in BOOLEAN, CitiesArrive(a, f) PROVE PageBounds'
  <2>1. /\ "cities" \in blocks /\ blocks' = {"themes"} \cup {b \in {"featured"} : f}
        /\ UNCHANGED <<loading, loadsLeft, clicksLeft>> /\ OnCitiesData(a.mode, a.cities)
    BY <1>3 DEF CitiesArrive, spBounds
  <2>2. /\ SnapshotsDue = 1 /\ SnapshotsDue' = 0 /\ blocks' # {} /\ loading' = TRUE
        /\ blocks' \subseteq {"cities", "themes", "featured"}
    BY <1>0, <2>1 DEF SnapshotsDue, PageBounds
  <2>3. \/ \E c \in MaybeCity : ShowsCity(c, a.mode)
        \/ UNCHANGED spPanel
    BY <1>0, <2>1 DEF OnCitiesData, PageTypes
  <2>4. panel'.wrap \in Nat /\ panel'.wrap <= panel.wrap + 1 /\ \A r \in postReqs' : r.wrap >= 1
    BY <1>0, <2>3, ShownBounds DEF spPanel, PageBounds
  <2>5. \/ AsksSeries(a.mode, ribbon)
        \/ UNCHANGED <<series, seriesReqs>> /\ ribbon' \in {ribbon, Drawn(series.rows, a.mode)}
    BY <2>1 DEF OnCitiesData, spRibbon
  <2>6. /\ seriesReqs' \in Nat /\ seriesReqs' <= seriesReqs + 1
        /\ series' \in [rows : {"null", "api"}, failed : BOOLEAN, fresh : BOOLEAN]
        /\ ribbon' \in {"flat", "api", "synthesized", "bare"}
    <3>0. /\ series \in [rows : {"null", "api"}, failed : BOOLEAN, fresh : BOOLEAN]
          /\ ribbon \in {"flat", "api", "synthesized", "bare"}
      BY DEF PageBounds
    <3>1. CASE AsksSeries(a.mode, ribbon)
      BY <1>0, <3>0, <3>1, AskedBounds
    <3>2. CASE ~AsksSeries(a.mode, ribbon)
      <4>1. Drawn(series.rows, a.mode) \in {"flat", "api", "synthesized", "bare"}
        BY RibbonTyped
      <4>2. seriesReqs <= seriesReqs + 1
        BY <1>0
      <4>3. seriesReqs' = seriesReqs /\ series' = series /\ ribbon' \in {ribbon, Drawn(series.rows, a.mode)}
        BY <2>5, <3>2
      <4>4. ribbon' \in {"flat", "api", "synthesized", "bare"}
        BY <3>0, <4>1, <4>3
      <4> QED BY <1>0, <3>0, <4>2, <4>3, <4>4
    <3> QED BY <3>1, <3>2
  <2>7. DrawsLeft' < DrawsLeft
    BY <1>0, <2>1, <2>2 DEF DrawsLeft
  <2>8. panel'.wrap + DrawsLeft' <= MaxPanels /\ seriesReqs' + DrawsLeft' <= MaxPanels
    BY <1>0, <1>p, <2>1, <2>4, <2>6, <2>7
  <2> QED BY <1>0, <2>1, <2>2, <2>4, <2>6, <2>8 DEF PageBounds, MaxPanels
<1>4. ASSUME NEW b \in blocks, NEW ok \in BOOLEAN, BlockSettles(b, ok) PROVE PageBounds'
  <2>1. /\ b # "cities" /\ blocks' = blocks \ {b} /\ loading' = (blocks' # {})
        /\ UNCHANGED <<loadsLeft, clicksLeft, panel, postReqs, seriesReqs, series, ribbon>>
    BY <1>4 DEF BlockSettles, spPanel, spRibbon, spBounds
  <2>2. DrawsLeft' = DrawsLeft
    BY <2>1 DEF DrawsLeft, SnapshotsDue
  <2> QED BY <2>1, <2>2 DEF PageBounds, MaxPanels
<1>5. ASSUME Click, UNCHANGED <<loading, blocks>>
      PROVE  /\ DrawsLeft' < DrawsLeft /\ UNCHANGED loadsLeft
             /\ clicksLeft' \in 0 .. SpMaxClicks
             /\ loading' = (blocks' # {}) /\ blocks' \subseteq {"cities", "themes", "featured"}
  BY <1>0, <1>5 DEF Click, DrawsLeft, SnapshotsDue, PageBounds
<1>6. CASE (\E c \in SpCities : Drill(c)) \/ (\E p \in Traceable : OpenAudit(p))
  <2>1. Click /\ UNCHANGED <<loading, blocks, panel, postReqs, seriesReqs, series, ribbon>>
    BY <1>6 DEF Drill, OpenAudit, spStory, spPanel, spRibbon
  <2>2. panel'.wrap + DrawsLeft' <= MaxPanels /\ seriesReqs' + DrawsLeft' <= MaxPanels
    BY <1>0, <1>5, <1>p, <2>1
  <2> QED BY <1>0, <1>5, <2>1, <2>2 DEF PageBounds, MaxPanels
<1>7. ASSUME NEW k \in SpCities, SelectCity(k) PROVE PageBounds'
  <2>1. /\ Click /\ UNCHANGED <<loading, blocks, seriesReqs, series, ribbon>>
        /\ \E c \in MaybeCity : ShowsCity(c, cityData.mode)
    BY <1>0, <1>7 DEF SelectCity, spStory, spRibbon, MaybeCity
  <2>2. panel'.wrap \in Nat /\ panel'.wrap <= panel.wrap + 1 /\ \A r \in postReqs' : r.wrap >= 1
    BY <1>0, <2>1, ShownBounds
  <2>3. panel'.wrap + DrawsLeft' <= MaxPanels /\ seriesReqs' + DrawsLeft' <= MaxPanels
    BY <1>0, <1>5, <1>p, <2>1, <2>2
  <2> QED BY <1>0, <1>5, <2>1, <2>2, <2>3 DEF PageBounds, MaxPanels
<1>8. CASE EnterExplore
  <2>1. /\ Click /\ UNCHANGED <<loading, blocks>>
        /\ AsksSeries(cityData.mode, Drawn(series.rows, cityData.mode))
        /\ UNCHANGED spPanel \/ \E c : c \in {pendingCity, uiSel} /\ ShowsCity(c, cityData.mode)
    BY <1>8 DEF EnterExplore, spStory
  <2>2. panel'.wrap \in Nat /\ panel'.wrap <= panel.wrap + 1 /\ \A r \in postReqs' : r.wrap >= 1
    <3>1. CASE UNCHANGED spPanel
      BY <1>0, <3>1 DEF spPanel, PageBounds
    <3>2. ASSUME NEW c \in {pendingCity, uiSel}, ShowsCity(c, cityData.mode)
          PROVE  panel'.wrap \in Nat /\ panel'.wrap <= panel.wrap + 1 /\ \A r \in postReqs' : r.wrap >= 1
      <4>1. c \in MaybeCity
        BY <1>0, <3>2 DEF PageTypes
      <4> QED BY <1>0, <3>2, <4>1, ShownBounds
    <3> QED BY <2>1, <3>1, <3>2
  <2>3. /\ seriesReqs' \in Nat /\ seriesReqs' <= seriesReqs + 1
        /\ series' \in [rows : {"null", "api"}, failed : BOOLEAN, fresh : BOOLEAN]
        /\ ribbon' \in {"flat", "api", "synthesized", "bare"}
    BY <1>0, <2>1, AskedBounds, RibbonTyped
  <2>4. panel'.wrap + DrawsLeft' <= MaxPanels /\ seriesReqs' + DrawsLeft' <= MaxPanels
    BY <1>0, <1>5, <1>p, <2>1, <2>2, <2>3
  <2> QED BY <1>0, <1>5, <2>1, <2>2, <2>3, <2>4 DEF PageBounds, MaxPanels
<1>9. CASE ExitExplore
  <2>1. /\ UNCHANGED <<loading, blocks, loadsLeft, clicksLeft, seriesReqs, series, ribbon>>
        /\ UNCHANGED spPanel \/ ShowsCity(SpNoCity, cityData.mode)
    BY <1>9 DEF ExitExplore, spStory, spRibbon, spBounds
  <2>2. panel'.wrap = panel.wrap /\ postReqs' = postReqs
    BY <1>0, <2>1, Shown DEF spPanel
  <2>3. DrawsLeft' = DrawsLeft
    BY <2>1 DEF DrawsLeft, SnapshotsDue
  <2> QED BY <2>1, <2>2, <2>3 DEF PageBounds, MaxPanels
<1>10. ASSUME NEW r \in postReqs, NEW what \in {"api", "empty", "apology"}, PostsArrive(r, what) PROVE PageBounds'
  <2>1. /\ UNCHANGED <<loading, blocks, loadsLeft, clicksLeft, seriesReqs, series, ribbon>>
        /\ postReqs' \subseteq postReqs /\ panel' \in {panel, [panel EXCEPT !.posts = what]}
    BY <1>10 DEF PostsArrive, spStory, spRibbon, spBounds
  <2>2. panel'.wrap = panel.wrap
    BY <1>0, <2>1 DEF PageTypes
  <2>3. DrawsLeft' = DrawsLeft
    BY <2>1 DEF DrawsLeft, SnapshotsDue
  <2> QED BY <2>1, <2>2, <2>3 DEF PageBounds, MaxPanels
<1>11. ASSUME NEW ok \in BOOLEAN, SeriesArrives(ok) PROVE PageBounds'
  <2>1. /\ UNCHANGED <<loading, blocks, loadsLeft, clicksLeft, panel, postReqs>>
        /\ seriesReqs' = seriesReqs - 1 /\ ribbon' = Drawn(series'.rows, cityData.mode)
        /\ series' \in [rows : {"null", "api"}, failed : BOOLEAN, fresh : BOOLEAN]
    BY <1>11 DEF SeriesArrives, spStory, spPanel, spBounds, PageBounds
  <2>2. DrawsLeft' = DrawsLeft /\ DrawsLeft \in Nat /\ MaxPanels \in Nat
    BY <1>0, <2>1 DEF DrawsLeft, SnapshotsDue, MaxPanels
  <2>3. seriesReqs' + DrawsLeft <= MaxPanels
    BY <1>0, <2>1, <2>2 DEF PageBounds
  <2> QED BY <2>1, <2>2, <2>3, RibbonTyped DEF PageBounds, MaxPanels
<1>12. CASE (\E p \in receiptReqs, ok \in BOOLEAN : ReceiptArrives(p, ok)) \/ CloseAudit
  <2>1. UNCHANGED <<loading, blocks, loadsLeft, clicksLeft, panel, postReqs, seriesReqs, series, ribbon>>
    <3>1. ASSUME NEW p, NEW ok, ReceiptArrives(p, ok)
          PROVE  UNCHANGED <<loading, blocks, loadsLeft, clicksLeft, panel, postReqs, seriesReqs, series, ribbon>>
      BY <3>1 DEF ReceiptArrives, spStory, spPanel, spRibbon, spBounds
    <3>2. CASE CloseAudit
      BY <3>2 DEF CloseAudit, spStory, spPanel, spRibbon, spBounds
    <3> QED BY <1>12, <3>1, <3>2
  <2> QED BY <2>1 DEF PageBounds, DrawsLeft, SnapshotsDue, MaxPanels
<1> QED BY <1>1, <1>2, <1>3, <1>4, <1>6, <1>7, <1>8, <1>9, <1>10, <1>11, <1>12 DEF StoryPageNext

\* The page keeps its types, and makes no more panels and requests than there
\* were snapshots and clicks.
THEOREM PageTyped == StoryPageSpec => []StoryPageTypeOK
<1>1. PageInv /\ PageBounds => StoryPageTypeOK
  <2> SUFFICES ASSUME PageInv, PageBounds PROVE StoryPageTypeOK
    OBVIOUS
  <2>0. PageTypes /\ SelectionAgrees /\ RequestsInv
    BY DEF PageInv
  <2>1. DrawsLeft \in Nat /\ MaxPanels \in Nat /\ panel.wrap \in Nat /\ seriesReqs \in Nat
    BY <2>0, StoryPageAssumption DEF DrawsLeft, SnapshotsDue, PageBounds, PageTypes, MaxPanels
  <2>2. panel.wrap \in 0 .. MaxPanels /\ seriesReqs \in 0 .. MaxPanels
    BY <2>1 DEF PageBounds
  <2>3. panel \in [city : MaybeCity, wrap : 0 .. MaxPanels,
                   posts : {"closed", "asking", "api", "empty", "bundled", "apology"}]
    BY <2>0, <2>2 DEF PageTypes
  <2>4. postReqs \subseteq [city : SpCities, wrap : 1 .. MaxPanels]
    <3> SUFFICES ASSUME NEW r \in postReqs PROVE r \in [city : SpCities, wrap : 1 .. MaxPanels]
      OBVIOUS
    <3>1. r \in [city : SpCities, wrap : Nat] /\ r.wrap <= panel.wrap /\ r.wrap >= 1
      BY <2>0 DEF PageTypes, RequestsInv, PageBounds
    <3>2. r.wrap \in 1 .. MaxPanels
      BY <2>1, <2>2, <3>1
    <3> QED BY <3>1, <3>2
  <2>5. uiExploring \in BOOLEAN /\ {pendingCity, storySel, uiSel, globeSel} \subseteq MaybeCity
    BY <2>0 DEF SelectionAgrees, PageTypes
  <2>6. loading \in BOOLEAN
    BY DEF PageBounds
  <2> QED BY <2>0, <2>2, <2>3, <2>4, <2>5, <2>6 DEF PageTypes, PageBounds, StoryPageTypeOK
<1> QED BY <1>1, PageInvInit, PageInvStep, PageBoundsInit, PageBoundsStep, PTL DEF StoryPageSpec
=============================================================================
