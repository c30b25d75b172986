---------------------------- MODULE RouteCursors ---------------------------
(***************************************************************************)
(* What a collection run remembers of a source, so that the next one need  *)
(* not read it again: the cursor and the HTTP validators of its routes,    *)
(* against the posts that were stored.                                     *)
(*                                                                         *)
(*   src/collectors/runner.js    the route loop, its snapshot and rollback *)
(*   src/collectors/base.js      feeds, bulk files                         *)
(*   src/collectors/adapters/    since-ids, the alert mailbox              *)
(*   src/collectors/http.js      conditional requests                      *)
(*   src/collectors/state.js     claim, saveOutcome                        *)
(*                                                                         *)
(* A route offers units in an order: a file of a delivery, a message of    *)
(* the mailbox, the content of a feed, a hit of a search. A unit stands    *)
(* for all its items. (What of a subreddit's listing is remembered only    *)
(* decides how many pages are read, and is left out.)                      *)
(***************************************************************************)
EXTENDS Naturals, Sequences, FiniteSets

CONSTANTS
    RcRuns,             \* runs of the source that may overlap
    RouteLists,         \* the routes a source may have, in order
    KindOf,             \* route -> how it remembers
    MostUnits,          \* bound: route -> units it ever offers
    PageSize,           \* hits of one search
    OutOfScope          \* <<route, unit>> without an item the admission rule keeps

ASSUME CursorAssumption ==
    /\ RouteLists \subseteq Seq(DOMAIN KindOf)
    /\ \A r \in DOMAIN KindOf : KindOf[r] \in {"feeds", "files", "mailbox", "search"}
    /\ MostUnits \in [DOMAIN KindOf -> Nat] /\ PageSize \in Nat \ {0}

AllRoutes == DOMAIN KindOf
Units == UNION {1 .. MostUnits[r] : r \in AllRoutes}

VARIABLES
    routeList,
    offered,            \* route -> units so far
    saved,              \* source_collection_state: route -> what is remembered
    rawPosts,           \* the units whose posts are stored
    \* run -> where it is: "idle", "route", "fetch", "store"
    rcAt, routeNo,
    live, snapshot,     \* cursor and validators; as they were before the route
    unread, read,       \* of the route under way
    toStore, storeFails,
    anyRoute,           \* a route was asked, and no hold stopped it
    \* history
    passedOver,         \* beyond a search's page, or a feed that cannot be parsed
    abandoned           \* remembered by a fetch that then failed

rcFetch == <<unread, read, toStore, storeFails>>
rcRun == <<rcAt, routeNo, live, snapshot, rcFetch, anyRoute>>
RouteCursorsVars == <<routeList, offered, saved, rawPosts, rcRun, passedOver, abandoned>>

\* known: a bulk route has its list of files.
Memory == [known : BOOLEAN, past : SUBSET Units]
Fresh0 == [r \in AllRoutes |-> [known |-> FALSE, past |-> {}]]
RouteUnits == AllRoutes \X Units

\* The type invariant of what is remembered and of the runs.
RouteCursorsTypeOK ==
    /\ routeList \in RouteLists /\ offered \in [AllRoutes -> Nat]
    /\ \A r \in AllRoutes : offered[r] <= MostUnits[r]
    /\ saved \in [AllRoutes -> Memory] /\ rawPosts \subseteq RouteUnits
    /\ rcAt \in [RcRuns -> {"idle", "route", "fetch", "store"}]
    /\ \A n \in RcRuns : routeNo[n] \in 1 .. Len(routeList) + 1
    /\ live \in [RcRuns -> [AllRoutes -> Memory]] /\ snapshot \in [RcRuns -> [AllRoutes -> Memory]]
    /\ \A f \in {unread, read, toStore} : f \in [RcRuns -> SUBSET Units]
    /\ storeFails \in [RcRuns -> BOOLEAN] /\ anyRoute \in [RcRuns -> BOOLEAN]
    /\ passedOver \subseteq RouteUnits /\ abandoned \subseteq RouteUnits

RouteCursorsInit ==
    /\ routeList \in RouteLists /\ offered = [r \in AllRoutes |-> 0]
    /\ saved = Fresh0 /\ rawPosts = {}
    /\ rcAt = [n \in RcRuns |-> "idle"] /\ routeNo = [n \in RcRuns |-> 1]
    /\ live = [n \in RcRuns |-> Fresh0] /\ snapshot = [n \in RcRuns |-> Fresh0]
    /\ unread = [n \in RcRuns |-> {}] /\ read = [n \in RcRuns |-> {}]
    /\ toStore = [n \in RcRuns |-> {}] /\ storeFails = [n \in RcRuns |-> FALSE]
    /\ anyRoute = [n \in RcRuns |-> FALSE]
    /\ passedOver = {} /\ abandoned = {}

RouteOf(n) == routeList[routeNo[n]]
KindAt(n) == KindOf[RouteOf(n)]
RcGoes(n, where) == rcAt' = [rcAt EXCEPT ![n] = where]
IsNext(n, u) == u \in unread[n] /\ \A v \in unread[n] : u <= v

\* The source's side.
Offer ==
    /\ \E i \in DOMAIN routeList : LET r == routeList[i] IN
            offered[r] < MostUnits[r] /\ offered' = [offered EXCEPT ![r] = @ + 1]
    /\ UNCHANGED <<routeList, saved, rawPosts, rcRun, passedOver, abandoned>>

---------------------------------------------------------------------------

RunOver(n) ==
    /\ RcGoes(n, "idle") /\ routeNo' = [routeNo EXCEPT ![n] = 1]
    /\ live' = [live EXCEPT ![n] = Fresh0] /\ snapshot' = [snapshot EXCEPT ![n] = Fresh0]
    /\ unread' = [unread EXCEPT ![n] = {}] /\ read' = [read EXCEPT ![n] = {}]
    /\ toStore' = [toStore EXCEPT ![n] = {}] /\ storeFails' = [storeFails EXCEPT ![n] = FALSE]
    /\ anyRoute' = [anyRoute EXCEPT ![n] = FALSE]

\* claim: once in a poll interval, which a run may outlast.
ClaimSource(n) ==
    /\ rcAt[n] = "idle"
    /\ RcGoes(n, "route") /\ live' = [live EXCEPT ![n] = saved]
    /\ UNCHANGED <<routeList, offered, saved, rawPosts, routeNo, snapshot, rcFetch, anyRoute, passedOver, abandoned>>

\* Its host is held, or its switch was thrown during the run.
SkipRoute(n) ==
    /\ rcAt[n] = "route" /\ routeNo[n] <= Len(routeList)
    /\ routeNo' = [routeNo EXCEPT ![n] = @ + 1]
    /\ UNCHANGED <<routeList, offered, saved, rawPosts, rcAt, live, snapshot, rcFetch, anyRoute,
                   passedOver, abandoned>>

BeginRoute(n) ==
    /\ rcAt[n] = "route" /\ routeNo[n] <= Len(routeList) /\ RcGoes(n, "fetch")
    /\ snapshot' = [snapshot EXCEPT ![n] = live[n]]
    /\ unread' = [unread EXCEPT ![n] = (1 .. offered[RouteOf(n)]) \ live[n][RouteOf(n)].past]
    /\ UNCHANGED <<routeList, offered, saved, rawPosts, routeNo, live, read, toStore, storeFails,
                   anyRoute, passedOver, abandoned>>

\* Remembered as soon as it is read: a feed's validators, a message's UID, and
\* a file's time once the cursor has a list of files.
AtOnce(n) == KindAt(n) \in {"feeds", "mailbox"} \/ (KindAt(n) = "files" /\ live[n][RouteOf(n)].known)

Remembers(n, S) == live' = [live EXCEPT ![n][RouteOf(n)].past = @ \cup S]

ReadUnit(n, u) ==
    /\ rcAt[n] = "fetch" /\ KindAt(n) # "search" /\ IsNext(n, u)
    /\ read' = [read EXCEPT ![n] = @ \cup {u}]
    /\ unread' = [unread EXCEPT ![n] = @ \ {u}]
    /\ Remembers(n, IF AtOnce(n) THEN {u} ELSE {})
    /\ UNCHANGED <<routeList, offered, saved, rawPosts, rcAt, routeNo, snapshot, toStore, storeFails,
                   anyRoute, passedOver, abandoned>>

\* A broken feed does not hide the others, nor a message that is too large or
\* not authentic. The validators of a feed that was answered and cannot be
\* parsed are kept, and so is the message's UID.
UnitBroken(n, u) ==
    /\ rcAt[n] = "fetch" /\ IsNext(n, u)
    /\ unread' = [unread EXCEPT ![n] = @ \ {u}]
    /\ \/ KindAt(n) = "feeds" /\ UNCHANGED <<live, passedOver>>
       \/ /\ KindAt(n) \in {"feeds", "mailbox"}
          /\ Remembers(n, {u}) /\ passedOver' = passedOver \cup {<<RouteOf(n), u>>}
    /\ UNCHANGED <<routeList, offered, saved, rawPosts, rcAt, routeNo, snapshot, read, toStore,
                   storeFails, anyRoute, abandoned>>

\* The newest hits, at most a page; the since-id moves past all of them.
SearchRead(n) ==
    LET page == {u \in unread[n] : Cardinality({v \in unread[n] : v > u}) < PageSize}
    IN  /\ rcAt[n] = "fetch" /\ KindAt(n) = "search" /\ unread[n] # {}
        /\ read' = [read EXCEPT ![n] = @ \cup page] /\ unread' = [unread EXCEPT ![n] = {}]
        /\ Remembers(n, unread[n])
        /\ passedOver' = passedOver \cup ({RouteOf(n)} \X (unread[n] \ page))
        /\ UNCHANGED <<routeList, offered, saved, rawPosts, rcAt, routeNo, snapshot, toStore, storeFails,
                       anyRoute, abandoned>>

\* collect() throws: what it read is lost, what it remembered is kept. Feeds
\* only when none was read. The error may be that of a held host.
FetchFails(n) ==
    /\ rcAt[n] = "fetch" /\ unread[n] # {}
    /\ KindAt(n) = "feeds" => read[n] = {} /\ Cardinality(unread[n]) = 1
    /\ RcGoes(n, "route") /\ routeNo' = [routeNo EXCEPT ![n] = @ + 1]
    /\ \E asked \in {anyRoute[n], TRUE} : anyRoute' = [anyRoute EXCEPT ![n] = asked]
    /\ abandoned' = abandoned \cup ({RouteOf(n)} \X (read[n] \cap live[n][RouteOf(n)].past))
    /\ unread' = [unread EXCEPT ![n] = {}] /\ read' = [read EXCEPT ![n] = {}]
    /\ UNCHANGED <<routeList, offered, saved, rawPosts, live, snapshot, toStore, storeFails, passedOver>>

FetchEnds(n) ==
    /\ rcAt[n] = "fetch" /\ unread[n] = {} /\ RcGoes(n, "store")
    /\ toStore' = [toStore EXCEPT ![n] = {u \in read[n] : <<RouteOf(n), u>> \notin OutOfScope}]
    /\ read' = [read EXCEPT ![n] = {}]
    /\ live' = IF KindAt(n) = "files"
               THEN [live EXCEPT ![n][RouteOf(n)] = [known |-> TRUE, past |-> @.past \cup read[n]]]
               ELSE live
    /\ anyRoute' = [anyRoute EXCEPT ![n] = TRUE]
    /\ UNCHANGED <<routeList, offered, saved, rawPosts, routeNo, snapshot, unread, storeFails,
                   passedOver, abandoned>>

\* storeRawPost: a post that is there already is as good as stored.
StoreUnit(n, u) ==
    /\ rcAt[n] = "store" /\ u \in toStore[n]
    /\ rawPosts' = rawPosts \cup {<<RouteOf(n), u>>}
    /\ toStore' = [toStore EXCEPT ![n] = @ \ {u}]
    /\ UNCHANGED <<routeList, offered, saved, rcAt, routeNo, live, snapshot, unread, read, storeFails,
                   anyRoute, passedOver, abandoned>>

StoreFailed(n, u) ==
    /\ rcAt[n] = "store" /\ u \in toStore[n]
    /\ toStore' = [toStore EXCEPT ![n] = @ \ {u}] /\ storeFails' = [storeFails EXCEPT ![n] = TRUE]
    /\ UNCHANGED <<routeList, offered, saved, rawPosts, rcAt, routeNo, live, snapshot, unread, read,
                   anyRoute, passedOver, abandoned>>

\* Mutant: a route's memory stands although a post of it was not stored.
EndRouteAnyway(n) ==
    /\ rcAt[n] = "store" /\ toStore[n] = {}
    /\ RcGoes(n, "route") /\ routeNo' = [routeNo EXCEPT ![n] = @ + 1]
    /\ storeFails' = [storeFails EXCEPT ![n] = FALSE]
    /\ UNCHANGED <<routeList, offered, saved, rawPosts, live, snapshot, unread, read, toStore, anyRoute,
                   passedOver, abandoned>>

\* One post that could not be stored, and the route's memory is as before it.
EndRoute(n) ==
    /\ rcAt[n] = "store" /\ toStore[n] = {}
    /\ RcGoes(n, "route") /\ routeNo' = [routeNo EXCEPT ![n] = @ + 1]
    /\ live' = IF storeFails[n] THEN [live EXCEPT ![n] = snapshot[n]] ELSE live
    /\ storeFails' = [storeFails EXCEPT ![n] = FALSE]
    /\ UNCHANGED <<routeList, offered, saved, rawPosts, snapshot, unread, read, toStore, anyRoute,
                   passedOver, abandoned>>

\* An error leaves the loop, or the process dies: the row is not written.
RunDies(n) ==
    /\ rcAt[n] # "idle" /\ RunOver(n)
    /\ UNCHANGED <<routeList, offered, saved, rawPosts, passedOver, abandoned>>

\* saveOutcome overwrites the row, unless no route was asked because of holds.
SaveOutcome(n) ==
    /\ rcAt[n] = "route" /\ routeNo[n] > Len(routeList) /\ RunOver(n)
    /\ \/ saved' = live[n]
       \/ ~anyRoute[n] /\ UNCHANGED saved
    /\ UNCHANGED <<routeList, offered, rawPosts, passedOver, abandoned>>

RouteCursorsNext ==
    \/ Offer
    \/ \E n \in RcRuns :
        \/ ClaimSource(n) \/ SkipRoute(n) \/ BeginRoute(n) \/ SearchRead(n) \/ FetchFails(n) \/ FetchEnds(n)
        \/ \E u \in unread[n] : ReadUnit(n, u) \/ UnitBroken(n, u)
        \/ \E u \in toStore[n] : StoreUnit(n, u) \/ StoreFailed(n, u)
        \/ EndRoute(n) \/ RunDies(n) \/ SaveOutcome(n)

RouteCursorsSpec == RouteCursorsInit /\ [][RouteCursorsNext]_RouteCursorsVars

---------------------------------------------------------------------------

Remembered == {ru \in RouteUnits : ru[2] \in saved[ru[1]].past}

\* What the source's row says has been read is stored, dropped by the
\* admission rule, or was never obtained; whatever failed to store, died or
\* overlapped. What a failed fetch had read and remembered is excepted.
NothingSkipped ==
    Remembered \subseteq rawPosts \cup OutOfScope \cup passedOver \cup abandoned

\* A file of a bulk delivery is marked seen only once its records are stored
\* (tests/integration/collect.storefail.test.js).
SeenOnlyOnceStored ==
    {ru \in Remembered : KindOf[ru[1]] = "files"} \subseteq rawPosts \cup OutOfScope
=============================================================================
