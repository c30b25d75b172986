----------------------------- MODULE RateHolds -----------------------------
(***************************************************************************)
(* Rate-limit holds: a host that limits us is not asked again before its   *)
(* time, by any run of any source, and a host that only looks like one is  *)
(* refused in the end.                                                     *)
(*                                                                         *)
(*   src/collectors/rate-limit.js   the records and how two are combined   *)
(*   src/collectors/http.js         when a request is sent, what an answer *)
(*                                  does to the client's holds             *)
(*   src/collectors/state.js        loading and saving them                *)
(*                                                                         *)
(* A run is one runCollection call at one source. A tick stands for the    *)
(* 60 s floor; waits short enough to be slept in a run take none. Of a     *)
(* record's signal only the class (rate limit, server error) is kept, and  *)
(* histories are shorter than STALE_MS.                                    *)
(***************************************************************************)
EXTENDS Naturals, FiniteSets

CONSTANTS
    HoldRuns,
    Sources,
    SourceOf,       \* run -> the source it collects
    Hosts,
    HostsOf,        \* source -> sourceHosts, the hosts its row may hold
    EntryOf,        \* source -> the host its route asks first
    RedirectsTo,    \* host -> hosts it may redirect to
    LastTick,       \* bound: time
    LastLoad,       \* bound: runs
    Cap, ServerCap, NoTimeHold,             \* MAX_BACKOFF, MAX_5XX_HOLD, NO_TIME_429_HOLD
    StreakMax,                              \* STREAK_MAX: where the streaks stop
    EscalateWeak, EscalateStrong, EscalateAny,
    LimitAnswers    \* the limits a host may answer: signal, and how far ahead its time is

Ticks == 0 .. LastTick
Never == 0                      \* no limit has written the streaks
NoTime == 0                     \* the source names no time

ASSUME HoldsAssumption ==
    /\ SourceOf \in [HoldRuns -> Sources] /\ HostsOf \in [Sources -> SUBSET Hosts]
    /\ EntryOf \in [Sources -> Hosts] /\ RedirectsTo \in [Hosts -> SUBSET Hosts]
    /\ LastTick \in Nat /\ LastLoad \in Nat
    /\ Cap \in Nat \ {0} /\ ServerCap \in 1 .. Cap /\ NoTimeHold \in 1 .. Cap
    /\ StreakMax \in Nat \ {0}
    /\ EscalateWeak \in Nat /\ EscalateStrong \in Nat /\ EscalateAny \in Nat

\* The arithmetic of the doubling floor.
ASSUME DoublingAssumption == \A n \in 0 .. StreakMax : 2 ^ n \in Nat

\* rateLimitSignal, and a 5xx with Retry-After. Only the first and the third
\* are evidence without a time.
Signals == {"http_429", "remaining_zero", "body", "body_and_time", "retry_after_5xx"}

ASSUME AnswersAssumption ==
    \A a \in LimitAnswers : /\ a[1] \in Signals /\ a[2] \in Nat
                            /\ a[2] = NoTime => a[1] \in {"http_429", "body"}

Hold == [until : Nat, cause : {"limit", "server"}, count : Nat, weak : Nat, strong : Nat, limitAt : Nat]
NoHold == [until |-> 0, cause |-> "server", count |-> 0, weak |-> 0, strong |-> 0, limitAt |-> Never]

VARIABLES
    tick,
    loads,          \* runs so far
    stored,         \* source, host -> the hold in its row, or NoHold
    \* runs
    rhAt,           \* "idle", "ask", "sent", "save", "clean"
    view,           \* the run's map of holds
    changed,        \* hosts set since the last save
    gone,           \* hosts cleared since the last save
    host,           \* the host of the request under way
    \* the run has cleared these in its row; other rows' copies are next
    cleared, copies,
    \* history
    heard,          \* run -> host -> latest time the run was told
    named,          \* host -> latest time told to a run that saved it
    bound,          \* run -> named, when it loaded
    given, base     \* limits a host gave; up to its last undisputed success

rhWorld == <<tick, loads, stored>>
rhRun == <<view, changed, gone, host, cleared, copies>>
RateHoldsVars == <<rhWorld, rhAt, rhRun, heard, named, bound, given, base>>

\* The type invariant of the stored holds and of the runs.
RateHoldsTypeOK ==
    /\ tick \in Ticks /\ loads \in 0 .. LastLoad
    /\ stored \in [Sources -> [Hosts -> Hold]]
    /\ rhAt \in [HoldRuns -> {"idle", "ask", "sent", "save", "clean"}]
    /\ view \in [HoldRuns -> [Hosts -> Hold]]
    /\ changed \in [HoldRuns -> SUBSET Hosts] /\ gone \in [HoldRuns -> SUBSET Hosts]
    /\ host \in [HoldRuns -> Hosts]
    /\ cleared \in [HoldRuns -> SUBSET Hosts]
    /\ copies \in [HoldRuns -> SUBSET [at : Sources \X Hosts, was : Hold]]
    /\ heard \in [HoldRuns -> [Hosts -> Nat]] /\ named \in [Hosts -> Nat]
    /\ bound \in [HoldRuns -> [Hosts -> Nat]] /\ given \in [Hosts -> Nat] /\ base \in [Hosts -> Nat]

RateHoldsInit ==
    /\ tick = 0 /\ loads = 0
    /\ stored = [s \in Sources |-> [h \in Hosts |-> NoHold]]
    /\ rhAt = [r \in HoldRuns |-> "idle"]
    /\ view = [r \in HoldRuns |-> [h \in Hosts |-> NoHold]]
    /\ changed = [r \in HoldRuns |-> {}] /\ gone = [r \in HoldRuns |-> {}]
    /\ host = [r \in HoldRuns |-> EntryOf[SourceOf[r]]]
    /\ cleared = [r \in HoldRuns |-> {}] /\ copies = [r \in HoldRuns |-> {}]
    /\ heard = [r \in HoldRuns |-> [h \in Hosts |-> 0]]
    /\ named = [h \in Hosts |-> 0]
    /\ bound = [r \in HoldRuns |-> [h \in Hosts |-> 0]]
    /\ given = [h \in Hosts |-> 0] /\ base = [h \in Hosts |-> 0]

Larger(a, b) == IF a > b THEN a ELSE b
Smaller(a, b) == IF a < b THEN a ELSE b

---------------------------------------------------------------------------
(* Records.                                                                *)

Active(e) == e.until > tick

\* The order of causes: the later end, then a rate limit before a server error.
OutlastsCause(a, b) == a.until > b.until \/ (a.until = b.until /\ a.cause = "limit" /\ b.cause = "server")

\* The order of streaks: the later limit, then the longer streaks.
LaterStreak(a, b) ==
    \/ a.limitAt > b.limitAt
    \/ a.limitAt = b.limitAt /\ a.count > b.count
    \/ a.limitAt = b.limitAt /\ a.count = b.count /\ a.weak > b.weak
    \/ a.limitAt = b.limitAt /\ a.count = b.count /\ a.weak = b.weak /\ a.strong > b.strong

\* Mutant: the limits of two records of one host are added.
CombineSum(a, b) ==
    [until |-> Larger(a.until, b.until), cause |-> IF OutlastsCause(b, a) THEN b.cause ELSE a.cause,
     count |-> a.count + b.count, weak |-> a.weak + b.weak, strong |-> a.strong + b.strong,
     limitAt |-> Larger(a.limitAt, b.limitAt)]

CombineHold(a, b) ==
    LET cause   == IF OutlastsCause(b, a) THEN b ELSE a
        streaks == IF LaterStreak(b, a) THEN b ELSE a
    IN  [until |-> Larger(a.until, b.until), cause |-> cause.cause,
         count |-> streaks.count, weak |-> streaks.weak, strong |-> streaks.strong,
         limitAt |-> streaks.limitAt]

\* 60 s doubling with every consecutive limit.
Floor(n) == Smaller(Cap, 2 ^ (n - 1))

OneMore(n) == Smaller(StreakMax, n + 1)

\* The hold after an answer with this signal whose time is `ahead` from now.
NextHold(prev, signal, ahead) ==
    LET server == signal = "retry_after_5xx"
        count  == IF server THEN prev.count ELSE OneMore(prev.count)
        back   == Smaller(Cap, Larger(Floor(IF server THEN 1 ELSE count), ahead))
        wait   == IF server THEN Smaller(back, ServerCap)
                  ELSE IF signal = "http_429" /\ ahead = NoTime THEN Larger(back, NoTimeHold) ELSE back
        until  == tick + wait
    IN  [until   |-> Larger(until, prev.until),
         cause   |-> IF prev.until > until \/ (server /\ prev.until = until) THEN prev.cause
                     ELSE IF server THEN "server" ELSE "limit",
         count   |-> count,
         weak    |-> IF server THEN prev.weak ELSE IF signal = "body" THEN OneMore(prev.weak) ELSE 0,
         strong  |-> IF server THEN prev.strong ELSE IF signal = "remaining_zero" THEN OneMore(prev.strong) ELSE 0,
         limitAt |-> IF server THEN prev.limitAt ELSE tick + 1]

\* The limit is a refusal after all: the run records one (SourceGate).
Escalates(e, signal) ==
    signal # "retry_after_5xx" /\
        \/ signal = "body" /\ e.weak >= EscalateWeak
        \/ e.strong >= EscalateStrong
        \/ e.count >= EscalateAny

---------------------------------------------------------------------------
(* A run: load every source's holds, ask, save.                            *)

RhGoes(r, p) == rhAt' = [rhAt EXCEPT ![r] = p]

\* loadHolds and mergeHolds: the rows are folded in no particular order.
Joined(S, h) ==
    LET top(T)  == CHOOSE e \in T : \A f \in T : ~OutlastsCause(f, e)
        last(T) == CHOOSE e \in T : \A f \in T : ~LaterStreak(f, e)
        es      == {stored[s][h] : s \in S}
    IN  CombineHold(top(es), last(es))

LoadHolds(r) ==
    /\ rhAt[r] = "idle" /\ loads < LastLoad /\ RhGoes(r, "ask")
    /\ loads' = loads + 1
    /\ view' = [view EXCEPT ![r] = [h \in Hosts |-> Joined(Sources, h)]]
    /\ bound' = [bound EXCEPT ![r] = named]
    /\ UNCHANGED <<tick, stored, changed, gone, host, cleared, copies, heard, named, given, base>>

\* raw(): the one place where a request is sent. A held host is not asked.
Send(r) ==
    /\ rhAt[r] = "ask" /\ ~Active(view[r][host[r]]) /\ RhGoes(r, "sent")
    /\ UNCHANGED <<rhWorld, rhRun, heard, named, bound, given, base>>

\* Mutant: a hold learned behind a redirect holds the host behind it alone.
HoldOnlyThis(v, r, h) == v

\* A hold met or learned behind a redirect holds the host asked first, too.
HoldAlso(v, r, h) ==
    LET first == EntryOf[SourceOf[r]]
    IN  IF h = first THEN v ELSE [v EXCEPT ![first] = CombineHold(@, v[h])]

Learns(r, v) ==
    /\ view' = [view EXCEPT ![r] = HoldAlso(v, r, host[r])]
    /\ changed' = [changed EXCEPT ![r] = @ \cup {host[r], EntryOf[SourceOf[r]]}]
    /\ gone' = [gone EXCEPT ![r] = @ \ {host[r], EntryOf[SourceOf[r]]}]

\* holdGate and heldError: before the run is claimed, and before every call.
Refrain(r) ==
    /\ rhAt[r] = "ask" /\ Active(view[r][host[r]]) /\ RhGoes(r, "save")
    /\ view' = [view EXCEPT ![r] = HoldAlso(view[r], r, host[r])]
    /\ changed' = [changed EXCEPT ![r] = IF host[r] = EntryOf[SourceOf[r]] THEN @ ELSE @ \cup {EntryOf[SourceOf[r]]}]
    /\ gone' = [gone EXCEPT ![r] = IF host[r] = EntryOf[SourceOf[r]] THEN @ ELSE @ \ {EntryOf[SourceOf[r]]}]
    /\ UNCHANGED <<rhWorld, host, cleared, copies, heard, named, bound, given, base>>

\* A limit whose time is ahead, or that is out of retries: the host is held.
Limited(r, signal, ahead) ==
    LET e == NextHold(view[r][host[r]], signal, ahead)
    IN  /\ rhAt[r] = "sent"
        /\ RhGoes(r, "save")
        /\ Learns(r, [view[r] EXCEPT ![host[r]] = e])
        /\ heard' = [heard EXCEPT ![r] = [h \in Hosts |->
                IF h \in {host[r], EntryOf[SourceOf[r]]} THEN Larger(@[h], e.until) ELSE @[h]]]
        /\ given' = [given EXCEPT ![host[r]] = @ + (IF signal = "retry_after_5xx" THEN 0 ELSE 1)]
        /\ UNCHANGED <<rhWorld, host, cleared, copies, named, bound, base>>

\* withRetries: a 429 or 5xx with a short wait, or a network error, is retried
\* (PoliteRequest counts how often).
RetryInRun(r) ==
    /\ rhAt[r] = "sent" /\ RhGoes(r, "ask")
    /\ UNCHANGED <<rhWorld, rhRun, heard, named, bound, given, base>>

Redirected(r, h) ==
    /\ rhAt[r] = "sent" /\ h \in RedirectsTo[host[r]] /\ RhGoes(r, "ask")
    /\ host' = [host EXCEPT ![r] = h]
    /\ UNCHANGED <<rhWorld, view, changed, gone, cleared, copies, heard, named, bound, given, base>>

\* A success ends the streak of every host asked, unless a hold is on.
Answered(r) ==
    LET over == {h \in {host[r], EntryOf[SourceOf[r]]} : view[r][h] # NoHold /\ ~Active(view[r][h])}
    IN  /\ rhAt[r] = "sent" /\ RhGoes(r, "save")
        /\ view' = [view EXCEPT ![r] = [h \in Hosts |-> IF h \in over THEN NoHold ELSE @[h]]]
        /\ changed' = [changed EXCEPT ![r] = @ \ over]
        /\ gone' = [gone EXCEPT ![r] = @ \cup over]
        /\ UNCHANGED <<rhWorld, host, cleared, copies, heard, named, bound, given, base>>

\* A refusal, a bot wall, an exhausted retry, the deadline: no hold changes.
OtherEnd(r) ==
    /\ rhAt[r] \in {"ask", "sent"} /\ RhGoes(r, "save")
    /\ UNCHANGED <<rhWorld, rhRun, heard, named, bound, given, base>>

---------------------------------------------------------------------------
(* saveHolds: the row under its lock, then the copies in the other rows.   *)

MayClear(s, h) == ~Active(stored[s][h])

SavedRow(r, s) ==
    [h \in Hosts |->
        CASE h \notin HostsOf[s] -> stored[s][h]
          [] h \in HostsOf[s] /\ h \in gone[r] -> IF MayClear(s, h) THEN NoHold ELSE stored[s][h]
          [] h \in HostsOf[s] /\ h \in changed[r] -> CombineHold(stored[s][h], view[r][h])
          [] OTHER -> IF Active(view[r][h]) THEN CombineHold(stored[s][h], view[r][h]) ELSE stored[s][h]]

\* History: a success counts once every copy of the streak is gone and no
\* other run has loaded one.
RunEnds(r, rows) ==
    /\ stored' = rows /\ RhGoes(r, "idle")
    /\ base' = [h \in Hosts |->
            IF (\A s \in Sources : rows[s][h] = NoHold) /\ (\A q \in HoldRuns \ {r} : rhAt[q] = "idle")
            THEN given[h] ELSE base[h]]
    /\ view' = [view EXCEPT ![r] = [h \in Hosts |-> NoHold]]
    /\ changed' = [changed EXCEPT ![r] = {}] /\ gone' = [gone EXCEPT ![r] = {}]
    /\ host' = [host EXCEPT ![r] = EntryOf[SourceOf[r]]]
    /\ cleared' = [cleared EXCEPT ![r] = {}] /\ copies' = [copies EXCEPT ![r] = {}]
    /\ heard' = [heard EXCEPT ![r] = [h \in Hosts |-> 0]]
    /\ bound' = [bound EXCEPT ![r] = [h \in Hosts |-> 0]]
    /\ UNCHANGED <<tick, loads, given>>

Cleans(r, rows) ==
    /\ stored' = rows /\ RhGoes(r, "clean")
    /\ UNCHANGED <<tick, loads, view, changed, gone, host, heard, bound, given, base>>

SaveHolds(r) ==
    LET s     == SourceOf[r]
        rows  == [stored EXCEPT ![s] = SavedRow(r, s)]
        done  == {h \in HostsOf[s] \cap gone[r] : MayClear(s, h)}
    IN  /\ rhAt[r] = "save"
        /\ named' = [h \in Hosts |-> IF h \in HostsOf[s] THEN Larger(named[h], heard[r][h]) ELSE named[h]]
        /\ \/ done = {} /\ RunEnds(r, rows)
           \/ /\ done # {} /\ Cleans(r, rows)
              /\ cleared' = [cleared EXCEPT ![r] = done] /\ UNCHANGED copies

\* The expired copies of a cleared host in the other rows are read ...
ReadCopies(r, h) ==
    LET others == {s \in Sources \ {SourceOf[r]} : stored[s][h] # NoHold /\ MayClear(s, h)}
    IN  /\ rhAt[r] = "clean" /\ copies[r] = {} /\ h \in cleared[r] /\ UNCHANGED named
        /\ \/ cleared[r] = {h} /\ others = {} /\ RunEnds(r, stored)
           \/ /\ cleared[r] # {h} \/ others # {}
              /\ Cleans(r, stored)
              /\ cleared' = [cleared EXCEPT ![r] = @ \ {h}]
              /\ copies' = [copies EXCEPT ![r] = {[at |-> <<s, h>>, was |-> stored[s][h]] : s \in others}]

\* ... and each is removed if it is still what was read.
DropCopy(r, c) ==
    LET rows == [stored EXCEPT ![c.at[1]][c.at[2]] = IF @ = c.was THEN NoHold ELSE @]
    IN  /\ rhAt[r] = "clean" /\ c \in copies[r] /\ UNCHANGED named
        /\ \/ cleared[r] = {} /\ copies[r] = {c} /\ RunEnds(r, rows)
           \/ /\ cleared[r] # {} \/ copies[r] # {c}
              /\ Cleans(r, rows)
              /\ copies' = [copies EXCEPT ![r] = @ \ {c}] /\ UNCHANGED cleared

HoldTick ==
    /\ tick < LastTick /\ tick' = tick + 1
    /\ UNCHANGED <<loads, stored, rhAt, rhRun, heard, named, bound, given, base>>

RateHoldsNext ==
    \/ HoldTick
    \/ \E r \in HoldRuns :
        \/ LoadHolds(r) \/ Send(r) \/ Refrain(r)
        \/ \E a \in LimitAnswers : Limited(r, a[1], a[2])
        \/ RetryInRun(r) \/ Answered(r) \/ OtherEnd(r)
        \/ \E h \in Hosts : Redirected(r, h)
        \/ SaveHolds(r)
        \/ \E h \in Hosts : ReadCopies(r, h)
        \/ \E c \in copies[r] : DropCopy(r, c)

RateHoldsSpec == RateHoldsInit /\ [][RateHoldsNext]_RateHoldsVars

---------------------------------------------------------------------------
(* Properties.                                                             *)

\* A host is not asked before the time it named to any run that had saved it
\* when this run loaded, whichever source that run served and whatever was
\* saved, merged or cleared since (http.js raw(), "honoured").
HoldHonoured ==
    [][\A r \in HoldRuns : Send(r) => bound[r][host[r]] <= tick]_RateHoldsVars

\* A run that takes a limit for a refusal does so because the host gave that
\* many limits since its last success that no other run overlapped: none is
\* counted twice, none comes back from a row (http.js rateLimitError, state.js
\* saveHolds). A host that redirects shares the streak of the host behind it.
RefusedFairly ==
    [][\A r \in HoldRuns, a \in LimitAnswers :
         LET e == NextHold(view[r][host[r]], a[1], a[2])
         IN  Limited(r, a[1], a[2]) /\ RedirectsTo[host[r]] = {} /\ Escalates(e, a[1])
                => given'[host[r]] - base[host[r]] >=
                        Smaller(EscalateAny, Smaller(EscalateWeak, EscalateStrong))]_RateHoldsVars
=============================================================================
