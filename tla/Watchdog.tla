------------------------------ MODULE Watchdog -----------------------------
(***************************************************************************)
(* The external watchdog: it polls /api/health and the database, keeps the *)
(* conditions it holds open, writes them to alert_events when it can, and  *)
(* e-mails every transition.                                               *)
(*                                                                         *)
(*   src/watchdog/index.js, store.js, notifier.js, conditions.js           *)
(*                                                                         *)
(* One process. Each database statement or transaction and each e-mail is  *)
(* a step; the process may die between any two. The poll number stands for *)
(* the time, and an alert is known by its position in the table.           *)
(***************************************************************************)
EXTENDS Naturals, Sequences, FiniteSets

CONSTANTS
    WdProbes,       \* what a poll may find
    WdPolls,        \* bound: polls
    WdFaults,       \* which faults may happen
    WdMaxFaults,    \* bound: faults
    WdAttempts,     \* MAX_ATTEMPTS of an e-mail
    MailsPerHour,
    HourPolls       \* polls in an hour

WdFaultKinds == {"crash",       \* the process dies, and is started again
                 "fail",        \* a statement fails
                 "lost",        \* a statement is executed, its answer is lost
                 "smtp"}        \* a send fails

\* What /api/health can say of the rest; "failed_cycles" is the half of
\* failed_jobs_abnormal that comes from the database.
FromHealth == {"maintenance_failing", "retention_overdue", "collection_failing",
               "queue_backlog", "failed_jobs_abnormal"}
FromQueues == {"queue_backlog", "failed_jobs_abnormal"}
Conditions == {"web_unreachable", "db_unreachable", "valkey_unreachable", "worker_down"}
              \cup FromHealth

Probe == [answer : {"ok", "5xx", "none"},     \* GET /api/health
          db : BOOLEAN,                       \* the watchdog's own SELECT 1
          dbSaid : BOOLEAN,                   \* health.db_connected
          redis : BOOLEAN,                    \* health.redis.reachable
          beat : {"alive", "stale", "unread"},
          queues : BOOLEAN,                   \* the counts could be read
          bad : SUBSET (FromHealth \cup {"failed_cycles"})]

ASSUME WdAssumption ==
    /\ WdProbes \subseteq Probe /\ WdFaults \subseteq WdFaultKinds
    /\ WdPolls \in Nat /\ WdMaxFaults \in Nat /\ WdAttempts \in Nat \ {0}
    /\ MailsPerHour \in Nat /\ HourPolls \in Nat

VARIABLES
    \* the process
    clock,          \* polls so far
    wdAt,           \* where it is in a poll, or "down"
    probe,          \* what this poll found
    held,           \* active: condition -> since, alert (0: not known)
    opening,        \* conditions that opened in this poll
    clearing,       \* entries that cleared in this poll
    unrecorded,     \* entries that cleared before they had an alert
    toOpen,         \* conditions the synchronisation has still to open
    pending, queue, \* e-mails for the next round, and of this one
    sentAt,         \* e-mails sent
    smtp,           \* SMTP is configured
    \* the database
    alerts,         \* alert_events; told: its "opened" e-mail is settled
    \* faults, history
    wdLeft,
    started,        \* what its start could read: "full", "half", "blind"
    disowned,       \* open alerts that are not of what it holds, or were not
    seen,           \* episodes this process saw open
    decided,        \* "opened" e-mails sent, skipped or given up
    reported        \* those whose outcome was recorded with their alert

wdMind == <<held, opening, clearing, unrecorded, toOpen>>
wdMail == <<pending, queue, sentAt>>
WatchdogVars == <<clock, wdAt, probe, wdMind, wdMail, smtp, alerts, wdLeft, started,
                  disowned, seen, decided, reported>>

Entry == [cond : Conditions, since : Nat, alert : Nat]
Event == [kind : {"opened", "cleared"}, cond : Conditions, since : Nat, alert : Nat, tries : Nat]
Alert == [cond : Conditions, since : Nat, cleared : Nat, told : BOOLEAN]

\* The type invariant of the watchdog and of the alerts it writes.
WatchdogTypeOK ==
    /\ clock \in 0 .. WdPolls /\ probe \in Probe
    /\ wdAt \in {"down", "idle", "open", "close", "late", "enqueue", "mail"}
    /\ DOMAIN held \subseteq Conditions
    /\ \A c \in DOMAIN held : held[c] \in [since : Nat, alert : Nat]
    /\ opening \subseteq DOMAIN held /\ toOpen \subseteq DOMAIN held
    /\ clearing \subseteq Entry /\ unrecorded \subseteq [cond : Conditions, since : Nat, cleared : Nat]
    /\ pending \subseteq Event /\ queue \subseteq Event
    /\ sentAt \subseteq [at : Nat, kind : {"opened", "cleared"}, cond : Conditions]
    /\ smtp \in BOOLEAN /\ alerts \in Seq(Alert) /\ wdLeft \in 0 .. WdMaxFaults
    /\ started \in {"full", "half", "blind"} /\ disowned \subseteq Nat
    /\ seen \subseteq [cond : Conditions, since : Nat]
    /\ decided \subseteq [cond : Conditions, since : Nat] /\ reported \subseteq decided

NoProbe == [answer |-> "none", db |-> FALSE, dbSaid |-> FALSE, redis |-> FALSE,
            beat |-> "unread", queues |-> FALSE, bad |-> {}]
None == [c \in {} |-> [since |-> 0, alert |-> 0]]

WatchdogInit ==
    /\ clock = 0 /\ wdAt = "down" /\ probe = NoProbe
    /\ held = None /\ opening = {} /\ clearing = {} /\ unrecorded = {} /\ toOpen = {}
    /\ pending = {} /\ queue = {} /\ sentAt = {} /\ smtp \in BOOLEAN
    /\ alerts = <<>> /\ wdLeft = WdMaxFaults
    /\ started = "full" /\ disowned = {} /\ seen = {} /\ decided = {} /\ reported = {}

WdSpend(f) == f \in WdFaults /\ wdLeft > 0 /\ wdLeft' = wdLeft - 1

---------------------------------------------------------------------------
(* evaluate: what a probe shows, and what it leaves unknown.               *)

Read(p) == p.answer = "ok"

Detected(p) ==
    {c \in Conditions :
        \/ c = "web_unreachable" /\ ~Read(p) /\ ~(p.answer = "5xx" /\ ~p.db)
        \/ c = "db_unreachable" /\ (~p.db \/ (Read(p) /\ ~p.dbSaid))
        \/ c = "valkey_unreachable" /\ Read(p) /\ ~p.redis
        \/ c = "worker_down" /\ Read(p) /\ p.redis /\ p.beat # "alive"
        \/ c \in p.bad /\ Read(p) /\ (c \in FromQueues => p.queues)
        \/ c = "failed_jobs_abnormal" /\ Read(p) /\ "failed_cycles" \in p.bad}

Unknown(p) ==
    IF ~Read(p) THEN Conditions \ {"web_unreachable", "db_unreachable"}
    ELSE {c \in {"worker_down"} : ~p.redis} \cup {c \in FromQueues : ~p.queues}

---------------------------------------------------------------------------
(* The alert table.                                                        *)

OpenAlertsOf(c) == {i \in DOMAIN alerts : alerts[i].cond = c /\ alerts[i].cleared = 0}

\* Mutant: without the open-alert index, every call inserts.
InsertedAnyway(c) == Append(alerts, [cond |-> c, since |-> held[c].since, cleared |-> 0, told |-> FALSE])

\* openAlert: INSERT ... ON CONFLICT DO NOTHING against the open-alert index.
Inserted(c) ==
    IF OpenAlertsOf(c) # {} THEN alerts
    ELSE Append(alerts, [cond |-> c, since |-> held[c].since, cleared |-> 0, told |-> FALSE])

\* Mutant: an episode is recorded as having begun when it ended.
ClosedRowLate(u) == [cond |-> u.cond, since |-> u.cleared, cleared |-> u.cleared, told |-> FALSE]

ClosedRow(u) == [cond |-> u.cond, since |-> u.since, cleared |-> u.cleared, told |-> FALSE]

---------------------------------------------------------------------------
(* init: what a (re)started watchdog reads back.                           *)

Opened(c, since, a) == [kind |-> "opened", cond |-> c, since |-> since, alert |-> a, tries |-> 0]

StillOpen == {i \in DOMAIN alerts : alerts[i].cleared = 0}

Seeded ==
    [c \in {alerts[i].cond : i \in StillOpen} |->
        LET i == CHOOSE i \in OpenAlertsOf(c) : TRUE
        IN  [since |-> alerts[i].since, alert |-> i]]

\* Mutants: nothing, or everything that is open, is e-mailed after a restart.
NothingUnsettled == {}
AllUnsettled == {Opened(alerts[i].cond, alerts[i].since, i) : i \in StillOpen}

Unsettled == {Opened(alerts[i].cond, alerts[i].since, i) : i \in {j \in StillOpen : ~alerts[j].told}}

WdBegins(h, p, how, forgotten) ==
    /\ wdAt = "down" /\ wdAt' = "idle"
    /\ held' = h /\ pending' = p /\ started' = how /\ disowned' = forgotten
    /\ UNCHANGED <<clock, probe, opening, clearing, unrecorded, toOpen, queue, sentAt, smtp, alerts,
                   seen, decided, reported>>

WdStart == WdBegins(Seeded, Unsettled, "full", {}) /\ UNCHANGED wdLeft

\* The database fails between listOpen and unsettledOpenAlerts.
WdStartHalf == WdSpend("fail") /\ WdBegins(Seeded, {}, "half", {})

\* The database fails before: it starts with no open conditions.
WdStartBlind == WdSpend("fail") /\ WdBegins(None, {}, "blind", StillOpen)

---------------------------------------------------------------------------
(* pollOnce: compare what is detected with what is held open.              *)

Poll(p) ==
    LET opened  == Detected(p) \ DOMAIN held
        cleared == DOMAIN held \ (Detected(p) \cup Unknown(p))
    IN  /\ wdAt = "idle" /\ clock < WdPolls
        /\ clock' = clock + 1 /\ probe' = p
        /\ held' = [c \in (DOMAIN held \ cleared) \cup opened |->
                        IF c \in opened THEN [since |-> clock + 1, alert |-> 0] ELSE held[c]]
        /\ opening' = opened
        /\ clearing' = {[cond |-> c, since |-> held[c].since, alert |-> held[c].alert] : c \in cleared}
        /\ unrecorded' = unrecorded \cup
               {[cond |-> c, since |-> held[c].since, cleared |-> clock + 1] :
                    c \in {d \in cleared : held[d].alert = 0}}
        /\ seen' = seen \cup {[cond |-> c, since |-> clock + 1] : c \in opened}
        /\ disowned' = disowned \cup {i \in StillOpen : alerts[i].cond \in cleared}
        /\ toOpen' = IF p.db THEN DOMAIN held' ELSE {}
        /\ wdAt' = IF p.db THEN "open" ELSE "enqueue"
        /\ UNCHANGED <<wdMail, smtp, alerts, wdLeft, started, decided, reported>>

---------------------------------------------------------------------------
(* _syncDb: three loops, given up at the first error.                      *)

syncOnly == <<clock, probe, opening, clearing, wdMail, smtp, started, disowned, seen, decided, reported>>

OpenAlert(c) ==
    /\ wdAt = "open" /\ c \in toOpen
    /\ toOpen' = toOpen \ {c}
    /\ alerts' = Inserted(c)
    /\ held' = [held EXCEPT ![c].alert =
                    IF OpenAlertsOf(c) # {} THEN CHOOSE i \in OpenAlertsOf(c) : TRUE ELSE Len(alerts) + 1]
    /\ UNCHANGED <<wdAt, unrecorded, wdLeft, syncOnly>>

AllOpen ==
    /\ wdAt = "open" /\ toOpen = {} /\ wdAt' = "close"
    /\ UNCHANGED <<held, unrecorded, toOpen, alerts, wdLeft, syncOnly>>

\* Mutant: an open alert is closed although its condition is unknown.
StaleOrUnknown == {i \in StillOpen : alerts[i].cond \notin DOMAIN held}

Stale == {i \in StillOpen : alerts[i].cond \notin DOMAIN held \cup Unknown(probe)}

CloseAlert(i) ==
    /\ wdAt = "close" /\ i \in Stale
    /\ alerts' = [alerts EXCEPT ![i].cleared = clock]
    /\ UNCHANGED <<wdAt, held, unrecorded, toOpen, wdLeft, syncOnly>>

AllClosed ==
    /\ wdAt = "close" /\ Stale = {} /\ wdAt' = "late"
    /\ UNCHANGED <<held, unrecorded, toOpen, alerts, wdLeft, syncOnly>>

RecordClosed(u) ==
    /\ wdAt = "late" /\ u \in unrecorded
    /\ alerts' = Append(alerts, ClosedRow(u))
    /\ unrecorded' = unrecorded \ {u}
    /\ UNCHANGED <<wdAt, held, toOpen, wdLeft, syncOnly>>

AllRecorded ==
    /\ wdAt = "late" /\ unrecorded = {} /\ wdAt' = "enqueue"
    /\ UNCHANGED <<held, unrecorded, toOpen, alerts, wdLeft, syncOnly>>

SyncFails ==
    /\ wdAt \in {"open", "close", "late"} /\ WdSpend("fail")
    /\ wdAt' = "enqueue" /\ toOpen' = {}
    /\ UNCHANGED <<held, unrecorded, alerts, syncOnly>>

\* The statement was committed; the process learns only of an error.
AnswerLost ==
    /\ \/ wdAt = "open" /\ \E c \in toOpen : alerts' = Inserted(c)
       \/ wdAt = "late" /\ \E u \in unrecorded : alerts' = Append(alerts, ClosedRow(u))
    /\ WdSpend("lost")
    /\ wdAt' = "enqueue" /\ toOpen' = {}
    /\ UNCHANGED <<held, unrecorded, syncOnly>>

---------------------------------------------------------------------------
(* The notifier.                                                           *)

\* The transitions of this poll, with the alert each is known by now.
Enqueue ==
    /\ wdAt = "enqueue" /\ wdAt' = "mail"
    /\ queue' = pending \cup {Opened(c, held[c].since, held[c].alert) : c \in opening}
                        \cup {[kind |-> "cleared", cond |-> e.cond, since |-> e.since,
                               alert |-> e.alert, tries |-> 0] : e \in clearing}
    /\ pending' = {} /\ opening' = {} /\ clearing' = {}
    /\ UNCHANGED <<clock, probe, held, unrecorded, toOpen, sentAt, smtp, alerts, wdLeft, started, disowned, seen,
                   decided, reported>>

LimitReached == Cardinality({s \in sentAt : clock - s.at < HourPolls}) >= MailsPerHour

OpeningOf(m) == [cond |-> m.cond, since |-> m.since]

\* _logNotification: only while the database is up, and it may fail.
Logged(m) ==
    IF probe.db /\ m.alert # 0 /\ m.kind = "opened"
    THEN /\ alerts' = [alerts EXCEPT ![m.alert].told = TRUE]
         /\ reported' = reported \cup {OpeningOf(m)}
    ELSE UNCHANGED <<alerts, reported>>

Settled(m) ==
    /\ queue' = queue \ {m}
    /\ decided' = IF m.kind = "opened" THEN decided \cup {OpeningOf(m)} ELSE decided
    /\ \/ Logged(m) /\ UNCHANGED wdLeft
       \/ WdSpend("fail") /\ UNCHANGED <<alerts, reported>>
    /\ UNCHANGED <<clock, wdAt, probe, wdMind, smtp, started, disowned, seen>>

\* Not configured, or over the hourly limit: recorded as such, never sent.
SkipMail(m) ==
    /\ wdAt = "mail" /\ m \in queue /\ (~smtp \/ LimitReached)
    /\ Settled(m)
    /\ UNCHANGED <<pending, sentAt>>

SendMail(m) ==
    /\ wdAt = "mail" /\ m \in queue /\ smtp /\ ~LimitReached
    /\ sentAt' = sentAt \cup {[at |-> clock, kind |-> m.kind, cond |-> m.cond]}
    /\ Settled(m)
    /\ UNCHANGED pending

SendFails(m) ==
    /\ wdAt = "mail" /\ m \in queue /\ smtp /\ ~LimitReached /\ WdSpend("smtp")
    /\ queue' = queue \ {m}
    /\ LET again == m.tries + 1 < WdAttempts
       IN  /\ pending' = IF again THEN pending \cup {[m EXCEPT !.tries = @ + 1]} ELSE pending
           /\ decided' = IF again \/ m.kind # "opened" THEN decided ELSE decided \cup {OpeningOf(m)}
    /\ UNCHANGED <<clock, wdAt, probe, wdMind, sentAt, smtp, alerts, started, disowned, seen, reported>>

PollEnds ==
    /\ wdAt = "mail" /\ queue = {} /\ wdAt' = "idle"
    /\ UNCHANGED <<clock, probe, wdMind, wdMail, smtp, alerts, wdLeft, started, disowned, seen, decided, reported>>

WdCrash ==
    /\ wdAt # "down" /\ WdSpend("crash")
    /\ wdAt' = "down" /\ held' = None
    /\ opening' = {} /\ clearing' = {} /\ unrecorded' = {} /\ toOpen' = {}
    /\ pending' = {} /\ queue' = {} /\ sentAt' = {} /\ seen' = {} /\ disowned' = {}
    /\ UNCHANGED <<clock, probe, smtp, alerts, started, decided, reported>>

WatchdogNext ==
    \/ WdStart \/ WdStartHalf \/ WdStartBlind
    \/ \E p \in WdProbes : Poll(p)
    \/ \E c \in Conditions : OpenAlert(c)
    \/ \E i \in DOMAIN alerts : CloseAlert(i)
    \/ \E u \in unrecorded : RecordClosed(u)
    \/ AllOpen \/ AllClosed \/ AllRecorded \/ SyncFails \/ AnswerLost
    \/ Enqueue
    \/ \E m \in queue : SkipMail(m) \/ SendMail(m) \/ SendFails(m)
    \/ PollEnds \/ WdCrash

WatchdogSpec == WatchdogInit /\ [][WatchdogNext]_WatchdogVars

---------------------------------------------------------------------------
(* Properties.                                                             *)

\* The alert a held condition is known by is open and is its own.
HeldAlertsOpen ==
    \A c \in DOMAIN held :
        held[c].alert # 0 => /\ held[c].alert \in DOMAIN alerts
                             /\ alerts[held[c].alert].cond = c
                             /\ alerts[held[c].alert].cleared = 0

\* An alert of this condition that was open at this time.
Covers(a, e) == a.cond = e.cond /\ a.since <= e.since /\ (a.cleared = 0 \/ a.cleared >= e.since)

\* "A condition that opened and cleared in between is still recorded": what
\* this process saw open is still held, waits to be recorded, or is covered by
\* an alert, whatever statement failed in between (index.js, _syncDb).
EpisodesKept ==
    /\ HeldAlertsOpen
    /\ \A e \in seen :
        \/ e.cond \in DOMAIN held /\ held[e.cond].since = e.since
        \/ \E u \in unrecorded : u.cond = e.cond /\ u.since = e.since
        \/ \E i \in DOMAIN alerts : Covers(alerts[i], e)

\* The "opened" e-mail of a condition that is held open has been decided (sent,
\* skipped, or given up after its attempts), is recorded as settled with the
\* alert the condition is known by, or is still waiting between two polls,
\* across retries and restarts. A restart whose second query fails is
\* excepted: init then forgets what was unsettled (index.js:92-100).
OpeningsMailed ==
    (wdAt = "idle" /\ started # "half") =>
        \A c \in DOMAIN held :
            \/ [cond |-> c, since |-> held[c].since] \in decided
            \/ held[c].alert # 0 /\ alerts[held[c].alert].told
            \/ \E m \in pending : m.kind = "opened" /\ m.cond = c /\ m.since = held[c].since

\* No "opened" e-mail is sent for an opening whose e-mail was settled and
\* recorded, and none about an alert it was recorded with: not on a retry, and not
\* by a restarted watchdog (index.js, init: it does not e-mail conditions it
\* already reported). Excepted are the alerts the process has disowned: every open
\* one after a start that could not read them (index.js:98-101), whose conditions
\* it finds and e-mails anew; and one that stayed open in the table while the
\* process saw its condition clear, when the condition comes back. An e-mail whose
\* outcome the database did not take is not recorded, and may be repeated.
NotTwice ==
    [][\A m \in queue : SendMail(m) /\ m.kind = "opened" =>
          /\ OpeningOf(m) \notin reported
          /\ m.alert # 0 /\ alerts[m.alert].told => m.alert \in disowned]_WatchdogVars

\* What a probe shows to be absent: it was read, and it was not there.
ShownAbsent(p) ==
    {c \in Conditions :
        \/ c = "web_unreachable" /\ (p.answer = "ok" \/ (p.answer = "5xx" /\ ~p.db))
        \/ c = "db_unreachable" /\ p.db /\ (p.answer = "ok" => p.dbSaid)
        \/ c = "valkey_unreachable" /\ p.answer = "ok" /\ p.redis
        \/ c = "worker_down" /\ p.answer = "ok" /\ p.redis /\ p.beat = "alive"
        \/ c \in FromHealth /\ p.answer = "ok" /\ (c \in FromQueues => p.queues) /\ c \notin p.bad}

\* "An unknown is never reported as a recovery": an open alert is closed only
\* in a poll that could read its condition and found it absent (conditions.js).
ClosedOnEvidence ==
    [][\A i \in DOMAIN alerts : alerts[i].cleared = 0 /\ alerts'[i].cleared # 0
            => alerts[i].cond \in ShownAbsent(probe)]_WatchdogVars

RowOf(a) == [cond |-> a.cond, since |-> a.since, cleared |-> a.cleared]
LedgerRows == [i \in DOMAIN alerts |-> RowOf(alerts[i])]
Ledger == INSTANCE AlertLedger WITH Conds <- Conditions, Times <- 0 .. WdPolls, rows <- LedgerRows

\* The alert table keeps its promise to the dashboard (AlertLedger), whatever
\* the watchdog forgets, repeats or fails to write.
LedgerKept == Ledger!Spec
=============================================================================
